---------------------------- MODULE SessionRenewal ----------------------------
(***************************************************************************)
(* One browser session of packs/auth: a page's requests carry the refresh  *)
(* cookie in parallel once the access token has expired, any node renews   *)
(* it (guard and Refresh, auth.go), and the replies set the cookies in the *)
(* order they happen to arrive, or never do.                               *)
(***************************************************************************)
EXTENDS Integers, FiniteSets

CONSTANTS
    PageRequests,   \* a page's requests in progress at once
    MaxExpiries     \* bound on how often the access token expires

VARIABLES
    row,        \* the row of auth_session
    cookie,     \* the refresh token the browser holds, or NoToken
    access,     \* does it hold an access token that has not expired?
    flight,     \* the page's requests
    expiries,
    rotations,
    lost,       \* a reply was lost
    excused     \* the browser came too late, was overtaken, or the session ended

vars == <<row, cookie, access, flight, expiries, rotations, lost, excused>>

-----------------------------------------------------------------------------

\* Refresh tokens, numbered as they are issued.
NoToken == -1
Token == 0..MaxExpiries
Row == [refresh : Token, prev : Token \cup {NoToken},
        grace : BOOLEAN,        \* rotated_at is within RefreshGrace
        open : BOOLEAN]

\* A reply sets the refresh cookie, sets the access cookie only, clears both, or (503)
\* leaves them.
Flight ==
    [pc : {"idle"}]
        \cup [pc : {"sent", "current", "previous", "check", "access", "clear", "keep"}, token : Token]
        \cup [pc : {"rotated", "set"}, token : Token, new : Token]
Ground == [pc |-> "idle"]

TypeOK ==
    /\ row \in Row
    /\ cookie \in Token \cup {NoToken}
    /\ access \in BOOLEAN
    /\ flight \in [PageRequests -> Flight]
    /\ expiries \in 0..MaxExpiries
    /\ rotations \in Nat
    /\ lost \in BOOLEAN /\ excused \in BOOLEAN

\* After LoginWith, its reply received.
Init ==
    /\ row = [refresh |-> 0, prev |-> NoToken, grace |-> FALSE, open |-> TRUE]
    /\ cookie = 0
    /\ access = TRUE
    /\ flight = [r \in PageRequests |-> Ground]
    /\ expiries = 0
    /\ rotations = 0
    /\ lost = FALSE /\ excused = FALSE

InFlight == {r \in PageRequests : flight[r] # Ground}
Become(r, f) == flight' = [flight EXCEPT ![r] = f]
Turn(r, pc) == Become(r, [pc |-> pc, token |-> flight[r].token])

\* AUTH_ACCESS_TTL after the last renewal.
ExpireAccess ==
    /\ access
    /\ expiries < MaxExpiries
    /\ access' = FALSE
    /\ expiries' = expiries + 1
    /\ UNCHANGED <<row, cookie, flight, rotations, lost, excused>>

Send(r) ==
    /\ flight[r] = Ground
    /\ ~access /\ cookie # NoToken
    /\ Become(r, [pc |-> "sent", token |-> cookie])
    /\ UNCHANGED <<row, cookie, access, expiries, rotations, lost, excused>>

\* Mutant of Known: the token a renewal replaced is not looked for.
KnownCurrent(t) == row.open /\ t = row.refresh

\* Refresh's SELECT: the current token, or within the grace the one it replaced.
Known(t) == row.open /\ (t = row.refresh \/ (t = row.prev /\ row.grace))

Find(r) ==
    LET t == flight[r].token
    IN  /\ flight[r].pc = "sent"
        /\ Turn(r, IF ~Known(t) THEN "clear"
                   ELSE IF t = row.refresh THEN "current" ELSE "previous")
        /\ UNCHANGED <<row, cookie, access, expiries, rotations, lost, excused>>

\* The database failed, now or at a later statement: 503, the cookies untouched.
Fail(r) ==
    /\ flight[r].pc \in {"sent", "current", "previous", "check", "rotated"}
    /\ Turn(r, "keep")
    /\ lost' = (lost \/ flight[r].pc = "rotated")
    /\ UNCHANGED <<row, cookie, access, expiries, rotations, excused>>

\* Mutant of Rotate: the UPDATE does not ask for the token it read.
RotateAnyway(r) ==
    LET t == rotations + 1
    IN  /\ flight[r].pc = "current" /\ t \in Token
        /\ row' = [row EXCEPT !.prev = row.refresh, !.grace = TRUE, !.refresh = t]
        /\ Become(r, [pc |-> "rotated", token |-> flight[r].token, new |-> t])
        /\ rotations' = rotations + 1
        /\ UNCHANGED <<cookie, access, expiries, lost, excused>>

\* The UPDATE ... AND refresh_hash = $3: only the request whose token is still current
\* rotates.  It does not look at revoked_at.
Rotate(r) ==
    LET t == rotations + 1
    IN  /\ flight[r].pc = "current"
        /\ IF row.refresh = flight[r].token
           THEN /\ row' = [row EXCEPT !.prev = row.refresh, !.grace = TRUE, !.refresh = t]
                /\ Become(r, [pc |-> "rotated", token |-> flight[r].token, new |-> t])
                /\ rotations' = t
                /\ excused' = (excused \/ \E p \in InFlight \ {r} :
                                  flight[p].pc = "sent" /\ flight[p].token = row.prev)
           ELSE /\ Turn(r, "check")
                /\ UNCHANGED <<row, rotations, excused>>
        /\ UNCHANGED <<cookie, access, expiries, lost>>

\* A token within the grace renews the access token only.
Renew(r) ==
    /\ flight[r].pc = "previous"
    /\ Turn(r, "check")
    /\ UNCHANGED <<row, cookie, access, expiries, rotations, lost, excused>>

\* sessionActive, after the renewal.
Check(r) ==
    /\ flight[r].pc \in {"check", "rotated"}
    /\ IF ~row.open THEN Turn(r, "clear")
       ELSE IF flight[r].pc = "rotated" THEN Become(r, [flight[r] EXCEPT !.pc = "set"])
       ELSE Turn(r, "access")
    /\ UNCHANGED <<row, cookie, access, expiries, rotations, lost, excused>>

Receive(r) ==
    /\ flight[r].pc \in {"set", "access", "clear", "keep"}
    /\ cookie' = CASE flight[r].pc = "set" -> flight[r].new
                   [] flight[r].pc = "clear" -> NoToken
                   [] OTHER -> cookie
    /\ access' = CASE flight[r].pc \in {"set", "access"} -> TRUE
                   [] flight[r].pc = "clear" -> FALSE
                   [] OTHER -> access
    /\ Become(r, Ground)
    /\ UNCHANGED <<row, expiries, rotations, lost, excused>>

\* A navigation or a closed tab, at any time; a cancelled statement changes nothing.
Lose(r) ==
    /\ flight[r] # Ground
    /\ Become(r, Ground)
    /\ lost' = (lost \/ flight[r].pc \in {"rotated", "set"})
    /\ UNCHANGED <<row, cookie, access, expiries, rotations, excused>>

\* RefreshGrace after the rotation.
EndGrace ==
    /\ row.grace
    /\ row' = [row EXCEPT !.grace = FALSE]
    /\ excused' = (excused \/ cookie = row.prev
                   \/ \E r \in InFlight : flight[r].token = row.prev)
    /\ UNCHANGED <<cookie, access, flight, expiries, rotations, lost>>

\* Logout or RevokeAll elsewhere, or AUTH_REFRESH_TTL without use.
EndSession ==
    /\ row.open
    /\ row' = [row EXCEPT !.open = FALSE]
    /\ excused' = TRUE
    /\ UNCHANGED <<cookie, access, flight, expiries, rotations, lost>>

Next ==
    \/ ExpireAccess \/ EndGrace \/ EndSession
    \/ \E r \in PageRequests :
        Send(r) \/ Find(r) \/ Fail(r) \/ Rotate(r) \/ Renew(r) \/ Check(r)
            \/ Receive(r) \/ Lose(r)

Spec == Init /\ [][Next]_vars

-----------------------------------------------------------------------------

\* "Unconditionally, each rotated in turn and the browser kept whichever reply came
\* last" (auth.go:304): with every reply in and none lost, the browser holds the
\* current token, whichever order the replies came in; with "one rotation per expiry
\* however many requests race" (docs/security.md:44).
HoldsCurrent ==
    /\ rotations <= expiries
    /\ row.open /\ InFlight = {} /\ ~lost /\ cookie # NoToken
        => cookie = row.refresh

\* Parallel requests and lost replies never sign a browser out (auth.go:268): its
\* cookies go only when the session ended, when it came back after the grace with a
\* replaced token, or when a request was overtaken by two rotations.
SignedOutForAReason == cookie = NoToken => excused

\* What refreshing leaves the browser with (Refresh, auth.go:268): the current token, or a
\* reason to have none.
SessionKept == HoldsCurrent /\ SignedOutForAReason
=============================================================================
