------------------------------- MODULE LanguageModel -------------------------------
(***************************************************************************)
(* The language-model pack (packs/llm/llm.go): a conversation that runs    *)
(* the app's tools between its calls (Run), a streamed call (Stream) and   *)
(* embeddings (Embeddings), each call with its retries, while the settings *)
(* saved in the admin pages switch the provider (Reconfigure).  The counts *)
(* of calls and tokens are left out.                                       *)
(***************************************************************************)
EXTENDS Naturals

CONSTANTS
    Configs,      \* [provider, attempts, rounds]: LLM_PROVIDER, LLM_MAX_ATTEMPTS, LLM_MAX_TOOL_ROUNDS
    MaxSwitches,  \* the most times the settings are saved
    MaxRuns       \* the most conversations, streams and embeddings

VARIABLES
    model,     \* l.cfg and l.provider, which Reconfigure switches together under l.mu
    chat,      \* what runs: its kind, the call's configuration, attempt, text and round
    sent,      \* the providers the call asked, one for each request sent
    heard,     \* how many of the call's attempts gave the caller text
    switches, runs

modelVars == <<model, chat, sent, heard, switches, runs>>

Attempts == 1..(CHOOSE n \in {c.attempts : c \in Configs} : \A c \in Configs : c.attempts <= n)
Rounds == 0..(CHOOSE n \in {c.rounds : c \in Configs} : \A c \in Configs : c.rounds <= n)
Providers == {c.provider : c \in Configs}
NotRunning(c) ==
    [kind |-> "none", pc |-> "ended", with |-> c, attempt |-> 1, started |-> FALSE, round |-> 0]

TypeOK ==
    /\ model \in Configs
    /\ chat \in [kind : {"none", "run", "stream", "embed"}, with : Configs,
                pc : {"call", "attempt", "sleep", "tools", "ended"},
                attempt : Attempts, started : BOOLEAN, round : Rounds]
    /\ sent \in [Providers -> Nat] /\ heard \in Nat
    /\ switches \in 0..MaxSwitches /\ runs \in 0..MaxRuns

Init ==
    /\ model = CHOOSE c \in Configs : TRUE
    /\ chat = NotRunning(model)
    /\ sent = [p \in Providers |-> 0] /\ heard = 0
    /\ switches = 0 /\ runs = 0

-----------------------------------------------------------------------------

Reconfigure ==
    /\ switches < MaxSwitches
    /\ model' \in Configs \ {model}
    /\ switches' = switches + 1
    /\ UNCHANGED <<chat, sent, heard, runs>>

Begin ==
    /\ chat.pc = "ended" /\ runs < MaxRuns
    /\ \E k \in {"run", "stream", "embed"} : chat' = [chat EXCEPT !.kind = k, !.pc = "call"]
    /\ runs' = runs + 1
    /\ UNCHANGED <<model, sent, heard, switches>>

\* chatNow and embedderNow read the configuration and its provider together.
Call ==
    /\ chat.pc = "call"
    /\ chat' = [chat EXCEPT !.pc = "attempt", !.with = model, !.attempt = 1]
    /\ sent' = [p \in Providers |-> 0] /\ heard' = 0
    /\ UNCHANGED <<model, switches, runs>>

\* Mutant of Server: the provider in force when the attempt begins.
ServerNow == model.provider

\* The provider the call began with.
Server == chat.with.provider

\* Mutant of MayAsk: another attempt after a text the caller has.
MayAskAgain == chat.pc = "attempt"

\* retry's function asks the provider; after a text reached the caller it does not.
MayAsk == chat.pc = "attempt" /\ ~chat.started

\* The request is sent, and its text reaches the caller of Stream as it arrives.
Ask(text) ==
    /\ MayAsk /\ (text => chat.kind = "stream")
    /\ sent' = [sent EXCEPT ![Server] = @ + 1]
    /\ heard' = IF text THEN heard + 1 ELSE heard
    /\ UNCHANGED <<model, switches, runs>>

CallEnds == chat' = NotRunning(chat.with)

\* A reply of Run may ask for tools; any other is the caller's.
Answered ==
    /\ Ask(chat.kind = "stream")
    /\ \/ CallEnds
       \/ chat.kind = "run" /\ chat' = [chat EXCEPT !.pc = "tools"]

\* A rate limit, a server error, a network error or the attempt's deadline, perhaps after
\* some of the text: it pauses for another attempt while one is left.
Failed ==
    \E text \in BOOLEAN :
        /\ Ask(text)
        /\ IF chat.attempt = chat.with.attempts THEN CallEnds
           ELSE chat' = [chat EXCEPT !.pc = "sleep", !.started = text]

\* A status that is not worth another attempt, the callback's own error, the caller gone.
Refused == (\E text \in BOOLEAN : Ask(text)) /\ CallEnds

\* errNoRetry: the last error is the call's.
NotRepeated ==
    /\ chat.pc = "attempt" /\ chat.started
    /\ CallEnds
    /\ UNCHANGED <<model, sent, heard, switches, runs>>

\* The pause ends, or the caller goes meanwhile.
Sleep ==
    /\ chat.pc = "sleep"
    /\ \/ chat' = [chat EXCEPT !.pc = "attempt", !.attempt = @ + 1]
       \/ CallEnds
    /\ UNCHANGED <<model, sent, heard, switches, runs>>

\* Run answers every tool call of the reply, unless the rounds in force are used up.
Tools ==
    /\ chat.pc = "tools"
    /\ IF chat.round + 1 >= model.rounds THEN CallEnds
       ELSE chat' = [chat EXCEPT !.pc = "call", !.round = @ + 1]
    /\ UNCHANGED <<model, sent, heard, switches, runs>>

Next ==
    \/ Reconfigure \/ Begin \/ Call \/ Answered \/ Failed \/ Refused \/ NotRepeated
    \/ Sleep \/ Tools

Spec == Init /\ [][Next]_modelVars

-----------------------------------------------------------------------------

\* "A streamed call is retried only while nothing has reached the caller", and it "runs with
\* one of each, whatever Reconfigure does meanwhile": one provider, one budget of attempts.
CallsKept ==
    /\ heard <= 1
    /\ \A p \in Providers : sent[p] > 0 => p = chat.with.provider /\ sent[p] <= chat.with.attempts
=============================================================================
