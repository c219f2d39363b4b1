------------------------------ MODULE MultipartUpload ------------------------------
(***************************************************************************)
(* An object of a declared size streamed part by part to an S3-compatible  *)
(* service (putMultipart, packs/storage/multipart.go): the upload is       *)
(* begun, the parts are put, and it is completed, or aborted when anything *)
(* fails on the way.  Every answer can be lost, the reader may hold more   *)
(* or less than was declared, and the caller may go at any time.           *)
(***************************************************************************)
EXTENDS Integers

CONSTANTS
    PartSize,  \* multipartPartSize
    MaxSize    \* the largest declared size, in the same unit

VARIABLES
    upload,   \* the call: where it is, its declared size, the reader, how much is put, ctx
    service,  \* the upload of the service, the object at the key, a completion it works on
    result,   \* what the call returned, and whether it tells of an abort that failed
    unknown,  \* the service began an upload, and the answer with its ID was lost
    stray     \* a part sent and given up on: none, on its way, or landed after the abort

uploadVars == <<upload, service, result, unknown, stray>>

NoObject == -1

TypeOK ==
    /\ upload.pc \in {"first", "initiate", "put", "read", "extra", "complete", "abort", "returned"}
    /\ upload.size \in 1..MaxSize /\ upload.holds \in 0..(MaxSize + 1)
    /\ upload.put \in 0..MaxSize /\ upload.live \in BOOLEAN
    /\ service \in [open : BOOLEAN, object : -1..MaxSize, completing : BOOLEAN]
    /\ result \in [status : {"none", "ok", "error"}, tells : BOOLEAN]
    /\ unknown \in BOOLEAN
    /\ stray \in {"none", "sent", "left"}

\* PutMultipart refuses a size of zero and one above the limits before any of this.
Init ==
    /\ upload \in [pc : {"first"}, size : 1..MaxSize, holds : 0..(MaxSize + 1),
                   put : {0}, live : {TRUE}]
    /\ service = [open |-> FALSE, object |-> NoObject, completing |-> FALSE]
    /\ result = [status |-> "none", tells |-> FALSE]
    /\ unknown = FALSE
    /\ stray = "none"

-----------------------------------------------------------------------------

Smaller(a, b) == IF a < b THEN a ELSE b
Remaining == upload.size - upload.put
PartLength == Smaller(PartSize, Remaining)

Goto(pc) == upload' = [upload EXCEPT !.pc = pc]
Return(status, tells) == Goto("returned") /\ result' = [status |-> status, tells |-> tells]

\* The service assembles the parts it is given, and the upload is no more.
Assembled == [open |-> FALSE, object |-> upload.put, completing |-> FALSE]

CallerGoes ==
    /\ upload.pc # "returned" /\ upload.live
    /\ upload' = [upload EXCEPT !.live = FALSE]
    /\ UNCHANGED <<service, result, unknown, stray>>

\* readPart fills the part, or fails: the reader is at its end, or ctx is.
Fills(length) == upload.live /\ upload.holds - upload.put >= length

ReadFirst ==
    /\ upload.pc = "first"
    /\ IF Fills(PartLength) THEN Goto("initiate") /\ UNCHANGED result ELSE Return("error", FALSE)
    /\ UNCHANGED <<service, unknown, stray>>

\* The request is served and answered, served and its answer lost or without an ID, or not
\* served.  There is nothing to abort without the ID.
Initiate ==
    /\ upload.pc = "initiate"
    /\ \/ /\ upload.live
          /\ service' = [service EXCEPT !.open = TRUE]
          /\ \/ Goto("put") /\ UNCHANGED <<result, unknown>>
             \/ Return("error", FALSE) /\ unknown' = TRUE
       \/ Return("error", FALSE) /\ UNCHANGED <<service, unknown>>
    /\ UNCHANGED stray

\* Mutant of GiveUp: what aborts is registered after the parts.
GiveUpUnaborted ==
    IF Remaining > 0 THEN Return("error", FALSE) ELSE Goto("abort") /\ UNCHANGED result

\* The deferred abort.
GiveUp == Goto("abort") /\ UNCHANGED result

\* The part is put, and its ETag kept; or the request fails, also with the part still on its
\* way, or its answer has no ETag.
PutPart ==
    /\ upload.pc = "put"
    /\ \/ /\ upload.live
          /\ upload' = [upload EXCEPT !.put = @ + PartLength,
                                      !.pc = IF Remaining > PartLength THEN "read" ELSE "extra"]
          /\ UNCHANGED <<result, stray>>
       \/ GiveUp /\ (UNCHANGED stray \/ (upload.live /\ stray' = "sent"))
    /\ UNCHANGED <<service, unknown>>

\* External: the part arrives, at an upload that the abort removes with its parts, or after it.
PartLands ==
    /\ stray = "sent"
    /\ stray' = IF service.open THEN "none" ELSE "left"
    /\ UNCHANGED <<upload, service, result, unknown>>

ReadPart ==
    /\ upload.pc = "read"
    /\ IF Fills(PartLength) THEN Goto("put") /\ UNCHANGED result ELSE GiveUp
    /\ UNCHANGED <<service, unknown, stray>>

\* The reader must be at its end.
CheckEnd ==
    /\ upload.pc = "extra"
    /\ IF upload.live /\ ~Fills(1) THEN Goto("complete") /\ UNCHANGED result ELSE GiveUp
    /\ UNCHANGED <<service, unknown, stray>>

\* Mutant of Refuses: a status of 200 is taken for the result.
RefusesUnread == Return("ok", FALSE)

\* The service refuses, also with a status of 200 and an error for a body.
Refuses == GiveUp

\* The service completes the upload and says so; completes it, and the answer is lost or
\* malformed; is still at it when the caller goes; or does not.
Complete ==
    /\ upload.pc = "complete"
    /\ \/ upload.live /\ service' = Assembled /\ (Return("ok", FALSE) \/ GiveUp)
       \/ upload.live /\ service' = [service EXCEPT !.completing = TRUE] /\ GiveUp
       \/ upload.live /\ Refuses /\ UNCHANGED service
       \/ GiveUp /\ UNCHANGED service
    /\ UNCHANGED <<unknown, stray>>

\* External: the completion the service was still at.
CompletesLate ==
    /\ service.completing
    /\ service' = IF service.open THEN Assembled ELSE [service EXCEPT !.completing = FALSE]
    /\ UNCHANGED <<upload, result, unknown, stray>>

\* The abort has a context of its own.  An upload that is no more is ErrNotFound, and well;
\* any other failure is joined to the error.
Abort ==
    /\ upload.pc = "abort"
    /\ \/ /\ service' = [service EXCEPT !.open = FALSE]
          /\ \E lost \in BOOLEAN : Return("error", lost)
       \/ Return("error", TRUE) /\ UNCHANGED service
    /\ UNCHANGED <<unknown, stray>>

Next ==
    \/ CallerGoes \/ ReadFirst \/ Initiate \/ PutPart \/ PartLands \/ ReadPart \/ CheckEnd
    \/ Complete \/ CompletesLate \/ Abort

Spec == Init /\ [][Next]_uploadVars

-----------------------------------------------------------------------------

\* "streams an object of exactly size bytes": an object appears only whole, from a reader that
\* held exactly that; a call that returns without an error left it, and one that returns an
\* error left no upload behind, or says so, or never learned its ID.  A part that lands after
\* the abort is another matter: NoPartLeft.
UploadSettled ==
    /\ service.object # NoObject => service.object = upload.size /\ upload.holds = upload.size
    /\ result.status = "ok" => service.object # NoObject
    /\ result.status # "none" /\ service.open => result.tells \/ unknown

\* An upload that was aborted leaves no part: refuted, a part given up on by a timeout or by the
\* caller's leaving may land after the one abort.
NoPartLeft == stray # "left"

\* A call that returns an error left no object: refuted when the completion's answer is lost.
ErrorMeansNoObject == result.status = "error" => service.object = NoObject
=============================================================================
