---------------------------- MODULE ServiceCall ----------------------------
(***************************************************************************)
(* One call of the client, from the caller to the service and back:        *)
(*                                                                         *)
(*   wrapper    the loop of TokenAutoUpdateClient (token_auto_update_      *)
(*              client.go), or none for a plain Client                     *)
(*   operation  the method that makes the request and reads its answer     *)
(*   request    request.go: attempts until success, a final error or the   *)
(*              deadline; or Client.request: one attempt                   *)
(*   exchange   the HTTP request and the service behind it (external)      *)
(*                                                                         *)
(* An operation is a row (see Operations) that says how its method deals   *)
(* with errors and answers; an entry is what a caller can call: a sequence *)
(* of operations, in a loop.  The entries are a constant here.             *)
(***************************************************************************)
EXTENDS Integers, Sequences

CONSTANTS
  Entry,        \* what can be called
  MaxTryTimes,  \* tries of the wrapper, 3 in CreateTokenAutoUpdateClient and in getCheckPoint
  MaxPolls      \* MaxCompletedRetryCount

Operation == [
  op:     STRING,
  via:    {"project", "client"},
  get:    BOOLEAN,
  checks: SUBSET {"empty", "wrapped", "raw"},
  error:  {"wrapped", "raw"},
  answer: {"ignored", "read", "inner", "wrapped", "raw"},
  closes: BOOLEAN,
  polls:  BOOLEAN,
  after:  {"returns", "exists", "panics", "nilMeta", "assumes"}]

ASSUME CallAssumption ==
  /\ MaxTryTimes \in Nat \ {0} /\ MaxPolls \in Nat \ {0}
  /\ \A e \in Entry : e \in [name: STRING, steps: Seq(Operation), loop: {"none", "token", "any"}]
  /\ \A e \in Entry : e.steps # <<>>

\* What the operations have in common: a response that is dropped is not read either, and the
\* calls of several requests are made of simple writes.
ASSUME OperationAssumption ==
  \A e \in Entry : \A i \in 1..Len(e.steps) :
    LET o == e.steps[i] IN
    /\ ~o.closes => o.answer = "ignored" /\ ~o.polls
    /\ Len(e.steps) > 1 => o.closes /\ o.after # "exists" /\ "empty" \notin o.checks

\* The calls the producer and the consumer make in their goroutines, those that send logs among
\* them.
WorkerCalls ==
  {"PostLogStoreLogsV2", "PostLogStoreLogs", "PutLogs", "PutLogsWithMetricStoreURL",
   "ListConsumerGroup", "CreateConsumerGroup", "UpdateConsumerGroup", "HeartBeat",
   "UpdateCheckpoint", "GetCheckpoint", "getCheckPoint", "GetCursor", "PullLogsWithQuery"}
Sends == {"PostLogStoreLogsV2", "PostLogStoreLogs", "PutLogs", "PutLogsWithMetricStoreURL"}

\* The methods that send make an *Error of an error they get.  An invalid compress type is none.
ASSUME SendAssumption ==
  \A e \in Entry : e.name \in Sends => \A i \in 1..Len(e.steps) :
    LET o == e.steps[i] IN
    /\ e.loop # "any"
    /\ o.error = "wrapped" /\ o.answer \in {"ignored", "inner", "wrapped"}
    /\ "raw" \in o.checks => e.name = "PostLogStoreLogsV2"

VARIABLES
  entry,    \* the call
  pc,       \* where the calling goroutine is
  step,     \* which operation of the entry it is in
  tries,    \* i of the wrapper's loop
  polls,    \* rounds of getToCompleted
  late,     \* the deadline of the request has passed
  stale,    \* the service does not accept the keys of the client (any more)
  fetch,    \* the outcome of the wrapper's last fetchSTSToken
  answer,   \* the last answer of the service to this operation
  error,    \* the error in the goroutine's hands
  open,     \* response bodies that are open
  applied,  \* steps the service has carried out
  fate      \* of the last request of this step, as far as the client can know

vars == <<entry, pc, step, tries, polls, late, stale, fetch, answer, error, open, applied, fate>>

Op == entry.steps[step]

\* Error values: the types the code tells apart, and the code inside.
Code == {"none", "unauthorized", "absent", "refused", "busy", "failing"}
Nil == [type |-> "nil", code |-> "none"]
Transport == [type |-> "url", code |-> "none"]
Plain == [type |-> "other", code |-> "none"]
SlsError(code) == [type |-> "Error", code |-> code]
BadResponse(code) == [type |-> "BadResponse", code |-> code]

\* Mutant: the cause is always wrapped anew.
NewClientErrorHides(e) == SlsError("none")

NewClientError(e) == IF e.type = "Error" THEN e ELSE SlsError("none")

\* Mutant: an operation returns the error as it is.
ReturnedAsIs(how, e) == e
Returned(how, e) == IF how \in {"wrapped", "inner"} THEN NewClientError(e) ELSE e
IsTokenError(e) == e.type = "Error" /\ e.code = "unauthorized"

\* A read is repeated after a transport error and every 5xx, a write only after 500, 502, 503.
FromService(e) == e.type \in {"Error", "BadResponse"}
RetryReadErrorCheck(e) == e.type = "url" \/ (FromService(e) /\ e.code \in {"busy", "failing"})

\* Mutant: writes are repeated as reads are.
RetryWriteLikeRead(e) == RetryReadErrorCheck(e)
RetryWriteErrorCheck(e) == FromService(e) /\ e.code = "busy"
NeedRetry ==
  Op.via = "project" /\ IF Op.get THEN RetryReadErrorCheck(error) ELSE RetryWriteErrorCheck(error)

Goes(from, to) == pc = from /\ pc' = to

Init ==
  /\ entry \in Entry /\ pc = "begin" /\ step = 1 /\ tries = 0 /\ polls = 0
  /\ late = FALSE /\ stale \in BOOLEAN /\ fetch = "none"
  /\ answer = "none" /\ error = Nil /\ open = 0 /\ applied = {} /\ fate = "unsent"
-----------------------------------------------------------------------------
\* The operation before its request: nothing to send, or an argument that cannot be sent.
\* Arguments do not change: what has been sent once has passed the checks.
CheckEnds ==
  /\ pc = "begin" /\ fate = "unsent"
  /\ \/ "empty" \in Op.checks /\ error' = Nil
     \/ "wrapped" \in Op.checks /\ error' = SlsError("none")
     \/ "raw" \in Op.checks /\ error' = Plain
  /\ pc' = IF error' # Nil /\ Op.after \in {"panics", "nilMeta"} THEN "panicked" ELSE "ended"
  /\ UNCHANGED <<entry, step, tries, polls, late, stale, fetch, answer, open, applied, fate>>

StartRequest ==
  /\ Goes("begin", "attempt") /\ late' = FALSE /\ error' = Nil /\ answer' = "none"
  /\ UNCHANGED <<entry, step, tries, polls, stale, fetch, open, applied, fate>>

\* Headers, credentials, signature: an attempt can fail before anything is sent.
AttemptFails ==
  /\ Goes("attempt", "attempted") /\ ~late
  /\ error' \in IF Op.via = "project" THEN {SlsError("none"), Plain} ELSE {Plain}
  /\ UNCHANGED <<entry, step, tries, polls, late, stale, fetch, answer, open, applied, fate>>

Send ==
  /\ Goes("attempt", "sent") /\ ~late
  /\ UNCHANGED <<entry, step, tries, polls, late, stale, fetch, answer, error, open, applied, fate>>

\* context.WithTimeout(retryTimeout): it ends the loop, not the exchange.
DeadlinePasses ==
  /\ Op.via = "project" /\ pc \in {"attempt", "sent", "attempted"} /\ ~late /\ late' = TRUE
  /\ UNCHANGED <<entry, pc, step, tries, polls, stale, fetch, answer, error, open, applied, fate>>

StopRetrying ==
  /\ Goes("attempt", "answered") /\ late /\ error' = Plain
  /\ UNCHANGED <<entry, step, tries, polls, late, stale, fetch, answer, open, applied, fate>>

\* The back-off's own limit of 15 minutes: the last error is returned as it is.
TickerStops ==
  /\ Goes("attempt", "answered") /\ ~late /\ error # Nil
  /\ UNCHANGED <<entry, step, tries, polls, late, stale, fetch, answer, error, open, applied, fate>>

\* Mutant: the deadline starts anew with each attempt.
AttemptDoneNewDeadline ==
  /\ pc = "attempted" /\ pc' = IF error # Nil /\ NeedRetry THEN "attempt" ELSE "answered"
  /\ late' = FALSE
  /\ UNCHANGED <<entry, step, tries, polls, stale, fetch, answer, error, open, applied, fate>>

AttemptDone ==
  /\ pc = "attempted" /\ pc' = IF error # Nil /\ NeedRetry THEN "attempt" ELSE "answered"
  /\ UNCHANGED <<entry, step, tries, polls, late, stale, fetch, answer, error, open, applied, fate>>
-----------------------------------------------------------------------------
\* The exchange.  An error answer that cannot be read is a *BadResponseError in
\* realRequest; Client.request makes an *Error of it, without the service's code.
ErrorAnswer(code) ==
  /\ fate' = code
  /\ \/ answer' = code /\ error' = SlsError(code)
     \/ /\ answer' = "unreadable"
        /\ error' = IF Op.via = "project" THEN BadResponse(code)
                    ELSE SlsError(IF code = "absent" THEN "refused" ELSE code)

Answers == Goes("sent", "attempted") /\ UNCHANGED <<entry, step, tries, polls, late, stale, fetch>>

CarriedOut == applied' = applied \cup {step}

TransportFails ==
  /\ Answers /\ answer' = "lost" /\ error' = Transport /\ fate' = "lost"
  /\ UNCHANGED open /\ (CarriedOut \/ UNCHANGED applied)

Denies == Answers /\ stale /\ ErrorAnswer("unauthorized") /\ UNCHANGED <<open, applied>>

Refuses ==
  /\ Answers /\ ~stale /\ (ErrorAnswer("absent") \/ ErrorAnswer("refused"))
  /\ UNCHANGED <<open, applied>>

\* 500, 502, 503 ("busy") and the other 5xx ("failing"): it may have been carried out.
ServerFails ==
  /\ Answers /\ (ErrorAnswer("busy") \/ ErrorAnswer("failing"))
  /\ UNCHANGED open /\ (CarriedOut \/ UNCHANGED applied)

\* 200.  The body is whole, breaks off ("cut") or is not what is expected ("bad").
Serves ==
  /\ Answers /\ ~stale /\ answer' \in {"whole", "cut", "bad"} /\ error' = Nil
  /\ fate' = "served" /\ open' = open + 1 /\ CarriedOut

KeysExpire ==
  /\ pc \notin {"returned", "panicked"} /\ ~stale /\ stale' = TRUE
  /\ UNCHANGED <<entry, pc, step, tries, polls, late, fetch, answer, error, open, applied, fate>>
-----------------------------------------------------------------------------
HandlerUnchanged == UNCHANGED <<entry, step, tries, polls, late, stale, fetch, answer, applied, fate>>

\* The operation after a request that failed.

\* Mutant: every error of the service means that it does not exist.
IsAbsentAnyError == Op.after = "exists" /\ FromService(error)
IsAbsent == Op.after = "exists" /\ error = SlsError("absent")
HandleError ==
  /\ pc = "answered" /\ error # Nil
  /\ pc' = IF Op.after \in {"panics", "nilMeta"} THEN "panicked" ELSE "ended"
  /\ error' = IF IsAbsent THEN Nil ELSE Returned(Op.error, error)
  /\ UNCHANGED open /\ HandlerUnchanged

\* After a 200 the body is closed (mostly deferred), and understood or not.
Understood ==
  \/ answer = "whole" \/ Op.answer \in {"ignored", "inner"}
  \/ Op.answer = "read" /\ answer = "bad"
Misread == ~Understood \/ (Op.answer = "inner" /\ answer = "bad")

\* Mutant: an early return leaves the body open.
ClosesUnderstood == open' = IF Op.closes /\ Understood THEN open - 1 ELSE open
Closes == open' = IF Op.closes THEN open - 1 ELSE open

HandleAnswer ==
  /\ Goes("answered", "ended") /\ error = Nil /\ Understood /\ Closes
  /\ UNCHANGED error /\ HandlerUnchanged

HandleBadAnswer ==
  /\ pc = "answered" /\ error = Nil /\ Misread /\ Closes
  /\ \/ Op.after # "panics" /\ ~(Op.after = "nilMeta" /\ answer = "cut") /\ pc' = "ended"
     \/ Op.after \in {"panics", "nilMeta"} /\ pc' = "panicked"
     \/ Op.after = "assumes" /\ answer = "bad" /\ pc' = "panicked"
  /\ error' = Returned(Op.answer, Plain)
  /\ HandlerUnchanged

\* getToCompleted: another round while the answer is incomplete, unless it is the last or late.
\* Mutant: the rounds are not counted.
PollAgainForever ==
  /\ Goes("answered", "begin") /\ error = Nil /\ Op.polls /\ Understood /\ Closes
  /\ polls' = polls + 1
  /\ UNCHANGED <<entry, step, tries, late, stale, fetch, answer, error, applied, fate>>

PollAgain ==
  /\ Goes("answered", "begin") /\ error = Nil /\ Op.polls /\ Understood /\ Closes
  /\ polls + 1 < MaxPolls /\ polls' = polls + 1
  /\ UNCHANGED <<entry, step, tries, late, stale, fetch, answer, error, applied, fate>>

NextStep ==
  /\ Goes("ended", "begin") /\ error = Nil /\ step < Len(entry.steps)
  /\ step' = step + 1 /\ fate' = "unsent"
  /\ UNCHANGED <<entry, tries, polls, late, stale, fetch, answer, error, open, applied>>

\* CreateMetricStore panics between its steps when the time to live is out of range.
StepPanics ==
  /\ Goes("ended", "panicked") /\ error = Nil /\ step < Len(entry.steps)
  /\ entry.name = "CreateMetricStore"
  /\ UNCHANGED <<entry, step, tries, polls, late, stale, fetch, answer, error, open, applied, fate>>

EntryDone == error # Nil \/ step = Len(entry.steps)
-----------------------------------------------------------------------------
\* The wrapper's loop.
TryAgain ==
  /\ tries' = tries + 1 /\ step' = 1 /\ polls' = 0
  /\ pc' = IF tries + 1 < MaxTryTimes THEN "begin" ELSE "returned"
  /\ fate' = IF step = 1 THEN fate ELSE "served"
  /\ UNCHANGED <<entry, late, answer, error, open, applied>>

ProcessNoTokenError ==
  /\ Goes("ended", "returned") /\ EntryDone
  /\ entry.loop = "none" \/ error = Nil \/ (entry.loop = "token" /\ ~IsTokenError(error))
  /\ UNCHANGED <<entry, step, tries, polls, late, stale, fetch, answer, error, open, applied, fate>>

\* fetchSTSToken failed, or another fetch was started less than a second ago.
FetchFails ==
  /\ Goes("ended", "returned") /\ entry.loop = "token" /\ IsTokenError(error) /\ fetch' = "failed"
  /\ UNCHANGED <<entry, step, tries, polls, late, stale, answer, error, open, applied, fate>>

FetchSucceeds ==
  /\ pc = "ended" /\ entry.loop = "token" /\ IsTokenError(error)
  /\ fetch' = "done" /\ stale' = FALSE /\ TryAgain

\* PublishAlertEvent and getCheckPoint have loops of their own: every error is tried again, with
\* the same keys.
LoopOnAnyError ==
  /\ pc = "ended" /\ entry.loop = "any" /\ error # Nil /\ TryAgain
  /\ UNCHANGED <<stale, fetch>>
-----------------------------------------------------------------------------
Caller ==
  \/ CheckEnds \/ StartRequest \/ AttemptFails \/ Send \/ StopRetrying \/ TickerStops \/ AttemptDone
  \/ HandleError \/ HandleAnswer \/ HandleBadAnswer \/ PollAgain \/ NextStep \/ StepPanics
  \/ ProcessNoTokenError \/ FetchFails \/ FetchSucceeds \/ LoopOnAnyError
Exchange == TransportFails \/ Denies \/ Refuses \/ ServerFails \/ Serves
Finished == pc \in {"returned", "panicked"} /\ UNCHANGED vars

Next == Caller \/ Exchange \/ DeadlinePasses \/ KeysExpire \/ Finished
Spec == Init /\ [][Next]_vars

\* The goroutine runs, an exchange ends (the HTTP client has a timeout) and time passes.
FairSpec == Spec /\ WF_vars(Caller) /\ WF_vars(Exchange) /\ WF_vars(DeadlinePasses)
-----------------------------------------------------------------------------
ErrorType == [type: {"nil", "url", "other", "Error", "BadResponse"}, code: Code]
Answer == {"none", "lost", "unreadable", "whole", "cut", "bad"} \cup Code

\* The values of the variables.
TypeOK ==
  /\ pc \in {"begin", "attempt", "sent", "attempted", "answered", "ended", "returned", "panicked"}
  /\ step \in 1..Len(entry.steps) /\ tries \in 0..MaxTryTimes /\ polls \in 0..(MaxPolls - 1)
  /\ late \in BOOLEAN /\ stale \in BOOLEAN /\ fetch \in {"none", "failed", "done"}
  /\ answer \in Answer /\ error \in ErrorType /\ open \in Nat
  /\ applied \subseteq 1..Len(entry.steps)
  /\ fate \in {"unsent", "lost", "served"} \cup Code

\* A call that returns no error has done what it says: the service has carried out every
\* request of it, unless there was nothing to send or the answer is that something does not
\* exist.  Retries, wrappers and error handling in between must not lose an error.
AskedAndAbsent(s) == entry.steps[s].after = "exists" /\ answer = "absent"
NothingToSend(s) == "empty" \in entry.steps[s].checks /\ fate = "unsent"
NilMeansDone ==
  pc = "returned" /\ error = Nil =>
    \A s \in 1..Len(entry.steps) : s \in applied \/ AskedAndAbsent(s) \/ NothingToSend(s)

\* Every response the SDK got is closed when the call ends, after any number of attempts,
\* rounds and tries, and also when it ends with an error or a panic.  The exceptions are the
\* six methods that drop the response of a request that succeeded (their rows say so).
BodiesAreClosed ==
  pc \in {"returned", "panicked"} => open = 0 \/ (error = Nil /\ ~Op.closes)

\* A write whose fate the client does not know is not sent again: a second request follows
\* only an answer that refused the first for its keys, or a 500, 502 or 503.  PublishAlertEvent,
\* calls of two steps (the wrapper repeats both) and the polling queries are excepted.
RepeatsAll == entry.loop = "any" \/ Len(entry.steps) > 1 \/ Op.polls
UnknownFateIsNotRepeated ==
  pc = "sent" /\ ~Op.get /\ ~RepeatsAll => fate \in {"unsent", "unauthorized", "busy"}

\* An answer "unauthorized" reaches the caller of a TokenAutoUpdateClient only when no new
\* token could be had or all tries are used up (client_interface.go:53-54).  Every layer must
\* leave the *Error recognisable.  Panics are left out: the deprecated
\* PullLogs and GetLogsBytes of that client end in one (log_store.go:506, :658).
Unauthorized == entry.loop = "token" /\ answer = "unauthorized"
GaveUp == IsTokenError(error) /\ (fetch = "failed" \/ tries = MaxTryTimes)
UnauthorizedIsRetried == pc = "returned" /\ Unauthorized => GaveUp

\* A panic in a goroutine of the producer or the consumer ends the program.  No error, lost
\* answer, answer that breaks off or deadline makes a call of theirs panic: only a 200 whose
\* contents are not what the API describes does (a null in a list, an absurd size), and not
\* when logs are sent.
PanicsOnlyOnBadAnswer ==
  pc = "panicked" /\ entry.name \in WorkerCalls => answer = "bad" /\ entry.name \notin Sends

\* The producer asserts that the error of a send is an *Error (io_worker.go:110), and it is
\* one through every layer, unless the compress type was invalid.
SendErrorIsKnown ==
  pc = "returned" /\ entry.name \in Sends /\ error # Nil =>
    error.type = "Error" \/ (entry.name = "PostLogStoreLogsV2" /\ fate = "unsent")

\* What can fail does not end a worker: neither a call that panics nor the error of a send.
WorkersSurvive == PanicsOnlyOnBadAnswer /\ SendErrorIsKnown

\* Every call ends, however the service answers: attempts by the deadline, rounds and tries by
\* their number.
CallReturns == <>(pc \in {"returned", "panicked"})
=============================================================================
