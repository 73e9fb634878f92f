------------------------- MODULE ServiceCallProofs -------------------------
(***************************************************************************)
(* Proofs about ServiceCall: what a call may lose on its way through the   *)
(* layers, for any table of operations that meets the assumptions, any     *)
(* number of tries and any number of rounds.                               *)
(***************************************************************************)
EXTENDS ServiceCall, TLAPS

\* The response of a request that succeeded, before the operation has dealt with it.
InHand == pc \in {"attempted", "answered"} /\ error = Nil

\* Open bodies are the one in hand and the one that was dropped.
Accounted ==
  \/ InHand /\ open = 1
  \/ ~InHand /\ open = 0
  \/ pc \in {"ended", "returned"} /\ error = Nil /\ ~Op.closes

\* The steps behind are done, and the one that ends without an error is too.
Progress ==
  /\ \A s \in 1..(step - 1) : s \in applied
  /\ InHand => step \in applied
  /\ pc \in {"ended", "returned"} /\ error = Nil =>
       step \in applied \/ AskedAndAbsent(step) \/ NothingToSend(step)
  /\ pc = "returned" /\ error = Nil => step = Len(entry.steps)
  /\ pc = "returned" \/ tries < MaxTryTimes

\* What the error in hand says of the last answer and the last request.
ErrorTells ==
  /\ pc \in {"attempt", "attempted", "answered"} /\ error = SlsError("absent") => answer = "absent"
  /\ pc = "attempted" /\ error.code = "busy" => fate = "busy"
  /\ pc \in {"attempt", "attempted", "answered", "ended"} /\ error.code = "unauthorized" =>
       fate = "unauthorized"

\* A write is about to be sent, or sent, only after an answer that allows it.
FateAllows ==
  pc \in {"begin", "attempt", "sent"} /\ ~Op.get /\ ~RepeatsAll =>
    fate \in {"unsent", "unauthorized", "busy"}

\* An answer "unauthorized" stays an error that processError recognises.
TokenErrorKept ==
  answer = "unauthorized" =>
    /\ pc \notin {"attempt", "sent"}
    /\ pc \in {"attempted", "answered"} => error = SlsError("unauthorized")
    /\ pc = "ended" => IsTokenError(error)
    /\ pc = "begin" => fate # "unsent"
    /\ pc = "returned" /\ entry.loop = "token" => GaveUp

IInv ==
  /\ entry \in Entry /\ TypeOK /\ Accounted /\ Progress /\ ErrorTells /\ FateAllows /\ TokenErrorKept
-----------------------------------------------------------------------------
\* The operation of the current step is one of the table.
LEMMA OpType ==
  ASSUME entry \in Entry, step \in 1..Len(entry.steps)
  PROVE  /\ Op \in Operation
         /\ ~Op.closes => Op.answer = "ignored" /\ ~Op.polls
         /\ Len(entry.steps) > 1 => Op.closes /\ Op.after # "exists" /\ "empty" \notin Op.checks
         /\ Len(entry.steps) \in Nat \ {0}
BY CallAssumption, OperationAssumption DEF Op

\* The errors the layers make are typed.
LEMMA ErrorsTyped ==
  /\ Nil \in ErrorType /\ Transport \in ErrorType /\ Plain \in ErrorType
  /\ \A c \in Code : SlsError(c) \in ErrorType /\ BadResponse(c) \in ErrorType
BY DEF Nil, Transport, Plain, SlsError, BadResponse, ErrorType, Code

\* Every step keeps the types: a body is only closed when one is open.
LEMMA TypeStep == IInv /\ [Next]_vars => TypeOK'
<1> SUFFICES ASSUME IInv, [Next]_vars PROVE TypeOK'
  OBVIOUS
<1>a. /\ Op \in Operation
      /\ ~Op.closes => Op.answer = "ignored" /\ ~Op.polls
      /\ Len(entry.steps) > 1 => Op.closes /\ Op.after # "exists" /\ "empty" \notin Op.checks
      /\ Len(entry.steps) \in Nat \ {0}
  BY OpType DEF IInv, TypeOK
<1>1. CASE CheckEnds
  BY <1>1, <1>a, CallAssumption DEF IInv, TypeOK, Accounted, InHand, ErrorType, Answer, Code,
     Nil, Transport, Plain, SlsError, BadResponse, CheckEnds, Op
<1>2. CASE StartRequest
  BY <1>2, <1>a, CallAssumption DEF IInv, TypeOK, Accounted, InHand, ErrorType, Answer, Code,
     Nil, Transport, Plain, SlsError, BadResponse, StartRequest, Goes, Op
<1>3. CASE AttemptFails
  BY <1>3, <1>a, CallAssumption DEF IInv, TypeOK, Accounted, InHand, ErrorType, Answer, Code,
     Nil, Transport, Plain, SlsError, BadResponse, AttemptFails, Goes, Op
<1>4. CASE Send
  BY <1>4, <1>a, CallAssumption DEF IInv, TypeOK, Accounted, InHand, ErrorType, Answer, Code,
     Nil, Transport, Plain, SlsError, BadResponse, Send, Goes, Op
<1>5. CASE StopRetrying
  BY <1>5, <1>a, CallAssumption DEF IInv, TypeOK, Accounted, InHand, ErrorType, Answer, Code,
     Nil, Transport, Plain, SlsError, BadResponse, StopRetrying, Goes, Op
<1>6. CASE TickerStops
  BY <1>6, <1>a, CallAssumption DEF IInv, TypeOK, Accounted, InHand, ErrorType, Answer, Code,
     Nil, Transport, Plain, SlsError, BadResponse, TickerStops, Goes, Op
<1>7. CASE AttemptDone
  BY <1>7, <1>a, CallAssumption DEF IInv, TypeOK, Accounted, InHand, ErrorType, Answer, Code,
     Nil, Transport, Plain, SlsError, BadResponse, AttemptDone, NeedRetry, RetryReadErrorCheck,
     RetryWriteErrorCheck, FromService, Op
<1>8. CASE HandleError
  BY <1>8, <1>a, CallAssumption DEF IInv, TypeOK, Accounted, InHand, ErrorType, Answer, Code,
     Nil, Transport, Plain, SlsError, BadResponse, HandleError, HandlerUnchanged, IsAbsent,
     Returned, NewClientError, Op
<1>9. CASE HandleAnswer
  BY <1>9, <1>a, CallAssumption DEF IInv, TypeOK, Accounted, InHand, ErrorType, Answer, Code,
     Nil, Transport, Plain, SlsError, BadResponse, HandleAnswer, HandlerUnchanged, Goes, Closes,
     Understood, Op
<1>10. CASE HandleBadAnswer
  BY <1>10, <1>a, CallAssumption DEF IInv, TypeOK, Accounted, InHand, ErrorType, Answer, Code,
     Nil, Transport, Plain, SlsError, BadResponse, HandleBadAnswer, HandlerUnchanged, Closes,
     Misread, Understood, Returned, NewClientError, Op
<1>11. CASE PollAgain
  BY <1>11, <1>a, CallAssumption DEF IInv, TypeOK, Accounted, InHand, ErrorType, Answer, Code,
     Nil, Transport, Plain, SlsError, BadResponse, PollAgain, Goes, Closes, Understood, Op
<1>12. CASE NextStep
  BY <1>12, <1>a, CallAssumption DEF IInv, TypeOK, Accounted, InHand, ErrorType, Answer, Code,
     Nil, Transport, Plain, SlsError, BadResponse, NextStep, Goes, Op
<1>13. CASE StepPanics
  BY <1>13, <1>a, CallAssumption DEF IInv, TypeOK, Accounted, InHand, ErrorType, Answer, Code,
     Nil, Transport, Plain, SlsError, BadResponse, StepPanics, Goes, Op
<1>14. CASE ProcessNoTokenError
  BY <1>14, <1>a, CallAssumption DEF IInv, TypeOK, Accounted, InHand, ErrorType, Answer, Code,
     Nil, Transport, Plain, SlsError, BadResponse, ProcessNoTokenError, Goes, EntryDone,
     IsTokenError, Op
<1>15. CASE FetchFails
  BY <1>15, <1>a, CallAssumption DEF IInv, TypeOK, Accounted, InHand, ErrorType, Answer, Code,
     Nil, Transport, Plain, SlsError, BadResponse, FetchFails, Goes, IsTokenError, Op
<1>16. CASE FetchSucceeds
  <2>1. tries' \in 0..MaxTryTimes /\ tries' = tries + 1
    BY <1>16, CallAssumption DEF FetchSucceeds, TryAgain, IInv, TypeOK, Progress
  <2>2. step' \in 1..Len(entry'.steps) /\ polls' \in 0..(MaxPolls - 1)
    BY <1>16, <1>a, CallAssumption DEF FetchSucceeds, TryAgain
  <2>3. fate' \in {"unsent", "lost", "served"} \cup Code /\ fetch' = "done" /\ stale' = FALSE
    BY <1>16 DEF FetchSucceeds, TryAgain, IInv, TypeOK
  <2>4. pc' \in {"begin", "returned"} /\ UNCHANGED <<entry, late, answer, error, open, applied>>
    BY <1>16 DEF FetchSucceeds, TryAgain
  <2> QED BY <2>1, <2>2, <2>3, <2>4 DEF IInv, TypeOK
<1>17. CASE LoopOnAnyError
  BY <1>17, <1>a, CallAssumption DEF IInv, TypeOK, Accounted, InHand, ErrorType, Answer, Code,
     Progress, Nil, Transport, Plain, SlsError, BadResponse, LoopOnAnyError, TryAgain, Op
<1>18. CASE TransportFails
  BY <1>18, <1>a, CallAssumption DEF IInv, TypeOK, Accounted, InHand, ErrorType, Answer, Code,
     Nil, Transport, Plain, SlsError, BadResponse, TransportFails, Answers, Goes, CarriedOut, Op
<1>19. CASE Denies
  BY <1>19, <1>a, CallAssumption DEF IInv, TypeOK, Accounted, InHand, ErrorType, Answer, Code,
     Nil, Transport, Plain, SlsError, BadResponse, Denies, Answers, Goes, ErrorAnswer, Op
<1>20. CASE Refuses
  BY <1>20, <1>a, CallAssumption DEF IInv, TypeOK, Accounted, InHand, ErrorType, Answer, Code,
     Nil, Transport, Plain, SlsError, BadResponse, Refuses, Answers, Goes, ErrorAnswer, Op
<1>21. CASE ServerFails
  <2>1. answer' \in Answer /\ error' \in ErrorType /\ fate' \in Code
    BY <1>21, ErrorsTyped DEF ServerFails, ErrorAnswer, Answer, Code
  <2>2. pc' = "attempted" /\ UNCHANGED <<entry, step, tries, polls, late, stale, fetch, open>>
    BY <1>21 DEF ServerFails, Answers, Goes
  <2>3. applied' \subseteq 1..Len(entry.steps)
    BY <1>21 DEF ServerFails, CarriedOut, IInv, TypeOK
  <2> QED BY <2>1, <2>2, <2>3 DEF IInv, TypeOK
<1>22. CASE Serves
  BY <1>22, <1>a, CallAssumption DEF IInv, TypeOK, Accounted, InHand, ErrorType, Answer, Code,
     Nil, Transport, Plain, SlsError, BadResponse, Serves, Answers, Goes, CarriedOut, Op
<1>23. CASE DeadlinePasses
  BY <1>23, <1>a, CallAssumption DEF IInv, TypeOK, Accounted, InHand, ErrorType, Answer, Code,
     Nil, Transport, Plain, SlsError, BadResponse, DeadlinePasses, Op
<1>24. CASE KeysExpire
  BY <1>24, <1>a, CallAssumption DEF IInv, TypeOK, Accounted, InHand, ErrorType, Answer, Code,
     Nil, Transport, Plain, SlsError, BadResponse, KeysExpire, Op
<1>25. CASE Finished \/ UNCHANGED vars
  BY <1>25 DEF IInv, TypeOK, Accounted, InHand, Finished, vars, Op
<1> QED BY <1>1, <1>2, <1>3, <1>4, <1>5, <1>6, <1>7, <1>8, <1>9, <1>10, <1>11, <1>12, <1>13, <1>14, <1>15, <1>16, <1>17, <1>18, <1>19, <1>20, <1>21, <1>22, <1>23, <1>24, <1>25 DEF Next, Caller, Exchange

\* Every step keeps the account of the open bodies.
LEMMA AccountStep == IInv /\ [Next]_vars => Accounted'
<1> SUFFICES ASSUME IInv, [Next]_vars PROVE Accounted'
  OBVIOUS
<1>a. /\ Op \in Operation
      /\ ~Op.closes => Op.answer = "ignored" /\ ~Op.polls
      /\ Len(entry.steps) > 1 => Op.closes /\ Op.after # "exists" /\ "empty" \notin Op.checks
      /\ Len(entry.steps) \in Nat \ {0}
  BY OpType DEF IInv, TypeOK
<1>1. CASE CheckEnds
  BY <1>1, <1>a, CallAssumption DEF IInv, TypeOK, Accounted, InHand, ErrorType, Nil, Transport,
     Plain, SlsError, BadResponse, CheckEnds, Op
<1>2. CASE StartRequest
  BY <1>2, <1>a, CallAssumption DEF IInv, TypeOK, Accounted, InHand, ErrorType, Nil, Transport,
     Plain, SlsError, BadResponse, StartRequest, Goes, Op
<1>3. CASE AttemptFails
  BY <1>3, <1>a, CallAssumption DEF IInv, TypeOK, Accounted, InHand, ErrorType, Nil, Transport,
     Plain, SlsError, BadResponse, AttemptFails, Goes, Op
<1>4. CASE Send
  BY <1>4, <1>a, CallAssumption DEF IInv, TypeOK, Accounted, InHand, ErrorType, Nil, Transport,
     Plain, SlsError, BadResponse, Send, Goes, Op
<1>5. CASE StopRetrying
  BY <1>5, <1>a, CallAssumption DEF IInv, TypeOK, Accounted, InHand, ErrorType, Nil, Transport,
     Plain, SlsError, BadResponse, StopRetrying, Goes, Op
<1>6. CASE TickerStops
  BY <1>6, <1>a, CallAssumption DEF IInv, TypeOK, Accounted, InHand, ErrorType, Nil, Transport,
     Plain, SlsError, BadResponse, TickerStops, Goes, Op
<1>7. CASE AttemptDone
  BY <1>7, <1>a, CallAssumption DEF IInv, TypeOK, Accounted, InHand, ErrorType, Nil, Transport,
     Plain, SlsError, BadResponse, AttemptDone, NeedRetry, RetryReadErrorCheck,
     RetryWriteErrorCheck, FromService, Op
<1>8. CASE HandleError
  BY <1>8, <1>a, CallAssumption DEF IInv, TypeOK, Accounted, InHand, ErrorType, Nil, Transport,
     Plain, SlsError, BadResponse, HandleError, HandlerUnchanged, IsAbsent, Returned,
     NewClientError, Op
<1>9. CASE HandleAnswer
  BY <1>9, <1>a, CallAssumption DEF IInv, TypeOK, Accounted, InHand, ErrorType, Nil, Transport,
     Plain, SlsError, BadResponse, HandleAnswer, HandlerUnchanged, Goes, Closes, Understood, Op
<1>10. CASE HandleBadAnswer
  BY <1>10, <1>a, CallAssumption DEF IInv, TypeOK, Accounted, InHand, ErrorType, Nil, Transport,
     Plain, SlsError, BadResponse, HandleBadAnswer, HandlerUnchanged, Closes, Misread,
     Understood, Returned, NewClientError, Op
<1>11. CASE PollAgain
  BY <1>11, <1>a, CallAssumption DEF IInv, TypeOK, Accounted, InHand, ErrorType, Nil, Transport,
     Plain, SlsError, BadResponse, PollAgain, Goes, Closes, Understood, Op
<1>12. CASE NextStep
  BY <1>12, <1>a, CallAssumption DEF IInv, TypeOK, Accounted, InHand, ErrorType, Nil, Transport,
     Plain, SlsError, BadResponse, NextStep, Goes, Op
<1>13. CASE StepPanics
  BY <1>13, <1>a, CallAssumption DEF IInv, TypeOK, Accounted, InHand, ErrorType, Nil, Transport,
     Plain, SlsError, BadResponse, StepPanics, Goes, Op
<1>14. CASE ProcessNoTokenError
  BY <1>14, <1>a, CallAssumption DEF IInv, TypeOK, Accounted, InHand, ErrorType, Nil, Transport,
     Plain, SlsError, BadResponse, ProcessNoTokenError, Goes, EntryDone, IsTokenError, Op
<1>15. CASE FetchFails
  BY <1>15, <1>a, CallAssumption DEF IInv, TypeOK, Accounted, InHand, ErrorType, Nil, Transport,
     Plain, SlsError, BadResponse, FetchFails, Goes, IsTokenError, Op
<1>16. CASE FetchSucceeds
  BY <1>16, <1>a, CallAssumption DEF IInv, TypeOK, Accounted, InHand, ErrorType, Nil, Transport,
     Plain, SlsError, BadResponse, FetchSucceeds, TryAgain, IsTokenError, Op
<1>17. CASE LoopOnAnyError
  BY <1>17, <1>a, CallAssumption DEF IInv, TypeOK, Accounted, InHand, ErrorType, Nil, Transport,
     Plain, SlsError, BadResponse, LoopOnAnyError, TryAgain, Op
<1>18. CASE TransportFails
  BY <1>18, <1>a, CallAssumption DEF IInv, TypeOK, Accounted, InHand, ErrorType, Nil, Transport,
     Plain, SlsError, BadResponse, TransportFails, Answers, Goes, CarriedOut, Op
<1>19. CASE Denies
  BY <1>19, <1>a, CallAssumption DEF IInv, TypeOK, Accounted, InHand, ErrorType, Nil, Transport,
     Plain, SlsError, BadResponse, Denies, Answers, Goes, ErrorAnswer, Op
<1>20. CASE Refuses
  BY <1>20, <1>a, CallAssumption DEF IInv, TypeOK, Accounted, InHand, ErrorType, Nil, Transport,
     Plain, SlsError, BadResponse, Refuses, Answers, Goes, ErrorAnswer, Op
<1>21. CASE ServerFails
  BY <1>21, <1>a, CallAssumption DEF IInv, TypeOK, Accounted, InHand, ErrorType, Nil, Transport,
     Plain, SlsError, BadResponse, ServerFails, Answers, Goes, ErrorAnswer, CarriedOut, Op
<1>22. CASE Serves
  BY <1>22, <1>a, CallAssumption DEF IInv, TypeOK, Accounted, InHand, ErrorType, Nil, Transport,
     Plain, SlsError, BadResponse, Serves, Answers, Goes, CarriedOut, Op
<1>23. CASE DeadlinePasses
  BY <1>23, <1>a, CallAssumption DEF IInv, TypeOK, Accounted, InHand, ErrorType, Nil, Transport,
     Plain, SlsError, BadResponse, DeadlinePasses, Op
<1>24. CASE KeysExpire
  BY <1>24, <1>a, CallAssumption DEF IInv, TypeOK, Accounted, InHand, ErrorType, Nil, Transport,
     Plain, SlsError, BadResponse, KeysExpire, Op
<1>25. CASE Finished \/ UNCHANGED vars
  BY <1>25 DEF IInv, TypeOK, Accounted, InHand, Finished, vars, Op
<1> QED BY <1>1, <1>2, <1>3, <1>4, <1>5, <1>6, <1>7, <1>8, <1>9, <1>10, <1>11, <1>12, <1>13, <1>14, <1>15, <1>16, <1>17, <1>18, <1>19, <1>20, <1>21, <1>22, <1>23, <1>24, <1>25 DEF Next, Caller, Exchange

\* Every step keeps the record of what is done.
LEMMA ProgressStep == IInv /\ [Next]_vars => Progress'
<1> SUFFICES ASSUME IInv, [Next]_vars PROVE Progress'
  OBVIOUS
<1>a. /\ Op \in Operation
      /\ ~Op.closes => Op.answer = "ignored" /\ ~Op.polls
      /\ Len(entry.steps) > 1 => Op.closes /\ Op.after # "exists" /\ "empty" \notin Op.checks
      /\ Len(entry.steps) \in Nat \ {0}
  BY OpType DEF IInv, TypeOK
<1>1. CASE CheckEnds
  BY <1>1, <1>a, CallAssumption DEF IInv, TypeOK, Progress, InHand, ErrorTells, AskedAndAbsent,
     NothingToSend, ErrorType, Nil, Transport, Plain, SlsError, BadResponse, CheckEnds, Op
<1>2. CASE StartRequest
  BY <1>2, <1>a, CallAssumption DEF IInv, TypeOK, Progress, InHand, ErrorTells, AskedAndAbsent,
     NothingToSend, ErrorType, Nil, Transport, Plain, SlsError, BadResponse, StartRequest, Goes,
     Op
<1>3. CASE AttemptFails
  BY <1>3, <1>a, CallAssumption DEF IInv, TypeOK, Progress, InHand, ErrorTells, AskedAndAbsent,
     NothingToSend, ErrorType, Nil, Transport, Plain, SlsError, BadResponse, AttemptFails, Goes,
     Op
<1>4. CASE Send
  BY <1>4, <1>a, CallAssumption DEF IInv, TypeOK, Progress, InHand, ErrorTells, AskedAndAbsent,
     NothingToSend, ErrorType, Nil, Transport, Plain, SlsError, BadResponse, Send, Goes, Op
<1>5. CASE StopRetrying
  BY <1>5, <1>a, CallAssumption DEF IInv, TypeOK, Progress, InHand, ErrorTells, AskedAndAbsent,
     NothingToSend, ErrorType, Nil, Transport, Plain, SlsError, BadResponse, StopRetrying, Goes,
     Op
<1>6. CASE TickerStops
  BY <1>6, <1>a, CallAssumption DEF IInv, TypeOK, Progress, InHand, ErrorTells, AskedAndAbsent,
     NothingToSend, ErrorType, Nil, Transport, Plain, SlsError, BadResponse, TickerStops, Goes,
     Op
<1>7. CASE AttemptDone
  BY <1>7, <1>a, CallAssumption DEF IInv, TypeOK, Progress, InHand, ErrorTells, AskedAndAbsent,
     NothingToSend, ErrorType, Nil, Transport, Plain, SlsError, BadResponse, AttemptDone,
     NeedRetry, RetryReadErrorCheck, RetryWriteErrorCheck, FromService, Op
<1>8. CASE HandleError
  BY <1>8, <1>a, CallAssumption DEF IInv, TypeOK, Progress, InHand, ErrorTells, AskedAndAbsent,
     NothingToSend, ErrorType, Nil, Transport, Plain, SlsError, BadResponse, HandleError,
     HandlerUnchanged, IsAbsent, Returned, NewClientError, Op
<1>9. CASE HandleAnswer
  BY <1>9, <1>a, CallAssumption DEF IInv, TypeOK, Progress, InHand, ErrorTells, AskedAndAbsent,
     NothingToSend, ErrorType, Nil, Transport, Plain, SlsError, BadResponse, HandleAnswer,
     HandlerUnchanged, Goes, Closes, Understood, Op
<1>10. CASE HandleBadAnswer
  BY <1>10, <1>a, CallAssumption DEF IInv, TypeOK, Progress, InHand, ErrorTells, AskedAndAbsent,
     NothingToSend, ErrorType, Nil, Transport, Plain, SlsError, BadResponse, HandleBadAnswer,
     HandlerUnchanged, Closes, Misread, Understood, Returned, NewClientError, Op
<1>11. CASE PollAgain
  BY <1>11, <1>a, CallAssumption DEF IInv, TypeOK, Progress, InHand, ErrorTells, AskedAndAbsent,
     NothingToSend, ErrorType, Nil, Transport, Plain, SlsError, BadResponse, PollAgain, Goes,
     Closes, Understood, Op
<1>12. CASE NextStep
  BY <1>12, <1>a, CallAssumption DEF IInv, TypeOK, Progress, InHand, ErrorTells, AskedAndAbsent,
     NothingToSend, ErrorType, Nil, Transport, Plain, SlsError, BadResponse, NextStep, Goes, Op
<1>13. CASE StepPanics
  BY <1>13, <1>a, CallAssumption DEF IInv, TypeOK, Progress, InHand, ErrorTells, AskedAndAbsent,
     NothingToSend, ErrorType, Nil, Transport, Plain, SlsError, BadResponse, StepPanics, Goes,
     Op
<1>14. CASE ProcessNoTokenError
  BY <1>14, <1>a, CallAssumption DEF IInv, TypeOK, Progress, InHand, ErrorTells, AskedAndAbsent,
     NothingToSend, ErrorType, Nil, Transport, Plain, SlsError, BadResponse,
     ProcessNoTokenError, Goes, EntryDone, IsTokenError, Op
<1>15. CASE FetchFails
  BY <1>15, <1>a, CallAssumption DEF IInv, TypeOK, Progress, InHand, ErrorTells, AskedAndAbsent,
     NothingToSend, ErrorType, Nil, Transport, Plain, SlsError, BadResponse, FetchFails, Goes,
     IsTokenError, Op
<1>16. CASE FetchSucceeds
  BY <1>16, <1>a, CallAssumption DEF IInv, TypeOK, Progress, InHand, ErrorTells, AskedAndAbsent,
     NothingToSend, ErrorType, Nil, Transport, Plain, SlsError, BadResponse, FetchSucceeds,
     TryAgain, IsTokenError, Op
<1>17. CASE LoopOnAnyError
  BY <1>17, <1>a, CallAssumption DEF IInv, TypeOK, Progress, InHand, ErrorTells, AskedAndAbsent,
     NothingToSend, ErrorType, Nil, Transport, Plain, SlsError, BadResponse, LoopOnAnyError,
     TryAgain, Op
<1>18. CASE TransportFails
  BY <1>18, <1>a, CallAssumption DEF IInv, TypeOK, Progress, InHand, ErrorTells, AskedAndAbsent,
     NothingToSend, ErrorType, Nil, Transport, Plain, SlsError, BadResponse, TransportFails,
     Answers, Goes, CarriedOut, Op
<1>19. CASE Denies
  BY <1>19, <1>a, CallAssumption DEF IInv, TypeOK, Progress, InHand, ErrorTells, AskedAndAbsent,
     NothingToSend, ErrorType, Nil, Transport, Plain, SlsError, BadResponse, Denies, Answers,
     Goes, ErrorAnswer, Op
<1>20. CASE Refuses
  BY <1>20, <1>a, CallAssumption DEF IInv, TypeOK, Progress, InHand, ErrorTells, AskedAndAbsent,
     NothingToSend, ErrorType, Nil, Transport, Plain, SlsError, BadResponse, Refuses, Answers,
     Goes, ErrorAnswer, Op
<1>21. CASE ServerFails
  BY <1>21, <1>a, CallAssumption DEF IInv, TypeOK, Progress, InHand, ErrorTells, AskedAndAbsent,
     NothingToSend, ErrorType, Nil, Transport, Plain, SlsError, BadResponse, ServerFails,
     Answers, Goes, ErrorAnswer, CarriedOut, Op
<1>22. CASE Serves
  BY <1>22, <1>a, CallAssumption DEF IInv, TypeOK, Progress, InHand, ErrorTells, AskedAndAbsent,
     NothingToSend, ErrorType, Nil, Transport, Plain, SlsError, BadResponse, Serves, Answers,
     Goes, CarriedOut, Op
<1>23. CASE DeadlinePasses
  BY <1>23, <1>a, CallAssumption DEF IInv, TypeOK, Progress, InHand, ErrorTells, AskedAndAbsent,
     NothingToSend, ErrorType, Nil, Transport, Plain, SlsError, BadResponse, DeadlinePasses, Op
<1>24. CASE KeysExpire
  BY <1>24, <1>a, CallAssumption DEF IInv, TypeOK, Progress, InHand, ErrorTells, AskedAndAbsent,
     NothingToSend, ErrorType, Nil, Transport, Plain, SlsError, BadResponse, KeysExpire, Op
<1>25. CASE Finished \/ UNCHANGED vars
  BY <1>25 DEF IInv, TypeOK, Progress, InHand, ErrorTells, AskedAndAbsent, NothingToSend, Finished, vars, Op
<1> QED BY <1>1, <1>2, <1>3, <1>4, <1>5, <1>6, <1>7, <1>8, <1>9, <1>10, <1>11, <1>12, <1>13, <1>14, <1>15, <1>16, <1>17, <1>18, <1>19, <1>20, <1>21, <1>22, <1>23, <1>24, <1>25 DEF Next, Caller, Exchange

\* Every step keeps what the error tells.
LEMMA TellsStep == IInv /\ [Next]_vars => ErrorTells'
<1> SUFFICES ASSUME IInv, [Next]_vars PROVE ErrorTells'
  OBVIOUS
<1>a. /\ Op \in Operation
      /\ ~Op.closes => Op.answer = "ignored" /\ ~Op.polls
      /\ Len(entry.steps) > 1 => Op.closes /\ Op.after # "exists" /\ "empty" \notin Op.checks
      /\ Len(entry.steps) \in Nat \ {0}
  BY OpType DEF IInv, TypeOK
<1>1. CASE CheckEnds
  BY <1>1, <1>a, CallAssumption DEF IInv, TypeOK, ErrorTells, ErrorType, Code, Nil, Transport,
     Plain, SlsError, BadResponse, CheckEnds, Op
<1>2. CASE StartRequest
  BY <1>2, <1>a, CallAssumption DEF IInv, TypeOK, ErrorTells, ErrorType, Code, Nil, Transport,
     Plain, SlsError, BadResponse, StartRequest, Goes, Op
<1>3. CASE AttemptFails
  BY <1>3, <1>a, CallAssumption DEF IInv, TypeOK, ErrorTells, ErrorType, Code, Nil, Transport,
     Plain, SlsError, BadResponse, AttemptFails, Goes, Op
<1>4. CASE Send
  BY <1>4, <1>a, CallAssumption DEF IInv, TypeOK, ErrorTells, ErrorType, Code, Nil, Transport,
     Plain, SlsError, BadResponse, Send, Goes, Op
<1>5. CASE StopRetrying
  BY <1>5, <1>a, CallAssumption DEF IInv, TypeOK, ErrorTells, ErrorType, Code, Nil, Transport,
     Plain, SlsError, BadResponse, StopRetrying, Goes, Op
<1>6. CASE TickerStops
  BY <1>6, <1>a, CallAssumption DEF IInv, TypeOK, ErrorTells, ErrorType, Code, Nil, Transport,
     Plain, SlsError, BadResponse, TickerStops, Goes, Op
<1>7. CASE AttemptDone
  BY <1>7, <1>a, CallAssumption DEF IInv, TypeOK, ErrorTells, ErrorType, Code, Nil, Transport,
     Plain, SlsError, BadResponse, AttemptDone, NeedRetry, RetryReadErrorCheck,
     RetryWriteErrorCheck, FromService, Op
<1>8. CASE HandleError
  BY <1>8, <1>a, CallAssumption DEF IInv, TypeOK, ErrorTells, ErrorType, Code, Nil, Transport,
     Plain, SlsError, BadResponse, HandleError, HandlerUnchanged, IsAbsent, Returned,
     NewClientError, Op
<1>9. CASE HandleAnswer
  BY <1>9, <1>a, CallAssumption DEF IInv, TypeOK, ErrorTells, ErrorType, Code, Nil, Transport,
     Plain, SlsError, BadResponse, HandleAnswer, HandlerUnchanged, Goes, Closes, Understood, Op
<1>10. CASE HandleBadAnswer
  BY <1>10, <1>a, CallAssumption DEF IInv, TypeOK, ErrorTells, ErrorType, Code, Nil, Transport,
     Plain, SlsError, BadResponse, HandleBadAnswer, HandlerUnchanged, Closes, Misread,
     Understood, Returned, NewClientError, Op
<1>11. CASE PollAgain
  BY <1>11, <1>a, CallAssumption DEF IInv, TypeOK, ErrorTells, ErrorType, Code, Nil, Transport,
     Plain, SlsError, BadResponse, PollAgain, Goes, Closes, Understood, Op
<1>12. CASE NextStep
  BY <1>12, <1>a, CallAssumption DEF IInv, TypeOK, ErrorTells, ErrorType, Code, Nil, Transport,
     Plain, SlsError, BadResponse, NextStep, Goes, Op
<1>13. CASE StepPanics
  BY <1>13, <1>a, CallAssumption DEF IInv, TypeOK, ErrorTells, ErrorType, Code, Nil, Transport,
     Plain, SlsError, BadResponse, StepPanics, Goes, Op
<1>14. CASE ProcessNoTokenError
  BY <1>14, <1>a, CallAssumption DEF IInv, TypeOK, ErrorTells, ErrorType, Code, Nil, Transport,
     Plain, SlsError, BadResponse, ProcessNoTokenError, Goes, EntryDone, IsTokenError, Op
<1>15. CASE FetchFails
  BY <1>15, <1>a, CallAssumption DEF IInv, TypeOK, ErrorTells, ErrorType, Code, Nil, Transport,
     Plain, SlsError, BadResponse, FetchFails, Goes, IsTokenError, Op
<1>16. CASE FetchSucceeds
  BY <1>16, <1>a, CallAssumption DEF IInv, TypeOK, ErrorTells, ErrorType, Code, Nil, Transport,
     Plain, SlsError, BadResponse, FetchSucceeds, TryAgain, IsTokenError, Op
<1>17. CASE LoopOnAnyError
  BY <1>17, <1>a, CallAssumption DEF IInv, TypeOK, ErrorTells, ErrorType, Code, Nil, Transport,
     Plain, SlsError, BadResponse, LoopOnAnyError, TryAgain, Op
<1>18. CASE TransportFails
  BY <1>18, <1>a, CallAssumption DEF IInv, TypeOK, ErrorTells, ErrorType, Code, Nil, Transport,
     Plain, SlsError, BadResponse, TransportFails, Answers, Goes, CarriedOut, Op
<1>19. CASE Denies
  BY <1>19, <1>a, CallAssumption DEF IInv, TypeOK, ErrorTells, ErrorType, Code, Nil, Transport,
     Plain, SlsError, BadResponse, Denies, Answers, Goes, ErrorAnswer, Op
<1>20. CASE Refuses
  BY <1>20, <1>a, CallAssumption DEF IInv, TypeOK, ErrorTells, ErrorType, Code, Nil, Transport,
     Plain, SlsError, BadResponse, Refuses, Answers, Goes, ErrorAnswer, Op
<1>21. CASE ServerFails
  BY <1>21, <1>a, CallAssumption DEF IInv, TypeOK, ErrorTells, ErrorType, Code, Nil, Transport,
     Plain, SlsError, BadResponse, ServerFails, Answers, Goes, ErrorAnswer, CarriedOut, Op
<1>22. CASE Serves
  BY <1>22, <1>a, CallAssumption DEF IInv, TypeOK, ErrorTells, ErrorType, Code, Nil, Transport,
     Plain, SlsError, BadResponse, Serves, Answers, Goes, CarriedOut, Op
<1>23. CASE DeadlinePasses
  BY <1>23, <1>a, CallAssumption DEF IInv, TypeOK, ErrorTells, ErrorType, Code, Nil, Transport,
     Plain, SlsError, BadResponse, DeadlinePasses, Op
<1>24. CASE KeysExpire
  BY <1>24, <1>a, CallAssumption DEF IInv, TypeOK, ErrorTells, ErrorType, Code, Nil, Transport,
     Plain, SlsError, BadResponse, KeysExpire, Op
<1>25. CASE Finished \/ UNCHANGED vars
  BY <1>25 DEF IInv, TypeOK, ErrorTells, Finished, vars, Op
<1> QED BY <1>1, <1>2, <1>3, <1>4, <1>5, <1>6, <1>7, <1>8, <1>9, <1>10, <1>11, <1>12, <1>13, <1>14, <1>15, <1>16, <1>17, <1>18, <1>19, <1>20, <1>21, <1>22, <1>23, <1>24, <1>25 DEF Next, Caller, Exchange

\* No step sends a write again whose fate is not known.
LEMMA FateStep == IInv /\ [Next]_vars => FateAllows'
<1> SUFFICES ASSUME IInv, [Next]_vars PROVE FateAllows'
  OBVIOUS
<1>a. /\ Op \in Operation
      /\ ~Op.closes => Op.answer = "ignored" /\ ~Op.polls
      /\ Len(entry.steps) > 1 => Op.closes /\ Op.after # "exists" /\ "empty" \notin Op.checks
      /\ Len(entry.steps) \in Nat \ {0}
  BY OpType DEF IInv, TypeOK
<1>1. CASE CheckEnds
  BY <1>1, <1>a, CallAssumption DEF IInv, TypeOK, FateAllows, ErrorTells, RepeatsAll, ErrorType,
     Nil, Transport, Plain, SlsError, BadResponse, CheckEnds, Op
<1>2. CASE StartRequest
  BY <1>2, <1>a, CallAssumption DEF IInv, TypeOK, FateAllows, ErrorTells, RepeatsAll, ErrorType,
     Nil, Transport, Plain, SlsError, BadResponse, StartRequest, Goes, Op
<1>3. CASE AttemptFails
  BY <1>3, <1>a, CallAssumption DEF IInv, TypeOK, FateAllows, ErrorTells, RepeatsAll, ErrorType,
     Nil, Transport, Plain, SlsError, BadResponse, AttemptFails, Goes, Op
<1>4. CASE Send
  BY <1>4, <1>a, CallAssumption DEF IInv, TypeOK, FateAllows, ErrorTells, RepeatsAll, ErrorType,
     Nil, Transport, Plain, SlsError, BadResponse, Send, Goes, Op
<1>5. CASE StopRetrying
  BY <1>5, <1>a, CallAssumption DEF IInv, TypeOK, FateAllows, ErrorTells, RepeatsAll, ErrorType,
     Nil, Transport, Plain, SlsError, BadResponse, StopRetrying, Goes, Op
<1>6. CASE TickerStops
  BY <1>6, <1>a, CallAssumption DEF IInv, TypeOK, FateAllows, ErrorTells, RepeatsAll, ErrorType,
     Nil, Transport, Plain, SlsError, BadResponse, TickerStops, Goes, Op
<1>7. CASE AttemptDone
  BY <1>7, <1>a, CallAssumption DEF IInv, TypeOK, FateAllows, ErrorTells, RepeatsAll, ErrorType,
     Nil, Transport, Plain, SlsError, BadResponse, AttemptDone, NeedRetry, RetryReadErrorCheck,
     RetryWriteErrorCheck, FromService, Op
<1>8. CASE HandleError
  BY <1>8, <1>a, CallAssumption DEF IInv, TypeOK, FateAllows, ErrorTells, RepeatsAll, ErrorType,
     Nil, Transport, Plain, SlsError, BadResponse, HandleError, HandlerUnchanged, IsAbsent,
     Returned, NewClientError, Op
<1>9. CASE HandleAnswer
  BY <1>9, <1>a, CallAssumption DEF IInv, TypeOK, FateAllows, ErrorTells, RepeatsAll, ErrorType,
     Nil, Transport, Plain, SlsError, BadResponse, HandleAnswer, HandlerUnchanged, Goes, Closes,
     Understood, Op
<1>10. CASE HandleBadAnswer
  BY <1>10, <1>a, CallAssumption DEF IInv, TypeOK, FateAllows, ErrorTells, RepeatsAll,
     ErrorType, Nil, Transport, Plain, SlsError, BadResponse, HandleBadAnswer, HandlerUnchanged,
     Closes, Misread, Understood, Returned, NewClientError, Op
<1>11. CASE PollAgain
  BY <1>11, <1>a, CallAssumption DEF IInv, TypeOK, FateAllows, ErrorTells, RepeatsAll,
     ErrorType, Nil, Transport, Plain, SlsError, BadResponse, PollAgain, Goes, Closes,
     Understood, Op
<1>12. CASE NextStep
  BY <1>12, <1>a, CallAssumption DEF IInv, TypeOK, FateAllows, ErrorTells, RepeatsAll,
     ErrorType, Nil, Transport, Plain, SlsError, BadResponse, NextStep, Goes, Op
<1>13. CASE StepPanics
  BY <1>13, <1>a, CallAssumption DEF IInv, TypeOK, FateAllows, ErrorTells, RepeatsAll,
     ErrorType, Nil, Transport, Plain, SlsError, BadResponse, StepPanics, Goes, Op
<1>14. CASE ProcessNoTokenError
  BY <1>14, <1>a, CallAssumption DEF IInv, TypeOK, FateAllows, ErrorTells, RepeatsAll,
     ErrorType, Nil, Transport, Plain, SlsError, BadResponse, ProcessNoTokenError, Goes,
     EntryDone, IsTokenError, Op
<1>15. CASE FetchFails
  BY <1>15, <1>a, CallAssumption DEF IInv, TypeOK, FateAllows, ErrorTells, RepeatsAll,
     ErrorType, Nil, Transport, Plain, SlsError, BadResponse, FetchFails, Goes, IsTokenError, Op
<1>16. CASE FetchSucceeds
  BY <1>16, <1>a, CallAssumption DEF IInv, TypeOK, FateAllows, ErrorTells, RepeatsAll,
     ErrorType, Nil, Transport, Plain, SlsError, BadResponse, FetchSucceeds, TryAgain,
     IsTokenError, Op
<1>17. CASE LoopOnAnyError
  BY <1>17, <1>a, CallAssumption DEF IInv, TypeOK, FateAllows, ErrorTells, RepeatsAll,
     ErrorType, Nil, Transport, Plain, SlsError, BadResponse, LoopOnAnyError, TryAgain, Op
<1>18. CASE TransportFails
  BY <1>18, <1>a, CallAssumption DEF IInv, TypeOK, FateAllows, ErrorTells, RepeatsAll,
     ErrorType, Nil, Transport, Plain, SlsError, BadResponse, TransportFails, Answers, Goes,
     CarriedOut, Op
<1>19. CASE Denies
  BY <1>19, <1>a, CallAssumption DEF IInv, TypeOK, FateAllows, ErrorTells, RepeatsAll,
     ErrorType, Nil, Transport, Plain, SlsError, BadResponse, Denies, Answers, Goes,
     ErrorAnswer, Op
<1>20. CASE Refuses
  BY <1>20, <1>a, CallAssumption DEF IInv, TypeOK, FateAllows, ErrorTells, RepeatsAll,
     ErrorType, Nil, Transport, Plain, SlsError, BadResponse, Refuses, Answers, Goes,
     ErrorAnswer, Op
<1>21. CASE ServerFails
  BY <1>21, <1>a, CallAssumption DEF IInv, TypeOK, FateAllows, ErrorTells, RepeatsAll,
     ErrorType, Nil, Transport, Plain, SlsError, BadResponse, ServerFails, Answers, Goes,
     ErrorAnswer, CarriedOut, Op
<1>22. CASE Serves
  BY <1>22, <1>a, CallAssumption DEF IInv, TypeOK, FateAllows, ErrorTells, RepeatsAll,
     ErrorType, Nil, Transport, Plain, SlsError, BadResponse, Serves, Answers, Goes, CarriedOut,
     Op
<1>23. CASE DeadlinePasses
  BY <1>23, <1>a, CallAssumption DEF IInv, TypeOK, FateAllows, ErrorTells, RepeatsAll,
     ErrorType, Nil, Transport, Plain, SlsError, BadResponse, DeadlinePasses, Op
<1>24. CASE KeysExpire
  BY <1>24, <1>a, CallAssumption DEF IInv, TypeOK, FateAllows, ErrorTells, RepeatsAll,
     ErrorType, Nil, Transport, Plain, SlsError, BadResponse, KeysExpire, Op
<1>25. CASE Finished \/ UNCHANGED vars
  BY <1>25 DEF IInv, TypeOK, FateAllows, ErrorTells, RepeatsAll, Finished, vars, Op
<1> QED BY <1>1, <1>2, <1>3, <1>4, <1>5, <1>6, <1>7, <1>8, <1>9, <1>10, <1>11, <1>12, <1>13, <1>14, <1>15, <1>16, <1>17, <1>18, <1>19, <1>20, <1>21, <1>22, <1>23, <1>24, <1>25 DEF Next, Caller, Exchange

\* No step hides that the service answered "unauthorized".
LEMMA TokenStep == IInv /\ [Next]_vars => TokenErrorKept'
<1> SUFFICES ASSUME IInv, [Next]_vars PROVE TokenErrorKept'
  OBVIOUS
<1>a. /\ Op \in Operation
      /\ ~Op.closes => Op.answer = "ignored" /\ ~Op.polls
      /\ Len(entry.steps) > 1 => Op.closes /\ Op.after # "exists" /\ "empty" \notin Op.checks
      /\ Len(entry.steps) \in Nat \ {0}
  BY OpType DEF IInv, TypeOK
<1>1. CASE CheckEnds
  BY <1>1, <1>a, CallAssumption DEF IInv, TypeOK, TokenErrorKept, ErrorTells, Progress, GaveUp,
     IsTokenError, ErrorType, Nil, Transport, Plain, SlsError, BadResponse, CheckEnds, Op
<1>2. CASE StartRequest
  BY <1>2, <1>a, CallAssumption DEF IInv, TypeOK, TokenErrorKept, ErrorTells, Progress, GaveUp,
     IsTokenError, ErrorType, Nil, Transport, Plain, SlsError, BadResponse, StartRequest, Goes,
     Op
<1>3. CASE AttemptFails
  BY <1>3, <1>a, CallAssumption DEF IInv, TypeOK, TokenErrorKept, ErrorTells, Progress, GaveUp,
     IsTokenError, ErrorType, Nil, Transport, Plain, SlsError, BadResponse, AttemptFails, Goes,
     Op
<1>4. CASE Send
  BY <1>4, <1>a, CallAssumption DEF IInv, TypeOK, TokenErrorKept, ErrorTells, Progress, GaveUp,
     IsTokenError, ErrorType, Nil, Transport, Plain, SlsError, BadResponse, Send, Goes, Op
<1>5. CASE StopRetrying
  BY <1>5, <1>a, CallAssumption DEF IInv, TypeOK, TokenErrorKept, ErrorTells, Progress, GaveUp,
     IsTokenError, ErrorType, Nil, Transport, Plain, SlsError, BadResponse, StopRetrying, Goes,
     Op
<1>6. CASE TickerStops
  BY <1>6, <1>a, CallAssumption DEF IInv, TypeOK, TokenErrorKept, ErrorTells, Progress, GaveUp,
     IsTokenError, ErrorType, Nil, Transport, Plain, SlsError, BadResponse, TickerStops, Goes,
     Op
<1>7. CASE AttemptDone
  BY <1>7, <1>a, CallAssumption DEF IInv, TypeOK, TokenErrorKept, ErrorTells, Progress, GaveUp,
     IsTokenError, ErrorType, Nil, Transport, Plain, SlsError, BadResponse, AttemptDone,
     NeedRetry, RetryReadErrorCheck, RetryWriteErrorCheck, FromService, Op
<1>8. CASE HandleError
  BY <1>8, <1>a, CallAssumption DEF IInv, TypeOK, TokenErrorKept, ErrorTells, Progress, GaveUp,
     IsTokenError, ErrorType, Nil, Transport, Plain, SlsError, BadResponse, HandleError,
     HandlerUnchanged, IsAbsent, Returned, NewClientError, Op
<1>9. CASE HandleAnswer
  BY <1>9, <1>a, CallAssumption DEF IInv, TypeOK, TokenErrorKept, ErrorTells, Progress, GaveUp,
     IsTokenError, ErrorType, Nil, Transport, Plain, SlsError, BadResponse, HandleAnswer,
     HandlerUnchanged, Goes, Closes, Understood, Op
<1>10. CASE HandleBadAnswer
  BY <1>10, <1>a, CallAssumption DEF IInv, TypeOK, TokenErrorKept, ErrorTells, Progress, GaveUp,
     IsTokenError, ErrorType, Nil, Transport, Plain, SlsError, BadResponse, HandleBadAnswer,
     HandlerUnchanged, Closes, Misread, Understood, Returned, NewClientError, Op
<1>11. CASE PollAgain
  BY <1>11, <1>a, CallAssumption DEF IInv, TypeOK, TokenErrorKept, ErrorTells, Progress, GaveUp,
     IsTokenError, ErrorType, Nil, Transport, Plain, SlsError, BadResponse, PollAgain, Goes,
     Closes, Understood, Op
<1>12. CASE NextStep
  BY <1>12, <1>a, CallAssumption DEF IInv, TypeOK, TokenErrorKept, ErrorTells, Progress, GaveUp,
     IsTokenError, ErrorType, Nil, Transport, Plain, SlsError, BadResponse, NextStep, Goes, Op
<1>13. CASE StepPanics
  BY <1>13, <1>a, CallAssumption DEF IInv, TypeOK, TokenErrorKept, ErrorTells, Progress, GaveUp,
     IsTokenError, ErrorType, Nil, Transport, Plain, SlsError, BadResponse, StepPanics, Goes, Op
<1>14. CASE ProcessNoTokenError
  BY <1>14, <1>a, CallAssumption DEF IInv, TypeOK, TokenErrorKept, ErrorTells, Progress, GaveUp,
     IsTokenError, ErrorType, Nil, Transport, Plain, SlsError, BadResponse, ProcessNoTokenError,
     Goes, EntryDone, Op
<1>15. CASE FetchFails
  BY <1>15, <1>a, CallAssumption DEF IInv, TypeOK, TokenErrorKept, ErrorTells, Progress, GaveUp,
     IsTokenError, ErrorType, Nil, Transport, Plain, SlsError, BadResponse, FetchFails, Goes, Op
<1>16. CASE FetchSucceeds
  BY <1>16, <1>a, CallAssumption DEF IInv, TypeOK, TokenErrorKept, ErrorTells, Progress, GaveUp,
     IsTokenError, ErrorType, Nil, Transport, Plain, SlsError, BadResponse, FetchSucceeds,
     TryAgain, Op
<1>17. CASE LoopOnAnyError
  BY <1>17, <1>a, CallAssumption DEF IInv, TypeOK, TokenErrorKept, ErrorTells, Progress, GaveUp,
     IsTokenError, ErrorType, Nil, Transport, Plain, SlsError, BadResponse, LoopOnAnyError,
     TryAgain, Op
<1>18. CASE TransportFails
  BY <1>18, <1>a, CallAssumption DEF IInv, TypeOK, TokenErrorKept, ErrorTells, Progress, GaveUp,
     IsTokenError, ErrorType, Nil, Transport, Plain, SlsError, BadResponse, TransportFails,
     Answers, Goes, CarriedOut, Op
<1>19. CASE Denies
  BY <1>19, <1>a, CallAssumption DEF IInv, TypeOK, TokenErrorKept, ErrorTells, Progress, GaveUp,
     IsTokenError, ErrorType, Nil, Transport, Plain, SlsError, BadResponse, Denies, Answers,
     Goes, ErrorAnswer, Op
<1>20. CASE Refuses
  BY <1>20, <1>a, CallAssumption DEF IInv, TypeOK, TokenErrorKept, ErrorTells, Progress, GaveUp,
     IsTokenError, ErrorType, Nil, Transport, Plain, SlsError, BadResponse, Refuses, Answers,
     Goes, ErrorAnswer, Op
<1>21. CASE ServerFails
  BY <1>21, <1>a, CallAssumption DEF IInv, TypeOK, TokenErrorKept, ErrorTells, Progress, GaveUp,
     IsTokenError, ErrorType, Nil, Transport, Plain, SlsError, BadResponse, ServerFails,
     Answers, Goes, ErrorAnswer, CarriedOut, Op
<1>22. CASE Serves
  BY <1>22, <1>a, CallAssumption DEF IInv, TypeOK, TokenErrorKept, ErrorTells, Progress, GaveUp,
     IsTokenError, ErrorType, Nil, Transport, Plain, SlsError, BadResponse, Serves, Answers,
     Goes, CarriedOut, Op
<1>23. CASE DeadlinePasses
  BY <1>23, <1>a, CallAssumption DEF IInv, TypeOK, TokenErrorKept, ErrorTells, Progress, GaveUp,
     IsTokenError, ErrorType, Nil, Transport, Plain, SlsError, BadResponse, DeadlinePasses, Op
<1>24. CASE KeysExpire
  BY <1>24, <1>a, CallAssumption DEF IInv, TypeOK, TokenErrorKept, ErrorTells, Progress, GaveUp,
     IsTokenError, ErrorType, Nil, Transport, Plain, SlsError, BadResponse, KeysExpire, Op
<1>25. CASE Finished \/ UNCHANGED vars
  BY <1>25 DEF IInv, TypeOK, TokenErrorKept, ErrorTells, Progress, GaveUp, IsTokenError, Finished, vars, Op
<1> QED BY <1>1, <1>2, <1>3, <1>4, <1>5, <1>6, <1>7, <1>8, <1>9, <1>10, <1>11, <1>12, <1>13, <1>14, <1>15, <1>16, <1>17, <1>18, <1>19, <1>20, <1>21, <1>22, <1>23, <1>24, <1>25 DEF Next, Caller, Exchange

-----------------------------------------------------------------------------
LEMMA Initially == Init => IInv
<1> SUFFICES ASSUME Init PROVE IInv
  OBVIOUS
<1>1. step = 1 /\ Len(entry.steps) \in Nat \ {0} /\ entry \in Entry
  BY CallAssumption DEF Init
<1>2. TypeOK
  <2>1. error \in ErrorType /\ answer \in Answer
    BY ErrorsTyped DEF Init, Answer
  <2>2. 0 \in 0..MaxTryTimes /\ 0 \in 0..(MaxPolls - 1) /\ 0 \in Nat
    BY CallAssumption
  <2>3. {} \subseteq 1..Len(entry.steps) /\ 1 \in 1..Len(entry.steps)
    BY <1>1
  <2> QED BY <2>1, <2>2, <2>3 DEF Init, TypeOK
<1>3. Accounted /\ Progress
  BY <1>1, CallAssumption DEF Init, Accounted, InHand, Progress
<1>4. ErrorTells /\ FateAllows /\ TokenErrorKept
  BY DEF Init, ErrorTells, FateAllows, TokenErrorKept, Nil, SlsError
<1> QED BY <1>1, <1>2, <1>3, <1>4 DEF IInv

\* The call itself never changes.
LEMMA EntryStep == IInv /\ [Next]_vars => entry' \in Entry
BY DEF IInv, Next, Caller, Exchange, Finished, vars, CheckEnds, StartRequest, AttemptFails, Send,
     StopRetrying, TickerStops, AttemptDone, HandleError, HandleAnswer, HandleBadAnswer, PollAgain,
     NextStep, StepPanics, ProcessNoTokenError, FetchFails, FetchSucceeds, LoopOnAnyError, TryAgain,
     TransportFails, Denies, Refuses, ServerFails, Serves, Answers, DeadlinePasses, KeysExpire,
     HandlerUnchanged

\* The inductive invariant: what a call has done, what it holds and what its error tells.
THEOREM Invariant == Spec => []IInv
<1>1. IInv /\ [Next]_vars => IInv'
  BY EntryStep, TypeStep, AccountStep, ProgressStep, TellsStep, FateStep, TokenStep DEF IInv
<1> QED BY Initially, <1>1, PTL DEF Spec

\* The variables keep their types, for any operations, tries and rounds.
THEOREM TypeCorrect == Spec => []TypeOK
<1>1. IInv => TypeOK
  BY DEF IInv
<1> QED BY Invariant, <1>1, PTL

\* A call that returns without an error has done what it says, through all layers.
THEOREM NilIsDone == Spec => []NilMeansDone
<1>1. IInv => NilMeansDone
  <2> SUFFICES ASSUME IInv, pc = "returned", error = Nil, NEW s \in 1..Len(entry.steps)
               PROVE  s \in applied \/ AskedAndAbsent(s) \/ NothingToSend(s)
    BY DEF NilMeansDone
  <2>1. step = Len(entry.steps) /\ step \in Nat
    BY OpType DEF IInv, Progress, TypeOK
  <2>2. CASE s = step
    BY <2>2 DEF IInv, Progress
  <2>3. CASE s \in 1..(step - 1)
    BY <2>3 DEF IInv, Progress
  <2> QED BY <2>1, <2>2, <2>3
<1> QED BY Invariant, <1>1, PTL

\* Bodies stay open only after the methods that drop a response that was a success.
THEOREM ResponsesAreClosed == Spec => []BodiesAreClosed
<1>1. IInv => BodiesAreClosed
  BY DEF IInv, Accounted, InHand, BodiesAreClosed
<1> QED BY Invariant, <1>1, PTL

\* No write is sent again while its fate is unknown.
THEOREM WritesNotRepeated == Spec => []UnknownFateIsNotRepeated
<1>1. IInv => UnknownFateIsNotRepeated
  BY DEF IInv, FateAllows, UnknownFateIsNotRepeated
<1> QED BY Invariant, <1>1, PTL

\* No layer hides that the service denied the keys from the wrapper.
THEOREM TokenErrorsRetried == Spec => []UnauthorizedIsRetried
<1>1. IInv => UnauthorizedIsRetried
  BY DEF IInv, TokenErrorKept, UnauthorizedIsRetried, Unauthorized
<1> QED BY Invariant, <1>1, PTL
-----------------------------------------------------------------------------
\* The error of a send that has ended is one the producer can read.
ErrorIsKnown ==
  pc \in {"ended", "returned"} /\ entry.name \in Sends /\ error # Nil =>
    error.type = "Error" \/ (entry.name = "PostLogStoreLogsV2" /\ fate = "unsent")

\* The operation of a send wraps what it gets.
LEMMA SendOp ==
  ASSUME entry \in Entry, step \in 1..Len(entry.steps), entry.name \in Sends
  PROVE  /\ Op.error = "wrapped" /\ Op.answer \in {"ignored", "inner", "wrapped"}
         /\ entry.loop # "any"
         /\ "raw" \in Op.checks => entry.name = "PostLogStoreLogsV2"
BY SendAssumption DEF Op

\* What turns another error into an *Error is the operation of a send, and no layer above it
\* makes another of it.
LEMMA SendStep == IInv /\ ErrorIsKnown /\ [Next]_vars => ErrorIsKnown'
<1> SUFFICES ASSUME IInv, ErrorIsKnown, [Next]_vars PROVE ErrorIsKnown'
  OBVIOUS
<1>a. entry.name \in Sends =>
        /\ Op.error = "wrapped" /\ Op.answer \in {"ignored", "inner", "wrapped"}
        /\ entry.loop # "any"
        /\ "raw" \in Op.checks => entry.name = "PostLogStoreLogsV2"
  BY SendOp DEF IInv, TypeOK
<1>b. SlsError("none").type = "Error" /\ SlsError("none") # Nil
  BY DEF SlsError, Nil
<1>1. CASE CheckEnds
  BY <1>1, <1>a, <1>b DEF IInv, ErrorIsKnown, CheckEnds
<1>2. CASE StartRequest
  BY <1>2, <1>a, <1>b DEF IInv, ErrorIsKnown, StartRequest, Goes
<1>3. CASE AttemptFails
  BY <1>3, <1>a, <1>b DEF IInv, ErrorIsKnown, AttemptFails, Goes
<1>4. CASE Send
  BY <1>4, <1>a, <1>b DEF IInv, ErrorIsKnown, Send, Goes
<1>5. CASE StopRetrying
  BY <1>5, <1>a, <1>b DEF IInv, ErrorIsKnown, StopRetrying, Goes
<1>6. CASE TickerStops
  BY <1>6, <1>a, <1>b DEF IInv, ErrorIsKnown, TickerStops, Goes
<1>7. CASE AttemptDone
  BY <1>7, <1>a, <1>b DEF IInv, ErrorIsKnown, AttemptDone
<1>8. CASE HandleError
  BY <1>8, <1>a, <1>b DEF IInv, ErrorIsKnown, HandleError,
     HandlerUnchanged, Returned, NewClientError, Nil, SlsError
<1>9. CASE HandleAnswer
  BY <1>9, <1>a, <1>b DEF IInv, ErrorIsKnown, HandleAnswer, Goes
<1>10. CASE HandleBadAnswer
  BY <1>10, <1>a, <1>b DEF IInv, ErrorIsKnown, HandleBadAnswer,
     HandlerUnchanged, Misread, Understood, Returned, NewClientError, Plain, Nil, SlsError
<1>11. CASE PollAgain
  BY <1>11, <1>a, <1>b DEF IInv, ErrorIsKnown, PollAgain, Goes
<1>12. CASE NextStep
  BY <1>12, <1>a, <1>b DEF IInv, ErrorIsKnown, NextStep, Goes
<1>13. CASE StepPanics
  BY <1>13, <1>a, <1>b DEF IInv, ErrorIsKnown, StepPanics, Goes
<1>14. CASE ProcessNoTokenError
  BY <1>14, <1>a, <1>b DEF IInv, ErrorIsKnown,
     ProcessNoTokenError, Goes, EntryDone
<1>15. CASE FetchFails
  BY <1>15, <1>a, <1>b DEF IInv, ErrorIsKnown, FetchFails, Goes,
     IsTokenError
<1>16. CASE FetchSucceeds
  BY <1>16, <1>a, <1>b DEF IInv, ErrorIsKnown, FetchSucceeds,
     TryAgain, IsTokenError
<1>17. CASE LoopOnAnyError
  BY <1>17, <1>a, <1>b DEF IInv, ErrorIsKnown, LoopOnAnyError,
     TryAgain
<1>18. CASE TransportFails
  BY <1>18, <1>a, <1>b DEF IInv, ErrorIsKnown, TransportFails,
     Answers, Goes
<1>19. CASE Denies
  BY <1>19, <1>a, <1>b DEF IInv, ErrorIsKnown, Denies, Answers,
     Goes
<1>20. CASE Refuses
  BY <1>20, <1>a, <1>b DEF IInv, ErrorIsKnown, Refuses, Answers,
     Goes
<1>21. CASE ServerFails
  BY <1>21, <1>a, <1>b DEF IInv, ErrorIsKnown, ServerFails,
     Answers, Goes
<1>22. CASE Serves
  BY <1>22, <1>a, <1>b DEF IInv, ErrorIsKnown, Serves, Answers,
     Goes
<1>23. CASE DeadlinePasses
  BY <1>23, <1>a, <1>b DEF IInv, ErrorIsKnown, DeadlinePasses
<1>24. CASE KeysExpire
  BY <1>24, <1>a, <1>b DEF IInv, ErrorIsKnown, KeysExpire
<1>25. CASE Finished \/ UNCHANGED vars
  BY <1>25 DEF ErrorIsKnown, Finished, vars
<1> QED BY <1>1, <1>2, <1>3, <1>4, <1>5, <1>6, <1>7, <1>8, <1>9, <1>10, <1>11, <1>12, <1>13, <1>14, <1>15, <1>16, <1>17, <1>18, <1>19, <1>20, <1>21, <1>22, <1>23, <1>24, <1>25 DEF Next, Caller, Exchange

\* The error of a send is an *Error when it reaches the caller, for any wrapper, answers and tries.
THEOREM SendErrorsAreKnown == Spec => []SendErrorIsKnown
<1>1. Init => ErrorIsKnown
  BY DEF Init, ErrorIsKnown
<1>2. IInv /\ ErrorIsKnown /\ [Next]_vars => ErrorIsKnown'
  BY SendStep
<1>3. ErrorIsKnown => SendErrorIsKnown
  BY DEF ErrorIsKnown, SendErrorIsKnown
<1> QED BY Invariant, <1>1, <1>2, <1>3, PTL DEF Spec
=============================================================================
