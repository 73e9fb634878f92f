-------------------------- MODULE TokenAutoUpdate --------------------------
(***************************************************************************)
(* TokenAutoUpdateClient: the calls, processError, fetchSTSToken and the   *)
(* goroutine flushSTSToken.  fetchSTSToken holds the lock only around its  *)
(* bookkeeping: tokenUpdateFunc and ResetAccessKeyToken run outside.       *)
(***************************************************************************)
EXTENDS CredentialState

BeginCall(c) ==
  /\ Moves(c, "idle", "request")
  /\ UNCHANGED <<tries, token, stored, expiry, recent, failing, began, pair>> /\ FlagsUnchanged

\* Client.request and convert take the keys.  Client.request reads the provider, which has all
\* of them, after it released accessKeyLock; it is one pointer, so it gives old or new keys.
MakeRequest(c) ==
  /\ Moves(c, "request", "sent") /\ token' = [token EXCEPT ![c] = stored]
  /\ UNCHANGED <<tries, stored, expiry, recent, failing, began, pair>> /\ FlagsUnchanged
-----------------------------------------------------------------------------
\* fetchSTSToken, first locked section, in a denied call or the flush goroutine.
Starts(w) == pc[w] = IF w = Flush THEN "awake" ELSE "denied"

\* Where a fetch that gave no new key leads: processError ends the call with its first error.
AfterFailure(w) == IF w = Flush THEN "flushed" ELSE "idle"

FetchSkipped(w) ==
  /\ Starts(w) /\ recent /\ pc' = [pc EXCEPT ![w] = AfterFailure(w)] /\ Returns(w)
  /\ UNCHANGED <<token, stored, expiry, recent, failing, began, pair>> /\ FlagsUnchanged

FetchStart(w) ==
  /\ Starts(w) /\ ~recent /\ recent' = TRUE
  /\ pc' = [pc EXCEPT ![w] = IF failing THEN "sleeping" ELSE "fetching"]
  /\ FetchBegins(w)
  /\ UNCHANGED <<token, tries, stored, expiry, failing, began>> /\ FlagsUnchanged

\* The wait after failures, doubled each time between waitIntervalMin and waitIntervalMax.
BackOffEnds(w) ==
  /\ Moves(w, "sleeping", "fetching")
  /\ UNCHANGED <<token, tries, stored, expiry, recent, failing, began, pair>> /\ FlagsUnchanged

TokenUpdated(w) ==
  /\ Moves(w, "fetching", "fetched") /\ token' = [token EXCEPT ![w] = epoch]
  /\ UNCHANGED <<tries, stored, expiry, recent, failing, began, pair>> /\ FlagsUnchanged

\* Mutants: the expiry time of the failed update is noted; a failed update ends the flush
\* goroutine.
TokenUpdateFailsNoted(w) ==
  /\ Moves(w, "fetching", AfterFailure(w)) /\ Returns(w) /\ failing' = TRUE /\ expiry' = 0
  /\ UNCHANGED <<token, stored, recent, began, pair>> /\ FlagsUnchanged
TokenUpdateFailsEndsFlush(w) ==
  /\ Moves(w, "fetching", IF w = Flush THEN "ended" ELSE "idle") /\ Returns(w) /\ failing' = TRUE
  /\ UNCHANGED <<token, stored, expiry, recent, began, pair>> /\ FlagsUnchanged

TokenUpdateFails(w) ==
  /\ Moves(w, "fetching", AfterFailure(w)) /\ Returns(w) /\ failing' = TRUE
  /\ UNCHANGED <<token, stored, expiry, recent, began, pair>> /\ FlagsUnchanged

\* The second locked section, and ResetAccessKeyToken after it.
NoteExpiry(w) ==
  /\ way = "wrapper" /\ Moves(w, "fetched", "storing") /\ failing' = FALSE /\ expiry' = token[w]
  /\ UNCHANGED <<token, tries, stored, recent, began, pair>> /\ FlagsUnchanged

ResetAccessKeyToken(w) == stored' = token[w]

TryAgain(c) ==
  IF tries[c] + 1 < MaxTryTimes
    THEN tries' = [tries EXCEPT ![c] = @ + 1] /\ pc' = [pc EXCEPT ![c] = "request"]
    ELSE Returns(c) /\ pc' = [pc EXCEPT ![c] = "idle"]

InstallKey(w) ==
  /\ way = "wrapper" /\ pc[w] = "storing" /\ ResetAccessKeyToken(w)
  /\ IF w = Flush THEN pc' = [pc EXCEPT ![w] = "flushed"] /\ UNCHANGED tries ELSE TryAgain(w)
  /\ token' = [token EXCEPT ![w] = 0] /\ FetchEnds
  /\ UNCHANGED <<expiry, recent, failing, began>> /\ FlagsUnchanged

IntervalPasses ==
  /\ recent /\ recent' = FALSE
  /\ UNCHANGED <<pc, token, tries, stored, expiry, failing, began, pair>> /\ FlagsUnchanged
-----------------------------------------------------------------------------
\* flushSTSToken: sleeps for a part of the time that is left, at least 30 seconds.  A closed
\* shutdown channel ends the select at once; when both are ready either may be taken, as if the
\* sleep had ended just before the channel was closed.
RestUnchanged == UNCHANGED <<way, epoch, token, tries, stored, expiry, recent, failing, began, pair>>

Wakes == Moves(Flush, "asleep", "awake") /\ ~shutdown /\ UNCHANGED <<closeFlag, shutdown>> /\ RestUnchanged

ShutdownReceived ==
  Moves(Flush, "asleep", "ended") /\ shutdown /\ UNCHANGED <<closeFlag, shutdown>> /\ RestUnchanged

\* Mutant: the flag is not looked at.
FlushLoopForever ==
  Moves(Flush, "flushed", "asleep") /\ UNCHANGED <<closeFlag, shutdown>> /\ RestUnchanged
FlushLoop ==
  /\ Moves(Flush, "flushed", IF closeFlag THEN "ended" ELSE "asleep")
  /\ UNCHANGED <<closeFlag, shutdown>> /\ RestUnchanged

\* Close only sets the flag; the channel belongs to the program.
Close ==
  /\ way = "wrapper" /\ ~closeFlag /\ closeFlag' = TRUE
  /\ UNCHANGED <<pc, shutdown>> /\ RestUnchanged
CloseShutdown ==
  /\ way = "wrapper" /\ ~shutdown /\ shutdown' = TRUE
  /\ UNCHANGED <<pc, closeFlag>> /\ RestUnchanged
-----------------------------------------------------------------------------
FetchStep(w) ==
  \/ FetchSkipped(w) \/ FetchStart(w) \/ BackOffEnds(w) \/ TokenUpdated(w) \/ TokenUpdateFails(w)
  \/ NoteExpiry(w) \/ InstallKey(w)
FlushStep == FetchStep(Flush) \/ Wakes \/ ShutdownReceived \/ FlushLoop
CallStep(c) == MakeRequest(c) \/ Served(c) \/ Denied(c) \/ FetchStep(c)

TokenNext ==
  \/ \E c \in Caller : BeginCall(c) \/ CallStep(c)
  \/ FlushStep \/ IntervalPasses \/ Close \/ CloseShutdown
=============================================================================
