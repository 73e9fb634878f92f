-------------------------- MODULE CredentialState --------------------------
(***************************************************************************)
(* The temporary credentials of a client, used by several goroutines at    *)
(* once.  There are two ways to renew them:                                *)
(*   wrapper   TokenAutoUpdateClient around a Client: fetchSTSToken, run   *)
(*             by a call that was denied and by the goroutine              *)
(*             flushSTSToken, replaces the keys of the Client              *)
(*   provider  a Client with an UpdateFuncProviderAdapter: GetCredentials  *)
(*             fetches new ones when the old ones are about to expire      *)
(* Time is cut into epochs: a token is worth something in the epoch it was *)
(* issued in, so an expiry time is named by the epoch it ends.             *)
(***************************************************************************)
EXTENDS Integers, FiniteSets

CONSTANTS
  Caller,       \* goroutines that make calls
  Flush,        \* the goroutine flushSTSToken
  MaxEpoch,     \* how often tokens expire (a bound of the model)
  MaxTryTimes,  \* tries of a call through the wrapper
  FetchTries    \* UPDATE_FUNC_RETRY_TIMES + 1

ASSUME CredentialAssumption ==
  /\ Flush \notin Caller
  /\ MaxEpoch \in Nat \ {0} /\ MaxTryTimes \in Nat \ {0} /\ FetchTries \in Nat \ {0}

VARIABLES
  way,       \* how this client renews its credentials
  epoch,     \* tokens of earlier epochs have expired
  pc,        \* where each goroutine is
  token,     \* the token each has fetched, or makes its request with, 0 when it has none
  tries,     \* tries of a caller's loop
  stored,    \* the token in the client (accessKey.., adp.cred), 0 before the first
  expiry,    \* whose expiry is noted (nextExpire, expirationInMills)
  recent,    \* a fetch was started less than updateTokenIntervalMin ago
  failing,   \* lastRetryFailCount > 0
  closeFlag, \* Close was called
  shutdown,  \* the shutdown channel is closed
  began,     \* history: the epoch in which a caller asked for credentials
  pair       \* history: "kept" together; "mixed" by two fetches at once; "renewing" in one alone

vars == <<way, epoch, pc, token, tries, stored, expiry, recent, failing, closeFlag, shutdown,
          began, pair>>

Worker == Caller \cup {Flush}
Epoch == 1..MaxEpoch
Fetching == {"sleeping", "fetching", "fetched", "storing"}

\* A goroutine goes on; together with it, what stays as it is.
Moves(w, from, to) == pc[w] = from /\ pc' = [pc EXCEPT ![w] = to]
Alone(w) == \A v \in Worker \ {w} : pc[v] \notin Fetching
FetchBegins(w) ==
  pair' = IF ~Alone(w) THEN "mixed" ELSE IF pair = "mixed" THEN "renewing" ELSE pair
FetchEnds == pair' = IF pair = "renewing" THEN "kept" ELSE pair

\* The call of a goroutine returns, its counter of tries with it.
Returns(w) == tries' = IF w = Flush THEN tries ELSE [tries EXCEPT ![w] = 0]
FlagsUnchanged == UNCHANGED <<way, epoch, closeFlag, shutdown>>

Init ==
  /\ way \in {"wrapper", "provider"} /\ epoch = 1
  /\ pc = [w \in Worker |-> IF w = Flush THEN (IF way = "wrapper" THEN "asleep" ELSE "ended") ELSE "idle"]
  /\ token = [w \in Worker |-> 0] /\ tries = [c \in Caller |-> 0]
  /\ stored = IF way = "wrapper" THEN 1 ELSE 0
  /\ expiry = stored
  /\ recent = FALSE /\ failing = FALSE /\ closeFlag = FALSE /\ shutdown = FALSE
  /\ began = [c \in Caller |-> 1] /\ pair = "kept"

TokensExpire ==
  /\ epoch < MaxEpoch /\ epoch' = epoch + 1
  /\ UNCHANGED <<way, pc, token, tries, stored, expiry, recent, failing, closeFlag, shutdown,
                 began, pair>>

\* The service accepts the token of this epoch.  Errors that are not about it end a call as a
\* success does.
Served(c) ==
  /\ token[c] = epoch /\ Moves(c, "sent", "idle") /\ token' = [token EXCEPT ![c] = 0] /\ Returns(c)
  /\ UNCHANGED <<stored, expiry, recent, failing, began, pair>> /\ FlagsUnchanged

Denied(c) ==
  /\ token[c] < epoch /\ Moves(c, "sent", IF way = "wrapper" THEN "denied" ELSE "idle")
  /\ token' = [token EXCEPT ![c] = 0] /\ IF way = "wrapper" THEN UNCHANGED tries ELSE Returns(c)
  /\ UNCHANGED <<stored, expiry, recent, failing, began, pair>> /\ FlagsUnchanged
=============================================================================
