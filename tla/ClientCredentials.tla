------------------------- MODULE ClientCredentials -------------------------
(***************************************************************************)
(* A client whose credentials expire, in either way, with the properties   *)
(* both should have.                                                       *)
(***************************************************************************)
EXTENDS TokenAutoUpdate, CredentialsProvider

Next ==
  \/ TokensExpire
  \/ way = "wrapper" /\ TokenNext
  \/ way = "provider" /\ ProviderNext
Spec == Init /\ [][Next]_vars

\* Goroutines run, requests and token functions answer, time passes.  Only TokenRecovers needs a
\* token function that succeeds now and then when it is called again and again, and a flush
\* goroutine that is not for ever beaten to its fetch, by less than a second, by calls.
Fairness ==
  /\ \A c \in Caller : WF_vars(way = "wrapper" /\ CallStep(c)) /\ WF_vars(way = "provider" /\ ProviderCall(c))
  /\ WF_vars(way = "wrapper" /\ FlushStep) /\ WF_vars(way = "wrapper" /\ IntervalPasses)
  /\ SF_vars(way = "wrapper" /\ FetchStart(Flush))
  /\ \A w \in Worker : SF_vars(way = "wrapper" /\ TokenUpdated(w))
FairSpec == Spec /\ Fairness
-----------------------------------------------------------------------------
\* The values of the variables.
TypeOK ==
  /\ way \in {"wrapper", "provider"} /\ epoch \in Epoch
  /\ pc \in [Worker -> Fetching \cup {"idle", "request", "sent", "denied",
                                      "checking", "refresh", "current",
                                      "asleep", "awake", "flushed", "ended"}]
  /\ token \in [Worker -> 0..MaxEpoch] /\ tries \in [Caller -> 0..MaxTryTimes \cup 0..FetchTries]
  /\ stored \in 0..MaxEpoch /\ expiry \in 0..MaxEpoch /\ began \in [Caller -> Epoch]
  /\ {recent, failing, closeFlag, shutdown} \subseteq BOOLEAN
  /\ pair \in {"kept", "mixed", "renewing"}

\* The expiry time noted is that of the token in use, whatever fetches failed or were skipped:
\* the refresh in advance relies on it.  Two fetches that overlap can mix them up; the next one
\* that runs alone and succeeds puts it right.
NoFetch == \A w \in Worker : pc[w] # "storing"
PairKept == NoFetch /\ pair = "kept" => expiry = stored

\* GetCredentials does not hand out a token that had expired before it was asked, unless two
\* refreshes overlapped, and none ran alone since: then the older token can be stored with the
\* expiry of the newer.
HandsOutCurrent ==
  [][way = "provider" /\ pair = "kept" =>
       \A c \in Caller : pc[c] # "sent" /\ pc'[c] = "sent" => token'[c] >= began[c]]_vars

\* Every call returns, denied or not, whatever the token function does.
CallsReturn == \A c \in Caller : pc[c] # "idle" ~> pc[c] = "idle"

\* An expired token is replaced without any call being made, as long as the client is open and
\* the token function works now and then.
TokenRecovers == way = "wrapper" /\ stored < epoch ~> stored = epoch \/ closeFlag \/ shutdown

\* The flush goroutine ends after Close as well as after the shutdown channel was closed.
FlushEnds == closeFlag \/ shutdown ~> pc[Flush] = "ended"

\* What the comment on CreateTokenAutoUpdateClient promises: a call that was denied is tried
\* again when there is a new token.
RetriedWithNewToken ==
  [][\A c \in Caller : pc[c] = "denied" /\ pc'[c] = "idle" => stored < epoch]_vars
=============================================================================
