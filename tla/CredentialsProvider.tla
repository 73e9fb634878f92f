------------------------ MODULE CredentialsProvider ------------------------
(***************************************************************************)
(* UpdateFuncProviderAdapter: GetCredentials in each request of a Client.  *)
(* It has no lock.  The credentials and their expiry time are two atomic   *)
(* values, each read and written on its own.                               *)
(***************************************************************************)
EXTENDS CredentialState

\* shouldRefresh: nothing was stored yet, or what is left of the time is less than
\* advanceDuration (which may be so in the last epoch of the token, too).
ReadCredentials(c) ==
  /\ pc[c] = "idle"
  /\ pc' = [pc EXCEPT ![c] = IF stored = 0 THEN "refresh" ELSE "checking"]
  /\ began' = [began EXCEPT ![c] = epoch]
  /\ UNCHANGED <<token, tries, stored, expiry, recent, failing, pair>> /\ FlagsUnchanged

\* Mutant: credentials are fetched once.
ReadExpirationOnce(c) ==
  /\ Moves(c, "checking", "current")
  /\ UNCHANGED <<token, tries, stored, expiry, recent, failing, began, pair>> /\ FlagsUnchanged

ReadExpiration(c) ==
  /\ \/ Moves(c, "checking", "current") /\ expiry = epoch
     \/ Moves(c, "checking", "refresh")
  /\ UNCHANGED <<token, tries, stored, expiry, recent, failing, began, pair>> /\ FlagsUnchanged

\* The credentials that are current, loaded a second time.
LoadCredentials(c) ==
  /\ Moves(c, "current", "sent") /\ token' = [token EXCEPT ![c] = stored]
  /\ UNCHANGED <<tries, stored, expiry, recent, failing, began, pair>> /\ FlagsUnchanged
-----------------------------------------------------------------------------
\* fetcherWithRetry around updateFuncFetcher.
StartFetcher(c) ==
  /\ Moves(c, "refresh", "fetching") /\ FetchBegins(c)
  /\ UNCHANGED <<token, tries, stored, expiry, recent, failing, began>> /\ FlagsUnchanged

Fetched(c) ==
  /\ Moves(c, "fetching", "fetched") /\ token' = [token EXCEPT ![c] = epoch]
  /\ UNCHANGED <<tries, stored, expiry, recent, failing, began, pair>> /\ FlagsUnchanged

\* Mutant: the tries are not counted.
FetchFailsForever(c) ==
  /\ pc[c] = "fetching" /\ tries' = [tries EXCEPT ![c] = 1 - @]
  /\ UNCHANGED <<pc, token, stored, expiry, recent, failing, began, pair>> /\ FlagsUnchanged

\* Mutant: the failures of earlier calls count.
FetchFailsCountsOn(c) ==
  /\ pc[c] = "fetching" /\ tries' = [tries EXCEPT ![c] = @ + 1]
  /\ pc' = [pc EXCEPT ![c] = IF tries[c] + 1 < FetchTries THEN "fetching" ELSE "idle"]
  /\ UNCHANGED <<token, stored, expiry, recent, failing, began, pair>> /\ FlagsUnchanged

\* An error of the update function, or a result that is not valid.
FetchFails(c) ==
  /\ pc[c] = "fetching"
  /\ IF tries[c] + 1 < FetchTries
       THEN tries' = [tries EXCEPT ![c] = @ + 1] /\ UNCHANGED pc
       ELSE Returns(c) /\ pc' = [pc EXCEPT ![c] = "idle"]
  /\ UNCHANGED <<token, stored, expiry, recent, failing, began, pair>> /\ FlagsUnchanged

StoreCredentials(c) ==
  /\ way = "provider" /\ Moves(c, "fetched", "storing") /\ stored' = token[c]
  /\ UNCHANGED <<token, tries, expiry, recent, failing, began, pair>> /\ FlagsUnchanged

StoreExpiration(c) ==
  /\ way = "provider" /\ Moves(c, "storing", "sent") /\ expiry' = token[c] /\ FetchEnds
  /\ UNCHANGED <<token, tries, stored, recent, failing, began>> /\ FlagsUnchanged
-----------------------------------------------------------------------------
GetCredentials(c) ==
  \/ ReadExpiration(c) \/ LoadCredentials(c) \/ StartFetcher(c) \/ Fetched(c) \/ FetchFails(c)
  \/ StoreCredentials(c) \/ StoreExpiration(c)
ProviderCall(c) == GetCredentials(c) \/ Served(c) \/ Denied(c)

ProviderNext == \E c \in Caller : ReadCredentials(c) \/ ProviderCall(c)
=============================================================================
