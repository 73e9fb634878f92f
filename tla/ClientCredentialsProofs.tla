---------------------- MODULE ClientCredentialsProofs ----------------------
(***************************************************************************)
(* What is proved of a client whose credentials expire.  The credentials   *)
(* and their expiry time are written one after the other, by goroutines    *)
(* that no lock keeps apart, so the invariant follows the fetch that runs  *)
(* alone: which of the two it has written, and that what it brings is not  *)
(* older than what it replaces.                                            *)
(***************************************************************************)
EXTENDS ClientCredentials, TLAPS

\* Where the goroutines can be in either way.
FlushPlace == Fetching \cup {"asleep", "awake", "flushed", "ended"}
CallerPlace == Fetching \cup {"idle", "request", "sent", "denied"}
ProviderPlace == {"idle", "checking", "refresh", "current", "sent", "fetching", "fetched", "storing"}
Places ==
  /\ way = "wrapper" => pc[Flush] \in FlushPlace /\ \A c \in Caller : pc[c] \in CallerPlace
  /\ way = "provider" => pc[Flush] = "ended" /\ \A c \in Caller : pc[c] \in ProviderPlace

\* No loop goes beyond its bound.
TriesBound ==
  \A c \in Caller : tries[c] < IF way = "wrapper" THEN MaxTryTimes ELSE FetchTries

\* No token is of an epoch to come.
NoneOfTheFuture ==
  /\ stored <= epoch /\ expiry <= epoch
  /\ \A w \in Worker : token[w] <= epoch
  /\ \A c \in Caller : began[c] <= epoch

\* The history "mixed" misses no two fetches at once.
LoneFetch ==
  pair # "mixed" =>
    \A v, w \in Worker : pc[v] \in Fetching /\ pc[w] \in Fetching => v = w

\* What a lone fetch has written first, and what fits together when none is at work.
FirstWritten == IF way = "wrapper" THEN expiry ELSE stored
Fits ==
  pair # "mixed" =>
    /\ \A w \in Worker : pc[w] = "storing" => FirstWritten = token[w]
    /\ pair = "kept" /\ NoFetch => expiry = stored

\* A lone fetch of the provider brings nothing older than what is stored, noted, or was asked
\* for by a caller that goes on with the stored token.
BringsNewer ==
  way = "provider" /\ pair # "mixed" =>
    \A w \in Caller : pc[w] \in {"fetched", "storing"} =>
      /\ stored <= token[w] /\ expiry <= token[w]
      /\ \A c \in Caller : pc[c] = "current" => began[c] <= token[w]

\* What was noted is not ahead of what is stored; a caller that found it current began before.
NotAhead ==
  way = "provider" /\ pair = "kept" =>
    expiry <= stored /\ \A c \in Caller : pc[c] = "current" => began[c] <= stored

\* Who fetched has a token of the time since it asked.
FetchedSince ==
  way = "provider" => \A c \in Caller : pc[c] \in {"fetched", "storing"} => began[c] <= token[c]

CredentialInv ==
  /\ TypeOK /\ Places /\ TriesBound /\ NoneOfTheFuture
  /\ LoneFetch /\ Fits /\ BringsNewer /\ NotAhead /\ FetchedSince
-----------------------------------------------------------------------------
USE CredentialAssumption DEF Worker, Epoch, Fetching, Moves, FlagsUnchanged, RestUnchanged

\* At the start nothing is being fetched, and what is stored and noted is the same.
LEMMA InitCredentials == Init => CredentialInv
<1> SUFFICES ASSUME Init PROVE CredentialInv
  OBVIOUS
<1>1. TypeOK
  <2>1. stored \in 0..MaxEpoch /\ expiry \in 0..MaxEpoch /\ epoch \in Epoch
    BY DEF Init
  <2>2. pc \in [Worker -> Fetching \cup {"idle", "asleep", "ended"}]
    BY DEF Init
  <2>3. {recent, failing, closeFlag, shutdown} \subseteq BOOLEAN
    BY DEF Init
  <2>4. QED  BY <2>1, <2>2, <2>3 DEF Init, TypeOK
<1>2. Places /\ TriesBound
  BY DEF Init, Places, TriesBound, FlushPlace, CallerPlace, ProviderPlace
<1>3. LoneFetch
  BY DEF Init, LoneFetch
<1>4. NoneOfTheFuture /\ Fits
  BY DEF Init, NoneOfTheFuture, Fits
<1>5. BringsNewer /\ NotAhead /\ FetchedSince
  BY DEF Init, BringsNewer, NotAhead, FetchedSince
<1>6. QED  BY <1>1, <1>2, <1>3, <1>4, <1>5 DEF CredentialInv

\* A token that expires is not of the future, and what is fetched later is newer.
LEMMA TimeKeeps ==
  ASSUME CredentialInv, TokensExpire
  PROVE  CredentialInv'
<1>1. TypeOK' /\ Places' /\ TriesBound'
  BY DEF CredentialInv, TokensExpire, TypeOK, Places, TriesBound, FlushPlace, CallerPlace,
     ProviderPlace
<1>2. NoneOfTheFuture' /\ LoneFetch' /\ FetchedSince'
  BY DEF CredentialInv, TokensExpire, NoneOfTheFuture, LoneFetch, FetchedSince, TypeOK,
     Places
<1>3. Fits' /\ BringsNewer' /\ NotAhead'
  BY DEF CredentialInv, TokensExpire, Fits, BringsNewer, NotAhead, TypeOK, Places,
     NoneOfTheFuture, LoneFetch, FirstWritten, NoFetch
<1>4. QED  BY <1>1, <1>2, <1>3 DEF CredentialInv

\* The answer of the service ends what the caller does with the token it sent.
LEMMA AnswerKeeps ==
  ASSUME CredentialInv, NEW c \in Caller, Served(c) \/ Denied(c)
  PROVE  CredentialInv'
<1>1. CASE Served(c)
  <2>1. TypeOK' /\ Places' /\ TriesBound'
    BY <1>1 DEF CredentialInv, Served, Returns, TypeOK, Places, TriesBound, FlushPlace, CallerPlace,
         ProviderPlace
  <2>2. NoneOfTheFuture' /\ LoneFetch' /\ FetchedSince'
    BY <1>1 DEF CredentialInv, Served, Returns, NoneOfTheFuture, LoneFetch, FetchedSince, TypeOK,
         Places
  <2>3. Fits' /\ BringsNewer' /\ NotAhead'
    BY <1>1 DEF CredentialInv, Served, Returns, Fits, BringsNewer, NotAhead, TypeOK, Places,
         NoneOfTheFuture, LoneFetch, FirstWritten, NoFetch
  <2>4. QED  BY <2>1, <2>2, <2>3 DEF CredentialInv
<1>2. CASE Denied(c)
  <2>1. TypeOK' /\ Places' /\ TriesBound'
    BY <1>2 DEF CredentialInv, Denied, Returns, TypeOK, Places, TriesBound, FlushPlace, CallerPlace,
         ProviderPlace
  <2>2. NoneOfTheFuture' /\ LoneFetch' /\ FetchedSince'
    BY <1>2 DEF CredentialInv, Denied, Returns, NoneOfTheFuture, LoneFetch, FetchedSince, TypeOK,
         Places
  <2>3. Fits' /\ BringsNewer' /\ NotAhead'
    BY <1>2 DEF CredentialInv, Denied, Returns, Fits, BringsNewer, NotAhead, TypeOK, Places,
         NoneOfTheFuture, LoneFetch, FirstWritten, NoFetch
  <2>4. QED  BY <2>1, <2>2, <2>3 DEF CredentialInv
<1>3. QED  BY <1>1, <1>2

\* A call through the wrapper begins, or takes the keys.
LEMMA RequestKeeps ==
  ASSUME CredentialInv, way = "wrapper", NEW c \in Caller, BeginCall(c) \/ MakeRequest(c)
  PROVE  CredentialInv'
<1>1. CASE BeginCall(c)
  <2>1. TypeOK' /\ Places' /\ TriesBound'
    BY <1>1 DEF CredentialInv, BeginCall, TypeOK, Places, TriesBound, FlushPlace, CallerPlace,
         ProviderPlace
  <2>2. NoneOfTheFuture' /\ LoneFetch' /\ FetchedSince'
    BY <1>1 DEF CredentialInv, BeginCall, NoneOfTheFuture, LoneFetch, FetchedSince, TypeOK, Places
  <2>3. Fits' /\ BringsNewer' /\ NotAhead'
    BY <1>1 DEF CredentialInv, BeginCall, Fits, BringsNewer, NotAhead, TypeOK, Places,
         NoneOfTheFuture, LoneFetch, FirstWritten, NoFetch
  <2>4. QED  BY <2>1, <2>2, <2>3 DEF CredentialInv
<1>2. CASE MakeRequest(c)
  <2>1. TypeOK' /\ Places' /\ TriesBound'
    BY <1>2 DEF CredentialInv, MakeRequest, TypeOK, Places, TriesBound, FlushPlace, CallerPlace,
         ProviderPlace
  <2>2. NoneOfTheFuture' /\ LoneFetch' /\ FetchedSince'
    BY <1>2 DEF CredentialInv, MakeRequest, NoneOfTheFuture, LoneFetch, FetchedSince, TypeOK, Places
  <2>3. Fits' /\ BringsNewer' /\ NotAhead'
    BY <1>2 DEF CredentialInv, MakeRequest, Fits, BringsNewer, NotAhead, TypeOK, Places,
         NoneOfTheFuture, LoneFetch, FirstWritten, NoFetch
  <2>4. QED  BY <2>1, <2>2, <2>3 DEF CredentialInv
<1>3. QED  BY <1>1, <1>2

\* fetchSTSToken, in a caller or the flush goroutine: the fetch that runs alone notes the
\* expiry time of its token and then installs that token.
LEMMA FetchKeeps ==
  ASSUME CredentialInv, way = "wrapper", NEW w \in Worker, FetchStep(w)
  PROVE  CredentialInv'
<1>1. CASE FetchSkipped(w)
  <2>1. TypeOK' /\ Places' /\ TriesBound'
    BY <1>1 DEF CredentialInv, FetchSkipped, Returns, Starts, AfterFailure, TypeOK, Places,
         TriesBound, FlushPlace, CallerPlace, ProviderPlace
  <2>2. NoneOfTheFuture' /\ LoneFetch' /\ FetchedSince'
    BY <1>1 DEF CredentialInv, FetchSkipped, Returns, Starts, AfterFailure, NoneOfTheFuture,
         LoneFetch, FetchedSince, TypeOK, Places
  <2>3. Fits' /\ BringsNewer' /\ NotAhead'
    BY <1>1 DEF CredentialInv, FetchSkipped, Returns, Starts, AfterFailure, Fits, BringsNewer,
         NotAhead, TypeOK, Places, NoneOfTheFuture, LoneFetch, FirstWritten, NoFetch
  <2>4. QED  BY <2>1, <2>2, <2>3 DEF CredentialInv
<1>2. CASE FetchStart(w)
  <2>1. TypeOK' /\ Places' /\ TriesBound'
    BY <1>2 DEF CredentialInv, FetchStart, FetchBegins, Starts, Alone, TypeOK, Places, TriesBound,
         FlushPlace, CallerPlace, ProviderPlace
  <2>2. NoneOfTheFuture' /\ LoneFetch' /\ FetchedSince'
    BY <1>2 DEF CredentialInv, FetchStart, FetchBegins, Starts, Alone, NoneOfTheFuture, LoneFetch,
         FetchedSince, TypeOK, Places
  <2>3. Fits' /\ BringsNewer' /\ NotAhead'
    BY <1>2 DEF CredentialInv, FetchStart, FetchBegins, Starts, Alone, Fits, BringsNewer, NotAhead,
         TypeOK, Places, NoneOfTheFuture, LoneFetch, FirstWritten, NoFetch
  <2>4. QED  BY <2>1, <2>2, <2>3 DEF CredentialInv
<1>3. CASE BackOffEnds(w)
  <2>1. TypeOK' /\ Places' /\ TriesBound'
    BY <1>3 DEF CredentialInv, BackOffEnds, TypeOK, Places, TriesBound, FlushPlace, CallerPlace,
         ProviderPlace
  <2>2. NoneOfTheFuture' /\ LoneFetch' /\ FetchedSince'
    BY <1>3 DEF CredentialInv, BackOffEnds, NoneOfTheFuture, LoneFetch, FetchedSince, TypeOK, Places
  <2>3. Fits' /\ BringsNewer' /\ NotAhead'
    BY <1>3 DEF CredentialInv, BackOffEnds, Fits, BringsNewer, NotAhead, TypeOK, Places,
         NoneOfTheFuture, LoneFetch, FirstWritten, NoFetch
  <2>4. QED  BY <2>1, <2>2, <2>3 DEF CredentialInv
<1>4. CASE TokenUpdated(w)
  <2>1. TypeOK' /\ Places' /\ TriesBound'
    BY <1>4 DEF CredentialInv, TokenUpdated, TypeOK, Places, TriesBound, FlushPlace, CallerPlace,
         ProviderPlace
  <2>2. NoneOfTheFuture' /\ LoneFetch' /\ FetchedSince'
    BY <1>4 DEF CredentialInv, TokenUpdated, NoneOfTheFuture, LoneFetch, FetchedSince, TypeOK,
         Places
  <2>3. Fits' /\ BringsNewer' /\ NotAhead'
    BY <1>4 DEF CredentialInv, TokenUpdated, Fits, BringsNewer, NotAhead, TypeOK, Places,
         NoneOfTheFuture, LoneFetch, FirstWritten, NoFetch
  <2>4. QED  BY <2>1, <2>2, <2>3 DEF CredentialInv
<1>5. CASE TokenUpdateFails(w)
  <2>1. TypeOK' /\ Places' /\ TriesBound'
    BY <1>5 DEF CredentialInv, TokenUpdateFails, Returns, AfterFailure, TypeOK, Places, TriesBound,
         FlushPlace, CallerPlace, ProviderPlace
  <2>2. NoneOfTheFuture' /\ LoneFetch' /\ FetchedSince'
    BY <1>5 DEF CredentialInv, TokenUpdateFails, Returns, AfterFailure, NoneOfTheFuture, LoneFetch,
         FetchedSince, TypeOK, Places
  <2>3. Fits' /\ BringsNewer' /\ NotAhead'
    BY <1>5 DEF CredentialInv, TokenUpdateFails, Returns, AfterFailure, Fits, BringsNewer, NotAhead,
         TypeOK, Places, NoneOfTheFuture, LoneFetch, FirstWritten, NoFetch
  <2>4. QED  BY <2>1, <2>2, <2>3 DEF CredentialInv
<1>6. CASE NoteExpiry(w)
  <2>1. TypeOK' /\ Places' /\ TriesBound'
    BY <1>6 DEF CredentialInv, NoteExpiry, TypeOK, Places, TriesBound, FlushPlace, CallerPlace,
         ProviderPlace
  <2>2. NoneOfTheFuture' /\ LoneFetch' /\ FetchedSince'
    BY <1>6 DEF CredentialInv, NoteExpiry, NoneOfTheFuture, LoneFetch, FetchedSince, TypeOK, Places
  <2>3. Fits' /\ BringsNewer' /\ NotAhead'
    BY <1>6 DEF CredentialInv, NoteExpiry, Fits, BringsNewer, NotAhead, TypeOK, Places,
         NoneOfTheFuture, LoneFetch, FirstWritten, NoFetch
  <2>4. QED  BY <2>1, <2>2, <2>3 DEF CredentialInv
<1>7. CASE InstallKey(w)
  <2>1. TypeOK' /\ Places' /\ TriesBound'
    BY <1>7 DEF CredentialInv, InstallKey, FetchEnds, ResetAccessKeyToken, TryAgain, Returns,
         TypeOK, Places, TriesBound, FlushPlace, CallerPlace, ProviderPlace
  <2>2. NoneOfTheFuture' /\ LoneFetch' /\ FetchedSince'
    BY <1>7 DEF CredentialInv, InstallKey, FetchEnds, ResetAccessKeyToken, TryAgain, Returns,
         NoneOfTheFuture, LoneFetch, FetchedSince, TypeOK, Places
  <2>3. Fits' /\ BringsNewer' /\ NotAhead'
    BY <1>7 DEF CredentialInv, InstallKey, FetchEnds, ResetAccessKeyToken, TryAgain, Returns, Fits,
         BringsNewer, NotAhead, TypeOK, Places, NoneOfTheFuture, LoneFetch, FirstWritten,
         NoFetch
  <2>4. QED  BY <2>1, <2>2, <2>3 DEF CredentialInv
<1>8. QED  BY <1>1, <1>2, <1>3, <1>4, <1>5, <1>6, <1>7 DEF FetchStep

\* The loop of flushSTSToken, the interval and Close write no credentials.
LEMMA FlushKeeps ==
  ASSUME CredentialInv, way = "wrapper",
         IntervalPasses \/ Wakes \/ ShutdownReceived \/ FlushLoop \/ Close \/ CloseShutdown
  PROVE  CredentialInv'
<1>1. CASE IntervalPasses
  <2>1. TypeOK' /\ Places' /\ TriesBound'
    BY <1>1 DEF CredentialInv, IntervalPasses, TypeOK, Places, TriesBound, FlushPlace, CallerPlace,
         ProviderPlace
  <2>2. NoneOfTheFuture' /\ LoneFetch' /\ FetchedSince'
    BY <1>1 DEF CredentialInv, IntervalPasses, NoneOfTheFuture, LoneFetch, FetchedSince, TypeOK,
         Places
  <2>3. Fits' /\ BringsNewer' /\ NotAhead'
    BY <1>1 DEF CredentialInv, IntervalPasses, Fits, BringsNewer, NotAhead, TypeOK, Places,
         NoneOfTheFuture, LoneFetch, FirstWritten, NoFetch
  <2>4. QED  BY <2>1, <2>2, <2>3 DEF CredentialInv
<1>2. CASE Wakes
  <2>1. TypeOK' /\ Places' /\ TriesBound'
    BY <1>2 DEF CredentialInv, Wakes, TypeOK, Places, TriesBound, FlushPlace, CallerPlace,
         ProviderPlace
  <2>2. NoneOfTheFuture' /\ LoneFetch' /\ FetchedSince'
    BY <1>2 DEF CredentialInv, Wakes, NoneOfTheFuture, LoneFetch, FetchedSince, TypeOK, Places
  <2>3. Fits' /\ BringsNewer' /\ NotAhead'
    BY <1>2 DEF CredentialInv, Wakes, Fits, BringsNewer, NotAhead, TypeOK, Places, NoneOfTheFuture,
         LoneFetch, FirstWritten, NoFetch
  <2>4. QED  BY <2>1, <2>2, <2>3 DEF CredentialInv
<1>3. CASE ShutdownReceived
  <2>1. TypeOK' /\ Places' /\ TriesBound'
    BY <1>3 DEF CredentialInv, ShutdownReceived, TypeOK, Places, TriesBound, FlushPlace,
         CallerPlace, ProviderPlace
  <2>2. NoneOfTheFuture' /\ LoneFetch' /\ FetchedSince'
    BY <1>3 DEF CredentialInv, ShutdownReceived, NoneOfTheFuture, LoneFetch, FetchedSince, TypeOK,
         Places
  <2>3. Fits' /\ BringsNewer' /\ NotAhead'
    BY <1>3 DEF CredentialInv, ShutdownReceived, Fits, BringsNewer, NotAhead, TypeOK, Places,
         NoneOfTheFuture, LoneFetch, FirstWritten, NoFetch
  <2>4. QED  BY <2>1, <2>2, <2>3 DEF CredentialInv
<1>4. CASE FlushLoop
  <2>1. TypeOK' /\ Places' /\ TriesBound'
    BY <1>4 DEF CredentialInv, FlushLoop, TypeOK, Places, TriesBound, FlushPlace, CallerPlace,
         ProviderPlace
  <2>2. NoneOfTheFuture' /\ LoneFetch' /\ FetchedSince'
    BY <1>4 DEF CredentialInv, FlushLoop, NoneOfTheFuture, LoneFetch, FetchedSince, TypeOK, Places
  <2>3. Fits' /\ BringsNewer' /\ NotAhead'
    BY <1>4 DEF CredentialInv, FlushLoop, Fits, BringsNewer, NotAhead, TypeOK, Places,
         NoneOfTheFuture, LoneFetch, FirstWritten, NoFetch
  <2>4. QED  BY <2>1, <2>2, <2>3 DEF CredentialInv
<1>5. CASE Close
  <2>1. TypeOK' /\ Places' /\ TriesBound'
    BY <1>5 DEF CredentialInv, Close, TypeOK, Places, TriesBound, FlushPlace, CallerPlace,
         ProviderPlace
  <2>2. NoneOfTheFuture' /\ LoneFetch' /\ FetchedSince'
    BY <1>5 DEF CredentialInv, Close, NoneOfTheFuture, LoneFetch, FetchedSince, TypeOK, Places
  <2>3. Fits' /\ BringsNewer' /\ NotAhead'
    BY <1>5 DEF CredentialInv, Close, Fits, BringsNewer, NotAhead, TypeOK, Places, NoneOfTheFuture,
         LoneFetch, FirstWritten, NoFetch
  <2>4. QED  BY <2>1, <2>2, <2>3 DEF CredentialInv
<1>6. CASE CloseShutdown
  <2>1. TypeOK' /\ Places' /\ TriesBound'
    BY <1>6 DEF CredentialInv, CloseShutdown, TypeOK, Places, TriesBound, FlushPlace, CallerPlace,
         ProviderPlace
  <2>2. NoneOfTheFuture' /\ LoneFetch' /\ FetchedSince'
    BY <1>6 DEF CredentialInv, CloseShutdown, NoneOfTheFuture, LoneFetch, FetchedSince, TypeOK,
         Places
  <2>3. Fits' /\ BringsNewer' /\ NotAhead'
    BY <1>6 DEF CredentialInv, CloseShutdown, Fits, BringsNewer, NotAhead, TypeOK, Places,
         NoneOfTheFuture, LoneFetch, FirstWritten, NoFetch
  <2>4. QED  BY <2>1, <2>2, <2>3 DEF CredentialInv
<1>7. QED  BY <1>1, <1>2, <1>3, <1>4, <1>5, <1>6

\* GetCredentials: the fetch that runs alone stores its token and then the expiry time.
LEMMA GetCredentialsKeeps ==
  ASSUME CredentialInv, way = "provider", NEW c \in Caller, ReadCredentials(c) \/ GetCredentials(c)
  PROVE  CredentialInv'
<1>1. CASE ReadCredentials(c)
  <2>1. TypeOK' /\ Places' /\ TriesBound'
    BY <1>1 DEF CredentialInv, ReadCredentials, TypeOK, Places, TriesBound, FlushPlace, CallerPlace,
         ProviderPlace
  <2>2. NoneOfTheFuture' /\ LoneFetch' /\ FetchedSince'
    BY <1>1 DEF CredentialInv, ReadCredentials, NoneOfTheFuture, LoneFetch, FetchedSince, TypeOK,
         Places
  <2>3. Fits' /\ BringsNewer' /\ NotAhead'
    BY <1>1 DEF CredentialInv, ReadCredentials, Fits, BringsNewer, NotAhead, TypeOK, Places,
         NoneOfTheFuture, LoneFetch, FirstWritten, NoFetch
  <2>4. QED  BY <2>1, <2>2, <2>3 DEF CredentialInv
<1>2. CASE ReadExpiration(c)
  <2>1. TypeOK' /\ Places' /\ TriesBound'
    BY <1>2 DEF CredentialInv, ReadExpiration, TypeOK, Places, TriesBound, FlushPlace, CallerPlace,
         ProviderPlace
  <2>2. NoneOfTheFuture' /\ LoneFetch' /\ FetchedSince'
    BY <1>2 DEF CredentialInv, ReadExpiration, NoneOfTheFuture, LoneFetch, FetchedSince, TypeOK,
         Places
  <2>3. Fits' /\ BringsNewer' /\ NotAhead'
    BY <1>2 DEF CredentialInv, ReadExpiration, Fits, BringsNewer, NotAhead, TypeOK, Places,
         NoneOfTheFuture, LoneFetch, FirstWritten, NoFetch
  <2>4. QED  BY <2>1, <2>2, <2>3 DEF CredentialInv
<1>3. CASE LoadCredentials(c)
  <2>1. TypeOK' /\ Places' /\ TriesBound'
    BY <1>3 DEF CredentialInv, LoadCredentials, TypeOK, Places, TriesBound, FlushPlace, CallerPlace,
         ProviderPlace
  <2>2. NoneOfTheFuture' /\ LoneFetch' /\ FetchedSince'
    BY <1>3 DEF CredentialInv, LoadCredentials, NoneOfTheFuture, LoneFetch, FetchedSince, TypeOK,
         Places
  <2>3. Fits' /\ BringsNewer' /\ NotAhead'
    BY <1>3 DEF CredentialInv, LoadCredentials, Fits, BringsNewer, NotAhead, TypeOK, Places,
         NoneOfTheFuture, LoneFetch, FirstWritten, NoFetch
  <2>4. QED  BY <2>1, <2>2, <2>3 DEF CredentialInv
<1>4. CASE StartFetcher(c)
  <2>1. TypeOK' /\ Places' /\ TriesBound'
    BY <1>4 DEF CredentialInv, StartFetcher, FetchBegins, Alone, TypeOK, Places, TriesBound,
         FlushPlace, CallerPlace, ProviderPlace
  <2>2. NoneOfTheFuture' /\ LoneFetch' /\ FetchedSince'
    BY <1>4 DEF CredentialInv, StartFetcher, FetchBegins, Alone, NoneOfTheFuture, LoneFetch,
         FetchedSince, TypeOK, Places
  <2>3. Fits' /\ BringsNewer' /\ NotAhead'
    BY <1>4 DEF CredentialInv, StartFetcher, FetchBegins, Alone, Fits, BringsNewer, NotAhead,
         TypeOK, Places, NoneOfTheFuture, LoneFetch, FirstWritten, NoFetch
  <2>4. QED  BY <2>1, <2>2, <2>3 DEF CredentialInv
<1>5. CASE Fetched(c)
  <2>1. TypeOK' /\ Places' /\ TriesBound'
    BY <1>5 DEF CredentialInv, Fetched, TypeOK, Places, TriesBound, FlushPlace, CallerPlace,
         ProviderPlace
  <2>2. NoneOfTheFuture' /\ LoneFetch' /\ FetchedSince'
    BY <1>5 DEF CredentialInv, Fetched, NoneOfTheFuture, LoneFetch, FetchedSince, TypeOK, Places
  <2>3. Fits' /\ BringsNewer' /\ NotAhead'
    BY <1>5 DEF CredentialInv, Fetched, Fits, BringsNewer, NotAhead, TypeOK, Places,
         NoneOfTheFuture, LoneFetch, FirstWritten, NoFetch
  <2>4. QED  BY <2>1, <2>2, <2>3 DEF CredentialInv
<1>6. CASE FetchFails(c)
  <2>1. TypeOK' /\ Places' /\ TriesBound'
    BY <1>6 DEF CredentialInv, FetchFails, Returns, TypeOK, Places, TriesBound, FlushPlace,
         CallerPlace, ProviderPlace
  <2>2. NoneOfTheFuture' /\ LoneFetch' /\ FetchedSince'
    BY <1>6 DEF CredentialInv, FetchFails, Returns, NoneOfTheFuture, LoneFetch, FetchedSince,
         TypeOK, Places
  <2>3. Fits' /\ BringsNewer' /\ NotAhead'
    BY <1>6 DEF CredentialInv, FetchFails, Returns, Fits, BringsNewer, NotAhead, TypeOK, Places,
         NoneOfTheFuture, LoneFetch, FirstWritten, NoFetch
  <2>4. QED  BY <2>1, <2>2, <2>3 DEF CredentialInv
<1>7. CASE StoreCredentials(c)
  <2>1. TypeOK' /\ Places' /\ TriesBound'
    BY <1>7 DEF CredentialInv, StoreCredentials, TypeOK, Places, TriesBound, FlushPlace,
         CallerPlace, ProviderPlace
  <2>2. NoneOfTheFuture' /\ LoneFetch' /\ FetchedSince'
    BY <1>7 DEF CredentialInv, StoreCredentials, NoneOfTheFuture, LoneFetch, FetchedSince, TypeOK,
         Places
  <2>3. Fits' /\ BringsNewer' /\ NotAhead'
    BY <1>7 DEF CredentialInv, StoreCredentials, Fits, BringsNewer, NotAhead, TypeOK, Places,
         NoneOfTheFuture, LoneFetch, FirstWritten, NoFetch
  <2>4. QED  BY <2>1, <2>2, <2>3 DEF CredentialInv
<1>8. CASE StoreExpiration(c)
  <2>1. TypeOK' /\ Places' /\ TriesBound'
    BY <1>8 DEF CredentialInv, StoreExpiration, FetchEnds, TypeOK, Places, TriesBound, FlushPlace,
         CallerPlace, ProviderPlace
  <2>2. NoneOfTheFuture' /\ LoneFetch' /\ FetchedSince'
    BY <1>8 DEF CredentialInv, StoreExpiration, FetchEnds, NoneOfTheFuture, LoneFetch, FetchedSince,
         TypeOK, Places
  <2>3. Fits' /\ BringsNewer' /\ NotAhead'
    BY <1>8 DEF CredentialInv, StoreExpiration, FetchEnds, Fits, BringsNewer, NotAhead, TypeOK,
         Places, NoneOfTheFuture, LoneFetch, FirstWritten, NoFetch
  <2>4. QED  BY <2>1, <2>2, <2>3 DEF CredentialInv
<1>9. QED  BY <1>1, <1>2, <1>3, <1>4, <1>5, <1>6, <1>7, <1>8 DEF GetCredentials

LEMMA NextCredentials == CredentialInv /\ [Next]_vars => CredentialInv'
<1> SUFFICES ASSUME CredentialInv, [Next]_vars PROVE CredentialInv'
  OBVIOUS
<1>1. CASE TokensExpire
  BY <1>1, TimeKeeps
<1>2. CASE way = "wrapper" /\ TokenNext
  BY <1>2, AnswerKeeps, RequestKeeps, FetchKeeps, FlushKeeps DEF TokenNext, CallStep, FlushStep
<1>3. CASE way = "provider" /\ ProviderNext
  BY <1>3, AnswerKeeps, GetCredentialsKeeps DEF ProviderNext, ProviderCall
<1>4. CASE UNCHANGED vars
  BY <1>4 DEF vars, CredentialInv, TypeOK, Places, TriesBound, NoneOfTheFuture, LoneFetch, Fits,
     BringsNewer, NotAhead, FetchedSince, FirstWritten, NoFetch
<1>5. QED  BY <1>1, <1>2, <1>3, <1>4 DEF Next

LEMMA CredentialInvariance == Spec => []CredentialInv
BY InitCredentials, NextCredentials, PTL DEF Spec
-----------------------------------------------------------------------------
\* The values of the variables, for any number of callers, epochs and tries.
THEOREM TypesOfCredentials == Spec => []TypeOK
<1>1. CredentialInv => TypeOK
  BY DEF CredentialInv
<1>2. QED  BY <1>1, CredentialInvariance, PTL

\* fetchSTSToken and GetCredentials keep the expiry time of the token in use, unless two of
\* them overlapped and none ran alone since.
THEOREM ExpiryIsKept == Spec => []PairKept
<1>1. CredentialInv => PairKept
  BY DEF CredentialInv, Fits, PairKept
<1>2. QED  BY <1>1, CredentialInvariance, PTL

\* GetCredentials hands out what was current when it was asked: either it found the expiry time
\* of the stored token current, and what was stored since is newer, or it fetched the token.
THEOREM CurrentIsHandedOut == Spec => HandsOutCurrent
<1>1. ASSUME CredentialInv, Next, way = "provider", pair = "kept",
             NEW c \in Caller, pc[c] # "sent", pc'[c] = "sent"
      PROVE  token'[c] >= began[c]
  <2>1. PICK d \in Caller : ReadCredentials(d) \/ ProviderCall(d)
    BY <1>1 DEF Next, ProviderNext, TokensExpire
  <2>2. LoadCredentials(c) \/ StoreExpiration(c)
    BY <1>1, <2>1 DEF CredentialInv, TypeOK, ProviderCall, GetCredentials, ReadCredentials,
       ReadExpiration, LoadCredentials, StartFetcher, Fetched, FetchFails, StoreCredentials,
       StoreExpiration, Served, Denied, Returns
  <2>3. CASE LoadCredentials(c)
    BY <1>1, <2>3 DEF CredentialInv, TypeOK, NotAhead, LoadCredentials
  <2>4. CASE StoreExpiration(c)
    BY <1>1, <2>4 DEF CredentialInv, TypeOK, FetchedSince, StoreExpiration
  <2>5. QED  BY <2>2, <2>3, <2>4
<1>2. CredentialInv /\ [Next]_vars =>
        [way = "provider" /\ pair = "kept" =>
           \A c \in Caller : pc[c] # "sent" /\ pc'[c] = "sent" => token'[c] >= began[c]]_vars
  BY <1>1
<1>3. QED  BY <1>2, CredentialInvariance, PTL DEF Spec, HandsOutCurrent
=============================================================================
