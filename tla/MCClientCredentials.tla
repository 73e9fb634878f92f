------------------------ MODULE MCClientCredentials ------------------------
(* Two callers and the flush goroutine, in two epochs: one expiry. *)
EXTENDS ClientCredentials

CONSTANTS c1, c2
Callers == {c1, c2}
=============================================================================
