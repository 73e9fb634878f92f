---------------------------- MODULE MCServiceCall ----------------------------
(***************************************************************************)
(* ServiceCall for every method of LogProject, LogStore, Client and        *)
(* TokenAutoUpdateClient.  Methods of the same shape behave alike, but     *)
(* each is an entry of its own.                                            *)
(***************************************************************************)
EXTENDS ServiceCall, TokenCalls

OperationNamed == [n \in OpsOf(AllOperations) |-> CHOOSE r \in AllOperations : r.op = n]

InLoop(calls, loop) ==
  {[name |-> c.name, steps |-> [i \in DOMAIN c.ops |-> OperationNamed[c.ops[i]]], loop |-> loop]
   : c \in calls}

AllEntries ==
  InLoop(ClientCalls \cup Same(NotOfClient), "none")
    \cup InLoop(TokenCalls, "token") \cup InLoop(LoopingCalls, "any")

\* The tables give each operation one row, and every wrapper something to wrap.
ASSUME OneRowEach == \A r, s \in AllOperations : r.op = s.op => r = s
ASSUME WrappersHaveCalls == Wrapped \subseteq {c.name : c \in ClientCalls}
=============================================================================
