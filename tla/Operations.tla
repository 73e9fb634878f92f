----------------------------- MODULE Operations -----------------------------
(***************************************************************************)
(* How an operation of the service's API is described.  Every method of    *)
(* LogProject, LogStore and Client that calls the service does the same:   *)
(* it checks or encodes its arguments, makes one request, returns an error *)
(* or reads the answer.  A row tells where the methods differ:             *)
(*   op      the name of the method                                        *)
(*   via     request(project, ..) of request.go, which retries, or         *)
(*           c.request(..) of client_request.go, which does not            *)
(*   get     whether the request is a GET                                  *)
(*   checks  how it can end without a request: with nil when there is      *)
(*           nothing to send ("empty"), with an *Error ("wrapped") or      *)
(*           with another error ("raw"), e.g. when json.Marshal fails      *)
(*   error   whether an error of the request goes through NewClientError   *)
(*   answer  what happens to a body that cannot be read or understood:     *)
(*           nothing ("ignored"), only the reading is checked ("read"), an *)
(*           error ("wrapped" in an *Error or "raw"), or only a part of it *)
(*           is checked ("inner")                                          *)
(*   closes  whether the body of the answer is closed                      *)
(*   polls   whether it is repeated until the answer is complete           *)
(*   after   "exists": an error that says "not exist" is the answer no;    *)
(*           "panics": an error makes the method use a nil pointer;        *)
(*           "nilMeta": the same, but not for every answer it rejects;     *)
(*           "assumes": an answer that is not what the method takes for    *)
(*           granted (a header, a size, an element, a type) can make it    *)
(*           panic                                                         *)
(* A body that breaks off and one that is not understood give different    *)
(* errors; both are the error of an answer here.                           *)
(* A set of rows is written once for all the methods that are alike.       *)
(***************************************************************************)
EXTENDS Integers, Sequences

Rows(ops, via, get, checks, error, answer, after) ==
  [op: ops, via: {via}, get: {get}, checks: {checks}, error: {error}, answer: {answer},
   closes: {TRUE}, polls: {FALSE}, after: {after}]

\* The usual reads and writes of LogProject and LogStore, and of Client.
Read(ops, error, answer) == Rows(ops, "project", TRUE, {}, error, answer, "returns")
Write(ops, checks, error) == Rows(ops, "project", FALSE, checks, error, "ignored", "returns")
ClientRead(ops, answer) == Rows(ops, "client", TRUE, {}, "raw", answer, "returns")
ClientWrite(ops, checks) == Rows(ops, "client", FALSE, checks, "raw", "ignored", "returns")

Existence(ops, answer) == Rows(ops, "project", TRUE, {}, "raw", answer, "exists")
NotClosed(rows) == {[r EXCEPT !.closes = FALSE] : r \in rows}
Polling(rows) == {[r EXCEPT !.polls = TRUE] : r \in rows}

OpsOf(rows) == {r.op : r \in rows}

\* A call and the operations it makes, one after the other.
To(name, ops) == [name |-> name, ops |-> ops]
Same(names) == {To(n, <<n>>) : n \in names}
=============================================================================
