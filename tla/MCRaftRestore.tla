--------------------------- MODULE MCRaftRestore ---------------------------
(* Two nodes; the first has a log that it compacts, the second joins later.  *)
EXTENDS RaftFsm

SameAddress == [n \in Nodes |-> n]

Written == {<<[op |-> "create_collection"]>>}
=============================================================================
