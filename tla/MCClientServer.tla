--------------------------- MODULE MCClientServer ---------------------------
EXTENDS ClientServer, TLC

CONSTANTS t1, t2, c1, c2, admin, key, png, cat, singleton, adapter

OneAccount == [l \in {admin} |-> [password |-> key, path |-> <<admin, png>>]]

AsWritten == [p \in Path |-> p]

(* What the tables give a client to upload. *)
LocalLists == {TestsOf(table) : table \in Tables}

(* A pattern has no result or one: enough to tell an older table from a newer. *)
OneTest == {[name |-> n, result |-> 1] : n \in {singleton, adapter}}
=============================================================================
