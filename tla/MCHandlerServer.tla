--------------------------- MODULE MCHandlerServer ---------------------------
(* HandlerServer on small instances: every .cfg names the connections, the   *)
(* kinds of request they send and the data those carry.                      *)
EXTENDS HandlerServer, TLC

CONSTANTS t1, t2, t3, admin, ann, Ann, key, word, png, jpg, cat, dog,
          singleton, adapter, visitor, text

Symmetry == Permutations(Thread)

(* main.db as it is delivered: one account, with its picture. *)
OneAccount == [l \in {admin} |-> [password |-> key, path |-> <<admin, png>>]]

(* No account of the logins at hand: that of main.db is another one, with a *)
(* password of its own, and takes no part.                                   *)
NoAccount == [l \in {} |-> [password |-> key, path |-> <<admin, png>>]]

(* Windows takes Ann.png and ann.png for one file. *)
WindowsFile == [p \in Path |-> IF p[1] = Ann THEN <<ann, p[2]>> ELSE p]

T(name, result) == [name |-> name, result |-> result]

(* Nothing; one result; two results; a name the server does not know; a     *)
(* result that is no number.                                                *)
SomeUploads == {<<>>, <<T(singleton, 1)>>, <<T(singleton, 2), T(adapter, 1)>>,
                <<T(adapter, 2), T(visitor, 1), T(singleton, 1)>>,
                <<T(adapter, 1), T(singleton, text)>>}
=============================================================================
