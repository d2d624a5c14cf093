------------------------------ MODULE XmlForest ------------------------------
(***************************************************************************)
(* What the class XMLDocument of TinyXML-2 promises its callers, whatever  *)
(* links and pools it keeps: an ordered tree below the document, and nodes *)
(* that were created and not inserted yet.  Nodes are created, moved with  *)
(* all that is below them, and deleted with all that is below them.        *)
(***************************************************************************)
EXTENDS Integers, Sequences, SequencesExt, FiniteSets

CONSTANTS Doc, Node   \* the document; its nodes

VARIABLES
  children,  \* a node that exists, or the document -> its children in order
  loose      \* the nodes that were created and are in no tree

vars == <<children, loose>>

(* A node is at one place among the children of one node. *)
Without(kids, n) ==
  IF n \in ToSet(kids) THEN RemoveAt(kids, CHOOSE i \in DOMAIN kids : kids[i] = n) ELSE kids

(* n and everything below it. *)
Below(n) ==
  LET kids == children
      closed == {S \in SUBSET DOMAIN kids : \A m \in S : ToSet(kids[m]) \subseteq S}
  IN {m \in DOMAIN kids : \A S \in closed : n \in S => m \in S}

Init == children = [n \in {Doc} |-> <<>>] /\ loose = {}

Create(n) ==
  /\ loose' = loose \cup {n}
  /\ children' = [m \in DOMAIN children \cup {n} |-> IF m = n THEN <<>> ELSE children[m]]

(* A new node, put in front of the children of p at once. *)
CreateFirst(p, n) ==
  /\ UNCHANGED loose
  /\ children' = [m \in DOMAIN children \cup {n} |-> IF m = n THEN <<>>
                                                    ELSE IF m = p THEN <<n>> \o children[p]
                                                    ELSE children[m]]

(* n becomes the child of p that has k of the others before it. *)
Move(p, k, n) ==
  LET kids == children
      others == [m \in DOMAIN kids |-> Without(kids[m], n)]
  IN /\ k <= Len(others[p])
     /\ loose' = loose \ {n}
     /\ children' = [others EXCEPT ![p] = InsertAt(others[p], k + 1, n)]

Delete(n) ==
  LET kids == children
      gone == Below(n)
  IN /\ loose' = loose \ {n}
     /\ children' = [m \in DOMAIN kids \ gone |-> Without(kids[m], n)]

Next == \/ \E n \in Node \ DOMAIN children : \/ Create(n)
                                            \/ \E p \in DOMAIN children : CreateFirst(p, n)
        \/ \E n \in DOMAIN children \ {Doc} :
             \/ \E p \in DOMAIN children \ Below(n) :
                  \E k \in 0..Len(children[p]) : Move(p, k, n)
             \/ Delete(n)

Spec == Init /\ [][Next]_vars
=============================================================================
