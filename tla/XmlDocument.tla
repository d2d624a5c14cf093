----------------------------- MODULE XmlDocument -----------------------------
(***************************************************************************)
(* The document of TinyXML-2 (client/tinyxml2.cpp and .h), with which both *)
(* sides build and read their messages: the nodes with their five links,   *)
(* the pools they are allocated from, and the list of nodes that were      *)
(* created and not inserted.  Deleting a node is a recursion of the code;  *)
(* here every call on its stack is a step, and doomed is that stack.       *)
(* A definition nothing uses (KeepsLast, NotFound, ...) is what a mistake  *)
(* would make of the one right after it; the mutants swap the two.         *)
(***************************************************************************)
EXTENDS Integers, Sequences, SequencesExt, FiniteSets

CONSTANTS
  Name,           \* names of elements
  Text,           \* contents of text nodes: empty, blank or others
  ItemsPerBlock,  \* items that a pool gets at a time
  MaxBlocks,      \* bound: pool -> its blocks
  Doc, None       \* the document; a null pointer

Pool == {"element", "text", "comment"}
Item == UNION {{k} \X (1..(MaxBlocks[k] * ItemsPerBlock)) : k \in Pool}
Node == Item \cup {Doc}

ASSUME BoundsAssumption == ItemsPerBlock \in Nat \ {0} /\ MaxBlocks \in [Pool -> Nat]
ASSUME NullAssumption == Doc \notin Item /\ None \notin Node
ASSUME TextAssumption == {"empty", "blank"} \subseteq Text

VARIABLES
  links,      \* _parent, _firstChild, _lastChild, _prev, _next of every node
  value,      \* _value: the name of an element, the text of another node
  _unlinked,  \* the nodes that were created and not inserted
  _root,      \* pool -> its free items
  blocks,     \* pool -> the number of its blocks
  _nUntracked,
  doomed      \* the nodes whose destructor runs, the innermost last

pools == <<_root, blocks, _nUntracked>>
domVars == <<links, value, _unlinked, pools, doomed>>

-----------------------------------------------------------------------------
Pointers == [Node -> Node \cup {None}]

Null == [n \in Node |-> None]

kind(n) == IF n = Doc THEN "document" ELSE n[1]

Live == {i \in Item : i[2] <= blocks[i[1]] * ItemsPerBlock} \ UNION {ToSet(_root[k]) : k \in Pool}

CurrentAllocs(k) == Cardinality({i \in Live : i[1] = k})

DomInit ==
  /\ links = [parent |-> Null, first |-> Null, last |-> Null, prev |-> Null, next |-> Null]
  /\ value = [n \in Node |-> None]
  /\ _unlinked = <<>>
  /\ _root = [k \in Pool |-> <<>>]
  /\ blocks = [k \in Pool |-> 0]
  /\ _nUntracked = [k \in Pool |-> 0]
  /\ doomed = <<>>

(* The pools. *)
BlockItems(k) == [j \in 1..ItemsPerBlock |-> <<k, blocks[k] * ItemsPerBlock + j>>]

CanAlloc(k) == _root[k] # <<>> \/ blocks[k] < MaxBlocks[k]

Available(k) == IF _root[k] = <<>> THEN BlockItems(k) ELSE _root[k]

Alloc(k) == /\ CanAlloc(k)
            /\ _root' = [_root EXCEPT ![k] = Tail(Available(k))]
            /\ blocks' = [blocks EXCEPT ![k] = IF _root[k] = <<>> THEN @ + 1 ELSE @]

Free(n) == _root' = [_root EXCEPT ![n[1]] = <<n>> \o @]

SetTracked(n) == _nUntracked' = [_nUntracked EXCEPT ![n[1]] = @ - 1]

(* The list of nodes that are not inserted. *)
SwapRemove(u, i) == [j \in 1..(Len(u) - 1) |-> IF j = i THEN u[Len(u)] ELSE u[j]]

NotFound(u, n) == u

MarkInUse(u, n) == IF n \in ToSet(u) THEN SwapRemove(u, CHOOSE i \in DOMAIN u : u[i] = n) ELSE u

-----------------------------------------------------------------------------
(* What the statements of a call make of the links d. *)
KeepsLast(d, c) ==
  LET p == d.parent[c]
  IN [d EXCEPT !.first[p] = IF @ = c THEN d.next[c] ELSE @,
               !.next = [n \in Node |-> IF n = c THEN None ELSE IF n = d.prev[c] THEN d.next[c] ELSE @[n]],
               !.prev = [n \in Node |-> IF n = c THEN None ELSE IF n = d.next[c] THEN d.prev[c] ELSE @[n]],
               !.parent[c] = None]

Unlink(d, c) ==
  LET p == d.parent[c]
  IN [d EXCEPT !.first[p] = IF @ = c THEN d.next[c] ELSE @,
               !.last[p] = IF @ = c THEN d.prev[c] ELSE @,
               !.next = [n \in Node |-> IF n = c THEN None ELSE IF n = d.prev[c] THEN d.next[c] ELSE @[n]],
               !.prev = [n \in Node |-> IF n = c THEN None ELSE IF n = d.next[c] THEN d.prev[c] ELSE @[n]],
               !.parent[c] = None]

(* InsertChildPreamble: away from an earlier place. *)
Detached(d, c) == IF d.parent[c] = None THEN d ELSE Unlink(d, c)

AtEnd(d, p, c) ==
  IF d.last[p] # None
  THEN [d EXCEPT !.next[d.last[p]] = c, !.prev[c] = d.last[p], !.last[p] = c, !.next[c] = None,
                 !.parent[c] = p]
  ELSE [d EXCEPT !.first[p] = c, !.last[p] = c, !.prev[c] = None, !.next[c] = None, !.parent[c] = p]

AtFront(d, p, c) ==
  IF d.first[p] # None
  THEN [d EXCEPT !.prev[d.first[p]] = c, !.next[c] = d.first[p], !.first[p] = c, !.prev[c] = None,
                 !.parent[c] = p]
  ELSE [d EXCEPT !.first[p] = c, !.last[p] = c, !.prev[c] = None, !.next[c] = None, !.parent[c] = p]

After(d, a, c) ==
  [d EXCEPT !.prev[c] = a, !.next[c] = d.next[a], !.prev[d.next[a]] = c, !.next[a] = c,
            !.parent[c] = d.parent[a]]

(* The rest of InsertChildPreamble. *)
Used(c) == /\ _unlinked' = MarkInUse(_unlinked, c)
           /\ IF links.parent[c] = None THEN SetTracked(c) ELSE UNCHANGED _nUntracked

Insert(d, c) == /\ links' = d
                /\ Used(c)
                /\ UNCHANGED <<value, _root, blocks, doomed>>

-----------------------------------------------------------------------------
(* NewElement, NewText, NewDeclaration: the constructor nulls the links.    *)
CreateUnlinkedNode(k, v) ==
  /\ Alloc(k)
  /\ LET n == Head(Available(k))
     IN /\ value' = [value EXCEPT ![n] = v]
        /\ _unlinked' = Append(_unlinked, n)
  /\ _nUntracked' = [_nUntracked EXCEPT ![k] = @ + 1]
  /\ UNCHANGED <<links, doomed>>

InsertEndChild(p, c) == Insert(AtEnd(Detached(links, c), p, c), c)

InsertFirstChild(p, c) == Insert(AtFront(Detached(links, c), p, c), c)

(* Nothing happens if a is c; the last node makes it InsertEndChild.  If c  *)
(* is the last node and follows a, the code uses a null pointer: such a     *)
(* call, which would change nothing, is not made.                           *)
InsertAfterChild(a, c) ==
  /\ a # c
  /\ ~ (links.next[a] = c /\ links.next[c] = None)
  /\ IF links.next[a] = None
     THEN InsertEndChild(links.parent[a], c)
     ELSE Insert(After(Detached(links, c), a, c), c)

(* GetText and SetText: the first child, if it is a text. *)
GetText(n) == LET c == links.first[n]
              IN IF c # None /\ kind(c) = "text" THEN value[c] ELSE None

SetText(n, t) ==
  IF GetText(n) # None
  THEN /\ value' = [value EXCEPT ![links.first[n]] = t]
       /\ UNCHANGED <<links, _unlinked, pools, doomed>>
  ELSE /\ Alloc("text")
       /\ LET c == Head(Available("text"))
          IN /\ value' = [value EXCEPT ![c] = t]
             /\ links' = AtFront(links, n, c)
       /\ UNCHANGED <<_unlinked, _nUntracked, doomed>>

FirstChildElement(n, name) ==
  LET from[c \in Node \cup {None}] ==
        IF c = None \/ (kind(c) = "element" /\ value[c] = name) THEN c ELSE from[links.next[c]]
  IN from[links.first[n]]

-----------------------------------------------------------------------------
(* DeleteNode of XMLNode is called for n, which d has out of the tree. *)
DeleteNode(d, n) == /\ links' = d
                    /\ _unlinked' = MarkInUse(_unlinked, n)
                    /\ doomed' = Append(doomed, n)
                    /\ UNCHANGED <<value, _root, blocks>>

DeleteChild(n) == DeleteNode(Unlink(links, n), n) /\ UNCHANGED _nUntracked

(* DeleteNode of XMLDocument. *)
DocumentDeleteNode(n) == IF links.parent[n] # None THEN DeleteChild(n)
                         ELSE DeleteNode(links, n) /\ SetTracked(n)

(* The destructor: DeleteChildren, then the item returns to its pool. *)
Destroy ==
  /\ doomed # <<>>
  /\ LET n == Last(doomed)
     IN IF links.first[n] # None
        THEN DeleteChild(links.first[n])
        ELSE /\ doomed' = Front(doomed)
             /\ Free(n)
             /\ value' = [value EXCEPT ![n] = None]
             /\ UNCHANGED <<links, _unlinked, blocks, _nUntracked>>

(* Clear, one node at a time. *)
Cleared == links.first[Doc] = None /\ _unlinked = <<>>

ClearStep == IF links.first[Doc] # None THEN DeleteChild(links.first[Doc])
             ELSE _unlinked # <<>> /\ DocumentDeleteNode(_unlinked[1])

-----------------------------------------------------------------------------
Ancestors(n) == LET up[m \in Node \cup {None}] == IF m = None THEN {} ELSE {m} \cup up[links.parent[m]]
                IN up[n]

(* A caller's step.  It inserts no node below itself. *)
Create(k) == \E v \in IF k = "element" THEN Name ELSE IF k = "text" THEN Text ELSE {"xml"} :
               CreateUnlinkedNode(k, v)

Parents == {Doc} \cup {n \in Live : kind(n) = "element"}

Edit ==
  \/ \E k \in Pool : Create(k)
  \/ \E p \in Parents, c \in Live :
       /\ c # p /\ c \notin Ancestors(p)
       /\ \/ InsertEndChild(p, c) \/ InsertFirstChild(p, c)
          \/ \E a \in Live : links.parent[a] = p /\ InsertAfterChild(a, c)
  \/ \E n \in Live, t \in Text : kind(n) = "element" /\ SetText(n, t)
  \/ \E n \in Live : DocumentDeleteNode(n)

(* The parser's calls, besides InsertEndChild: it makes nodes, deletes such *)
(* as it has not inserted, with a correct count or without (the recount is  *)
(* the end of every pool), and empties the pools.                           *)
EmptyPools == /\ _root' = [k \in Pool |-> <<>>]
              /\ blocks' = [k \in Pool |-> 0]
              /\ _nUntracked' = [k \in Pool |-> 0]
              /\ UNCHANGED <<links, value, _unlinked, doomed>>

Value == Name \cup Text \cup {"xml", "padded", "other"}

ParserCall ==
  \/ \E k \in Pool, v \in Value : CreateUnlinkedNode(k, v)
  \/ \E n \in ToSet(_unlinked) : /\ DeleteNode(links, n)
                                 /\ SetTracked(n) \/ UNCHANGED _nUntracked
  \/ Live = {} /\ EmptyPools

(* What happens to a document: a call is made when no destructor runs. *)
DomNext == \/ doomed = <<>> /\ (Edit \/ ParserCall \/ ClearStep)
           \/ Destroy

DomSpec == DomInit /\ [][DomNext]_domVars

-----------------------------------------------------------------------------
(***************************************************************************)
(*                               Properties                                *)
(***************************************************************************)
DomTypeOK ==
  /\ links \in [parent : Pointers, first : Pointers, last : Pointers, prev : Pointers, next : Pointers]
  /\ value \in [Node -> Value \cup {None}]
  /\ _unlinked \in Seq(Item)
  /\ _root \in [Pool -> Seq(Item)]
  /\ blocks \in [Pool -> Nat]
  /\ _nUntracked \in [Pool -> Int]
  /\ doomed \in Seq(Item)

(* The links agree with each other: first and last child, neighbours and    *)
(* parents say the same, in every state between two calls and inside of     *)
(* every deletion; a free item is linked to nothing.                        *)
LinksAgree ==
  /\ DomTypeOK
  /\ \A n \in Node :
       /\ links.first[n] = None <=> links.last[n] = None
       /\ links.first[n] # None => /\ links.prev[links.first[n]] = None
                                   /\ links.next[links.last[n]] = None
                                   /\ links.parent[links.first[n]] = n
                                   /\ links.parent[links.last[n]] = n
       /\ links.next[n] # None => /\ links.prev[links.next[n]] = n
                                  /\ links.parent[links.next[n]] = links.parent[n]
       /\ links.prev[n] # None => links.next[links.prev[n]] = n
       /\ links.parent[n] # None /\ links.prev[n] = None => links.first[links.parent[n]] = n
       /\ links.parent[n] # None /\ links.next[n] = None => links.last[links.parent[n]] = n
       /\ links.parent[n] = None => links.next[n] = None /\ links.prev[n] = None
       /\ n \notin Live \cup {Doc} => links.parent[n] = None /\ links.first[n] = None

(* The pools lose no item and give none out twice: an item is free once, or *)
(* in a tree, or in the list of those that were created and not inserted,   *)
(* once, or its destructor runs.                                            *)
PoolsBalanced ==
  /\ \A k \in Pool : IsInjective(_root[k])
  /\ IsInjective(_unlinked)
  /\ \A n \in Live : 1 = (IF links.parent[n] # None THEN 1 ELSE 0)
                         + (IF n \in ToSet(_unlinked) THEN 1 ELSE 0)
                         + (IF n \in ToSet(doomed) THEN 1 ELSE 0)
  /\ ToSet(_unlinked) \cup ToSet(doomed) \subseteq Live

(* The document implements the ordered forest: every step of every call is  *)
(* one change of it or none.  A node whose destructor runs is not in it.    *)
ChildrenOf(n) == LET from[c \in Node \cup {None}] ==
                       IF c = None THEN <<>> ELSE <<c>> \o from[links.next[c]]
                 IN from[links.first[n]]

Kept == {n \in Live \cup {Doc} : Ancestors(n) \cap ({Doc} \cup ToSet(_unlinked)) # {}}

Forest == INSTANCE XmlForest WITH Node <- Item,
                                  children <- [n \in Kept |-> ChildrenOf(n)],
                                  loose <- ToSet(_unlinked)

ImplementsForest == Forest!Spec
=============================================================================
