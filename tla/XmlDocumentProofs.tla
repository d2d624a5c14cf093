-------------------------- MODULE XmlDocumentProofs --------------------------
(***************************************************************************)
(* Proofs about the document of TinyXML-2 (module XmlDocument): whatever   *)
(* calls a program or the parser makes, in any order and number, the five  *)
(* links of the nodes agree, every item is in exactly one place, and the   *)
(* calls are changes of the ordered forest (module XmlForest).  And about  *)
(* the parser (module XmlParser): whatever text arrives, it makes only     *)
(* calls that are allowed.                                                 *)
(***************************************************************************)
EXTENDS XmlParser, FiniteSetTheorems, WellFoundedInduction, TLAPS

-----------------------------------------------------------------------------
(* The links as pure data: what the statements of a call make of them.     *)
Links == [parent : Pointers, first : Pointers, last : Pointers, prev : Pointers, next : Pointers]

AgreeAt(d, n) ==
  /\ d.first[n] = None <=> d.last[n] = None
  /\ d.first[n] # None => d.prev[d.first[n]] = None /\ d.parent[d.first[n]] = n
  /\ d.last[n] # None => d.next[d.last[n]] = None /\ d.parent[d.last[n]] = n
  /\ d.next[n] # None => d.prev[d.next[n]] = n /\ d.parent[d.next[n]] = d.parent[n]
  /\ d.prev[n] # None => d.next[d.prev[n]] = n
  /\ d.parent[n] # None /\ d.prev[n] = None => d.first[d.parent[n]] = n
  /\ d.parent[n] # None /\ d.next[n] = None => d.last[d.parent[n]] = n
  /\ d.parent[n] = None => d.next[n] = None /\ d.prev[n] = None

Agree(d) == \A n \in Node : AgreeAt(d, n)

(* c has got the parent q; but for p, nobody has got another first child.   *)
ParentSet(d, e, c, q) == e.parent = [d.parent EXCEPT ![c] = q]

FirstKept(d, e, p) == \A n \in Node : n # p => e.first[n] = d.first[n]

(* What the links of each node are, when a child was taken out of its place *)
(* or a node that was in no place was put into one.                         *)
Unlinked(d, e, c) ==
  \A n \in Node :
    /\ e.parent[n] = IF n = c THEN None ELSE d.parent[n]
    /\ e.first[n] = IF n = d.parent[c] /\ d.prev[c] = None THEN d.next[c] ELSE d.first[n]
    /\ e.last[n] = IF n = d.parent[c] /\ d.next[c] = None THEN d.prev[c] ELSE d.last[n]
    /\ e.prev[n] = IF n = c THEN None ELSE IF n = d.next[c] THEN d.prev[c] ELSE d.prev[n]
    /\ e.next[n] = IF n = c THEN None ELSE IF n = d.prev[c] THEN d.next[c] ELSE d.next[n]

PutAtEnd(d, e, p, c) ==
  \A n \in Node :
    /\ e.parent[n] = IF n = c THEN p ELSE d.parent[n]
    /\ e.first[n] = IF n = p /\ d.last[p] = None THEN c ELSE d.first[n]
    /\ e.last[n] = IF n = p THEN c ELSE d.last[n]
    /\ e.prev[n] = IF n = c THEN d.last[p] ELSE d.prev[n]
    /\ e.next[n] = IF n = c THEN None ELSE IF n = d.last[p] THEN c ELSE d.next[n]

PutAtFront(d, e, p, c) ==
  \A n \in Node :
    /\ e.parent[n] = IF n = c THEN p ELSE d.parent[n]
    /\ e.first[n] = IF n = p THEN c ELSE d.first[n]
    /\ e.last[n] = IF n = p /\ d.first[p] = None THEN c ELSE d.last[n]
    /\ e.prev[n] = IF n = c THEN None ELSE IF n = d.first[p] THEN c ELSE d.prev[n]
    /\ e.next[n] = IF n = c THEN d.first[p] ELSE d.next[n]

PutAfter(d, e, a, c) ==
  \A n \in Node :
    /\ e.parent[n] = IF n = c THEN d.parent[a] ELSE d.parent[n]
    /\ e.first[n] = d.first[n]
    /\ e.last[n] = d.last[n]
    /\ e.prev[n] = IF n = d.next[a] THEN c ELSE IF n = c THEN a ELSE d.prev[n]
    /\ e.next[n] = IF n = a THEN c ELSE IF n = c THEN d.next[a] ELSE d.next[n]

LEMMA UnlinkIs ==
  ASSUME NEW d \in Links, Agree(d), NEW c \in Node, d.parent[c] # None
  PROVE  /\ Unlink(d, c) \in Links
         /\ Unlink(d, c).parent = [d.parent EXCEPT ![c] = None]
         /\ Unlinked(d, Unlink(d, c), c)
<1> DEFINE p == d.parent[c]
           e == Unlink(d, c)
           f == IF d.first[p] = c THEN d.next[c] ELSE d.first[p]
           l == IF d.last[p] = c THEN d.prev[c] ELSE d.last[p]
<1>1. /\ d.parent \in Pointers /\ d.first \in Pointers /\ d.last \in Pointers
      /\ d.prev \in Pointers /\ d.next \in Pointers
  BY DEF Links
<1>2. p \in Node
  BY <1>1 DEF Pointers
<1>3. /\ DOMAIN d = {"parent", "first", "last", "prev", "next"}
      /\ d = [k \in DOMAIN d |-> d[k]]
  BY DEF Links
<1>4. e.parent = [d.parent EXCEPT ![c] = None]
  BY <1>1, <1>2, <1>3 DEF Unlink
<1>5. e.first = [d.first EXCEPT ![p] = f]
  BY <1>1, <1>2, <1>3 DEF Unlink
<1>6. e.prev = [n \in Node |-> IF n = c THEN None ELSE IF n = d.next[c] THEN d.prev[c] ELSE d.prev[n]]
  BY <1>1, <1>2, <1>3 DEF Unlink
<1>7. e.last = [d.last EXCEPT ![p] = l]
  BY <1>1, <1>2, <1>3 DEF Unlink
<1>8. e.next = [n \in Node |-> IF n = c THEN None ELSE IF n = d.prev[c] THEN d.next[c] ELSE d.next[n]]
  BY <1>1, <1>2, <1>3 DEF Unlink
<1>9. DOMAIN e = DOMAIN d /\ e = [k \in DOMAIN e |-> e[k]]
  BY <1>1, <1>2, <1>3 DEF Unlink
<1> HIDE DEF e, f, l
<1>10. e \in Links
  <2>1. e.parent \in Pointers /\ e.first \in Pointers /\ e.last \in Pointers
    BY <1>1, <1>2, <1>4, <1>5, <1>7 DEF Pointers, f, l
  <2>2. e.prev \in Pointers /\ e.next \in Pointers
    BY <1>1, <1>6, <1>8 DEF Pointers
  <2> QED BY <2>1, <2>2, <1>3, <1>9 DEF Links
<1>11. None \notin Node /\ c # None /\ p # None
  BY <1>2, NullAssumption
<1>12. \A n \in Node : /\ d.parent[n] \in Node \cup {None} /\ d.first[n] \in Node \cup {None}
                       /\ d.last[n] \in Node \cup {None} /\ d.prev[n] \in Node \cup {None}
                       /\ d.next[n] \in Node \cup {None}
  BY <1>1 DEF Pointers
<1>13. /\ d.first[p] = c <=> d.prev[c] = None
       /\ d.last[p] = c <=> d.next[c] = None
  BY <1>2, <1>11 DEF Agree, AgreeAt
<1>14. \A n \in Node :
         /\ e.parent[n] = IF n = c THEN None ELSE d.parent[n]
         /\ e.first[n] = IF n = p /\ d.prev[c] = None THEN d.next[c] ELSE d.first[n]
         /\ e.last[n] = IF n = p /\ d.next[c] = None THEN d.prev[c] ELSE d.last[n]
         /\ e.prev[n] = IF n = c THEN None ELSE IF n = d.next[c] THEN d.prev[c] ELSE d.prev[n]
         /\ e.next[n] = IF n = c THEN None ELSE IF n = d.prev[c] THEN d.next[c] ELSE d.next[n]
  BY <1>1, <1>2, <1>4, <1>5, <1>6, <1>7, <1>8, <1>13 DEF Pointers, f, l
<1> QED BY <1>4, <1>10, <1>14 DEF Unlinked, e

(* Taking a child out of its place leaves links that agree, with the child  *)
(* in no place and every other node below its parent.                       *)
LEMMA UnlinkAgrees ==
  ASSUME NEW d \in Links, Agree(d), NEW c \in Node, d.parent[c] # None
  PROVE  /\ Unlink(d, c) \in Links
         /\ Agree(Unlink(d, c))
         /\ Unlink(d, c).parent = [d.parent EXCEPT ![c] = None]
         /\ \A n \in Node : d.first[n] = None => Unlink(d, c).first[n] = None
         /\ \A n \in Node : n # c /\ d.next[n] # None /\ ~ (d.next[n] = c /\ d.next[c] = None)
                              => Unlink(d, c).next[n] # None
<1> DEFINE p == d.parent[c]
           e == Unlink(d, c)
<1>1. /\ d.parent \in Pointers /\ d.first \in Pointers /\ d.last \in Pointers
      /\ d.prev \in Pointers /\ d.next \in Pointers
  BY DEF Links
<1>2. p \in Node
  BY <1>1 DEF Pointers
<1>4. e \in Links /\ e.parent = [d.parent EXCEPT ![c] = None] /\ Unlinked(d, e, c)
  BY UnlinkIs
<1> HIDE DEF e
<1>11. None \notin Node /\ c # None /\ p # None
  BY <1>2, NullAssumption
<1>12. \A n \in Node : /\ d.parent[n] \in Node \cup {None} /\ d.first[n] \in Node \cup {None}
                       /\ d.last[n] \in Node \cup {None} /\ d.prev[n] \in Node \cup {None}
                       /\ d.next[n] \in Node \cup {None}
  BY <1>1 DEF Pointers
<1>13. /\ d.first[p] = c <=> d.prev[c] = None
       /\ d.last[p] = c <=> d.next[c] = None
  BY <1>2, <1>11 DEF Agree, AgreeAt
<1>14. \A n \in Node : AgreeAt(d, n)
  BY DEF Agree
<1>15. \A n \in Node :
         /\ e.parent[n] = IF n = c THEN None ELSE d.parent[n]
         /\ e.first[n] = IF n = p /\ d.prev[c] = None THEN d.next[c] ELSE d.first[n]
         /\ e.last[n] = IF n = p /\ d.next[c] = None THEN d.prev[c] ELSE d.last[n]
         /\ e.prev[n] = IF n = c THEN None ELSE IF n = d.next[c] THEN d.prev[c] ELSE d.prev[n]
         /\ e.next[n] = IF n = c THEN None ELSE IF n = d.prev[c] THEN d.next[c] ELSE d.next[n]
  BY <1>4 DEF Unlinked
<1>16. ASSUME NEW n \in Node PROVE AgreeAt(e, n)
  <2> HIDE DEF p
  <2>1. e.first[n] = None <=> e.last[n] = None
    BY <1>2, <1>11, <1>12, <1>13, <1>14, <1>15 DEF AgreeAt
  <2>2. e.first[n] # None => e.prev[e.first[n]] = None /\ e.parent[e.first[n]] = n
    BY <1>2, <1>11, <1>12, <1>13, <1>14, <1>15 DEF AgreeAt, p
  <2>3. e.last[n] # None => e.next[e.last[n]] = None /\ e.parent[e.last[n]] = n
    BY <1>2, <1>11, <1>12, <1>13, <1>14, <1>15 DEF AgreeAt, p
  <2>4. e.next[n] # None => e.prev[e.next[n]] = n /\ e.parent[e.next[n]] = e.parent[n]
    BY <1>2, <1>11, <1>12, <1>13, <1>14, <1>15 DEF AgreeAt, p
  <2>5. e.prev[n] # None => e.next[e.prev[n]] = n
    BY <1>2, <1>11, <1>12, <1>13, <1>14, <1>15 DEF AgreeAt, p
  <2>6. e.parent[n] # None /\ e.prev[n] = None => e.first[e.parent[n]] = n
    BY <1>2, <1>11, <1>12, <1>13, <1>14, <1>15 DEF AgreeAt, p
  <2>7. e.parent[n] # None /\ e.next[n] = None => e.last[e.parent[n]] = n
    BY <1>2, <1>11, <1>12, <1>13, <1>14, <1>15 DEF AgreeAt, p
  <2>8. e.parent[n] = None => e.next[n] = None /\ e.prev[n] = None
    BY <1>2, <1>11, <1>12, <1>13, <1>14, <1>15 DEF AgreeAt, p
  <2> QED BY <2>1, <2>2, <2>3, <2>4, <2>5, <2>6, <2>7, <2>8 DEF AgreeAt
<1>17. \A n \in Node : d.first[n] = None => e.first[n] = None
  BY <1>2, <1>11, <1>13, <1>15
<1>18. \A n \in Node : n # c /\ d.next[n] # None /\ ~ (d.next[n] = c /\ d.next[c] = None)
                       => e.next[n] # None
  BY <1>11, <1>12, <1>14, <1>15 DEF AgreeAt
<1> QED BY <1>4, <1>16, <1>17, <1>18 DEF Agree, e

LEMMA AtEndIs ==
  ASSUME NEW d \in Links, Agree(d), NEW c \in Node, d.parent[c] = None,
         NEW p \in Node, p # c
  PROVE  /\ AtEnd(d, p, c) \in Links
         /\ AtEnd(d, p, c).parent = [d.parent EXCEPT ![c] = p]
         /\ PutAtEnd(d, AtEnd(d, p, c), p, c)
<1> DEFINE e == AtEnd(d, p, c)
           b == d.last[p]
<1>1. /\ d.parent \in Pointers /\ d.first \in Pointers /\ d.last \in Pointers
      /\ d.prev \in Pointers /\ d.next \in Pointers
  BY DEF Links
<1>2. None \notin Node /\ c # None
  BY NullAssumption
<1>3. /\ DOMAIN d = {"parent", "first", "last", "prev", "next"}
      /\ d = [k \in DOMAIN d |-> d[k]]
  BY DEF Links
<1>4. \A n \in Node : /\ d.parent[n] \in Node \cup {None} /\ d.first[n] \in Node \cup {None}
                      /\ d.last[n] \in Node \cup {None} /\ d.prev[n] \in Node \cup {None}
                      /\ d.next[n] \in Node \cup {None}
  BY <1>1 DEF Pointers
<1>5. \A n \in Node : AgreeAt(d, n)
  BY DEF Agree
<1>6. AgreeAt(d, c) /\ AgreeAt(d, p)
  BY <1>5
<1>7. b # None => b \in Node /\ b # c /\ b # None
  BY <1>2, <1>4, <1>6 DEF AgreeAt
<1>8. /\ e.parent = [d.parent EXCEPT ![c] = p]
      /\ e.first = [n \in Node |-> IF n = p /\ b = None THEN c ELSE d.first[n]]
      /\ e.last = [d.last EXCEPT ![p] = c]
      /\ e.prev = [d.prev EXCEPT ![c] = b]
      /\ e.next = [n \in Node |-> IF n = c THEN None ELSE IF n = b THEN c ELSE d.next[n]]
  <2>1. e.parent = [d.parent EXCEPT ![c] = p]
    BY <1>1, <1>2, <1>3, <1>4, <1>7 DEF AtEnd, Pointers
  <2>2. e.first = [n \in Node |-> IF n = p /\ b = None THEN c ELSE d.first[n]]
    BY <1>1, <1>2, <1>3, <1>4, <1>7 DEF AtEnd, Pointers
  <2>3. e.last = [d.last EXCEPT ![p] = c]
    BY <1>1, <1>2, <1>3, <1>4, <1>7 DEF AtEnd, Pointers
  <2>4. e.prev = [d.prev EXCEPT ![c] = b]
    BY <1>1, <1>2, <1>3, <1>4, <1>7 DEF AtEnd, Pointers
  <2>5. e.next = [n \in Node |-> IF n = c THEN None ELSE IF n = b THEN c ELSE d.next[n]]
    BY <1>1, <1>2, <1>3, <1>4, <1>7 DEF AtEnd, Pointers
  <2> QED BY <2>1, <2>2, <2>3, <2>4, <2>5
<1>9. e \in Links
  <2>1. e.parent \in Pointers /\ e.first \in Pointers /\ e.last \in Pointers
    BY <1>1, <1>4, <1>7, <1>8 DEF Pointers
  <2>2. e.prev \in Pointers /\ e.next \in Pointers
    BY <1>1, <1>4, <1>7, <1>8 DEF Pointers
  <2>3. DOMAIN e = DOMAIN d /\ e = [k \in DOMAIN e |-> e[k]]
    BY <1>1, <1>3, <1>7 DEF AtEnd
  <2> QED BY <2>1, <2>2, <2>3, <1>3 DEF Links
<1>10. \A n \in Node :
         /\ e.parent[n] = IF n = c THEN p ELSE d.parent[n]
         /\ e.first[n] = IF n = p /\ b = None THEN c ELSE d.first[n]
         /\ e.last[n] = IF n = p THEN c ELSE d.last[n]
         /\ e.prev[n] = IF n = c THEN b ELSE d.prev[n]
         /\ e.next[n] = IF n = c THEN None ELSE IF n = b THEN c ELSE d.next[n]
  BY <1>1, <1>8 DEF Pointers
<1> QED BY <1>8, <1>9, <1>10 DEF PutAtEnd, e

(* So does putting a node that is in no place behind the last child. *)
LEMMA AtEndAgrees ==
  ASSUME NEW d \in Links, Agree(d), NEW c \in Node, d.parent[c] = None,
         NEW p \in Node, p # c
  PROVE  /\ AtEnd(d, p, c) \in Links
         /\ Agree(AtEnd(d, p, c))
         /\ ParentSet(d, AtEnd(d, p, c), c, p)
         /\ FirstKept(d, AtEnd(d, p, c), p)
<1> DEFINE e == AtEnd(d, p, c)
           b == d.last[p]
<1>1. /\ d.parent \in Pointers /\ d.first \in Pointers /\ d.last \in Pointers
      /\ d.prev \in Pointers /\ d.next \in Pointers
  BY DEF Links
<1>2. None \notin Node /\ c # None
  BY NullAssumption
<1>4. \A n \in Node : /\ d.parent[n] \in Node \cup {None} /\ d.first[n] \in Node \cup {None}
                      /\ d.last[n] \in Node \cup {None} /\ d.prev[n] \in Node \cup {None}
                      /\ d.next[n] \in Node \cup {None}
  BY <1>1 DEF Pointers
<1>5. \A n \in Node : AgreeAt(d, n)
  BY DEF Agree
<1>6. AgreeAt(d, c) /\ AgreeAt(d, p)
  BY <1>5
<1>7. b # None => b \in Node /\ b # c /\ b # None
  BY <1>2, <1>4, <1>6 DEF AgreeAt
<1>8. e \in Links /\ e.parent = [d.parent EXCEPT ![c] = p] /\ PutAtEnd(d, e, p, c)
  BY AtEndIs
<1>10. \A n \in Node :
         /\ e.parent[n] = IF n = c THEN p ELSE d.parent[n]
         /\ e.first[n] = IF n = p /\ b = None THEN c ELSE d.first[n]
         /\ e.last[n] = IF n = p THEN c ELSE d.last[n]
         /\ e.prev[n] = IF n = c THEN b ELSE d.prev[n]
         /\ e.next[n] = IF n = c THEN None ELSE IF n = b THEN c ELSE d.next[n]
  BY <1>8 DEF PutAtEnd
<1> HIDE DEF e
<1>11. ASSUME NEW n \in Node PROVE AgreeAt(e, n)
  <2>1. e.first[n] = None <=> e.last[n] = None
    BY <1>2, <1>4, <1>5, <1>7, <1>10 DEF AgreeAt
  <2>2. e.first[n] # None => e.prev[e.first[n]] = None /\ e.parent[e.first[n]] = n
    BY <1>2, <1>4, <1>5, <1>7, <1>10 DEF AgreeAt
  <2>3. e.last[n] # None => e.next[e.last[n]] = None /\ e.parent[e.last[n]] = n
    BY <1>2, <1>4, <1>5, <1>7, <1>10 DEF AgreeAt
  <2>4. e.next[n] # None => e.prev[e.next[n]] = n /\ e.parent[e.next[n]] = e.parent[n]
    BY <1>2, <1>4, <1>5, <1>7, <1>10 DEF AgreeAt
  <2>5. e.prev[n] # None => e.next[e.prev[n]] = n
    BY <1>2, <1>4, <1>5, <1>7, <1>10 DEF AgreeAt
  <2>6. e.parent[n] # None /\ e.prev[n] = None => e.first[e.parent[n]] = n
    BY <1>2, <1>4, <1>5, <1>7, <1>10 DEF AgreeAt
  <2>7. e.parent[n] # None /\ e.next[n] = None => e.last[e.parent[n]] = n
    BY <1>2, <1>4, <1>5, <1>7, <1>10 DEF AgreeAt
  <2>8. e.parent[n] = None => e.next[n] = None /\ e.prev[n] = None
    BY <1>2, <1>4, <1>5, <1>7, <1>10 DEF AgreeAt
  <2> QED BY <2>1, <2>2, <2>3, <2>4, <2>5, <2>6, <2>7, <2>8 DEF AgreeAt
<1>12. \A n \in Node : n # p => e.first[n] = d.first[n]
  BY <1>10
<1> QED BY <1>8, <1>11, <1>12 DEF Agree, ParentSet, FirstKept, e

LEMMA AtFrontIs ==
  ASSUME NEW d \in Links, Agree(d), NEW c \in Node, d.parent[c] = None,
         NEW p \in Node, p # c
  PROVE  /\ AtFront(d, p, c) \in Links
         /\ AtFront(d, p, c).parent = [d.parent EXCEPT ![c] = p]
         /\ PutAtFront(d, AtFront(d, p, c), p, c)
<1> DEFINE e == AtFront(d, p, c)
           b == d.first[p]
<1>1. /\ d.parent \in Pointers /\ d.first \in Pointers /\ d.last \in Pointers
      /\ d.prev \in Pointers /\ d.next \in Pointers
  BY DEF Links
<1>2. None \notin Node /\ c # None
  BY NullAssumption
<1>3. /\ DOMAIN d = {"parent", "first", "last", "prev", "next"}
      /\ d = [k \in DOMAIN d |-> d[k]]
  BY DEF Links
<1>4. \A n \in Node : /\ d.parent[n] \in Node \cup {None} /\ d.first[n] \in Node \cup {None}
                      /\ d.last[n] \in Node \cup {None} /\ d.prev[n] \in Node \cup {None}
                      /\ d.next[n] \in Node \cup {None}
  BY <1>1 DEF Pointers
<1>5. \A n \in Node : AgreeAt(d, n)
  BY DEF Agree
<1>6. AgreeAt(d, c) /\ AgreeAt(d, p)
  BY <1>5
<1>7. b # None => b \in Node /\ b # c /\ b # None
  BY <1>2, <1>4, <1>6 DEF AgreeAt
<1>8. /\ e.parent = [d.parent EXCEPT ![c] = p]
      /\ e.first = [d.first EXCEPT ![p] = c]
      /\ e.last = [n \in Node |-> IF n = p /\ b = None THEN c ELSE d.last[n]]
      /\ e.prev = [n \in Node |-> IF n = c THEN None ELSE IF n = b THEN c ELSE d.prev[n]]
      /\ e.next = [d.next EXCEPT ![c] = b]
  <2>1. e.parent = [d.parent EXCEPT ![c] = p]
    BY <1>1, <1>2, <1>3, <1>4, <1>7 DEF AtFront, Pointers
  <2>2. e.first = [d.first EXCEPT ![p] = c]
    BY <1>1, <1>2, <1>3, <1>4, <1>7 DEF AtFront, Pointers
  <2>3. e.last = [n \in Node |-> IF n = p /\ b = None THEN c ELSE d.last[n]]
    BY <1>1, <1>2, <1>3, <1>4, <1>7 DEF AtFront, Pointers
  <2>4. e.prev = [n \in Node |-> IF n = c THEN None ELSE IF n = b THEN c ELSE d.prev[n]]
    BY <1>1, <1>2, <1>3, <1>4, <1>7 DEF AtFront, Pointers
  <2>5. e.next = [d.next EXCEPT ![c] = b]
    BY <1>1, <1>2, <1>3, <1>4, <1>7 DEF AtFront, Pointers
  <2> QED BY <2>1, <2>2, <2>3, <2>4, <2>5
<1>9. e \in Links
  <2>1. e.parent \in Pointers /\ e.first \in Pointers /\ e.last \in Pointers
    BY <1>1, <1>4, <1>7, <1>8 DEF Pointers
  <2>2. e.prev \in Pointers /\ e.next \in Pointers
    BY <1>1, <1>4, <1>7, <1>8 DEF Pointers
  <2>3. DOMAIN e = DOMAIN d /\ e = [k \in DOMAIN e |-> e[k]]
    BY <1>1, <1>3, <1>7 DEF AtFront
  <2> QED BY <2>1, <2>2, <2>3, <1>3 DEF Links
<1>10. \A n \in Node :
         /\ e.parent[n] = IF n = c THEN p ELSE d.parent[n]
         /\ e.first[n] = IF n = p THEN c ELSE d.first[n]
         /\ e.last[n] = IF n = p /\ b = None THEN c ELSE d.last[n]
         /\ e.prev[n] = IF n = c THEN None ELSE IF n = b THEN c ELSE d.prev[n]
         /\ e.next[n] = IF n = c THEN b ELSE d.next[n]
  BY <1>1, <1>8 DEF Pointers
<1> QED BY <1>8, <1>9, <1>10 DEF PutAtFront, e

(* So does putting it in front of the first child. *)
LEMMA AtFrontAgrees ==
  ASSUME NEW d \in Links, Agree(d), NEW c \in Node, d.parent[c] = None,
         NEW p \in Node, p # c
  PROVE  /\ AtFront(d, p, c) \in Links
         /\ Agree(AtFront(d, p, c))
         /\ ParentSet(d, AtFront(d, p, c), c, p)
         /\ FirstKept(d, AtFront(d, p, c), p)
<1> DEFINE e == AtFront(d, p, c)
           b == d.first[p]
<1>1. /\ d.parent \in Pointers /\ d.first \in Pointers /\ d.last \in Pointers
      /\ d.prev \in Pointers /\ d.next \in Pointers
  BY DEF Links
<1>2. None \notin Node /\ c # None
  BY NullAssumption
<1>4. \A n \in Node : /\ d.parent[n] \in Node \cup {None} /\ d.first[n] \in Node \cup {None}
                      /\ d.last[n] \in Node \cup {None} /\ d.prev[n] \in Node \cup {None}
                      /\ d.next[n] \in Node \cup {None}
  BY <1>1 DEF Pointers
<1>5. \A n \in Node : AgreeAt(d, n)
  BY DEF Agree
<1>6. AgreeAt(d, c) /\ AgreeAt(d, p)
  BY <1>5
<1>7. b # None => b \in Node /\ b # c /\ b # None
  BY <1>2, <1>4, <1>6 DEF AgreeAt
<1>8. e \in Links /\ e.parent = [d.parent EXCEPT ![c] = p] /\ PutAtFront(d, e, p, c)
  BY AtFrontIs
<1>10. \A n \in Node :
         /\ e.parent[n] = IF n = c THEN p ELSE d.parent[n]
         /\ e.first[n] = IF n = p THEN c ELSE d.first[n]
         /\ e.last[n] = IF n = p /\ b = None THEN c ELSE d.last[n]
         /\ e.prev[n] = IF n = c THEN None ELSE IF n = b THEN c ELSE d.prev[n]
         /\ e.next[n] = IF n = c THEN b ELSE d.next[n]
  BY <1>8 DEF PutAtFront
<1> HIDE DEF e
<1>11. ASSUME NEW n \in Node PROVE AgreeAt(e, n)
  <2>1. e.first[n] = None <=> e.last[n] = None
    BY <1>2, <1>4, <1>5, <1>7, <1>10 DEF AgreeAt
  <2>2. e.first[n] # None => e.prev[e.first[n]] = None /\ e.parent[e.first[n]] = n
    BY <1>2, <1>4, <1>5, <1>7, <1>10 DEF AgreeAt
  <2>3. e.last[n] # None => e.next[e.last[n]] = None /\ e.parent[e.last[n]] = n
    BY <1>2, <1>4, <1>5, <1>7, <1>10 DEF AgreeAt
  <2>4. e.next[n] # None => e.prev[e.next[n]] = n /\ e.parent[e.next[n]] = e.parent[n]
    BY <1>2, <1>4, <1>5, <1>7, <1>10 DEF AgreeAt
  <2>5. e.prev[n] # None => e.next[e.prev[n]] = n
    BY <1>2, <1>4, <1>5, <1>7, <1>10 DEF AgreeAt
  <2>6. e.parent[n] # None /\ e.prev[n] = None => e.first[e.parent[n]] = n
    BY <1>2, <1>4, <1>5, <1>7, <1>10 DEF AgreeAt
  <2>7. e.parent[n] # None /\ e.next[n] = None => e.last[e.parent[n]] = n
    BY <1>2, <1>4, <1>5, <1>7, <1>10 DEF AgreeAt
  <2>8. e.parent[n] = None => e.next[n] = None /\ e.prev[n] = None
    BY <1>2, <1>4, <1>5, <1>7, <1>10 DEF AgreeAt
  <2> QED BY <2>1, <2>2, <2>3, <2>4, <2>5, <2>6, <2>7, <2>8 DEF AgreeAt
<1>12. \A n \in Node : n # p => e.first[n] = d.first[n]
  BY <1>10
<1> QED BY <1>8, <1>11, <1>12 DEF Agree, ParentSet, FirstKept, e

LEMMA AfterIs ==
  ASSUME NEW d \in Links, Agree(d), NEW c \in Node, d.parent[c] = None,
         NEW a \in Node, a # c, d.next[a] # None
  PROVE  /\ After(d, a, c) \in Links
         /\ After(d, a, c).parent = [d.parent EXCEPT ![c] = d.parent[a]]
         /\ PutAfter(d, After(d, a, c), a, c)
<1> DEFINE e == After(d, a, c)
           b == d.next[a]
<1>1. /\ d.parent \in Pointers /\ d.first \in Pointers /\ d.last \in Pointers
      /\ d.prev \in Pointers /\ d.next \in Pointers
  BY DEF Links
<1>2. None \notin Node /\ c # None
  BY NullAssumption
<1>3. /\ DOMAIN d = {"parent", "first", "last", "prev", "next"}
      /\ d = [k \in DOMAIN d |-> d[k]]
  BY DEF Links
<1>4. \A n \in Node : /\ d.parent[n] \in Node \cup {None} /\ d.first[n] \in Node \cup {None}
                      /\ d.last[n] \in Node \cup {None} /\ d.prev[n] \in Node \cup {None}
                      /\ d.next[n] \in Node \cup {None}
  BY <1>1 DEF Pointers
<1>5. \A n \in Node : AgreeAt(d, n)
  BY DEF Agree
<1>6. AgreeAt(d, c) /\ AgreeAt(d, a)
  BY <1>5
<1>7. b \in Node /\ b # c /\ b # None /\ d.parent[a] \in Node
  BY <1>2, <1>4, <1>6 DEF AgreeAt
<1>8. /\ e.parent = [d.parent EXCEPT ![c] = d.parent[a]]
      /\ e.first = d.first
      /\ e.last = d.last
      /\ e.prev = [n \in Node |-> IF n = b THEN c ELSE IF n = c THEN a ELSE d.prev[n]]
      /\ e.next = [n \in Node |-> IF n = a THEN c ELSE IF n = c THEN b ELSE d.next[n]]
  <2>1. e.parent = [d.parent EXCEPT ![c] = d.parent[a]]
    BY <1>1, <1>2, <1>3, <1>4, <1>7 DEF After, Pointers
  <2>2. e.first = d.first
    BY <1>1, <1>2, <1>3, <1>4, <1>7 DEF After, Pointers
  <2>3. e.last = d.last
    BY <1>1, <1>2, <1>3, <1>4, <1>7 DEF After, Pointers
  <2>4. e.prev = [n \in Node |-> IF n = b THEN c ELSE IF n = c THEN a ELSE d.prev[n]]
    BY <1>1, <1>2, <1>3, <1>4, <1>7 DEF After, Pointers
  <2>5. e.next = [n \in Node |-> IF n = a THEN c ELSE IF n = c THEN b ELSE d.next[n]]
    BY <1>1, <1>2, <1>3, <1>4, <1>7 DEF After, Pointers
  <2> QED BY <2>1, <2>2, <2>3, <2>4, <2>5
<1>9. e \in Links
  <2>1. e.parent \in Pointers /\ e.first \in Pointers /\ e.last \in Pointers
    BY <1>1, <1>4, <1>7, <1>8 DEF Pointers
  <2>2. e.prev \in Pointers /\ e.next \in Pointers
    BY <1>1, <1>4, <1>7, <1>8 DEF Pointers
  <2>3. DOMAIN e = DOMAIN d /\ e = [k \in DOMAIN e |-> e[k]]
    BY <1>1, <1>3, <1>7 DEF After
  <2> QED BY <2>1, <2>2, <2>3, <1>3 DEF Links
<1>10. \A n \in Node :
         /\ e.parent[n] = IF n = c THEN d.parent[a] ELSE d.parent[n]
         /\ e.first[n] = d.first[n]
         /\ e.last[n] = d.last[n]
         /\ e.prev[n] = IF n = b THEN c ELSE IF n = c THEN a ELSE d.prev[n]
         /\ e.next[n] = IF n = a THEN c ELSE IF n = c THEN b ELSE d.next[n]
  BY <1>1, <1>8 DEF Pointers
<1> QED BY <1>8, <1>9, <1>10 DEF PutAfter, e

(* So does putting it between a child and the next one. *)
LEMMA AfterAgrees ==
  ASSUME NEW d \in Links, Agree(d), NEW c \in Node, d.parent[c] = None,
         NEW a \in Node, a # c, d.next[a] # None
  PROVE  /\ After(d, a, c) \in Links
         /\ Agree(After(d, a, c))
         /\ ParentSet(d, After(d, a, c), c, d.parent[a])
         /\ After(d, a, c).first = d.first
<1> DEFINE e == After(d, a, c)
           b == d.next[a]
<1>1. /\ d.parent \in Pointers /\ d.first \in Pointers /\ d.last \in Pointers
      /\ d.prev \in Pointers /\ d.next \in Pointers
  BY DEF Links
<1>2. None \notin Node /\ c # None
  BY NullAssumption
<1>4. \A n \in Node : /\ d.parent[n] \in Node \cup {None} /\ d.first[n] \in Node \cup {None}
                      /\ d.last[n] \in Node \cup {None} /\ d.prev[n] \in Node \cup {None}
                      /\ d.next[n] \in Node \cup {None}
  BY <1>1 DEF Pointers
<1>5. \A n \in Node : AgreeAt(d, n)
  BY DEF Agree
<1>6. AgreeAt(d, c) /\ AgreeAt(d, a)
  BY <1>5
<1>7. b \in Node /\ b # c /\ b # None /\ d.parent[a] \in Node
  BY <1>2, <1>4, <1>6 DEF AgreeAt
<1>8. e \in Links /\ e.parent = [d.parent EXCEPT ![c] = d.parent[a]] /\ PutAfter(d, e, a, c)
  BY AfterIs
<1>10. \A n \in Node :
         /\ e.parent[n] = IF n = c THEN d.parent[a] ELSE d.parent[n]
         /\ e.first[n] = d.first[n]
         /\ e.last[n] = d.last[n]
         /\ e.prev[n] = IF n = b THEN c ELSE IF n = c THEN a ELSE d.prev[n]
         /\ e.next[n] = IF n = a THEN c ELSE IF n = c THEN b ELSE d.next[n]
  BY <1>8 DEF PutAfter
<1> HIDE DEF e
<1>11. ASSUME NEW n \in Node PROVE AgreeAt(e, n)
  <2>1. e.first[n] = None <=> e.last[n] = None
    BY <1>2, <1>4, <1>5, <1>7, <1>10 DEF AgreeAt
  <2>2. e.first[n] # None => e.prev[e.first[n]] = None /\ e.parent[e.first[n]] = n
    BY <1>2, <1>4, <1>5, <1>7, <1>10 DEF AgreeAt
  <2>3. e.last[n] # None => e.next[e.last[n]] = None /\ e.parent[e.last[n]] = n
    BY <1>2, <1>4, <1>5, <1>7, <1>10 DEF AgreeAt
  <2>4. e.next[n] # None => e.prev[e.next[n]] = n /\ e.parent[e.next[n]] = e.parent[n]
    BY <1>2, <1>4, <1>5, <1>7, <1>10 DEF AgreeAt
  <2>5. e.prev[n] # None => e.next[e.prev[n]] = n
    BY <1>2, <1>4, <1>5, <1>7, <1>10 DEF AgreeAt
  <2>6. e.parent[n] # None /\ e.prev[n] = None => e.first[e.parent[n]] = n
    BY <1>2, <1>4, <1>5, <1>7, <1>10 DEF AgreeAt
  <2>7. e.parent[n] # None /\ e.next[n] = None => e.last[e.parent[n]] = n
    BY <1>2, <1>4, <1>5, <1>7, <1>10 DEF AgreeAt
  <2>8. e.parent[n] = None => e.next[n] = None /\ e.prev[n] = None
    BY <1>2, <1>4, <1>5, <1>7, <1>10 DEF AgreeAt
  <2> QED BY <2>1, <2>2, <2>3, <2>4, <2>5, <2>6, <2>7, <2>8 DEF AgreeAt
<1>12. e.first = d.first
  BY <1>1, <1>8, <1>10 DEF Links, Pointers
<1> QED BY <1>8, <1>11, <1>12 DEF Agree, ParentSet, e

-----------------------------------------------------------------------------
(* Lists in which nothing occurs twice. *)
LEMMA MarkInUseRemoves ==
  ASSUME NEW S, NEW u \in Seq(S), IsInjective(u), NEW n
  PROVE  /\ MarkInUse(u, n) \in Seq(S)
         /\ IsInjective(MarkInUse(u, n))
         /\ ToSet(MarkInUse(u, n)) = ToSet(u) \ {n}
<1>1. CASE n \notin ToSet(u)
  BY <1>1 DEF MarkInUse
<1>2. CASE n \in ToSet(u)
  <2> DEFINE i == CHOOSE i \in DOMAIN u : u[i] = n
             v == SwapRemove(u, i)
             last == Len(u)
  <2>1. i \in DOMAIN u /\ u[i] = n
    BY <1>2 DEF ToSet
  <2>2. MarkInUse(u, n) = v
    BY <1>2 DEF MarkInUse
  <2> HIDE DEF i
  <2>3. DOMAIN u = 1..last /\ last \in Nat /\ i \in 1..last /\ \A j \in 1..last : u[j] \in S
    BY <2>1
  <2>4. /\ DOMAIN v = 1..(last - 1)
        /\ \A j \in 1..(last - 1) : v[j] = IF j = i THEN u[last] ELSE u[j]
    BY DEF SwapRemove
  <2>0. last \in Nat /\ i \in 1..last
    BY <2>3
  <2>5. last - 1 \in Nat /\ last \in 1..last /\ \A j \in 1..(last - 1) : j \in 1..last /\ j # last
    <3> HIDE DEF last
    <3> QED BY <2>0
  <2>6. v \in Seq(S)
    <3>1. v \in [1..(last - 1) -> S]
      BY <2>3, <2>5 DEF SwapRemove
    <3> QED BY <3>1, <2>5
  <2> HIDE DEF v
  <2>7. \A j, k \in 1..last : u[j] = u[k] => j = k
    BY <2>3 DEF IsInjective
  <2> HIDE DEF last
  <2>8. IsInjective(v)
    <3>1. ASSUME NEW j \in 1..(last - 1), NEW k \in 1..(last - 1), v[j] = v[k] PROVE j = k
      BY <3>1, <2>3, <2>4, <2>5, <2>7
    <3> QED BY <3>1, <2>4 DEF IsInjective
  <2>9. ToSet(v) \subseteq ToSet(u) \ {n}
    <3>1. ASSUME NEW j \in 1..(last - 1) PROVE v[j] \in ToSet(u) /\ v[j] # n
      <4>1. v[j] \in ToSet(u)
        BY <2>3, <2>4, <2>5 DEF ToSet
      <4>2. v[j] # u[i]
        BY <2>3, <2>4, <2>5, <2>7
      <4> QED BY <4>1, <4>2, <2>1
    <3> QED BY <3>1, <2>4 DEF ToSet
  <2>10. ToSet(u) \ {n} \subseteq ToSet(v)
    <3>1. ASSUME NEW j \in 1..last, u[j] # n PROVE u[j] \in ToSet(v)
      <4>1. CASE j # last
        <5>1. j \in 1..(last - 1) /\ j # i
          BY <4>1, <3>1, <2>1, <2>3
        <5> QED BY <5>1, <2>4 DEF ToSet
      <4>2. CASE j = last
        <5>1. i \in 1..(last - 1) /\ v[i] = u[last]
          BY <4>2, <3>1, <2>1, <2>3, <2>4
        <5> QED BY <5>1, <4>2, <2>4 DEF ToSet
      <4> QED BY <4>1, <4>2
    <3> QED BY <3>1, <2>3 DEF ToSet
  <2> QED BY <2>2, <2>6, <2>8, <2>9, <2>10
<1> QED BY <1>1, <1>2

LEMMA AppendAdds ==
  ASSUME NEW S, NEW u \in Seq(S), NEW n \in S
  PROVE  /\ Append(u, n) \in Seq(S)
         /\ ToSet(Append(u, n)) = ToSet(u) \cup {n}
         /\ IsInjective(u) /\ n \notin ToSet(u) => IsInjective(Append(u, n))
<1> DEFINE v == Append(u, n)
           k == Len(u)
<1>1. /\ k \in Nat /\ DOMAIN u = 1..k /\ DOMAIN v = 1..(k + 1)
      /\ v[k + 1] = n /\ \A j \in 1..k : v[j] = u[j]
  OBVIOUS
<1>2. v \in Seq(S)
  OBVIOUS
<1> HIDE DEF v, k
<1>3. \A j \in 1..(k + 1) : j = k + 1 \/ j \in 1..k
  BY <1>1
<1>4. k + 1 \in 1..(k + 1) /\ \A j \in 1..k : j \in 1..(k + 1)
  BY <1>1
<1>5. ToSet(v) = ToSet(u) \cup {n}
  BY <1>1, <1>3, <1>4 DEF ToSet
<1>6. ASSUME IsInjective(u), n \notin ToSet(u) PROVE IsInjective(v)
  BY <1>1, <1>3, <1>6 DEF IsInjective, ToSet
<1> QED BY <1>2, <1>5, <1>6 DEF v

LEMMA FrontDrops ==
  ASSUME NEW S, NEW u \in Seq(S), u # <<>>
  PROVE  /\ Front(u) \in Seq(S) /\ Last(u) \in ToSet(u) /\ Last(u) \in S
         /\ ToSet(Front(u)) \subseteq ToSet(u) /\ ToSet(u) \subseteq ToSet(Front(u)) \cup {Last(u)}
         /\ IsInjective(u) => IsInjective(Front(u)) /\ Last(u) \notin ToSet(Front(u))
<1> DEFINE v == Front(u)
           k == Len(u)
<1>1. /\ k \in Nat \ {0} /\ DOMAIN u = 1..k /\ \A j \in 1..k : u[j] \in S
      /\ DOMAIN v = 1..(k - 1) /\ \A j \in 1..(k - 1) : v[j] = u[j]
  BY DEF Front
<1>2. v \in Seq(S)
  BY DEF Front
<1>3. Last(u) = u[k] /\ k \in 1..k
  BY <1>1 DEF Last
<1> HIDE DEF v, k
<1>4. \A j \in 1..k : j = k \/ j \in 1..(k - 1)
  BY <1>1
<1>5. \A j \in 1..(k - 1) : j \in 1..k /\ j # k
  BY <1>1
<1>6. Last(u) \in ToSet(u) /\ Last(u) \in S
  BY <1>1, <1>3 DEF ToSet
<1>7. ToSet(v) \subseteq ToSet(u) /\ ToSet(u) \subseteq ToSet(v) \cup {Last(u)}
  BY <1>1, <1>3, <1>4, <1>5 DEF ToSet
<1>8. ASSUME IsInjective(u) PROVE IsInjective(v) /\ Last(u) \notin ToSet(v)
  BY <1>1, <1>3, <1>5, <1>8 DEF IsInjective, ToSet
<1> QED BY <1>2, <1>6, <1>7, <1>8 DEF v

LEMMA TailDrops ==
  ASSUME NEW S, NEW u \in Seq(S), u # <<>>
  PROVE  /\ Tail(u) \in Seq(S) /\ Head(u) \in ToSet(u) /\ Head(u) \in S
         /\ ToSet(Tail(u)) \subseteq ToSet(u) /\ ToSet(u) \subseteq ToSet(Tail(u)) \cup {Head(u)}
         /\ IsInjective(u) => IsInjective(Tail(u)) /\ Head(u) \notin ToSet(Tail(u))
<1> DEFINE v == Tail(u)
           k == Len(u)
<1>1. /\ k \in Nat \ {0} /\ DOMAIN u = 1..k /\ \A j \in 1..k : u[j] \in S
      /\ DOMAIN v = 1..(k - 1) /\ \A j \in 1..(k - 1) : v[j] = u[j + 1]
  OBVIOUS
<1>2. v \in Seq(S)
  OBVIOUS
<1>3. Head(u) = u[1] /\ 1 \in 1..k
  BY <1>1
<1> HIDE DEF v, k
<1>4. \A j \in 1..k : j = 1 \/ (j - 1 \in 1..(k - 1) /\ (j - 1) + 1 = j)
  BY <1>1
<1>5. \A j \in 1..(k - 1) : j + 1 \in 1..k /\ j + 1 # 1 /\ \A i \in 1..(k - 1) : i + 1 = j + 1 => i = j
  BY <1>1
<1>6. Head(u) \in ToSet(u) /\ Head(u) \in S
  BY <1>1, <1>3 DEF ToSet
<1>7. ToSet(v) \subseteq ToSet(u)
  BY <1>1, <1>5 DEF ToSet
<1>8. ToSet(u) \subseteq ToSet(v) \cup {Head(u)}
  <2>1. ASSUME NEW j \in 1..k, j # 1 PROVE u[j] \in ToSet(v)
    <3>1. j - 1 \in 1..(k - 1) /\ (j - 1) + 1 = j
      BY <1>4, <2>1
    <3>2. v[j - 1] = u[j]
      BY <1>1, <3>1
    <3> QED BY <1>1, <3>1, <3>2 DEF ToSet
  <2> QED BY <1>1, <1>3, <2>1 DEF ToSet
<1>9. ASSUME IsInjective(u) PROVE IsInjective(v) /\ Head(u) \notin ToSet(v)
  <2>1. ASSUME NEW i \in 1..(k - 1), NEW j \in 1..(k - 1), v[i] = v[j] PROVE i = j
    <3>1. i + 1 = j + 1
      BY <1>1, <1>5, <1>9, <2>1 DEF IsInjective
    <3> QED BY <1>5, <3>1
  <2>2. ASSUME NEW j \in 1..(k - 1) PROVE v[j] # u[1]
    BY <1>1, <1>3, <1>5, <1>9 DEF IsInjective
  <2> QED BY <1>1, <1>3, <2>1, <2>2 DEF IsInjective, ToSet
<1> QED BY <1>2, <1>6, <1>7, <1>8, <1>9 DEF v

LEMMA ConsAdds ==
  ASSUME NEW S, NEW u \in Seq(S), NEW n \in S
  PROVE  /\ <<n>> \o u \in Seq(S)
         /\ ToSet(<<n>> \o u) = ToSet(u) \cup {n}
         /\ IsInjective(u) /\ n \notin ToSet(u) => IsInjective(<<n>> \o u)
<1> DEFINE v == <<n>> \o u
           k == Len(u)
<1>1. /\ k \in Nat /\ DOMAIN u = 1..k /\ DOMAIN v = 1..(k + 1)
      /\ v[1] = n /\ \A j \in 2..(k + 1) : v[j] = u[j - 1]
  OBVIOUS
<1>2. v \in Seq(S)
  OBVIOUS
<1> HIDE DEF v, k
<1>3. \A j \in 1..(k + 1) : j = 1 \/ (j \in 2..(k + 1) /\ j - 1 \in 1..k)
  BY <1>1
<1>4. 1 \in 1..(k + 1) /\ \A j \in 1..k : j + 1 \in 2..(k + 1) /\ j + 1 \in 1..(k + 1) /\ (j + 1) - 1 = j
  BY <1>1
<1>5. ToSet(v) \subseteq ToSet(u) \cup {n}
  BY <1>1, <1>3 DEF ToSet
<1>6. ToSet(u) \cup {n} \subseteq ToSet(v)
  <2>1. ASSUME NEW j \in 1..k PROVE u[j] \in ToSet(v)
    <3>1. v[j + 1] = u[j] /\ j + 1 \in DOMAIN v
      BY <1>1, <1>4
    <3> QED BY <3>1 DEF ToSet
  <2> QED BY <1>1, <1>4, <2>1 DEF ToSet
<1>7. ASSUME IsInjective(u), n \notin ToSet(u) PROVE IsInjective(v)
  BY <1>1, <1>3, <1>7 DEF IsInjective, ToSet
<1> QED BY <1>2, <1>5, <1>6, <1>7 DEF v

-----------------------------------------------------------------------------
(* The pools. *)
Own(k, r, b) ==
  /\ b <= MaxBlocks[k]
  /\ IsInjective(r)
  /\ \A j \in DOMAIN r : r[j][1] = k /\ r[j][2] <= b * ItemsPerBlock

RootsInv == \A k \in Pool : Own(k, _root[k], blocks[k])

PoolTypes == _root \in [Pool -> Seq(Item)] /\ blocks \in [Pool -> Nat]

LEMMA BlocksGrow ==
  ASSUME NEW I \in Nat, NEW b \in Nat, NEW m \in Nat, b < m
  PROVE  b * I \in Nat /\ (b + 1) * I = b * I + I /\ b * I + I <= m * I
<1>1. b * I \in Nat /\ (b + 1) * I = b * I + I
  OBVIOUS
<1>2. (m - (b + 1)) * I >= 0
  OBVIOUS
<1>3. m * I = (m - (b + 1)) * I + (b + 1) * I
  OBVIOUS
<1> QED BY <1>1, <1>2, <1>3

LEMMA ItemIs ==
  \A i : i \in Item <=> /\ i = <<i[1], i[2]>>
                        /\ i[1] \in Pool
                        /\ i[2] \in 1..(MaxBlocks[i[1]] * ItemsPerBlock)
<1>1. ASSUME NEW i \in Item
      PROVE  i = <<i[1], i[2]>> /\ i[1] \in Pool /\ i[2] \in 1..(MaxBlocks[i[1]] * ItemsPerBlock)
  <2>1. PICK k \in Pool : i \in {k} \X (1..(MaxBlocks[k] * ItemsPerBlock))
    BY DEF Item
  <2> QED BY <2>1
<1>2. ASSUME NEW i, i = <<i[1], i[2]>>, i[1] \in Pool, i[2] \in 1..(MaxBlocks[i[1]] * ItemsPerBlock)
      PROVE  i \in Item
  <2>1. i \in {i[1]} \X (1..(MaxBlocks[i[1]] * ItemsPerBlock))
    BY <1>2
  <2> QED BY <1>2, <2>1 DEF Item
<1> QED BY <1>1, <1>2

LEMMA LiveIs ==
  ASSUME NEW r \in [Pool -> Seq(Item)], NEW b \in [Pool -> Nat], \A k \in Pool : Own(k, r[k], b[k]),
         NEW i \in Item
  PROVE  i \in {j \in Item : j[2] <= b[j[1]] * ItemsPerBlock} \ UNION {ToSet(r[k]) : k \in Pool}
           <=> i[2] <= b[i[1]] * ItemsPerBlock /\ i \notin ToSet(r[i[1]])
<1>1. ASSUME NEW k \in Pool, i \in ToSet(r[k]) PROVE k = i[1]
  BY <1>1 DEF ToSet, Own
<1>2. i[1] \in Pool
  BY ItemIs
<1> QED BY <1>1, <1>2

(* The first item of a pool, or of its new block, is not used; taking it    *)
(* makes it the one more node that lives.                                   *)
LEMMA AllocLives ==
  ASSUME PoolTypes, RootsInv, NEW k \in Pool, Alloc(k)
  PROVE  LET n == Head(Available(k))
         IN /\ n \in Item /\ n[1] = k
            /\ n \notin Live
            /\ Live' = Live \cup {n}
            /\ PoolTypes' /\ RootsInv'
<1> DEFINE n == Head(Available(k))
           a == Available(k)
           b == IF _root[k] = <<>> THEN blocks[k] + 1 ELSE blocks[k]
<1>1. /\ ItemsPerBlock \in Nat \ {0} /\ MaxBlocks[k] \in Nat /\ blocks[k] \in Nat
      /\ _root[k] \in Seq(Item) /\ Own(k, _root[k], blocks[k])
  BY BoundsAssumption DEF PoolTypes, RootsInv
<1>2. a \in Seq(Item) /\ a # <<>> /\ b \in Nat /\ Own(k, a, b)
  <2>1. CASE _root[k] # <<>>
    BY <1>1, <2>1 DEF Available
  <2>2. CASE _root[k] = <<>>
    <3> DEFINE c == blocks[k] * ItemsPerBlock
    <3>1. blocks[k] < MaxBlocks[k]
      BY <1>1, <2>2 DEF Alloc, CanAlloc
    <3>2. c \in Nat /\ (blocks[k] + 1) * ItemsPerBlock = c + ItemsPerBlock
          /\ c + ItemsPerBlock <= MaxBlocks[k] * ItemsPerBlock
      BY <1>1, <3>1, BlocksGrow
    <3>3. MaxBlocks[k] * ItemsPerBlock \in Nat
      BY <1>1
    <3>4. a = [j \in 1..ItemsPerBlock |-> <<k, c + j>>] /\ b = blocks[k] + 1
      BY <2>2 DEF Available, BlockItems
    <3> HIDE DEF a, b, c
    <3>5. \A j \in 1..ItemsPerBlock : c + j \in 1..(MaxBlocks[k] * ItemsPerBlock) /\ c + j <= c + ItemsPerBlock
      BY <1>1, <3>2, <3>3
    <3>6. \A j \in 1..ItemsPerBlock : a[j] \in Item
      BY <3>4, <3>5, ItemIs
    <3>7. a \in Seq(Item) /\ DOMAIN a = 1..ItemsPerBlock /\ a # <<>>
      BY <1>1, <3>4, <3>6
    <3>8. IsInjective(a)
      BY <1>1, <3>2, <3>4 DEF IsInjective
    <3>9. \A j \in DOMAIN a : a[j][1] = k /\ a[j][2] <= b * ItemsPerBlock
      BY <3>2, <3>4, <3>5
    <3>10. b \in Nat /\ b <= MaxBlocks[k]
      BY <1>1, <3>1, <3>4
    <3> QED BY <3>7, <3>8, <3>9, <3>10 DEF Own
  <2> QED BY <2>1, <2>2
<1>3. /\ Tail(a) \in Seq(Item) /\ n \in ToSet(a) /\ n \in Item
      /\ IsInjective(Tail(a)) /\ n \notin ToSet(Tail(a))
      /\ ToSet(Tail(a)) \subseteq ToSet(a) /\ ToSet(a) \subseteq ToSet(Tail(a)) \cup {n}
  BY <1>2, TailDrops DEF Own
<1>4. _root' = [_root EXCEPT ![k] = Tail(a)] /\ blocks' = [blocks EXCEPT ![k] = b]
  BY DEF Alloc, PoolTypes
<1>5. /\ _root' \in [Pool -> Seq(Item)] /\ blocks' \in [Pool -> Nat]
      /\ _root'[k] = Tail(a) /\ blocks'[k] = b
      /\ \A q \in Pool \ {k} : _root'[q] = _root[q] /\ blocks'[q] = blocks[q]
  BY <1>2, <1>3, <1>4 DEF PoolTypes
<1>6. n[1] = k /\ n[2] <= b * ItemsPerBlock
  BY <1>2, <1>3 DEF Own, ToSet
<1>7. Own(k, Tail(a), b)
  <2>1. ASSUME NEW j \in DOMAIN Tail(a) PROVE Tail(a)[j][1] = k /\ Tail(a)[j][2] <= b * ItemsPerBlock
    <3>1. Tail(a)[j] \in ToSet(a)
      BY <1>3 DEF ToSet
    <3> QED BY <1>2, <3>1 DEF Own, ToSet
  <2> QED BY <1>2, <1>3, <2>1 DEF Own
<1>8. \A q \in Pool : Own(q, _root'[q], blocks'[q])
  BY <1>5, <1>7 DEF RootsInv
<1> HIDE DEF n, a, b
<1>9. ASSUME NEW i \in Item PROVE i \in Live' <=> i[2] <= blocks'[i[1]] * ItemsPerBlock /\ i \notin ToSet(_root'[i[1]])
  BY <1>5, <1>8, LiveIs DEF Live
<1>10. ASSUME NEW i \in Item PROVE i \in Live <=> i[2] <= blocks[i[1]] * ItemsPerBlock /\ i \notin ToSet(_root[i[1]])
  BY LiveIs DEF Live, PoolTypes, RootsInv
<1>11. n \in Live'
  BY <1>3, <1>5, <1>6, <1>9
<1>12. ASSUME NEW i \in Item, i[1] # k PROVE i \in Live' <=> i \in Live
  <2>1. i[1] \in Pool \ {k}
    BY <1>12, ItemIs
  <2> QED BY <1>5, <1>9, <1>10, <2>1
<1>13. ASSUME NEW i \in Item, i[1] = k PROVE /\ i \in Live => i \in Live' /\ i # n
                                             /\ i \in Live' => i \in Live \/ i = n
  <2>1. CASE _root[k] # <<>>
    <3>1. a = _root[k] /\ b = blocks[k]
      BY <2>1 DEF a, b, Available
    <3> QED BY <1>3, <1>5, <1>9, <1>10, <1>13, <3>1
  <2>2. CASE _root[k] = <<>>
    <3> DEFINE c == blocks[k] * ItemsPerBlock
    <3>1. a = BlockItems(k) /\ b = blocks[k] + 1 /\ c \in Nat /\ b * ItemsPerBlock = c + ItemsPerBlock
      <4>1. a = BlockItems(k) /\ b = blocks[k] + 1
        BY <2>2 DEF a, b, Available
      <4>2. blocks[k] < MaxBlocks[k]
        BY <2>2 DEF Alloc, CanAlloc
      <4> QED BY <1>1, <4>1, <4>2, BlocksGrow
    <3>2. i[2] \in Nat /\ i = <<k, i[2]>>
      BY <1>13, ItemIs
    <3>3. ASSUME i \in ToSet(a) PROVE ~ i[2] <= c
      BY <1>1, <3>1, <3>2, <3>3 DEF ToSet, BlockItems
    <3>4. ASSUME ~ i[2] <= c, i[2] <= c + ItemsPerBlock PROVE i \in ToSet(a)
      <4> HIDE DEF c
      <4>1. i[2] - c \in 1..ItemsPerBlock /\ c + (i[2] - c) = i[2]
        <5>1. PICK x \in Nat : x = i[2]
          BY <3>2
        <5>2. c \in Nat /\ x > c /\ x <= c + ItemsPerBlock
          BY <3>1, <3>4, <5>1
        <5>3. x - c \in 1..ItemsPerBlock /\ c + (x - c) = x
          BY <1>1, <5>2
        <5> QED BY <5>1, <5>3
      <4>2. a = [j \in 1..ItemsPerBlock |-> <<k, c + j>>]
        BY <3>1 DEF BlockItems, c
      <4>3. i = a[i[2] - c]
        BY <3>2, <4>1, <4>2
      <4> QED BY <4>1, <4>2, <4>3 DEF ToSet
    <3>5. i \notin ToSet(_root[k])
      BY <2>2 DEF ToSet
    <3>6. i \in Live <=> i[2] <= c
      BY <1>10, <1>13, <3>5
    <3>7. i \in Live' <=> i[2] <= c + ItemsPerBlock /\ i \notin ToSet(Tail(a))
      BY <1>5, <1>9, <1>13, <3>1
    <3>8. i[2] <= c => i[2] <= c + ItemsPerBlock
      BY <1>1, <3>1, <3>2
    <3> QED BY <1>3, <3>3, <3>4, <3>6, <3>7, <3>8
  <2> QED BY <2>1, <2>2
<1>14. Live \subseteq Item /\ Live' \subseteq Item
  BY DEF Live
<1>15. n \notin Live /\ Live' = Live \cup {n}
  BY <1>3, <1>6, <1>11, <1>12, <1>13, <1>14
<1> QED BY <1>3, <1>5, <1>6, <1>8, <1>15 DEF n, PoolTypes, RootsInv

(* A node that lives and goes back to its pool is the one node less. *)
LEMMA FreeDies ==
  ASSUME PoolTypes, RootsInv, NEW n \in Live, Free(n), UNCHANGED blocks
  PROVE  Live' = Live \ {n} /\ PoolTypes' /\ RootsInv'
<1> DEFINE k == n[1]
<1>1. n \in Item /\ k \in Pool
  BY ItemIs DEF Live
<1>2. n[2] <= blocks[k] * ItemsPerBlock /\ n \notin ToSet(_root[k])
  BY <1>1, LiveIs DEF Live, PoolTypes, RootsInv
<1>3. /\ <<n>> \o _root[k] \in Seq(Item)
      /\ ToSet(<<n>> \o _root[k]) = ToSet(_root[k]) \cup {n}
      /\ IsInjective(<<n>> \o _root[k])
  BY <1>1, <1>2, ConsAdds DEF PoolTypes, RootsInv, Own
<1>4. /\ _root' = [_root EXCEPT ![k] = <<n>> \o _root[k]]
      /\ blocks' = blocks
  BY DEF Free
<1>5. /\ _root' \in [Pool -> Seq(Item)] /\ blocks' \in [Pool -> Nat]
      /\ _root'[k] = <<n>> \o _root[k]
      /\ \A q \in Pool \ {k} : _root'[q] = _root[q]
  BY <1>1, <1>3, <1>4 DEF PoolTypes
<1>6. Own(k, _root'[k], blocks'[k])
  <2>1. ASSUME NEW j \in DOMAIN (_root'[k])
        PROVE  _root'[k][j][1] = k /\ _root'[k][j][2] <= blocks[k] * ItemsPerBlock
    <3>1. _root'[k][j] \in ToSet(_root[k]) \cup {n}
      BY <1>3, <1>5 DEF ToSet
    <3>2. ASSUME NEW i \in ToSet(_root[k]) PROVE i[1] = k /\ i[2] <= blocks[k] * ItemsPerBlock
      BY <1>1 DEF RootsInv, Own, ToSet
    <3> QED BY <1>2, <3>1, <3>2
  <2> QED BY <1>1, <1>3, <1>4, <1>5, <2>1 DEF Own, RootsInv
<1>7. \A q \in Pool : Own(q, _root'[q], blocks'[q])
  BY <1>4, <1>5, <1>6 DEF RootsInv
<1>8. ASSUME NEW i \in Item PROVE i \in Live' <=> i[2] <= blocks'[i[1]] * ItemsPerBlock /\ i \notin ToSet(_root'[i[1]])
  BY <1>5, <1>7, LiveIs DEF Live
<1>9. ASSUME NEW i \in Item PROVE i \in Live <=> i[2] <= blocks[i[1]] * ItemsPerBlock /\ i \notin ToSet(_root[i[1]])
  BY LiveIs DEF Live, PoolTypes, RootsInv
<1>10. ASSUME NEW i \in Item PROVE i \in Live' <=> i \in Live \ {n}
  <2>1. i[1] \in Pool
    BY ItemIs
  <2>2. CASE i[1] = k
    BY <1>3, <1>4, <1>5, <1>8, <1>9, <2>2
  <2>3. CASE i[1] # k
    BY <1>4, <1>5, <1>8, <1>9, <2>1, <2>3
  <2> QED BY <2>2, <2>3
<1>11. Live \subseteq Item /\ Live' \subseteq Item
  BY DEF Live
<1> QED BY <1>5, <1>7, <1>10, <1>11 DEF PoolTypes, RootsInv

-----------------------------------------------------------------------------
(* The inductive invariant.  A free item, and so a new node, is linked to   *)
(* nothing; the nodes without a parent are those not inserted and those     *)
(* whose destructor runs.                                                   *)
FreeApart(live, d) ==
  /\ \A n \in Node \ (live \cup {Doc}) : d.parent[n] = None /\ d.first[n] = None
  /\ d.parent[Doc] = None

Placed(live, parent, u, s) ==
  /\ IsInjective(u) /\ IsInjective(s)
  /\ ToSet(u) \subseteq live /\ ToSet(s) \subseteq live /\ ToSet(u) \cap ToSet(s) = {}
  /\ \A n \in live : parent[n] = None <=> n \in ToSet(u) \cup ToSet(s)

IInv ==
  /\ DomTypeOK
  /\ RootsInv
  /\ Agree(links)
  /\ FreeApart(Live, links)
  /\ Placed(Live, links.parent, _unlinked, doomed)

LEMMA LiveNodes == Live \subseteq Item /\ Live \subseteq Node /\ Doc \in Node /\ Doc \notin Live
BY NullAssumption DEF Live, Node

LEMMA InitEstablishes == DomInit => IInv
<1> SUFFICES ASSUME DomInit PROVE IInv
  OBVIOUS
<1> USE DEF DomInit
<1>1. Null \in Pointers
  BY DEF Null, Pointers
<1>2. DomTypeOK
  BY <1>1 DEF DomTypeOK, Value
<1>3. RootsInv
  BY BoundsAssumption DEF RootsInv, Own, IsInjective
<1>4. Agree(links) /\ FreeApart({}, links)
  BY DEF Agree, AgreeAt, FreeApart, Null, Node
<1>5. Live = {}
  <2>1. \A i \in Item : i[2] \in Nat \ {0} /\ i[1] \in Pool
    BY ItemIs, BoundsAssumption
  <2> QED BY <2>1, BoundsAssumption DEF Live
<1>6. Placed(Live, links.parent, _unlinked, doomed)
  BY <1>5 DEF Placed, IsInjective, ToSet
<1> QED BY <1>2, <1>3, <1>4, <1>5, <1>6 DEF IInv

LEMMA DetachedAgrees ==
  ASSUME NEW d \in Links, Agree(d), NEW c \in Node
  PROVE  /\ Detached(d, c) \in Links
         /\ Agree(Detached(d, c))
         /\ Detached(d, c).parent = [d.parent EXCEPT ![c] = None]
         /\ \A n \in Node : d.first[n] = None => Detached(d, c).first[n] = None
         /\ \A n \in Node : n # c /\ d.next[n] # None /\ ~ (d.next[n] = c /\ d.next[c] = None)
                              => Detached(d, c).next[n] # None
<1>1. CASE d.parent[c] = None
  <2>1. d.parent = [d.parent EXCEPT ![c] = None]
    BY <1>1 DEF Links, Pointers
  <2> QED BY <1>1, <2>1 DEF Detached
<1>2. CASE d.parent[c] # None
  BY <1>2, UnlinkAgrees DEF Detached
<1> QED BY <1>1, <1>2

-----------------------------------------------------------------------------
(* Each operation keeps it. *)
LEMMA InsertKeeps ==
  ASSUME IInv, doomed = <<>>, NEW c \in Live, NEW q \in Node, NEW e \in Links, Agree(e),
         e.parent = [links.parent EXCEPT ![c] = q],
         \A n \in Node \ (Live \cup {Doc}) : e.first[n] = None,
         Insert(e, c)
  PROVE  IInv'
<1>1. /\ links' = e /\ value' = value /\ _root' = _root /\ blocks' = blocks /\ doomed' = doomed
      /\ _unlinked' = MarkInUse(_unlinked, c)
      /\ IF links.parent[c] = None THEN SetTracked(c) ELSE _nUntracked' = _nUntracked
  BY DEF Insert, Used
<1>2. Live' = Live
  BY <1>1 DEF Live
<1>3. /\ _unlinked' \in Seq(Item) /\ IsInjective(_unlinked') /\ ToSet(_unlinked') = ToSet(_unlinked) \ {c}
  BY <1>1, MarkInUseRemoves DEF IInv, DomTypeOK, Placed
<1>4. _nUntracked' \in [Pool -> Int]
  <2>1. c[1] \in Pool
    BY ItemIs, LiveNodes
  <2> QED BY <1>1, <2>1 DEF SetTracked, IInv, DomTypeOK
<1>5. DomTypeOK'
  BY <1>1, <1>3, <1>4 DEF IInv, DomTypeOK, Links
<1>6. RootsInv'
  BY <1>1 DEF IInv, RootsInv
<1>7. \A n \in Node : e.parent[n] = IF n = c THEN q ELSE links.parent[n]
  BY LiveNodes DEF IInv, DomTypeOK, Pointers
<1>8. FreeApart(Live, e)
  BY <1>7, LiveNodes DEF IInv, FreeApart
<1>9. Placed(Live, e.parent, _unlinked', doomed)
  <2>1. ToSet(doomed) = {} /\ IsInjective(doomed)
    BY DEF ToSet, IsInjective
  <2>2. ASSUME NEW n \in Live PROVE e.parent[n] = None <=> n \in ToSet(_unlinked')
    BY <1>3, <1>7, <2>1, LiveNodes, NullAssumption DEF IInv, Placed
  <2> QED BY <1>3, <2>1, <2>2 DEF IInv, Placed
<1> QED BY <1>1, <1>2, <1>5, <1>6, <1>8, <1>9 DEF IInv

LEMMA EndChildKeeps ==
  ASSUME IInv, doomed = <<>>, NEW c \in Live, NEW p \in Live \cup {Doc}, p # c, InsertEndChild(p, c)
  PROVE  IInv'
<1>1. links \in Links /\ Agree(links) /\ c \in Node /\ p \in Node
  BY LiveNodes DEF IInv, DomTypeOK, Links
<1>2. PICK d \in Links : d = Detached(links, c)
  BY <1>1, DetachedAgrees
<1>3. /\ Agree(d) /\ d.parent = [links.parent EXCEPT ![c] = None]
      /\ \A n \in Node : links.first[n] = None => d.first[n] = None
  BY <1>1, <1>2, DetachedAgrees
<1>4. links.parent \in Pointers
  BY <1>1 DEF Links
<1>5. d.parent[c] = None
  BY <1>1, <1>3, <1>4 DEF Pointers
<1>6. PICK e \in Links : e = AtEnd(d, p, c)
  BY <1>1, <1>3, <1>5, AtEndAgrees
<1>7. /\ Agree(e) /\ e.parent = [d.parent EXCEPT ![c] = p]
      /\ \A n \in Node : n # p => e.first[n] = d.first[n]
  <2> DEFINE x == AtEnd(d, p, c)
  <2>1. Agree(x)
    BY <1>1, <1>3, <1>5, AtEndAgrees
  <2>2. ParentSet(d, x, c, p)
    BY <1>1, <1>3, <1>5, AtEndAgrees
  <2>3. FirstKept(d, x, p)
    BY <1>1, <1>3, <1>5, AtEndAgrees
  <2> HIDE DEF x
  <2>4. x = e
    BY <1>6 DEF x
  <2> QED BY <2>1, <2>2, <2>3, <2>4 DEF ParentSet, FirstKept
<1>8. e.parent = [links.parent EXCEPT ![c] = p]
  BY <1>1, <1>3, <1>4, <1>7 DEF Pointers
<1>9. \A n \in Node \ (Live \cup {Doc}) : e.first[n] = None
  BY <1>3, <1>7 DEF IInv, FreeApart
<1>10. Insert(e, c)
  BY <1>2, <1>6 DEF InsertEndChild
<1> QED BY <1>1, <1>7, <1>8, <1>9, <1>10, InsertKeeps

LEMMA FirstChildKeeps ==
  ASSUME IInv, doomed = <<>>, NEW c \in Live, NEW p \in Live \cup {Doc}, p # c, InsertFirstChild(p, c)
  PROVE  IInv'
<1>1. links \in Links /\ Agree(links) /\ c \in Node /\ p \in Node
  BY LiveNodes DEF IInv, DomTypeOK, Links
<1>2. PICK d \in Links : d = Detached(links, c)
  BY <1>1, DetachedAgrees
<1>3. /\ Agree(d) /\ d.parent = [links.parent EXCEPT ![c] = None]
      /\ \A n \in Node : links.first[n] = None => d.first[n] = None
  BY <1>1, <1>2, DetachedAgrees
<1>4. links.parent \in Pointers
  BY <1>1 DEF Links
<1>5. d.parent[c] = None
  BY <1>1, <1>3, <1>4 DEF Pointers
<1>6. PICK e \in Links : e = AtFront(d, p, c)
  BY <1>1, <1>3, <1>5, AtFrontAgrees
<1>7. /\ Agree(e) /\ e.parent = [d.parent EXCEPT ![c] = p]
      /\ \A n \in Node : n # p => e.first[n] = d.first[n]
  <2> DEFINE x == AtFront(d, p, c)
  <2>1. Agree(x)
    BY <1>1, <1>3, <1>5, AtFrontAgrees
  <2>2. ParentSet(d, x, c, p)
    BY <1>1, <1>3, <1>5, AtFrontAgrees
  <2>3. FirstKept(d, x, p)
    BY <1>1, <1>3, <1>5, AtFrontAgrees
  <2> HIDE DEF x
  <2>4. x = e
    BY <1>6 DEF x
  <2> QED BY <2>1, <2>2, <2>3, <2>4 DEF ParentSet, FirstKept
<1>8. e.parent = [links.parent EXCEPT ![c] = p]
  BY <1>1, <1>3, <1>4, <1>7 DEF Pointers
<1>9. \A n \in Node \ (Live \cup {Doc}) : e.first[n] = None
  BY <1>3, <1>7 DEF IInv, FreeApart
<1>10. Insert(e, c)
  BY <1>2, <1>6 DEF InsertFirstChild
<1> QED BY <1>1, <1>7, <1>8, <1>9, <1>10, InsertKeeps

LEMMA AfterChildKeeps ==
  ASSUME IInv, doomed = <<>>, NEW c \in Live, NEW a \in Live, NEW q \in Live \cup {Doc},
         links.parent[a] = q, q # c, InsertAfterChild(a, c)
  PROVE  IInv'
<1>1. links \in Links /\ Agree(links) /\ c \in Node /\ a \in Node /\ q \in Node
  BY LiveNodes DEF IInv, DomTypeOK, Links
<1>2. a # c /\ ~ (links.next[a] = c /\ links.next[c] = None)
  BY DEF InsertAfterChild
<1>3. CASE links.next[a] = None
  BY <1>3, EndChildKeeps DEF InsertAfterChild
<1>4. CASE links.next[a] # None
  <2>1. PICK d \in Links : d = Detached(links, c)
    BY <1>1, DetachedAgrees
  <2>2. /\ Agree(d) /\ d.parent = [links.parent EXCEPT ![c] = None]
        /\ \A n \in Node : links.first[n] = None => d.first[n] = None
    BY <1>1, <2>1, DetachedAgrees
  <2>3. d.next[a] # None
    <3> DEFINE x == Detached(links, c)
    <3>1. x.next[a] # None
      BY <1>1, <1>2, <1>4, DetachedAgrees
    <3> QED BY <2>1, <3>1
  <2>4. links.parent \in Pointers
    BY <1>1 DEF Links
  <2>5. d.parent[c] = None /\ d.parent[a] = q
    BY <1>1, <1>2, <2>2, <2>4 DEF Pointers
  <2>6. PICK e \in Links : e = After(d, a, c)
    BY <1>1, <1>2, <2>2, <2>3, <2>5, AfterAgrees
  <2>7. Agree(e) /\ e.parent = [d.parent EXCEPT ![c] = q] /\ e.first = d.first
    <3> DEFINE x == After(d, a, c)
    <3>1. Agree(x)
      BY <1>1, <1>2, <2>2, <2>3, <2>5, AfterAgrees
    <3>2. ParentSet(d, x, c, d.parent[a])
      BY <1>1, <1>2, <2>2, <2>3, <2>5, AfterAgrees
    <3>3. x.first = d.first
      BY <1>1, <1>2, <2>2, <2>3, <2>5, AfterAgrees
    <3> HIDE DEF x
    <3>4. x = e
      BY <2>6 DEF x
    <3> QED BY <2>5, <3>1, <3>2, <3>3, <3>4 DEF ParentSet
  <2>8. e.parent = [links.parent EXCEPT ![c] = q]
    BY <1>1, <2>2, <2>4, <2>7 DEF Pointers
  <2>9. \A n \in Node \ (Live \cup {Doc}) : e.first[n] = None
    BY <2>2, <2>7 DEF IInv, FreeApart
  <2>10. Insert(e, c)
    BY <1>4, <2>1, <2>6 DEF InsertAfterChild
  <2> QED BY <1>1, <2>7, <2>8, <2>9, <2>10, InsertKeeps
<1> QED BY <1>3, <1>4

LEMMA CreateKeeps ==
  ASSUME IInv, doomed = <<>>, NEW k \in Pool, NEW v \in Value, CreateUnlinkedNode(k, v)
  PROVE  IInv'
<1>1. PICK n \in Item : n = Head(Available(k))
  BY AllocLives DEF CreateUnlinkedNode, IInv, PoolTypes, DomTypeOK
<1>2. n \notin Live /\ Live' = Live \cup {n} /\ PoolTypes' /\ RootsInv'
  BY <1>1, AllocLives DEF CreateUnlinkedNode, IInv, PoolTypes, DomTypeOK
<1>3. /\ links' = links /\ doomed' = <<>>
      /\ value' = [value EXCEPT ![n] = v]
      /\ _unlinked' = Append(_unlinked, n)
      /\ _nUntracked' = [_nUntracked EXCEPT ![k] = @ + 1]
  BY <1>1 DEF CreateUnlinkedNode
<1>4. /\ _unlinked' \in Seq(Item) /\ ToSet(_unlinked') = ToSet(_unlinked) \cup {n}
      /\ IsInjective(_unlinked')
  BY <1>2, <1>3, AppendAdds DEF IInv, DomTypeOK, Placed
<1>5. DomTypeOK'
  BY <1>2, <1>3, <1>4, LiveNodes DEF IInv, DomTypeOK, PoolTypes, Node
<1>6. n \in Node /\ n # Doc
  BY NullAssumption DEF Node
<1>7. links.parent[n] = None
  BY <1>2, <1>6 DEF IInv, FreeApart
<1>8. FreeApart(Live', links)
  BY <1>2 DEF IInv, FreeApart
<1>9. Placed(Live', links.parent, _unlinked', <<>>)
  <2>1. ToSet(<<>>) = {} /\ IsInjective(<<>>)
    BY DEF ToSet, IsInjective
  <2>2. ToSet(doomed) = {}
    BY DEF ToSet
  <2>3. ASSUME NEW m \in Live' PROVE links.parent[m] = None <=> m \in ToSet(_unlinked')
    BY <1>2, <1>4, <1>7, <2>2 DEF IInv, Placed
  <2> QED BY <1>2, <1>4, <2>1, <2>3 DEF IInv, Placed
<1> QED BY <1>2, <1>3, <1>5, <1>8, <1>9 DEF IInv

LEMMA SetTextKeeps ==
  ASSUME IInv, doomed = <<>>, NEW n \in Live, NEW t \in Text, SetText(n, t)
  PROVE  IInv'
<1>1. links \in Links /\ Agree(links) /\ n \in Node
  BY LiveNodes DEF IInv, DomTypeOK, Links
<1>2. CASE GetText(n) # None
  <2>1. /\ value' = [value EXCEPT ![links.first[n]] = t]
        /\ links' = links /\ _unlinked' = _unlinked /\ doomed' = doomed
        /\ _root' = _root /\ blocks' = blocks /\ _nUntracked' = _nUntracked
    BY <1>2 DEF SetText, pools
  <2>2. DomTypeOK'
    BY <2>1 DEF IInv, DomTypeOK, Value
  <2>3. Live' = Live
    BY <2>1 DEF Live
  <2> QED BY <2>1, <2>2, <2>3 DEF IInv, RootsInv
<1>3. CASE GetText(n) = None
  <2> DEFINE k == "text"
  <2>1. k \in Pool /\ Alloc(k)
    BY <1>3 DEF SetText, Pool
  <2>2. PICK c \in Item : c = Head(Available(k))
    BY <2>1, AllocLives DEF IInv, PoolTypes, DomTypeOK
  <2>3. c \notin Live /\ Live' = Live \cup {c} /\ PoolTypes' /\ RootsInv'
    BY <2>1, <2>2, AllocLives DEF IInv, PoolTypes, DomTypeOK
  <2>4. /\ value' = [value EXCEPT ![c] = t] /\ links' = AtFront(links, n, c)
        /\ _unlinked' = _unlinked /\ _nUntracked' = _nUntracked /\ doomed' = doomed
    BY <1>3, <2>2 DEF SetText
  <2>5. c \in Node /\ c # Doc /\ n # c
    BY <2>3, NullAssumption DEF Node
  <2>6. links.parent[c] = None
    BY <2>3, <2>5 DEF IInv, FreeApart
  <2>7. /\ links' \in Links /\ Agree(links')
        /\ ParentSet(links, links', c, n) /\ FirstKept(links, links', n)
    BY <1>1, <2>4, <2>5, <2>6, AtFrontAgrees
  <2>8. \A m \in Node : links'.parent[m] = IF m = c THEN n ELSE links.parent[m]
    BY <1>1, <2>5, <2>7 DEF ParentSet, Links, Pointers
  <2>9. DomTypeOK'
    BY <2>3, <2>4, <2>7 DEF IInv, DomTypeOK, PoolTypes, Links, Value
  <2>10. FreeApart(Live', links')
    BY <1>1, <2>3, <2>5, <2>7, <2>8, LiveNodes DEF IInv, FreeApart, FirstKept
  <2>11. Placed(Live', links'.parent, _unlinked, doomed)
    <3>1. ASSUME NEW m \in Live'
          PROVE  links'.parent[m] = None <=> m \in ToSet(_unlinked) \cup ToSet(doomed)
      BY <1>1, <2>3, <2>5, <2>8, LiveNodes, NullAssumption DEF IInv, Placed
    <3> QED BY <2>3, <3>1 DEF IInv, Placed
  <2> QED BY <2>3, <2>4, <2>7, <2>9, <2>10, <2>11 DEF IInv
<1> QED BY <1>2, <1>3

LEMMA DeleteKeeps ==
  ASSUME IInv, NEW n \in Live, n \notin ToSet(doomed), NEW e \in Links, Agree(e),
         e.parent = [links.parent EXCEPT ![n] = None],
         \A m \in Node : links.first[m] = None => e.first[m] = None,
         DeleteNode(e, n), _nUntracked' \in [Pool -> Int]
  PROVE  IInv'
<1>1. /\ links' = e /\ value' = value /\ _root' = _root /\ blocks' = blocks
      /\ _unlinked' = MarkInUse(_unlinked, n) /\ doomed' = Append(doomed, n)
  BY DEF DeleteNode
<1>2. Live' = Live
  BY <1>1 DEF Live
<1>3. /\ _unlinked' \in Seq(Item) /\ IsInjective(_unlinked') /\ ToSet(_unlinked') = ToSet(_unlinked) \ {n}
  BY <1>1, MarkInUseRemoves DEF IInv, DomTypeOK, Placed
<1>4. /\ doomed' \in Seq(Item) /\ IsInjective(doomed') /\ ToSet(doomed') = ToSet(doomed) \cup {n}
  BY <1>1, AppendAdds, LiveNodes DEF IInv, DomTypeOK, Placed
<1>5. DomTypeOK'
  BY <1>1, <1>3, <1>4 DEF IInv, DomTypeOK, Links
<1>6. RootsInv'
  BY <1>1 DEF IInv, RootsInv
<1>7. \A m \in Node : e.parent[m] = IF m = n THEN None ELSE links.parent[m]
  BY LiveNodes DEF IInv, DomTypeOK, Pointers
<1>8. FreeApart(Live, e)
  BY <1>7, LiveNodes DEF IInv, FreeApart
<1>9. Placed(Live, e.parent, _unlinked', doomed')
  <2>1. ASSUME NEW m \in Live PROVE e.parent[m] = None <=> m \in ToSet(_unlinked') \cup ToSet(doomed')
    BY <1>3, <1>4, <1>7, LiveNodes DEF IInv, Placed
  <2> QED BY <1>3, <1>4, <2>1 DEF IInv, Placed
<1> QED BY <1>1, <1>2, <1>5, <1>6, <1>8, <1>9 DEF IInv

LEMMA DeleteChildKeeps ==
  ASSUME IInv, NEW n \in Node, links.parent[n] # None, DeleteChild(n)
  PROVE  IInv'
<1>1. links \in Links /\ Agree(links) /\ _nUntracked' \in [Pool -> Int]
  BY DEF IInv, DomTypeOK, Links, DeleteChild
<1>2. n \in Live /\ n \notin ToSet(doomed)
  BY DEF IInv, FreeApart, Placed
<1>3. PICK e \in Links : e = Unlink(links, n)
  BY <1>1, UnlinkAgrees
<1>4. /\ Agree(e) /\ ParentSet(links, e, n, None)
      /\ \A m \in Node : links.first[m] = None => e.first[m] = None
  BY <1>1, <1>3, UnlinkAgrees DEF ParentSet
<1>5. DeleteNode(e, n)
  BY <1>3 DEF DeleteChild
<1> QED BY <1>1, <1>2, <1>4, <1>5, DeleteKeeps DEF ParentSet

LEMMA DeleteUnlinkedKeeps ==
  ASSUME IInv, NEW n \in Live, links.parent[n] = None, n \notin ToSet(doomed),
         DeleteNode(links, n), SetTracked(n) \/ UNCHANGED _nUntracked
  PROVE  IInv'
<1>1. links \in Links /\ Agree(links) /\ _nUntracked \in [Pool -> Int]
  BY DEF IInv, DomTypeOK, Links
<1>2. n[1] \in Pool /\ n \in Node
  BY ItemIs, LiveNodes
<1>3. _nUntracked' \in [Pool -> Int]
  BY <1>1, <1>2 DEF SetTracked
<1>4. links.parent = [links.parent EXCEPT ![n] = None]
  BY <1>1, <1>2 DEF Links, Pointers
<1> QED BY <1>1, <1>3, <1>4, DeleteKeeps

LEMMA DocumentDeleteKeeps ==
  ASSUME IInv, doomed = <<>>, NEW n \in Live, DocumentDeleteNode(n)
  PROVE  IInv'
<1>1. n \notin ToSet(doomed) /\ n \in Node
  BY LiveNodes DEF ToSet
<1>2. CASE links.parent[n] # None
  BY <1>1, <1>2, DeleteChildKeeps DEF DocumentDeleteNode
<1>3. CASE links.parent[n] = None
  BY <1>1, <1>3, DeleteUnlinkedKeeps DEF DocumentDeleteNode
<1> QED BY <1>2, <1>3

LEMMA FirstHasParent ==
  ASSUME IInv, NEW n \in Node, links.first[n] # None
  PROVE  links.first[n] \in Node /\ links.parent[links.first[n]] # None
<1>1. links.first[n] \in Node
  BY DEF IInv, DomTypeOK, Pointers
<1>2. links.parent[links.first[n]] = n
  BY DEF IInv, Agree, AgreeAt
<1> QED BY <1>1, <1>2, NullAssumption

LEMMA DestroyKeeps == IInv /\ Destroy => IInv'
<1> SUFFICES ASSUME IInv, Destroy PROVE IInv'
  OBVIOUS
<1>1. doomed \in Seq(Item) /\ doomed # <<>> /\ IsInjective(doomed) /\ ToSet(doomed) \subseteq Live
  BY DEF Destroy, IInv, DomTypeOK, Placed
<1>2. PICK n \in Live : n = Last(doomed)
  BY <1>1, FrontDrops
<1>3. n \in Node /\ n \in Item
  BY LiveNodes
<1>4. CASE links.first[n] # None
  <2>1. DeleteChild(links.first[n])
    BY <1>2, <1>4 DEF Destroy
  <2> QED BY <1>3, <1>4, <2>1, FirstHasParent, DeleteChildKeeps
<1>5. CASE links.first[n] = None
  <2>1. /\ doomed' = Front(doomed) /\ Free(n) /\ value' = [value EXCEPT ![n] = None]
        /\ links' = links /\ _unlinked' = _unlinked /\ blocks' = blocks /\ _nUntracked' = _nUntracked
    BY <1>2, <1>5 DEF Destroy
  <2>2. Live' = Live \ {n} /\ PoolTypes' /\ RootsInv'
    BY <2>1, FreeDies DEF IInv, DomTypeOK, PoolTypes
  <2>3. /\ doomed' \in Seq(Item) /\ IsInjective(doomed')
        /\ ToSet(doomed') = ToSet(doomed) \ {n} /\ n \in ToSet(doomed)
    <3>1. /\ Front(doomed) \in Seq(Item) /\ Last(doomed) \in ToSet(doomed)
          /\ ToSet(Front(doomed)) \subseteq ToSet(doomed)
          /\ ToSet(doomed) \subseteq ToSet(Front(doomed)) \cup {Last(doomed)}
          /\ IsInjective(Front(doomed)) /\ Last(doomed) \notin ToSet(Front(doomed))
      BY <1>1, FrontDrops
    <3> QED BY <1>2, <2>1, <3>1
  <2>4. DomTypeOK'
    BY <2>1, <2>2, <2>3 DEF IInv, DomTypeOK, PoolTypes
  <2>5. links.parent[n] = None /\ n \notin ToSet(_unlinked)
    BY <2>3 DEF IInv, Placed
  <2>6. FreeApart(Live', links)
    BY <1>3, <1>5, <2>2, <2>5 DEF IInv, FreeApart
  <2>7. Placed(Live', links.parent, _unlinked, doomed')
    BY <2>2, <2>3, <2>5 DEF IInv, Placed
  <2> QED BY <2>1, <2>2, <2>4, <2>6, <2>7 DEF IInv
<1> QED BY <1>4, <1>5

LEMMA EmptiedLive == Live = {} /\ EmptyPools => Live' = Live
<1> SUFFICES ASSUME Live = {}, EmptyPools, NEW i \in Live' PROVE FALSE
  OBVIOUS
<1>1. \A j \in Item : j[2] \in Nat \ {0} /\ j[1] \in Pool
  BY ItemIs, BoundsAssumption
<1>2. i \in Item /\ i[2] <= 0 * ItemsPerBlock
  BY <1>1 DEF Live, EmptyPools
<1> QED BY <1>1, <1>2, BoundsAssumption

LEMMA EmptyPoolsKeeps == IInv /\ Live = {} /\ EmptyPools => IInv'
<1> SUFFICES ASSUME IInv, Live = {}, EmptyPools PROVE IInv'
  OBVIOUS
<1>1. /\ _root' = [k \in Pool |-> <<>>] /\ blocks' = [k \in Pool |-> 0]
      /\ _nUntracked' = [k \in Pool |-> 0]
      /\ links' = links /\ value' = value /\ _unlinked' = _unlinked /\ doomed' = doomed
  BY DEF EmptyPools
<1>2. Live' = Live
  BY EmptiedLive
<1>3. DomTypeOK'
  BY <1>1 DEF IInv, DomTypeOK
<1>4. RootsInv'
  BY <1>1, BoundsAssumption DEF RootsInv, Own, IsInjective
<1> QED BY <1>1, <1>2, <1>3, <1>4 DEF IInv

LEMMA CallKeeps ==
  ASSUME IInv, doomed = <<>>, Edit \/ ParserCall \/ ClearStep
  PROVE  IInv'
<1>1. ASSUME NEW k \in Pool, Create(k) PROVE IInv'
  BY <1>1, CreateKeeps DEF Create, Value
<1>2. ASSUME NEW p \in Parents, NEW c \in Live, p # c,
             \/ InsertEndChild(p, c) \/ InsertFirstChild(p, c)
             \/ \E a \in Live : links.parent[a] = p /\ InsertAfterChild(a, c)
      PROVE  IInv'
  <2>1. p \in Live \cup {Doc}
    BY DEF Parents
  <2>2. CASE InsertEndChild(p, c)
    BY <1>2, <2>1, <2>2, EndChildKeeps
  <2>3. CASE InsertFirstChild(p, c)
    BY <1>2, <2>1, <2>3, FirstChildKeeps
  <2>4. ASSUME NEW a \in Live, links.parent[a] = p, InsertAfterChild(a, c) PROVE IInv'
    BY <1>2, <2>1, <2>4, AfterChildKeeps
  <2> QED BY <1>2, <2>2, <2>3, <2>4
<1>3. ASSUME NEW n \in Live, NEW t \in Text, SetText(n, t) PROVE IInv'
  BY <1>3, SetTextKeeps
<1>4. ASSUME NEW n \in Live, DocumentDeleteNode(n) PROVE IInv'
  BY <1>4, DocumentDeleteKeeps
<1>5. CASE Edit
  BY <1>5, <1>1, <1>2, <1>3, <1>4 DEF Edit
<1>6. CASE ParserCall
  <2>1. ASSUME NEW k \in Pool, NEW v \in Value, CreateUnlinkedNode(k, v) PROVE IInv'
    BY <2>1, CreateKeeps
  <2>2. ASSUME NEW n \in ToSet(_unlinked), DeleteNode(links, n), SetTracked(n) \/ UNCHANGED _nUntracked
        PROVE  IInv'
    <3>1. n \in Live /\ links.parent[n] = None /\ n \notin ToSet(doomed)
      BY DEF IInv, Placed
    <3> QED BY <2>2, <3>1, DeleteUnlinkedKeeps
  <2> QED BY <1>6, <2>1, <2>2, EmptyPoolsKeeps DEF ParserCall
<1>7. CASE ClearStep
  <2>1. CASE links.first[Doc] # None
    <3>1. DeleteChild(links.first[Doc])
      BY <1>7, <2>1 DEF ClearStep
    <3> QED BY <2>1, <3>1, LiveNodes, FirstHasParent, DeleteChildKeeps
  <2>2. CASE links.first[Doc] = None
    <3>1. _unlinked # <<>> /\ DocumentDeleteNode(_unlinked[1])
      BY <1>7, <2>2 DEF ClearStep
    <3>2. _unlinked[1] \in ToSet(_unlinked)
      BY <3>1 DEF ToSet, IInv, DomTypeOK
    <3>3. _unlinked[1] \in Live
      BY <3>2 DEF IInv, Placed
    <3> QED BY <3>1, <3>3, DocumentDeleteKeeps
  <2> QED BY <2>1, <2>2
<1> QED BY <1>5, <1>6, <1>7

LEMMA StepKeeps == IInv /\ [DomNext]_domVars => IInv'
<1> SUFFICES ASSUME IInv, [DomNext]_domVars PROVE IInv'
  OBVIOUS
<1>1. CASE doomed = <<>> /\ (Edit \/ ParserCall \/ ClearStep)
  BY <1>1, CallKeeps
<1>2. CASE Destroy
  BY <1>2, DestroyKeeps
<1>3. CASE UNCHANGED domVars
  <2>1. /\ links' = links /\ value' = value /\ _unlinked' = _unlinked /\ doomed' = doomed
        /\ _root' = _root /\ blocks' = blocks /\ _nUntracked' = _nUntracked
    BY <1>3 DEF domVars, pools
  <2>2. Live' = Live
    BY <2>1 DEF Live
  <2>3. DomTypeOK' /\ RootsInv'
    BY <2>1 DEF IInv, DomTypeOK, RootsInv
  <2> QED BY <2>1, <2>2, <2>3 DEF IInv
<1> QED BY <1>1, <1>2, <1>3 DEF DomNext

LEMMA InvariantHolds == DomSpec => []IInv
BY InitEstablishes, StepKeeps, PTL DEF DomSpec

-----------------------------------------------------------------------------
(* Whatever is created, moved, deleted, parsed or cleared, in documents of  *)
(* any size and at every step of every recursive deletion, first and last   *)
(* child, neighbours and parents agree, and a free item is linked to        *)
(* nothing.                                                                 *)
THEOREM LinksAlwaysAgree == DomSpec => []LinksAgree
<1>1. IInv => LinksAgree
  <2> SUFFICES ASSUME IInv PROVE LinksAgree
    OBVIOUS
  <2>1. \A n \in Node : AgreeAt(links, n) /\ (n \notin Live \cup {Doc} => links.parent[n] = None /\ links.first[n] = None)
    BY DEF IInv, Agree, FreeApart
  <2> QED BY <2>1 DEF IInv, LinksAgree, AgreeAt
<1> QED BY <1>1, InvariantHolds, PTL

(* No pool loses an item or gives one out twice: every item is free once,   *)
(* or in the tree, or in the list of those not inserted, once, or its       *)
(* destructor runs.                                                         *)
THEOREM PoolsAlwaysBalanced == DomSpec => []PoolsBalanced
<1>1. IInv => PoolsBalanced
  <2> SUFFICES ASSUME IInv PROVE PoolsBalanced
    OBVIOUS
  <2>1. ASSUME NEW n \in Live
        PROVE  1 = (IF links.parent[n] # None THEN 1 ELSE 0)
                   + (IF n \in ToSet(_unlinked) THEN 1 ELSE 0)
                   + (IF n \in ToSet(doomed) THEN 1 ELSE 0)
    <3>1. \/ links.parent[n] # None /\ n \notin ToSet(_unlinked) /\ n \notin ToSet(doomed)
          \/ links.parent[n] = None /\ n \in ToSet(_unlinked) /\ n \notin ToSet(doomed)
          \/ links.parent[n] = None /\ n \notin ToSet(_unlinked) /\ n \in ToSet(doomed)
      BY DEF IInv, Placed
    <3> QED BY <3>1
  <2> QED BY <2>1 DEF IInv, Placed, RootsInv, Own, PoolsBalanced
<1> QED BY <1>1, InvariantHolds, PTL

-----------------------------------------------------------------------------
(* The document as a forest.  Following parents, or next nodes, goes in no  *)
(* circle: of any nodes one leads out of them.  An induction over a chain   *)
(* becomes the argument that no node is the last one to fail.               *)
NoCircle(g) == \A S \in SUBSET Node : S # {} => \E x \in S : g[x] \notin S

(* The sequence s of nodes that starts with c and follows next to its end.  *)
At(s, j) == IF j \in DOMAIN s THEN s[j] ELSE None

Chain(d, c, s) ==
  /\ s \in Seq(Node)
  /\ At(s, 1) = c
  /\ \A j \in 1..Len(s) : d.next[s[j]] = At(s, j + 1)

Kids(d, n) == CHOOSE s : Chain(d, d.first[n], s)

LEMMA SeqIs ==
  ASSUME NEW S, NEW s \in Seq(S)
  PROVE  Len(s) \in Nat /\ DOMAIN s = 1..Len(s) /\ \A j \in 1..Len(s) : s[j] \in S
OBVIOUS

LEMMA SeqEqual ==
  ASSUME NEW S, NEW s \in Seq(S), NEW t \in Seq(S), Len(s) = Len(t),
         \A j \in 1..Len(s) : s[j] = t[j]
  PROVE  s = t
OBVIOUS

LEMMA ChainNil ==
  ASSUME NEW d, NEW s
  PROVE  Chain(d, None, s) <=> s = <<>>
<1>1. ASSUME Chain(d, None, s) PROVE s = <<>>
  <2>1. s \in Seq(Node) /\ At(s, 1) = None
    BY <1>1 DEF Chain
  <2>2. CASE Len(s) = 0
    BY <2>1, <2>2
  <2>3. CASE Len(s) # 0
    <3>1. 1 \in DOMAIN s /\ s[1] \in Node
      BY <2>1, <2>3
    <3> QED BY <2>1, <3>1, NullAssumption DEF At
  <2> QED BY <2>2, <2>3
<1>2. Chain(d, None, <<>>)
  BY DEF Chain, At
<1> QED BY <1>1, <1>2

LEMMA ChainCons ==
  ASSUME NEW d, NEW x \in Node, NEW t, Chain(d, d.next[x], t)
  PROVE  Chain(d, x, <<x>> \o t)
<1> DEFINE s == <<x>> \o t
           k == Len(t)
<1>1. /\ t \in Seq(Node) /\ k \in Nat /\ DOMAIN t = 1..k
      /\ s \in Seq(Node) /\ Len(s) = k + 1 /\ DOMAIN s = 1..(k + 1) /\ s[1] = x
      /\ \A j \in 1..k : s[j + 1] = t[j]
  BY DEF Chain
<1>2. \A j \in 1..k : d.next[t[j]] = At(t, j + 1)
  BY DEF Chain
<1>3. At(t, 1) = d.next[x]
  BY DEF Chain
<1> HIDE DEF s, k
<1>4. \A j \in Nat \ {0} : At(s, j + 1) = At(t, j)
  BY <1>1 DEF At
<1>5. ASSUME NEW j \in 1..(k + 1) PROVE d.next[s[j]] = At(s, j + 1)
  <2>1. CASE j = 1
    BY <1>1, <1>3, <1>4, <2>1
  <2>2. CASE j # 1
    <3>1. j - 1 \in 1..k /\ (j - 1) + 1 = j /\ j \in Nat \ {0}
      BY <1>1, <2>2
    <3>2. s[j] = t[j - 1]
      BY <1>1, <3>1
    <3> QED BY <1>2, <1>4, <3>1, <3>2
  <2> QED BY <2>1, <2>2
<1>6. At(s, 1) = x
  BY <1>1 DEF At
<1> QED BY <1>1, <1>5, <1>6 DEF Chain, s

LEMMA ChainTail ==
  ASSUME NEW d, NEW x \in Node, NEW s, Chain(d, x, s)
  PROVE  \E t : Chain(d, d.next[x], t) /\ s = <<x>> \o t
<1> DEFINE t == Tail(s)
           k == Len(s)
<1>1. s \in Seq(Node) /\ s # <<>> /\ s[1] = x
  <2>1. s \in Seq(Node) /\ At(s, 1) = x
    BY DEF Chain
  <2>2. 1 \in DOMAIN s
    BY <2>1, NullAssumption DEF At
  <2> QED BY <2>1, <2>2 DEF At
<1>2. /\ k \in Nat \ {0} /\ DOMAIN s = 1..k
      /\ t \in Seq(Node) /\ Len(t) = k - 1 /\ DOMAIN t = 1..(k - 1)
      /\ \A j \in 1..(k - 1) : t[j] = s[j + 1]
  BY <1>1
<1>3. s = <<x>> \o t
  BY <1>1
<1>4. \A j \in 1..k : d.next[s[j]] = At(s, j + 1)
  BY DEF Chain
<1> HIDE DEF t, k
<1>5. \A j \in Nat \ {0} : At(t, j) = At(s, j + 1)
  BY <1>2 DEF At
<1>6. At(t, 1) = d.next[x]
  <2>1. 1 \in 1..k /\ 1 \in Nat \ {0}
    BY <1>2
  <2>2. d.next[s[1]] = At(s, 1 + 1)
    BY <1>4, <2>1
  <2>3. At(t, 1) = At(s, 1 + 1)
    BY <1>5, <2>1
  <2> QED BY <1>1, <2>2, <2>3
<1>7. ASSUME NEW j \in 1..(k - 1) PROVE d.next[t[j]] = At(t, j + 1)
  <2>1. j + 1 \in 1..k /\ j + 1 \in Nat \ {0}
    BY <1>2
  <2> QED BY <1>2, <1>4, <1>5, <2>1
<1> QED BY <1>1, <1>2, <1>3, <1>6, <1>7 DEF Chain, t

(* So every node begins one chain. *)
LEMMA ChainExists ==
  ASSUME NEW d \in Links, NoCircle(d.next), NEW c \in Node \cup {None}
  PROVE  \E s : Chain(d, c, s)
<1> DEFINE S == {x \in Node : ~ \E s : Chain(d, x, s)}
<1>1. CASE S # {}
  <2>1. PICK x \in S : d.next[x] \notin S
    BY <1>1 DEF NoCircle
  <2>2. d.next[x] \in Node \cup {None}
    BY <2>1 DEF Links, Pointers
  <2>3. \E t : Chain(d, d.next[x], t)
    BY <2>1, <2>2, ChainNil
  <2> QED BY <2>1, <2>3, ChainCons
<1>2. CASE S = {}
  BY <1>2, ChainNil
<1> QED BY <1>1, <1>2

LEMMA ChainUnique ==
  ASSUME NEW d \in Links, NoCircle(d.next), NEW c \in Node \cup {None},
         NEW s, Chain(d, c, s), NEW t, Chain(d, c, t)
  PROVE  s = t
<1> DEFINE S == {x \in Node : \E u, v : Chain(d, x, u) /\ Chain(d, x, v) /\ u # v}
<1>1. CASE S # {}
  <2>1. PICK x \in S : d.next[x] \notin S
    BY <1>1 DEF NoCircle
  <2>2. PICK u, v : Chain(d, x, u) /\ Chain(d, x, v) /\ u # v
    BY <2>1
  <2>3. d.next[x] \in Node \cup {None}
    BY <2>1 DEF Links, Pointers
  <2>4. PICK y : Chain(d, d.next[x], y) /\ u = <<x>> \o y
    BY <2>1, <2>2, ChainTail
  <2>5. PICK z : Chain(d, d.next[x], z) /\ v = <<x>> \o z
    BY <2>1, <2>2, ChainTail
  <2>6. y = z
    BY <2>1, <2>3, <2>4, <2>5, ChainNil
  <2> QED BY <2>2, <2>4, <2>5, <2>6
<1>2. CASE S = {}
  BY <1>2, ChainNil
<1> QED BY <1>1, <1>2

LEMMA KidsChain ==
  ASSUME NEW d \in Links, NoCircle(d.next), NEW n \in Node
  PROVE  /\ Chain(d, d.first[n], Kids(d, n))
         /\ \A s : Chain(d, d.first[n], s) => s = Kids(d, n)
<1>1. d.first[n] \in Node \cup {None}
  BY DEF Links, Pointers
<1>2. \E s : Chain(d, d.first[n], s)
  BY <1>1, ChainExists
<1>3. Chain(d, d.first[n], Kids(d, n))
  BY <1>2 DEF Kids
<1> QED BY <1>1, <1>3, ChainUnique

(* The model's recursive function finds the chain. *)
LEMMA ChildrenAre ==
  links \in Links /\ NoCircle(links.next) => \A n \in Node : ChildrenOf(n) = Kids(links, n)
<1> SUFFICES ASSUME links \in Links, NoCircle(links.next), NEW n \in Node
             PROVE  ChildrenOf(n) = Kids(links, n)
  OBVIOUS
<1> DEFINE f == [c \in Node \cup {None} |-> CHOOSE s : Chain(links, c, s)]
<1>1. \A c \in Node \cup {None} : Chain(links, c, f[c])
  BY ChainExists
<1>2. \A c \in Node : links.next[c] \in Node \cup {None} /\ links.first[c] \in Node \cup {None}
  BY DEF Links, Pointers
<1>3. f = [c \in Node \cup {None} |-> IF c = None THEN <<>> ELSE <<c>> \o f[links.next[c]]]
  <2>1. f[None] = <<>>
    BY <1>1, ChainNil
  <2>2. ASSUME NEW c \in Node PROVE f[c] = <<c>> \o f[links.next[c]]
    <3>1. Chain(links, links.next[c], f[links.next[c]])
      BY <1>1, <1>2
    <3>2. Chain(links, c, <<c>> \o f[links.next[c]])
      BY <3>1, ChainCons
    <3>3. Chain(links, c, f[c])
      BY <1>1
    <3> HIDE DEF f
    <3> QED BY <3>2, <3>3, ChainUnique
  <2>3. None \notin Node
    BY NullAssumption
  <2>4. \A c \in Node \cup {None} : f[c] = IF c = None THEN <<>> ELSE <<c>> \o f[links.next[c]]
    <3> HIDE DEF f
    <3> QED BY <2>1, <2>2, <2>3
  <2>5. f = [c \in Node \cup {None} |-> f[c]]
    OBVIOUS
  <2> HIDE DEF f
  <2> QED BY <2>4, <2>5
<1> HIDE DEF f
<1>4. PICK g : /\ g = [c \in Node \cup {None} |-> IF c = None THEN <<>> ELSE <<c>> \o g[links.next[c]]]
               /\ ChildrenOf(n) = g[links.first[n]]
  BY <1>3 DEF ChildrenOf
<1>5. g[None] = <<>>
  BY <1>4
<1>6. \A c \in Node : g[c] = <<c>> \o g[links.next[c]]
  BY <1>4, NullAssumption
<1> DEFINE S == {x \in Node : ~ Chain(links, x, g[x])}
<1>7. S = {}
  <2> SUFFICES ASSUME S # {} PROVE FALSE
    OBVIOUS
  <2>1. PICK x \in S : links.next[x] \notin S
    BY DEF NoCircle
  <2>2. Chain(links, links.next[x], g[links.next[x]])
    BY <1>2, <1>5, <2>1, ChainNil
  <2> QED BY <1>6, <2>1, <2>2, ChainCons
<1>8. Chain(links, links.first[n], g[links.first[n]])
  BY <1>2, <1>5, <1>7, ChainNil
<1> QED BY <1>4, <1>8, KidsChain

(* Its nodes have one parent. *)
LEMMA ChainParent ==
  ASSUME NEW d \in Links, Agree(d), NoCircle(d.next), NEW x \in Node, NEW t, Chain(d, x, t)
  PROVE  \A y \in ToSet(t) : d.parent[y] = d.parent[x]
<1> DEFINE W == {z \in Node : \E u : Chain(d, z, u) /\ \E y \in ToSet(u) : d.parent[y] # d.parent[z]}
<1>1. W = {}
  <2> SUFFICES ASSUME W # {} PROVE FALSE
    OBVIOUS
  <2>1. PICK z \in W : d.next[z] \notin W
    BY DEF NoCircle
  <2>2. PICK u : Chain(d, z, u) /\ \E y \in ToSet(u) : d.parent[y] # d.parent[z]
    BY <2>1
  <2>3. z \in Node /\ Chain(d, z, u)
    BY <2>1, <2>2
  <2> HIDE DEF W
  <2>4. PICK v : Chain(d, d.next[z], v) /\ u = <<z>> \o v
    BY <2>3, ChainTail
  <2>5. v \in Seq(Node)
    BY <2>4 DEF Chain
  <2>6. ToSet(u) = ToSet(v) \cup {z}
    BY <2>3, <2>4, <2>5, ConsAdds
  <2>7. CASE d.next[z] = None
    <3>1. v = <<>>
      BY <2>4, <2>7, ChainNil
    <3>2. ToSet(v) = {}
      BY <3>1 DEF ToSet
    <3> QED BY <2>2, <2>6, <3>2
  <2>8. CASE d.next[z] # None
    <3>1. d.next[z] \in Node /\ AgreeAt(d, z)
      BY <2>3, <2>8 DEF Agree, Links, Pointers
    <3>2. d.parent[d.next[z]] = d.parent[z]
      BY <2>8, <3>1 DEF AgreeAt
    <3>3. \A y \in ToSet(v) : d.parent[y] = d.parent[d.next[z]]
      BY <2>1, <2>4, <3>1 DEF W
    <3> QED BY <2>2, <2>6, <3>2, <3>3
  <2> QED BY <2>7, <2>8
<1> QED BY <1>1

LEMMA ParentHasChild ==
  ASSUME NEW d \in Links, Agree(d), NoCircle(d.next), NEW x \in Node, d.parent[x] # None
  PROVE  d.first[d.parent[x]] # None
<1> DEFINE n == d.parent[x]
           U == {y \in Node : d.parent[y] = n}
<1>1. PICK y \in U : d.next[y] \notin U
  BY DEF NoCircle
<1>2. /\ n \in Node /\ AgreeAt(d, n) /\ AgreeAt(d, y) /\ None \notin Node
      /\ d.next[y] \in Node \cup {None}
  BY <1>1, NullAssumption DEF Agree, Links, Pointers
<1>3. d.next[y] = None
  BY <1>1, <1>2 DEF AgreeAt
<1>4. d.last[n] = y
  BY <1>1, <1>2, <1>3 DEF AgreeAt
<1> QED BY <1>1, <1>2, <1>4 DEF AgreeAt

LEMMA KidsAre ==
  ASSUME NEW d \in Links, Agree(d), NoCircle(d.next), NEW n \in Node
  PROVE  /\ Kids(d, n) \in Seq(Node)
         /\ IsInjective(Kids(d, n))
         /\ ToSet(Kids(d, n)) = {x \in Node : d.parent[x] = n}
<1> DEFINE s == Kids(d, n)
<1>1. Chain(d, d.first[n], s)
  BY KidsChain
<1> HIDE DEF s
<1>2. /\ s \in Seq(Node) /\ Len(s) \in Nat /\ DOMAIN s = 1..Len(s)
      /\ \A j \in 1..Len(s) : s[j] \in Node /\ d.next[s[j]] = At(s, j + 1)
      /\ At(s, 1) = d.first[n]
  BY <1>1, SeqIs DEF Chain
<1>3. \A x \in Node : AgreeAt(d, x) /\ d.next[x] \in Node \cup {None} /\ d.first[x] \in Node \cup {None}
                      /\ d.last[x] \in Node \cup {None}
  BY DEF Agree, Links, Pointers
<1>4. None \notin Node
  BY NullAssumption
<1>5. IsInjective(s)
  <2> SUFFICES ASSUME NEW i \in 1..Len(s), NEW j \in 1..Len(s), s[i] = s[j], i < j
               PROVE  FALSE
    BY <1>2 DEF IsInjective
  <2> DEFINE S == {s[k] : k \in i..(j - 1)}
  <2>1. S \in SUBSET Node /\ S # {}
    <3>1. i \in i..(j - 1) /\ \A k \in i..(j - 1) : k \in 1..Len(s)
      BY <1>2
    <3> QED BY <1>2, <3>1
  <2>2. PICK x \in S : d.next[x] \notin S
    BY <2>1 DEF NoCircle
  <2>3. PICK k \in i..(j - 1) : x = s[k]
    BY <2>2
  <2>4. k \in 1..Len(s) /\ k + 1 \in 1..Len(s) /\ (k + 1 \in i..(j - 1) \/ k + 1 = j)
    BY <1>2, <2>3
  <2>5. d.next[x] = s[k + 1]
    BY <1>2, <2>3, <2>4 DEF At
  <2>6. s[k + 1] \in S
    <3>1. i \in i..(j - 1)
      BY <1>2
    <3> QED BY <2>4, <3>1
  <2> QED BY <2>2, <2>5, <2>6
<1>6. ToSet(s) \subseteq {x \in Node : d.parent[x] = n}
  <2>1. \A x \in Node : \A t : Chain(d, x, t) => \A y \in ToSet(t) : d.parent[y] = d.parent[x]
    BY ChainParent
  <2>2. CASE d.first[n] = None
    <3>1. s = <<>>
      BY <1>1, <2>2, ChainNil
    <3> QED BY <3>1 DEF ToSet
  <2>3. CASE d.first[n] # None
    <3>1. d.first[n] \in Node /\ d.parent[d.first[n]] = n
      BY <1>3, <2>3 DEF AgreeAt
    <3>2. ToSet(s) \subseteq Node
      BY <1>2 DEF ToSet
    <3> QED BY <1>1, <2>1, <3>1, <3>2
  <2> QED BY <2>2, <2>3
<1>7. {x \in Node : d.parent[x] = n} \subseteq ToSet(s)
  <2> DEFINE S == {x \in Node : d.parent[x] = n /\ x \notin ToSet(s)}
  <2> SUFFICES ASSUME S # {} PROVE FALSE
    OBVIOUS
  <2>1. PICK x \in S : d.next[x] \notin S
    BY DEF NoCircle
  <2>2. AgreeAt(d, x) /\ AgreeAt(d, n)
    BY <1>3, <2>1
  <2>3. s # <<>> /\ d.last[n] # None /\ d.first[n] # None
    <3>1. d.first[n] # None
      BY <1>4, <2>1, ParentHasChild
    <3>2. d.last[n] # None
      BY <2>2, <3>1 DEF AgreeAt
    <3>3. s # <<>>
      BY <1>2, <3>1 DEF At
    <3> QED BY <3>1, <3>2, <3>3
  <2>4. CASE d.next[x] = None
    <3>1. d.last[n] = x
      BY <1>4, <2>1, <2>2, <2>4 DEF AgreeAt
    <3> DEFINE l == s[Len(s)]
    <3>2. Len(s) \in 1..Len(s) /\ Len(s) + 1 \notin 1..Len(s)
      BY <1>2, <2>3
    <3>3. l \in ToSet(s) /\ l \in Node /\ d.next[l] = None
      BY <1>2, <3>2 DEF At, ToSet
    <3>4. d.parent[l] = n
      BY <1>6, <3>3
    <3>5. d.last[n] = l
      BY <1>3, <1>4, <3>3, <3>4 DEF AgreeAt
    <3> QED BY <2>1, <3>1, <3>3, <3>5
  <2>5. CASE d.next[x] # None
    <3> DEFINE y == d.next[x]
    <3>1. y \in Node /\ d.parent[y] = n /\ d.prev[y] = x /\ y \in ToSet(s)
      BY <1>3, <2>1, <2>5 DEF AgreeAt
    <3>2. PICK j \in 1..Len(s) : y = s[j]
      BY <1>2, <3>1 DEF ToSet
    <3>3. CASE j = 1
      <4>1. d.first[n] = y
        BY <1>2, <3>2, <3>3 DEF At
      <4> QED BY <1>4, <2>1, <2>2, <3>1, <4>1 DEF AgreeAt
    <3>4. CASE j # 1
      <4>1. j - 1 \in 1..Len(s) /\ (j - 1) + 1 = j
        BY <1>2, <3>4
      <4>2. d.next[s[j - 1]] = y /\ s[j - 1] \in ToSet(s) /\ s[j - 1] \in Node
        BY <1>2, <3>2, <4>1 DEF At, ToSet
      <4>3. d.prev[y] = s[j - 1]
        BY <1>3, <1>4, <3>1, <4>2 DEF AgreeAt
      <4> QED BY <2>1, <3>1, <4>2, <4>3
    <3> QED BY <3>3, <3>4
  <2> QED BY <2>4, <2>5
<1> QED BY <1>2, <1>5, <1>6, <1>7 DEF s

-----------------------------------------------------------------------------
(* What taking a child out, and putting a node in, makes of the chains.     *)
LEMMA ConcatIs ==
  ASSUME NEW S, NEW s \in Seq(S), NEW t \in Seq(S)
  PROVE  /\ s \o t \in Seq(S) /\ Len(s \o t) = Len(s) + Len(t)
         /\ \A j \in 1..(Len(s) + Len(t)) :
              (s \o t)[j] = IF j <= Len(s) THEN s[j] ELSE t[j - Len(s)]
OBVIOUS

LEMMA SubSeqIs ==
  ASSUME NEW S, NEW s \in Seq(S), NEW m \in 1..(Len(s) + 1), NEW n \in 0..Len(s), m <= n + 1
  PROVE  /\ SubSeq(s, m, n) \in Seq(S) /\ Len(SubSeq(s, m, n)) = n - m + 1
         /\ \A j \in 1..(n - m + 1) : SubSeq(s, m, n)[j] = s[m + j - 1]
OBVIOUS

LEMMA WithoutIs ==
  ASSUME NEW s \in Seq(Node), IsInjective(s), NEW c \in Node
  PROVE  /\ c \notin ToSet(s) => Forest!Without(s, c) = s
         /\ \A i \in 1..Len(s) : s[i] = c =>
              /\ Forest!Without(s, c) \in Seq(Node)
              /\ Len(Forest!Without(s, c)) = Len(s) - 1
              /\ \A j \in 1..(Len(s) - 1) : Forest!Without(s, c)[j] = IF j < i THEN s[j] ELSE s[j + 1]
<1>1. c \notin ToSet(s) => Forest!Without(s, c) = s
  BY DEF Forest!Without, Forest!ToSet, ToSet
<1>2. ASSUME NEW i \in 1..Len(s), s[i] = c
      PROVE  /\ Forest!Without(s, c) \in Seq(Node)
             /\ Len(Forest!Without(s, c)) = Len(s) - 1
             /\ \A j \in 1..(Len(s) - 1) : Forest!Without(s, c)[j] = IF j < i THEN s[j] ELSE s[j + 1]
  <2>1. c \in Forest!ToSet(s) /\ i \in DOMAIN s
    BY <1>2 DEF Forest!ToSet
  <2>2. (CHOOSE k \in DOMAIN s : s[k] = c) = i
    BY <1>2, <2>1 DEF IsInjective
  <2>3. Forest!Without(s, c) = SubSeq(s, 1, i - 1) \o SubSeq(s, i + 1, Len(s))
    BY <2>1, <2>2 DEF Forest!Without, Forest!RemoveAt
  <2> DEFINE l == Len(s)
             a == SubSeq(s, 1, i - 1)
             b == SubSeq(s, i + 1, l)
  <2>4. i \in Nat /\ l \in Nat /\ 1 <= i /\ i <= l
    BY <1>2
  <2>5. /\ a \in Seq(Node) /\ Len(a) = i - 1 /\ \A j \in 1..(i - 1) : a[j] = s[j]
        /\ b \in Seq(Node) /\ Len(b) = l - i /\ \A j \in 1..(l - i) : b[j] = s[i + j]
    <3>1. i - 1 \in 0..l /\ 1 \in 1..(l + 1) /\ i + 1 \in 1..(l + 1) /\ l \in 0..l
      BY <2>4
    <3>2. /\ a \in Seq(Node) /\ Len(a) = i - 1 - 1 + 1
          /\ \A j \in 1..(i - 1 - 1 + 1) : a[j] = s[1 + j - 1]
      BY <2>4, <3>1, SubSeqIs
    <3>3. /\ b \in Seq(Node) /\ Len(b) = l - (i + 1) + 1
          /\ \A j \in 1..(l - (i + 1) + 1) : b[j] = s[(i + 1) + j - 1]
      BY <2>4, <3>1, SubSeqIs
    <3> HIDE DEF a, b, l
    <3>4. i - 1 - 1 + 1 = i - 1 /\ l - (i + 1) + 1 = l - i
      BY <2>4
    <3>5. \A j \in Nat : 1 + j - 1 = j /\ (i + 1) + j - 1 = i + j
      BY <2>4
    <3> QED BY <2>4, <3>2, <3>3, <3>4, <3>5
  <2> HIDE DEF a, b, l
  <2>6. i - 1 \in Nat /\ l - i \in Nat /\ (i - 1) + (l - i) = l - 1
    BY <2>4
  <2>7. /\ a \o b \in Seq(Node) /\ Len(a \o b) = l - 1
        /\ \A j \in 1..(l - 1) : (a \o b)[j] = IF j <= i - 1 THEN a[j] ELSE b[j - (i - 1)]
    <3>1. /\ a \o b \in Seq(Node) /\ Len(a \o b) = Len(a) + Len(b)
          /\ \A j \in 1..(Len(a) + Len(b)) : (a \o b)[j] = IF j <= Len(a) THEN a[j] ELSE b[j - Len(a)]
      BY <2>5, ConcatIs
    <3> QED BY <2>5, <2>6, <3>1
  <2>8. ASSUME NEW j \in 1..(l - 1) PROVE (a \o b)[j] = IF j < i THEN s[j] ELSE s[j + 1]
    <3>1. CASE j < i
      <4>1. j <= i - 1 /\ j \in 1..(i - 1)
        BY <2>4, <3>1
      <4> QED BY <2>5, <2>7, <3>1, <4>1
    <3>2. CASE ~ j < i
      <4>1. j - (i - 1) \in 1..(l - i) /\ i + (j - (i - 1)) = j + 1 /\ ~ j <= i - 1
        BY <2>4, <3>2
      <4>2. (a \o b)[j] = b[j - (i - 1)]
        BY <2>7, <4>1
      <4> QED BY <2>5, <3>2, <4>1, <4>2
    <3> QED BY <3>1, <3>2
  <2> QED BY <2>3, <2>7, <2>8 DEF a, b, l
<1> QED BY <1>1, <1>2

LEMMA InsertAtIs ==
  ASSUME NEW s \in Seq(Node), NEW k \in 0..Len(s), NEW c \in Node
  PROVE  /\ Forest!InsertAt(s, k + 1, c) \in Seq(Node)
         /\ Len(Forest!InsertAt(s, k + 1, c)) = Len(s) + 1
         /\ \A j \in 1..(Len(s) + 1) :
              Forest!InsertAt(s, k + 1, c)[j] = IF j <= k THEN s[j] ELSE IF j = k + 1 THEN c ELSE s[j - 1]
<1> DEFINE l == Len(s)
           a == SubSeq(s, 1, k)
           b == SubSeq(s, k + 1, l)
           m == a \o <<c>>
<1>1. k \in Nat /\ l \in Nat /\ k <= l
  OBVIOUS
<1>2. Forest!InsertAt(s, k + 1, c) = m \o b
  <2>1. (k + 1) - 1 = k
    BY <1>1
  <2> QED BY <2>1 DEF Forest!InsertAt
<1>3. /\ a \in Seq(Node) /\ Len(a) = k /\ \A j \in 1..k : a[j] = s[j]
      /\ b \in Seq(Node) /\ Len(b) = l - k /\ \A j \in 1..(l - k) : b[j] = s[k + j]
  <2>1. k \in 0..l /\ 1 \in 1..(l + 1) /\ k + 1 \in 1..(l + 1) /\ l \in 0..l
    BY <1>1
  <2>2. a \in Seq(Node) /\ Len(a) = k - 1 + 1 /\ \A j \in 1..(k - 1 + 1) : a[j] = s[1 + j - 1]
    BY <1>1, <2>1, SubSeqIs
  <2>3. /\ b \in Seq(Node) /\ Len(b) = l - (k + 1) + 1
        /\ \A j \in 1..(l - (k + 1) + 1) : b[j] = s[(k + 1) + j - 1]
    BY <1>1, <2>1, SubSeqIs
  <2> HIDE DEF a, b, l
  <2>4. k - 1 + 1 = k /\ l - (k + 1) + 1 = l - k
    BY <1>1
  <2>5. \A j \in Nat : 1 + j - 1 = j /\ (k + 1) + j - 1 = k + j
    BY <1>1
  <2> QED BY <1>1, <2>2, <2>3, <2>4, <2>5
<1> HIDE DEF a, b, l
<1>4. m \in Seq(Node) /\ Len(m) = k + 1 /\ \A j \in 1..(k + 1) : m[j] = IF j <= k THEN s[j] ELSE c
  <2>1. <<c>> \in Seq(Node) /\ Len(<<c>>) = 1 /\ <<c>>[1] = c
    OBVIOUS
  <2>2. /\ m \in Seq(Node) /\ Len(m) = k + 1
        /\ \A j \in 1..(k + 1) : m[j] = IF j <= k THEN a[j] ELSE <<c>>[j - k]
    <3> DEFINE x == <<c>>
    <3> HIDE DEF x
    <3>1. x \in Seq(Node) /\ Len(x) = 1
      BY <2>1 DEF x
    <3>2. /\ a \o x \in Seq(Node) /\ Len(a \o x) = Len(a) + Len(x)
          /\ \A j \in 1..(Len(a) + Len(x)) : (a \o x)[j] = IF j <= Len(a) THEN a[j] ELSE x[j - Len(a)]
      BY <1>3, <3>1, ConcatIs
    <3>3. m = a \o x
      BY DEF x
    <3> HIDE DEF m
    <3>4. /\ m \in Seq(Node) /\ Len(m) = k + 1
          /\ \A j \in 1..(k + 1) : m[j] = IF j <= k THEN a[j] ELSE x[j - k]
      BY <1>3, <3>1, <3>2, <3>3
    <3> QED BY <3>4 DEF x
  <2>3. ASSUME NEW j \in 1..(k + 1) PROVE m[j] = IF j <= k THEN s[j] ELSE c
    <3>1. CASE j <= k
      <4>1. j \in 1..k
        BY <1>1, <3>1
      <4> QED BY <1>3, <2>2, <3>1, <4>1
    <3>2. CASE ~ j <= k
      <4>1. j - k = 1
        BY <1>1, <3>2
      <4> QED BY <2>1, <2>2, <3>2, <4>1
    <3> QED BY <3>1, <3>2
  <2> QED BY <2>2, <2>3
<1> HIDE DEF m
<1>5. k + 1 \in Nat /\ l - k \in Nat /\ (k + 1) + (l - k) = l + 1
  BY <1>1
<1>6. /\ m \o b \in Seq(Node) /\ Len(m \o b) = l + 1
      /\ \A j \in 1..(l + 1) : (m \o b)[j] = IF j <= k + 1 THEN m[j] ELSE b[j - (k + 1)]
  <2>1. /\ m \o b \in Seq(Node) /\ Len(m \o b) = Len(m) + Len(b)
        /\ \A j \in 1..(Len(m) + Len(b)) : (m \o b)[j] = IF j <= Len(m) THEN m[j] ELSE b[j - Len(m)]
    BY <1>3, <1>4, ConcatIs
  <2> QED BY <1>3, <1>4, <1>5, <2>1
<1>7. ASSUME NEW j \in 1..(l + 1)
      PROVE  (m \o b)[j] = IF j <= k THEN s[j] ELSE IF j = k + 1 THEN c ELSE s[j - 1]
  <2>1. CASE j <= k + 1
    <3>1. j \in 1..(k + 1) /\ (~ j <= k => j = k + 1)
      BY <1>1, <2>1
    <3> QED BY <1>4, <1>6, <2>1, <3>1
  <2>2. CASE ~ j <= k + 1
    <3>1. j - (k + 1) \in 1..(l - k) /\ k + (j - (k + 1)) = j - 1 /\ ~ j <= k /\ j # k + 1
      BY <1>1, <2>2
    <3>2. (m \o b)[j] = b[j - (k + 1)]
      BY <1>6, <2>2
    <3> QED BY <1>3, <3>1, <3>2
  <2> QED BY <2>1, <2>2
<1> HIDE DEF m
<1> DEFINE x == Forest!InsertAt(s, k + 1, c)
<1>8. x = m \o b
  BY <1>2
<1> HIDE DEF x
<1>9. /\ x \in Seq(Node) /\ Len(x) = l + 1
      /\ \A j \in 1..(l + 1) : x[j] = IF j <= k THEN s[j] ELSE IF j = k + 1 THEN c ELSE s[j - 1]
  BY <1>6, <1>7, <1>8
<1> QED BY <1>9 DEF x, l

LEMMA UnlinkNoCircle ==
  ASSUME NEW d \in Links, Agree(d), NoCircle(d.next), NoCircle(d.parent), NEW c \in Node,
         NEW e \in Links, Unlinked(d, e, c)
  PROVE  NoCircle(e.next) /\ NoCircle(e.parent)
<1>1. None \notin Node
  BY NullAssumption
<1>2. ASSUME NEW S \in SUBSET Node, S # {} PROVE \E x \in S : e.parent[x] \notin S
  <2>1. PICK x \in S : d.parent[x] \notin S
    BY <1>2 DEF NoCircle
  <2> QED BY <1>1, <2>1 DEF Unlinked
<1>3. ASSUME NEW S \in SUBSET Node, S # {} PROVE \E x \in S : e.next[x] \notin S
  <2>1. \A x \in Node : e.next[x] = IF x = c THEN None ELSE IF x = d.prev[c] THEN d.next[c] ELSE d.next[x]
    BY DEF Unlinked
  <2>2. CASE c \in S
    BY <1>1, <2>1, <2>2
  <2>3. CASE c \notin S
    <3>1. PICK x \in S \cup {c} : d.next[x] \notin S \cup {c}
      BY DEF NoCircle
    <3>2. CASE x # c
      <4>1. x # d.prev[c]
        BY <1>1, <3>1, <3>2 DEF Agree, AgreeAt
      <4> QED BY <2>1, <3>1, <3>2, <4>1
    <3>3. CASE x = c /\ d.prev[c] \in S
      BY <2>1, <2>3, <3>1, <3>3
    <3>4. CASE x = c /\ d.prev[c] \notin S
      <4>1. PICK y \in S : d.next[y] \notin S
        BY <1>3 DEF NoCircle
      <4> QED BY <2>1, <2>3, <3>4, <4>1
    <3> QED BY <3>2, <3>3, <3>4
  <2> QED BY <2>2, <2>3
<1> QED BY <1>2, <1>3 DEF NoCircle

LEMMA UnlinkKids ==
  ASSUME NEW d \in Links, Agree(d), NoCircle(d.next), NoCircle(d.parent), NEW c \in Node, d.parent[c] # None,
         NEW e \in Links, Unlinked(d, e, c), NEW n \in Node
  PROVE  Kids(e, n) = Forest!Without(Kids(d, n), c)
<1> DEFINE s == Kids(d, n)
           t == Forest!Without(s, c)
<1>1. Chain(d, d.first[n], s) /\ s \in Seq(Node) /\ IsInjective(s) /\ ToSet(s) = {x \in Node : d.parent[x] = n}
  BY KidsChain, KidsAre
<1>2. NoCircle(e.next)
  BY UnlinkNoCircle
<1>3. /\ Len(s) \in Nat /\ DOMAIN s = 1..Len(s) /\ At(s, 1) = d.first[n]
      /\ \A j \in 1..Len(s) : s[j] \in Node /\ d.parent[s[j]] = n /\ d.next[s[j]] = At(s, j + 1)
  <2>1. \A j \in 1..Len(s) : s[j] \in ToSet(s)
    BY <1>1 DEF ToSet
  <2> HIDE DEF s
  <2> QED BY <1>1, <2>1, SeqIs DEF Chain
<1>4. \A x \in Node : /\ e.next[x] = IF x = c THEN None ELSE IF x = d.prev[c] THEN d.next[c] ELSE d.next[x]
                      /\ e.first[x] = IF x = d.parent[c] /\ d.prev[c] = None THEN d.next[c] ELSE d.first[x]
  BY DEF Unlinked
<1>5. None \notin Node /\ AgreeAt(d, c) /\ d.prev[c] \in Node \cup {None}
  BY NullAssumption DEF Agree, Links, Pointers
<1> HIDE DEF s
<1>6. CASE d.parent[c] # n
  <2>1. t = s
    BY <1>1, <1>6, WithoutIs
  <2>2. \A j \in 1..Len(s) : s[j] # c /\ s[j] # d.prev[c]
    <3>1. ASSUME d.prev[c] # None PROVE d.parent[d.prev[c]] = d.parent[c]
      BY <1>5, <3>1 DEF Agree, AgreeAt
    <3> QED BY <1>3, <1>5, <1>6, <3>1
  <2>3. \A j \in 1..Len(s) : e.next[s[j]] = At(s, j + 1)
    BY <1>3, <1>4, <2>2
  <2>4. At(s, 1) = e.first[n]
    BY <1>3, <1>4, <1>6
  <2>5. Chain(e, e.first[n], s)
    BY <1>1, <2>3, <2>4 DEF Chain
  <2> QED BY <1>2, <2>1, <2>5, KidsChain DEF s
<1>7. CASE d.parent[c] = n
  <2>1. PICK i \in 1..Len(s) : s[i] = c
    BY <1>1, <1>3, <1>7 DEF ToSet
  <2>2. /\ t \in Seq(Node) /\ Len(t) = Len(s) - 1
        /\ \A j \in 1..(Len(s) - 1) : t[j] = IF j < i THEN s[j] ELSE s[j + 1]
    BY <1>1, <2>1, WithoutIs
  <2> HIDE DEF t
  <2> DEFINE k == Len(s)
  <2>3. k \in Nat /\ i \in Nat /\ 1 <= i /\ i <= k /\ DOMAIN t = 1..(k - 1)
    BY <1>3, <2>1, <2>2
  <2>4. /\ \A j \in Nat \ {0} : j < i => At(t, j) = At(s, j)
        /\ \A j \in Nat \ {0} : j >= i => At(t, j) = At(s, j + 1)
    <3> HIDE DEF k
    <3>1. DOMAIN s = 1..k
      BY <1>3 DEF k
    <3> QED BY <2>2, <2>3, <3>1 DEF At, k
  <2>5. d.next[c] = At(s, i + 1)
    BY <1>3, <2>1
  <2>6. \A j \in 1..k : s[j] = c => j = i
    BY <1>1, <1>3, <2>1 DEF IsInjective
  <2>7. /\ i = 1 => d.prev[c] = None
        /\ i # 1 => d.prev[c] = s[i - 1]
    <3>1. CASE i = 1
      <4>1. d.first[n] = c
        BY <1>3, <2>1, <3>1 DEF At
      <4> QED BY <1>5, <3>1, <4>1 DEF Agree, AgreeAt
    <3>2. CASE i # 1
      <4>1. i - 1 \in 1..k /\ (i - 1) + 1 = i
        BY <2>3, <3>2
      <4>2. s[i - 1] \in Node /\ d.next[s[i - 1]] = c
        BY <1>3, <2>1, <4>1 DEF At
      <4> QED BY <1>5, <3>2, <4>2 DEF Agree, AgreeAt
    <3> QED BY <3>1, <3>2
  <2>8. At(t, 1) = e.first[n]
    <3>1. CASE i = 1
      BY <1>4, <1>7, <2>4, <2>5, <2>7, <3>1
    <3>2. CASE i # 1
      <4>1. d.prev[c] # None
        <5>1. i - 1 \in 1..k
          BY <2>3, <3>2
        <5> QED BY <1>3, <1>5, <2>7, <3>2, <5>1
      <4>2. At(t, 1) = At(s, 1)
        BY <2>3, <2>4, <3>2
      <4> QED BY <1>3, <1>4, <4>1, <4>2
    <3> QED BY <3>1, <3>2
  <2>9. ASSUME NEW j \in 1..(k - 1) PROVE e.next[t[j]] = At(t, j + 1)
    <3>1. j \in Nat \ {0} /\ j + 1 \in Nat \ {0} /\ j \in 1..k /\ j + 1 \in 1..k
      BY <2>3
    <3>2. CASE j >= i
      <4>1. t[j] = s[j + 1] /\ s[j + 1] \in Node /\ s[j + 1] # c
        BY <1>3, <2>2, <2>3, <2>6, <3>1, <3>2
      <4>2. s[j + 1] # d.prev[c]
        <5>1. CASE i = 1
          BY <1>5, <2>7, <4>1, <5>1
        <5>2. CASE i # 1
          <6>1. i - 1 \in 1..k /\ i - 1 # j + 1
            BY <2>3, <3>1, <3>2, <5>2
          <6> QED BY <1>1, <1>3, <2>7, <3>1, <5>2, <6>1 DEF IsInjective
        <5> QED BY <5>1, <5>2
      <4>3. e.next[t[j]] = At(s, (j + 1) + 1)
        BY <1>3, <1>4, <3>1, <4>1, <4>2
      <4> QED BY <2>3, <2>4, <3>1, <3>2, <4>3
    <3>3. CASE j < i
      <4>1. t[j] = s[j] /\ s[j] \in Node /\ s[j] # c
        BY <1>3, <2>2, <2>3, <2>6, <3>1, <3>3
      <4>2. CASE j + 1 = i
        <5>1. s[j] = d.prev[c]
          BY <2>3, <2>7, <3>1, <4>2
        <5>2. e.next[t[j]] = d.next[c]
          BY <1>4, <4>1, <5>1
        <5> QED BY <2>3, <2>4, <2>5, <3>1, <4>2, <5>2
      <4>3. CASE j + 1 # i
        <5>1. s[j] # d.prev[c]
          <6>1. i # 1 /\ i - 1 \in 1..k /\ i - 1 # j
            BY <2>3, <3>1, <3>3, <4>3
          <6> QED BY <1>1, <1>3, <2>7, <3>1, <6>1 DEF IsInjective
        <5>2. e.next[t[j]] = At(s, j + 1)
          BY <1>3, <1>4, <3>1, <4>1, <5>1
        <5> QED BY <2>3, <2>4, <3>1, <3>3, <4>3, <5>2
      <4> QED BY <4>2, <4>3
    <3> QED BY <2>3, <3>1, <3>2, <3>3
  <2>10. Chain(e, e.first[n], t)
    BY <2>2, <2>8, <2>9 DEF Chain
  <2> QED BY <1>2, <2>10, KidsChain DEF t, s
<1> QED BY <1>6, <1>7

(* c is put behind k of the children of p. *)
InsertedAt(d, e, p, k, c) ==
  \A n \in Node :
    /\ e.parent[n] = IF n = c THEN p ELSE d.parent[n]
    /\ e.first[n] = IF n = p /\ k = 0 THEN c ELSE d.first[n]
    /\ e.next[n] = IF n = c THEN At(Kids(d, p), k + 1)
                   ELSE IF k # 0 /\ n = Kids(d, p)[k] THEN c ELSE d.next[n]

LEMMA KidsFacts ==
  ASSUME NEW d \in Links, Agree(d), NoCircle(d.next), NEW n \in Node, NEW s, s = Kids(d, n)
  PROVE  /\ s \in Seq(Node) /\ Len(s) \in Nat /\ DOMAIN s = 1..Len(s) /\ IsInjective(s)
         /\ At(s, 1) = d.first[n] /\ ToSet(s) = {x \in Node : d.parent[x] = n}
         /\ \A j \in 1..Len(s) : s[j] \in Node /\ d.parent[s[j]] = n /\ d.next[s[j]] = At(s, j + 1)
<1>1. Chain(d, d.first[n], s) /\ s \in Seq(Node) /\ IsInjective(s) /\ ToSet(s) = {x \in Node : d.parent[x] = n}
  BY KidsChain, KidsAre
<1>2. \A j \in 1..Len(s) : s[j] \in ToSet(s)
  BY <1>1 DEF ToSet
<1> QED BY <1>1, <1>2, SeqIs DEF Chain

LEMMA InsertedNoCircle ==
  ASSUME NEW d \in Links, Agree(d), NoCircle(d.next), NEW c \in Node, d.parent[c] = None,
         NEW p \in Node, p # c, NEW k \in 0..Len(Kids(d, p)), NEW e \in Links, InsertedAt(d, e, p, k, c)
  PROVE  NoCircle(e.next)
<1> SUFFICES ASSUME NEW S \in SUBSET Node, S # {} PROVE \E x \in S : e.next[x] \notin S
  BY DEF NoCircle
<1> DEFINE s == Kids(d, p)
           b == At(s, k + 1)
<1>1. /\ Len(s) \in Nat /\ DOMAIN s = 1..Len(s) /\ k \in 0..Len(s)
      /\ \A j \in 1..Len(s) : s[j] \in Node /\ d.parent[s[j]] = p /\ d.next[s[j]] = At(s, j + 1)
  BY KidsFacts
<1>2. \A n \in Node : e.next[n] = IF n = c THEN b ELSE IF k # 0 /\ n = s[k] THEN c ELSE d.next[n]
  BY DEF InsertedAt
<1>3. None \notin Node /\ \A x \in Node : AgreeAt(d, x) /\ d.next[x] \in Node \cup {None}
  BY NullAssumption DEF Agree, Links, Pointers
<1> HIDE DEF s
<1>4. b # c
  <2>1. CASE k + 1 \in 1..Len(s)
    BY <1>1, <1>3, <2>1 DEF At
  <2>2. CASE k + 1 \notin 1..Len(s)
    BY <1>1, <1>3, <2>2 DEF At
  <2> QED BY <2>1, <2>2
<1>5. k # 0 => d.next[s[k]] = b
  BY <1>1
<1> HIDE DEF b
<1>6. CASE c \notin S
  <2>1. PICK x \in S : d.next[x] \notin S
    BY DEF NoCircle
  <2> QED BY <1>2, <1>6, <2>1
<1>7. CASE c \in S /\ b \notin S
  BY <1>2, <1>7
<1>8. CASE c \in S /\ b \in S
  <2>1. PICK x \in S \ {c} : d.next[x] \notin S \ {c}
    BY <1>4, <1>8 DEF NoCircle
  <2>2. d.next[x] # c
    BY <1>3, <2>1 DEF AgreeAt
  <2> QED BY <1>2, <1>4, <1>5, <1>8, <2>1, <2>2
<1> QED BY <1>6, <1>7, <1>8

LEMMA InsertedKids ==
  ASSUME NEW d \in Links, Agree(d), NoCircle(d.next), NEW c \in Node, d.parent[c] = None,
         NEW p \in Node, p # c, NEW k \in 0..Len(Kids(d, p)), NEW e \in Links, InsertedAt(d, e, p, k, c),
         NEW n \in Node
  PROVE  Kids(e, n) = IF n = p THEN Forest!InsertAt(Kids(d, p), k + 1, c) ELSE Kids(d, n)
<1> DEFINE s == Kids(d, p)
<1>1. /\ s \in Seq(Node) /\ Len(s) \in Nat /\ DOMAIN s = 1..Len(s) /\ IsInjective(s)
      /\ At(s, 1) = d.first[p] /\ k \in 0..Len(s)
      /\ \A j \in 1..Len(s) : s[j] \in Node /\ d.parent[s[j]] = p /\ d.next[s[j]] = At(s, j + 1)
  BY KidsFacts
<1>2. \A x \in Node : /\ e.next[x] = IF x = c THEN At(s, k + 1) ELSE IF k # 0 /\ x = s[k] THEN c ELSE d.next[x]
                      /\ e.first[x] = IF x = p /\ k = 0 THEN c ELSE d.first[x]
  BY DEF InsertedAt
<1>3. None \notin Node
  BY NullAssumption
<1>4. NoCircle(e.next)
  BY InsertedNoCircle
<1>5. CASE n # p
  <2> DEFINE t == Kids(d, n)
  <2>1. /\ t \in Seq(Node) /\ Len(t) \in Nat /\ DOMAIN t = 1..Len(t)
        /\ At(t, 1) = d.first[n]
        /\ \A j \in 1..Len(t) : t[j] \in Node /\ d.parent[t[j]] = n /\ d.next[t[j]] = At(t, j + 1)
    BY KidsFacts
  <2> HIDE DEF s, t
  <2>2. \A j \in 1..Len(t) : t[j] # c /\ ~ (k # 0 /\ t[j] = s[k])
    BY <1>1, <1>3, <1>5, <2>1
  <2>3. \A j \in 1..Len(t) : e.next[t[j]] = At(t, j + 1)
    BY <1>2, <2>1, <2>2
  <2>4. Chain(e, e.first[n], t)
    BY <1>2, <1>5, <2>1, <2>3 DEF Chain
  <2> QED BY <1>4, <1>5, <2>4, KidsChain DEF t
<1>6. CASE n = p
  <2> DEFINE t == Forest!InsertAt(s, k + 1, c)
             l == Len(s)
  <2>1. /\ t \in Seq(Node) /\ Len(t) = l + 1
        /\ \A j \in 1..(l + 1) : t[j] = IF j <= k THEN s[j] ELSE IF j = k + 1 THEN c ELSE s[j - 1]
    BY <1>1, InsertAtIs
  <2> HIDE DEF s, t, l
  <2>2. l \in Nat /\ k \in Nat /\ k <= l /\ DOMAIN t = 1..(l + 1) /\ DOMAIN s = 1..l
    BY <1>1, <2>1 DEF l
  <2>3. \A j \in Nat \ {0} : /\ j <= k => At(t, j) = At(s, j)
                             /\ j = k + 1 => At(t, j) = c
                             /\ j > k + 1 => At(t, j) = At(s, j - 1)
    BY <2>1, <2>2 DEF At
  <2>4. \A j \in 1..l : s[j] \in Node /\ s[j] # c /\ d.next[s[j]] = At(s, j + 1)
    BY <1>1, <1>3 DEF l
  <2>5. \A i, j \in 1..l : s[i] = s[j] => i = j
    BY <1>1, <2>2 DEF IsInjective
  <2>6. At(t, 1) = e.first[n]
    BY <1>1, <1>2, <1>6, <2>2, <2>3
  <2>7. ASSUME NEW j \in 1..(l + 1) PROVE e.next[t[j]] = At(t, j + 1)
    <3>1. j \in Nat \ {0} /\ j + 1 \in Nat \ {0} /\ (j + 1) - 1 = j
      BY <2>2
    <3>2. CASE j < k
      <4>1. j \in 1..l /\ k \in 1..l /\ j # k /\ j <= k /\ j + 1 <= k
        BY <2>2, <3>2
      <4>2. t[j] = s[j] /\ s[j] # s[k]
        BY <2>1, <2>5, <4>1
      <4>3. e.next[s[j]] = At(s, j + 1)
        BY <1>2, <2>4, <4>1, <4>2
      <4> QED BY <2>3, <3>1, <4>1, <4>2, <4>3
    <3>3. CASE j = k
      <4>1. j \in 1..l /\ k # 0 /\ j <= k
        BY <2>2, <3>3
      <4>2. t[j] = s[k]
        BY <2>1, <3>3, <4>1
      <4>3. e.next[s[k]] = c
        BY <1>2, <2>4, <3>3, <4>1
      <4> QED BY <2>3, <3>1, <3>3, <4>2, <4>3
    <3>4. CASE j = k + 1
      <4>1. t[j] = c /\ ~ j <= k
        BY <2>1, <2>2, <3>4
      <4>2. e.next[c] = At(s, j)
        BY <1>2, <3>4
      <4>3. j + 1 > k + 1
        BY <2>2, <3>4
      <4> QED BY <2>3, <3>1, <4>1, <4>2, <4>3
    <3>5. CASE j > k + 1
      <4>1. j - 1 \in 1..l /\ j - 1 # k /\ (j - 1) + 1 = j /\ ~ j <= k /\ j # k + 1 /\ j + 1 > k + 1
        BY <2>2, <3>5
      <4>2. t[j] = s[j - 1]
        BY <2>1, <4>1
      <4>3. k # 0 => k \in 1..l
        BY <2>2
      <4>4. ~ (k # 0 /\ s[j - 1] = s[k])
        BY <2>5, <4>1, <4>3
      <4>5. e.next[s[j - 1]] = At(s, (j - 1) + 1)
        BY <1>2, <2>4, <4>1, <4>4
      <4> QED BY <2>3, <3>1, <4>1, <4>2, <4>5
    <3> QED BY <2>2, <3>1, <3>2, <3>3, <3>4, <3>5
  <2>8. Chain(e, e.first[n], t)
    BY <2>1, <2>6, <2>7 DEF Chain
  <2> QED BY <1>4, <1>6, <2>8, KidsChain DEF t, s
<1> QED BY <1>5, <1>6

LEMMA EndInserts ==
  ASSUME NEW d \in Links, Agree(d), NoCircle(d.next), NEW c \in Node, d.parent[c] = None,
         NEW p \in Node, p # c, NEW e \in Links, PutAtEnd(d, e, p, c)
  PROVE  InsertedAt(d, e, p, Len(Kids(d, p)), c)
<1> DEFINE s == Kids(d, p)
           k == Len(s)
<1>1. /\ s \in Seq(Node) /\ k \in Nat /\ DOMAIN s = 1..k /\ At(s, 1) = d.first[p]
      /\ \A j \in 1..k : s[j] \in Node /\ d.parent[s[j]] = p /\ d.next[s[j]] = At(s, j + 1)
  BY KidsFacts
<1>2. AgreeAt(d, p) /\ None \notin Node
  BY NullAssumption DEF Agree
<1> HIDE DEF s, k
<1>3. At(s, k + 1) = None
  BY <1>1 DEF At
<1>4. CASE k = 0
  <2>1. d.last[p] = None
    BY <1>1, <1>2, <1>4 DEF At, AgreeAt
  <2> QED BY <1>2, <1>3, <1>4, <2>1 DEF PutAtEnd, InsertedAt, s, k
<1>5. CASE k # 0
  <2>1. k \in 1..k
    BY <1>1, <1>5
  <2>2. s[k] \in Node /\ d.parent[s[k]] = p /\ d.next[s[k]] = None
    BY <1>1, <1>3, <2>1
  <2>3. d.last[p] = s[k]
    BY <1>2, <2>2 DEF Agree, AgreeAt
  <2> QED BY <1>2, <1>3, <1>5, <2>2, <2>3 DEF PutAtEnd, InsertedAt, s, k
<1> QED BY <1>4, <1>5

LEMMA FrontInserts ==
  ASSUME NEW d \in Links, Agree(d), NoCircle(d.next), NEW c \in Node, d.parent[c] = None,
         NEW p \in Node, p # c, NEW e \in Links, PutAtFront(d, e, p, c)
  PROVE  InsertedAt(d, e, p, 0, c)
<1>1. At(Kids(d, p), 0 + 1) = d.first[p]
  BY KidsFacts
<1> QED BY <1>1 DEF PutAtFront, InsertedAt

LEMMA AfterInserts ==
  ASSUME NEW d \in Links, Agree(d), NoCircle(d.next), NEW c \in Node, d.parent[c] = None,
         NEW a \in Node, a # c, NEW p \in Node, d.parent[a] = p, NEW e \in Links, PutAfter(d, e, a, c)
  PROVE  \E k \in 0..Len(Kids(d, p)) : InsertedAt(d, e, p, k, c)
<1> DEFINE s == Kids(d, p)
<1>1. /\ Len(s) \in Nat /\ DOMAIN s = 1..Len(s) /\ ToSet(s) = {x \in Node : d.parent[x] = p}
      /\ \A j \in 1..Len(s) : s[j] \in Node /\ d.next[s[j]] = At(s, j + 1)
  BY KidsFacts
<1>2. PICK k \in 1..Len(s) : s[k] = a
  BY <1>1 DEF ToSet
<1>3. k \in 0..Len(s) /\ k # 0 /\ d.next[a] = At(s, k + 1)
  BY <1>1, <1>2
<1>4. InsertedAt(d, e, p, k, c)
  BY <1>2, <1>3 DEF PutAfter, InsertedAt
<1> QED BY <1>3, <1>4

-----------------------------------------------------------------------------
(* The nodes on the way up from n, as the least set closed upwards.         *)
UpClosed(d, S) == \A x \in S : d.parent[x] # None => d.parent[x] \in S

Anc(d, n) == {m \in Node : \A S \in SUBSET Node : n \in S /\ UpClosed(d, S) => m \in S}

LEMMA AncLeast ==
  ASSUME NEW d \in Links, NEW n \in Node
  PROVE  /\ n \in Anc(d, n) /\ Anc(d, n) \subseteq Node /\ UpClosed(d, Anc(d, n))
         /\ \A S \in SUBSET Node : n \in S /\ UpClosed(d, S) => Anc(d, n) \subseteq S
<1>1. \A x \in Node : d.parent[x] \in Node \cup {None}
  BY DEF Links, Pointers
<1> QED BY <1>1 DEF Anc, UpClosed

LEMMA AncIs ==
  ASSUME NEW d \in Links, NEW n \in Node
  PROVE  Anc(d, n) = {n} \cup (IF d.parent[n] = None THEN {} ELSE Anc(d, d.parent[n]))
<1>1. d.parent[n] \in Node \cup {None}
  BY DEF Links, Pointers
<1>2. CASE d.parent[n] = None
  <2>1. UpClosed(d, {n})
    BY <1>2 DEF UpClosed
  <2>2. n \in Anc(d, n) /\ Anc(d, n) \subseteq {n}
    BY <2>1, AncLeast
  <2> QED BY <1>2, <2>2
<1>3. CASE d.parent[n] # None
  <2> DEFINE q == d.parent[n]
  <2>1. q \in Node
    BY <1>1, <1>3
  <2>2. q \in Anc(d, q) /\ Anc(d, q) \subseteq Node /\ UpClosed(d, Anc(d, q))
    BY <2>1, AncLeast
  <2>3. UpClosed(d, {n} \cup Anc(d, q))
    BY <2>2 DEF UpClosed
  <2>4. Anc(d, n) \subseteq {n} \cup Anc(d, q)
    BY <2>2, <2>3, AncLeast
  <2>5. n \in Anc(d, n) /\ Anc(d, n) \subseteq Node /\ UpClosed(d, Anc(d, n))
    BY AncLeast
  <2>6. q \in Anc(d, n)
    BY <1>3, <2>5 DEF UpClosed
  <2>7. Anc(d, q) \subseteq Anc(d, n)
    BY <2>1, <2>5, <2>6, AncLeast
  <2> QED BY <1>3, <2>4, <2>5, <2>7
<1> QED BY <1>2, <1>3

LEMMA AncTrans ==
  ASSUME NEW d \in Links, NEW n \in Node, NEW m \in Anc(d, n)
  PROVE  Anc(d, m) \subseteq Anc(d, n)
<1>1. m \in Node /\ Anc(d, n) \subseteq Node /\ UpClosed(d, Anc(d, n))
  BY AncLeast
<1> QED BY <1>1, AncLeast

(* Who has a common descendant with a root is below that root. *)
LEMMA RootAbove ==
  ASSUME NEW d \in Links, NoCircle(d.parent), NEW m \in Node, NEW r \in Anc(d, m), d.parent[r] = None,
         NEW f \in Anc(d, m)
  PROVE  r \in Anc(d, f)
<1> DEFINE S == {x \in Node : r \in Anc(d, x) /\ f \in Anc(d, x) /\ r \notin Anc(d, f)}
<1> SUFFICES ASSUME S # {} PROVE FALSE
  OBVIOUS
<1>1. PICK x \in S : d.parent[x] \notin S
  BY DEF NoCircle
<1>2. Anc(d, x) = {x} \cup (IF d.parent[x] = None THEN {} ELSE Anc(d, d.parent[x]))
  BY <1>1, AncIs
<1>3. d.parent[x] \in Node \cup {None}
  BY <1>1 DEF Links, Pointers
<1>4. x # f
  BY <1>1
<1>5. d.parent[x] # None /\ f \in Anc(d, d.parent[x])
  BY <1>1, <1>2, <1>4
<1>6. r \in Anc(d, d.parent[x])
  BY <1>1, <1>2, <1>5
<1> QED BY <1>1, <1>3, <1>5, <1>6

LEMMA AncestorsAre ==
  links \in Links /\ NoCircle(links.parent) => \A n \in Node : Ancestors(n) = Anc(links, n)
<1> SUFFICES ASSUME links \in Links, NoCircle(links.parent), NEW n \in Node
             PROVE  Ancestors(n) = Anc(links, n)
  OBVIOUS
<1> DEFINE f == [m \in Node \cup {None} |-> IF m = None THEN {} ELSE Anc(links, m)]
<1>1. None \notin Node /\ \A m \in Node : links.parent[m] \in Node \cup {None}
  BY NullAssumption DEF Links, Pointers
<1>2. f = [m \in Node \cup {None} |-> IF m = None THEN {} ELSE {m} \cup f[links.parent[m]]]
  <2>1. ASSUME NEW m \in Node PROVE f[m] = {m} \cup f[links.parent[m]]
    <3>1. f[m] = Anc(links, m) /\ f[None] = {}
      BY <1>1
    <3>2. links.parent[m] # None => f[links.parent[m]] = Anc(links, links.parent[m])
      BY <1>1
    <3>3. Anc(links, m) = {m} \cup (IF links.parent[m] = None THEN {} ELSE Anc(links, links.parent[m]))
      BY AncIs
    <3> HIDE DEF f
    <3> QED BY <3>1, <3>2, <3>3
  <2>2. f[None] = {} /\ f = [m \in Node \cup {None} |-> f[m]]
    OBVIOUS
  <2> HIDE DEF f
  <2>3. \A m \in Node \cup {None} : f[m] = IF m = None THEN {} ELSE {m} \cup f[links.parent[m]]
    BY <1>1, <2>1, <2>2
  <2> QED BY <2>2, <2>3
<1> HIDE DEF f
<1>3. PICK g : /\ g = [m \in Node \cup {None} |-> IF m = None THEN {} ELSE {m} \cup g[links.parent[m]]]
               /\ Ancestors(n) = g[n]
  BY <1>2 DEF Ancestors
<1>4. g[None] = {} /\ \A m \in Node : g[m] = {m} \cup g[links.parent[m]]
  BY <1>1, <1>3
<1> DEFINE S == {x \in Node : g[x] # Anc(links, x)}
<1>5. S = {}
  <2> SUFFICES ASSUME S # {} PROVE FALSE
    OBVIOUS
  <2>1. PICK x \in S : links.parent[x] \notin S
    BY DEF NoCircle
  <2>2. Anc(links, x) = {x} \cup (IF links.parent[x] = None THEN {} ELSE Anc(links, links.parent[x]))
    BY <2>1, AncIs
  <2> QED BY <1>1, <1>4, <2>1, <2>2
<1> QED BY <1>3, <1>5

(* No circle comes of putting a node below one it is not above. *)
LEMMA PutNoCircle ==
  ASSUME NEW d \in Links, NoCircle(d.parent), NEW c \in Node, NEW p \in Node, c \notin Anc(d, p),
         NEW e \in Links, \A n \in Node : e.parent[n] = IF n = c THEN p ELSE d.parent[n]
  PROVE  NoCircle(e.parent)
<1> SUFFICES ASSUME NEW S \in SUBSET Node, S # {} PROVE \E x \in S : e.parent[x] \notin S
  BY DEF NoCircle
<1> DEFINE T == Anc(d, p)
<1>1. p \in T /\ T \subseteq Node /\ UpClosed(d, T) /\ c \notin T /\ None \notin Node
  BY AncLeast, NullAssumption
<1> HIDE DEF T
<1>2. CASE S \cap T # {}
  <2>1. PICK x \in S \cap T : d.parent[x] \notin S \cap T
    BY <1>2 DEF NoCircle
  <2>2. x # c /\ d.parent[x] \notin S
    BY <1>1, <2>1 DEF UpClosed
  <2> QED BY <2>1, <2>2
<1>3. CASE S \cap T = {}
  <2>1. PICK x \in S : d.parent[x] \notin S
    BY DEF NoCircle
  <2>2. p \notin S
    BY <1>1, <1>3
  <2> QED BY <2>1, <2>2
<1> QED BY <1>2, <1>3

-----------------------------------------------------------------------------
(* The nodes of the forest: those below the document or below a node that   *)
(* was not inserted.                                                        *)
KeptOf(d, live, u) == {n \in live \cup {Doc} : Anc(d, n) \cap ({Doc} \cup u) # {}}

LEMMA KeptClosed ==
  ASSUME NEW d \in Links, Agree(d), NoCircle(d.next), NEW live \in SUBSET Node, FreeApart(live, d), NEW u \in SUBSET live,
         \A r \in u : d.parent[r] = None, NEW n \in KeptOf(d, live, u)
  PROVE  /\ n \in Node
         /\ \A y \in Node : d.parent[y] = n => y \in KeptOf(d, live, u)
         /\ d.parent[n] # None => d.parent[n] \in KeptOf(d, live, u)
<1>1. Doc \in Node /\ None \notin Node /\ n \in Node /\ d.parent[n] \in Node \cup {None} /\ d.parent[Doc] = None
  BY LiveNodes, NullAssumption DEF KeptOf, Links, Pointers, FreeApart
<1>2. PICK r \in Anc(d, n) : r \in {Doc} \cup u
  BY DEF KeptOf
<1>3. ASSUME NEW y \in Node, d.parent[y] = n PROVE y \in KeptOf(d, live, u)
  <2>1. y \in live
    BY <1>1, <1>3 DEF FreeApart
  <2>2. Anc(d, y) = {y} \cup Anc(d, n)
    BY <1>1, <1>3, AncIs
  <2> QED BY <1>2, <2>1, <2>2 DEF KeptOf
<1>4. ASSUME d.parent[n] # None PROVE d.parent[n] \in KeptOf(d, live, u)
  <2> DEFINE q == d.parent[n]
  <2>1. q \in Node
    BY <1>1, <1>4
  <2>2. d.first[q] # None
    BY <1>1, <1>4, ParentHasChild
  <2>3. q \in live \cup {Doc}
    BY <2>1, <2>2 DEF FreeApart
  <2>4. Anc(d, n) = {n} \cup Anc(d, q)
    BY <1>1, <1>4, AncIs
  <2>5. r # n
    BY <1>1, <1>2, <1>4
  <2> QED BY <1>2, <2>3, <2>4, <2>5 DEF KeptOf
<1> QED BY <1>1, <1>3, <1>4

LEMMA CutKept ==
  ASSUME NEW d \in Links, NEW live \in SUBSET Node, NEW u \in SUBSET live,
         \A r \in u \cup {Doc} : d.parent[r] = None, NEW x \in live, x # Doc,
         NEW e \in Links, \A n \in Node : e.parent[n] = IF n = x THEN None ELSE d.parent[n]
  PROVE  KeptOf(e, live, u \ {x}) = {m \in KeptOf(d, live, u) : x \notin Anc(d, m)}
<1>1. Doc \in Node /\ None \notin Node /\ x \in Node
  BY LiveNodes, NullAssumption
<1>2. ASSUME NEW m \in live \cup {Doc}, x \in Anc(d, m) PROVE Anc(e, m) \cap ({Doc} \cup (u \ {x})) = {}
  <2> DEFINE S == {y \in Node : x \in Anc(d, y)}
  <2>1. UpClosed(e, S)
    <3> SUFFICES ASSUME NEW y \in S, e.parent[y] # None PROVE e.parent[y] \in S
      BY DEF UpClosed
    <3>1. y # x /\ e.parent[y] = d.parent[y] /\ d.parent[y] \in Node
      BY DEF Links, Pointers
    <3>2. Anc(d, y) = {y} \cup Anc(d, d.parent[y])
      BY <3>1, AncIs
    <3> QED BY <3>1, <3>2
  <2>2. Anc(e, m) \subseteq S
    <3>1. m \in S
      BY <1>1, <1>2
    <3> HIDE DEF S
    <3>2. S \subseteq Node
      BY DEF S
    <3> QED BY <1>1, <2>1, <3>1, <3>2, AncLeast
  <2>3. ASSUME NEW r \in {Doc} \cup (u \ {x}), r \in S PROVE FALSE
    <3>1. Anc(d, r) = {r}
      BY <2>3, AncIs
    <3> QED BY <2>3, <3>1
  <2> QED BY <2>2, <2>3
<1>3. ASSUME NEW m \in live \cup {Doc}, x \notin Anc(d, m) PROVE Anc(e, m) = Anc(d, m)
  <2>1. /\ m \in Node
        /\ m \in Anc(d, m) /\ Anc(d, m) \subseteq Node /\ UpClosed(d, Anc(d, m))
        /\ m \in Anc(e, m) /\ Anc(e, m) \subseteq Node /\ UpClosed(e, Anc(e, m))
    BY <1>1, AncLeast
  <2>2. UpClosed(e, Anc(d, m))
    BY <1>3, <2>1 DEF UpClosed
  <2>3. UpClosed(d, Anc(e, m) \cap Anc(d, m))
    BY <1>3, <2>1 DEF UpClosed
  <2>4. Anc(e, m) \subseteq Anc(d, m)
    BY <2>1, <2>2, AncLeast
  <2>5. Anc(d, m) \subseteq Anc(e, m) \cap Anc(d, m)
    <3>1. Anc(e, m) \cap Anc(d, m) \in SUBSET Node /\ m \in Anc(e, m) \cap Anc(d, m)
      BY <2>1
    <3> QED BY <2>1, <2>3, <3>1, AncLeast
  <2> QED BY <2>4, <2>5
<1>4. \A m \in live \cup {Doc} : x \notin Anc(d, m) =>
        (Anc(e, m) \cap ({Doc} \cup (u \ {x})) # {} <=> Anc(d, m) \cap ({Doc} \cup u) # {})
  BY <1>3
<1> QED BY <1>2, <1>4 DEF KeptOf

-----------------------------------------------------------------------------
(* The inductive invariant of the refinement, and what it makes of the      *)
(* mapping: nodes with their chains.                                        *)
FInv == IInv /\ NoCircle(links.next) /\ NoCircle(links.parent)

Tree(d, kept) == [n \in kept |-> Kids(d, n)]

(* What is below n in the forest is what n is above of. *)
BelowIn(kids, n) ==
  LET closed == {S \in SUBSET DOMAIN kids : \A m \in S : Forest!ToSet(kids[m]) \subseteq S}
  IN {m \in DOMAIN kids : \A S \in closed : n \in S => m \in S}

LEMMA BelowIs ==
  ASSUME NEW d \in Links, Agree(d), NoCircle(d.next), NoCircle(d.parent), NEW kept \in SUBSET Node,
         \A m \in kept, y \in Node : d.parent[y] = m => y \in kept,
         \A m \in kept : d.parent[m] # None => d.parent[m] \in kept,
         NEW n \in kept
  PROVE  BelowIn(Tree(d, kept), n) = {m \in kept : n \in Anc(d, m)}
<1> DEFINE kids == Tree(d, kept)
           closed == {S \in SUBSET DOMAIN kids : \A m \in S : Forest!ToSet(kids[m]) \subseteq S}
           B == {m \in kept : n \in Anc(d, m)}
<1>1. DOMAIN kids = kept /\ \A m \in kept : Forest!ToSet(kids[m]) = {y \in Node : d.parent[y] = m}
  BY KidsAre DEF Tree, Forest!ToSet, ToSet
<1> HIDE DEF kids
<1>2. B \in closed /\ n \in B
  <2>1. n \in Anc(d, n)
    BY AncLeast
  <2>2. ASSUME NEW m \in B, NEW y \in Node, d.parent[y] = m PROVE y \in B
    <3>1. m # None /\ m \in Node
      BY NullAssumption
    <3>2. Anc(d, y) = {y} \cup Anc(d, m)
      BY <2>2, <3>1, AncIs
    <3> QED BY <2>2, <3>2
  <2> QED BY <1>1, <2>1, <2>2
<1>3. ASSUME NEW S \in closed, n \in S PROVE B \subseteq S
  <2> DEFINE W == B \ S
  <2> SUFFICES ASSUME W # {} PROVE FALSE
    OBVIOUS
  <2>1. PICK x \in W : d.parent[x] \notin W
    BY DEF NoCircle
  <2>2. x \in Node /\ x # n /\ n \in Anc(d, x) /\ x \in kept
    BY <1>3, <2>1
  <2>3. Anc(d, x) = {x} \cup (IF d.parent[x] = None THEN {} ELSE Anc(d, d.parent[x]))
    BY <2>2, AncIs
  <2>4. d.parent[x] # None /\ n \in Anc(d, d.parent[x])
    BY <2>2, <2>3
  <2>5. d.parent[x] \in kept
    BY <2>2, <2>4
  <2>6. d.parent[x] \in S
    BY <2>1, <2>4, <2>5
  <2>7. x \in Forest!ToSet(kids[d.parent[x]])
    BY <1>1, <2>2, <2>5
  <2> QED BY <2>1, <2>6, <2>7
<1>4. {m \in kept : \A S \in closed : n \in S => m \in S} = B
  <2> HIDE DEF closed, B
  <2>1. B \subseteq kept
    BY DEF B
  <2> QED BY <1>2, <1>3, <2>1
<1> QED BY <1>1, <1>4 DEF kids, BelowIn

(* The nodes of the forest, and their children. *)
LEMMA MappingIs ==
  FInv => /\ links \in Links
          /\ Kept = KeptOf(links, Live, ToSet(_unlinked))
          /\ [n \in Kept |-> ChildrenOf(n)] = Tree(links, Kept)
          /\ Kept \subseteq Node
<1> SUFFICES ASSUME FInv
             PROVE  /\ links \in Links
                    /\ Kept = KeptOf(links, Live, ToSet(_unlinked))
                    /\ [n \in Kept |-> ChildrenOf(n)] = Tree(links, Kept)
                    /\ Kept \subseteq Node
  OBVIOUS
<1>1. links \in Links /\ NoCircle(links.next) /\ NoCircle(links.parent)
  BY DEF FInv, IInv, DomTypeOK, Links
<1>2. Live \cup {Doc} \subseteq Node
  BY LiveNodes
<1>3. Kept = KeptOf(links, Live, ToSet(_unlinked))
  BY <1>1, <1>2, AncestorsAre DEF Kept, KeptOf
<1>4. Kept \subseteq Node
  BY <1>2 DEF Kept
<1>5. [n \in Kept |-> ChildrenOf(n)] = Tree(links, Kept)
  BY <1>1, <1>4, ChildrenAre DEF Tree
<1> QED BY <1>1, <1>3, <1>4, <1>5

LEMMA KeptIs ==
  ASSUME FInv
  PROVE  /\ links \in Links /\ Agree(links) /\ NoCircle(links.next) /\ NoCircle(links.parent)
         /\ Live \in SUBSET Node /\ FreeApart(Live, links)
         /\ ToSet(_unlinked) \in SUBSET Live
         /\ \A r \in ToSet(_unlinked) \cup {Doc} : links.parent[r] = None
         /\ \A m \in Kept : /\ m \in Node
                            /\ \A y \in Node : links.parent[y] = m => y \in Kept
                            /\ links.parent[m] # None => links.parent[m] \in Kept
         /\ Doc \in Kept
<1>1. /\ links \in Links /\ Agree(links) /\ NoCircle(links.next) /\ NoCircle(links.parent)
      /\ Live \in SUBSET Node /\ FreeApart(Live, links)
      /\ ToSet(_unlinked) \in SUBSET Live /\ Doc \in Node
      /\ \A r \in ToSet(_unlinked) \cup {Doc} : links.parent[r] = None
  BY LiveNodes DEF FInv, IInv, DomTypeOK, Links, Placed, FreeApart
<1>2. Kept = KeptOf(links, Live, ToSet(_unlinked))
  BY MappingIs
<1>3. Doc \in Anc(links, Doc)
  BY <1>1, AncLeast
<1>4. Doc \in Kept
  BY <1>2, <1>3 DEF KeptOf
<1>5. ASSUME NEW m \in Kept
      PROVE  /\ m \in Node
             /\ \A y \in Node : links.parent[y] = m => y \in Kept
             /\ links.parent[m] # None => links.parent[m] \in Kept
  BY <1>1, <1>2, KeptClosed
<1> QED BY <1>1, <1>4, <1>5

LEMMA ForestBelowIs ==
  ASSUME FInv, NEW n \in Kept
  PROVE  Forest!Below(n) = {m \in Kept : n \in Anc(links, m)}
<1>1. /\ links \in Links /\ Agree(links) /\ NoCircle(links.next) /\ NoCircle(links.parent)
      /\ Kept \in SUBSET Node
      /\ \A m \in Kept, y \in Node : links.parent[y] = m => y \in Kept
      /\ \A m \in Kept : links.parent[m] # None => links.parent[m] \in Kept
  BY KeptIs
<1>2. BelowIn(Tree(links, Kept), n) = {m \in Kept : n \in Anc(links, m)}
  BY <1>1, BelowIs
<1> DEFINE kids == [m \in Kept |-> ChildrenOf(m)]
<1>3. Forest!Below(n) = BelowIn(kids, n)
  BY DEF Forest!Below, BelowIn
<1>4. kids = Tree(links, Kept)
  BY MappingIs
<1> QED BY <1>2, <1>3, <1>4

(* When no destructor runs, all nodes that live are in it. *)
LEMMA AllKept == FInv /\ doomed = <<>> => Kept = Live \cup {Doc}
<1> SUFFICES ASSUME FInv, doomed = <<>> PROVE Kept = Live \cup {Doc}
  OBVIOUS
<1>1. /\ links \in Links /\ Agree(links) /\ NoCircle(links.next) /\ NoCircle(links.parent)
      /\ Live \in SUBSET Node /\ FreeApart(Live, links) /\ Doc \in Node
      /\ \A n \in Live : links.parent[n] = None <=> n \in ToSet(_unlinked)
      /\ Kept = KeptOf(links, Live, ToSet(_unlinked))
  <2>1. ToSet(doomed) = {}
    BY DEF ToSet
  <2> QED BY <2>1, KeptIs, MappingIs, LiveNodes DEF FInv, IInv, Placed
<1> DEFINE W == (Live \cup {Doc}) \ Kept
<1>2. W = {}
  <2> SUFFICES ASSUME W # {} PROVE FALSE
    OBVIOUS
  <2>0. W \in SUBSET Node
    BY <1>1
  <2>1. PICK x \in W : links.parent[x] \notin W
    <3> HIDE DEF W
    <3> QED BY <1>1, <2>0 DEF NoCircle
  <2>2. x \in Live /\ x \in Node
    BY <1>1, <2>1, KeptIs
  <2>3. Anc(links, x) = {x} \cup (IF links.parent[x] = None THEN {} ELSE Anc(links, links.parent[x]))
    BY <1>1, <2>2, AncIs
  <2>4. CASE links.parent[x] = None
    <3>1. x \in ToSet(_unlinked)
      BY <1>1, <2>2, <2>4
    <3> QED BY <1>1, <2>1, <2>2, <2>3, <3>1 DEF KeptOf
  <2>5. CASE links.parent[x] # None
    <3> DEFINE q == links.parent[x]
    <3>1. q \in Node
      BY <1>1, <2>2, <2>5 DEF Links, Pointers
    <3>2. q \in Live \cup {Doc}
      BY <1>1, <2>2, <2>5, <3>1, ParentHasChild DEF FreeApart
    <3>3. q \in Kept
      BY <2>1, <3>2
    <3>4. x \in Kept
      BY <2>2, <3>3, KeptIs
    <3> QED BY <2>1, <3>4
  <2> QED BY <2>4, <2>5
<1> QED BY <1>1, <1>2 DEF KeptOf

-----------------------------------------------------------------------------
(* Each call is a step of the forest, or none.                              *)
LEMMA KeptMapping ==
  ASSUME FInv, FInv'
  PROVE  /\ [n \in Kept |-> ChildrenOf(n)] = Tree(links, Kept)
         /\ [n \in Kept |-> ChildrenOf(n)]' = Tree(links', Kept')
         /\ Kept' = KeptOf(links', Live', ToSet(_unlinked'))
         /\ Kept' \subseteq Node
<1>1. (FInv => /\ links \in Links
               /\ Kept = KeptOf(links, Live, ToSet(_unlinked))
               /\ [n \in Kept |-> ChildrenOf(n)] = Tree(links, Kept)
               /\ Kept \subseteq Node)'
  BY MappingIs, PTL
<1> QED BY <1>1, MappingIs DEF Tree

LEMMA AllKeptNext ==
  ASSUME FInv', doomed' = <<>>
  PROVE  Kept' = Live' \cup {Doc}
<1>1. (FInv /\ doomed = <<>> => Kept = Live \cup {Doc})'
  BY AllKept, PTL
<1> QED BY <1>1

(* A step that changes no link and no node of the forest is none of it.    *)
LEMMA NothingHappens ==
  ASSUME FInv, FInv', links' = links, Kept' = Kept, ToSet(_unlinked') = ToSet(_unlinked)
  PROVE  UNCHANGED Forest!vars
BY KeptMapping DEF Forest!vars

LEMMA IsMove ==
  ASSUME FInv, FInv', doomed = <<>>, doomed' = <<>>, NEW c \in Live, NEW p \in Live \cup {Doc},
         p # c, c \notin Anc(links, p),
         NEW d \in Links, Agree(d), NoCircle(d.next), d.parent[c] = None,
         \A n \in Node : Kids(d, n) = Forest!Without(Kids(links, n), c),
         NEW k \in 0..Len(Kids(d, p)), InsertedAt(d, links', p, k, c),
         Live' = Live, ToSet(_unlinked') = ToSet(_unlinked) \ {c}
  PROVE  Forest!Next
<1> DEFINE kids == [n \in Kept |-> ChildrenOf(n)]
<1>1. /\ Kept = Live \cup {Doc} /\ Kept' = Kept
      /\ kids = Tree(links, Kept) /\ kids' = Tree(links', Kept)
      /\ Kept \subseteq Node
  BY AllKept, AllKeptNext, KeptMapping, MappingIs
<1>2. c \in Item /\ c \in Kept \ {Doc} /\ p \in Kept /\ c \in Node /\ p \in Node /\ links' \in Links
  BY <1>1, LiveNodes DEF FInv, IInv, DomTypeOK, Links
<1>3. p \notin Forest!Below(c)
  <2>1. Forest!Below(c) = {m \in Kept : c \in Anc(links, m)}
    BY <1>2, ForestBelowIs
  <2> QED BY <2>1
<1> HIDE DEF kids
<1>4. /\ DOMAIN kids = Kept /\ DOMAIN kids' = Kept
      /\ \A m \in Kept : kids[m] = Kids(links, m)
      /\ \A m \in Kept : kids'[m] = IF m = p THEN Forest!InsertAt(Kids(d, p), k + 1, c) ELSE Kids(d, m)
      /\ kids' = [m \in Kept |-> kids'[m]]
  BY <1>1, <1>2, InsertedKids DEF Tree
<1> DEFINE others == [m \in Kept |-> Forest!Without(kids[m], c)]
<1>5. \A m \in Kept : others[m] = Kids(d, m)
  BY <1>1, <1>4
<1>6. kids' = [others EXCEPT ![p] = Forest!InsertAt(others[p], k + 1, c)]
  <2> HIDE DEF others
  <2>1. others = [m \in Kept |-> others[m]]
    BY DEF others
  <2> QED BY <1>2, <1>4, <1>5, <2>1
<1>7. k \in 0..Len(kids[p])
  <2>1. Kids(links, p) \in Seq(Node) /\ IsInjective(Kids(links, p)) /\ Len(Kids(links, p)) \in Nat
    BY <1>2, KeptIs, KidsFacts
  <2>2. CASE c \in ToSet(Kids(links, p))
    <3>1. PICK i \in 1..Len(Kids(links, p)) : Kids(links, p)[i] = c
      BY <2>1, <2>2 DEF ToSet
    <3>2. Len(Kids(d, p)) = Len(Kids(links, p)) - 1
      BY <1>2, <2>1, <3>1, WithoutIs
    <3> QED BY <1>2, <1>4, <2>1, <3>2
  <2>3. CASE c \notin ToSet(Kids(links, p))
    <3>1. Kids(d, p) = Kids(links, p)
      BY <1>2, <2>1, <2>3, WithoutIs
    <3> QED BY <1>2, <1>4, <3>1
  <2> QED BY <2>2, <2>3
<1>8. k <= Len(others[p])
  <2>1. Len(Kids(d, p)) \in Nat
    BY <1>2, KidsFacts
  <2> QED BY <1>2, <1>5, <2>1
<1>9. Forest!Move(p, k, c)
  BY <1>4, <1>6, <1>8 DEF Forest!Move, kids
<1> QED BY <1>2, <1>3, <1>4, <1>7, <1>9 DEF Forest!Next, kids

(* Taking a node from where it is, if it is anywhere.                       *)
LEMMA DetachedIs ==
  ASSUME NEW d \in Links, Agree(d), NoCircle(d.next), NoCircle(d.parent), NEW c \in Node,
         NEW e, e = Detached(d, c)
  PROVE  /\ e \in Links /\ Agree(e) /\ NoCircle(e.next) /\ NoCircle(e.parent)
         /\ \A n \in Node : e.parent[n] = IF n = c THEN None ELSE d.parent[n]
         /\ \A n \in Node : Kids(e, n) = Forest!Without(Kids(d, n), c)
         /\ \A n \in Node : c \notin Anc(d, n) => c \notin Anc(e, n)
<1>1. /\ e \in Links /\ Agree(e) /\ NoCircle(e.next) /\ NoCircle(e.parent)
      /\ \A n \in Node : e.parent[n] = IF n = c THEN None ELSE d.parent[n]
      /\ \A n \in Node : Kids(e, n) = Forest!Without(Kids(d, n), c)
  <2>1. CASE d.parent[c] = None
    <3>1. e = d
      BY <2>1 DEF Detached
    <3>2. ASSUME NEW n \in Node PROVE Kids(d, n) = Forest!Without(Kids(d, n), c)
      <4>1. /\ Kids(d, n) \in Seq(Node) /\ IsInjective(Kids(d, n))
            /\ ToSet(Kids(d, n)) = {x \in Node : d.parent[x] = n}
        BY KidsAre
      <4>2. c \notin ToSet(Kids(d, n))
        BY <2>1, <4>1, NullAssumption
      <4> QED BY <4>1, <4>2, WithoutIs
    <3> QED BY <2>1, <3>1, <3>2
  <2>2. CASE d.parent[c] # None
    <3>1. e = Unlink(d, c)
      BY <2>2 DEF Detached
    <3>2. e \in Links /\ Agree(e) /\ Unlinked(d, e, c)
      <4> DEFINE x == Unlink(d, c)
      <4>1. x \in Links /\ Agree(x)
        BY <2>2, UnlinkAgrees
      <4>2. Unlinked(d, x, c)
        BY <2>2, UnlinkIs
      <4> HIDE DEF x
      <4>3. e = x
        BY <3>1 DEF x
      <4> QED BY <4>1, <4>2, <4>3
    <3>3. NoCircle(e.next) /\ NoCircle(e.parent)
      BY <3>2, UnlinkNoCircle
    <3>4. \A n \in Node : Kids(e, n) = Forest!Without(Kids(d, n), c)
      BY <2>2, <3>2, UnlinkKids
    <3> QED BY <3>2, <3>3, <3>4 DEF Unlinked
  <2> QED BY <2>1, <2>2
<1>2. ASSUME NEW n \in Node, c \notin Anc(d, n) PROVE c \notin Anc(e, n)
  <2>1. n \in Anc(d, n) /\ Anc(d, n) \in SUBSET Node /\ UpClosed(d, Anc(d, n))
    BY AncLeast
  <2>2. UpClosed(e, Anc(d, n))
    BY <1>1, <2>1 DEF UpClosed
  <2>3. Anc(e, n) \subseteq Anc(d, n)
    BY <1>1, <2>1, <2>2, AncLeast
  <2> QED BY <1>2, <2>3
<1> QED BY <1>1, <1>2

(* An insertion moves the node, with all that is below it. *)
LEMMA InsertStep ==
  ASSUME FInv, IInv', doomed = <<>>, NEW c \in Live, NEW p \in Live \cup {Doc}, p # c,
         c \notin Anc(links, p), NEW d, d = Detached(links, c),
         NEW k \in 0..Len(Kids(d, p)), InsertedAt(d, links', p, k, c),
         Live' = Live, _unlinked' = MarkInUse(_unlinked, c), doomed' = doomed
  PROVE  FInv' /\ Forest!Next
<1>1. /\ links \in Links /\ Agree(links) /\ NoCircle(links.next) /\ NoCircle(links.parent)
      /\ c \in Node /\ p \in Node /\ links' \in Links
  BY KeptIs, LiveNodes DEF IInv, DomTypeOK, Links
<1>2. /\ d \in Links /\ Agree(d) /\ NoCircle(d.next) /\ NoCircle(d.parent)
      /\ d.parent[c] = None /\ c \notin Anc(d, p)
      /\ \A n \in Node : Kids(d, n) = Forest!Without(Kids(links, n), c)
  BY <1>1, DetachedIs
<1>3. NoCircle(links'.next)
  BY <1>1, <1>2, InsertedNoCircle
<1>4. \A n \in Node : links'.parent[n] = IF n = c THEN p ELSE d.parent[n]
  BY DEF InsertedAt
<1>5. NoCircle(links'.parent)
  BY <1>1, <1>2, <1>4, PutNoCircle
<1>6. FInv'
  BY <1>3, <1>5 DEF FInv, NoCircle
<1>7. ToSet(_unlinked') = ToSet(_unlinked) \ {c}
  BY MarkInUseRemoves DEF FInv, IInv, DomTypeOK, Placed
<1>8. Forest!Next
  BY <1>1, <1>2, <1>6, <1>7, IsMove
<1> QED BY <1>6, <1>8

LEMMA InsertIs ==
  ASSUME NEW e, NEW c, Insert(e, c)
  PROVE  links' = e /\ _unlinked' = MarkInUse(_unlinked, c) /\ doomed' = doomed /\ Live' = Live
BY DEF Insert, Used, Live

LEMMA EndChildStep ==
  ASSUME FInv, IInv', doomed = <<>>, NEW c \in Live, NEW p \in Live \cup {Doc}, p # c,
         c \notin Anc(links, p), InsertEndChild(p, c)
  PROVE  FInv' /\ Forest!Next
<1> DEFINE d == Detached(links, c)
<1>1. /\ c \in Node /\ p \in Node
      /\ links \in Links /\ Agree(links) /\ NoCircle(links.next) /\ NoCircle(links.parent)
  BY KeptIs, LiveNodes
<1>2. d \in Links /\ Agree(d) /\ NoCircle(d.next) /\ d.parent[c] = None
  BY <1>1, DetachedIs
<1>3. /\ links' = AtEnd(d, p, c) /\ _unlinked' = MarkInUse(_unlinked, c) /\ doomed' = doomed /\ Live' = Live
  BY InsertIs DEF InsertEndChild
<1> HIDE DEF d
<1>4. links' \in Links /\ PutAtEnd(d, links', p, c)
  BY <1>1, <1>2, <1>3, AtEndIs
<1>5. InsertedAt(d, links', p, Len(Kids(d, p)), c)
  BY <1>1, <1>2, <1>4, EndInserts
<1>6. Len(Kids(d, p)) \in Nat
  BY <1>1, <1>2, KidsFacts
<1> QED BY <1>3, <1>5, <1>6, InsertStep DEF d

LEMMA FirstChildStep ==
  ASSUME FInv, IInv', doomed = <<>>, NEW c \in Live, NEW p \in Live \cup {Doc}, p # c,
         c \notin Anc(links, p), InsertFirstChild(p, c)
  PROVE  FInv' /\ Forest!Next
<1> DEFINE d == Detached(links, c)
<1>1. /\ c \in Node /\ p \in Node
      /\ links \in Links /\ Agree(links) /\ NoCircle(links.next) /\ NoCircle(links.parent)
  BY KeptIs, LiveNodes
<1>2. d \in Links /\ Agree(d) /\ NoCircle(d.next) /\ d.parent[c] = None
  BY <1>1, DetachedIs
<1>3. /\ links' = AtFront(d, p, c) /\ _unlinked' = MarkInUse(_unlinked, c) /\ doomed' = doomed /\ Live' = Live
  BY InsertIs DEF InsertFirstChild
<1> HIDE DEF d
<1>4. links' \in Links /\ PutAtFront(d, links', p, c)
  BY <1>1, <1>2, <1>3, AtFrontIs
<1>5. InsertedAt(d, links', p, 0, c)
  BY <1>1, <1>2, <1>4, FrontInserts
<1>6. Len(Kids(d, p)) \in Nat
  BY <1>1, <1>2, KidsFacts
<1> QED BY <1>3, <1>5, <1>6, InsertStep DEF d

LEMMA AfterChildStep ==
  ASSUME FInv, IInv', doomed = <<>>, NEW c \in Live, NEW a \in Live, NEW p \in Live \cup {Doc}, p # c,
         links.parent[a] = p, c \notin Anc(links, p), InsertAfterChild(a, c)
  PROVE  FInv' /\ Forest!Next
<1> DEFINE d == Detached(links, c)
<1>1. /\ c \in Node /\ p \in Node /\ a \in Node
      /\ links \in Links /\ Agree(links) /\ NoCircle(links.next) /\ NoCircle(links.parent)
  BY KeptIs, LiveNodes
<1>2. a # c /\ ~ (links.next[a] = c /\ links.next[c] = None)
  BY DEF InsertAfterChild
<1>3. CASE links.next[a] = None
  BY <1>3, EndChildStep DEF InsertAfterChild
<1>4. CASE links.next[a] # None
  <2>1. d \in Links /\ Agree(d) /\ NoCircle(d.next) /\ d.parent[c] = None /\ d.parent[a] = p
    BY <1>1, <1>2, DetachedIs
  <2>2. d.next[a] # None
    BY <1>1, <1>2, <1>4, DetachedAgrees
  <2>3. /\ links' = After(d, a, c) /\ _unlinked' = MarkInUse(_unlinked, c) /\ doomed' = doomed /\ Live' = Live
    BY <1>4, InsertIs DEF InsertAfterChild
  <2> HIDE DEF d
  <2>4. links' \in Links /\ PutAfter(d, links', a, c)
    BY <1>1, <1>2, <2>1, <2>2, <2>3, AfterIs
  <2>5. PICK k \in 0..Len(Kids(d, p)) : InsertedAt(d, links', p, k, c)
    BY <1>1, <1>2, <2>1, <2>4, AfterInserts
  <2> QED BY <2>3, <2>5, InsertStep DEF d
<1> QED BY <1>3, <1>4

(* A new node is loose, or the text that SetText puts first at once.        *)
LEMMA CreateStep ==
  ASSUME FInv, IInv', doomed = <<>>, NEW k \in Pool, NEW v, CreateUnlinkedNode(k, v)
  PROVE  FInv' /\ Forest!Next
<1> DEFINE n == Head(Available(k))
<1>1. n \in Item /\ n \notin Live /\ Live' = Live \cup {n}
  BY AllocLives DEF CreateUnlinkedNode, FInv, IInv, PoolTypes, DomTypeOK
<1>2. links' = links /\ doomed' = <<>> /\ _unlinked' = Append(_unlinked, n)
  BY DEF CreateUnlinkedNode
<1> HIDE DEF n
<1>3. FInv'
  BY <1>2 DEF FInv, NoCircle
<1>4. ToSet(_unlinked') = ToSet(_unlinked) \cup {n}
  BY <1>1, <1>2, AppendAdds DEF FInv, IInv, DomTypeOK, Placed
<1> DEFINE kids == [m \in Kept |-> ChildrenOf(m)]
<1>5. /\ Kept = Live \cup {Doc} /\ Kept' = Kept \cup {n} /\ Kept \subseteq Node
      /\ kids = Tree(links, Kept) /\ kids' = Tree(links, Kept')
  BY <1>1, <1>2, <1>3, AllKept, AllKeptNext, KeptMapping, MappingIs
<1>6. n \notin Kept /\ n \in Node
  BY <1>1, <1>5, NullAssumption DEF Node
<1>7. Kids(links, n) = <<>>
  <2>1. links.first[n] = None
    BY <1>1, <1>5, <1>6 DEF FInv, IInv, FreeApart
  <2>2. Chain(links, links.first[n], Kids(links, n))
    BY <1>6, KeptIs, KidsChain
  <2> QED BY <2>1, <2>2, ChainNil
<1> HIDE DEF kids
<1>8. DOMAIN kids = Kept /\ kids' = [m \in DOMAIN kids \cup {n} |-> IF m = n THEN <<>> ELSE kids[m]]
  BY <1>5, <1>6, <1>7 DEF Tree
<1>9. Forest!Create(n)
  BY <1>4, <1>8 DEF Forest!Create, kids
<1>10. n \in Item \ DOMAIN kids
  BY <1>1, <1>6, <1>8
<1> QED BY <1>3, <1>9, <1>10 DEF Forest!Next, kids

LEMMA SetTextStep ==
  ASSUME FInv, IInv', doomed = <<>>, NEW n \in Live, NEW t \in Text, SetText(n, t)
  PROVE  FInv' /\ (Forest!Next \/ UNCHANGED Forest!vars)
<1>1. CASE GetText(n) # None
  <2>1. links' = links /\ _unlinked' = _unlinked /\ Live' = Live
    BY <1>1 DEF SetText, pools, Live
  <2>2. FInv'
    BY <2>1 DEF FInv, NoCircle
  <2>3. Kept' = Kept
    BY <2>1, <2>2, KeptMapping, MappingIs
  <2> QED BY <2>1, <2>2, <2>3, NothingHappens
<1>2. CASE GetText(n) = None
  <2> DEFINE c == Head(Available("text"))
  <2>1. c \in Item /\ c \notin Live /\ Live' = Live \cup {c}
    BY <1>2, AllocLives DEF SetText, Pool, FInv, IInv, PoolTypes, DomTypeOK
  <2>2. links' = AtFront(links, n, c) /\ _unlinked' = _unlinked /\ doomed' = <<>>
    BY <1>2 DEF SetText
  <2> HIDE DEF c
  <2>3. /\ links \in Links /\ Agree(links) /\ NoCircle(links.next) /\ NoCircle(links.parent)
        /\ c \in Node /\ n \in Node /\ n # c /\ FreeApart(Live, links)
        /\ links.parent[c] = None /\ links.first[c] = None /\ links' \in Links
        /\ c \notin Live \cup {Doc} /\ Live \cup {Doc} \subseteq Node
    BY <2>1, KeptIs, LiveNodes, NullAssumption DEF FreeApart, Node, IInv, DomTypeOK, Links
  <2>4. PutAtFront(links, links', n, c)
    BY <2>2, <2>3, AtFrontIs
  <2>5. InsertedAt(links, links', n, 0, c)
    BY <2>3, <2>4, FrontInserts
  <2>6. /\ Kids(links, n) \in Seq(Node) /\ Len(Kids(links, n)) \in Nat /\ 0 \in 0..Len(Kids(links, n))
        /\ DOMAIN Kids(links, n) = 1..Len(Kids(links, n))
    BY <2>3, KidsFacts
  <2>7. NoCircle(links'.next)
    BY <2>3, <2>5, <2>6, InsertedNoCircle
  <2>8. c \notin Anc(links, n)
    <3> DEFINE S == Live \cup {Doc}
    <3>1. UpClosed(links, S)
      <4> SUFFICES ASSUME NEW x \in S, links.parent[x] # None PROVE links.parent[x] \in S
        BY DEF UpClosed
      <4>1. links.parent[x] \in Node /\ links.first[links.parent[x]] # None
        BY <2>3, ParentHasChild DEF Links, Pointers
      <4> QED BY <2>3, <4>1 DEF FreeApart
    <3>2. n \in S /\ S \subseteq Node
      BY <2>3
    <3>3. Anc(links, n) \subseteq S
      BY <2>3, <3>1, <3>2, AncLeast
    <3> QED BY <2>3, <3>3
  <2>9. NoCircle(links'.parent)
    BY <2>3, <2>4, <2>8, PutNoCircle DEF PutAtFront
  <2>10. FInv'
    BY <2>7, <2>9 DEF FInv, NoCircle
  <2> DEFINE kids == [m \in Kept |-> ChildrenOf(m)]
  <2>11. /\ Kept = Live \cup {Doc} /\ Kept' = Kept \cup {c} /\ Kept \subseteq Node
         /\ kids = Tree(links, Kept) /\ kids' = Tree(links', Kept')
    BY <2>1, <2>2, <2>10, AllKept, AllKeptNext, KeptMapping, MappingIs
  <2>12. c \notin Kept /\ n \in Kept
    BY <2>3, <2>11
  <2>13. \A m \in Node : Kids(links', m) = IF m = n THEN Forest!InsertAt(Kids(links, n), 0 + 1, c) ELSE Kids(links, m)
    BY <2>3, <2>5, <2>6, InsertedKids
  <2>14. Kids(links, c) = <<>>
    <3>1. Chain(links, links.first[c], Kids(links, c))
      BY <2>3, KidsChain
    <3> QED BY <2>3, <3>1, ChainNil
  <2>15. Forest!InsertAt(Kids(links, n), 0 + 1, c) = <<c>> \o Kids(links, n)
    <3> DEFINE s == Kids(links, n)
               x == Forest!InsertAt(s, 0 + 1, c)
               y == <<c>> \o s
    <3>1. /\ x \in Seq(Node) /\ Len(x) = Len(s) + 1
          /\ \A j \in 1..(Len(s) + 1) : x[j] = IF j <= 0 THEN s[j] ELSE IF j = 0 + 1 THEN c ELSE s[j - 1]
      <4>1. s \in Seq(Node) /\ 0 \in 0..Len(s)
        BY <2>6
      <4> HIDE DEF s
      <4> QED BY <2>3, <4>1, InsertAtIs
    <3> HIDE DEF s, x
    <3>2. s \in Seq(Node) /\ Len(s) \in Nat
      BY <2>6 DEF s
    <3>3. /\ y \in Seq(Node) /\ Len(y) = Len(s) + 1
          /\ \A j \in 1..(Len(s) + 1) : y[j] = IF j = 1 THEN c ELSE s[j - 1]
      BY <2>3, <3>2
    <3> HIDE DEF y
    <3>4. \A j \in 1..Len(x) : x[j] = y[j]
      BY <3>1, <3>2, <3>3
    <3>5. x = y
      BY <3>1, <3>3, <3>4, SeqEqual
    <3> QED BY <3>5 DEF x, y, s
  <2> HIDE DEF kids
  <2>16. /\ DOMAIN kids = Kept
         /\ kids' = [m \in DOMAIN kids \cup {c} |-> IF m = c THEN <<>> ELSE IF m = n THEN <<c>> \o kids[n] ELSE kids[m]]
    BY <2>3, <2>11, <2>12, <2>13, <2>14, <2>15 DEF Tree
  <2>17. Forest!CreateFirst(n, c)
    BY <2>2, <2>16 DEF Forest!CreateFirst, kids
  <2>18. c \in Item \ DOMAIN kids /\ n \in DOMAIN kids
    BY <2>1, <2>12, <2>16
  <2> QED BY <2>10, <2>17, <2>18 DEF Forest!Next, kids
<1> QED BY <1>1, <1>2

(* Deleting a node of the forest takes all that is below it away; deleting  *)
(* one that was cut from it does nothing to it.                             *)
LEMMA DeleteStep ==
  ASSUME FInv, IInv', NEW n \in Live, links' = Detached(links, n),
         _unlinked' = MarkInUse(_unlinked, n), Live' = Live
  PROVE  FInv' /\ (Forest!Next \/ UNCHANGED Forest!vars)
<1> DEFINE u == ToSet(_unlinked)
           kids == [m \in Kept |-> ChildrenOf(m)]
<1>1. /\ links \in Links /\ Agree(links) /\ NoCircle(links.next) /\ NoCircle(links.parent)
      /\ Live \in SUBSET Node /\ u \in SUBSET Live /\ n \in Node /\ n # Doc /\ n \in Item
      /\ \A r \in u \cup {Doc} : links.parent[r] = None
      /\ \A m \in Kept : m \in Node /\ \A y \in Node : links.parent[y] = m => y \in Kept
      /\ Doc \in Kept
  BY KeptIs, LiveNodes
<1>2. /\ links' \in Links /\ Agree(links') /\ NoCircle(links'.next) /\ NoCircle(links'.parent)
      /\ \A m \in Node : links'.parent[m] = IF m = n THEN None ELSE links.parent[m]
      /\ \A m \in Node : Kids(links', m) = Forest!Without(Kids(links, m), n)
  BY <1>1, DetachedIs
<1>3. FInv'
  BY <1>2 DEF FInv, NoCircle
<1>4. ToSet(_unlinked') = u \ {n}
  BY MarkInUseRemoves DEF FInv, IInv, DomTypeOK, Placed
<1>5. /\ Kept = KeptOf(links, Live, u) /\ Kept' = KeptOf(links', Live, u \ {n})
      /\ kids = Tree(links, Kept) /\ kids' = Tree(links', Kept')
  BY <1>3, <1>4, KeptMapping, MappingIs
<1>6. Kept' = {m \in Kept : n \notin Anc(links, m)}
  <2> HIDE DEF u
  <2>1. KeptOf(links', Live, u \ {n}) = {m \in KeptOf(links, Live, u) : n \notin Anc(links, m)}
    BY <1>1, <1>2, CutKept
  <2> QED BY <1>5, <2>1
<1> HIDE DEF kids
<1>7. CASE n \in Kept
  <2>1. Forest!Below(n) = {m \in Kept : n \in Anc(links, m)}
    BY <1>7, ForestBelowIs
  <2>2. DOMAIN kids = Kept /\ \A m \in Kept : kids[m] = Kids(links, m)
    BY <1>5 DEF Tree
  <2>3. Kept' = DOMAIN kids \ Forest!Below(n)
    BY <1>6, <2>1, <2>2
  <2>4. kids' = [m \in DOMAIN kids \ Forest!Below(n) |-> Forest!Without(kids[m], n)]
    BY <1>1, <1>2, <1>5, <2>2, <2>3 DEF Tree
  <2>5. Forest!Delete(n)
    BY <1>4, <2>4 DEF Forest!Delete, kids
  <2>6. n \in DOMAIN kids \ {Doc}
    BY <1>1, <1>7, <2>2
  <2> QED BY <1>3, <2>5, <2>6 DEF Forest!Next, kids
<1>8. CASE n \notin Kept
  <2>1. n \notin u
    <3>1. n \in Anc(links, n)
      BY <1>1, AncLeast
    <3> QED BY <1>5, <1>8, <3>1 DEF KeptOf
  <2>2. ASSUME NEW m \in Kept, n \in Anc(links, m) PROVE FALSE
    <3>1. PICK r \in Anc(links, m) : r \in {Doc} \cup u
      BY <1>5 DEF KeptOf
    <3>2. r \in Anc(links, n)
      BY <1>1, <2>2, <3>1, RootAbove
    <3> QED BY <1>5, <1>8, <3>1, <3>2 DEF KeptOf
  <2>3. Kept' = Kept
    BY <1>6, <2>2
  <2>4. ASSUME NEW m \in Kept PROVE Kids(links', m) = Kids(links, m)
    <3>1. links.parent[n] # m
      BY <1>1, <1>8
    <3>2. /\ Kids(links, m) \in Seq(Node) /\ IsInjective(Kids(links, m))
          /\ ToSet(Kids(links, m)) = {x \in Node : links.parent[x] = m}
      BY <1>1, KidsAre
    <3>3. n \notin ToSet(Kids(links, m))
      BY <3>1, <3>2
    <3>4. Forest!Without(Kids(links, m), n) = Kids(links, m)
      BY <1>1, <3>2, <3>3, WithoutIs
    <3> QED BY <1>1, <1>2, <3>4
  <2>5. kids' = kids
    BY <1>5, <2>3, <2>4 DEF Tree
  <2>6. UNCHANGED Forest!vars
    BY <1>4, <2>1, <2>5 DEF Forest!vars, kids
  <2> QED BY <1>3, <2>6
<1> QED BY <1>7, <1>8

(* A step of the links' owner that the forest does not see. *)
LEMMA UnseenStep ==
  ASSUME FInv, IInv', links' = links, _unlinked' = _unlinked,
         KeptOf(links, Live', ToSet(_unlinked)) = KeptOf(links, Live, ToSet(_unlinked))
  PROVE  FInv' /\ UNCHANGED Forest!vars
<1>1. FInv'
  BY DEF FInv, NoCircle
<1>2. Kept' = Kept
  BY <1>1, KeptMapping, MappingIs
<1> QED BY <1>1, <1>2, NothingHappens

LEMMA DeleteChildStep ==
  ASSUME FInv, IInv', NEW n \in Node, links.parent[n] # None, DeleteChild(n)
  PROVE  FInv' /\ (Forest!Next \/ UNCHANGED Forest!vars)
<1>1. n \in Live
  BY DEF FInv, IInv, FreeApart
<1>2. links' = Detached(links, n) /\ _unlinked' = MarkInUse(_unlinked, n) /\ Live' = Live
  BY DEF DeleteChild, DeleteNode, Detached, Live
<1> QED BY <1>1, <1>2, DeleteStep

LEMMA DeleteUnlinkedStep ==
  ASSUME FInv, IInv', NEW n \in Live, links.parent[n] = None, DeleteNode(links, n)
  PROVE  FInv' /\ (Forest!Next \/ UNCHANGED Forest!vars)
<1>1. links' = Detached(links, n) /\ _unlinked' = MarkInUse(_unlinked, n) /\ Live' = Live
  BY DEF DeleteNode, Detached, Live
<1> QED BY <1>1, DeleteStep

LEMMA DocumentDeleteStep ==
  ASSUME FInv, IInv', NEW n \in Live, DocumentDeleteNode(n)
  PROVE  FInv' /\ (Forest!Next \/ UNCHANGED Forest!vars)
BY LiveNodes, DeleteChildStep, DeleteUnlinkedStep DEF DocumentDeleteNode

(* Inside a recursive deletion the forest has lost the nodes already.       *)
LEMMA DestroyStep ==
  ASSUME FInv, IInv', Destroy
  PROVE  FInv' /\ (Forest!Next \/ UNCHANGED Forest!vars)
<1>1. doomed \in Seq(Item) /\ doomed # <<>> /\ IsInjective(doomed) /\ ToSet(doomed) \subseteq Live
  BY DEF Destroy, FInv, IInv, DomTypeOK, Placed
<1>2. PICK n \in Live : n = Last(doomed) /\ n \in ToSet(doomed)
  BY <1>1, FrontDrops
<1>3. n \in Node /\ n # Doc
  BY LiveNodes
<1>4. CASE links.first[n] # None
  <2>1. DeleteChild(links.first[n])
    BY <1>2, <1>4 DEF Destroy
  <2>2. links.first[n] \in Node /\ links.parent[links.first[n]] # None
    BY <1>3, <1>4, FirstHasParent DEF FInv
  <2> QED BY <2>1, <2>2, DeleteChildStep
<1>5. CASE links.first[n] = None
  <2>1. Free(n) /\ links' = links /\ _unlinked' = _unlinked /\ blocks' = blocks
    BY <1>2, <1>5 DEF Destroy
  <2>2. Live' = Live \ {n}
    BY <2>1, FreeDies DEF FInv, IInv, DomTypeOK, PoolTypes
  <2>3. links.parent[n] = None /\ n \notin ToSet(_unlinked)
    BY <1>2 DEF FInv, IInv, Placed
  <2>4. Anc(links, n) = {n}
    BY <1>3, <2>3, KeptIs, AncIs
  <2>5. KeptOf(links, Live', ToSet(_unlinked)) = KeptOf(links, Live, ToSet(_unlinked))
    BY <1>3, <2>2, <2>3, <2>4 DEF KeptOf
  <2> QED BY <2>1, <2>5, UnseenStep
<1> QED BY <1>4, <1>5

LEMMA CallStep ==
  ASSUME FInv, IInv', doomed = <<>>, Edit \/ ParserCall \/ ClearStep
  PROVE  FInv' /\ (Forest!Next \/ UNCHANGED Forest!vars)
<1>1. ASSUME NEW k \in Pool, Create(k) PROVE FInv' /\ Forest!Next
  BY <1>1, CreateStep DEF Create
<1>2. ASSUME NEW p \in Parents, NEW c \in Live, p # c, c \notin Ancestors(p),
             \/ InsertEndChild(p, c) \/ InsertFirstChild(p, c)
             \/ \E a \in Live : links.parent[a] = p /\ InsertAfterChild(a, c)
      PROVE  FInv' /\ Forest!Next
  <2>1. p \in Live \cup {Doc}
    BY DEF Parents
  <2>2. c \notin Anc(links, p)
    BY <1>2, <2>1, KeptIs, LiveNodes, AncestorsAre
  <2>3. CASE InsertEndChild(p, c)
    BY <1>2, <2>1, <2>2, <2>3, EndChildStep
  <2>4. CASE InsertFirstChild(p, c)
    BY <1>2, <2>1, <2>2, <2>4, FirstChildStep
  <2>5. ASSUME NEW a \in Live, links.parent[a] = p, InsertAfterChild(a, c) PROVE FInv' /\ Forest!Next
    BY <1>2, <2>1, <2>2, <2>5, AfterChildStep
  <2> QED BY <1>2, <2>3, <2>4, <2>5
<1>3. CASE Edit
  BY <1>3, <1>1, <1>2, SetTextStep, DocumentDeleteStep DEF Edit
<1>4. CASE ParserCall
  <2>1. ASSUME NEW k \in Pool, NEW v \in Value, CreateUnlinkedNode(k, v) PROVE FInv' /\ Forest!Next
    BY <2>1, CreateStep
  <2>2. ASSUME NEW n \in ToSet(_unlinked), DeleteNode(links, n)
        PROVE  FInv' /\ (Forest!Next \/ UNCHANGED Forest!vars)
    <3>1. n \in Live /\ links.parent[n] = None
      BY DEF FInv, IInv, Placed
    <3> QED BY <2>2, <3>1, DeleteUnlinkedStep
  <2>3. CASE Live = {} /\ EmptyPools
    <3>1. Live' = Live
      BY <2>3, EmptiedLive
    <3> QED BY <2>3, <3>1, UnseenStep DEF EmptyPools
  <2> QED BY <1>4, <2>1, <2>2, <2>3 DEF ParserCall
<1>5. CASE ClearStep
  <2>1. CASE links.first[Doc] # None
    <3>1. DeleteChild(links.first[Doc])
      BY <1>5, <2>1 DEF ClearStep
    <3>2. links.first[Doc] \in Node /\ links.parent[links.first[Doc]] # None
      BY <2>1, LiveNodes, FirstHasParent DEF FInv
    <3> QED BY <3>1, <3>2, DeleteChildStep
  <2>2. CASE links.first[Doc] = None
    <3>1. _unlinked # <<>> /\ DocumentDeleteNode(_unlinked[1])
      BY <1>5, <2>2 DEF ClearStep
    <3>2. _unlinked[1] \in ToSet(_unlinked)
      BY <3>1 DEF ToSet, FInv, IInv, DomTypeOK
    <3>3. _unlinked[1] \in Live
      BY <3>2 DEF FInv, IInv, Placed
    <3> QED BY <3>1, <3>3, DocumentDeleteStep
  <2> QED BY <2>1, <2>2
<1> QED BY <1>3, <1>4, <1>5

LEMMA StepOfForest == FInv /\ [DomNext]_domVars => FInv' /\ [Forest!Next]_(Forest!vars)
<1> SUFFICES ASSUME FInv, [DomNext]_domVars PROVE FInv' /\ (Forest!Next \/ UNCHANGED Forest!vars)
  OBVIOUS
<1>1. IInv'
  BY StepKeeps DEF FInv
<1>2. CASE doomed = <<>> /\ (Edit \/ ParserCall \/ ClearStep)
  BY <1>1, <1>2, CallStep
<1>3. CASE Destroy
  BY <1>1, <1>3, DestroyStep
<1>4. CASE UNCHANGED domVars
  <2>1. links' = links /\ _unlinked' = _unlinked /\ Live' = Live
    BY <1>4 DEF domVars, pools, Live
  <2> QED BY <1>1, <2>1, UnseenStep
<1> QED BY <1>2, <1>3, <1>4 DEF DomNext

LEMMA InitOfForest == DomInit => FInv /\ Forest!Init
<1> SUFFICES ASSUME DomInit PROVE FInv /\ Forest!Init
  OBVIOUS
<1>1. IInv
  BY InitEstablishes
<1>2. NoCircle(Null)
  BY NullAssumption DEF NoCircle, Null
<1>3. FInv
  BY <1>1, <1>2 DEF FInv, DomInit
<1>4. _unlinked = <<>> /\ doomed = <<>> /\ Doc \in Node /\ links.first[Doc] = None /\ \A k \in Pool : blocks[k] = 0
  BY LiveNodes DEF DomInit, Null
<1>5. Live = {}
  <2>1. \A i \in Item : i[2] \in Nat \ {0} /\ i[1] \in Pool
    BY ItemIs, BoundsAssumption
  <2> QED BY <1>4, <2>1, BoundsAssumption DEF Live
<1>6. Kept = {Doc}
  BY <1>3, <1>4, <1>5, AllKept
<1>7. Kids(links, Doc) = <<>>
  <2>1. Chain(links, links.first[Doc], Kids(links, Doc))
    BY <1>3, <1>4, KeptIs, KidsChain
  <2> QED BY <1>4, <2>1, ChainNil
<1>8. [n \in Kept |-> ChildrenOf(n)] = [n \in {Doc} |-> <<>>]
  BY <1>3, <1>6, <1>7, MappingIs DEF Tree
<1>9. ToSet(_unlinked) = {}
  BY <1>4 DEF ToSet
<1> QED BY <1>3, <1>8, <1>9 DEF Forest!Init

(* The document implements the ordered forest: every call of a program, of  *)
(* the parser or of Clear creates a node, moves one with all that is below  *)
(* it to a place among the children of another, or deletes it with all that *)
(* is below it, at once however long the recursion takes; or it changes     *)
(* nothing.                                                                 *)
THEOREM DocumentIsForest == DomSpec => ImplementsForest
BY InitOfForest, StepOfForest, PTL DEF DomSpec, ImplementsForest, Forest!Spec

-----------------------------------------------------------------------------
(* The parser (module XmlParser).  What it takes of a text are its tokens.   *)
LEMMA MinIs ==
  ASSUME NEW T \in SUBSET Nat, T # {}
  PROVE  Min(T) \in T
<1> DEFINE R == {ss \in Nat \X Nat : ss[1] < ss[2]}
<1>1. IsWellFoundedOn(R, Nat)
  BY NatLessThanWellFounded DEF OpToRel
<1>2. \E x \in T : \A y \in T : ~ (<<y, x>> \in R)
  BY <1>1, WFMin
<1>3. \A x, y \in Nat : ~ (<<y, x>> \in R) => x <= y
  OBVIOUS
<1>4. \E x \in T : \A y \in T : x <= y
  BY <1>2, <1>3
<1> QED BY <1>4 DEF Min

LEMMA SkipType ==
  ASSUME NEW text \in Seq(Tokens)
  PROVE  SkipWhiteSpace(text) \in Seq(Tokens)
<1> DEFINE I == {i \in 1..Len(text) : text[i].t # "blank"}
<1>0. I \in SUBSET (1..Len(text)) /\ I \in SUBSET Nat /\ 0 \notin I
  OBVIOUS
<1>1. SkipWhiteSpace(text) = IF I = {} THEN <<>> ELSE SubSeq(text, Min(I), Len(text))
  <2>1. I # {} => Min(I) # 0
    <3> HIDE DEF I
    <3> QED BY <1>0, MinIs
  <2> QED BY <2>1 DEF SkipWhiteSpace, SelectInSeq
<1>2. CASE I = {}
  BY <1>1, <1>2
<1>3. CASE I # {}
  <2>1. Min(I) \in 1..Len(text)
    <3> HIDE DEF I
    <3> QED BY <1>0, <1>3, MinIs
  <2>2. SubSeq(text, Min(I), Len(text)) \in Seq(Tokens)
    <3> HIDE DEF I
    <3> QED BY <2>1
  <2> QED BY <1>1, <1>3, <2>2
<1> QED BY <1>2, <1>3

LEMMA TextEndIs ==
  ASSUME NEW text \in Seq(Tokens)
  PROVE  TextEnd(text) \in 0..Len(text)
<1> DEFINE I == {i \in 1..Len(text) : text[i].t \notin {"blank", "text"}}
<1>0. I \in SUBSET (1..Len(text)) /\ I \in SUBSET Nat /\ 0 \notin I
  OBVIOUS
<1>1. TextEnd(text) = IF I = {} THEN Len(text) ELSE Min(I) - 1
  <2>1. I # {} => Min(I) # 0
    <3> HIDE DEF I
    <3> QED BY <1>0, MinIs
  <2> QED BY <2>1 DEF TextEnd, SelectInSeq
<1>2. CASE I = {}
  BY <1>1, <1>2
<1>3. CASE I # {}
  <2>1. Min(I) \in 1..Len(text)
    <3> HIDE DEF I
    <3> QED BY <1>0, <1>3, MinIs
  <2> QED BY <1>1, <1>3, <2>1
<1> QED BY <1>2, <1>3

LEMMA TextIs ==
  ASSUME NEW text \in Seq(Tokens)
  PROVE  /\ TextEnd(text) = 1 => text[1].v \in Value
         /\ TextValue(text) \in Value
         /\ SubSeq(text, TextEnd(text) + 1, Len(text)) \in Seq(Tokens)
<1>1. PICK e \in 0..Len(text) : e = TextEnd(text)
  BY TextEndIs
<1>2. e = 1 => text[1] \in Tokens
  BY <1>1
<1>3. TextEnd(text) = 1 => text[1].v \in Value
  BY <1>1, <1>2 DEF Tokens
<1>4. TextValue(text) \in Value
  BY <1>3 DEF TextValue, Value
<1>5. SubSeq(text, e + 1, Len(text)) \in Seq(Tokens)
  BY <1>1
<1> QED BY <1>1, <1>3, <1>4, <1>5

-----------------------------------------------------------------------------
(* As many untracked nodes of each pool are counted as are in the set.      *)
Counted(u, c) == \A k \in Pool : c[k] = Cardinality({n \in u : n[1] = k})

LEMMA ListFinite ==
  ASSUME NEW S, NEW u \in Seq(S)
  PROVE  IsFiniteSet(ToSet(u))
<1>1. PICK n \in Nat : n = Len(u) /\ DOMAIN u = 1..n
  OBVIOUS
<1>2. u \in Surjection(1..n, ToSet(u))
  BY <1>1 DEF Surjection, ToSet
<1>3. IsFiniteSet(1..n)
  BY FS_Interval
<1> QED BY <1>2, <1>3, FS_Surjection

LEMMA OneMoreCounted ==
  ASSUME NEW u, IsFiniteSet(u), NEW c \in [Pool -> Int], Counted(u, c),
         NEW n \in Item, n \notin u
  PROVE  Counted(u \cup {n}, [c EXCEPT ![n[1]] = @ + 1])
<1> DEFINE e == [c EXCEPT ![n[1]] = @ + 1]
<1>1. n[1] \in Pool
  BY ItemIs
<1> SUFFICES ASSUME NEW k \in Pool PROVE e[k] = Cardinality({m \in u \cup {n} : m[1] = k})
  BY DEF Counted
<1> DEFINE A == {m \in u : m[1] = k}
<1>2. IsFiniteSet(A) /\ n \notin A /\ c[k] = Cardinality(A)
  BY FS_Subset DEF Counted
<1>3. CASE k = n[1]
  <2>1. {m \in u \cup {n} : m[1] = k} = A \cup {n}
    BY <1>3
  <2>2. e[k] = c[k] + 1
    BY <1>1, <1>3
  <2> HIDE DEF A, e
  <2> QED BY <1>2, <2>1, <2>2, FS_AddElement
<1>4. CASE k # n[1]
  <2>1. {m \in u \cup {n} : m[1] = k} = A
    BY <1>4
  <2>2. e[k] = c[k]
    BY <1>4
  <2> QED BY <1>2, <2>1, <2>2
<1> QED BY <1>3, <1>4

LEMMA OneLessCounted ==
  ASSUME NEW u, IsFiniteSet(u), NEW c \in [Pool -> Int], Counted(u, c),
         NEW n \in Item, n \in u
  PROVE  Counted(u \ {n}, [c EXCEPT ![n[1]] = @ - 1])
<1> DEFINE e == [c EXCEPT ![n[1]] = @ - 1]
<1>1. n[1] \in Pool
  BY ItemIs
<1> SUFFICES ASSUME NEW k \in Pool PROVE e[k] = Cardinality({m \in u \ {n} : m[1] = k})
  BY DEF Counted
<1> DEFINE A == {m \in u : m[1] = k}
<1>2. IsFiniteSet(A) /\ c[k] = Cardinality(A)
  BY FS_Subset DEF Counted
<1>3. CASE k = n[1]
  <2>1. {m \in u \ {n} : m[1] = k} = A \ {n} /\ n \in A
    BY <1>3
  <2>2. e[k] = c[k] - 1
    BY <1>1, <1>3
  <2> HIDE DEF A, e
  <2> QED BY <1>2, <2>1, <2>2, FS_RemoveElement
<1>4. CASE k # n[1]
  <2>1. {m \in u \ {n} : m[1] = k} = A
    BY <1>4
  <2>2. e[k] = c[k]
    BY <1>4
  <2> QED BY <1>2, <2>1, <2>2
<1> QED BY <1>3, <1>4

(* What the calls make of the nodes that are not inserted, and of their      *)
(* number.                                                                  *)
LEMMA UnlinkedFinite ==
  ASSUME IInv
  PROVE  /\ IsFiniteSet(ToSet(_unlinked)) /\ _nUntracked \in [Pool -> Int]
         /\ ToSet(_unlinked) \subseteq Item /\ ToSet(_unlinked) \subseteq Live
BY ListFinite, LiveNodes DEF IInv, DomTypeOK, Placed

LEMMA CreatesOne ==
  ASSUME IInv, NEW k \in Pool, NEW v, CreateUnlinkedNode(k, v), NEW n, n = Head(Available(k))
  PROVE  /\ n \in Item /\ n[1] = k /\ n \notin ToSet(_unlinked)
         /\ _unlinked' = Append(_unlinked, n)
         /\ ToSet(_unlinked') = ToSet(_unlinked) \cup {n}
         /\ Counted(ToSet(_unlinked), _nUntracked) => Counted(ToSet(_unlinked'), _nUntracked')
<1>1. n \in Item /\ n[1] = k /\ n \notin Live
  BY AllocLives DEF CreateUnlinkedNode, IInv, PoolTypes, DomTypeOK
<1>2. /\ _unlinked' = Append(_unlinked, n)
      /\ _nUntracked' = [_nUntracked EXCEPT ![n[1]] = @ + 1]
  BY <1>1 DEF CreateUnlinkedNode
<1>3. ToSet(_unlinked') = ToSet(_unlinked) \cup {n}
  BY <1>1, <1>2, AppendAdds DEF IInv, DomTypeOK
<1>4. n \notin ToSet(_unlinked)
  BY <1>1, UnlinkedFinite
<1>5. IsFiniteSet(ToSet(_unlinked)) /\ _nUntracked \in [Pool -> Int]
  BY UnlinkedFinite
<1>6. Counted(ToSet(_unlinked), _nUntracked)
        => Counted(ToSet(_unlinked) \cup {n}, [_nUntracked EXCEPT ![n[1]] = @ + 1])
  BY <1>1, <1>4, <1>5, OneMoreCounted
<1> QED BY <1>1, <1>2, <1>3, <1>4, <1>6

LEMMA InsertsOne ==
  ASSUME IInv, doomed = <<>>, NEW d, NEW c \in Live, Insert(d, c)
  PROVE  /\ ToSet(_unlinked') = ToSet(_unlinked) \ {c}
         /\ Counted(ToSet(_unlinked), _nUntracked) => Counted(ToSet(_unlinked'), _nUntracked')
<1>1. /\ _unlinked' = MarkInUse(_unlinked, c)
      /\ IF links.parent[c] = None THEN SetTracked(c) ELSE _nUntracked' = _nUntracked
  BY DEF Insert, Used
<1>2. ToSet(_unlinked') = ToSet(_unlinked) \ {c}
  BY <1>1, MarkInUseRemoves DEF IInv, DomTypeOK, Placed
<1>3. links.parent[c] = None <=> c \in ToSet(_unlinked)
  <2>1. ToSet(doomed) = {}
    BY DEF ToSet
  <2> QED BY <2>1 DEF IInv, Placed
<1>4. CASE links.parent[c] = None
  <2>1. _nUntracked' = [_nUntracked EXCEPT ![c[1]] = @ - 1]
    BY <1>1, <1>4 DEF SetTracked
  <2>2. IsFiniteSet(ToSet(_unlinked)) /\ _nUntracked \in [Pool -> Int] /\ c \in Item
    BY LiveNodes, UnlinkedFinite
  <2>3. Counted(ToSet(_unlinked), _nUntracked)
          => Counted(ToSet(_unlinked) \ {c}, [_nUntracked EXCEPT ![c[1]] = @ - 1])
    BY <1>3, <1>4, <2>2, OneLessCounted
  <2> QED BY <1>2, <2>1, <2>3
<1>5. CASE links.parent[c] # None
  <2>1. ToSet(_unlinked') = ToSet(_unlinked) /\ _nUntracked' = _nUntracked
    BY <1>1, <1>2, <1>3, <1>5
  <2> QED BY <1>2, <2>1
<1> QED BY <1>4, <1>5

LEMMA DeletesOne ==
  ASSUME IInv, NEW d, NEW n \in ToSet(_unlinked), DeleteNode(d, n)
  PROVE  /\ ToSet(_unlinked') = ToSet(_unlinked) \ {n}
         /\ Counted(ToSet(_unlinked), _nUntracked) /\ SetTracked(n)
              => Counted(ToSet(_unlinked'), _nUntracked')
<1>1. _unlinked' = MarkInUse(_unlinked, n)
  BY DEF DeleteNode
<1>2. ToSet(_unlinked') = ToSet(_unlinked) \ {n}
  BY <1>1, MarkInUseRemoves DEF IInv, DomTypeOK, Placed
<1>3. SetTracked(n) => _nUntracked' = [_nUntracked EXCEPT ![n[1]] = @ - 1]
  BY DEF SetTracked
<1>4. IsFiniteSet(ToSet(_unlinked)) /\ _nUntracked \in [Pool -> Int] /\ n \in Item
  BY UnlinkedFinite
<1>5. Counted(ToSet(_unlinked), _nUntracked)
        => Counted(ToSet(_unlinked) \ {n}, [_nUntracked EXCEPT ![n[1]] = @ - 1])
  BY <1>4, OneLessCounted
<1> QED BY <1>2, <1>3, <1>5

LEMMA DeletesNone ==
  ASSUME IInv, NEW n \in Node, links.parent[n] # None, DeleteChild(n)
  PROVE  _unlinked' = _unlinked /\ _nUntracked' = _nUntracked
<1>1. n \notin ToSet(_unlinked)
  BY DEF IInv, Placed
<1> QED BY <1>1 DEF DeleteChild, DeleteNode, MarkInUse

LEMMA DestroysNone ==
  ASSUME IInv, Destroy
  PROVE  _unlinked' = _unlinked /\ _nUntracked' = _nUntracked
<1>1. PICK n \in Live : n = Last(doomed)
  BY FrontDrops DEF Destroy, IInv, DomTypeOK, Placed
<1>2. CASE links.first[n] # None
  <2>1. DeleteChild(links.first[n])
    BY <1>1, <1>2 DEF Destroy
  <2> QED BY <1>2, <2>1, LiveNodes, FirstHasParent, DeletesNone
<1>3. CASE links.first[n] = None
  BY <1>1, <1>3 DEF Destroy
<1> QED BY <1>2, <1>3

LEMMA DocumentDeleteCounts ==
  ASSUME IInv, doomed = <<>>, Counted(ToSet(_unlinked), _nUntracked),
         NEW n \in Live, DocumentDeleteNode(n)
  PROVE  Counted(ToSet(_unlinked'), _nUntracked')
<1>1. CASE links.parent[n] # None
  BY <1>1, LiveNodes, DeletesNone DEF DocumentDeleteNode
<1>2. CASE links.parent[n] = None
  <2>1. ToSet(doomed) = {}
    BY DEF ToSet
  <2>2. n \in ToSet(_unlinked)
    BY <1>2, <2>1 DEF IInv, Placed
  <2> QED BY <1>2, <2>2, DeletesOne DEF DocumentDeleteNode
<1> QED BY <1>1, <1>2

LEMMA CallsCount ==
  ASSUME IInv, doomed = <<>>, Counted(ToSet(_unlinked), _nUntracked), Edit \/ ClearStep
  PROVE  Counted(ToSet(_unlinked'), _nUntracked')
<1>1. ASSUME NEW k \in Pool, Create(k) PROVE Counted(ToSet(_unlinked'), _nUntracked')
  BY <1>1, CreatesOne DEF Create
<1>2. ASSUME NEW p, NEW c \in Live, InsertEndChild(p, c)
      PROVE  Counted(ToSet(_unlinked'), _nUntracked')
  BY <1>2, InsertsOne DEF InsertEndChild
<1>3. ASSUME NEW p, NEW c \in Live, InsertFirstChild(p, c)
      PROVE  Counted(ToSet(_unlinked'), _nUntracked')
  BY <1>3, InsertsOne DEF InsertFirstChild
<1>4. ASSUME NEW a, NEW c \in Live, InsertAfterChild(a, c)
      PROVE  Counted(ToSet(_unlinked'), _nUntracked')
  BY <1>2, <1>4, InsertsOne DEF InsertAfterChild
<1>5. ASSUME NEW n, NEW t, SetText(n, t) PROVE Counted(ToSet(_unlinked'), _nUntracked')
  <2>1. _unlinked' = _unlinked /\ _nUntracked' = _nUntracked
    BY <1>5 DEF SetText, pools
  <2> QED BY <2>1
<1>6. CASE Edit
  BY <1>6, <1>1, <1>2, <1>3, <1>4, <1>5, DocumentDeleteCounts DEF Edit
<1>7. CASE ClearStep
  <2>1. CASE links.first[Doc] # None
    <3>1. DeleteChild(links.first[Doc])
      BY <1>7, <2>1 DEF ClearStep
    <3> QED BY <2>1, <3>1, LiveNodes, FirstHasParent, DeletesNone
  <2>2. CASE links.first[Doc] = None
    <3>1. _unlinked # <<>> /\ DocumentDeleteNode(_unlinked[1])
      BY <1>7, <2>2 DEF ClearStep
    <3>2. _unlinked[1] \in ToSet(_unlinked)
      BY <3>1 DEF ToSet, IInv, DomTypeOK
    <3> QED BY <3>1, <3>2, UnlinkedFinite, DocumentDeleteCounts
  <2> QED BY <2>1, <2>2
<1> QED BY <1>6, <1>7

-----------------------------------------------------------------------------
(* The frames of ParseDeep: their nodes are those that are not inserted,    *)
(* each once; all but the innermost are elements, and it too as long as its *)
(* children are read.                                                       *)
Frame == [node : Item, tag : {"leaf", "open", "close", "empty"}, end : Value \cup {None}]

NodesOf(o) == {o[i].node : i \in DOMAIN o}

Nested(o, s) ==
  /\ \A i, j \in DOMAIN o : o[i].node = o[j].node => i = j
  /\ \A i \in DOMAIN o : i < Len(o) \/ s = "running" => o[i].node[1] = "element"
  /\ s # "running" => o # <<>>

ParserTypes ==
  /\ mode \in {"build", "sent", "parse", "failed", "read", "close", "closed"}
  /\ status \in {"running", "returned", "null"}
  /\ error \in BOOLEAN
  /\ rest \in Seq(Tokens)
  /\ open \in Seq(Frame)

OpenInv ==
  /\ mode = "parse" => ToSet(_unlinked) = NodesOf(open) /\ Nested(open, status)
  /\ mode # "parse" => open = <<>> /\ status = "running"
  /\ mode \in {"sent", "failed"} => _unlinked = <<>>

(* The count is wrong after an error only, until the pools are emptied; and *)
(* after an error nothing more is read.                                     *)
CountInv ==
  /\ mode = "parse" /\ error => status = "null"
  /\ Counted(ToSet(_unlinked), _nUntracked) \/ (error /\ mode \in {"parse", "failed"})

ParserInv == FInv /\ ParserTypes /\ OpenInv /\ CountInv

LEMMA NothingLeft ==
  ASSUME NEW S, NEW u \in Seq(S), ToSet(u) = {}
  PROVE  u = <<>>
BY DEF ToSet

LEMMA Popped ==
  ASSUME NEW o \in Seq(Frame), o # <<>>, NEW s, Nested(o, s), NEW r \in Seq(Frame),
         Len(r) = Len(o) - 1, \A i \in 1..Len(r) : r[i].node = o[i].node
  PROVE  /\ NodesOf(r) = NodesOf(o) \ {o[Len(o)].node}
         /\ o[Len(o)].node \in NodesOf(o)
         /\ \A t : (t # "running" => r # <<>>) => Nested(r, t)
<1>1. PICK n \in Nat : n = Len(o) /\ DOMAIN o = 1..n
  OBVIOUS
<1>2. n \in Nat \ {0} /\ DOMAIN r = 1..(n - 1) /\ Len(r) = n - 1
  <2>1. n # 0 /\ DOMAIN r = 1..Len(r)
    BY <1>1
  <2> QED BY <1>1, <2>1
<1>3. \A i \in 1..n : i = n \/ i \in 1..(n - 1)
  BY <1>2
<1>4. \A i \in 1..(n - 1) : i \in 1..n /\ i # n /\ i < n
  BY <1>2
<1>5. n \in 1..n /\ \A i \in 1..(n - 1) : r[i].node = o[i].node
  BY <1>2
<1>6. \A i, j \in 1..n : o[i].node = o[j].node => i = j
  BY <1>1 DEF Nested
<1>7. NodesOf(r) = NodesOf(o) \ {o[n].node} /\ o[n].node \in NodesOf(o)
  <2>1. ASSUME NEW i \in 1..(n - 1) PROVE r[i].node \in NodesOf(o) \ {o[n].node}
    BY <1>1, <1>4, <1>5, <1>6 DEF NodesOf
  <2>2. ASSUME NEW i \in 1..n, o[i].node # o[n].node PROVE o[i].node \in NodesOf(r)
    BY <1>2, <1>3, <1>5, <2>2 DEF NodesOf
  <2>3. NodesOf(r) \subseteq NodesOf(o) \ {o[n].node}
    BY <1>2, <2>1 DEF NodesOf
  <2>4. NodesOf(o) \ {o[n].node} \subseteq NodesOf(r)
    BY <1>1, <2>2 DEF NodesOf
  <2>5. o[n].node \in NodesOf(o)
    BY <1>1, <1>5 DEF NodesOf
  <2> QED BY <2>3, <2>4, <2>5
<1>8. ASSUME NEW t, t # "running" => r # <<>> PROVE Nested(r, t)
  <2>1. \A i \in 1..(n - 1) : r[i].node[1] = "element"
    BY <1>1, <1>4, <1>5 DEF Nested
  <2>2. \A i, j \in 1..(n - 1) : r[i].node = r[j].node => i = j
    BY <1>4, <1>5, <1>6
  <2> QED BY <1>2, <1>8, <2>1, <2>2 DEF Nested
<1> QED BY <1>1, <1>7, <1>8

LEMMA Pushed ==
  ASSUME NEW o \in Seq(Frame), Nested(o, "running"), NEW f \in Frame, f.node \notin NodesOf(o),
         NEW t, t = "running" => f.node[1] = "element"
  PROVE  /\ Append(o, f) \in Seq(Frame)
         /\ NodesOf(Append(o, f)) = NodesOf(o) \cup {f.node}
         /\ Nested(Append(o, f), t)
<1>1. PICK n \in Nat : n = Len(o) /\ DOMAIN o = 1..n
  OBVIOUS
<1>2. PICK r : r = Append(o, f)
  OBVIOUS
<1>3. /\ r \in Seq(Frame) /\ DOMAIN r = 1..(n + 1) /\ Len(r) = n + 1 /\ r[n + 1] = f
      /\ \A i \in 1..n : r[i] = o[i]
  BY <1>1, <1>2
<1>4. \A i \in 1..(n + 1) : i = n + 1 \/ i \in 1..n
  OBVIOUS
<1>5. n + 1 \in 1..(n + 1) /\ \A i \in 1..n : i \in 1..(n + 1) /\ i # n + 1 /\ i < n + 1
  OBVIOUS
<1>6. NodesOf(r) = NodesOf(o) \cup {f.node}
  BY <1>1, <1>3, <1>4, <1>5 DEF NodesOf
<1>7. Nested(r, t)
  <2>1. \A i \in 1..n : o[i].node # f.node /\ o[i].node[1] = "element"
    BY <1>1 DEF NodesOf, Nested
  <2>2. \A i, j \in 1..n : o[i].node = o[j].node => i = j
    BY <1>1 DEF Nested
  <2>3. \A i, j \in 1..(n + 1) : r[i].node = r[j].node => i = j
    BY <1>3, <1>4, <2>1, <2>2
  <2>4. \A i \in 1..(n + 1) : i < n + 1 \/ t = "running" => r[i].node[1] = "element"
    BY <1>3, <1>4, <2>1
  <2>5. r # <<>>
    BY <1>2
  <2> QED BY <1>3, <2>3, <2>4, <2>5 DEF Nested
<1> QED BY <1>2, <1>3, <1>6, <1>7

(* The innermost node, while it is parsed. *)
LEMMA InnerIs ==
  ASSUME ParserInv, mode = "parse", open # <<>>
  PROVE  /\ Inner = open[Len(open)].node /\ Last(open) = open[Len(open)] /\ Last(open) \in Frame
         /\ Inner \in ToSet(_unlinked) /\ Inner \in Live /\ Inner \in Item
         /\ NodesOf(open) = ToSet(_unlinked)
<1>1. open \in Seq(Frame) /\ ToSet(_unlinked) = NodesOf(open)
  BY DEF ParserInv, ParserTypes, OpenInv
<1>2. Len(open) \in DOMAIN open /\ open[Len(open)] \in Frame
  BY <1>1
<1>3. Inner = open[Len(open)].node /\ Last(open) = open[Len(open)]
  BY DEF Inner, Last
<1>4. Inner \in ToSet(_unlinked)
  BY <1>1, <1>2, <1>3 DEF NodesOf
<1> QED BY <1>1, <1>2, <1>3, <1>4, UnlinkedFinite DEF ParserInv, FInv

(* A frame returns to the one below it. *)
LEMMA ReturnsTo ==
  ASSUME ParserInv, mode = "parse", open # <<>>, NEW s \in {"returned", "null"},
         NEW e \in Value \cup {None}, Returns(s, e), error' \in BOOLEAN
  PROVE  /\ open' \in Seq(Frame)
         /\ NodesOf(open') = ToSet(_unlinked) \ {Inner}
         /\ \/ /\ mode' = "parse" /\ status' = s /\ Nested(open', status')
            \/ /\ mode' = (IF error' THEN "failed" ELSE "read")
               /\ open' = <<>> /\ status' = "running" /\ ToSet(_unlinked) \ {Inner} = {}
<1>1. open \in Seq(Frame) /\ Nested(open, status)
  BY DEF ParserInv, ParserTypes, OpenInv
<1>2. PICK n \in Nat : n = Len(open)
  BY <1>1
<1>3. n # 0
  BY <1>1, <1>2
<1>4. CASE n = 1
  <2>1. /\ open' = <<>> /\ status' = "running"
        /\ mode' = (IF error' THEN "failed" ELSE "read")
    BY <1>2, <1>4 DEF Returns
  <2>2. <<>> \in Seq(Frame) /\ Len(<<>>) = Len(open) - 1
        /\ \A i \in 1..Len(<<>>) : <<>>[i].node = open[i].node
    BY <1>2, <1>4
  <2>3. NodesOf(<<>>) = NodesOf(open) \ {open[Len(open)].node}
    BY <1>1, <2>2, Popped
  <2>4. NodesOf(<<>>) = {}
    BY DEF NodesOf
  <2> QED BY <2>1, <2>2, <2>3, <2>4, InnerIs
<1>5. CASE n # 1
  <2>1. /\ open' = Append(SubSeq(open, 1, n - 2), [open[n - 1] EXCEPT !.end = e])
        /\ status' = s /\ mode' = "parse"
    BY <1>2, <1>5 DEF Returns
  <2>2. PICK m \in Nat : m = n - 2
    BY <1>3, <1>5
  <2>3. n = m + 2 /\ n - 1 = m + 1
    BY <2>2
  <2>4. PICK a : a = SubSeq(open, 1, m)
    OBVIOUS
  <2>0. m \in 0..Len(open) /\ m + 1 \in 1..Len(open)
    BY <1>2, <2>3
  <2>5. a \in Seq(Frame) /\ Len(a) = m /\ \A i \in 1..m : a[i] = open[i]
    BY <1>1, <2>0, <2>4
  <2>6. open[m + 1] \in Frame
    BY <1>1, <2>0
  <2>7. PICK f \in Frame : f = [open[m + 1] EXCEPT !.end = e] /\ f.node = open[m + 1].node
    <3>1. \A g \in Frame : [g EXCEPT !.end = e] \in Frame /\ [g EXCEPT !.end = e].node = g.node
      BY DEF Frame
    <3> QED BY <2>6, <3>1
  <2>8. open' = Append(a, f)
    BY <2>1, <2>2, <2>3, <2>4, <2>7
  <2>9. /\ open' \in Seq(Frame) /\ Len(open') = m + 1
        /\ open'[m + 1] = f /\ \A i \in 1..m : open'[i] = open[i]
    BY <2>5, <2>8
  <2>10. Len(open') = Len(open) - 1 /\ open' # <<>>
    BY <1>2, <2>3, <2>9
  <2>11. \A i \in 1..Len(open') : open'[i].node = open[i].node
    <3>1. \A i \in 1..(m + 1) : i = m + 1 \/ i \in 1..m
      OBVIOUS
    <3> QED BY <2>7, <2>9, <3>1
  <2>12. /\ NodesOf(open') = NodesOf(open) \ {open[Len(open)].node}
         /\ Nested(open', s)
    BY <1>1, <2>9, <2>10, <2>11, Popped
  <2> QED BY <2>1, <2>9, <2>12, InnerIs
<1> QED BY <1>4, <1>5

-----------------------------------------------------------------------------
(* Each step of the parser is a call that the document allows, and keeps    *)
(* the rest of the invariant.                                               *)
LEMMA DomStays ==
  ASSUME UNCHANGED domVars
  PROVE  [DomNext]_domVars /\ _unlinked' = _unlinked /\ _nUntracked' = _nUntracked
BY DEF domVars, pools

LEMMA ParseStep ==
  ASSUME ParserInv, Parse
  PROVE  [DomNext]_domVars /\ ParserTypes' /\ OpenInv' /\ CountInv'
<1>1. /\ mode = "sent" /\ rest' = rest /\ open' = open /\ status' = status
      /\ _unlinked' = _unlinked /\ _nUntracked' = _nUntracked /\ [DomNext]_domVars
  BY DomStays DEF Parse
<1>2. /\ open = <<>> /\ status = "running" /\ _unlinked = <<>>
      /\ Counted(ToSet(_unlinked), _nUntracked)
  BY <1>1 DEF ParserInv, OpenInv, CountInv
<1>3. \/ error' = TRUE /\ mode' = "failed"
      \/ error' = FALSE /\ mode' = "parse"
  BY DEF Parse
<1>4. ParserTypes'
  BY <1>1, <1>3 DEF ParserInv, ParserTypes
<1>5. ToSet(<<>>) = {} /\ NodesOf(<<>>) = {} /\ Nested(<<>>, "running")
  BY DEF ToSet, NodesOf, Nested
<1>6. OpenInv'
  BY <1>1, <1>2, <1>3, <1>5 DEF OpenInv
<1>7. CountInv'
  BY <1>1, <1>2, <1>3 DEF CountInv
<1> QED BY <1>1, <1>4, <1>6, <1>7

LEMMA TextOverStep ==
  ASSUME ParserInv, TextOver
  PROVE  [DomNext]_domVars /\ ParserTypes' /\ OpenInv' /\ CountInv'
<1>1. /\ mode = "parse" /\ status = "running" /\ rest' = rest /\ open' = open /\ error' = error
      /\ _unlinked' = _unlinked /\ _nUntracked' = _nUntracked /\ [DomNext]_domVars
  BY DomStays DEF TextOver, Parsing
<1>2. /\ ToSet(_unlinked) = NodesOf(open) /\ Nested(open, "running") /\ ~ error
      /\ Counted(ToSet(_unlinked), _nUntracked)
  BY <1>1 DEF ParserInv, OpenInv, CountInv
<1>3. CASE open = <<>>
  <2>1. mode' = "read" /\ status' = "running"
    BY <1>1, <1>3 DEF TextOver
  <2> QED BY <1>1, <1>2, <1>3, <2>1 DEF ParserInv, ParserTypes, OpenInv, CountInv
<1>4. CASE open # <<>>
  <2>1. mode' = "parse" /\ status' = "null"
    BY <1>1, <1>4 DEF TextOver
  <2>2. Nested(open, "null")
    BY <1>2, <1>4 DEF Nested
  <2> QED BY <1>1, <1>2, <2>1, <2>2 DEF ParserInv, ParserTypes, OpenInv, CountInv
<1> QED BY <1>3, <1>4

LEMMA Entering ==
  ASSUME ParserInv, Parsing("running"), NEW k \in Pool, NEW v \in Value,
         NEW tag \in {"leaf", "open", "close", "empty"}, NEW s \in {"running", "returned", "null"},
         NEW after \in Seq(Tokens), Enters(k, v, tag, s, after),
         error' \in BOOLEAN, error' => s = "null", s = "running" => k = "element"
  PROVE  [DomNext]_domVars /\ ParserTypes' /\ OpenInv' /\ CountInv'
<1>1. PICK n : n = Head(Available(k))
  OBVIOUS
<1>2. PICK f : f = [node |-> n, tag |-> tag, end |-> None]
  OBVIOUS
<1>3. /\ CreateUnlinkedNode(k, v) /\ open' = Append(open, f) /\ status' = s /\ rest' = after
      /\ mode' = mode
  BY <1>1, <1>2 DEF Enters
<1>4. mode = "parse" /\ doomed = <<>> /\ status = "running"
  BY DEF Parsing
<1>5. [DomNext]_domVars
  BY <1>3, <1>4 DEF DomNext, ParserCall
<1>6. /\ open \in Seq(Frame) /\ ToSet(_unlinked) = NodesOf(open) /\ Nested(open, "running")
      /\ Counted(ToSet(_unlinked), _nUntracked)
  BY <1>4 DEF ParserInv, ParserTypes, OpenInv, CountInv
<1>7. /\ n \in Item /\ n[1] = k /\ n \notin ToSet(_unlinked)
      /\ ToSet(_unlinked') = ToSet(_unlinked) \cup {n}
      /\ Counted(ToSet(_unlinked'), _nUntracked')
  BY <1>1, <1>3, <1>6, CreatesOne DEF ParserInv, FInv
<1>8. f \in Frame /\ f.node = n
  BY <1>2, <1>7 DEF Frame
<1>9. /\ open' \in Seq(Frame) /\ NodesOf(open') = NodesOf(open) \cup {n} /\ Nested(open', s)
  BY <1>3, <1>6, <1>7, <1>8, Pushed
<1>10. ParserTypes'
  BY <1>3, <1>4, <1>9 DEF ParserTypes
<1>11. OpenInv'
  BY <1>3, <1>4, <1>6, <1>7, <1>9 DEF OpenInv
<1>12. CountInv'
  BY <1>3, <1>4, <1>7 DEF CountInv
<1> QED BY <1>5, <1>10, <1>11, <1>12

LEMMA ReadNodeStep ==
  ASSUME ParserInv, ReadNode
  PROVE  [DomNext]_domVars /\ ParserTypes' /\ OpenInv' /\ CountInv'
<1> DEFINE text == SkipWhiteSpace(rest)
           x == text[1]
           after == Tail(text)
           beyond == SubSeq(rest, TextEnd(rest) + 1, Len(rest))
<1>1. Parsing("running") /\ text # <<>>
  BY DEF ReadNode
<1>2. rest \in Seq(Tokens) /\ ~ error /\ error \in BOOLEAN
  BY <1>1 DEF Parsing, ParserInv, ParserTypes, CountInv
<1>3. text \in Seq(Tokens)
  BY <1>2, SkipType
<1>4. TextValue(rest) \in Value /\ beyond \in Seq(Tokens)
  BY <1>2, TextIs
<1>5. x \in Tokens /\ after \in Seq(Tokens)
  <2> HIDE DEF text
  <2> QED BY <1>1, <1>3
<1>6. x.v \in Value
  BY <1>5 DEF Tokens
<1>7. "element" \in Pool /\ "text" \in Pool /\ "comment" \in Pool
  BY DEF Pool
<1>8. CASE /\ x.t = "text"
           /\ Enters("text", TextValue(rest), "leaf", IF beyond = <<>> THEN "null" ELSE "returned", beyond)
           /\ error' = (beyond = <<>>)
  <2>1. error' \in BOOLEAN /\ (error' => beyond = <<>>)
    BY <1>8
  <2> HIDE DEF beyond
  <2> QED BY <1>1, <1>4, <1>7, <1>8, <2>1, Entering
<1>9. CASE /\ x.t = "decl"
           /\ Enters("comment", x.v, "leaf", "returned", after)
           /\ UNCHANGED error
  BY <1>1, <1>2, <1>5, <1>6, <1>7, <1>9, Entering
<1>10. CASE /\ x.t \in {"empty", "close"}
            /\ Enters("element", x.v, x.t, "returned", after)
            /\ UNCHANGED error
  BY <1>1, <1>2, <1>5, <1>6, <1>7, <1>10, Entering
<1>11. CASE /\ x.t = "open"
            /\ Enters("element", x.v, "open",
                      IF after = <<>> THEN "returned" ELSE IF TooDeep THEN "null" ELSE "running", after)
            /\ error' = (after # <<>> /\ TooDeep)
  <2>1. error' \in BOOLEAN /\ (error' => after # <<>> /\ TooDeep)
    BY <1>11
  <2> HIDE DEF after, x
  <2> QED BY <1>1, <1>5, <1>6, <1>7, <1>11, <2>1, Entering
<1>12. CASE /\ x.t = "cut"
            /\ Enters(IF x.v = "xml" THEN "comment" ELSE "element", x.v, "open", "null", <<>>)
            /\ error' = TRUE
  <2>1. PICK kk \in Pool : kk = IF x.v = "xml" THEN "comment" ELSE "element"
    BY <1>7
  <2>2. Enters(kk, x.v, "open", "null", <<>>)
    BY <1>12, <2>1
  <2>3. <<>> \in Seq(Tokens) /\ error' \in BOOLEAN
    BY <1>12
  <2> HIDE DEF x
  <2> QED BY <1>1, <1>6, <2>2, <2>3, Entering
<1> QED BY <1>8, <1>9, <1>10, <1>11, <1>12 DEF ReadNode

LEMMA GivesUpStep ==
  ASSUME ParserInv, mode = "parse", doomed = <<>>, open # <<>>, GivesUp
  PROVE  [DomNext]_domVars /\ ParserTypes' /\ OpenInv' /\ CountInv'
<1>1. /\ DeleteNode(links, Inner) /\ error' = TRUE /\ Returns("null", None)
      /\ _nUntracked' = _nUntracked /\ rest' = rest
  BY DEF GivesUp
<1>2. Inner \in ToSet(_unlinked)
  BY InnerIs
<1>3. [DomNext]_domVars
  BY <1>1, <1>2 DEF DomNext, ParserCall
<1>4. IInv'
  BY <1>3, StepKeeps DEF ParserInv, FInv
<1>5. ToSet(_unlinked') = ToSet(_unlinked) \ {Inner}
  BY <1>1, <1>2, DeletesOne DEF ParserInv, FInv
<1>6. error' \in BOOLEAN
  BY <1>1
<1>7. /\ open' \in Seq(Frame)
      /\ NodesOf(open') = ToSet(_unlinked) \ {Inner}
      /\ \/ mode' = "parse" /\ status' = "null" /\ Nested(open', status')
         \/ mode' = "failed" /\ open' = <<>> /\ status' = "running" /\ ToSet(_unlinked) \ {Inner} = {}
  BY <1>1, <1>6, ReturnsTo
<1>8. ParserTypes'
  BY <1>1, <1>7 DEF ParserInv, ParserTypes
<1>9. OpenInv'
  <2>1. _unlinked' \in Seq(Item)
    BY <1>4 DEF IInv, DomTypeOK
  <2>2. mode' = "failed" => _unlinked' = <<>>
    BY <1>5, <1>7, <2>1, NothingLeft
  <2> QED BY <1>5, <1>7, <2>2 DEF OpenInv
<1>10. CountInv'
  BY <1>1, <1>7 DEF CountInv
<1> QED BY <1>3, <1>8, <1>9, <1>10

LEMMA NodeFailsStep ==
  ASSUME ParserInv, NodeFails
  PROVE  [DomNext]_domVars /\ ParserTypes' /\ OpenInv' /\ CountInv'
<1>1. mode = "parse" /\ doomed = <<>> /\ status = "null" /\ GivesUp
  BY DEF NodeFails, Parsing
<1>2. open # <<>>
  BY <1>1 DEF ParserInv, OpenInv, Nested
<1> QED BY <1>1, <1>2, GivesUpStep

LEMMA EndTagStep ==
  ASSUME ParserInv, EndTagRead
  PROVE  [DomNext]_domVars /\ ParserTypes' /\ OpenInv' /\ CountInv'
<1>1. /\ mode = "parse" /\ doomed = <<>> /\ status = "returned"
      /\ DeleteNode(links, Inner) /\ SetTracked(Inner) /\ Returns("returned", value[Inner])
      /\ error' = error /\ rest' = rest
  BY DEF EndTagRead, Parsing
<1>2. open # <<>> /\ ~ error /\ error \in BOOLEAN /\ Counted(ToSet(_unlinked), _nUntracked)
  BY <1>1 DEF ParserInv, ParserTypes, OpenInv, CountInv, Nested
<1>3. Inner \in ToSet(_unlinked) /\ Inner \in Item
  BY <1>1, <1>2, InnerIs
<1>4. [DomNext]_domVars
  BY <1>1, <1>3 DEF DomNext, ParserCall
<1>5. /\ ToSet(_unlinked') = ToSet(_unlinked) \ {Inner}
      /\ Counted(ToSet(_unlinked'), _nUntracked')
  BY <1>1, <1>2, <1>3, DeletesOne DEF ParserInv, FInv
<1>6. PICK e \in Value \cup {None} : e = value[Inner]
  BY <1>3 DEF ParserInv, FInv, IInv, DomTypeOK, Node
<1>7. Returns("returned", e)
  BY <1>1, <1>6
<1>8. error' \in BOOLEAN
  BY <1>1, <1>2
<1>9. /\ open' \in Seq(Frame)
      /\ NodesOf(open') = ToSet(_unlinked) \ {Inner}
      /\ \/ mode' = "parse" /\ status' = "returned" /\ Nested(open', status')
         \/ mode' = (IF error' THEN "failed" ELSE "read") /\ open' = <<>> /\ status' = "running"
  BY <1>1, <1>2, <1>7, <1>8, ReturnsTo
<1>10. mode' = "parse" \/ mode' = "read"
  BY <1>1, <1>2, <1>9
<1>11. ParserTypes'
  BY <1>1, <1>8, <1>9, <1>10 DEF ParserInv, ParserTypes
<1>12. OpenInv'
  BY <1>5, <1>9, <1>10 DEF OpenInv
<1>13. CountInv'
  BY <1>1, <1>2, <1>5 DEF CountInv
<1> QED BY <1>4, <1>11, <1>12, <1>13

(* The frame below the innermost is the document or an element that is not  *)
(* inserted: the call puts no node below itself.                            *)
LEMMA OuterIs ==
  ASSUME ParserInv, mode = "parse", open # <<>>
  PROVE  Outer \in Parents /\ Inner # Outer /\ Inner \notin Ancestors(Outer)
<1>1. /\ open \in Seq(Frame) /\ Nested(open, status)
      /\ Inner = open[Len(open)].node /\ Inner \in ToSet(_unlinked) /\ Inner \in Live
      /\ NodesOf(open) = ToSet(_unlinked)
  BY InnerIs DEF ParserInv, ParserTypes, OpenInv
<1>2. ToSet(_unlinked) \subseteq Live /\ Live \subseteq Item /\ Doc \notin Item
  BY UnlinkedFinite, LiveNodes, NullAssumption DEF ParserInv, FInv
<1>3. /\ Outer \in Parents /\ Inner # Outer /\ Outer \in Node /\ links.parent[Outer] = None
  <2>1. CASE Len(open) = 1
    <3>1. Outer = Doc
      BY <2>1 DEF Outer
    <3> QED BY <1>1, <1>2, <3>1, LiveNodes DEF Parents, ParserInv, FInv, IInv, FreeApart
  <2>2. CASE Len(open) # 1
    <3>1. Len(open) \in Nat /\ Len(open) # 0
      BY <1>1
    <3>2. Len(open) - 1 \in Nat /\ Len(open) - 1 # 0
      BY <2>2, <3>1
    <3>3. PICK m \in Nat : m = Len(open) - 1 /\ m # 0
      BY <3>2
    <3>4. m \in 1..Len(open) /\ m < Len(open) /\ Len(open) \in 1..Len(open) /\ DOMAIN open = 1..Len(open)
      BY <1>1, <3>3
    <3>5. Outer = open[m].node
      BY <2>2, <3>3 DEF Outer
    <3>6. Outer[1] = "element" /\ Outer # Inner
      BY <1>1, <3>4, <3>5 DEF Nested
    <3>7. Outer \in ToSet(_unlinked)
      BY <1>1, <3>4, <3>5 DEF NodesOf
    <3>8. Outer \in Live /\ Outer # Doc
      BY <1>2, <3>7
    <3>9. kind(Outer) = "element"
      BY <3>6, <3>8 DEF kind
    <3>10. links.parent[Outer] = None
      BY <3>7, <3>8 DEF ParserInv, FInv, IInv, Placed
    <3> QED BY <3>6, <3>8, <3>9, <3>10, LiveNodes DEF Parents
  <2> QED BY <2>1, <2>2
<1>4. links \in Links /\ NoCircle(links.parent)
  BY DEF ParserInv, FInv, IInv, DomTypeOK, Links
<1>5. Ancestors(Outer) = Anc(links, Outer)
  BY <1>3, <1>4, AncestorsAre
<1>6. Anc(links, Outer) = {Outer}
  BY <1>3, <1>4, AncIs
<1> QED BY <1>3, <1>5, <1>6

LEMMA NodeReadStep ==
  ASSUME ParserInv, NodeRead
  PROVE  [DomNext]_domVars /\ ParserTypes' /\ OpenInv' /\ CountInv'
<1>1. mode = "parse" /\ doomed = <<>> /\ status = "returned"
  BY DEF NodeRead, Parsing
<1>2. /\ open # <<>> /\ ~ error /\ error \in BOOLEAN /\ Counted(ToSet(_unlinked), _nUntracked)
      /\ open \in Seq(Frame) /\ Nested(open, status)
  BY <1>1 DEF ParserInv, ParserTypes, OpenInv, CountInv, Nested
<1>3. CASE Misplaced
  BY <1>1, <1>2, <1>3, GivesUpStep DEF NodeRead
<1>4. CASE ~ Misplaced
  <2>1. /\ InsertEndChild(Outer, Inner) /\ open' = Front(open) /\ status' = "running"
        /\ mode' = mode /\ error' = error /\ rest' = rest
    BY <1>4 DEF NodeRead
  <2>2. /\ Inner = open[Len(open)].node /\ Inner \in Live
        /\ NodesOf(open) = ToSet(_unlinked)
    BY <1>1, <1>2, InnerIs
  <2>3. [DomNext]_domVars
    BY <1>1, <1>2, <2>1, <2>2, OuterIs DEF DomNext, Edit
  <2>4. /\ ToSet(_unlinked') = ToSet(_unlinked) \ {Inner}
        /\ Counted(ToSet(_unlinked'), _nUntracked')
    BY <1>1, <1>2, <2>1, <2>2, InsertsOne DEF InsertEndChild, ParserInv, FInv
  <2>5. /\ open' \in Seq(Frame) /\ Len(open') = Len(open) - 1
        /\ \A i \in 1..Len(open') : open'[i].node = open[i].node
    <3>0. Len(open) \in Nat /\ Len(open) # 0
      BY <1>2
    <3>1. PICK m \in Nat : m = Len(open) - 1 /\ m \in 0..Len(open)
      BY <3>0
    <3>2. open' = SubSeq(open, 1, m)
      BY <2>1, <3>1 DEF Front
    <3>3. /\ SubSeq(open, 1, m) \in Seq(Frame) /\ Len(SubSeq(open, 1, m)) = m
          /\ \A i \in 1..m : SubSeq(open, 1, m)[i] = open[i]
      BY <1>2, <3>1
    <3> QED BY <3>1, <3>2, <3>3
  <2>6. NodesOf(open') = NodesOf(open) \ {Inner} /\ Nested(open', "running")
    BY <1>2, <2>2, <2>5, Popped
  <2>7. ParserTypes'
    BY <1>1, <1>2, <2>1, <2>5 DEF ParserInv, ParserTypes
  <2>8. OpenInv'
    BY <1>1, <2>1, <2>2, <2>4, <2>6 DEF OpenInv
  <2>9. CountInv'
    BY <1>2, <2>1, <2>4 DEF CountInv
  <2> QED BY <2>3, <2>7, <2>8, <2>9
<1> QED BY <1>3, <1>4

(* The pools are emptied when every node is back. *)
LEMMA AllBack ==
  ASSUME FInv, doomed = <<>>, _unlinked = <<>>, links.first[Doc] = None
  PROVE  Live = {}
<1> SUFFICES ASSUME Live # {} PROVE FALSE
  OBVIOUS
<1>1. PICK x \in Live : links.parent[x] \notin Live
  BY LiveNodes DEF FInv, NoCircle
<1>2. ToSet(_unlinked) = {} /\ ToSet(doomed) = {}
  BY DEF ToSet
<1>3. links.parent[x] # None
  BY <1>2 DEF FInv, IInv, Placed
<1>4. /\ links \in Links /\ Agree(links) /\ x \in Node
      /\ links.parent[x] \in Node \cup {None} /\ links.first[links.parent[x]] # None
  <2>1. links \in Links /\ Agree(links) /\ NoCircle(links.next) /\ x \in Node
    BY LiveNodes DEF FInv, IInv, DomTypeOK, Links
  <2>2. links.parent[x] \in Node \cup {None}
    BY <2>1 DEF Links, Pointers
  <2> QED BY <1>3, <2>1, <2>2, ParentHasChild
<1>5. links.parent[x] = Doc
  BY <1>1, <1>3, <1>4 DEF FInv, IInv, FreeApart
<1> QED BY <1>4, <1>5

LEMMA NoneCounted ==
  ASSUME NEW c, \A k \in Pool : c[k] = 0
  PROVE  Counted({}, c)
<1>1. \A k \in Pool : {n \in {} : n[1] = k} = {}
  OBVIOUS
<1> QED BY <1>1, FS_EmptySet DEF Counted

LEMMA CleanUpStep ==
  ASSUME ParserInv, CleanUp
  PROVE  [DomNext]_domVars /\ ParserTypes' /\ OpenInv' /\ CountInv'
<1>1. /\ mode = "failed" /\ doomed = <<>> /\ rest' = rest /\ open' = open
      /\ status' = status /\ error' = error
  BY DEF CleanUp
<1>2. open = <<>> /\ status = "running" /\ _unlinked = <<>> /\ error \in BOOLEAN
  BY <1>1 DEF ParserInv, ParserTypes, OpenInv
<1>3. CASE links.first[Doc] # None
  <2>1. DeleteChild(links.first[Doc]) /\ mode' = mode
    BY <1>3 DEF CleanUp
  <2>2. [DomNext]_domVars
    BY <1>1, <1>3, <2>1 DEF DomNext, ClearStep
  <2>3. _unlinked' = _unlinked /\ _nUntracked' = _nUntracked
    BY <1>3, <2>1, LiveNodes, FirstHasParent, DeletesNone DEF ParserInv, FInv
  <2> QED BY <1>1, <2>1, <2>2, <2>3 DEF ParserInv, ParserTypes, OpenInv, CountInv
<1>4. CASE links.first[Doc] = None
  <2>1. EmptyPools /\ mode' = "read"
    BY <1>4 DEF CleanUp
  <2>2. Live = {}
    BY <1>1, <1>2, <1>4, AllBack DEF ParserInv
  <2>3. [DomNext]_domVars
    BY <1>1, <2>1, <2>2 DEF DomNext, ParserCall
  <2>4. ToSet(_unlinked') = {} /\ \A k \in Pool : _nUntracked'[k] = 0
    BY <1>2, <2>1 DEF EmptyPools, ToSet
  <2>5. Counted(ToSet(_unlinked'), _nUntracked')
    BY <2>4, NoneCounted
  <2> QED BY <1>1, <1>2, <2>1, <2>3, <2>5 DEF ParserInv, ParserTypes, OpenInv, CountInv
<1> QED BY <1>3, <1>4

LEMMA BuildStep ==
  ASSUME ParserInv, Build
  PROVE  [DomNext]_domVars /\ ParserTypes' /\ OpenInv' /\ CountInv'
<1>1. /\ mode = "build" /\ doomed = <<>> /\ Edit /\ mode' = mode /\ rest' = rest /\ open' = open
      /\ status' = status /\ error' = error
  BY DEF Build, parserVars
<1>2. [DomNext]_domVars
  BY <1>1 DEF DomNext
<1>3. Counted(ToSet(_unlinked'), _nUntracked')
  BY <1>1, CallsCount DEF ParserInv, FInv, CountInv
<1> QED BY <1>1, <1>2, <1>3 DEF ParserInv, ParserTypes, OpenInv, CountInv

LEMMA CloseStep ==
  ASSUME ParserInv, Close
  PROVE  [DomNext]_domVars /\ ParserTypes' /\ OpenInv' /\ CountInv'
<1>1. /\ mode \in {"build", "read"} /\ mode' = "close" /\ rest' = rest /\ open' = open
      /\ status' = status /\ error' = error /\ [DomNext]_domVars
      /\ _unlinked' = _unlinked /\ _nUntracked' = _nUntracked
  BY DomStays DEF Close
<1> QED BY <1>1 DEF ParserInv, ParserTypes, OpenInv, CountInv

LEMMA ClearsStep ==
  ASSUME ParserInv, Clear
  PROVE  [DomNext]_domVars /\ ParserTypes' /\ OpenInv' /\ CountInv'
<1>1. /\ mode = "close" /\ doomed = <<>> /\ rest' = rest /\ open' = open
      /\ status' = status /\ error' = error
  BY DEF Clear
<1>2. Counted(ToSet(_unlinked), _nUntracked)
  BY <1>1 DEF ParserInv, CountInv
<1>3. CASE Cleared
  <2>1. /\ mode' = "closed" /\ [DomNext]_domVars
        /\ _unlinked' = _unlinked /\ _nUntracked' = _nUntracked
    BY <1>3, DomStays DEF Clear
  <2> QED BY <1>1, <2>1 DEF ParserInv, ParserTypes, OpenInv, CountInv
<1>4. CASE ~ Cleared
  <2>1. ClearStep /\ mode' = mode
    BY <1>4 DEF Clear
  <2>2. [DomNext]_domVars
    BY <1>1, <2>1 DEF DomNext
  <2>3. Counted(ToSet(_unlinked'), _nUntracked')
    BY <1>1, <1>2, <2>1, CallsCount DEF ParserInv, FInv
  <2> QED BY <1>1, <2>1, <2>2, <2>3 DEF ParserInv, ParserTypes, OpenInv, CountInv
<1> QED BY <1>3, <1>4

LEMMA StaysStep ==
  ASSUME ParserInv, DestructorStep \/ UNCHANGED vars
  PROVE  [DomNext]_domVars /\ ParserTypes' /\ OpenInv' /\ CountInv'
<1>1. /\ mode' = mode /\ rest' = rest /\ open' = open /\ status' = status /\ error' = error
  BY DEF DestructorStep, vars, parserVars
<1>2. [DomNext]_domVars /\ _unlinked' = _unlinked /\ _nUntracked' = _nUntracked
  BY DomStays, DestroysNone DEF DestructorStep, vars, DomNext, ParserInv, FInv
<1> QED BY <1>1, <1>2 DEF ParserInv, ParserTypes, OpenInv, CountInv

LEMMA ParserInit == Init => ParserInv
<1> SUFFICES ASSUME Init PROVE ParserInv
  OBVIOUS
<1>1. /\ FInv /\ _unlinked = <<>> /\ \A k \in Pool : _nUntracked[k] = 0
  BY InitOfForest DEF Init, DomInit
<1>2. ToSet(_unlinked) = {}
  BY <1>1 DEF ToSet
<1>3. Counted(ToSet(_unlinked), _nUntracked)
  BY <1>1, <1>2, NoneCounted
<1>4. rest \in Seq(Tokens)
  <2>1. CASE Idle
    BY <2>1 DEF Idle
  <2>2. ASSUME NEW r \in Received, Arrives(r) PROVE rest \in Seq(Tokens)
    BY <2>2, ReceivedAssumption DEF Arrives
  <2> QED BY <2>1, <2>2 DEF Init
<1>5. mode \in {"build", "sent"} /\ open = <<>> /\ status = "running" /\ error = FALSE
  BY DEF Init, Idle, Arrives
<1>6. open \in Seq(Frame)
  BY <1>5
<1>7. ParserTypes
  BY <1>4, <1>5, <1>6 DEF ParserTypes
<1>8. OpenInv /\ CountInv
  BY <1>1, <1>3, <1>5 DEF OpenInv, CountInv
<1> QED BY <1>1, <1>7, <1>8 DEF ParserInv

LEMMA ParserKeeps == ParserInv /\ [Next]_vars => [DomNext]_domVars /\ ParserInv'
<1> SUFFICES ASSUME ParserInv, [Next]_vars
             PROVE  [DomNext]_domVars /\ ParserInv'
  OBVIOUS
<1>1. [DomNext]_domVars /\ ParserTypes' /\ OpenInv' /\ CountInv'
  <2>1. CASE Parse
    BY <2>1, ParseStep
  <2>2. CASE TextOver
    BY <2>2, TextOverStep
  <2>3. CASE ReadNode
    BY <2>3, ReadNodeStep
  <2>4. CASE NodeFails
    BY <2>4, NodeFailsStep
  <2>5. CASE EndTagRead
    BY <2>5, EndTagStep
  <2>6. CASE NodeRead
    BY <2>6, NodeReadStep
  <2>7. CASE CleanUp
    BY <2>7, CleanUpStep
  <2>8. CASE Build
    BY <2>8, BuildStep
  <2>9. CASE Close
    BY <2>9, CloseStep
  <2>10. CASE Clear
    BY <2>10, ClearsStep
  <2>11. CASE DestructorStep \/ Closed \/ UNCHANGED vars
    BY <2>11, StaysStep DEF Closed
  <2> QED BY <2>1, <2>2, <2>3, <2>4, <2>5, <2>6, <2>7, <2>8, <2>9, <2>10, <2>11 DEF Next
<1>2. FInv'
  BY <1>1, StepOfForest DEF ParserInv
<1> QED BY <1>1, <1>2 DEF ParserInv

LEMMA ParserInvHolds == Spec => []ParserInv
BY ParserInit, ParserKeeps, PTL DEF Spec

(* Whatever text arrives, parsing it, giving it up and closing the document *)
(* make only calls that the document allows: the frames of ParseDeep hold   *)
(* exactly the nodes not inserted, so what is inserted or deleted is        *)
(* neither linked nor above itself, and when a failed parse empties the     *)
(* pools no node is out of them.  Between two calls the pools' counts of    *)
(* untracked nodes are right, also after a parse that failed.               *)
THEOREM ParserMakesAllowedCalls == Spec => AllowedCallsOnly
<1>1. Init => DomInit
  BY DEF Init
<1>2. ParserInv => NodesBalanced
  BY DEF ParserInv, CountInv, NodesBalanced, Settled, Counted
<1> QED BY <1>1, <1>2, ParserInvHolds, ParserKeeps, PTL DEF Spec, AllowedCallsOnly, DomSpec

(* The parser's document is a forest all the time, with links that agree    *)
(* and pools that lose no item, whatever text arrives.                      *)
THEOREM ParsedDocumentSafe == Spec => []LinksAgree /\ []PoolsBalanced /\ ImplementsForest
<1>1. Spec => DomSpec
  BY ParserMakesAllowedCalls DEF AllowedCallsOnly
<1> QED BY <1>1, LinksAlwaysAgree, PoolsAlwaysBalanced, DocumentIsForest
=============================================================================
