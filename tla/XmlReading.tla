----------------------------- MODULE XmlReading -----------------------------
(***************************************************************************)
(* What a document that was printed (XmlPrinter) is read as (XmlParser):   *)
(* whole, cut behind or inside of any token, or made by no printer.        *)
(***************************************************************************)
EXTENDS XmlParser, XmlPrinter

CONSTANTS
  MaxTree,    \* bound: nodes of a document that arrives as a whole
  MaxCut,     \* bound: nodes of one that arrives in part
  Foreign     \* texts that no printer made

(* What a sender can build with at most m nodes. *)
Documents(m) ==
  LET upTo[n \in 0..m] ==
        IF n = 0 THEN {<<>>}
        ELSE UNION {{<<t>> \o f : t \in {Tree("element", v, kids) : v \in Name, kids \in upTo[k - 1]}
                                        \cup IF k > 1 THEN {}
                                             ELSE {Tree("text", v, <<>>) : v \in Text}
                                                    \cup {Tree("comment", "xml", <<>>)},
                                  f \in upTo[n - k]} : k \in 1..n}
  IN UNION {upTo[n] : n \in 0..m}

(* The first k tokens, and perhaps some of the next one. *)
Torn(k, text) ==
  {SubSeq(text, 1, k)} \cup
  IF k = Len(text) THEN {}
  ELSE {Append(SubSeq(text, 1, k),
               IF text[k + 1].t \in {"text", "blank"} THEN Token(text[k + 1].t, "padded")
               ELSE Token("cut", text[k + 1].v))}

(* The documents and texts of the run, for Received.                        *)
Messages ==
  LET message(d, a, text) == [doc |-> d, arrived |-> a, text |-> text]
  IN  {message(d, "whole", Printed(d)) : d \in Documents(MaxTree)}
      \cup UNION {{message(d, "cut", text) : text \in UNION {Torn(k, Printed(d)) : k \in 0..(Len(Printed(d)) - 1)}}
                    : d \in Documents(MaxCut)}
      \cup {message(<<>>, "foreign", text) : text \in Foreign}

-----------------------------------------------------------------------------
(***************************************************************************)
(*                               Properties                                *)
(***************************************************************************)
(* The tree the document has, as the printer would visit it. *)
RECURSIVE TreeOf(_)
TreeOf(n) == Tree(kind(n), value[n], [i \in DOMAIN ChildrenOf(n) |-> TreeOf(ChildrenOf(n)[i])])

Parsed == [i \in DOMAIN ChildrenOf(Doc) |-> TreeOf(ChildrenOf(Doc)[i])]

(* Texts of nothing or of white space are not read back. *)
RECURSIVE Legible(_)
Legible(doc) ==
  LET kept == SelectSeq(doc, LAMBDA n : n.kind # "text" \/ n.value \notin {"empty", "blank"})
  IN [i \in DOMAIN kept |-> [kept[i] EXCEPT !.kids = Legible(@)]]

(* What the programs send: declarations first, then elements, and no two    *)
(* texts side by side.                                                      *)
RECURSIVE WellFormedBelow(_)
WellFormedBelow(n) ==
  /\ \A i \in DOMAIN n.kids : n.kids[i].kind # "comment" /\ WellFormedBelow(n.kids[i])
  /\ \A i \in 2..Len(n.kids) : n.kids[i].kind # "text" \/ n.kids[i - 1].kind # "text"

WellFormed(doc) ==
  /\ doc # <<>>
  /\ \A i \in DOMAIN doc : doc[i].kind # "text" /\ WellFormedBelow(doc[i])
  /\ \A i \in 2..Len(doc) : doc[i].kind = "comment" => doc[i - 1].kind = "comment"

(* Nesting as the parser counts it: elements whose start tag is printed.    *)
RECURSIVE Nesting(_)
Nesting(doc) ==
  LET below(n) == IF n.kind = "element" /\ n.kids # <<>> THEN 1 + Nesting(n.kids) ELSE 0
  IN FoldLeft(LAMBDA m, n : IF below(n) > m THEN below(n) ELSE m, 0, doc)

(* A field of the message: the text of its element, read and sent. *)
FieldRead(name) == LET e == FirstChildElement(Doc, name)
                   IN IF e = None THEN None ELSE GetText(e)

FieldSent(name) ==
  LET i == SelectInSeq(sent.doc, LAMBDA n : n.kind = "element" /\ n.value = name)
      kids == Legible(sent.doc[i].kids)
  IN IF i # 0 /\ kids # <<>> /\ kids[1].kind = "text" THEN kids[1].value ELSE None

(* What the programs print is what they read, and every field has its text, *)
(* up to texts of nothing or white space, which are not there (GetText      *)
(* returns a null pointer, which the handlers do not expect), unless        *)
(* elements are nested too deep, which is an error.                         *)
PrintedReadsBack ==
  mode = "read" /\ sent.arrived = "whole" /\ WellFormed(sent.doc) =>
    /\ error <=> Nesting(sent.doc) + 1 >= MaxDepth
    /\ ~ error => /\ Parsed = Legible(sent.doc)
                  /\ \A name \in Name : FieldRead(name) = FieldSent(name)

(* A text that arrived in part is an error or a document of the first       *)
(* elements, each of them whole: of a request cut behind its type the       *)
(* handler finds the type and no body (handler_server.cpp:16-19).           *)
CutReadsPrefix ==
  mode = "read" /\ sent.arrived = "cut" /\ WellFormed(sent.doc) /\ ~ error =>
    \E k \in 1..Len(sent.doc) : Parsed = Legible(SubSeq(sent.doc, 1, k))
=============================================================================
