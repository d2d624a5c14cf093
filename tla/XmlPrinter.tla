----------------------------- MODULE XmlPrinter -----------------------------
(***************************************************************************)
(* XMLPrinter of TinyXML-2: the text of a document, as the tokens its      *)
(* parser tells apart.  A document is the sequence of its trees, a tree a  *)
(* record of the kind of its root, its value and its subtrees.             *)
(***************************************************************************)
EXTENDS Integers, Sequences, SequencesExt

Tree(k, v, kids) == [kind |-> k, value |-> v, kids |-> kids]

Token(t, v) == [t |-> t, v |-> v]
Blank == Token("blank", "blank")

(* XMLPrinter: what was printed, and the members that decide on the layout. *)
Printer == [out |-> <<>>, _depth |-> 0, _textDepth |-> -1, _elementJustOpened |-> FALSE,
            _firstElement |-> TRUE]

SealElementIfJustOpened(p) == [p EXCEPT !._elementJustOpened = FALSE]

AlwaysIndented(p) == [p EXCEPT !.out = IF p._firstElement THEN @ ELSE Append(@, Blank)]

(* A line break and PrintSpace, unless there is text in an open element. *)
Indented(p) == [p EXCEPT !.out = IF p._textDepth >= 0 \/ p._firstElement THEN @ ELSE Append(@, Blank)]

OpenElement(p, name) ==
  LET q == Indented(SealElementIfJustOpened(p))
  IN [q EXCEPT !.out = Append(@, Token("open", name)), !._elementJustOpened = TRUE,
               !._firstElement = FALSE, !._depth = @ + 1]

(* The end tag, or the end of the tag that was opened last. *)
EndTag(p, name) ==
  IF p._elementJustOpened
  THEN [p EXCEPT !.out = Append(Front(@), Token("empty", name)), !._elementJustOpened = FALSE]
  ELSE LET q == Indented(p) IN [q EXCEPT !.out = Append(@, Token("close", name))]

CloseElement(p, name) ==
  LET q == EndTag(p, name)
      d == p._depth - 1
  IN [q EXCEPT !._depth = d,
               !._textDepth = IF @ = d THEN -1 ELSE @,
               !.out = IF d = 0 THEN Append(@, Blank) ELSE @]

PushText(p, text) ==
  LET q == SealElementIfJustOpened(p)
  IN [q EXCEPT !._textDepth = p._depth - 1,
               !.out = CASE text = "empty" -> @
                         [] text = "blank" -> Append(@, Blank)
                         [] OTHER -> Append(@, Token("text", text))]

PushDeclaration(p, v) ==
  LET q == Indented(SealElementIfJustOpened(p))
  IN [q EXCEPT !.out = Append(@, Token("decl", v)), !._firstElement = FALSE]

(* Accept of a node: the visitor enters it, visits its children, leaves it. *)
RECURSIVE Accept(_, _)
Accept(p, n) ==
  CASE n.kind = "element" -> CloseElement(FoldLeft(Accept, OpenElement(p, n.value), n.kids), n.value)
    [] n.kind = "text"    -> PushText(p, n.value)
    [] n.kind = "comment" -> PushDeclaration(p, n.value)

Printed(doc) == FoldLeft(Accept, Printer, doc).out
=============================================================================
