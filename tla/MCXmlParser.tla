----------------------------- MODULE MCXmlParser -----------------------------
EXTENDS XmlReading

MCMaxBlocks == [k \in Pool |-> IF k = "element" THEN 3 ELSE 2]
MCMaxNodes == [k \in Pool |-> IF k = "element" THEN 2 ELSE IF k = "text" THEN 1 ELSE 0]

(* Texts that a sender other than the two programs could send. *)
MCForeign ==
  LET o(v) == Token("open", v)
      c(v) == Token("close", v)
      d == Token("decl", "xml")
      t == Token("text", "hi")
  IN {<<>>, <<Blank>>, <<c("a")>>, <<o("a"), c("other")>>, <<o("a"), o("other"), c("a"), c("other")>>,
      <<o("a"), d, c("a")>>, <<o("a"), c("a"), c("a"), o("other")>>, <<Blank, d, t, o("a"), c("a")>>,
      <<o("a"), t, c("other")>>, <<o("a"), c("a"), d>>, <<Token("empty", "a"), c("other")>>}
=============================================================================
