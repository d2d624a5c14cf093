------------------------------ MODULE XmlParser ------------------------------
(***************************************************************************)
(* The life of an XMLDocument in the two programs.  The sender's is built  *)
(* and closed; the receiver's parses what a sender printed, or as much of  *)
(* it as one recv delivered, is read and closed.  Each step of the parser  *)
(* is one call on a node: the frames of ParseDeep are the stack open.      *)
(***************************************************************************)
EXTENDS XmlDocument

CONSTANTS
  MaxNodes,   \* bound: pool -> nodes a caller creates
  MaxDepth,   \* TINYXML2_MAX_ELEMENT_DEPTH
  Received    \* what may arrive: a text, how much of what was printed it is, and of which document

(* What the parser tells apart in a text.  A name or a text may be cut off.  *)
Tokens == [t : {"open", "close", "empty", "decl", "text", "blank", "cut"}, v : Value]

ASSUME ReceivedAssumption == \A r \in Received : r.text \in Seq(Tokens)

VARIABLES
  mode,    \* what runs: a caller that builds, Parse, its cleaning up, Clear; or nothing
  sent,    \* the document that was printed, and whether all of it arrived
  rest,    \* _charBuffer, from the parser's position on
  open,    \* the nodes whose ParseDeep runs, with their _closingType and end tag
  status,  \* of the innermost: running, or what it has returned
  error    \* _errorID

parserVars == <<mode, sent, rest, open, status, error>>
vars == <<domVars, parserVars>>

-----------------------------------------------------------------------------
NoDocument == [doc |-> <<>>, arrived |-> "no"]

Idle == sent = NoDocument /\ rest = <<>> /\ open = <<>> /\ status = "running" /\ error = FALSE

Arrives(r) == /\ sent = [doc |-> r.doc, arrived |-> r.arrived]
              /\ rest = r.text
              /\ open = <<>> /\ status = "running" /\ error = FALSE

Init ==
  /\ DomInit
  /\ \/ mode = "build" /\ Idle
     \/ mode = "sent" /\ \E r \in Received : Arrives(r)

-----------------------------------------------------------------------------
(* The element, or the document, whose children are read.                  *)
Inner == IF open = <<>> THEN Doc ELSE Last(open).node

SameFrame == IF Len(open) = 1 THEN Doc ELSE Last(open).node

Outer == IF Len(open) = 1 THEN Doc ELSE open[Len(open) - 1].node

SkipWhiteSpace(text) == LET i == SelectInSeq(text, LAMBDA x : x.t # "blank")
                        IN IF i = 0 THEN <<>> ELSE SubSeq(text, i, Len(text))

(* A text node gets all up to the next markup, white space on both sides   *)
(* included.                                                               *)
TextEnd(text) == LET i == SelectInSeq(text, LAMBDA x : x.t \notin {"blank", "text"})
                 IN IF i = 0 THEN Len(text) ELSE i - 1

TextValue(text) == IF TextEnd(text) = 1 THEN text[1].v ELSE "padded"

(* Parse, before ParseDeep of the document. *)
Parse ==
  /\ mode = "sent"
  /\ error' = (SkipWhiteSpace(rest) = <<>>)
  /\ mode' = IF error' THEN "failed" ELSE "parse"
  /\ UNCHANGED <<domVars, sent, rest, open, status>>

Parsing(s) == mode = "parse" /\ doomed = <<>> /\ status = s

(* Identify, at the end of the text. *)
TextOver ==
  /\ Parsing("running")
  /\ SkipWhiteSpace(rest) = <<>>
  /\ IF open = <<>> THEN mode' = "read" /\ UNCHANGED status
                    ELSE status' = "null" /\ UNCHANGED mode
  /\ UNCHANGED <<domVars, sent, rest, open, error>>

(* Identify makes the node and ParseDeep is called on it, with the text    *)
(* from its token on and the text behind its token.                        *)
Enters(k, v, tag, s, after) ==
  /\ CreateUnlinkedNode(k, v)
  /\ open' = Append(open, [node |-> Head(Available(k)), tag |-> tag, end |-> None])
  /\ status' = s
  /\ rest' = after
  /\ UNCHANGED <<mode, sent>>

(* PushDepth in the loop of the next element; one for the document.        *)
TooDeep == Len(open) + 2 = MaxDepth

ReadNode ==
  /\ Parsing("running")
  /\ SkipWhiteSpace(rest) # <<>>
  /\ LET text == SkipWhiteSpace(rest)
         x == text[1]
         after == Tail(text)
         beyond == SubSeq(rest, TextEnd(rest) + 1, Len(rest))
     IN \/ /\ x.t = "text"
           /\ Enters("text", TextValue(rest), "leaf", IF beyond = <<>> THEN "null" ELSE "returned", beyond)
           /\ error' = (beyond = <<>>)
        \/ /\ x.t = "decl"
           /\ Enters("comment", x.v, "leaf", "returned", after)
           /\ UNCHANGED error
        \/ /\ x.t \in {"empty", "close"}
           /\ Enters("element", x.v, x.t, "returned", after)
           /\ UNCHANGED error
        \/ /\ x.t = "open"
           /\ Enters("element", x.v, "open",
                     IF after = <<>> THEN "returned" ELSE IF TooDeep THEN "null" ELSE "running", after)
           /\ error' = (after # <<>> /\ TooDeep)
        \/ /\ x.t = "cut"
           /\ Enters(IF x.v = "xml" THEN "comment" ELSE "element", x.v, "open", "null", <<>>)
           /\ error' = TRUE

(* Back in the loop of Outer.  What it returns to its own caller:           *)
Returns(s, end) ==
  IF Len(open) = 1
  THEN open' = <<>> /\ mode' = (IF error' THEN "failed" ELSE "read") /\ status' = "running"
  ELSE /\ open' = Append(SubSeq(open, 1, Len(open) - 2), [open[Len(open) - 1] EXCEPT !.end = end])
       /\ status' = s
       /\ UNCHANGED mode

GivesUp == /\ DeleteNode(links, Inner)
           /\ error' = TRUE
           /\ Returns("null", None)
           /\ UNCHANGED <<_nUntracked, sent, rest>>

(* The node's own ParseDeep has failed. *)
NodeFails == Parsing("null") /\ GivesUp

(* An end tag: it is deleted, and its name is handed up. *)
EndTagRead ==
  /\ Parsing("returned")
  /\ Last(open).tag = "close"
  /\ DeleteNode(links, Inner)
  /\ SetTracked(Inner)
  /\ UNCHANGED <<error, sent, rest>>
  /\ Returns("returned", value[Inner])

WellLocated ==
  /\ Outer = Doc
  /\ \A c \in {links.first[Doc], links.last[Doc]} : c = None \/ kind(c) = "comment"

NamesMatch(f) == f.end # None => f.tag = "open" /\ f.end = value[f.node]

Matching(f) == IF f.end = None THEN f.tag # "open" ELSE f.tag = "open" /\ f.end = value[f.node]

Misplaced == \/ kind(Inner) = "comment" /\ ~ WellLocated
             \/ kind(Inner) = "element" /\ ~ Matching(Last(open))

NodeRead ==
  /\ Parsing("returned")
  /\ Last(open).tag # "close"
  /\ IF Misplaced THEN GivesUp
     ELSE /\ InsertEndChild(Outer, Inner)
          /\ open' = Front(open)
          /\ status' = "running"
          /\ UNCHANGED <<mode, error, sent, rest>>

(* After an error the tree is deleted and every pool is emptied. *)
CleanUp ==
  /\ mode = "failed"
  /\ doomed = <<>>
  /\ IF links.first[Doc] # None
     THEN DeleteChild(links.first[Doc]) /\ UNCHANGED mode
     ELSE EmptyPools /\ mode' = "read"
  /\ UNCHANGED <<sent, rest, open, status, error>>

-----------------------------------------------------------------------------
(* A caller makes no more nodes than the bounds allow. *)
Build ==
  /\ mode = "build"
  /\ doomed = <<>>
  /\ Edit
  /\ \A k \in Pool : CurrentAllocs(k)' <= MaxNodes[k]
  /\ UNCHANGED parserVars

(* The destructor of the document. *)
Close ==
  /\ mode \in {"build", "read"}
  /\ doomed = <<>>
  /\ mode' = "close"
  /\ UNCHANGED <<domVars, sent, rest, open, status, error>>

Clear ==
  /\ mode = "close"
  /\ doomed = <<>>
  /\ IF Cleared
     THEN mode' = "closed" /\ UNCHANGED domVars
     ELSE ClearStep /\ UNCHANGED mode
  /\ UNCHANGED <<sent, rest, open, status, error>>

DestructorStep == Destroy /\ UNCHANGED parserVars

(* Nothing is left to do. *)
Closed == mode = "closed" /\ UNCHANGED vars

Next == \/ Parse \/ TextOver \/ ReadNode \/ NodeFails \/ EndTagRead \/ NodeRead \/ CleanUp
        \/ Build \/ Close \/ Clear \/ DestructorStep \/ Closed

Spec == Init /\ [][Next]_vars

-----------------------------------------------------------------------------
(***************************************************************************)
(*                               Properties                                *)
(***************************************************************************)
(* Parsing, giving up and closing are made of calls that the document       *)
(* allows: no node is put below itself, none is deleted while it is linked, *)
(* and the pools are emptied when all nodes are back.  Between two calls,   *)
(* wherever a parse has failed, a pool counts as many untracked nodes as    *)
(* there are in the list of those not inserted (which Clear asserts when    *)
(* debugged, at the end).                                                   *)
Settled == mode \in {"build", "sent", "read", "closed"} /\ doomed = <<>>

NodesBalanced ==
  Settled => \A k \in Pool : _nUntracked[k] = Cardinality({n \in ToSet(_unlinked) : n[1] = k})

AllowedCallsOnly == DomSpec /\ []NodesBalanced

=============================================================================
