---------------------------- MODULE MCCatalogue -----------------------------
EXTENDS Catalogue

(* A chosen and a written answer, one of a type the client does not keep, one
   with an apostrophe, and one whose text has a second line that is itself the
   number of a type. *)
Chosen(q) == [type |-> 1, question |-> q,
              options |-> << <<"a">>, <<"b">>, <<"c">>, <<"d">> >>,
              correct |-> <<"0">>, quoted |-> FALSE]
Written == [type |-> 2, question |-> <<"w">>, options |-> <<>>,
            correct |-> <<"yes">>, quoted |-> FALSE]
Other == [Written EXCEPT !.type = 3]
Quoted == [Chosen(<<"u">>) EXCEPT !.quoted = TRUE]

Tests == {<<>>, <<Written, Chosen(<<"q">>)>>, <<Chosen(<<"q">>), Quoted, Written>>,
          <<Written, Other, Written>>,
          <<Chosen(<<"q", "4">>), Written>>}

Patterns ==
    [name : {"bridge"}, type : {"png"}, picture : {"b"}, quoted : {"nowhere"}, tests : Tests]
    \union
    [name : {"adapter"}, type : {"png"}, picture : {"a"},
     quoted : {"nowhere", "name", "elsewhere"}, tests : {<<Written>>}]
    \union
    [name : {"observer"}, type : {"png"}, picture : {"o"},
     quoted : {"nowhere", "elsewhere"}, tests : {<<>>}]

(* Up to three patterns, in the order of their names if there are three. *)
SomeListings ==
    {s \in UNION {[1 .. n -> Patterns] : n \in 0 .. 3} :
        /\ \A i, j \in DOMAIN s : s[i].name = s[j].name => i = j
        /\ Len(s) = 3 => s[3].name = "observer"}
=============================================================================
