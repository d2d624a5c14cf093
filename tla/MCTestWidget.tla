---------------------------- MODULE MCTestWidget ----------------------------
(* TestWidget with four patterns.  The second one has a written question    *)
(* whose stored answer begins with a capital letter, as one in main.db does; *)
(* one was left without questions, and one was read with a question less    *)
(* than its rows, as Catalogue has them.                                     *)
EXTENDS TestWidget
CONSTANTS singleton, observer, empty, torn, q1, q2, q3, q4
MCQuestionsOf == [p \in {singleton, observer, empty, torn} |->
                    CASE p = singleton -> <<q1, q2, q3>>
                      [] p = empty -> <<>>
                      [] OTHER -> <<q4>>]
MCCountOf == [p \in {singleton, observer, empty, torn} |->
                Len(MCQuestionsOf[p]) + IF p = torn THEN 1 ELSE 0]
=============================================================================
