----------------------------- MODULE MCMainWindow -----------------------------
(* MainWindow with two accounts and answers of three different lengths. *)
EXTENDS MainWindow
CONSTANTS ann, bob
MCLength == [k \in Kind \X {"correct", "uncorrect"} |->
               IF k[2] = "uncorrect" THEN 2 ELSE IF k[1] = "patterns" THEN 5 ELSE 3]
=============================================================================
