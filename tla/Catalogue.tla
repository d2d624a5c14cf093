----------------------------- MODULE Catalogue ------------------------------
(***************************************************************************)
(* The client's copy of the catalogue (client/mainwindow.cpp): an update   *)
(* replaces the patterns, their pictures and their questions by those of   *)
(* the server's answer, one statement after the other and each committed   *)
(* alone; the student reads a pattern or opens its test, whose questions    *)
(* go through a file of lines, tmp.txt, to class Test (client/test.cpp).    *)
(*                                                                         *)
(* A text is the sequence of its lines.  The SQL is put together from the   *)
(* texts: one with an apostrophe ("quoted") makes the statement fail, and   *)
(* nobody looks at what exec returns.                                       *)
(***************************************************************************)
EXTENDS Integers, Sequences, FiniteSets, SequencesExt, Functions

CONSTANTS
  Listing,      \* the answers of the server: sequences of patterns
  NoPicture,    \* what loading a file that is not there gives
  MaxUpdates    \* bound: updates of the catalogue

ASSUME UpdatesAssumption == MaxUpdates \in Nat

Text == Seq(STRING)
Test == [type : Int, question : Text, options : Seq(Text), correct : Text, quoted : BOOLEAN]

(* The name of a pattern is UNIQUE in the server's table, and NOT NULL.  The
   answers to choose from are read from a1, a2, a3 and a4. *)
ASSUME ListingAssumption ==
    \A list \in Listing :
        /\ Len(list) \in Nat /\ DOMAIN list = 1 .. Len(list)
        /\ \A i, j \in DOMAIN list : list[i].name = list[j].name => i = j
        /\ \A i \in DOMAIN list :
              list[i].tests \in Seq({t \in Test : t.type = 1 => Len(t.options) = 4})

VARIABLES
  offered,      \* the pattern_list that is being stored, or was stored last
  at,           \* the pattern of it the loop is at
  step,         \* idle, insert, image or tests
  row,          \* the next test of that pattern
  Pattern,      \* the table, in the order of its ids
  sequence,     \* AUTOINCREMENT: the last id that was given out
  Pattern_test, \* the table, in the order of insertion
  images,       \* images/patterns: path -> picture
  shown,        \* the pattern that is read, with its picture, or none
  test,         \* the test that is open, or none
  updates,      \* bound: updates so far
  cut           \* history: the program died during the last update

(* What is at the positions P up to n, in its order. *)
Selected(s, P, n) ==
    LET upTo[k \in 0 .. n] ==
            IF k = 0 THEN <<>>
            ELSE IF k \in P THEN Append(upTo[k - 1], s[k]) ELSE upTo[k - 1]
    IN  upTo[n]

tables == <<Pattern, sequence, Pattern_test>>
vars == <<offered, at, step, row, tables, images, shown, test, updates, cut>>

Nothing == <<>>

-----------------------------------------------------------------------------
(* A pattern of the answer is [name, type, picture, quoted, tests]: type is
   that of its picture, quoted says where an apostrophe is (nowhere, in the
   name or elsewhere).  A test is [type, question, options, correct, quoted]. *)
current == offered[at]

Init ==
    /\ offered = <<>> /\ at = 1 /\ step = "idle" /\ row = 1
    /\ Pattern = <<>> /\ sequence = 0 /\ Pattern_test = <<>>
    /\ images = <<>>
    /\ shown = Nothing /\ test = Nothing
    /\ updates = 0 /\ cut = FALSE

(* The head of fill_db_patterns: the tables are emptied, the ids go on.  It is
   one step although it empties one table after the other: the questions and
   pictures of patterns that are gone are reached by nothing. *)
Update(list) ==
    /\ step = "idle" /\ updates < MaxUpdates
    /\ offered' = list /\ at' = 1 /\ row' = 1
    /\ step' = IF list = <<>> THEN "idle" ELSE "insert"
    /\ Pattern' = <<>> /\ Pattern_test' = <<>>
    /\ images' = <<>>
    /\ shown' = Nothing /\ test' = Nothing
    /\ updates' = updates + 1 /\ cut' = FALSE
    /\ UNCHANGED sequence

(* INSERT INTO Pattern; the path is set later. *)
InsertPattern ==
    /\ step = "insert"
    /\ IF current.quoted = "nowhere"
       THEN /\ sequence' = sequence + 1
            /\ Pattern' = Append(Pattern,
                 [id |-> sequence + 1, name |-> current.name, path |-> Nothing])
       ELSE UNCHANGED <<Pattern, sequence>>
    /\ step' = "image"
    /\ UNCHANGED <<offered, at, row, Pattern_test, images, shown, test, updates, cut>>

(* The picture's file is named for one more than the largest id there is, the
   new row's or, if the INSERT has failed, an older one's. *)
FileId == IF Pattern = <<>> THEN 1 ELSE Last(Pattern).id + 1

path == <<FileId, current.type>>

(* UPDATE Pattern SET path_to_image = ... WHERE name = ...; AnyName forgets the
   condition. *)
AnyName(r) == TRUE
HasName(r) == r.name = current.name

SaveImage ==
    /\ step = "image"
    /\ images' = [f \in DOMAIN images \union {path} |->
                     IF f = path THEN current.picture ELSE images[f]]
    /\ Pattern' = [i \in DOMAIN Pattern |->
                     IF current.quoted # "name" /\ HasName(Pattern[i])
                     THEN [Pattern[i] EXCEPT !.path = path] ELSE Pattern[i]]
    /\ step' = "tests" /\ row' = 1
    /\ UNCHANGED <<offered, at, sequence, Pattern_test, shown, test, updates, cut>>

(* Questions of types 1 and 2 are kept, if their statement can be executed. *)
Kept(p, t) == t.type \in {1, 2} /\ ~t.quoted /\ p.quoted # "name"

InsertTest ==
    /\ step = "tests" /\ row <= Len(current.tests)
    /\ LET t == current.tests[row]
       IN  Pattern_test' =
             IF Kept(current, t)
             THEN Append(Pattern_test, [pattern_name |-> current.name, test |-> t])
             ELSE Pattern_test
    /\ row' = row + 1
    /\ UNCHANGED <<offered, at, step, Pattern, sequence, images, shown, test, updates, cut>>

(* NextSiblingElement. *)
NextPattern ==
    /\ step = "tests" /\ row > Len(current.tests)
    /\ at' = at + 1
    /\ step' = IF at = Len(offered) THEN "idle" ELSE "insert"
    /\ UNCHANGED <<offered, row, tables, images, shown, test, updates, cut>>

(* The program dies; the database and the pictures stay as they are. *)
Die ==
    /\ step' = "idle"
    /\ cut' = (cut \/ step # "idle")
    /\ shown' = Nothing /\ test' = Nothing
    /\ UNCHANGED <<offered, at, row, tables, images, updates>>

-----------------------------------------------------------------------------
(* on_more_btn_clicked: the picture is loaded and scaled to 512 pixels.  A
   picture that cannot be loaded has the width 0, by which 512 is divided. *)
More(r) ==
    /\ step = "idle"
    /\ shown' = [name |-> r.name,
                 picture |-> IF r.path \in DOMAIN images THEN images[r.path] ELSE NoPicture]
    /\ UNCHANGED <<offered, at, step, row, tables, images, test, updates, cut>>

(* The texts of one question in tmp.txt: written answers have number 3 there. *)
SameType(t) == IF t.type = 1 THEN "1" ELSE "2"
TypeInFile(t) == IF t.type = 1 THEN "1" ELSE "3"

Texts(t) ==
    << <<TypeInFile(t)>>, t.question >>
        \o (IF t.type = 1 THEN t.options ELSE <<>>)
        \o << t.correct >>

Lines(t) == FlattenSeq(Texts(t))

RowsAt(n) == {k \in DOMAIN Pattern_test : Pattern_test[k].pattern_name = n}
Rows(n) == Selected(Pattern_test, RowsAt(n), Len(Pattern_test))

TmpTxt(n) == FlattenSeq([i \in DOMAIN Rows(n) |-> Lines(Rows(n)[i].test)])

(* readLine behind the end gives an empty line; a line that is no number, 0. *)
Line(file, i) == IF i \in DOMAIN file THEN file[i] ELSE ""
Numbers == [l \in {"1", "2", "3", "4"} |->
              CASE l = "1" -> 1 [] l = "2" -> 2 [] l = "3" -> 3 [] l = "4" -> 4]
Number(l) == IF l \in DOMAIN Numbers THEN Numbers[l] ELSE 0

(* input of the four kinds of question: how many lines each reads. *)
CountLine(file, i) == Number(Line(file, i + 6))
LinesRead(file, i) ==
    CASE Number(Line(file, i)) = 1 -> 7
      [] Number(Line(file, i)) = 2 -> 7 + CountLine(file, i)
      [] Number(Line(file, i)) = 3 -> 3
      [] Number(Line(file, i)) = 4 -> 10
      [] OTHER                     -> 1

(* Where the questions begin that init reads, one after the other. *)
Starts(file, count) ==
    LET start[i \in 1 .. count] ==
            IF i = 1 THEN 1 ELSE start[i - 1] + LinesRead(file, start[i - 1])
    IN  start

QuestionAt(file, i) ==
    [j \in 1 .. LinesRead(file, i) |-> Line(file, i + j - 1)]

(* Test::init keeps the number of questions it was told, and the questions
   whose type it knows. *)
Read(file, count) ==
    LET start == Starts(file, count)
        read  == [i \in 1 .. count |-> QuestionAt(file, start[i])]
    IN  [count |-> count,
         questions |-> Selected(read, {i \in 1 .. count : Number(read[i][1]) # 0}, count)]

(* on_to_test_btn_clicked. *)
ToTest(n) ==
    /\ step = "idle"
    /\ test' = [name |-> n, read |-> Read(TmpTxt(n), Len(Rows(n)))]
    /\ UNCHANGED <<offered, at, step, row, tables, images, shown, updates, cut>>

Next ==
    \/ \E list \in Listing : Update(list)
    \/ InsertPattern \/ SaveImage \/ InsertTest \/ NextPattern \/ Die
    \/ \E i \in DOMAIN Pattern : More(Pattern[i]) \/ ToTest(Pattern[i].name)

Spec == Init /\ [][Next]_vars

-----------------------------------------------------------------------------
(* What the server has of the pattern that is shown or tested. *)
Offer(n) == CHOOSE i \in DOMAIN offered : offered[i].name = n

(* A pattern is shown with its own picture.  There are two exceptions: the
   program died before it was stored, or behind the pattern come patterns that
   could not be inserted, whose pictures went into the same file. *)
OwnPictureShown ==
    shown # Nothing =>
        LET i == Offer(shown.name)
        IN  \/ shown.picture = offered[i].picture
            \/ shown.picture = NoPicture /\ cut
            \/ \E j \in i + 1 .. Len(offered) :
                  /\ shown.picture = offered[j].picture
                  /\ offered[j].type = offered[i].type
                  /\ \A k \in i + 1 .. j : offered[k].quoted # "nowhere"

KeptOf(p) == {k \in DOMAIN p.tests : Kept(p, p.tests[k])}

SingleLines(t) == \A i \in DOMAIN Texts(t) : Len(Texts(t)[i]) = 1

(* The questions of a test are those the server has for the pattern and the
   client could store, in the server's order and with their own answers, or
   the first ones of them after the program died during an update; a question
   of several lines is what it takes to mix the lines of different questions. *)
QuestionsAreServers ==
    test # Nothing =>
        LET p    == offered[Offer(test.name)]
            kept == Selected(p.tests, KeptOf(p), Len(p.tests))
            asked == [i \in DOMAIN kept |-> Lines(kept[i])]
        IN  (\A i \in DOMAIN kept : SingleLines(kept[i])) =>
                /\ test.read.count = Len(test.read.questions)
                /\ IsPrefix(test.read.questions, asked)
                /\ ~cut => test.read.questions = asked
=============================================================================
