----------------------------- MODULE TestWidget -----------------------------
(***************************************************************************)
(* The test a student takes in the client: class Test (client/test.cpp),   *)
(* class Test_widget (client/test_widget.cpp) and the part of MainWindow   *)
(* that opens it, leaves it and stores its result (client/mainwindow.cpp). *)
(* One thread runs everything: an action is one slot, called by a click or *)
(* by the timer.  The user can press every button that is enabled; the     *)
(* buttons below the question are on screen next to the start page too.    *)
(* A definition nothing uses (TimerLeft, OneEarly, ...) is what a mistake  *)
(* would make of the one right after it; the mutants swap the two.         *)
(***************************************************************************)
EXTENDS Integers, Sequences, FiniteSets, SequencesExt

CONSTANTS
  Pattern,     \* the patterns of the client's database
  Question,
  QuestionsOf, \* the questions Test::init reads for each pattern, a sequence
  CountOf,     \* the number in the first line of its file, the rows of Pattern_test
  Capital,     \* written questions whose stored answer is not in lower case
  Seconds,     \* Test_widget::seconds, 600 in the program
  MaxStarts,   \* bound: how often a test is started
  Garbage,     \* what the uninitialised count_correct holds
  None         \* no result

ASSUME SecondsAssumption == Seconds \in Nat \ {0}
(* Catalogue has what is read: no question at all of a pattern whose rows   *)
(* were not inserted, and fewer than there are rows if a text has several  *)
(* lines.                                                                  *)
ASSUME QuestionsAssumption ==
  /\ QuestionsOf \in [Pattern -> Seq(Question)]
  /\ \A p \in Pattern : IsInjective(QuestionsOf[p])
  /\ CountOf \in [Pattern -> Nat]
  /\ \A p \in Pattern : Len(QuestionsOf[p]) <= CountOf[p]
ASSUME CapitalAssumption == Capital \subseteq Question

VARIABLES
  screen,         \* the list of patterns or the test
  pattern,        \* the pattern of the test that is open
  questions,      \* Test::questions in their present order
  second,         \* question -> its status, right or not
  given,          \* question -> none, or the answer: the expected one or another
  current_index,
  buttons,        \* the enabled ones of prev, next, check, done and to_show
  page,           \* of type_answers: start or question
  timer,          \* time_line is running
  connections,    \* how many times its timeout is connected to the slot
  calls,          \* calls of the slot the present timeout has still to make
  progress,       \* value of progress_bar
  count_correct,
  stored,         \* User_test: pattern -> result, None if there is no row
  undefined,      \* a vector was indexed out of its range
  clock,          \* history: timeouts since the test was started
  ended,          \* history: none, running, done or timeout
  shown           \* history: the result on_to_show_clicked displayed last

test == <<questions, second, given, current_index>>
history == <<clock, ended, shown>>
vars == <<screen, pattern, test, buttons, page, timer, connections, calls, progress,
          count_correct, stored, undefined, history>>

Working == {"next", "prev", "check", "done"}   \* what enable_buttons switches

(* Test::count_questions is what was read, the vector may be shorter.      *)
count_questions == CountOf[pattern]

get_counter_correct_answers == Cardinality({q \in ToSet(questions) : second[q]})

Init ==
  /\ screen = "patterns"
  /\ pattern \in Pattern
  /\ questions = <<>>
  /\ second = [q \in Question |-> FALSE]
  /\ given = [q \in Question |-> "none"]
  /\ current_index = 0
  /\ buttons = {}
  /\ page = "start"
  /\ timer = FALSE /\ connections = 0 /\ calls = 0 /\ progress = 0
  /\ count_correct = Garbage
  /\ stored = [p \in Pattern |-> None]
  /\ undefined = FALSE
  /\ clock = 0 /\ ended = "none" /\ shown = None

(* The event loop runs one slot at a time. *)
Idle == calls = 0 /\ ~ undefined

InTest == Idle /\ screen = "test"

OutOfRange == undefined' = TRUE

HasQuestion(index) == index \in 0..(Len(questions) - 1)

(* The question at an index, when there is none the behaviour is undefined. *)
Shows(index) ==
  IF HasQuestion(index) THEN page' = "question" /\ UNCHANGED undefined
                        ELSE OutOfRange /\ UNCHANGED page

(* The loops over count_questions stay inside the vector.                  *)
LoopFits == count_questions <= Len(questions)

-----------------------------------------------------------------------------
(* MainWindow::on_to_test_btn_clicked and Test_widget::init: the widget is *)
(* used again as the last test left it, but for its questions, the button  *)
(* that shows the result and the start page.                               *)
Open(p) ==
  /\ Idle /\ screen = "patterns"
  /\ screen' = "test" /\ pattern' = p
  /\ questions' = QuestionsOf[p]
  /\ second' = [q \in Question |-> FALSE]
  /\ given' = [q \in Question |-> "none"]
  /\ buttons' = buttons \ {"to_show"}
  /\ page' = "start"
  /\ ended' = "none" /\ clock' = 0 /\ shown' = None
  /\ UNCHANGED <<current_index, timer, connections, calls, progress, count_correct,
                 stored, undefined>>

(* MainWindow::back_to_list and Test_widget::stop_timer. *)
TimerLeft == timer' = timer

TimerStopped == timer' = FALSE

Back ==
  /\ InTest
  /\ screen' = "patterns"
  /\ TimerStopped /\ progress' = 0
  /\ UNCHANGED <<pattern, test, buttons, page, connections, calls, count_correct, stored,
                 undefined, history>>

(* on_start_testing_clicked and Test::reset, whose loop is one of them.    *)
ButtonsAtStart == Working \ ({"prev"} \cup IF count_questions <= 1 THEN {"next"} ELSE {})

StartTesting ==
  /\ InTest /\ page = "start"
  /\ connections < MaxStarts
  /\ timer' = TRUE /\ connections' = connections + 1
  /\ current_index' = 0
  /\ \E order \in SetToSeqs(ToSet(questions)) : questions' = order
  /\ second' = [q \in Question |-> FALSE]
  /\ given' = [q \in Question |-> "none"]
  /\ buttons' = ButtonsAtStart
  /\ IF LoopFits THEN Shows(0) ELSE OutOfRange /\ UNCHANGED page
  /\ ended' = "running" /\ clock' = 0 /\ shown' = None
  /\ UNCHANGED <<screen, pattern, calls, progress, count_correct, stored>>

-----------------------------------------------------------------------------
(* on_next_button_clicked and on_prev_button_clicked. *)
NextAtLast(index) == index = count_questions

IsLast(index) == index = count_questions - 1

NextQuestion ==
  /\ InTest /\ "next" \in buttons
  /\ current_index' = current_index + 1
  /\ buttons' = (buttons \cup {"prev"})
                  \ IF IsLast(current_index + 1) THEN {"next"} ELSE {}
  /\ Shows(current_index + 1)
  /\ UNCHANGED <<screen, pattern, questions, second, given, timer, connections, calls,
                 progress, count_correct, stored, history>>

PrevQuestion ==
  /\ InTest /\ "prev" \in buttons
  /\ current_index' = current_index - 1     \* size_t: -1 stands for its maximum
  /\ buttons' = (buttons \cup {"next"}) \ IF current_index = 1 THEN {"prev"} ELSE {}
  /\ Shows(current_index - 1)
  /\ UNCHANGED <<screen, pattern, questions, second, given, timer, connections, calls,
                 progress, count_correct, stored, history>>

(* Test::check_answer1 to 4: a right answer sets the status of the         *)
(* question, no answer clears it.  check_answer3 compares the stored       *)
(* answer with the lower case of what was typed.                           *)
Right(q, a) == a = "expected" /\ q \notin Capital

Status(q, a) == IF Right(q, a) THEN TRUE ELSE second[q]

(* on_check_button_clicked; nothing is checked when nothing was chosen.    *)
Check ==
  /\ InTest /\ "check" \in buttons
  /\ IF HasQuestion(current_index)
     THEN /\ \E a \in {"expected", "other"} :
               LET q == questions[current_index + 1]
               IN /\ given' = [given EXCEPT ![q] = a]
                  /\ second' = [second EXCEPT ![q] = Status(q, a)]
          /\ UNCHANGED undefined
     ELSE OutOfRange /\ UNCHANGED <<given, second>>
  /\ UNCHANGED <<screen, pattern, questions, current_index, buttons, page, timer,
                 connections, calls, progress, count_correct, stored, history>>

(* enable_buttons(false), and to_show enabled. *)
CheckLeftOn == {"to_show"} \cup (buttons \cap {"check"})

ButtonsAtEnd == {"to_show"}

(* on_done_clicked *)
Done ==
  /\ InTest /\ "done" \in buttons
  /\ buttons' = ButtonsAtEnd
  /\ timer' = FALSE /\ progress' = 0
  /\ page' = "start"
  /\ count_correct' = get_counter_correct_answers
  /\ ended' = IF ended = "running" THEN "done" ELSE ended
  /\ UNCHANGED <<screen, pattern, test, connections, calls, stored, undefined, clock, shown>>

(* on_to_show_clicked, whose loop leaves the index behind the last question, *)
(* then MainWindow::check_test, both connected to the same button.           *)
ToShow ==
  /\ InTest /\ "to_show" \in buttons
  /\ IF LoopFits
     THEN /\ shown' = get_counter_correct_answers
          /\ current_index' = count_questions
          /\ stored' = [stored EXCEPT ![pattern] = count_correct]
          /\ UNCHANGED undefined
     ELSE OutOfRange /\ UNCHANGED <<shown, current_index, stored>>
  /\ UNCHANGED <<screen, pattern, questions, second, given, buttons, page, timer, connections,
                 calls, progress, count_correct, clock, ended>>

-----------------------------------------------------------------------------
(* The timer fires: every connection of its signal calls the slot once.    *)
Timeout ==
  /\ Idle /\ timer
  /\ calls' = connections
  /\ clock' = clock + 1
  /\ UNCHANGED <<screen, pattern, test, buttons, page, timer, connections, progress,
                 count_correct, stored, undefined, ended, shown>>

OneEarly(value) == value >= Seconds - 1

Expired(value) == value >= Seconds

(* update_progress_bar *)
UpdateProgressBar ==
  /\ calls > 0
  /\ calls' = calls - 1
  /\ IF Expired(progress)
     THEN /\ TimerStopped /\ progress' = 0
          /\ buttons' = ButtonsAtEnd
          /\ page' = "start"
          /\ ended' = "timeout"
     ELSE /\ progress' = progress + 1
          /\ UNCHANGED <<timer, buttons, page, ended>>
  /\ UNCHANGED <<screen, pattern, test, connections, count_correct, stored, undefined,
                 clock, shown>>

Halted == undefined /\ UNCHANGED vars

Next == \/ \E p \in Pattern : Open(p)
        \/ Back \/ StartTesting \/ NextQuestion \/ PrevQuestion \/ Check \/ Done \/ ToShow
        \/ Timeout \/ UpdateProgressBar
        \/ Halted

(* The timer fires and its slot is called; the user may do nothing.        *)
Spec == Init /\ [][Next]_vars /\ WF_vars(Timeout) /\ WF_vars(UpdateProgressBar)

-----------------------------------------------------------------------------
(* Every question the file announced was read, and there is one.           *)
WellRead(p) == CountOf[p] = Len(QuestionsOf[p]) /\ QuestionsOf[p] # <<>>

(* A vector is indexed out of range in a started test exactly if the file   *)
(* of its pattern was not well read, and then before it shows a question:   *)
(* a student who can answer never gets there.  In a test that is not        *)
(* started it takes the buttons and the index an earlier one has left.      *)
OutOfRangeHasReason ==
  /\ IF ended = "none" THEN undefined => connections > 0
                       ELSE undefined <=> ~ WellRead(pattern)
  /\ undefined => clock = 0

(* Once the student has ended the test himself its result is settled: what  *)
(* "to show" will store is the number of right answers it will display.     *)
DoneSettlesResult ==
  ended = "done" => count_correct = get_counter_correct_answers

(* The first test since the program was started may take all of its time:   *)
(* it is ended by the timer after Seconds full seconds and not before.      *)
FirstTestHasItsTime ==
  connections = 1 /\ ended = "timeout" => clock = Seconds + 1

(* A running test is ended by the timer if not by the student, unless it    *)
(* has gone out of range: nothing is promised of the program from there on. *)
TestEnds == timer ~> ~ timer \/ undefined

-----------------------------------------------------------------------------
(* What the program tells the student and does not keep; each is refuted by *)
(* a run of its own.                                                        *)

(* The result displayed as "your result" is the one that is stored.         *)
StoredAsShown == shown # None => stored[pattern] = shown

(* A student whose answer is the "right answer" the results display (the    *)
(* stored one) is told that he answered right.                              *)
RightAnswerIsRight == \A q \in Question : given[q] = "expected" => second[q]

=============================================================================
