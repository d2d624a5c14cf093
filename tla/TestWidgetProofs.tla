--------------------------- MODULE TestWidgetProofs ---------------------------
(***************************************************************************)
(* Theorems about TestWidget, for any patterns, with any questions read    *)
(* for them, none included, any time for a test and any number of tests.   *)
(*                                                                         *)
(* The slots check neither the index nor that a test is running: they rely *)
(* on the buttons.  So the invariant says what the enabled buttons tell of *)
(* the index while a well read test runs (ButtonsInv), what the bar tells  *)
(* of the time of the first test (TimeInv), and that a test the student    *)
(* has ended leaves nothing enabled that could change it (ResultInv).      *)
(***************************************************************************)
EXTENDS TestWidget, FiniteSetTheorems, SequenceTheorems, TLAPS

Button == Working \cup {"to_show"}

Typed ==
  /\ screen \in {"patterns", "test"}
  /\ pattern \in Pattern
  /\ questions \in Seq(Question) /\ IsInjective(questions)
  /\ current_index \in Int
  /\ buttons \subseteq Button
  /\ timer \in BOOLEAN /\ undefined \in BOOLEAN
  /\ connections \in Nat /\ calls \in Nat /\ progress \in Nat /\ clock \in Nat
  /\ ended \in {"none", "running", "done", "timeout"}

TimerInv ==
  /\ timer => screen = "test" /\ ended = "running"
  /\ calls > 0 => ended \in {"running", "timeout"} /\ connections > 0 /\ ~ undefined
  /\ screen = "test" \/ ended # "none" => Len(questions) = Len(QuestionsOf[pattern])
  /\ ended = "none" => clock = 0

(* What the enabled buttons say of the index. *)
ButtonsInv ==
  /\ buttons # {} => connections > 0
  /\ ended \in {"done", "timeout"} => buttons \cap Working = {}
  /\ ended = "running" => "to_show" \notin buttons
  /\ ended = "running" /\ WellRead(pattern) =>
       /\ current_index \in 0..(Len(questions) - 1)
       /\ "prev" \in buttons => current_index > 0
       /\ "next" \in buttons => current_index < Len(questions) - 1
  /\ OutOfRangeHasReason

(* The slot is connected once: the progress bar and the call that is still  *)
(* to be made count the timeouts.                                           *)
TimeInv ==
  /\ connections = 0 => ~ timer /\ calls = 0 /\ progress = 0 /\ ended # "timeout"
  /\ connections = 1 /\ timer => clock = progress + calls /\ calls <= 1 /\ progress <= Seconds
  /\ connections = 1 /\ calls > 0 => timer
  /\ FirstTestHasItsTime

ResultInv ==
  ended = "done" => ~ timer /\ calls = 0 /\ count_correct = get_counter_correct_answers

IInv == Typed /\ TimerInv /\ ButtonsInv /\ TimeInv /\ ResultInv

-----------------------------------------------------------------------------
(* Shuffling a test with no question twice leaves as many questions and    *)
(* none of them twice.                                                     *)
LEMMA OrderProperties ==
  ASSUME NEW s \in Seq(Question), IsInjective(s), NEW order \in SetToSeqs(ToSet(s))
  PROVE  order \in Seq(Question) /\ Len(order) = Len(s) /\ IsInjective(order)
  <1> DEFINE S == ToSet(s)
             n == Len(s)
  <1>1. n \in Nat /\ DOMAIN s = 1..n /\ \A i \in 1..n : s[i] \in Question
    BY LenProperties, ElementOfSeq
  <1>2. S = {s[i] : i \in 1..n}
    BY <1>1 DEF ToSet
  <1>3. s \in Bijection(1..n, S)
    <2>1. s \in [1..n -> S]
      BY <1>1, <1>2, LenProperties
    <2>2. \A x \in S : \E i \in 1..n : s[i] = x
      BY <1>2
    <2> HIDE DEF n, S
    <2> QED BY <2>1, <2>2 DEF Bijection, Injection, Surjection
  <1>4. Cardinality(S) = n
    <2>1. ExistsBijection(1..n, S)
      BY <1>3 DEF ExistsBijection
    <2> HIDE DEF n, S
    <2> QED BY <1>1, <2>1, FS_CountingElements
  <1>5. S \subseteq Question
    BY <1>1, <1>2
  <1>6. order \in [1..n -> S] /\ \A i, j \in 1..n : i # j => order[i] # order[j]
    BY <1>4 DEF SetToSeqs
  <1> HIDE DEF n
  <1>7. order \in [1..n -> Question]
    BY <1>5, <1>6
  <1>8. IsInjective(order)
    BY <1>6, <1>7 DEF IsInjective
  <1> QED BY <1>1, <1>7, <1>8 DEF n

LEMMA InitIInv == Init => IInv
  <1> SUFFICES ASSUME Init PROVE IInv
    OBVIOUS
  <1> USE DEF Init
  <1>1. Typed
    <2>1. questions \in Seq(Question) /\ IsInjective(questions)
      BY EmptySeq DEF IsInjective
    <2>2. timer \in BOOLEAN /\ undefined \in BOOLEAN
      OBVIOUS
    <2>3. /\ current_index \in Int /\ connections \in Nat /\ calls \in Nat /\ progress \in Nat
          /\ clock \in Nat
      OBVIOUS
    <2> QED BY <2>1, <2>2, <2>3 DEF Typed
  <1>2. TimerInv
    BY DEF TimerInv
  <1>3. ButtonsInv /\ TimeInv /\ ResultInv
    BY DEF ButtonsInv, TimeInv, ResultInv, OutOfRangeHasReason, FirstTestHasItsTime
  <1> QED BY <1>1, <1>2, <1>3 DEF IInv

LEMMA NextTyped == IInv /\ [Next]_vars => Typed'
  <1> SUFFICES ASSUME IInv, [Next]_vars PROVE Typed'
    OBVIOUS
  <1>0. Typed /\ Len(questions) \in Nat
    BY LenProperties DEF IInv, Typed
  <1> USE DEF Typed, Button, Working, InTest, Idle, TimerStopped, Shows, OutOfRange
  <1>1. ASSUME NEW p \in Pattern, Open(p) PROVE Typed'
    BY <1>0, <1>1, QuestionsAssumption DEF Open
  <1>2. CASE Back
    BY <1>0, <1>2 DEF Back, test, history
  <1>3. CASE StartTesting
    <2>1. questions' \in Seq(Question) /\ IsInjective(questions')
      BY <1>0, <1>3, OrderProperties DEF StartTesting
    <2>2. buttons' \subseteq Button
      BY <1>3 DEF StartTesting, ButtonsAtStart
    <2>3. undefined' \in BOOLEAN /\ timer' \in BOOLEAN
      BY <1>0, <1>3 DEF StartTesting
    <2> QED BY <1>0, <1>3, <2>1, <2>2, <2>3 DEF StartTesting
  <1>4. CASE NextQuestion
    <2>1. buttons' \subseteq Button /\ current_index' \in Int
      BY <1>0, <1>4 DEF NextQuestion
    <2>2. undefined' \in BOOLEAN
      BY <1>0, <1>4 DEF NextQuestion
    <2> QED BY <1>0, <1>4, <2>1, <2>2 DEF NextQuestion, history
  <1>5. CASE PrevQuestion
    <2>1. buttons' \subseteq Button /\ current_index' \in Int
      BY <1>0, <1>5 DEF PrevQuestion
    <2>2. undefined' \in BOOLEAN
      BY <1>0, <1>5 DEF PrevQuestion
    <2> QED BY <1>0, <1>5, <2>1, <2>2 DEF PrevQuestion, history
  <1>6. CASE Check
    <2>1. undefined' \in BOOLEAN
      BY <1>0, <1>6 DEF Check
    <2> QED BY <1>0, <1>6, <2>1 DEF Check, history
  <1>7. CASE Done
    BY <1>0, <1>7 DEF Done, ButtonsAtEnd, test
  <1>8. CASE ToShow
    <2>1. undefined' \in BOOLEAN
      BY <1>0, <1>8 DEF ToShow
    <2>2. current_index' \in Int
      BY <1>0, <1>8, QuestionsAssumption DEF ToShow, count_questions
    <2> QED BY <1>0, <1>8, <2>1, <2>2 DEF ToShow
  <1>9. CASE Timeout
    BY <1>0, <1>9 DEF Timeout, test
  <1>10. CASE UpdateProgressBar
    <2>1. timer' \in BOOLEAN
      BY <1>0, <1>10 DEF UpdateProgressBar
    <2>2. calls' \in Nat /\ progress' \in Nat
      BY <1>0, <1>10 DEF UpdateProgressBar
    <2>3. buttons' \subseteq Button /\ ended' \in {"none", "running", "done", "timeout"}
      BY <1>0, <1>10 DEF UpdateProgressBar, ButtonsAtEnd
    <2> QED BY <1>0, <1>10, <2>1, <2>2, <2>3 DEF UpdateProgressBar, test
  <1>11. CASE UNCHANGED vars
    BY <1>0, <1>11 DEF vars, test, history
  <1> QED BY <1>1, <1>2, <1>3, <1>4, <1>5, <1>6, <1>7, <1>8, <1>9, <1>10, <1>11 DEF Next, Halted

LEMMA NextTimer == IInv /\ [Next]_vars => TimerInv'
  <1> SUFFICES ASSUME IInv, [Next]_vars PROVE TimerInv'
    OBVIOUS
  <1>0. Typed /\ TimerInv /\ Len(questions) \in Nat
    BY LenProperties DEF IInv, Typed
  <1> USE DEF TimerInv, InTest, Idle, TimerStopped
  <1>1. ASSUME NEW p \in Pattern, Open(p) PROVE TimerInv'
    BY <1>0, <1>1 DEF Open
  <1>2. CASE Back
    BY <1>0, <1>2 DEF Back, test, history
  <1>3. CASE StartTesting
    <2>1. Len(questions') = Len(questions)
      BY <1>0, <1>3, OrderProperties DEF StartTesting, Typed
    <2> QED BY <1>0, <1>3, <2>1 DEF StartTesting
  <1>4. CASE NextQuestion \/ PrevQuestion \/ Check
    BY <1>0, <1>4 DEF NextQuestion, PrevQuestion, Check, history
  <1>5. CASE Done
    BY <1>0, <1>5 DEF Done, test
  <1>6. CASE ToShow
    BY <1>0, <1>6 DEF ToShow
  <1>7. CASE Timeout
    <2>1. connections > 0
      BY <1>0, <1>7 DEF Timeout, IInv, TimeInv, Typed
    <2> QED BY <1>0, <1>7, <2>1 DEF Timeout, test
  <1>8. CASE UpdateProgressBar
    BY <1>0, <1>8 DEF UpdateProgressBar, Typed, test
  <1>9. CASE UNCHANGED vars
    BY <1>0, <1>9 DEF vars, test, history
  <1> QED BY <1>1, <1>2, <1>3, <1>4, <1>5, <1>6, <1>7, <1>8, <1>9 DEF Next, Halted

LEMMA NextButtons == IInv /\ [Next]_vars => ButtonsInv'
  <1> SUFFICES ASSUME IInv, [Next]_vars PROVE ButtonsInv'
    OBVIOUS
  <1>0. Typed /\ TimerInv /\ ButtonsInv /\ Len(questions) \in Nat
    BY LenProperties DEF IInv, Typed
  <1>a. /\ Len(QuestionsOf[pattern]) \in Nat /\ count_questions \in Nat
        /\ Len(QuestionsOf[pattern]) <= count_questions
    BY <1>0, QuestionsAssumption, LenProperties DEF Typed, count_questions
  <1>b. (Len(QuestionsOf[pattern]) = 0) <=> QuestionsOf[pattern] = <<>>
    BY <1>0, QuestionsAssumption, EmptySeq, LenProperties DEF Typed
  <1> DEFINE n == Len(questions)
  <1> USE DEF ButtonsInv, OutOfRangeHasReason, InTest, Idle
  <1>1. ASSUME NEW p \in Pattern, Open(p) PROVE ButtonsInv'
    BY <1>0, <1>1 DEF Open
  <1>2. CASE Back
    BY <1>0, <1>2 DEF Back, test, history
  <1>3. CASE StartTesting
    <2>1. Len(questions') = n /\ n \in Nat /\ n = Len(QuestionsOf[pattern])
      BY <1>0, <1>3, OrderProperties DEF StartTesting, Typed, TimerInv
    <2>2. /\ buttons' = Working \ ({"prev"} \cup IF count_questions <= 1 THEN {"next"} ELSE {})
          /\ current_index' = 0 /\ ended' = "running" /\ clock' = 0 /\ pattern' = pattern
          /\ connections' = connections + 1
      BY <1>3 DEF StartTesting, ButtonsAtStart
    <2>3. ~ undefined
      BY <1>3 DEF StartTesting
    <2>4. WellRead(pattern) <=> count_questions = n /\ n > 0
      BY <1>b, <2>1 DEF WellRead, count_questions
    <2>5. undefined' <=> ~ WellRead(pattern)
      <3>1. CASE count_questions <= n
        <4>1. n > 0 <=> 0 \in 0..(n - 1)
          BY <2>1
        <4>2. IF n > 0 THEN undefined' = undefined ELSE undefined' = TRUE
          BY <1>3, <3>1, <4>1 DEF StartTesting, Shows, HasQuestion, LoopFits, OutOfRange
        <4> QED BY <1>a, <2>1, <2>3, <2>4, <3>1, <4>2
      <3>2. CASE ~ (count_questions <= n)
        <4>1. undefined' = TRUE
          BY <1>3, <3>2 DEF StartTesting, LoopFits, OutOfRange
        <4> QED BY <1>a, <2>1, <2>4, <3>2, <4>1
      <3> QED BY <3>1, <3>2
    <2>6. /\ "to_show" \notin buttons' /\ "prev" \notin buttons'
          /\ "next" \in buttons' => ~ (count_questions <= 1)
      BY <2>2 DEF Working
    <2>7. connections' > 0
      BY <1>0, <2>2 DEF Typed
    <2>8. WellRead(pattern)' <=> WellRead(pattern)
      BY <2>2 DEF WellRead
    <2>9. WellRead(pattern)' => /\ current_index' \in 0..(Len(questions') - 1)
                                /\ "next" \in buttons' => current_index' < Len(questions') - 1
      BY <1>a, <2>1, <2>2, <2>4, <2>6, <2>8
    <2>10. OutOfRangeHasReason'
      BY <2>2, <2>5, <2>8
    <2>11. ended' = "running" /\ WellRead(pattern)' =>
             /\ current_index' \in 0..(Len(questions') - 1)
             /\ "prev" \in buttons' => current_index' > 0
             /\ "next" \in buttons' => current_index' < Len(questions') - 1
      BY <2>6, <2>9
    <2> HIDE DEF OutOfRangeHasReason
    <2> QED BY <2>2, <2>6, <2>7, <2>10, <2>11
  <1>4. CASE NextQuestion
    <2>1. /\ "next" \in buttons /\ ~ undefined
          /\ UNCHANGED <<questions, pattern, connections, ended, clock>>
          /\ current_index' = current_index + 1
          /\ buttons' = (buttons \cup {"prev"})
                          \ IF current_index + 1 = count_questions - 1 THEN {"next"} ELSE {}
          /\ current_index + 1 \in 0..(n - 1) => undefined' = undefined
      BY <1>4 DEF NextQuestion, IsLast, Shows, HasQuestion, history
    <2>2. connections > 0 /\ ended \in {"none", "running"}
      BY <1>0, <2>1 DEF Typed, Working
    <2>3. CASE ended = "none"
      BY <1>0, <2>1, <2>2, <2>3 DEF TimerInv
    <2>4. CASE ended = "running"
      <3>1. /\ "to_show" \notin buttons /\ WellRead(pattern)
            /\ current_index \in 0..(n - 1) /\ current_index < n - 1
        BY <1>0, <2>1, <2>4
      <3>2. undefined' = undefined
        BY <1>0, <2>1, <3>1 DEF Typed
      <3>3. count_questions = n
        BY <1>0, <2>4, <3>1 DEF TimerInv, WellRead, count_questions
      <3>4. "to_show" \notin buttons' /\ ("next" \in buttons' => current_index + 1 # n - 1)
        BY <2>1, <3>1, <3>3
      <3>5. WellRead(pattern)'
        BY <2>1, <3>1 DEF WellRead
      <3> QED BY <1>0, <2>1, <2>2, <2>4, <3>1, <3>2, <3>4, <3>5 DEF Typed
    <2> QED BY <2>2, <2>3, <2>4
  <1>5. CASE PrevQuestion
    <2>1. /\ "prev" \in buttons /\ ~ undefined
          /\ UNCHANGED <<questions, pattern, connections, ended, clock>>
          /\ current_index' = current_index - 1
          /\ buttons' = (buttons \cup {"next"}) \ IF current_index = 1 THEN {"prev"} ELSE {}
          /\ current_index - 1 \in 0..(n - 1) => undefined' = undefined
      BY <1>5 DEF PrevQuestion, Shows, HasQuestion, history
    <2>2. connections > 0 /\ ended \in {"none", "running"}
      BY <1>0, <2>1 DEF Typed, Working
    <2>3. CASE ended = "none"
      BY <1>0, <2>1, <2>2, <2>3 DEF TimerInv
    <2>4. CASE ended = "running"
      <3>1. /\ "to_show" \notin buttons /\ WellRead(pattern)
            /\ current_index \in 0..(n - 1) /\ current_index > 0
        BY <1>0, <2>1, <2>4
      <3>2. undefined' = undefined
        BY <1>0, <2>1, <3>1 DEF Typed
      <3>3. "to_show" \notin buttons' /\ ("prev" \in buttons' => current_index # 1)
        BY <2>1, <3>1
      <3>4. WellRead(pattern)'
        BY <2>1, <3>1 DEF WellRead
      <3> QED BY <1>0, <2>1, <2>2, <2>4, <3>1, <3>2, <3>3, <3>4 DEF Typed
    <2> QED BY <2>2, <2>3, <2>4
  <1>6. CASE Check
    <2>1. /\ "check" \in buttons /\ ~ undefined
          /\ UNCHANGED <<questions, pattern, connections, ended, clock, buttons, current_index>>
          /\ current_index \in 0..(n - 1) => undefined' = undefined
      BY <1>6 DEF Check, HasQuestion, history
    <2>2. connections > 0 /\ ended \in {"none", "running"}
      BY <1>0, <2>1 DEF Typed, Working
    <2>3. WellRead(pattern)' <=> WellRead(pattern)
      BY <2>1 DEF WellRead
    <2> QED BY <1>0, <2>1, <2>2, <2>3 DEF TimerInv
  <1>7. CASE Done
    <2>1. connections > 0
      BY <1>0, <1>7 DEF Done
    <2>2. ended \in {"none", "running"}
      BY <1>0, <1>7 DEF Done, Typed, Working
    <2> QED BY <1>0, <1>7, <2>1, <2>2 DEF Done, ButtonsAtEnd, Working, WellRead, test
  <1>8. CASE ToShow
    <2>1. /\ "to_show" \in buttons /\ ~ undefined
          /\ UNCHANGED <<questions, pattern, connections, ended, clock, buttons>>
          /\ LoopFits => undefined' = undefined
      BY <1>8 DEF ToShow
    <2>2. connections > 0 /\ ended # "running"
      BY <1>0, <2>1
    <2>3. WellRead(pattern)' <=> WellRead(pattern)
      BY <2>1 DEF WellRead
    <2>4. CASE ended = "none"
      BY <1>0, <2>1, <2>2, <2>3, <2>4 DEF TimerInv
    <2>5. CASE ended # "none"
      <3>1. WellRead(pattern) /\ n = Len(QuestionsOf[pattern])
        BY <1>0, <2>1, <2>5 DEF TimerInv
      <3>2. LoopFits
        BY <1>0, <3>1 DEF LoopFits, WellRead, count_questions
      <3> QED BY <1>0, <2>1, <2>2, <2>3, <2>5, <3>2
    <2> QED BY <2>4, <2>5
  <1>9. CASE Timeout
    BY <1>0, <1>9 DEF Timeout, test
  <1>10. CASE UpdateProgressBar
    <2>1. connections > 0 /\ ~ undefined /\ UNCHANGED <<test, connections, undefined>>
      BY <1>0, <1>10 DEF UpdateProgressBar, TimerInv
    <2>2. ended \in {"running", "timeout"} /\ UNCHANGED <<pattern, clock>> /\ ~ undefined'
      BY <1>0, <1>10, <2>1 DEF UpdateProgressBar, TimerInv
    <2>3. WellRead(pattern) /\ WellRead(pattern)'
      BY <1>0, <2>1, <2>2 DEF WellRead
    <2>4. CASE Expired(progress)
      BY <1>10, <2>1, <2>2, <2>3, <2>4 DEF UpdateProgressBar, ButtonsAtEnd, Working
    <2>5. CASE ~ Expired(progress)
      <3>1. UNCHANGED <<buttons, ended, questions, current_index>>
        BY <1>10, <2>5 DEF UpdateProgressBar, test
      <3> QED BY <1>0, <2>1, <2>2, <2>3, <3>1
    <2> QED BY <2>4, <2>5
  <1>11. CASE UNCHANGED vars
    BY <1>0, <1>11 DEF vars, test, history
  <1> QED BY <1>1, <1>2, <1>3, <1>4, <1>5, <1>6, <1>7, <1>8, <1>9, <1>10, <1>11 DEF Next, Halted

LEMMA NextTime == IInv /\ [Next]_vars => TimeInv'
  <1> SUFFICES ASSUME IInv, [Next]_vars PROVE TimeInv'
    OBVIOUS
  <1>0. Typed /\ TimerInv /\ ButtonsInv /\ TimeInv
    BY DEF IInv
  <1>a. /\ connections \in Nat /\ calls \in Nat /\ progress \in Nat /\ clock \in Nat
        /\ Seconds \in Nat
    BY <1>0, SecondsAssumption DEF Typed
  <1> USE DEF TimeInv, FirstTestHasItsTime, InTest, Idle, TimerStopped
  <1>1. ASSUME NEW p \in Pattern, Open(p) PROVE TimeInv'
    BY <1>0, <1>1 DEF Open, TimerInv
  <1>2. CASE Back
    BY <1>0, <1>2 DEF Back, test, history
  <1>3. CASE StartTesting
    <2>1. /\ connections' = connections + 1 /\ timer' = TRUE /\ ended' = "running" /\ clock' = 0
          /\ UNCHANGED <<calls, progress>> /\ calls = 0
      BY <1>3 DEF StartTesting
    <2> QED BY <1>0, <1>a, <2>1
  <1>4. CASE NextQuestion \/ PrevQuestion \/ Check
    BY <1>0, <1>4 DEF NextQuestion, PrevQuestion, Check, history
  <1>5. CASE Done
    BY <1>0, <1>5 DEF Done, ButtonsInv
  <1>6. CASE ToShow
    BY <1>0, <1>6 DEF ToShow
  <1>7. CASE Timeout
    <2>1. /\ timer /\ calls = 0 /\ calls' = connections /\ clock' = clock + 1
          /\ UNCHANGED <<timer, connections, progress, ended>>
      BY <1>7 DEF Timeout
    <2>2. ended = "running"
      BY <1>0, <2>1 DEF TimerInv
    <2> QED BY <1>0, <1>a, <2>1, <2>2
  <1>8. CASE UpdateProgressBar
    <2>1. calls > 0 /\ calls' = calls - 1 /\ UNCHANGED <<connections, clock>> /\ connections > 0
      BY <1>0, <1>8 DEF UpdateProgressBar, TimerInv
    <2>2. CASE progress >= Seconds
      <3>1. timer' = FALSE /\ progress' = 0 /\ ended' = "timeout"
        BY <1>8, <2>2 DEF UpdateProgressBar, Expired
      <3> QED BY <1>0, <1>a, <2>1, <2>2, <3>1
    <2>3. CASE ~ (progress >= Seconds)
      <3>1. progress' = progress + 1 /\ UNCHANGED <<timer, ended>>
        BY <1>8, <2>3 DEF UpdateProgressBar, Expired
      <3>2. connections = 1 => timer /\ ended # "timeout"
        BY <1>0, <2>1 DEF TimerInv
      <3> QED BY <1>0, <1>a, <2>1, <2>3, <3>1, <3>2
    <2> QED BY <2>2, <2>3
  <1>9. CASE UNCHANGED vars
    BY <1>0, <1>9 DEF vars, test, history
  <1> QED BY <1>1, <1>2, <1>3, <1>4, <1>5, <1>6, <1>7, <1>8, <1>9 DEF Next, Halted

LEMMA NextResult == IInv /\ [Next]_vars => ResultInv'
  <1> SUFFICES ASSUME IInv, [Next]_vars PROVE ResultInv'
    OBVIOUS
  <1>0. Typed /\ ButtonsInv /\ ResultInv
    BY DEF IInv
  <1> USE DEF ResultInv, InTest, Idle, TimerStopped
  <1>1. ASSUME NEW p \in Pattern, Open(p) PROVE ResultInv'
    BY <1>1 DEF Open
  <1>2. CASE Back
    BY <1>0, <1>2 DEF Back, test, history, get_counter_correct_answers
  <1>3. CASE StartTesting
    BY <1>3 DEF StartTesting
  <1>4. CASE NextQuestion \/ PrevQuestion \/ Check
    <2>1. ended # "done" /\ ended' = ended
      BY <1>0, <1>4 DEF NextQuestion, PrevQuestion, Check, ButtonsInv, Working, history
    <2> QED BY <2>1
  <1>5. CASE Done
    BY <1>5 DEF Done, get_counter_correct_answers, test
  <1>6. CASE ToShow
    BY <1>0, <1>6 DEF ToShow, get_counter_correct_answers
  <1>7. CASE Timeout
    BY <1>0, <1>7 DEF Timeout
  <1>8. CASE UpdateProgressBar
    BY <1>0, <1>8 DEF UpdateProgressBar
  <1>9. CASE UNCHANGED vars
    BY <1>0, <1>9 DEF vars, test, history, get_counter_correct_answers
  <1> QED BY <1>1, <1>2, <1>3, <1>4, <1>5, <1>6, <1>7, <1>8, <1>9 DEF Next, Halted

LEMMA AlwaysIInv == Spec => []IInv
  <1>1. IInv /\ [Next]_vars => IInv'
    BY NextTyped, NextTimer, NextButtons, NextTime, NextResult DEF IInv
  <1> QED BY InitIInv, <1>1, PTL DEF Spec

-----------------------------------------------------------------------------
(* The slots index no vector out of its range in a test whose file was      *)
(* read as announced, from its start to its end; in any other one they do   *)
(* it when it is started, and so in no test a student can answer; and in a  *)
(* test that is not started only with what an earlier one has left          *)
(* (test.cpp:14-55, :81, test_widget.cpp:208-295, :335).                    *)
THEOREM OutOfRangeIsExplained == Spec => []OutOfRangeHasReason
  BY AlwaysIInv, PTL DEF IInv, ButtonsInv

(* The result of a test the student has ended cannot be changed any more,   *)
(* by no button and by no late call of the timer (test_widget.cpp:419-430). *)
THEOREM DoneAlwaysSettles == Spec => []DoneSettlesResult
  BY AlwaysIInv, PTL DEF IInv, ResultInv, DoneSettlesResult

(* The first test since the program was started lasts Seconds seconds, for  *)
(* every number of seconds (test_widget.cpp:157-172, :208-223).             *)
THEOREM FirstTestLastsItsTime == Spec => []FirstTestHasItsTime
  BY AlwaysIInv, PTL DEF IInv, TimeInv

=============================================================================
