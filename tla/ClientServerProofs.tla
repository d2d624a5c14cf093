------------------------- MODULE ClientServerProofs -------------------------
(***************************************************************************)
(* Theorems about ClientServer: the clients make no step of the server     *)
(* that HandlerServer does not allow, so that what is proved of it holds   *)
(* here; from that, what a message of success says about the two tables.   *)
(***************************************************************************)
EXTENDS ClientServer, HandlerServerProofs

Writes == {"result", "set_all_result"}

(* Whoever may have changed results had finished when t was received. *)
AloneSince(t) == \A u \in Thread \ {t} : request[u].kind \in Writes => u \in earlier[t]

OneForPattern(l) ==
  \A row, other \in RowsOf(l) : row.id_pattern = other.id_pattern => row = other

(* There is no answer before the end, and none but "uncorrect" for a text   *)
(* that cannot be read.                                                     *)
AnswerInv ==
  \A t \in Thread : /\ pc[t] \notin {"done", "lost"} => answer[t] = "none"
                    /\ answer[t] = "correct" => request[t].kind # "unreadable"

(* What has been handed out is what is stored, until somebody writes.       *)
LoadedInv ==
  \A t \in Thread : Answered(t, "authorization", "correct") /\ AloneSince(t) =>
    Elements(tests[t]) = {AsTest(row) : row \in RowsOf(request[t].login)}

(* What has been uploaded is stored, once, until somebody else writes.      *)
UploadedInv ==
  \A t \in Thread :
    /\ pc[t] = "insert" /\ NoRival(t, Writes) => OneForPattern(request[t].login)
    /\ Answered(t, "set_all_result", "correct") /\ AloneSince(t) =>
         /\ {AsTest(row) : row \in RowsOf(request[t].login)} = Elements(request[t].tests)
         /\ OneForPattern(request[t].login)

-----------------------------------------------------------------------------
ClientTypeOK ==
  /\ local \in [Client -> Tables]
  /\ forward \in [Client -> {"load_result", "upload_result"}]
  /\ socket \in [Client -> Thread \cup {None}]
  /\ link \in [Client -> {"connecting", "waiting", "closed"}]
  /\ sent \in [Thread -> Request \cup {NoRequest}]
  /\ since \in [Client -> SUBSET Name]
  /\ success \in [Client -> BOOLEAN]

(* Two computers have different connections; one that waits for something   *)
(* has one; one that was told of a success has none.                        *)
SocketsInv ==
  /\ \A c, d \in Client : socket[c] = socket[d] /\ socket[c] # None => c = d
  /\ \A c \in Client : link[c] # "closed" => socket[c] # None
  /\ \A c \in Client : success[c] => socket[c] = None

(* The request r is the one c has sent, its table as it was apart from the  *)
(* tests taken since.                                                       *)
SentBy(c, r) ==
  /\ r.kind = IF forward[c] = "load_result" THEN "authorization" ELSE "set_all_result"
  /\ r.login = login /\ r.password = password
  /\ forward[c] = "upload_result" =>
       \E table \in Tables :
         /\ r.tests = TestsOf(table)
         /\ \A n \in Name : n \notin since[c] => table[n] = local[c][n]

(* What is in a connection, before it is received and after. *)
RequestsInv ==
  /\ \A t \in Thread : sent[t] # NoRequest => pc[t] = "idle"
  /\ \A c \in Client : link[c] = "connecting" =>
       pc[socket[c]] = "idle" /\ sent[socket[c]] = NoRequest
  /\ \A c \in Client : link[c] = "waiting" =>
       LET t == socket[c]
       IN \/ pc[t] = "idle" /\ SentBy(c, sent[t])
          \/ pc[t] = "lost"
          \/ request[t].kind = "unreadable"
          \/ pc[t] # "idle" /\ SentBy(c, request[t])

ClientInv == ClientTypeOK /\ SocketsInv /\ RequestsInv

-----------------------------------------------------------------------------
(* The tests of a table, in some order. *)
LEMMA TestsListed ==
  ASSUME NEW table \in Tables
  PROVE  /\ TestsOf(table) \in Seq(Test)
         /\ Elements(TestsOf(table)) = ResultsOf(table)
         /\ \A i, j \in DOMAIN TestsOf(table) :
              TestsOf(table)[i].name = TestsOf(table)[j].name => i = j
  <1> DEFINE R == ResultsOf(table)
             N == {n \in Name : table[n] # None}
             list == TestsOf(table)
             f == [n \in N |-> [name |-> n, result |-> table[n]]]
  <1>1. IsFiniteSet(N)
    <2>1. N \in SUBSET Pattern
      BY DEF Tables
    <2> QED BY <2>1, FS_Subset, TablesAssumption
  <1>2. IsFiniteSet(R)
    <2>1. f \in Surjection(N, R)
      BY DEF Surjection, ResultsOf
    <2> HIDE DEF f
    <2> QED BY <1>1, <2>1, FS_Surjection
  <1>3. PICK k \in Nat : k = Cardinality(R) /\ ExistsBijection(1..k, R)
    BY <1>2, FS_CardinalityType
  <1>4. list \in [1..k -> R] /\ \A i, j \in 1..k : list[i] = list[j] => i = j
    <2>1. \E g \in [1..k -> R] : IsInjective(g)
      BY <1>3 DEF ExistsBijection, Bijection, Injection, IsInjective
    <2>2. list \in [1..k -> R] /\ IsInjective(list)
      BY <1>3, <2>1 DEF TestsOf, SetToSeq
    <2> QED BY <2>2 DEF IsInjective
  <1> HIDE DEF list
  <1>5. list \in Surjection(1..k, R)
    <2>1. list \in Injection(1..k, R)
      BY <1>4 DEF Injection, IsInjective
    <2>2. IsFiniteSet(1..k) /\ Cardinality(1..k) = k
      BY FS_Interval
    <2> QED BY <1>2, <1>3, <2>1, <2>2, FS_Injection
  <1>6. Elements(list) = R
    BY <1>4, <1>5 DEF Surjection, Elements
  <1>7. R \subseteq Test /\ \A x, y \in R : x.name = y.name => x = y
    BY DEF ResultsOf, Tables, Test
  <1> HIDE DEF R
  <1>8. list \in Seq(Test)
    BY <1>4, <1>7
  <1>9. \A i, j \in DOMAIN list : list[i].name = list[j].name => i = j
    BY <1>4, <1>7
  <1> QED BY <1>6, <1>8, <1>9 DEF R, list

-----------------------------------------------------------------------------
(* Who answers, and when. *)
LEMMA NewAnswer ==
  ASSUME Typed, AnswerInv, [Next]_vars, NEW t \in Thread
  PROVE  /\ pc'[t] \notin {"done", "lost"} => answer'[t] = "none"
         /\ answer'[t] = "correct" => request'[t].kind # "unreadable"
  <1>1. CASE Receive(t)
    BY <1>1, ReceiveFrame DEF AnswerInv
  <1>2. CASE ~ Receive(t) /\ ~ Handle(t)
    BY <1>2, OthersFrame DEF AnswerInv
  <1>3. CASE Handle(t)
    <2> USE DEF Typed, TypeOK
    <2>1. pc[t] \notin {"done", "lost"} /\ answer[t] = "none" /\ request' = request
      BY <1>3, HandlerFrame DEF AnswerInv
    <2>2. pc'[t] = "done" \/ answer'[t] = answer[t]
      <3>1. CASE Unreadable(t) \/ Patterns(t) \/ AuthFails(t) \/ UnknownPattern(t) \/ AuthPasses(t)
        BY <3>1 DEF Unreadable, Patterns, AuthFails, UnknownPattern, AuthPasses, Goto, Return
      <3>2. CASE ReadAvatar(t) \/ CountTests(t) \/ RowVanished(t) \/ ReadTest(t)
        BY <3>2 DEF ReadAvatar, CountTests, RowVanished, ReadTest, Goto, Return
      <3>3. CASE CheckLogin(t) \/ Truncate(t) \/ Write(t) \/ LockMutex(t) \/ Unlock(t)
        BY <3>3 DEF CheckLogin, Truncate, Write, LockMutex, Unlock, Goto, Return
      <3>4. CASE InsertUser(t) \/ InsertUserThrows(t) \/ InsertTest(t) \/ UploadDone(t)
        BY <3>4 DEF InsertUser, InsertUserThrows, InsertTest, UploadDone, Goto, Return
      <3>5. CASE FindRow(t) \/ InsertRow(t) \/ UpdateRow(t) \/ ResultThrows(t) \/ DeleteTests(t)
        BY <3>5 DEF FindRow, InsertRow, UpdateRow, ResultThrows, DeleteTests, Goto, Return
      <3> QED BY <1>3, <3>1, <3>2, <3>3, <3>4, <3>5 DEF Handle
    <2>3. request[t].kind = "unreadable" => answer'[t] # "correct"
      <3> SUFFICES ASSUME request[t].kind = "unreadable" PROVE answer'[t] # "correct"
        OBVIOUS
      <3>1. pc[t] = "unreadable"
        BY <2>1, <1>3, HandlerFrame DEF KindAt
      <3>2. Unreadable(t)
        BY <1>3, <3>1 DEF Handle, Patterns, AuthFails, UnknownPattern, AuthPasses, ReadAvatar,
             CountTests, ReadTest, RowVanished, CheckLogin, Truncate, Write, LockMutex, Unlock,
             InsertUser, InsertUserThrows, FindRow, InsertRow, UpdateRow, ResultThrows,
             DeleteTests, InsertTest, UploadDone
      <3> QED BY <3>2 DEF Unreadable, Return
    <2> QED BY <2>1, <2>2, <2>3
  <1> QED BY <1>1, <1>2, <1>3

(* Nobody has written when a request arrived after all writers had finished. *)
LEMMA AloneBefore ==
  ASSUME Typed, LogInv, [Next]_vars, NEW t \in Thread, pc[t] # "idle", AloneSince(t)'
  PROVE  AloneSince(t) /\ NoRival(t, Writes)
  <1>1. request'[t] = request[t] /\ earlier'[t] = earlier[t]
    BY Lasting
  <1>2. ASSUME NEW u \in Thread \ {t}, request[u].kind \in Writes PROVE u \in earlier[t]
    <2>1. pc[u] # "idle"
      BY <1>2 DEF LogInv, NoRequest, Writes
    <2>2. request'[u] = request[u]
      BY <2>1, Lasting
    <2> QED BY <1>1, <1>2, <2>2 DEF AloneSince
  <1> QED BY <1>2 DEF AloneSince, NoRival, Rival, Overlap

(* The rows of the user stay while it is so, but for those t itself writes. *)
LEMMA RowsStay ==
  ASSUME Typed, LogInv, [Next]_vars, NEW t \in Thread, pc[t] # "idle", AloneSince(t)',
         ~ InsertRow(t), ~ UpdateRow(t), ~ DeleteTests(t), ~ InsertTest(t)
  PROVE  RowsOf(request[t].login)' = RowsOf(request[t].login)
  <1>0. PICK l : l = request[t].login /\ l = request'[t].login
    BY Lasting
  <1> SUFFICES ASSUME NEW v \in Thread, v # t, request[v].login = l,
                      InsertRow(v) \/ UpdateRow(v) \/ DeleteTests(v) \/ InsertTest(v)
               PROVE  FALSE
    <2>1. RowsOf(request[t].login)' = RowsOf(l)' /\ RowsOf(request[t].login) = RowsOf(l)
      BY <1>0 DEF RowsOf
    <2> QED BY <1>0, <2>1, RowsEffect
  <1>1. request[v].kind \in Writes /\ ~ Finished(v)
    BY DEF InsertRow, UpdateRow, DeleteTests, InsertTest, Finished, Typed, KindAt, Writes
  <1>2. v \in earlier[t]
    BY <1>1, AloneBefore DEF AloneSince
  <1> QED BY <1>1, <1>2 DEF LogInv

LEMMA NextLoaded == TypedInv /\ HistoryInv /\ LoadedInv /\ [Next]_vars => LoadedInv'
  <1> SUFFICES ASSUME TypedInv, HistoryInv, LoadedInv, [Next]_vars, NEW t \in Thread,
                      Answered(t, "authorization", "correct")', AloneSince(t)'
               PROVE  Elements(tests'[t]) = {AsTest(row) : row \in RowsOf(request[t].login)'}
    BY DEF LoadedInv, Elements
  <1> USE DEF TypedInv, HistoryInv
  <1>1. pc'[t] = "done"
    BY DEF Answered
  <1>2. pc[t] # "idle" /\ request'[t] = request[t]
    BY <1>1, ReceiveFrame, HandlerFrame, OthersFrame, Lasting
  <1>3. RowsOf(request[t].login)' = RowsOf(request[t].login)
    BY <1>1, <1>2, RowsStay, HandlerFrame DEF InsertRow, UpdateRow, DeleteTests, InsertTest, Handle,
       Answered, Typed, KindAt
  <1>4. CASE pc[t] = "done"
    <2>1. ~ Receive(t) /\ ~ Handle(t)
      BY <1>4, ReceiveFrame, HandlerFrame
    <2>2. Answered(t, "authorization", "correct") /\ tests'[t] = tests[t]
      BY <1>2, <1>4, <2>1, OthersFrame DEF Answered
    <2>3. AloneSince(t)
      BY <1>2, AloneBefore
    <2> QED BY <1>2, <1>3, <2>2, <2>3 DEF LoadedInv, Elements
  <1>5. CASE pc[t] # "done"
    <2>1. NoRival(t, {"result", "set_all_result"})
      BY <1>2, AloneBefore DEF Writes
    <2>2. Elements(tests'[t]) = {AsTest(row) : row \in RowsOf(request[t].login)}
      BY <1>1, <1>5, <2>1, ExactStep DEF Returns
    <2> QED BY <1>2, <1>3, <2>2
  <1> QED BY <1>4, <1>5

(* An upload without a rival inserts what it has not inserted yet. *)
LEMMA NextOnce ==
  ASSUME UploadsListOnce, TypedInv, HistoryInv, UploadInv, UploadedInv, [Next]_vars,
         NEW t \in Thread, pc'[t] = "insert", NoRival(t, Writes)'
  PROVE  OneForPattern(request[t].login)'
  <1> USE DEF TypedInv, HistoryInv
  <1>1. request'[t] = request[t] /\ pc[t] # "idle" /\ request[t].kind = "set_all_result"
    BY NewUploader
  <1>0. PICK l, list : l = request[t].login /\ l = request'[t].login /\ list = request[t].tests
    BY <1>1
  <1>2. NoRival(t, Writes)
    BY <1>1, RivalsStay DEF Writes
  <1>3. OneForPattern(request[t].login)' = OneForPattern(l)'
    BY <1>0 DEF OneForPattern, RowsOf
  <1>4. CASE DeleteTests(t)
    <2>1. RowsOf(l)' = {}
      BY <1>0, <1>4 DEF DeleteTests, Deleted, RowsOf
    <2> QED BY <1>3, <2>1 DEF OneForPattern
  <1>5. CASE InsertTest(t)
    <2>1. list \in Seq(Test) /\ counter[t] \in Nat
      <3>1. request[t] \in Request
        BY <1>1, RequestFields DEF Typed, TypeOK, NoRequest
      <3>2. list \in Uploads
        BY <1>0, <1>1, <3>1, RequestFields
      <3> QED BY <3>2, UploadsAssumption DEF Typed, TypeOK
    <2>2. PICK new : /\ counter[t] + 1 <= Len(list)
                     /\ new.id_user = l /\ AsTest(new) = list[counter[t] + 1]
                     /\ User_test' = User_test \cup {new}
      BY <1>0, <1>5, InsertStep
    <2>3. RowsOf(l)' = RowsOf(l) \cup {new}
      BY <2>2 DEF RowsOf
    <2>4. pc[t] = "insert"
      BY <1>5 DEF InsertTest
    <2>5. OneForPattern(l)
      BY <1>0, <1>2, <2>4 DEF UploadedInv
    <2>6. {AsTest(row) : row \in RowsOf(l)} = {list[i] : i \in 1..counter[t]}
      BY <1>0, <1>2, <2>4 DEF UploadInv, Writes
    <2>7. ASSUME NEW row \in RowsOf(l) PROVE row.id_pattern # new.id_pattern
      <3>1. PICK i \in 1..counter[t] : AsTest(row) = list[i]
        BY <2>6
      <3>2. i \in DOMAIN list /\ counter[t] + 1 \in DOMAIN list /\ i # counter[t] + 1
        BY <2>1, <2>2
      <3>3. list[i].name # list[counter[t] + 1].name
        <4>1. list \in Uploads
          BY <1>0, <1>1, RequestFields DEF Typed, TypeOK, NoRequest
        <4> QED BY <3>2, <4>1 DEF UploadsListOnce
      <3> QED BY <2>2, <3>1, <3>3 DEF AsTest
    <2> QED BY <1>3, <2>3, <2>5, <2>7 DEF OneForPattern
  <1>6. CASE ~ DeleteTests(t) /\ ~ InsertTest(t)
    <2>1. pc[t] = "insert"
      BY <1>6, NewUploader
    <2>2. RowsOf(l)' = RowsOf(l)
      <3> SUFFICES ASSUME NEW v \in Thread, request[v].login = l,
                          InsertRow(v) \/ UpdateRow(v) \/ DeleteTests(v) \/ InsertTest(v)
                   PROVE  FALSE
        BY RowsEffect
      <3>1. v # t
        BY <1>6, <2>1 DEF InsertRow, UpdateRow
      <3> QED BY <1>0, <2>1, <1>2, <3>1, WritersAreRivals DEF Finished, Writes
    <2>3. OneForPattern(l)
      BY <1>0, <1>2, <2>1 DEF UploadedInv
    <2> QED BY <1>3, <2>2, <2>3 DEF OneForPattern
  <1> QED BY <1>4, <1>5, <1>6

LEMMA NextUploaded ==
  ASSUME UploadsListOnce
  PROVE  TypedInv /\ HistoryInv /\ UploadInv /\ UploadedInv /\ [Next]_vars => UploadedInv'
  <1> SUFFICES ASSUME TypedInv, HistoryInv, UploadInv, UploadedInv, [Next]_vars PROVE UploadedInv'
    OBVIOUS
  <1>a. ASSUME NEW t \in Thread, pc'[t] = "insert", NoRival(t, Writes)'
        PROVE  OneForPattern(request[t].login)'
    BY <1>a, NextOnce
  <1> SUFFICES ASSUME NEW t \in Thread, Answered(t, "set_all_result", "correct")', AloneSince(t)'
               PROVE  /\ {AsTest(row) : row \in RowsOf(request[t].login)'} = Elements(request'[t].tests)
                      /\ OneForPattern(request[t].login)'
    BY <1>a DEF UploadedInv, Elements
  <1> USE DEF TypedInv, HistoryInv
  <1>1. pc'[t] = "done" /\ answer'[t] = "correct" /\ request'[t].kind = "set_all_result"
    BY DEF Answered
  <1>2. pc[t] # "idle" /\ request'[t] = request[t]
    BY <1>1, ReceiveFrame, HandlerFrame, OthersFrame, Lasting
  <1>0. PICK l, list : l = request[t].login /\ l = request'[t].login /\ list = request[t].tests
    BY <1>2
  <1>3. RowsOf(request[t].login)' = RowsOf(l)' /\ OneForPattern(request[t].login)' = OneForPattern(l)'
    BY <1>0 DEF OneForPattern, RowsOf
  <1>4. AloneSince(t) /\ NoRival(t, Writes)
    BY <1>2, AloneBefore
  <1>5. CASE pc[t] = "done"
    <2>1. ~ Receive(t) /\ ~ Handle(t)
      BY <1>5, ReceiveFrame, HandlerFrame
    <2>2. Answered(t, "set_all_result", "correct")
      BY <1>1, <1>2, <1>5, <2>1, OthersFrame DEF Answered
    <2>3. {AsTest(row) : row \in RowsOf(l)} = Elements(list) /\ OneForPattern(l)
      BY <1>0, <1>4, <2>2 DEF UploadedInv
    <2>4. RowsOf(l)' = RowsOf(l)
      BY <1>0, <1>2, <1>5, RowsStay DEF InsertRow, UpdateRow, DeleteTests, InsertTest
    <2> QED BY <1>0, <1>2, <1>3, <2>3, <2>4 DEF OneForPattern
  <1>6. CASE pc[t] # "done"
    <2>1. Handle(t)
      BY <1>1, <1>6, ReceiveFrame, OthersFrame
    <2>2. UploadDone(t)
      <3> USE DEF Typed, TypeOK
      <3>1. ~ (AuthFails(t) \/ InsertTest(t))
        BY <1>1 DEF AuthFails, InsertTest, Return, Goto
      <3> QED BY <1>1, <1>2, <2>1, <3>1 DEF Handle, Unreadable, Patterns, UnknownPattern, AuthPasses,
            ReadAvatar, CountTests, ReadTest, RowVanished, CheckLogin, Truncate, Write, LockMutex,
            Unlock, InsertUser, InsertUserThrows, FindRow, InsertRow, UpdateRow, ResultThrows,
            DeleteTests, Goto, KindAt
    <2>3. pc[t] = "insert" /\ is_correct_auth(request[t]) /\ User_test' = User_test
      BY <2>2 DEF UploadDone, disk, Typed, KindAt
    <2>4. RowsOf(l)' = RowsOf(l)
      BY <2>3 DEF RowsOf
    <2>5. OneForPattern(l)
      BY <1>0, <1>4, <2>3 DEF UploadedInv
    <2>6. /\ {AsTest(row) : row \in RowsOf(request[t].login)'} = {list[i] : i \in StoredTests(list)}
          /\ answer'[t] = "correct" <=> StoredTests(list) = DOMAIN list
      BY <1>0, <1>1, <1>2, <1>4, <1>6, <2>3, UploadStep DEF Returns, Writes
    <2>7. {AsTest(row) : row \in RowsOf(request[t].login)'} = Elements(list)
      BY <1>1, <2>6 DEF Elements
    <2>8. Elements(request'[t].tests) = Elements(list)
      BY <1>0, <1>2
    <2> QED BY <1>3, <2>4, <2>5, <2>7, <2>8 DEF OneForPattern
  <1> QED BY <1>5, <1>6

ServerInv == AnswerInv /\ LoadedInv /\ UploadedInv

LEMMA AlwaysServer ==
  ASSUME UploadsListOnce
  PROVE  Safety => []ServerInv
  <1>1. Init => ServerInv
    <2> SUFFICES ASSUME Init PROVE ServerInv
      OBVIOUS
    <2>1. \A t \in Thread : pc[t] = "idle" /\ answer[t] = "none"
      BY DEF Init
    <2> QED BY <2>1 DEF ServerInv, AnswerInv, LoadedInv, UploadedInv, Answered
  <1>2. TypedInv /\ HistoryInv /\ UploadInv /\ ServerInv /\ [Next]_vars => ServerInv'
    <2> SUFFICES ASSUME TypedInv, HistoryInv, UploadInv, ServerInv, [Next]_vars
                 PROVE  ServerInv'
      OBVIOUS
    <2>1. AnswerInv'
      BY NewAnswer DEF ServerInv, AnswerInv, TypedInv
    <2> QED BY <2>1, NextLoaded, NextUploaded DEF ServerInv
  <1> QED BY <1>1, <1>2, AlwaysTyped, AlwaysHistory, AlwaysUpload, PTL DEF Safety

-----------------------------------------------------------------------------
(* The clients, and what of them the server sees. *)
LEMMA ListsHaveNoDoubles == UploadsListOnce
  BY SendsAssumption, TestsListed DEF UploadsListOnce

LEMMA TornIsRequest == [kind |-> "unreadable"] \in Request
  BY SendsAssumption DEF Request

LEMMA RequestIsRequest == ASSUME ClientTypeOK, NEW c \in Client PROVE RequestOf(c) \in Request
  <1>1. login \in Login /\ password \in Password
    BY AccountAssumption, InitialUserAssumption DEF Account
  <1>2. TestsOf(local[c]) \in Uploads
    BY SendsAssumption DEF ClientTypeOK
  <1>3. [kind |-> "authorization", login |-> login, password |-> password] \in Request
    BY <1>1, SendsAssumption DEF Request
  <1>4. [kind |-> "set_all_result", login |-> login, password |-> password,
         tests |-> TestsOf(local[c])] \in Request
    BY <1>1, <1>2, SendsAssumption DEF Request
  <1> QED BY <1>3, <1>4 DEF RequestOf

(* A step of the whole is one of the server, or none of it. *)
LEMMA ServerStep ==
  ASSUME ClientTypeOK, [ClientNext]_allVars
  PROVE  [Next]_vars
  <1>1. ASSUME NEW c \in Client,
               check_test(c) \/ Click(c) \/ on_settings_save_clicked(c) \/ Reports(c)
        PROVE  UNCHANGED vars
    BY <1>1 DEF check_test, Click, on_settings_save_clicked, Reports, slotConnected, slotError,
                recv_data_handler
  <1>2. ASSUME NEW t \in Thread, ArrivesWhole(t) PROVE Next
    <2>1. sent[t] \in Request
      BY <1>2 DEF ArrivesWhole, Arrives, ClientTypeOK
    <2> QED BY <1>2, <2>1 DEF ArrivesWhole, Receive, Next
  <1>3. ASSUME NEW t \in Thread, ArrivesTorn(t) PROVE Next
    BY <1>3, TornIsRequest DEF ArrivesTorn, Receive, Next
  <1>4. CASE ServerDies
    BY <1>4 DEF ServerDies, Next
  <1>5. ASSUME NEW t \in Thread, Handle(t) PROVE Next
    BY <1>5 DEF Next
  <1>6. CASE UNCHANGED allVars
    BY <1>6 DEF allVars
  <1> QED BY <1>1, <1>2, <1>3, <1>4, <1>5, <1>6
             DEF ClientNext, Deliver, ArrivesWithoutBody, Stopped

(* What arrives at the server changes nothing of a client. *)
LEMMA ServerSide ==
  ASSUME \/ \E t \in Thread : Deliver(t) \/ (Handle(t) /\ UNCHANGED clientVars)
         \/ ServerDies
  PROVE  UNCHANGED <<local, forward, socket, link, since, success>>
  BY DEF Deliver, ArrivesWhole, ArrivesTorn, ArrivesWithoutBody, Arrives, ServerDies, clientVars

LEMMA UnusedThread == Unused # {} => (CHOOSE t \in Unused : TRUE) \in Unused
  OBVIOUS

-----------------------------------------------------------------------------
(* Sets of numbers have a smallest element. *)
LEMMA Less == IsWellFoundedOn({ss \in Nat \X Nat : ss[1] < ss[2]}, Nat)
  BY NatLessThanWellFounded DEF OpToRel

LEMMA Smallest ==
  ASSUME NEW T \in SUBSET Nat, T # {}
  PROVE  Min(T) \in T
  <1> DEFINE R == {ss \in Nat \X Nat : ss[1] < ss[2]}
  <1>1. \E x \in T : \A y \in T : ~ (<<y, x>> \in R)
    BY Less, WFMin
  <1>2. \A x, y \in Nat : ~ (<<y, x>> \in R) => x <= y
    OBVIOUS
  <1>3. \E x \in T : \A y \in T : x <= y
    BY <1>1, <1>2
  <1> QED BY <1>3 DEF Min

(* The results of a name are those of the first row that has it. *)
LEMMA TableLoaded ==
  ASSUME NEW rows, rows \in Seq([name : Pattern, result : Result]), NEW c
  PROVE  /\ fill_db_result_test(c, rows) \in Tables
         /\ \A x \in ResultsOf(fill_db_result_test(c, rows)) : \E i \in DOMAIN rows : x = rows[i]
         /\ \A i \in DOMAIN rows : \E j \in DOMAIN rows :
              rows[j].name = rows[i].name /\ rows[j] \in ResultsOf(fill_db_result_test(c, rows))
  <1> DEFINE I(n) == {i \in 1..Len(rows) : rows[i].name = n}
             table == fill_db_result_test(c, rows)
  <1>0. /\ Len(rows) \in Nat /\ DOMAIN rows = 1..Len(rows)
        /\ \A i \in 1..Len(rows) : rows[i] \in [name : Pattern, result : Result]
    <2>1. PICK S : S = [name : Pattern, result : Result] /\ rows \in Seq(S)
      OBVIOUS
    <2>2. Len(rows) \in Nat /\ DOMAIN rows = 1..Len(rows) /\ \A i \in 1..Len(rows) : rows[i] \in S
      BY <2>1, LenProperties, ElementOfSeq
    <2> QED BY <2>1, <2>2
  <1>1. \A n \in Name : I(n) = {} => table[n] = None
    BY DEF fill_db_result_test, SelectInSeq
  <1>2. ASSUME NEW n \in Name, I(n) # {}
        PROVE  \E i \in I(n) : table[n] = rows[i].result
    <2>1. PICK J : J = I(n)
      OBVIOUS
    <2>2. J \in SUBSET Nat /\ J # {}
      BY <1>0, <1>2, <2>1
    <2>3. Min(J) \in J
      BY <2>2, Smallest
    <2>4. SelectInSeq(rows, LAMBDA x : x.name = n) = Min(I(n))
      BY <1>2 DEF SelectInSeq
    <2>5. /\ SelectInSeq(rows, LAMBDA x : x.name = n) \in I(n)
          /\ SelectInSeq(rows, LAMBDA x : x.name = n) # 0
      BY <2>1, <2>2, <2>3, <2>4
    <2> QED BY <2>5 DEF fill_db_result_test
  <1>3. DOMAIN table = Name
    BY DEF fill_db_result_test
  <1>4. \A i \in DOMAIN rows : rows[i] \in [name : Pattern, result : Result] /\ i \in I(rows[i].name)
    BY <1>0
  <1>5. \A n \in Name : \A i \in I(n) : i \in DOMAIN rows /\ rows[i].name = n
    BY <1>0
  <1>6. table = [n \in Name |-> table[n]]
    BY DEF fill_db_result_test
  <1> HIDE DEF I, table
  <1>7. ASSUME NEW n \in Name, table[n] # None
        PROVE  \E i \in DOMAIN rows : [name |-> n, result |-> table[n]] = rows[i]
    <2>1. PICK i \in I(n) : table[n] = rows[i].result
      BY <1>1, <1>2, <1>7
    <2>2. i \in DOMAIN rows /\ rows[i].name = n /\ rows[i] \in [name : Pattern, result : Result]
      BY <1>4, <1>5
    <2> QED BY <2>1, <2>2
  <1>8. table \in Tables
    <2>1. \A n \in Name : table[n] # None => n \in Pattern /\ table[n] \in Result
      BY <1>4, <1>7
    <2>2. table \in [Name -> Result \cup {None}]
      BY <1>6, <2>1
    <2> QED BY <2>1, <2>2 DEF Tables
  <1>9. \A x \in ResultsOf(table) : \E i \in DOMAIN rows : x = rows[i]
    BY <1>7 DEF ResultsOf
  <1>10. ASSUME NEW i \in DOMAIN rows
         PROVE  \E j \in DOMAIN rows : rows[j].name = rows[i].name /\ rows[j] \in ResultsOf(table)
    <2>1. rows[i].name \in Name
      BY <1>4, PatternAssumption
    <2>2. PICK j \in I(rows[i].name) : table[rows[i].name] = rows[j].result
      BY <1>2, <1>4, <2>1
    <2>3. /\ j \in DOMAIN rows /\ rows[j].name = rows[i].name
          /\ rows[j] \in [name : Pattern, result : Result]
      BY <1>4, <1>5, <2>1
    <2>4. rows[j] = [name |-> rows[i].name, result |-> table[rows[i].name]]
      BY <2>2, <2>3
    <2>5. table[rows[i].name] # None
      BY <2>2, <2>3, TablesAssumption
    <2> QED BY <2>1, <2>3, <2>4, <2>5 DEF ResultsOf
  <1> QED BY <1>8, <1>9, <1>10 DEF table

-----------------------------------------------------------------------------
LEMMA NextClientType ==
  ASSUME Typed, ClientTypeOK, SocketsInv, [ClientNext]_allVars
  PROVE  ClientTypeOK'
  <1> USE DEF ClientTypeOK
  <1>1. ASSUME NEW c \in Client, check_test(c) PROVE ClientTypeOK'
    <2>1. PICK test \in Taken : local' = [local EXCEPT ![c][test.name] = test.result]
      BY <1>1 DEF check_test
    <2>2. test.name \in Pattern /\ test.name \in Name /\ test.result \in Result
      BY TakenAssumption, PatternAssumption
    <2>3. [local[c] EXCEPT ![test.name] = test.result] \in Tables
      BY <2>2 DEF Tables
    <2>4. local' \in [Client -> Tables]
      BY <2>1, <2>3
    <2>5. since' \in [Client -> SUBSET Name]
      BY <1>1, TakenAssumption, PatternAssumption DEF check_test
    <2> QED BY <1>1, <2>4, <2>5 DEF check_test
  <1>2. ASSUME NEW c \in Client, Click(c) \/ on_settings_save_clicked(c) PROVE ClientTypeOK'
    <2>1. Reconnect(c) /\ UNCHANGED <<local, sent>>
      BY <1>2 DEF Click, on_settings_save_clicked
    <2>2. (CHOOSE t \in Unused : TRUE) \in Thread
      BY <2>1, UnusedThread DEF Reconnect, Unused
    <2>3. socket' \in [Client -> Thread \cup {None}]
      BY <2>1, <2>2 DEF Reconnect
    <2>4. link' \in [Client -> {"connecting", "waiting", "closed"}] /\ since' \in [Client -> SUBSET Name]
      BY <2>1 DEF Reconnect
    <2>5. forward' \in [Client -> {"load_result", "upload_result"}]
      BY <1>2 DEF Click, on_settings_save_clicked
    <2>6. success' \in [Client -> BOOLEAN]
      BY <1>2 DEF Click, on_settings_save_clicked
    <2> QED BY <2>1, <2>3, <2>4, <2>5, <2>6
  <1>3. ASSUME NEW c \in Client, slotConnected(c) PROVE ClientTypeOK'
    BY <1>3, RequestIsRequest DEF slotConnected
  <1>4. ASSUME NEW c \in Client, slotError(c) PROVE ClientTypeOK'
    BY <1>4 DEF slotError
  <1>5. ASSUME NEW c \in Client, recv_data_handler(c) PROVE ClientTypeOK'
    <2>1. CASE answer[socket[c]] = "correct"
      <3>1. /\ socket' = [socket EXCEPT ![c] = None] /\ success' = [success EXCEPT ![c] = TRUE]
            /\ local' = IF forward[c] = "load_result"
                        THEN [local EXCEPT ![c] = fill_db_result_test(c, tests[socket[c]])]
                        ELSE local
            /\ link' = [link EXCEPT ![c] = "closed"] /\ since' = [since EXCEPT ![c] = {}]
            /\ UNCHANGED <<forward, sent>>
        BY <1>5, <2>1 DEF recv_data_handler, ResetSocket
      <3>2. ASSUME forward[c] = "load_result"
            PROVE  fill_db_result_test(c, tests[socket[c]]) \in Tables
        <4>1. socket[c] \in Thread
          BY <1>5 DEF recv_data_handler, SocketsInv
        <4> QED BY <4>1, TableLoaded DEF Typed, TypeOK
      <3>3. local' \in [Client -> Tables]
        BY <3>1, <3>2
      <3> QED BY <3>1, <3>3
    <2>2. CASE answer[socket[c]] # "correct"
      BY <1>5, <2>2 DEF recv_data_handler
    <2> QED BY <2>1, <2>2
  <1>6. ASSUME NEW t \in Thread, Deliver(t) \/ (Handle(t) /\ UNCHANGED clientVars)
        PROVE  ClientTypeOK'
    BY <1>6, ServerSide DEF Deliver, ArrivesWhole, ArrivesTorn, ArrivesWithoutBody, Arrives,
                            ServerDies, clientVars
  <1>7. CASE ServerDies
    BY <1>7 DEF ServerDies
  <1>8. CASE UNCHANGED allVars
    BY <1>8 DEF allVars, clientVars
  <1> QED BY <1>1, <1>2, <1>3, <1>4, <1>5, <1>6, <1>7, <1>8 DEF ClientNext, Reports, Stopped

LEMMA NextSockets ==
  ASSUME ClientTypeOK, SocketsInv, [ClientNext]_allVars
  PROVE  SocketsInv'
  <1> USE DEF ClientTypeOK, SocketsInv
  <1>1. ASSUME NEW c \in Client, check_test(c) PROVE SocketsInv'
    BY <1>1 DEF check_test
  <1>2. ASSUME NEW c \in Client, Click(c) \/ on_settings_save_clicked(c) PROVE SocketsInv'
    <2>1. Reconnect(c) /\ ~ success'[c] /\ \A d \in Client \ {c} : success'[d] = success[d]
      BY <1>2 DEF Click, on_settings_save_clicked
    <2>2. PICK t : t \in Unused /\ socket' = [socket EXCEPT ![c] = t]
      BY <2>1, UnusedThread DEF Reconnect
    <2>3. t \in Thread /\ \A d \in Client : socket[d] # t
      BY <2>2 DEF Unused
    <2>4. \A d \in Client \ {c} : link'[d] = link[d]
      BY <2>1 DEF Reconnect
    <2> QED BY <2>1, <2>2, <2>3, <2>4, NoneAssumption
  <1>3. ASSUME NEW c \in Client, slotConnected(c) PROVE SocketsInv'
    BY <1>3 DEF slotConnected
  <1>4. ASSUME NEW c \in Client, slotError(c) PROVE SocketsInv'
    BY <1>4 DEF slotError
  <1>5. ASSUME NEW c \in Client, recv_data_handler(c) PROVE SocketsInv'
    BY <1>5 DEF recv_data_handler, ResetSocket
  <1>6. ASSUME NEW t \in Thread,
               Deliver(t) \/ (Handle(t) /\ UNCHANGED clientVars) \/ ServerDies
        PROVE  SocketsInv'
    BY <1>6, ServerSide
  <1>7. CASE ServerDies
    BY <1>7 DEF ServerDies
  <1>8. CASE UNCHANGED allVars
    BY <1>8 DEF allVars, clientVars
  <1> QED BY <1>1, <1>2, <1>3, <1>4, <1>5, <1>6, <1>7, <1>8 DEF ClientNext, Reports, Stopped

-----------------------------------------------------------------------------
(* What the server does to a connection. *)
Untouched(t) == sent'[t] = sent[t] /\ pc'[t] = pc[t] /\ request'[t] = request[t]

Arriving(t) == /\ pc[t] = "idle" /\ sent[t] # NoRequest /\ pc'[t] # "idle"
               /\ sent'[t] = NoRequest
               /\ request'[t] = sent[t] \/ request'[t].kind = "unreadable"

GoesOn(t) == /\ pc[t] # "idle" /\ pc'[t] # "idle" /\ (pc[t] = "lost" => pc'[t] = "lost")
             /\ sent'[t] = sent[t] /\ request'[t] = request[t]

Breaks(t) == /\ pc[t] = "idle" /\ sent[t] # NoRequest
             /\ pc'[t] = "lost" /\ sent'[t] = NoRequest

LEMMA Connection ==
  ASSUME Typed, ClientTypeOK, RequestsInv, NEW t \in Thread,
         \/ \E v \in Thread : Deliver(v) \/ (Handle(v) /\ UNCHANGED clientVars)
         \/ ServerDies
  PROVE  Untouched(t) \/ Arriving(t) \/ GoesOn(t) \/ Breaks(t)
  <1> USE DEF Typed, TypeOK, ClientTypeOK
  <1>1. ASSUME NEW v \in Thread, ArrivesWhole(v) \/ ArrivesTorn(v)
        PROVE  Untouched(t) \/ Arriving(t)
    <2>1. PICK r : Received(v, r) /\ (r = sent[v] \/ r = [kind |-> "unreadable"]) /\ Arrives(v)
      BY <1>1 DEF ArrivesWhole, ArrivesTorn
    <2>2. pc[v] = "idle" /\ request'[v] = r /\ pc' = [pc EXCEPT ![v] = Entry(r.kind)]
      BY <2>1 DEF Received, Goto
    <2>3. r.kind = "unreadable" \/ r \in Request
      BY <2>1 DEF Arrives
    <2>4. pc'[v] # "idle"
      BY <2>2, <2>3, RequestFields DEF Entry, AllKinds
    <2>5. CASE t = v
      BY <2>1, <2>2, <2>4, <2>5 DEF Arriving, Arrives
    <2>6. CASE t # v
      BY <2>1, <2>2, <2>6 DEF Untouched, Arrives, Received
    <2> QED BY <2>5, <2>6
  <1>2. CASE ServerDies
    <2>1. pc'[t] \in {pc[t], "lost"} /\ request' = request
      BY <1>2 DEF ServerDies, Restart
    <2>2. sent'[t] = NoRequest /\ (pc[t] = "idle" => (pc'[t] = "lost" <=> sent[t] # NoRequest))
      BY <1>2 DEF ServerDies
    <2>3. CASE pc[t] = "idle"
      BY <2>1, <2>2, <2>3 DEF Untouched, Breaks
    <2>4. CASE pc[t] # "idle"
      <3>1. sent[t] = NoRequest
        BY <2>4 DEF RequestsInv
      <3> QED BY <2>1, <2>2, <2>4, <3>1 DEF GoesOn
    <2> QED BY <2>3, <2>4
  <1>3. ASSUME NEW v \in Thread, Handle(v), UNCHANGED clientVars PROVE Untouched(t) \/ GoesOn(t)
    <2>1. request' = request /\ sent' = sent
      BY <1>3, HandlerFrame DEF clientVars
    <2>2. CASE t = v
      BY <1>3, <2>1, <2>2, HandlerFrame DEF GoesOn
    <2>3. CASE t # v
      BY <1>3, <2>1, <2>3, HandlerFrame DEF Untouched
    <2> QED BY <2>2, <2>3
  <1> QED BY <1>1, <1>2, <1>3 DEF Deliver, ArrivesWithoutBody

LEMMA ServerRequests ==
  ASSUME Typed, LogInv, ClientTypeOK, SocketsInv, RequestsInv,
         \/ \E v \in Thread : Deliver(v) \/ (Handle(v) /\ UNCHANGED clientVars)
         \/ ServerDies
  PROVE  RequestsInv'
  <1>1. UNCHANGED <<local, forward, socket, link, since, success>>
    BY ServerSide
  <1>2. \A t \in Thread : Untouched(t) \/ Arriving(t) \/ GoesOn(t) \/ Breaks(t)
    BY Connection
  <1>3. ASSUME NEW t \in Thread, sent'[t] # NoRequest PROVE pc'[t] = "idle"
    BY <1>2, <1>3 DEF RequestsInv, Untouched, Arriving, GoesOn, Breaks
  <1>4. ASSUME NEW c \in Client, link'[c] = "connecting"
        PROVE  pc'[socket'[c]] = "idle" /\ sent'[socket'[c]] = NoRequest
    <2>1. socket[c] \in Thread /\ pc[socket[c]] = "idle" /\ sent[socket[c]] = NoRequest
      BY <1>1, <1>4 DEF ClientTypeOK, SocketsInv, RequestsInv
    <2>2. PICK t \in Thread : t = socket[c] /\ t = socket'[c]
      BY <1>1, <2>1
    <2> QED BY <1>2, <2>1, <2>2 DEF Untouched, Arriving, GoesOn, Breaks
  <1>5. ASSUME NEW c \in Client, link'[c] = "waiting", NEW t, t = socket[c]
        PROVE  \/ pc'[t] = "idle" /\ SentBy(c, sent[t])'
               \/ pc'[t] = "lost"
               \/ request'[t].kind = "unreadable"
               \/ pc'[t] # "idle" /\ SentBy(c, request[t])'
    <2>1. t \in Thread
      BY <1>1, <1>5 DEF ClientTypeOK, SocketsInv
    <2>2. \/ pc[t] = "idle" /\ SentBy(c, sent[t])
          \/ pc[t] = "lost"
          \/ request[t].kind = "unreadable"
          \/ pc[t] # "idle" /\ SentBy(c, request[t])
      BY <1>1, <1>5 DEF RequestsInv
    <2>3. ASSUME NEW r, SentBy(c, r), r = request'[t] \/ r = sent'[t]
          PROVE  (r = request'[t] => SentBy(c, request[t])') /\ (r = sent'[t] => SentBy(c, sent[t])')
      BY <1>1, <2>3 DEF SentBy
    <2>4. CASE Untouched(t)
      BY <2>2, <2>3, <2>4 DEF Untouched
    <2>5. CASE Arriving(t)
      <3>1. SentBy(c, sent[t]) \/ request[t].kind = "unreadable"
        BY <2>2, <2>5 DEF Arriving
      <3>2. request[t].kind # "unreadable"
        BY <2>1, <2>5 DEF Arriving, LogInv, NoRequest
      <3> QED BY <2>3, <2>5, <3>1, <3>2 DEF Arriving
    <2>6. CASE GoesOn(t)
      BY <2>2, <2>3, <2>6 DEF GoesOn
    <2> QED BY <1>2, <2>1, <2>4, <2>5, <2>6 DEF Breaks
  <1>6. \A c \in Client : socket'[c] = socket[c]
    BY <1>1
  <1> QED BY <1>3, <1>4, <1>5, <1>6 DEF RequestsInv

(* What the other clients wait for is not touched. *)
LEMMA OthersWait ==
  ASSUME ClientTypeOK, SocketsInv, RequestsInv, UNCHANGED vars, NEW c \in Client,
         \A d \in Client \ {c} : /\ forward'[d] = forward[d] /\ local'[d] = local[d]
                                 /\ since'[d] = since[d] /\ socket'[d] = socket[d]
                                 /\ link'[d] = link[d],
         \A t \in Thread : sent'[t] = sent[t] \/ t = socket[c],
         NEW d \in Client, d # c
  PROVE  /\ link'[d] = "connecting" => pc'[socket'[d]] = "idle" /\ sent'[socket'[d]] = NoRequest
         /\ link'[d] = "waiting" =>
              \/ pc'[socket'[d]] = "idle" /\ SentBy(d, sent[socket[d]])'
              \/ pc'[socket'[d]] = "lost"
              \/ request'[socket'[d]].kind = "unreadable"
              \/ pc'[socket'[d]] # "idle" /\ SentBy(d, request[socket[d]])'
  <1>1. pc' = pc /\ request' = request
    BY DEF vars
  <1>2. link'[d] # "closed" => /\ socket'[d] = socket[d] /\ socket[d] \in Thread
                               /\ sent'[socket[d]] = sent[socket[d]]
    BY DEF ClientTypeOK, SocketsInv
  <1>3. link'[d] = link[d] /\ socket'[d] = socket[d]
    OBVIOUS
  <1>4. ASSUME NEW r, SentBy(d, r), r = sent'[socket'[d]] \/ r = request'[socket'[d]]
        PROVE  /\ r = sent'[socket'[d]] => SentBy(d, sent[socket[d]])'
               /\ r = request'[socket'[d]] => SentBy(d, request[socket[d]])'
    BY <1>4 DEF SentBy
  <1> QED BY <1>1, <1>2, <1>3, <1>4 DEF RequestsInv

LEMMA ClientRequests ==
  ASSUME ClientTypeOK, SocketsInv, RequestsInv, NEW c \in Client,
         check_test(c) \/ Click(c) \/ on_settings_save_clicked(c) \/ Reports(c)
  PROVE  RequestsInv'
  <1> USE DEF ClientTypeOK
  <1>0. UNCHANGED vars /\ pc' = pc /\ request' = request
    BY DEF check_test, Click, on_settings_save_clicked, Reports, slotConnected, slotError,
           recv_data_handler, vars
  <1>1. \A d \in Client \ {c} : /\ forward'[d] = forward[d] /\ local'[d] = local[d]
                                /\ since'[d] = since[d] /\ socket'[d] = socket[d]
                                /\ link'[d] = link[d]
    <2>1. CASE check_test(c)
      BY <2>1 DEF check_test
    <2>2. CASE Click(c) \/ on_settings_save_clicked(c)
      BY <2>2 DEF Click, on_settings_save_clicked, Reconnect
    <2>3. CASE slotConnected(c) \/ slotError(c)
      BY <2>3 DEF slotConnected, slotError
    <2>4. CASE recv_data_handler(c)
      BY <2>4 DEF recv_data_handler, ResetSocket
    <2> QED BY <2>1, <2>2, <2>3, <2>4 DEF Reports
  <1>2. ~ slotConnected(c) => sent' = sent
    BY DEF check_test, Click, on_settings_save_clicked, Reports, slotError, recv_data_handler
  <1>3. ASSUME slotConnected(c)
        PROVE  /\ link[c] = "connecting" /\ socket[c] \in Thread /\ pc[socket[c]] = "idle"
               /\ link'[c] = "waiting" /\ sent' = [sent EXCEPT ![socket[c]] = RequestOf(c)]
               /\ UNCHANGED <<local, forward, socket, since>>
    BY <1>3 DEF slotConnected, SocketsInv, RequestsInv
  <1>4. \A t \in Thread : sent'[t] = sent[t] \/ t = socket[c]
    BY <1>2, <1>3
  <1>5. \A t \in Thread : sent'[t] # NoRequest => pc'[t] = "idle"
    BY <1>0, <1>2, <1>3 DEF RequestsInv
  <1>6. link'[c] = "connecting" => pc'[socket'[c]] = "idle" /\ sent'[socket'[c]] = NoRequest
    <2>1. CASE check_test(c)
      BY <1>0, <2>1 DEF check_test, RequestsInv
    <2>2. CASE Click(c) \/ on_settings_save_clicked(c)
      <3>1. Reconnect(c) /\ sent' = sent
        BY <2>2 DEF Click, on_settings_save_clicked
      <3>2. PICK t : t \in Unused /\ socket' = [socket EXCEPT ![c] = t]
        BY <3>1, UnusedThread DEF Reconnect
      <3> QED BY <1>0, <3>1, <3>2 DEF Unused
    <2>3. CASE Reports(c)
      BY <2>3 DEF Reports, slotConnected, slotError, recv_data_handler
    <2> QED BY <2>1, <2>2, <2>3
  <1>7. link'[c] = "waiting" =>
          \/ pc'[socket'[c]] = "idle" /\ SentBy(c, sent[socket[c]])'
          \/ pc'[socket'[c]] = "lost"
          \/ request'[socket'[c]].kind = "unreadable"
          \/ pc'[socket'[c]] # "idle" /\ SentBy(c, request[socket[c]])'
    <2>1. CASE check_test(c)
      <3>1. PICK test \in Taken :
              /\ local' = [local EXCEPT ![c][test.name] = test.result]
              /\ since' = [since EXCEPT ![c] = IF link[c] = "waiting" THEN @ \cup {test.name} ELSE @]
              /\ UNCHANGED <<forward, socket, link, sent>>
        BY <2>1 DEF check_test
      <3>2. ASSUME link[c] = "waiting", NEW r, SentBy(c, r)
            PROVE  /\ r = sent[socket[c]] => SentBy(c, sent[socket[c]])'
                   /\ r = request[socket[c]] => SentBy(c, request[socket[c]])'
        <4>1. \A n \in Name : n \notin since'[c] => n \notin since[c] /\ local'[c][n] = local[c][n]
          BY <3>1, <3>2, TakenAssumption, PatternAssumption DEF Tables
        <4> QED BY <1>0, <3>1, <3>2, <4>1 DEF SentBy
      <3> QED BY <1>0, <3>1, <3>2 DEF RequestsInv
    <2>2. CASE Click(c) \/ on_settings_save_clicked(c)
      BY <2>2 DEF Click, on_settings_save_clicked, Reconnect
    <2>3. CASE slotConnected(c)
      <3>1. SentBy(c, RequestOf(c))
        BY DEF SentBy, RequestOf
      <3>2. PICK r : r = RequestOf(c) /\ r = sent'[socket'[c]]
        BY <1>3, <2>3
      <3>3. SentBy(c, sent[socket[c]])'
        BY <1>3, <2>3, <3>1, <3>2 DEF SentBy
      <3> QED BY <1>0, <1>3, <2>3, <3>3
    <2>4. CASE slotError(c) \/ recv_data_handler(c)
      BY <2>4 DEF slotError, recv_data_handler
    <2> QED BY <2>1, <2>2, <2>3, <2>4 DEF Reports
  <1>8. \A d \in Client \ {c} :
          /\ link'[d] = "connecting" => pc'[socket'[d]] = "idle" /\ sent'[socket'[d]] = NoRequest
          /\ link'[d] = "waiting" =>
              \/ pc'[socket'[d]] = "idle" /\ SentBy(d, sent[socket[d]])'
              \/ pc'[socket'[d]] = "lost"
              \/ request'[socket'[d]].kind = "unreadable"
              \/ pc'[socket'[d]] # "idle" /\ SentBy(d, request[socket[d]])'
    BY <1>0, <1>1, <1>4, OthersWait
  <1> QED BY <1>5, <1>6, <1>7, <1>8 DEF RequestsInv

LEMMA NextRequests ==
  ASSUME Typed, LogInv, ClientTypeOK, SocketsInv, RequestsInv, [ClientNext]_allVars
  PROVE  RequestsInv'
  <1>1. CASE UNCHANGED allVars
    BY <1>1 DEF allVars, clientVars, vars, RequestsInv, SentBy
  <1> QED BY <1>1, ClientRequests, ServerRequests DEF ClientNext, Stopped

-----------------------------------------------------------------------------
LEMMA InitClient == ClientInit => TypedInv /\ LogInv /\ ClientInv
  <1> SUFFICES ASSUME ClientInit PROVE TypedInv /\ LogInv /\ ClientInv
    OBVIOUS
  <1>1. Init /\ User_test = {}
    BY DEF ClientInit, Init
  <1>2. TypedInv /\ LogInv
    BY <1>1, InitTyped, InitLog, FS_EmptySet DEF TypedInv, Finite
  <1>3. NoResults \in Tables
    BY DEF NoResults, Tables
  <1>4. ClientTypeOK
    BY <1>3 DEF ClientInit, ClientTypeOK
  <1>5. SocketsInv /\ RequestsInv
    BY DEF ClientInit, SocketsInv, RequestsInv
  <1> QED BY <1>2, <1>4, <1>5 DEF ClientInv

LEMMA AlwaysClient == ClientSpec => [](TypedInv /\ LogInv /\ ClientInv)
  <1>1. TypedInv /\ LogInv /\ ClientInv /\ [ClientNext]_allVars => (TypedInv /\ LogInv /\ ClientInv)'
    <2> SUFFICES ASSUME TypedInv, LogInv, ClientInv, [ClientNext]_allVars
                 PROVE  (TypedInv /\ LogInv /\ ClientInv)'
      OBVIOUS
    <2>1. TypedInv' /\ LogInv'
      BY ServerStep, NextTyped, NextFinite, NextLog DEF TypedInv, ClientInv
    <2>2. ClientInv'
      BY NextClientType, NextSockets, NextRequests DEF TypedInv, ClientInv
    <2> QED BY <2>1, <2>2
  <1> QED BY <1>1, InitClient, PTL DEF ClientSpec

(* The clients do nothing to the server but send it what HandlerServer      *)
(* receives: whatever is proved of its executions is true of these.         *)
THEOREM ServerServesClients == ClientSpec => Safety
  <1>1. ClientInit => Init
    BY DEF ClientInit
  <1>2. TypedInv /\ LogInv /\ ClientInv /\ [ClientNext]_allVars => [Next]_vars
    BY ServerStep DEF ClientInv
  <1> QED BY <1>1, <1>2, AlwaysClient, PTL DEF ClientSpec, Safety

(* RepeatedOnlyUntilSuccess, of on_settings_save_clicked and socket.reset() *)
(* in recv_data_handler: who has been told of a success has no connection   *)
(* that could be opened again, and whoever connects has one.                *)
THEOREM NothingRepeatedAfterSuccess == ClientSpec => RepeatedOnlyUntilSuccess
  <1>1. SocketsInv => \A c \in Client : link[c] = "connecting" => ~ success[c]
    BY DEF SocketsInv
  <1>2. TypedInv /\ LogInv /\ ClientInv =>
          \A c \in Client : sent' # sent /\ link[c] = "connecting" /\ link'[c] = "waiting" => ~ success[c]
    BY <1>1 DEF ClientInv
  <1> QED BY <1>2, AlwaysClient, PTL DEF RepeatedOnlyUntilSuccess

-----------------------------------------------------------------------------
(* A success is told by recv_data_handler, of an answer "correct" to what   *)
(* the client has sent.                                                     *)
LEMMA SuccessStep ==
  ASSUME ClientTypeOK, [ClientNext]_allVars, NEW c \in Client, NEW f, SuccessOf(c, f)
  PROVE  recv_data_handler(c) /\ answer[socket[c]] = "correct"
  <1>1. success' # success /\ success'[c] /\ ~ success[c] /\ success \in [Client -> BOOLEAN]
    BY DEF SuccessOf, ClientTypeOK
  <1>2. PICK d \in Client : check_test(d) \/ Click(d) \/ on_settings_save_clicked(d) \/ Reports(d)
    BY <1>1, ServerSide DEF ClientNext, Stopped, allVars, clientVars
  <1>3. ~ (check_test(d) \/ on_settings_save_clicked(d) \/ slotConnected(d) \/ slotError(d))
    BY <1>1 DEF check_test, on_settings_save_clicked, slotConnected, slotError
  <1>4. ~ Click(d)
    BY <1>1 DEF Click
  <1>5. recv_data_handler(d)
    BY <1>2, <1>3, <1>4 DEF Reports
  <1>6. answer[socket[d]] = "correct" /\ success' = [success EXCEPT ![d] = TRUE]
    BY <1>1, <1>5 DEF recv_data_handler
  <1>7. d = c
    BY <1>1, <1>6
  <1> QED BY <1>5, <1>6, <1>7

LEMMA SuccessAnswers ==
  ASSUME Typed, AnswerInv, ClientInv, NEW c \in Client, recv_data_handler(c),
         answer[socket[c]] = "correct"
  PROVE  socket[c] \in Thread /\ pc[socket[c]] = "done" /\ SentBy(c, request[socket[c]])
  <1>1. socket[c] \in Thread /\ pc[socket[c]] = "done" /\ link[c] = "waiting"
    BY DEF recv_data_handler, ClientInv, ClientTypeOK, SocketsInv
  <1> QED BY <1>1 DEF AnswerInv, ClientInv, RequestsInv

(* No client sends a single result. *)
LEMMA OnlyUploadsWrite ==
  ASSUME Typed, NEW t \in Thread,
         \A u \in Thread \ {t} : request[u].kind # "set_all_result" \/ u \in earlier[t]
  PROVE  AloneSince(t)
  <1>1. \A u \in Thread : request[u].kind \in Kinds \cup {"none"}
    BY NotARequest DEF Typed, TypeOK, NoRequest
  <1> QED BY <1>1, SendsAssumption DEF AloneSince, Writes

-----------------------------------------------------------------------------
(* A list in which a name has one result fills a table with just that list. *)
LEMMA LoadedTable ==
  ASSUME NEW rows, rows \in Seq([name : Pattern, result : Result]), NEW c,
         \A i, j \in DOMAIN rows : rows[i].name = rows[j].name => rows[i] = rows[j]
  PROVE  ResultsOf(fill_db_result_test(c, rows)) = Elements(rows)
  <1>1. PICK R : R = ResultsOf(fill_db_result_test(c, rows))
    OBVIOUS
  <1>0. /\ \A x \in ResultsOf(fill_db_result_test(c, rows)) : \E i \in DOMAIN rows : x = rows[i]
        /\ \A i \in DOMAIN rows : \E j \in DOMAIN rows :
             rows[j].name = rows[i].name /\ rows[j] \in ResultsOf(fill_db_result_test(c, rows))
    BY TableLoaded
  <1>2. \A x \in R : \E i \in DOMAIN rows : x = rows[i]
    BY <1>0, <1>1
  <1>3. \A i \in DOMAIN rows : \E j \in DOMAIN rows : rows[j].name = rows[i].name /\ rows[j] \in R
    BY <1>0, <1>1
  <1>4. \A i \in DOMAIN rows : rows[i] \in R
    BY <1>3
  <1> QED BY <1>1, <1>2, <1>4 DEF Elements

LEMMA LoadStep ==
  ASSUME TypedInv, AnswerInv, LoadedInv, ClientInv, [ClientNext]_allVars, NEW c \in Client,
         SuccessOf(c, "load_result"),
         \A u \in Thread : request[u].kind # "set_all_result" \/ u \in earlier[socket[c]],
         \A n \in Pattern : Cardinality(RowsFor(login, n)) <= 1
  PROVE  LocalResults(c)' = Stored
  <1> USE DEF TypedInv
  <1>1. recv_data_handler(c) /\ answer[socket[c]] = "correct" /\ forward[c] = "load_result"
    BY SuccessStep DEF SuccessOf, ClientInv
  <1>2. PICK t \in Thread : t = socket[c] /\ pc[t] = "done" /\ SentBy(c, request[t])
    BY <1>1, SuccessAnswers
  <1>3. Answered(t, "authorization", "correct") /\ request[t].login = login
    BY <1>1, <1>2 DEF Answered, SentBy
  <1>4. AloneSince(t)
    BY <1>2, OnlyUploadsWrite
  <1>5. Elements(tests[t]) = Stored
    BY <1>3, <1>4 DEF LoadedInv, Stored
  <1>6. PICK rows : rows = tests[t] /\ rows \in Seq([name : Pattern, result : Result])
    BY DEF Typed, TypeOK
  <1>7. ASSUME NEW i \in DOMAIN rows, NEW j \in DOMAIN rows, rows[i].name = rows[j].name
        PROVE  rows[i] = rows[j]
    <2>1. PICK row \in RowsOf(login) : AsTest(row) = rows[i]
      BY <1>5, <1>6 DEF Elements, Stored
    <2>2. PICK other \in RowsOf(login) : AsTest(other) = rows[j]
      BY <1>5, <1>6 DEF Elements, Stored
    <2>3. row.id_pattern = other.id_pattern /\ row.id_pattern \in Pattern
      <3>1. AsTest(row).name = row.id_pattern /\ AsTest(other).name = other.id_pattern
        BY DEF AsTest
      <3>2. row.id_pattern \in Pattern
        BY DEF Typed, TypeOK, RowsOf
      <3> QED BY <1>7, <2>1, <2>2, <3>1, <3>2
    <2>4. PICK F : F = RowsFor(login, row.id_pattern) /\ row \in F /\ other \in F
      BY <2>3 DEF RowsFor
    <2>5. IsFiniteSet(F) /\ Cardinality(F) <= 1
      BY <2>3, <2>4, FS_Subset DEF RowsFor, RowsOf, Finite
    <2>6. row = other
      <3>1. F # {} /\ Cardinality(F) \in Nat /\ Cardinality(F) # 0
        BY <2>4, <2>5, FS_EmptySet, FS_CardinalityType
      <3>2. Cardinality(F) = 1
        BY <2>5, <3>1
      <3>3. PICK x : F = {x}
        BY <2>5, <3>2, FS_Singleton
      <3> QED BY <2>4, <3>3
    <2> QED BY <2>1, <2>2, <2>6
  <1>8. ResultsOf(fill_db_result_test(c, rows)) = Stored
    BY <1>5, <1>6, <1>7, LoadedTable
  <1>9. local' = [local EXCEPT ![c] = fill_db_result_test(c, rows)]
    BY <1>1, <1>2, <1>6 DEF recv_data_handler
  <1>10. local'[c] = fill_db_result_test(c, rows)
    BY <1>9 DEF ClientInv, ClientTypeOK
  <1> QED BY <1>8, <1>10 DEF LocalResults, ResultsOf

LEMMA UploadStepOfClient ==
  ASSUME TypedInv, AnswerInv, UploadedInv, ClientInv, [ClientNext]_allVars, NEW c \in Client,
         SuccessOf(c, "upload_result"),
         \A u \in Thread \ {socket[c]} : request[u].kind # "set_all_result" \/ u \in earlier[socket[c]]
  PROVE  /\ {x \in Stored : x.name \notin since[c]} = {x \in LocalResults(c) : x.name \notin since[c]}
         /\ Cardinality(RowsOf(login)) = Cardinality({x.name : x \in Stored})
  <1> USE DEF TypedInv
  <1>1. recv_data_handler(c) /\ answer[socket[c]] = "correct" /\ forward[c] = "upload_result"
    BY SuccessStep DEF SuccessOf, ClientInv
  <1>2. PICK t \in Thread : t = socket[c] /\ pc[t] = "done" /\ SentBy(c, request[t])
    BY <1>1, SuccessAnswers
  <1>3. Answered(t, "set_all_result", "correct") /\ request[t].login = login
    BY <1>1, <1>2 DEF Answered, SentBy
  <1>4. AloneSince(t)
    BY <1>2, OnlyUploadsWrite
  <1>5. PICK table \in Tables : /\ request[t].tests = TestsOf(table)
                                /\ \A n \in Name : n \notin since[c] => table[n] = local[c][n]
    BY <1>1, <1>2 DEF SentBy
  <1>6. Stored = Elements(request[t].tests) /\ OneForPattern(login)
    BY <1>3, <1>4 DEF UploadedInv, Stored
  <1>7. Stored = ResultsOf(table)
    BY <1>5, <1>6, TestsListed
  <1>8. {x \in ResultsOf(table) : x.name \notin since[c]} = {x \in LocalResults(c) : x.name \notin since[c]}
    BY <1>5 DEF LocalResults, ResultsOf
  <1>9. Cardinality(RowsOf(login)) = Cardinality({x.name : x \in Stored})
    <2> DEFINE R == RowsOf(login)
               N == {x.name : x \in Stored}
               f == [row \in R |-> row.id_pattern]
    <2>1. N = {row.id_pattern : row \in R}
      <3>1. \A row : AsTest(row).name = row.id_pattern
        BY DEF AsTest
      <3> QED BY <3>1 DEF Stored
    <2>2. f \in Bijection(R, N)
      BY <1>6, <2>1 DEF OneForPattern, Bijection, Injection, Surjection, IsInjective
    <2>3. IsFiniteSet(R)
      BY FS_Subset DEF RowsOf, Finite
    <2> HIDE DEF f, R, N
    <2>4. Cardinality(N) = Cardinality(R)
      BY <2>2, <2>3, FS_Bijection DEF ExistsBijection
    <2> QED BY <2>4 DEF R, N
  <1> QED BY <1>7, <1>8, <1>9

-----------------------------------------------------------------------------
(* What HandlerServer promises holds in every execution with clients. *)
LEMMA ServerOfClients == ClientSpec => [](TypedInv /\ ServerInv /\ ClientInv)
  <1>1. Safety => []ServerInv
    BY AlwaysServer, ListsHaveNoDoubles
  <1> QED BY <1>1, ServerServesClients, AlwaysClient, PTL

(* LoadedIsStored, of auth in handler_server.cpp and fill_db_result_test in *)
(* mainwindow.cpp: nothing that is stored when the answer is shown is       *)
(* missing from the local table, and nothing else is in it.                 *)
THEOREM LoadsWhatIsStored == ClientSpec => LoadedIsStored
  <1>1. TypedInv /\ ServerInv /\ ClientInv /\ [ClientNext]_allVars =>
          \A c \in Client :
            /\ SuccessOf(c, "load_result")
            /\ \A u \in Thread : request[u].kind # "set_all_result" \/ u \in earlier[socket[c]]
            /\ \A n \in Pattern : Cardinality(RowsFor(login, n)) <= 1
            => LocalResults(c)' = Stored
    BY LoadStep DEF ServerInv
  <1> QED BY <1>1, ServerOfClients, PTL DEF LoadedIsStored, ClientSpec

(* UploadedIsStored, of send_test_result and set_all_result: what the owner *)
(* has on the computer is on the server, each pattern once.                 *)
THEOREM StoresWhatIsUploaded == ClientSpec => UploadedIsStored
  <1>1. TypedInv /\ ServerInv /\ ClientInv /\ [ClientNext]_allVars =>
          \A c \in Client :
            LET t == socket[c]
            IN /\ SuccessOf(c, "upload_result")
               /\ \A u \in Thread \ {t} : request[u].kind # "set_all_result" \/ u \in earlier[t]
               => /\ {x \in Stored : x.name \notin since[c]} = {x \in LocalResults(c) : x.name \notin since[c]}
                  /\ Cardinality(RowsOf(login)) = Cardinality({x.name : x \in Stored})
    BY UploadStepOfClient DEF ServerInv
  <1> QED BY <1>1, ServerOfClients, PTL DEF UploadedIsStored, ClientSpec
=============================================================================
