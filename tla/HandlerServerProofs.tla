------------------------- MODULE HandlerServerProofs -------------------------
(***************************************************************************)
(* Theorems about HandlerServer, for every set of connections, accounts,   *)
(* patterns, uploads and kinds of request.                                 *)
(***************************************************************************)
EXTENDS HandlerServer, FiniteSetTheorems, SequenceTheorems, TLAPS

(* The fields of the requests that arrive. *)
LEMMA RequestFields ==
  ASSUME NEW r \in Request
  PROVE  /\ r.kind \in AllKinds
         /\ r.kind \notin {"unreadable", "patterns"} =>
              r.login \in Login /\ r.password \in Password
         /\ r.kind = "registration" => r.img_type \in ImgType /\ r.img \in Image
         /\ r.kind = "result" => r.test \in Test
         /\ r.kind = "set_all_result" => r.tests \in Uploads
  BY DEF Request, AllKinds

LEMMA NotARequest == ASSUME NEW r \in Request PROVE r # NoRequest /\ r.kind \in Kinds
  BY DEF Request, NoRequest

(* A registration writes one of the avatar files. *)
LEMMA RegistrationFile ==
  ASSUME NEW r \in Request, r.kind = "registration"
  PROVE  file_of(r) \in Path
  <1>1. path_to_file(r) \in Path
    BY RequestFields DEF path_to_file, Path
  <1> QED BY <1>1, FileAssumption DEF file_of

-----------------------------------------------------------------------------
(* Which requests can be at which statement, and that the handlers behind  *)
(* is_correct_auth go on with an account.                                  *)
KindAt(t) ==
  LET k == request[t].kind
      authed == is_correct_auth(request[t])
  IN /\ pc[t] \notin {"idle", "lost"} => request[t] \in Request
     /\ pc[t] \in {"unreadable", "patterns"} => k = pc[t]
     /\ pc[t] = "is_correct_auth" => k \in {"authorization", "result", "set_all_result"}
     /\ pc[t] \in {"avatar", "count", "row"} => k = "authorization" /\ authed
     /\ pc[t] \in {"login_free", "truncate", "write", "insert_user"} => k = "registration"
     /\ pc[t] \in {"lock", "unlock"} =>
          \/ k = "registration"
          \/ k = "result" /\ authed /\ request[t].test.name \in Pattern
     /\ pc[t] \in {"find_row", "insert_row", "update_row"} =>
          k = "result" /\ authed /\ request[t].test.name \in Pattern
     /\ pc[t] \in {"delete", "insert"} => k = "set_all_result" /\ authed

Finite == IsFiniteSet(User_test)

Typed == TypeOK /\ \A t \in Thread : KindAt(t)

TypedInv == Typed /\ Finite

(* What is proved here needs no fairness. *)
Safety == Init /\ [][Next]_vars

LEMMA InitTyped == Init => Typed
  <1> SUFFICES ASSUME Init PROVE Typed
    OBVIOUS
  <1>1. User_test \subseteq [id : Nat, id_user : Login, id_pattern : Pattern,
                             count_correct : Result]
    BY DEF Init
  <1>2. DOMAIN User \subseteq Login /\ User \in [DOMAIN User -> Account]
    BY InitialUserAssumption DEF Init
  <1>3. files \in [Path -> Content]
    BY DEF Init, Content
  <1>4. tests \in [Thread -> Seq([name : Pattern, result : Result])]
    BY DEF Init
  <1>5. TypeOK
    BY <1>1, <1>2, <1>3, <1>4 DEF Init, TypeOK, Content
  <1>6. \A t \in Thread : KindAt(t)
    BY DEF Init, KindAt
  <1> QED BY <1>5, <1>6 DEF Typed

LEMMA NextTyped == Typed /\ Finite /\ [Next]_vars => Typed'
  <1> SUFFICES ASSUME Typed, Finite, [Next]_vars PROVE Typed'
    OBVIOUS
  <1> USE DEF Typed
  <1> DEFINE Kinded == \A u \in Thread : KindAt(u)
  <1>1. ASSUME NEW t \in Thread, Receive(t) PROVE Typed'
    <2>1. PICK r \in Request : Received(t, r)
      BY <1>1 DEF Receive
    <2>2. TypeOK'
      BY <2>1, RequestFields DEF Received, Goto, Entry, TypeOK, disk, reply, AllKinds
    <2>3. Kinded'
      BY <2>1, RequestFields DEF Received, Goto, Entry, TypeOK, disk, reply, AllKinds,
                                       KindAt, is_correct_auth
    <2> QED BY <2>2, <2>3
  <1>2. ASSUME NEW t \in Thread, Unreadable(t) PROVE Typed'
    <2>1. TypeOK'
      BY <1>2 DEF Unreadable, Goto, Return, TypeOK, disk, reply
    <2>2. Kinded'
      BY <1>2 DEF Unreadable, Goto, Return, TypeOK, disk, KindAt, is_correct_auth
    <2> QED BY <2>1, <2>2
  <1>3. ASSUME NEW t \in Thread, Patterns(t) PROVE Typed'
    <2>1. TypeOK'
      BY <1>3 DEF Patterns, Goto, Return, TypeOK, disk, reply
    <2>2. Kinded'
      BY <1>3 DEF Patterns, Goto, Return, TypeOK, disk, KindAt, is_correct_auth
    <2> QED BY <2>1, <2>2
  <1>4. ASSUME NEW t \in Thread, AuthFails(t) PROVE Typed'
    <2>1. TypeOK'
      BY <1>4 DEF AuthFails, Goto, Return, TypeOK, disk, reply
    <2>2. Kinded'
      BY <1>4 DEF AuthFails, Goto, Return, TypeOK, disk, KindAt, is_correct_auth
    <2> QED BY <2>1, <2>2
  <1>5. ASSUME NEW t \in Thread, UnknownPattern(t) PROVE Typed'
    <2>1. TypeOK'
      BY <1>5 DEF UnknownPattern, Goto, Return, TypeOK, disk, reply
    <2>2. Kinded'
      BY <1>5 DEF UnknownPattern, Goto, Return, TypeOK, disk, KindAt, is_correct_auth
    <2> QED BY <2>1, <2>2
  <1>6. ASSUME NEW t \in Thread, AuthPasses(t) PROVE Typed'
    <2>1. TypeOK'
      BY ZenonT(30), <1>6 DEF AuthPasses, Goto, Return, TypeOK, disk, reply
    <2>2. Kinded'
      BY <1>6 DEF AuthPasses, Goto, Return, TypeOK, disk, KindAt, is_correct_auth
    <2> QED BY <2>1, <2>2
  <1>7. ASSUME NEW t \in Thread, ReadAvatar(t) PROVE Typed'
    <2>1. TypeOK'
      <3>1. User[request[t].login].path \in Path
        BY <1>7 DEF ReadAvatar, TypeOK, KindAt, is_correct_auth, Account
      <3>2. encode_file(User[request[t].login].path) \in Content
        BY <3>1, FileAssumption DEF encode_file, TypeOK
      <3> QED BY ZenonT(30), <1>7, <3>2 DEF ReadAvatar, Goto, Return, TypeOK, disk
    <2>2. Kinded'
      <3>1. /\ \E x \in {"done", "count"} : pc' = [pc EXCEPT ![t] = x]
            /\ pc[t] = "avatar" /\ request' = request /\ User' = User
        BY <1>7 DEF ReadAvatar, Goto, Return, disk
      <3> QED BY <3>1 DEF TypeOK, KindAt, is_correct_auth
    <2> QED BY <2>1, <2>2
  <1>8. ASSUME NEW t \in Thread, CountTests(t) PROVE Typed'
    <2>1. TypeOK'
      <3>1. count_test(t) \in Nat
        BY FS_Subset, FS_CardinalityType DEF count_test, RowsOf, Finite
      <3> QED BY <1>8, <3>1 DEF CountTests, Goto, Return, TypeOK, disk
    <2>2. Kinded'
      BY <1>8 DEF CountTests, Goto, Return, TypeOK, disk, KindAt, is_correct_auth
    <2> QED BY <2>1, <2>2
  <1>9. ASSUME NEW t \in Thread, ReadTest(t) PROVE Typed'
    <2>1. TypeOK'
      <3>1. PICK row \in RowsLeft(t) :
              /\ cursor' = [cursor EXCEPT ![t] = row.id]
              /\ tests' = [tests EXCEPT ![t] = Append(@, AsTest(row))]
        BY <1>9 DEF ReadTest
      <3>2. row.id \in Nat /\ AsTest(row) \in [name : Pattern, result : Result]
        BY DEF RowsLeft, RowsOf, AsTest, TypeOK
      <3>3. tests' \in [Thread -> Seq([name : Pattern, result : Result])]
        <4> DEFINE TestRow == [name : Pattern, result : Result]
        <4>1. tests \in [Thread -> Seq(TestRow)] /\ AsTest(row) \in TestRow
          BY <3>2 DEF TypeOK
        <4> HIDE DEF TestRow
        <4>2. Append(tests[t], AsTest(row)) \in Seq(TestRow)
          BY <4>1
        <4>3. tests' \in [Thread -> Seq(TestRow)]
          BY <3>1, <4>1, <4>2
        <4> QED BY <4>3 DEF TestRow
      <3>4. cursor' \in [Thread -> Nat]
        BY <3>1, <3>2 DEF TypeOK
      <3>5. /\ pc' = pc \/ pc' = [pc EXCEPT ![t] = "done"]
            /\ answer' = answer \/ answer' = [answer EXCEPT ![t] = "correct"]
        BY <1>9 DEF ReadTest, Return, Goto
      <3> QED BY <1>9, <3>3, <3>4, <3>5 DEF ReadTest, TypeOK, disk
    <2>2. Kinded'
      BY <1>9 DEF ReadTest, Goto, Return, TypeOK, disk, KindAt, is_correct_auth
    <2> QED BY <2>1, <2>2
  <1>10. ASSUME NEW t \in Thread, RowVanished(t) PROVE Typed'
    <2>1. TypeOK'
      <3> DEFINE Tests == Seq([name : Pattern, result : Result])
      <3>1. <<>> \in Tests
        OBVIOUS
      <3>2. tests \in [Thread -> Tests]
        BY DEF TypeOK
      <3>3. tests' \in [Thread -> Tests]
        <4> HIDE DEF Tests
        <4> QED BY <1>10, <3>1, <3>2 DEF RowVanished, Forget
      <3> QED BY <1>10, <3>3 DEF RowVanished, Goto, Return, Forget, TypeOK, disk, Content
    <2>2. Kinded'
      BY <1>10 DEF RowVanished, Goto, Return, Forget, TypeOK, disk, KindAt, is_correct_auth
    <2> QED BY <2>1, <2>2
  <1>11. ASSUME NEW t \in Thread, CheckLogin(t) PROVE Typed'
    <2>1. TypeOK'
      BY <1>11 DEF CheckLogin, Goto, Return, TypeOK, disk, reply
    <2>2. Kinded'
      <3>1. /\ \E x \in {"done", "truncate"} : pc' = [pc EXCEPT ![t] = x]
            /\ pc[t] = "login_free" /\ request' = request /\ User' = User
        BY <1>11 DEF CheckLogin, Goto, Return, disk
      <3> QED BY <3>1 DEF TypeOK, KindAt, is_correct_auth
    <2> QED BY <2>1, <2>2
  <1>12. ASSUME NEW t \in Thread, Truncate(t) PROVE Typed'
    <2>1. TypeOK'
      <3>1. file_of(request[t]) \in Path
        BY <1>12, RequestFields, RegistrationFile DEF Truncate, KindAt
      <3> QED BY <1>12, <3>1 DEF Truncate, Goto, TypeOK, reply, Content
    <2>2. Kinded'
      BY <1>12 DEF Truncate, Goto, Return, TypeOK, disk, KindAt, is_correct_auth
    <2> QED BY <2>1, <2>2
  <1>13. ASSUME NEW t \in Thread, Write(t) PROVE Typed'
    <2>1. TypeOK'
      <3>1. file_of(request[t]) \in Path /\ request[t].img \in Image
        BY <1>13, RequestFields, RegistrationFile DEF Write, KindAt
      <3>2. files' \in [Path -> Content]
        BY <1>13, <3>1 DEF Write, TypeOK, Content
      <3> QED BY <1>13, <3>2 DEF Write, Goto, TypeOK, reply
    <2>2. Kinded'
      BY <1>13 DEF Write, Goto, Return, TypeOK, disk, KindAt, is_correct_auth
    <2> QED BY <2>1, <2>2
  <1>14. ASSUME NEW t \in Thread, LockMutex(t) PROVE Typed'
    <2>1. TypeOK'
      BY <1>14 DEF LockMutex, Goto, Return, TypeOK, disk, reply
    <2>2. Kinded'
      BY <1>14 DEF LockMutex, Goto, Return, TypeOK, disk, KindAt, is_correct_auth
    <2> QED BY <2>1, <2>2
  <1>15. ASSUME NEW t \in Thread, Unlock(t) PROVE Typed'
    <2>1. TypeOK'
      BY <1>15 DEF Unlock, UnlockMutex, Goto, Return, TypeOK, disk, reply
    <2>2. Kinded'
      BY <1>15 DEF Unlock, Goto, Return, TypeOK, disk, KindAt, is_correct_auth
    <2> QED BY <2>1, <2>2
  <1>16. ASSUME NEW t \in Thread, InsertUser(t) PROVE Typed'
    <2>1. TypeOK'
      <3> DEFINE r == request[t]
      <3>1. path_to_file(r) \in Path /\ r.login \in Login /\ r.password \in Password
        BY <1>16, RequestFields DEF InsertUser, KindAt, path_to_file, Path
      <3>2. [password |-> r.password, path |-> path_to_file(r)] \in Account
        BY <3>1 DEF Account
      <3> HIDE DEF r
      <3>3. DOMAIN User' \subseteq Login /\ User' \in [DOMAIN User' -> Account]
        BY <1>16, <3>1, <3>2 DEF InsertUser, TypeOK, r
      <3> QED BY <1>16, <3>3 DEF InsertUser, Goto, TypeOK, reply
    <2>2. Kinded'
      <3>1. /\ request[t].login \in DOMAIN User' \ DOMAIN User
            /\ \A l \in DOMAIN User : l \in DOMAIN User' /\ User'[l] = User[l]
        BY <1>16 DEF InsertUser, UniqueViolated
      <3>2. \A u \in Thread : is_correct_auth(request[u]) => is_correct_auth(request[u])'
        BY <1>16, <3>1 DEF InsertUser, is_correct_auth
      <3>3. request' = request /\ pc' = [pc EXCEPT ![t] = "unlock"] /\ pc[t] = "insert_user"
        BY <1>16 DEF InsertUser, Goto
      <3> HIDE DEF Typed
      <3> QED BY <3>2, <3>3 DEF Typed, TypeOK, KindAt
    <2> QED BY <2>1, <2>2
  <1>17. ASSUME NEW t \in Thread, InsertUserThrows(t) PROVE Typed'
    <2>1. TypeOK'
      BY <1>17 DEF InsertUserThrows, Goto, Return, TypeOK, disk, reply
    <2>2. Kinded'
      BY <1>17 DEF InsertUserThrows, Goto, Return, TypeOK, disk, KindAt, is_correct_auth
    <2> QED BY <2>1, <2>2
  <1>18. ASSUME NEW t \in Thread, FindRow(t) PROVE Typed'
    <2>1. TypeOK'
      BY <1>18 DEF FindRow, Goto, Return, TypeOK, disk, reply
    <2>2. Kinded'
      BY <1>18 DEF FindRow, Goto, Return, TypeOK, disk, KindAt, is_correct_auth
    <2> QED BY <2>1, <2>2
  <1>19. ASSUME NEW t \in Thread, InsertRow(t) PROVE Typed'
    <2>1. TypeOK'
      <3>1. Row(last_id + 1, request[t].login, request[t].test) \in
              [id : Nat, id_user : Login, id_pattern : Pattern, count_correct : Result]
        <4>1. /\ request[t].login \in Login /\ request[t].test \in Test
              /\ request[t].test.name \in Pattern /\ request[t].test.result \in Result
          BY <1>19, RequestFields DEF InsertRow, KindAt, IsNumber
        <4>2. last_id + 1 \in Nat
          BY DEF TypeOK
        <4> QED BY <4>1, <4>2 DEF Row, Test
      <3>2. last_id' \in Nat /\ User_test' \subseteq
              [id : Nat, id_user : Login, id_pattern : Pattern, count_correct : Result]
        BY <1>19, <3>1 DEF InsertRow, AddRow, TypeOK
      <3> QED BY <1>19, <3>2 DEF InsertRow, Goto, TypeOK, reply
    <2>2. Kinded'
      BY <1>19 DEF InsertRow, Goto, Return, TypeOK, disk, KindAt, is_correct_auth
    <2> QED BY <2>1, <2>2
  <1>20. ASSUME NEW t \in Thread, UpdateRow(t) PROVE Typed'
    <2>1. TypeOK'
      <3>1. request[t].test.result \in Result
        BY <1>20 DEF UpdateRow, IsNumber
      <3>2. User_test' \subseteq [id : Nat, id_user : Login, id_pattern : Pattern,
                                 count_correct : Result]
        BY <1>20, <3>1 DEF UpdateRow, Updated, RowsFor, RowsOf, Row, TypeOK
      <3> QED BY <1>20, <3>2 DEF UpdateRow, Goto, TypeOK, reply
    <2>2. Kinded'
      BY <1>20 DEF UpdateRow, Goto, Return, TypeOK, disk, KindAt, is_correct_auth
    <2> QED BY <2>1, <2>2
  <1>21. ASSUME NEW t \in Thread, DeleteTests(t) PROVE Typed'
    <2>1. TypeOK'
      BY <1>21 DEF DeleteTests, Goto, Return, TypeOK, disk, reply
    <2>2. Kinded'
      BY <1>21 DEF DeleteTests, Goto, Return, TypeOK, disk, KindAt, is_correct_auth
    <2> QED BY <2>1, <2>2
  <1>22. ASSUME NEW t \in Thread, InsertTest(t) PROVE Typed'
    <2>1. TypeOK'
      <3>1. request[t].tests \in Seq(Test)
        BY <1>22, RequestFields, UploadsAssumption DEF InsertTest, KindAt
      <3>2. request[t].tests[counter[t] + 1] \in Test
        BY <1>22, <3>1 DEF InsertTest, TypeOK
      <3> DEFINE test == request[t].tests[counter[t] + 1]
      <3>3. CASE KnownName(test.name) /\ IsNumber(test.result)
        <4>1. Row(last_id + 1, request[t].login, test) \in
                [id : Nat, id_user : Login, id_pattern : Pattern, count_correct : Result]
          <5>1. request[t].login \in Login /\ test.name \in Pattern /\ test.result \in Result
            BY <1>22, <3>2, <3>3, RequestFields DEF InsertTest, KindAt, KnownName, IsNumber
          <5>2. last_id + 1 \in Nat
            BY DEF TypeOK
          <5> HIDE DEF test
          <5> QED BY <5>1, <5>2 DEF Row
        <4>2. /\ last_id' = last_id + 1
              /\ User_test' = User_test \cup {Row(last_id + 1, request[t].login, test)}
              /\ counter' = [counter EXCEPT ![t] = @ + 1]
              /\ UNCHANGED <<pc, answer>>
          BY <1>22, <3>3 DEF InsertTest, AddRow
        <4> HIDE DEF test
        <4>3. User_test' \subseteq [id : Nat, id_user : Login, id_pattern : Pattern,
                                   count_correct : Result]
          BY <4>1, <4>2 DEF TypeOK
        <4>4. last_id' \in Nat /\ counter' \in [Thread -> Nat]
          BY <4>2 DEF TypeOK
        <4> QED BY <1>22, <4>2, <4>3, <4>4 DEF InsertTest, TypeOK
      <3>4. CASE ~ (KnownName(test.name) /\ IsNumber(test.result))
        BY <1>22, <3>4 DEF InsertTest, Return, Goto, TypeOK, reply
      <3> QED BY <3>3, <3>4
    <2>2. Kinded'
      BY <1>22 DEF InsertTest, Goto, Return, TypeOK, disk, KindAt, is_correct_auth
    <2> QED BY <2>1, <2>2
  <1>23. ASSUME NEW t \in Thread, UploadDone(t) PROVE Typed'
    <2>1. TypeOK'
      BY <1>23 DEF UploadDone, Goto, Return, TypeOK, disk, reply
    <2>2. Kinded'
      BY <1>23 DEF UploadDone, Goto, Return, TypeOK, disk, KindAt, is_correct_auth
    <2> QED BY <2>1, <2>2
  <1>24. CASE Restart
    <2>1. \A u \in Thread : pc'[u] \in {pc[u], "lost"}
      BY <1>24 DEF Restart, TypeOK
    <2>2. pc' \in [Thread -> {pc[u] : u \in Thread} \cup {"lost"}]
      BY <1>24 DEF Restart, TypeOK
    <2>3. TypeOK'
      BY <1>24, <2>1, <2>2 DEF Restart, TypeOK, disk, reply
    <2>4. Kinded'
      BY <1>24, <2>1 DEF Restart, KindAt, is_correct_auth, disk
    <2> QED BY <2>3, <2>4
  <1>25. CASE UNCHANGED vars
    BY <1>25 DEF vars, TypeOK, disk, reply, KindAt, is_correct_auth
  <1>26. ASSUME NEW t \in Thread, ResultThrows(t) PROVE Typed'
    <2>1. TypeOK'
      BY <1>26 DEF ResultThrows, Goto, Return, TypeOK, disk, reply
    <2>2. Kinded'
      BY <1>26 DEF ResultThrows, Goto, Return, TypeOK, disk, KindAt, is_correct_auth
    <2> QED BY <2>1, <2>2
  <1> QED
    BY <1>1, <1>2, <1>3, <1>4, <1>5, <1>6, <1>7, <1>8, <1>9, <1>10, <1>11, <1>12, <1>13, <1>14, <1>15, <1>16, <1>17, <1>18, <1>19, <1>20, <1>21, <1>22, <1>23, <1>24, <1>25, <1>26 DEF Next, Handle, Terminated

(* Which statements change User_test and which change User. *)
LEMMA Writers ==
  ASSUME [Next]_vars
  PROVE  /\ \/ UNCHANGED User_test
            \/ \E t \in Thread : InsertRow(t) \/ UpdateRow(t) \/ DeleteTests(t) \/ InsertTest(t)
         /\ \/ UNCHANGED User
            \/ \E t \in Thread : InsertUser(t)
  BY ZenonT(30) DEF Next, Handle, Restart, Terminated, vars, disk, Receive, Received,
         Unreadable, Patterns, AuthFails, UnknownPattern, AuthPasses, ReadAvatar, CountTests, ReadTest, RowVanished, CheckLogin, Truncate, Write, LockMutex, Unlock, InsertUserThrows, FindRow, ResultThrows, UploadDone,
         InsertRow, UpdateRow, DeleteTests, InsertTest, InsertUser

LEMMA NextFinite == Typed /\ Finite /\ [Next]_vars => Finite'
  <1> SUFFICES ASSUME Typed, Finite, [Next]_vars PROVE Finite'
    OBVIOUS
  <1> USE DEF Finite
  <1>1. CASE UNCHANGED User_test
    BY <1>1
  <1>2. ASSUME NEW t \in Thread, InsertRow(t) PROVE Finite'
    BY <1>2, FS_AddElement DEF InsertRow, AddRow
  <1>3. ASSUME NEW t \in Thread, UpdateRow(t) PROVE Finite'
    <2> DEFINE S == Updated(request[t])
               f == [row \in S |-> Row(row.id, row.id_user, request[t].test)]
               T == {Row(row.id, row.id_user, request[t].test) : row \in S}
    <2>1. IsFiniteSet(S)
      BY FS_Subset DEF Updated, RowsFor, RowsOf
    <2>2. f \in Surjection(S, T)
      BY DEF Surjection
    <2>3. IsFiniteSet(T)
      BY <2>1, <2>2, FS_Surjection
    <2>4. IsFiniteSet(User_test \ S)
      BY FS_Difference
    <2> QED BY <1>3, <2>3, <2>4, FS_Union DEF UpdateRow
  <1>4. ASSUME NEW t \in Thread, DeleteTests(t) PROVE Finite'
    BY <1>4, FS_Difference DEF DeleteTests
  <1>5. ASSUME NEW t \in Thread, InsertTest(t) PROVE Finite'
    BY <1>5, FS_AddElement DEF InsertTest, AddRow
  <1> QED BY <1>1, <1>2, <1>3, <1>4, <1>5, Writers

LEMMA AlwaysTyped == Safety => []TypedInv
  <1>1. Init => TypedInv
    BY InitTyped, FS_EmptySet DEF TypedInv, Finite, Init
  <1>2. TypedInv /\ [Next]_vars => TypedInv'
    BY NextTyped, NextFinite DEF TypedInv
  <1> QED BY <1>1, <1>2, PTL DEF Spec, Safety

(* Every variable keeps its type: in particular every stored row belongs to *)
(* a known pattern and every avatar path to a login.                        *)
THEOREM TypeCorrect == Spec => []TypeOK
  <1>1. TypedInv => TypeOK
    BY DEF TypedInv, Typed
  <1> QED BY <1>1, AlwaysTyped, PTL DEF Spec, Safety

-----------------------------------------------------------------------------
(* Accounts: the only statement that changes the table User is the INSERT  *)
(* of reg, and it adds a login.                                            *)
LEMMA UserGrows ==
  ASSUME [Next]_vars
  PROVE  \A l \in DOMAIN User : l \in DOMAIN User' /\ User'[l] = User[l]
  <1>1. ASSUME NEW t \in Thread, InsertUser(t)
        PROVE  \A l \in DOMAIN User : l \in DOMAIN User' /\ User'[l] = User[l]
    BY <1>1 DEF InsertUser, UniqueViolated
  <1> QED BY <1>1, Writers

(* No account is removed or changed by any step of any connection.         *)
THEOREM AccountsKept == Spec => AccountsPersist
  <1>1. [Next]_vars => [\A l \in DOMAIN User : l \in DOMAIN User' /\ User'[l] = User[l]]_vars
    BY UserGrows
  <1> QED BY <1>1, PTL DEF Spec, Safety, AccountsPersist

-----------------------------------------------------------------------------
(* The mutex. *)
MutexInv == CriticalSection /\ MutexLeakedOnlyByThrow

LEMMA InitMutex == Init => MutexInv
  BY DEF Init, MutexInv, CriticalSection, MutexLeakedOnlyByThrow, InSection

LEMMA NextMutex == Typed /\ MutexInv /\ [Next]_vars => MutexInv'
  <1> SUFFICES ASSUME Typed, MutexInv, [Next]_vars PROVE MutexInv'
    OBVIOUS
  <1> USE NoneAssumption DEF Typed, TypeOK, MutexInv, CriticalSection, MutexLeakedOnlyByThrow,
          InSection, ThrewUnderLock, Answered
  <1>1. ASSUME NEW t \in Thread, Receive(t) PROVE MutexInv'
    BY <1>1, RequestFields DEF Receive, Received, Goto, Entry, AllKinds
  <1>2. ASSUME NEW t \in Thread, Unreadable(t) PROVE MutexInv'
    BY <1>2 DEF Unreadable, Goto, Return, KindAt
  <1>3. ASSUME NEW t \in Thread, Patterns(t) PROVE MutexInv'
    BY <1>3 DEF Patterns, Goto, Return, KindAt
  <1>4. ASSUME NEW t \in Thread, AuthFails(t) PROVE MutexInv'
    BY <1>4 DEF AuthFails, Goto, Return, KindAt
  <1>5. ASSUME NEW t \in Thread, UnknownPattern(t) PROVE MutexInv'
    BY <1>5 DEF UnknownPattern, Goto, Return, KindAt
  <1>6. ASSUME NEW t \in Thread, AuthPasses(t) PROVE MutexInv'
    BY <1>6 DEF AuthPasses, Goto, Return, KindAt
  <1>7. ASSUME NEW t \in Thread, ReadAvatar(t) PROVE MutexInv'
    BY <1>7 DEF ReadAvatar, Goto, Return, KindAt
  <1>8. ASSUME NEW t \in Thread, CountTests(t) PROVE MutexInv'
    BY <1>8 DEF CountTests, Goto, Return, KindAt
  <1>9. ASSUME NEW t \in Thread, ReadTest(t) PROVE MutexInv'
    BY <1>9 DEF ReadTest, Goto, Return, KindAt
  <1>10. ASSUME NEW t \in Thread, RowVanished(t) PROVE MutexInv'
    BY <1>10 DEF RowVanished, Goto, Return, KindAt
  <1>11. ASSUME NEW t \in Thread, CheckLogin(t) PROVE MutexInv'
    BY <1>11 DEF CheckLogin, Goto, Return, KindAt
  <1>12. ASSUME NEW t \in Thread, Truncate(t) PROVE MutexInv'
    BY <1>12 DEF Truncate, Goto, Return, KindAt
  <1>13. ASSUME NEW t \in Thread, Write(t) PROVE MutexInv'
    BY <1>13 DEF Write, Goto, Return, KindAt
  <1>14. ASSUME NEW t \in Thread, LockMutex(t) PROVE MutexInv'
    BY <1>14 DEF LockMutex, Goto, Return, KindAt, MutexFree
  <1>15. ASSUME NEW t \in Thread, Unlock(t) PROVE MutexInv'
    BY <1>15 DEF Unlock, Goto, Return, KindAt, UnlockMutex
  <1>16. ASSUME NEW t \in Thread, InsertUser(t) PROVE MutexInv'
    BY <1>16 DEF InsertUser, Goto, Return, KindAt
  <1>17. ASSUME NEW t \in Thread, InsertUserThrows(t) PROVE MutexInv'
    BY <1>17 DEF InsertUserThrows, Goto, Return, KindAt
  <1>18. ASSUME NEW t \in Thread, FindRow(t) PROVE MutexInv'
    BY <1>18 DEF FindRow, Goto, Return, KindAt
  <1>19. ASSUME NEW t \in Thread, InsertRow(t) PROVE MutexInv'
    BY <1>19 DEF InsertRow, Goto, Return, KindAt
  <1>20. ASSUME NEW t \in Thread, UpdateRow(t) PROVE MutexInv'
    BY <1>20 DEF UpdateRow, Goto, Return, KindAt
  <1>21. ASSUME NEW t \in Thread, DeleteTests(t) PROVE MutexInv'
    BY <1>21 DEF DeleteTests, Goto, Return, KindAt
  <1>22. ASSUME NEW t \in Thread, InsertTest(t) PROVE MutexInv'
    BY <1>22 DEF InsertTest, Goto, Return, KindAt
  <1>23. ASSUME NEW t \in Thread, UploadDone(t) PROVE MutexInv'
    BY <1>23 DEF UploadDone, Goto, Return, KindAt
  <1>24. CASE Restart
    BY <1>24 DEF Restart, Active
  <1>25. CASE UNCHANGED vars
    BY <1>25 DEF vars
  <1>26. ASSUME NEW t \in Thread, ResultThrows(t) PROVE MutexInv'
    <2>1. request[t].test.result \in Malformed
      BY <1>26, RequestFields DEF ResultThrows, KindAt, IsNumber, Test
    <2> QED BY <1>26, <2>1 DEF ResultThrows, Goto, Return, KindAt
  <1> QED
    BY <1>1, <1>2, <1>3, <1>4, <1>5, <1>6, <1>7, <1>8, <1>9, <1>10, <1>11, <1>12, <1>13, <1>14, <1>15, <1>16, <1>17, <1>18, <1>19, <1>20, <1>21, <1>22, <1>23, <1>24, <1>25, <1>26 DEF Next, Handle, Terminated

LEMMA AlwaysMutex == Safety => []MutexInv
  <1> QED BY InitMutex, NextMutex, AlwaysTyped, PTL DEF Spec, Safety, TypedInv

(* Mutual exclusion of the statements between lock() and unlock().         *)
THEOREM MutualExclusion == Spec => []CriticalSection
  <1> QED BY AlwaysMutex, PTL DEF MutexInv, Spec, Safety

(* The mutex is kept only by a registration that was refused at its INSERT *)
(* or by a result of a known pattern that is no number: every other way out *)
(* of the two handlers unlocks it.                                          *)
THEOREM LeakOnlyByThrow == Spec => []MutexLeakedOnlyByThrow
  <1> QED BY AlwaysMutex, PTL DEF MutexInv, Spec, Safety

-----------------------------------------------------------------------------
(* A registration owns its login from its INSERT on. *)
Owner(t) == /\ request[t].kind = "registration"
            /\ \/ pc[t] = "unlock"
               \/ pc[t] = "done" /\ answer[t] = "correct"

OwnerInv ==
  \A t \in Thread : Owner(t) =>
    /\ is_correct_auth(request[t])
    /\ \A u \in Thread \ {t} : Owner(u) => request[u].login # request[t].login

(* A connection that comes to own a login has just inserted it.            *)
LEMMA NewOwner ==
  ASSUME Typed, [Next]_vars
  PROVE  \A t \in Thread : Owner(t)' => \/ Owner(t) /\ request'[t] = request[t]
                                        \/ InsertUser(t)
  <1> USE DEF Typed, TypeOK
  <1> SUFFICES ASSUME NEW u \in Thread, Owner(u)', ~ InsertUser(u)
               PROVE  Owner(u) /\ request'[u] = request[u]
    OBVIOUS
  <1>1. ASSUME NEW t \in Thread, Receive(t) PROVE Owner(u) /\ request'[u] = request[u]
    BY <1>1, RequestFields DEF Receive, Received, Goto, Entry, Owner, AllKinds
  <1>2. ASSUME NEW t \in Thread, Unreadable(t) PROVE Owner(u) /\ request'[u] = request[u]
    BY <1>2 DEF Unreadable, Goto, Return, KindAt, Owner
  <1>3. ASSUME NEW t \in Thread, Patterns(t) PROVE Owner(u) /\ request'[u] = request[u]
    BY <1>3 DEF Patterns, Goto, Return, KindAt, Owner
  <1>4. ASSUME NEW t \in Thread, AuthFails(t) PROVE Owner(u) /\ request'[u] = request[u]
    BY <1>4 DEF AuthFails, Goto, Return, KindAt, Owner
  <1>5. ASSUME NEW t \in Thread, UnknownPattern(t) PROVE Owner(u) /\ request'[u] = request[u]
    BY <1>5 DEF UnknownPattern, Goto, Return, KindAt, Owner
  <1>6. ASSUME NEW t \in Thread, AuthPasses(t) PROVE Owner(u) /\ request'[u] = request[u]
    BY <1>6 DEF AuthPasses, Goto, Return, KindAt, Owner
  <1>7. ASSUME NEW t \in Thread, ReadAvatar(t) PROVE Owner(u) /\ request'[u] = request[u]
    BY <1>7 DEF ReadAvatar, Goto, Return, KindAt, Owner
  <1>8. ASSUME NEW t \in Thread, CountTests(t) PROVE Owner(u) /\ request'[u] = request[u]
    BY <1>8 DEF CountTests, Goto, Return, KindAt, Owner
  <1>9. ASSUME NEW t \in Thread, ReadTest(t) PROVE Owner(u) /\ request'[u] = request[u]
    BY <1>9 DEF ReadTest, Goto, Return, KindAt, Owner
  <1>10. ASSUME NEW t \in Thread, RowVanished(t) PROVE Owner(u) /\ request'[u] = request[u]
    BY <1>10 DEF RowVanished, Goto, Return, KindAt, Owner
  <1>11. ASSUME NEW t \in Thread, CheckLogin(t) PROVE Owner(u) /\ request'[u] = request[u]
    BY <1>11 DEF CheckLogin, Goto, Return, KindAt, Owner
  <1>12. ASSUME NEW t \in Thread, Truncate(t) PROVE Owner(u) /\ request'[u] = request[u]
    BY <1>12 DEF Truncate, Goto, Return, KindAt, Owner
  <1>13. ASSUME NEW t \in Thread, Write(t) PROVE Owner(u) /\ request'[u] = request[u]
    BY <1>13 DEF Write, Goto, Return, KindAt, Owner
  <1>14. ASSUME NEW t \in Thread, LockMutex(t) PROVE Owner(u) /\ request'[u] = request[u]
    BY <1>14 DEF LockMutex, Goto, Return, KindAt, Owner
  <1>15. ASSUME NEW t \in Thread, Unlock(t) PROVE Owner(u) /\ request'[u] = request[u]
    BY <1>15 DEF Unlock, Goto, Return, KindAt, Owner
  <1>16. ASSUME NEW t \in Thread, InsertUser(t) PROVE Owner(u) /\ request'[u] = request[u]
    BY ZenonT(30), <1>16 DEF InsertUser, Goto, Return, KindAt, Owner
  <1>17. ASSUME NEW t \in Thread, InsertUserThrows(t) PROVE Owner(u) /\ request'[u] = request[u]
    BY <1>17 DEF InsertUserThrows, Goto, Return, KindAt, Owner
  <1>18. ASSUME NEW t \in Thread, FindRow(t) PROVE Owner(u) /\ request'[u] = request[u]
    BY <1>18 DEF FindRow, Goto, Return, KindAt, Owner
  <1>19. ASSUME NEW t \in Thread, InsertRow(t) PROVE Owner(u) /\ request'[u] = request[u]
    BY <1>19 DEF InsertRow, Goto, Return, KindAt, Owner
  <1>20. ASSUME NEW t \in Thread, UpdateRow(t) PROVE Owner(u) /\ request'[u] = request[u]
    BY <1>20 DEF UpdateRow, Goto, Return, KindAt, Owner
  <1>21. ASSUME NEW t \in Thread, DeleteTests(t) PROVE Owner(u) /\ request'[u] = request[u]
    BY <1>21 DEF DeleteTests, Goto, Return, KindAt, Owner
  <1>22. ASSUME NEW t \in Thread, InsertTest(t) PROVE Owner(u) /\ request'[u] = request[u]
    BY <1>22 DEF InsertTest, Goto, Return, KindAt, Owner
  <1>23. ASSUME NEW t \in Thread, UploadDone(t) PROVE Owner(u) /\ request'[u] = request[u]
    BY <1>23 DEF UploadDone, Goto, Return, KindAt, Owner
  <1>24. CASE Restart
    BY <1>24 DEF Restart, Active, Owner
  <1>25. CASE UNCHANGED vars
    BY <1>25 DEF vars, Owner
  <1>26. ASSUME NEW t \in Thread, ResultThrows(t) PROVE Owner(u) /\ request'[u] = request[u]
    BY <1>26 DEF ResultThrows, Goto, Return, KindAt, Owner
  <1> QED
    BY <1>1, <1>2, <1>3, <1>4, <1>5, <1>6, <1>7, <1>8, <1>9, <1>10, <1>11, <1>12, <1>13, <1>14, <1>15, <1>16, <1>17, <1>18, <1>19, <1>20, <1>21, <1>22, <1>23, <1>24, <1>25, <1>26 DEF Next, Handle, Terminated

LEMMA NextOwner == Typed /\ OwnerInv /\ [Next]_vars => OwnerInv'
  <1> SUFFICES ASSUME Typed, OwnerInv, [Next]_vars,
                      NEW t \in Thread, Owner(t)'
               PROVE  /\ is_correct_auth(request[t])'
                      /\ \A u \in Thread \ {t} : Owner(u)' => request'[u].login # request'[t].login
    BY DEF OwnerInv
  <1>1. CASE \E v \in Thread : InsertUser(v)
    <2>1. PICK v \in Thread : InsertUser(v)
      BY <1>1
    <2>2. request' = request /\ request[v].login \notin DOMAIN User
      BY <2>1 DEF InsertUser, UniqueViolated
    <2>3. \A u \in Thread : InsertUser(u) => u = v
      BY <2>1 DEF InsertUser, Goto, Typed, TypeOK
    <2>4. \A u \in Thread : Owner(u)' => Owner(u) \/ u = v
      BY <2>3, NewOwner
    <2>5. \A u \in Thread : Owner(u) => request[u].login # request[v].login
      BY <2>2 DEF OwnerInv, is_correct_auth
    <2>6. is_correct_auth(request[v])'
      BY <2>1, <2>2 DEF InsertUser, is_correct_auth
    <2>7. Owner(t) => is_correct_auth(request[t])'
      BY <2>2, UserGrows DEF OwnerInv, is_correct_auth
    <2> QED BY <2>2, <2>4, <2>5, <2>6, <2>7 DEF OwnerInv
  <1>2. CASE ~ \E v \in Thread : InsertUser(v)
    <2>1. \A u \in Thread : Owner(u)' => Owner(u) /\ request'[u] = request[u]
      BY <1>2, NewOwner
    <2>2. User' = User
      BY <1>2, Writers
    <2> QED BY <2>1, <2>2 DEF OwnerInv, is_correct_auth
  <1> QED BY <1>1, <1>2

(* Of several connections that register one login at most one is told       *)
(* "correct", and it finds its own password in the table.                   *)
THEOREM RegisteredOnlyOnce == Spec => []RegisteredOnce
  <1>1. Init => OwnerInv
    BY DEF Init, OwnerInv, Owner
  <1>2. OwnerInv => RegisteredOnce
    BY DEF OwnerInv, RegisteredOnce, Owner, Answered
  <1> QED BY <1>1, <1>2, NextOwner, AlwaysTyped, PTL DEF Spec, Safety, TypedInv

-----------------------------------------------------------------------------
(* One row per result: what result found under the mutex stays true until  *)
(* it inserts or updates.                                                  *)
Looked ==
  \A t \in Thread :
    LET found == RowsFor(request[t].login, request[t].test.name)
    IN /\ pc[t] = "insert_row" => found = {}
       /\ pc[t] = "update_row" => found # {}

OneRowInv == OneRowPerResult /\ Looked

LEMMA RowField ==
  ASSUME NEW id, NEW login, NEW test
  PROVE  /\ Row(id, login, test).id = id
         /\ Row(id, login, test).id_user = login
         /\ Row(id, login, test).id_pattern = test.name
         /\ Row(id, login, test).count_correct = test.result
  BY DEF Row

(* The COUNT of result is what leads to its INSERT or its UPDATE.          *)
LEMMA NewWriter ==
  ASSUME Typed, [Next]_vars
  PROVE  \A t \in Thread : pc'[t] \in {"insert_row", "update_row"} =>
           /\ pc'[t] = pc[t] \/ FindRow(t)
           /\ request'[t] = request[t]
  <1> USE DEF Typed, TypeOK
  <1> SUFFICES ASSUME NEW u \in Thread, pc'[u] \in {"insert_row", "update_row"}
               PROVE  (pc'[u] = pc[u] \/ FindRow(u)) /\ request'[u] = request[u]
    OBVIOUS
  <1>1. ASSUME NEW t \in Thread, Receive(t)
        PROVE  (pc'[u] = pc[u] \/ FindRow(u)) /\ request'[u] = request[u]
    BY <1>1, RequestFields DEF Receive, Received, Goto, Entry, AllKinds
  <1>2. ASSUME NEW t \in Thread, Handle(t)
        PROVE  (pc'[u] = pc[u] \/ FindRow(u)) /\ request'[u] = request[u]
    <2>1. CASE Unreadable(t) \/ Patterns(t) \/ AuthFails(t) \/ UnknownPattern(t)
      BY <2>1 DEF Unreadable, Patterns, AuthFails, UnknownPattern, Goto, Return
    <2>2. CASE AuthPasses(t) \/ CheckLogin(t) \/ Truncate(t) \/ Write(t)
      BY <2>2 DEF AuthPasses, CheckLogin, Truncate, Write, Goto, Return
    <2>3. CASE ReadAvatar(t) \/ CountTests(t) \/ ReadTest(t) \/ RowVanished(t)
      BY <2>3 DEF ReadAvatar, CountTests, ReadTest, RowVanished, Goto, Return
    <2>4. CASE LockMutex(t) \/ Unlock(t) \/ FindRow(t)
      BY <2>4 DEF LockMutex, Unlock, FindRow, Goto, Return
    <2>5. CASE InsertUser(t) \/ InsertUserThrows(t) \/ InsertRow(t) \/ UpdateRow(t)
      BY <2>5 DEF InsertUser, InsertUserThrows, InsertRow, UpdateRow, Goto, Return
    <2>6. CASE ResultThrows(t) \/ DeleteTests(t) \/ InsertTest(t) \/ UploadDone(t)
      BY <2>6 DEF ResultThrows, DeleteTests, InsertTest, UploadDone, Goto, Return
    <2> QED BY <1>2, <2>1, <2>2, <2>3, <2>4, <2>5, <2>6 DEF Handle
  <1>3. CASE Restart
    BY <1>3 DEF Restart, Active
  <1>4. CASE UNCHANGED vars
    BY <1>4 DEF vars
  <1> QED BY <1>1, <1>2, <1>3, <1>4 DEF Next, Terminated

LEMMA NextOneRow ==
  ASSUME "set_all_result" \notin Kinds
  PROVE  Typed /\ MutexInv /\ OneRowInv /\ [Next]_vars => OneRowInv'
  <1> SUFFICES ASSUME Typed, MutexInv, OneRowInv, [Next]_vars PROVE OneRowInv'
    OBVIOUS
  <1>1. ASSUME NEW t \in Thread PROVE ~ DeleteTests(t) /\ ~ InsertTest(t)
    BY NotARequest DEF Typed, KindAt, DeleteTests, InsertTest
  <1>2. CASE UNCHANGED User_test
    <2>1. OneRowPerResult'
      BY <1>2 DEF OneRowInv, OneRowPerResult
    <2>2. Looked'
      <3> DEFINE found(u) == RowsFor(request[u].login, request[u].test.name)
      <3> SUFFICES ASSUME NEW u \in Thread, pc'[u] \in {"insert_row", "update_row"}
                   PROVE  /\ pc'[u] = "insert_row" => found(u) = {}
                          /\ pc'[u] = "update_row" => found(u) # {}
        BY <1>2, NewWriter DEF Looked, RowsFor, RowsOf
      <3>1. CASE pc'[u] = pc[u]
        BY <3>1 DEF OneRowInv, Looked
      <3>2. CASE FindRow(u)
        BY <3>2 DEF FindRow, Goto, Typed, TypeOK
      <3> QED BY <3>1, <3>2, NewWriter
    <2> QED BY <2>1, <2>2 DEF OneRowInv
  <1>3. ASSUME NEW t \in Thread, InsertRow(t) PROVE OneRowInv'
    <2> DEFINE new == Row(last_id + 1, request[t].login, request[t].test)
    <2>1. User_test' = User_test \cup {new}
      BY <1>3 DEF InsertRow, AddRow
    <2>2. \A row \in User_test : ~ (/\ row.id_user = request[t].login
                                   /\ row.id_pattern = request[t].test.name)
      BY <1>3 DEF InsertRow, OneRowInv, Looked, RowsFor, RowsOf
    <2>3. OneRowPerResult'
      BY <2>1, <2>2, RowField DEF OneRowInv, OneRowPerResult
    <2>4. \A u \in Thread : pc'[u] \notin {"insert_row", "update_row"}
      BY <1>3 DEF InsertRow, Goto, MutexInv, CriticalSection, InSection, Typed, TypeOK
    <2> QED BY <2>3, <2>4 DEF OneRowInv, Looked
  <1>4. ASSUME NEW t \in Thread, UpdateRow(t) PROVE OneRowInv'
    <2> DEFINE old == RowsFor(request[t].login, request[t].test.name)
    <2>1. User_test' = (User_test \ old)
                         \cup {Row(row.id, row.id_user, request[t].test) : row \in old}
      BY <1>4 DEF UpdateRow, Updated
    <2>2. \A row \in User_test' : \/ row \in User_test \ old
                                  \/ \E was \in old : row = Row(was.id, was.id_user, request[t].test)
      BY <2>1
    <2>3. \A row \in old : /\ row \in User_test /\ row.id_user = request[t].login
                           /\ row.id_pattern = request[t].test.name
      BY DEF RowsFor, RowsOf
    <2>4. \A row \in User_test \ old : ~ (/\ row.id_user = request[t].login
                                         /\ row.id_pattern = request[t].test.name)
      BY DEF RowsFor, RowsOf
    <2>5. \A was, other \in old : was = other
      BY <2>3 DEF OneRowInv, OneRowPerResult
    <2>6. OneRowPerResult'
      <3> SUFFICES ASSUME NEW row \in User_test', NEW other \in User_test',
                          row.id_user = other.id_user, row.id_pattern = other.id_pattern
                   PROVE  row = other
        BY DEF OneRowPerResult
      <3>1. CASE row \in User_test \ old /\ other \in User_test \ old
        BY <3>1 DEF OneRowInv, OneRowPerResult
      <3>2. CASE row \in User_test \ old /\ other \notin User_test \ old
        BY <3>2, <2>2, <2>3, <2>4, RowField
      <3>3. CASE row \notin User_test \ old /\ other \in User_test \ old
        BY <3>3, <2>2, <2>3, <2>4, RowField
      <3>4. CASE row \notin User_test \ old /\ other \notin User_test \ old
        BY <3>4, <2>2, <2>5
      <3> QED BY <3>1, <3>2, <3>3, <3>4
    <2>7. \A u \in Thread : pc'[u] \notin {"insert_row", "update_row"}
      BY <1>4 DEF UpdateRow, Goto, MutexInv, CriticalSection, InSection, Typed, TypeOK
    <2> QED BY <2>6, <2>7 DEF OneRowInv, Looked
  <1> QED BY <1>1, <1>2, <1>3, <1>4, Writers

(* When no client uploads all of its results at once, no user ever has two  *)
(* results for one pattern, however many connections report results.        *)
THEOREM OneResultPerPattern ==
  ASSUME "set_all_result" \notin Kinds
  PROVE  Spec => []OneRowPerResult
  <1>1. Init => OneRowInv
    BY DEF Init, OneRowInv, OneRowPerResult, Looked
  <1>2. OneRowInv => OneRowPerResult
    BY DEF OneRowInv
  <1> QED BY <1>1, <1>2, NextOneRow, AlwaysTyped, AlwaysMutex, PTL DEF Spec, Safety, TypedInv
-----------------------------------------------------------------------------
(* HandlerServer implements ResultBook as long as nobody uploads all of     *)
(* his results at once: every statement of a handler is a step of the book  *)
(* or leaves the book as it is.  A registration takes effect at its INSERT, *)
(* a result at its INSERT or UPDATE.                                        *)
BookEntry(row) == [login |-> row.id_user, name |-> row.id_pattern,
                   result |-> row.count_correct]

(* A step of t that leaves the tables alone, and one that leaves the other *)
(* connections alone.                                                      *)
TablesKept == UNCHANGED <<User, User_test, request>>

OthersKept(t) == \A u \in Thread \ {t} : Phase(u)' = Phase(u)

LEMMA Alone ==
  ASSUME Typed, NEW t \in Thread, NEW x, Goto(t, x),
         \/ UNCHANGED answer
         \/ \E a : answer' = [answer EXCEPT ![t] = a]
  PROVE  OthersKept(t)
  BY DEF Goto, Typed, TypeOK, OthersKept, Phase

LEMMA Moves ==
  ASSUME NEW t \in Thread, OthersKept(t)
  PROVE  Book!Move(t, Phase(t), Phase(t)')
  BY DEF Book!Move, OthersKept

LEMMA Stutters ==
  ASSUME TablesKept, NEW t \in Thread, OthersKept(t), Phase(t)' = Phase(t)
  PROVE  UNCHANGED Book!vars
  BY DEF Book!vars, TablesKept, OthersKept

LEMMA Declines ==
  ASSUME TablesKept, NEW t \in Thread, OthersKept(t),
         Phase(t) = "waiting", Phase(t)' = "uncorrect"
  PROVE  Book!Next
  <1>1. Book!Refuse(t)
    BY Moves DEF Book!Refuse, TablesKept
  <1> QED BY <1>1 DEF Book!Next

LEMMA Shows ==
  ASSUME TablesKept, NEW t \in Thread, OthersKept(t),
         Phase(t) = "waiting", Phase(t)' = "correct",
         \/ request[t].kind = "patterns"
         \/ request[t].kind = "authorization" /\ is_correct_auth(request[t])
  PROVE  Book!Next
  <1>1. Book!Show(t)
    BY Moves DEF Book!Show, Book!Known, TablesKept, is_correct_auth
  <1> QED BY <1>1 DEF Book!Next

(* The INSERT of reg is the instant at which the account appears.          *)
LEMMA Registers ==
  ASSUME Typed, NEW t \in Thread, InsertUser(t)
  PROVE  Book!Next
  <1> DEFINE P == [l \in DOMAIN User |-> User[l].password]
             r == request[t]
  <1>1. Phase(t) = "waiting" /\ Phase(t)' = "applied" /\ OthersKept(t)
    BY Alone DEF InsertUser, Goto, Phase, Typed, TypeOK
  <1>2. r.kind = "registration" /\ request' = request /\ User_test' = User_test
    BY DEF InsertUser, Typed, KindAt
  <1>3. \A l \in DOMAIN P : l # r.login /\ P[l] # r.password
    BY DEF InsertUser, UniqueViolated
  <1>4. P' = [l \in DOMAIN P \cup {r.login} |-> IF l = r.login THEN r.password ELSE P[l]]
    BY DEF InsertUser
  <1>5. Book!Register(t)
    BY <1>1, <1>2, <1>3, <1>4, Moves DEF Book!Register
  <1> QED BY <1>5 DEF Book!Next

(* The INSERT or UPDATE of result is the instant at which the book changes. *)
LEMMA Records ==
  ASSUME Typed, OneRowInv, NEW t \in Thread, InsertRow(t) \/ UpdateRow(t)
  PROVE  Book!Next
  <1> DEFINE r == request[t]
             B == {BookEntry(row) : row \in User_test}
             new == [login |-> r.login, name |-> r.test.name, result |-> r.test.result]
             Other(e) == ~ (e.login = r.login /\ e.name = r.test.name)
  <1>1. Phase(t) = "waiting" /\ Phase(t)' = "applied" /\ OthersKept(t)
    BY Alone DEF InsertRow, UpdateRow, Goto, Phase, Typed, TypeOK
  <1>2. /\ r.kind = "result" /\ is_correct_auth(r)
        /\ request' = request /\ User' = User
    BY DEF InsertRow, UpdateRow, Typed, KindAt
  <1>3. \A row : BookEntry(row).login = row.id_user /\ BookEntry(row).name = row.id_pattern
    BY DEF BookEntry
  <1>4. \A id : BookEntry(Row(id, r.login, r.test)) = new
    BY DEF BookEntry, Row
  <1>5. ASSUME InsertRow(t) PROVE B' = {e \in B : Other(e)} \cup {new}
    <2>1. B' = B \cup {new}
      BY <1>4, <1>5 DEF InsertRow, AddRow
    <2>2. \A row \in User_test : ~ (row.id_user = r.login /\ row.id_pattern = r.test.name)
      BY <1>5 DEF InsertRow, OneRowInv, Looked, RowsFor, RowsOf
    <2>3. B = {e \in B : Other(e)}
      BY <2>2, <1>3
    <2> QED BY <2>1, <2>3
  <1>6. ASSUME UpdateRow(t) PROVE B' = {e \in B : Other(e)} \cup {new}
    <2> DEFINE old == RowsFor(r.login, r.test.name)
    <2>1. User_test' = (User_test \ old) \cup {Row(row.id, row.id_user, r.test) : row \in old}
      BY <1>6 DEF UpdateRow, Updated
    <2>2. \A row \in User_test : row \in old <=> row.id_user = r.login /\ row.id_pattern = r.test.name
      BY DEF RowsFor, RowsOf
    <2>3. \A row \in old : row \in User_test /\ BookEntry(Row(row.id, row.id_user, r.test)) = new
      BY <2>2, <1>4 DEF RowsFor, RowsOf
    <2>4. PICK row \in old : TRUE
      BY <1>6 DEF UpdateRow, OneRowInv, Looked
    <2> HIDE DEF old, new
    <2>5. B' = {BookEntry(kept) : kept \in User_test \ old} \cup {new}
      BY <2>1, <2>3, <2>4
    <2>6. {BookEntry(kept) : kept \in User_test \ old} = {e \in B : Other(e)}
      BY <2>2, <2>3, <1>3
    <2> QED BY <2>5, <2>6
  <1>7. B' = {e \in B : Other(e)} \cup {new}
    BY <1>5, <1>6
  <1>8. Book!Known(r)
    BY <1>2 DEF Book!Known, is_correct_auth
  <1>9. Book!Record(t)
    BY <1>1, <1>2, <1>7, <1>8, Moves DEF Book!Record, BookEntry
  <1> QED BY <1>9 DEF Book!Next

-----------------------------------------------------------------------------
(* Every step of the server is a step of the book or none. *)
LEMMA StepOfBook ==
  ASSUME "set_all_result" \notin Kinds, Typed, Typed', OneRowInv, [Next]_vars
  PROVE  [Book!Next]_(Book!vars)
  <1>1. ASSUME NEW t \in Thread, Receive(t) PROVE [Book!Next]_(Book!vars)
    <2>1. PICK r \in Request : Received(t, r)
      BY <1>1 DEF Receive
    <2>2. OthersKept(t) /\ UNCHANGED <<User, User_test>>
      BY <2>1, Alone DEF Received, disk
    <2>3. Phase(t) = "idle" /\ Phase(t)' = "waiting"
      BY <2>1 DEF Received, Goto, Entry, Phase, Typed, TypeOK
    <2>4. Book!Ask(t)
      BY <2>1, <2>2, <2>3, Moves DEF Book!Ask, Received
    <2> QED BY <2>4 DEF Book!Next
  <1>2. ASSUME NEW t \in Thread, Unreadable(t) PROVE [Book!Next]_(Book!vars)
    <2>1. TablesKept /\ OthersKept(t) /\ Phase(t) = "waiting" /\ Phase(t)' = "uncorrect"
      BY <1>2, Alone DEF Unreadable, TablesKept, disk, Goto, Return, Phase, Typed, TypeOK
    <2> QED BY <2>1, Declines
  <1>3. ASSUME NEW t \in Thread, AuthFails(t) PROVE [Book!Next]_(Book!vars)
    <2>1. TablesKept /\ OthersKept(t) /\ Phase(t) = "waiting" /\ Phase(t)' = "uncorrect"
      BY <1>3, Alone DEF AuthFails, TablesKept, disk, Goto, Return, Phase, Typed, TypeOK
    <2> QED BY <2>1, Declines
  <1>4. ASSUME NEW t \in Thread, UnknownPattern(t) PROVE [Book!Next]_(Book!vars)
    <2>1. TablesKept /\ OthersKept(t) /\ Phase(t) = "waiting" /\ Phase(t)' = "uncorrect"
      BY <1>4, Alone DEF UnknownPattern, TablesKept, disk, Goto, Return, Phase, Typed, TypeOK
    <2> QED BY <2>1, Declines
  <1>5. ASSUME NEW t \in Thread, RowVanished(t) PROVE [Book!Next]_(Book!vars)
    <2>1. TablesKept /\ OthersKept(t) /\ Phase(t) = "waiting" /\ Phase(t)' = "uncorrect"
      BY <1>5, Alone DEF RowVanished, TablesKept, disk, Goto, Return, Phase, Typed, TypeOK
    <2> QED BY <2>1, Declines
  <1>6. ASSUME NEW t \in Thread, InsertUserThrows(t) PROVE [Book!Next]_(Book!vars)
    <2>1. TablesKept /\ OthersKept(t) /\ Phase(t) = "waiting" /\ Phase(t)' = "uncorrect"
      BY <1>6, Alone DEF InsertUserThrows, TablesKept, disk, Goto, Return, Phase, Typed, TypeOK
    <2> QED BY <2>1, Declines
  <1>7. ASSUME NEW t \in Thread, AuthPasses(t) PROVE [Book!Next]_(Book!vars)
    <2>1. TablesKept /\ OthersKept(t) /\ Phase(t)' = Phase(t)
      BY <1>7, Alone DEF AuthPasses, TablesKept, disk, Goto, Phase, Typed, TypeOK
    <2> QED BY <2>1, Stutters
  <1>8. ASSUME NEW t \in Thread, Truncate(t) PROVE [Book!Next]_(Book!vars)
    <2>1. TablesKept /\ OthersKept(t) /\ Phase(t)' = Phase(t)
      BY <1>8, Alone DEF Truncate, TablesKept, disk, Goto, Phase, Typed, TypeOK
    <2> QED BY <2>1, Stutters
  <1>9. ASSUME NEW t \in Thread, Write(t) PROVE [Book!Next]_(Book!vars)
    <2>1. TablesKept /\ OthersKept(t) /\ Phase(t)' = Phase(t)
      BY <1>9, Alone DEF Write, TablesKept, disk, Goto, Phase, Typed, TypeOK
    <2> QED BY <2>1, Stutters
  <1>10. ASSUME NEW t \in Thread, LockMutex(t) PROVE [Book!Next]_(Book!vars)
    <2>1. TablesKept /\ OthersKept(t) /\ Phase(t)' = Phase(t)
      BY <1>10, Alone DEF LockMutex, TablesKept, disk, Goto, Phase, Typed, TypeOK
    <2> QED BY <2>1, Stutters
  <1>11. ASSUME NEW t \in Thread, FindRow(t) PROVE [Book!Next]_(Book!vars)
    <2>1. TablesKept /\ OthersKept(t) /\ Phase(t)' = Phase(t)
      BY <1>11, Alone DEF FindRow, TablesKept, disk, Goto, Phase, Typed, TypeOK
    <2> QED BY <2>1, Stutters
  <1>12. ASSUME NEW t \in Thread, ReadAvatar(t) PROVE [Book!Next]_(Book!vars)
    <2>1. TablesKept /\ OthersKept(t) /\ Phase(t) = "waiting"
      BY <1>12, Alone DEF ReadAvatar, TablesKept, disk, Goto, Return, Phase, Typed, TypeOK
    <2>2. Phase(t)' \in {"waiting", "uncorrect"}
      BY <1>12 DEF ReadAvatar, Goto, Return, Phase, Typed, TypeOK
    <2> QED BY <2>1, <2>2, Stutters, Declines
  <1>13. ASSUME NEW t \in Thread, CheckLogin(t) PROVE [Book!Next]_(Book!vars)
    <2>1. TablesKept /\ OthersKept(t) /\ Phase(t) = "waiting"
      BY <1>13, Alone DEF CheckLogin, TablesKept, disk, Goto, Return, Phase, Typed, TypeOK
    <2>2. Phase(t)' \in {"waiting", "uncorrect"}
      BY <1>13 DEF CheckLogin, Goto, Return, Phase, Typed, TypeOK
    <2> QED BY <2>1, <2>2, Stutters, Declines
  <1>14. ASSUME NEW t \in Thread, CountTests(t) PROVE [Book!Next]_(Book!vars)
    <2>1. TablesKept /\ OthersKept(t) /\ Phase(t) = "waiting"
      BY <1>14, Alone DEF CountTests, TablesKept, disk, Goto, Return, Phase, Typed, TypeOK
    <2>2. Phase(t)' \in {"waiting", "correct"}
      BY <1>14 DEF CountTests, Goto, Return, Phase, Typed, TypeOK
    <2>3. request[t].kind = "authorization" /\ is_correct_auth(request[t])
      BY <1>14 DEF CountTests, Typed, KindAt
    <2> QED BY <2>1, <2>2, <2>3, Stutters, Shows
  <1>15. ASSUME NEW t \in Thread, ReadTest(t) PROVE [Book!Next]_(Book!vars)
    <2>1. TablesKept /\ OthersKept(t) /\ Phase(t) = "waiting"
      <3>1. TablesKept /\ Phase(t) = "waiting"
        BY <1>15 DEF ReadTest, TablesKept, disk, Phase
      <3>2. CASE UNCHANGED <<pc, answer>>
        BY <3>1, <3>2 DEF OthersKept, Phase
      <3>3. CASE Return(t, "correct")
        BY <3>1, <3>3, Alone DEF Return
      <3> QED BY <1>15, <3>2, <3>3 DEF ReadTest
    <2>2. Phase(t)' \in {"waiting", "correct"}
      BY <1>15 DEF ReadTest, Goto, Return, Phase, Typed, TypeOK
    <2>3. request[t].kind = "authorization" /\ is_correct_auth(request[t])
      BY <1>15 DEF ReadTest, Typed, KindAt
    <2> QED BY <2>1, <2>2, <2>3, Stutters, Shows
  <1>16. ASSUME NEW t \in Thread, Patterns(t) PROVE [Book!Next]_(Book!vars)
    <2>1. TablesKept /\ OthersKept(t) /\ Phase(t) = "waiting" /\ request[t].kind = "patterns"
      BY <1>16, Alone DEF Patterns, TablesKept, disk, Return, Phase, Typed, TypeOK, KindAt
    <2>2. Phase(t)' \in {"correct", "uncorrect"}
      BY <1>16 DEF Patterns, Goto, Return, Phase, Typed, TypeOK
    <2> QED BY <2>1, <2>2, Declines, Shows
  <1>17. ASSUME NEW t \in Thread, Unlock(t) PROVE [Book!Next]_(Book!vars)
    <2>1. TablesKept /\ OthersKept(t) /\ Phase(t) = "applied" /\ Phase(t)' = "correct"
      BY <1>17, Alone DEF Unlock, TablesKept, disk, Goto, Return, Phase, Typed, TypeOK
    <2>2. Book!Acknowledge(t)
      BY <2>1, Moves DEF Book!Acknowledge, TablesKept
    <2> QED BY <2>2 DEF Book!Next
  <1>18. ASSUME NEW t \in Thread, InsertUser(t) \/ InsertRow(t) \/ UpdateRow(t)
         PROVE  [Book!Next]_(Book!vars)
    BY <1>18, Registers, Records
  <1>19. ASSUME NEW t \in Thread PROVE ~ (DeleteTests(t) \/ InsertTest(t) \/ UploadDone(t))
    BY NotARequest DEF Typed, KindAt, DeleteTests, InsertTest, UploadDone
  <1>20. CASE Restart
    <2>1. PICK cut \in SUBSET {t \in Thread : pc[t] = "idle"} :
            pc' = [t \in Thread |-> IF t \in Active \cup cut THEN "lost" ELSE pc[t]]
      BY <1>20 DEF Restart
    <2>2. cut \in SUBSET {t \in Thread : Phase(t) = "idle"}
      BY DEF Phase
    <2>3. \A t \in Thread : Phase(t)' = IF Phase(t) \in {"waiting", "applied"} \/ t \in cut
                                      THEN "lost" ELSE Phase(t)
      BY <1>20, <2>1 DEF Restart, Active, Phase, Typed, TypeOK
    <2>4. Book!Crash
      BY <1>20, <2>2, <2>3 DEF Book!Crash, Restart, disk
    <2> QED BY <2>4 DEF Book!Next
  <1>22. ASSUME NEW t \in Thread, ResultThrows(t) PROVE [Book!Next]_(Book!vars)
    <2>1. TablesKept /\ OthersKept(t) /\ Phase(t) = "waiting" /\ Phase(t)' = "uncorrect"
      BY <1>22, Alone DEF ResultThrows, TablesKept, disk, Goto, Return, Phase, Typed, TypeOK
    <2> QED BY <2>1, Declines
  <1>21. CASE UNCHANGED vars
    <2>1. TablesKept /\ \A t \in Thread : Phase(t)' = Phase(t)
      BY <1>21 DEF vars, disk, TablesKept, Phase
    <2>2. UNCHANGED Book!vars
      BY <2>1 DEF Book!vars, TablesKept
    <2> QED BY <2>2
  <1> QED
    BY <1>1, <1>2, <1>3, <1>4, <1>5, <1>6, <1>7, <1>8, <1>9, <1>10, <1>11, <1>12, <1>13, <1>14, <1>15, <1>16, <1>17, <1>18, <1>19, <1>20, <1>21, <1>22
       DEF Next, Handle, Terminated

(* Without uploads every registration and every result takes effect at one  *)
(* instant, exactly once or, when the request is refused, not at all.       *)
THEOREM ServesBook ==
  ASSUME "set_all_result" \notin Kinds
  PROVE  Spec => ImplementsBook
  <1>1. Init => Book!Init
    BY DEF Init, Book!Init, Phase
  <1>2. Init => OneRowInv
    BY DEF Init, OneRowInv, OneRowPerResult, Looked
  <1>3. Typed /\ Typed' /\ OneRowInv /\ [Next]_vars => [Book!Next]_(Book!vars)
    BY StepOfBook
  <1>4. Spec => []OneRowInv
    BY <1>2, NextOneRow, AlwaysTyped, AlwaysMutex, PTL DEF Spec, Safety, TypedInv
  <1> QED
    BY <1>1, <1>3, <1>4, AlwaysTyped, PTL DEF Spec, Safety, ImplementsBook, Book!Spec, TypedInv
-----------------------------------------------------------------------------
(***************************************************************************)
(* What compares a request with the requests that were dealt with before   *)
(* it arrived and with those that overlap it: pictures, reasons of         *)
(* refusals, stored results.                                               *)
(***************************************************************************)
Finished(t) == pc[t] \in {"done", "lost"}

NoRival(t, kinds) == ~ \E u \in Thread : Rival(t, u, kinds)

(* What a connection keeps: no request before it is received, no thread in  *)
(* "earlier" that can still do something, and no data in the locals of a    *)
(* handler before the statement that assigns them.                          *)
LogInv ==
  \A t \in Thread :
    /\ pc[t] = "idle" => request[t] = NoRequest
    /\ t \notin earlier[t] /\ \A u \in earlier[t] : Finished(u)
    /\ pc[t] \notin {"row", "insert", "done", "lost"} => counter[t] = 0
    /\ pc[t] \notin {"row", "done", "lost"} => cursor[t] = 0 /\ tests[t] = <<>>

(* Accounts: each has the picture file of its own login, the delivered ones *)
(* stay, a registration that owns its login has its own file in the table.  *)
AccountsInv ==
  /\ \A l \in DOMAIN User : User[l].path[1] = l
  /\ \A l \in DOMAIN InitialUser : l \in DOMAIN User /\ User[l] = InitialUser[l]
  /\ \A r \in Thread : Owner(r) =>
       User[request[r].login].path = path_to_file(request[r])

(* A registration between its COUNT and its answer. *)
Registering(t) == /\ request[t].kind = "registration"
                  /\ pc[t] \in {"truncate", "write", "lock", "insert_user", "unlock"}

(* The file of an account, or of one about to be inserted, exists. *)
FilesInv ==
  /\ \A l \in DOMAIN User : files[FileOf[User[l].path]] # "absent"
  /\ \A t \in Thread : Registering(t) /\ pc[t] # "truncate" =>
       files[file_of(request[t])] # "absent"

(* An authorization that has been given its picture. *)
Delivered(t) == /\ request[t].kind = "authorization"
                /\ \/ pc[t] \in {"count", "row"}
                   \/ pc[t] = "done" /\ answer[t] = "correct"

(* No registration may have overwritten the picture of r. *)
Unspoilt(r) == ~ \E u \in Thread : Overwrites(u, r)

(* The file of such a registration is its own from Truncate on; afterwards  *)
(* nobody gets past the COUNT with the same login.                          *)
PicturesInv ==
  /\ \A t \in Thread : Registering(t) =>
       \A r \in earlier[t] : Owner(r) => request[r].login # request[t].login
  /\ \A r \in Thread :
       (Registering(r) \/ Owner(r)) /\ Unspoilt(r) =>
       \/ pc[r] = "truncate"
       \/ files[file_of(request[r])] = IF pc[r] = "write" THEN "empty"
                                       ELSE request[r].img
  /\ \A t \in Thread : Delivered(t) => is_correct_auth(request[t])
  /\ \A t, r \in Thread :
       /\ Delivered(t) /\ Owner(r) /\ request[r].login = request[t].login
       /\ Unspoilt(r)
       => avatar[t] = request[r].img

Ids(l) == {row.id : row \in RowsOf(l)}

Seen(t) == {i \in Ids(request[t].login) : i <= cursor[t]}

(* Row ids are counted up and never reused. *)
IdsInv ==
  /\ \A row \in User_test : row.id > 0 /\ row.id <= last_id
  /\ \A row, other \in User_test : row.id = other.id => row = other
  /\ \A t \in Thread : cursor[t] <= last_id

(* What an authorization has read so far, and that enough rows are left.    *)
ReadInv ==
  \A t \in Thread : pc[t] = "row" /\ NoRival(t, {"set_all_result"}) =>
    /\ Len(tests[t]) = Cardinality(Seen(t))
    /\ Len(tests[t]) < counter[t]
    /\ counter[t] <= Cardinality(Ids(request[t].login))

Elements(s) == {s[i] : i \in DOMAIN s}

(* The same when nobody writes the results of its user meanwhile. *)
ReadExactInv ==
  \A t \in Thread : pc[t] = "row" /\ NoRival(t, {"result", "set_all_result"}) =>
    /\ counter[t] = Cardinality(Ids(request[t].login))
    /\ Elements(tests[t]) = {AsTest(row) : row \in {row \in RowsOf(request[t].login) :
                                                      row.id <= cursor[t]}}

Storable(test) == test.name \in Pattern /\ test.result \in Result

(* An upload that nobody disturbs has stored its tests up to its counter.   *)
UploadInv ==
  \A t \in Thread : pc[t] = "insert" =>
    /\ counter[t] <= Len(request[t].tests)
    /\ \A i \in 1..counter[t] : Storable(request[t].tests[i])
    /\ NoRival(t, {"result", "set_all_result"}) =>
         {AsTest(row) : row \in RowsOf(request[t].login)}
           = {request[t].tests[i] : i \in 1..counter[t]}

(* What result found under the mutex is still there, without uploads, and   *)
(* what it has stored was stored by a request that was not over before.     *)
StoredBy(t, row, u) ==
  /\ row \in RowsFor(request[t].login, request[t].test.name)
  /\ u \in Thread /\ u \notin earlier[t]
  /\ request[u].kind = "result" /\ request[u].login = request[t].login
  /\ request[u].test = AsTest(row)

Applied(t) == /\ request[t].kind = "result"
              /\ pc[t] = "unlock" \/ (pc[t] = "done" /\ answer[t] = "correct")

LastInv ==
  \A t \in Thread : request[t].kind = "result" /\ UploadsNothing(request[t].login) =>
    /\ pc[t] = "update_row" => RowsFor(request[t].login, request[t].test.name) # {}
    /\ Applied(t) => \E row \in User_test, u \in Thread : StoredBy(t, row, u)

(* No upload of the user overlaps another upload or a result of his. *)
Quiet(l) ==
  \A t \in Thread : request[t].kind = "set_all_result" /\ request[t].login = l =>
    NoRival(t, {"set_all_result", "result"})

QuietInv ==
  \A l \in Login : Quiet(l) =>
    /\ \A row, other \in RowsOf(l) : row.id_pattern = other.id_pattern => row = other
    /\ \A t \in Thread : pc[t] = "insert_row" /\ request[t].login = l =>
         RowsFor(l, request[t].test.name) = {}

-----------------------------------------------------------------------------
(* A handler changes the locals of its own thread only, and neither the      *)
(* request nor what is known to be earlier.                                  *)
LEMMA HandlerFrame ==
  ASSUME Typed, NEW t \in Thread, Handle(t)
  PROVE  /\ request' = request /\ earlier' = earlier
         /\ pc[t] \notin {"idle", "done", "lost"} /\ pc'[t] \notin {"idle", "lost"}
         /\ \A u \in Thread \ {t} :
              /\ pc'[u] = pc[u] /\ answer'[u] = answer[u] /\ counter'[u] = counter[u]
              /\ cursor'[u] = cursor[u] /\ tests'[u] = tests[u] /\ avatar'[u] = avatar[u]
  <1> USE DEF Typed, TypeOK
  <1>1. CASE Unreadable(t) \/ Patterns(t) \/ AuthFails(t) \/ UnknownPattern(t) \/ AuthPasses(t)
    BY <1>1 DEF Unreadable, Patterns, AuthFails, UnknownPattern, AuthPasses, Goto, Return, reply
  <1>2. CASE ReadAvatar(t) \/ CountTests(t) \/ RowVanished(t)
    BY <1>2 DEF ReadAvatar, CountTests, RowVanished, Goto, Return, Forget
  <1>3. CASE ReadTest(t)
    BY <1>3 DEF ReadTest, Goto, Return
  <1>4. CASE CheckLogin(t) \/ Truncate(t) \/ Write(t) \/ LockMutex(t) \/ Unlock(t)
    BY <1>4 DEF CheckLogin, Truncate, Write, LockMutex, Unlock, Goto, Return, reply
  <1>5. CASE InsertUser(t) \/ InsertUserThrows(t)
    BY <1>5 DEF InsertUser, InsertUserThrows, Goto, Return, reply
  <1>6. CASE FindRow(t) \/ InsertRow(t) \/ UpdateRow(t) \/ ResultThrows(t) \/ DeleteTests(t)
    BY <1>6 DEF FindRow, InsertRow, UpdateRow, ResultThrows, DeleteTests, Goto, Return, reply
  <1>7. CASE InsertTest(t) \/ UploadDone(t)
    BY <1>7 DEF InsertTest, UploadDone, Goto, Return, reply
  <1> QED BY <1>1, <1>2, <1>3, <1>4, <1>5, <1>6, <1>7 DEF Handle

(* A thread that does not step keeps its locals; only a restart ends it.    *)
LEMMA OthersFrame ==
  ASSUME Typed, [Next]_vars, NEW t \in Thread, ~ Receive(t), ~ Handle(t)
  PROVE  /\ request'[t] = request[t] /\ earlier'[t] = earlier[t]
         /\ answer'[t] = answer[t] /\ counter'[t] = counter[t]
         /\ cursor'[t] = cursor[t] /\ tests'[t] = tests[t] /\ avatar'[t] = avatar[t]
         /\ pc'[t] = pc[t] \/ (pc'[t] = "lost" /\ pc[t] \notin {"done", "lost"})
  <1>1. ASSUME NEW v \in Thread, Receive(v) PROVE UNCHANGED <<answer, counter, cursor, tests, avatar>>
                                           /\ v # t
                                           /\ pc'[t] = pc[t] /\ request'[t] = request[t]
                                           /\ earlier'[t] = earlier[t]
    BY <1>1 DEF Receive, Received, Goto, reply, Typed, TypeOK
  <1>2. ASSUME NEW v \in Thread, Handle(v) PROVE v # t
    BY <1>2
  <1>3. CASE Restart
    BY <1>3 DEF Restart, Active, reply, Typed, TypeOK
  <1>4. CASE UNCHANGED vars
    BY <1>4 DEF vars, reply
  <1> QED BY <1>1, <1>2, <1>3, <1>4, HandlerFrame DEF Next, Terminated

LEMMA ReceiveFrame ==
  ASSUME Typed, NEW t \in Thread, Receive(t)
  PROVE  /\ pc[t] = "idle" /\ request'[t] \in Request
         /\ pc'[t] \in {"unreadable", "patterns", "login_free", "is_correct_auth"}
         /\ earlier'[t] = {u \in Thread : Finished(u)}
         /\ disk' = disk /\ mutex' = mutex /\ answer' = answer /\ reply' = reply
         /\ \A u \in Thread \ {t} : /\ pc'[u] = pc[u] /\ request'[u] = request[u]
                                   /\ earlier'[u] = earlier[u]
  BY RequestFields DEF Receive, Received, Goto, Entry, Typed, TypeOK, AllKinds, Finished

(* What a request was, and what was over before it, stays as it is; and who *)
(* is finished stays as he is.                                              *)
LEMMA Lasting ==
  ASSUME Typed, [Next]_vars, NEW t \in Thread
  PROVE  /\ pc[t] # "idle" => /\ request'[t] = request[t] /\ earlier'[t] = earlier[t]
                              /\ pc'[t] # "idle"
         /\ Finished(t) => /\ pc'[t] = pc[t] /\ answer'[t] = answer[t]
                           /\ request'[t] = request[t] /\ avatar'[t] = avatar[t]
  <1>1. CASE Receive(t)
    BY <1>1, ReceiveFrame DEF Finished
  <1>2. CASE Handle(t)
    BY <1>2, HandlerFrame DEF Finished
  <1>3. CASE ~ Receive(t) /\ ~ Handle(t)
    BY <1>3, OthersFrame DEF Finished
  <1> QED BY <1>1, <1>2, <1>3

-----------------------------------------------------------------------------
LEMMA InitLog == Init => LogInv
  BY DEF Init, LogInv

LEMMA NextLog == Typed /\ LogInv /\ [Next]_vars => LogInv'
  <1> SUFFICES ASSUME Typed, LogInv, [Next]_vars, NEW t \in Thread
               PROVE  /\ pc'[t] = "idle" => request'[t] = NoRequest
                      /\ t \notin earlier'[t] /\ \A u \in earlier'[t] : Finished(u)'
                      /\ pc'[t] \notin {"row", "insert", "done", "lost"} => counter'[t] = 0
                      /\ pc'[t] \notin {"row", "done", "lost"} =>
                           cursor'[t] = 0 /\ tests'[t] = <<>>
    BY DEF LogInv
  <1>1. \A u \in Thread : Finished(u) => Finished(u)'
    BY Lasting DEF Finished
  <1>2. earlier[t] \subseteq Thread
    BY DEF Typed, TypeOK
  <1>3. CASE Receive(t)
    BY <1>1, <1>3, ReceiveFrame DEF LogInv, Finished, reply
  <1>4. CASE Handle(t)
    <2>1. /\ pc'[t] \notin {"row", "insert", "done", "lost"} => counter'[t] = 0
          /\ pc'[t] \notin {"row", "done", "lost"} => cursor'[t] = 0 /\ tests'[t] = <<>>
      <3> USE DEF Typed, TypeOK, LogInv
      <3>1. CASE Unreadable(t) \/ Patterns(t) \/ AuthFails(t) \/ UnknownPattern(t)
                   \/ RowVanished(t) \/ Unlock(t) \/ InsertUserThrows(t) \/ ResultThrows(t)
                   \/ UploadDone(t)
        BY <3>1 DEF Unreadable, Patterns, AuthFails, UnknownPattern, RowVanished, Unlock,
                    InsertUserThrows, ResultThrows, UploadDone, Goto, Return
      <3>2. CASE AuthPasses(t) \/ Truncate(t) \/ Write(t) \/ LockMutex(t) \/ InsertUser(t)
        BY <3>2 DEF AuthPasses, Truncate, Write, LockMutex, InsertUser, Goto, reply
      <3>3. CASE FindRow(t) \/ InsertRow(t) \/ UpdateRow(t) \/ DeleteTests(t) \/ CheckLogin(t)
        BY <3>3 DEF FindRow, InsertRow, UpdateRow, DeleteTests, CheckLogin, Goto, Return, reply
      <3>4. CASE ReadAvatar(t)
        BY <3>4 DEF ReadAvatar, Goto, Return
      <3>5. CASE CountTests(t)
        BY <3>5 DEF CountTests, Goto, Return
      <3>6. CASE ReadTest(t)
        BY <3>6 DEF ReadTest, Goto, Return
      <3>7. CASE InsertTest(t)
        BY <3>7 DEF InsertTest, Goto, Return
      <3> QED BY <1>4, <3>1, <3>2, <3>3, <3>4, <3>5, <3>6, <3>7 DEF Handle
    <2> QED BY <1>1, <1>2, <1>4, <2>1, HandlerFrame DEF LogInv
  <1>5. CASE ~ Receive(t) /\ ~ Handle(t)
    BY <1>1, <1>2, <1>5, OthersFrame DEF LogInv
  <1> QED BY <1>3, <1>4, <1>5

(* Two requests that are being dealt with at the same time overlap.         *)
LEMMA ActiveRivals ==
  ASSUME LogInv, NEW t \in Thread, NEW u \in Thread, t # u, NEW kinds,
         ~ Finished(t), ~ Finished(u),
         request[u].kind \in kinds, request[u].login = request[t].login
  PROVE  Rival(t, u, kinds)
  BY DEF LogInv, Rival, Overlap

(* A rival stays one: having none now means never having had one.           *)
LEMMA RivalsStay ==
  ASSUME Typed, LogInv, [Next]_vars, NEW t \in Thread, pc[t] # "idle",
         NEW kinds, "none" \notin kinds, NoRival(t, kinds)'
  PROVE  NoRival(t, kinds)
  <1> SUFFICES ASSUME NEW u \in Thread, Rival(t, u, kinds) PROVE Rival(t, u, kinds)'
    BY DEF NoRival
  <1>1. pc[u] # "idle"
    BY DEF LogInv, NoRequest, Rival
  <1> QED BY <1>1, Lasting DEF Rival, Overlap

(* The same for a registration that overwrites a picture. *)
LEMMA OverwritesStay ==
  ASSUME Typed, LogInv, [Next]_vars, NEW r \in Thread, pc[r] # "idle", Unspoilt(r)'
  PROVE  Unspoilt(r)
  <1> SUFFICES ASSUME NEW u \in Thread, Overwrites(u, r) PROVE Overwrites(u, r)'
    BY DEF Unspoilt
  <1>1. pc[u] # "idle"
    BY DEF LogInv, NoRequest, Overwrites
  <1>2. /\ request'[u] = request[u] /\ request'[r] = request[r]
        /\ earlier'[u] = earlier[u] /\ earlier'[r] = earlier[r]
    BY <1>1, Lasting
  <1> QED BY <1>2 DEF Overwrites, file_of, path_to_file

-----------------------------------------------------------------------------
LEMMA FileWriters ==
  ASSUME [Next]_vars
  PROVE  UNCHANGED files \/ \E t \in Thread : Truncate(t) \/ Write(t)
  BY ZenonT(30) DEF Next, Handle, Restart, Terminated, vars, disk, Receive, Received,
         Unreadable, Patterns, AuthFails, UnknownPattern, AuthPasses, ReadAvatar,
         CountTests, ReadTest, RowVanished, CheckLogin, LockMutex, Unlock, InsertUser,
         InsertUserThrows, FindRow, ResultThrows, UploadDone, InsertRow, UpdateRow,
         DeleteTests, InsertTest

(* How a registration moves on. *)
LEMMA NewRegistering ==
  ASSUME Typed, [Next]_vars, NEW t \in Thread, Registering(t)'
  PROVE  /\ request'[t] = request[t]
         /\ pc'[t] = pc[t] \/ Handle(t)
         /\ pc'[t] = "truncate" => pc[t] = "truncate" \/ CheckLogin(t)
         /\ pc'[t] = "write" => pc[t] = "write" \/ Truncate(t)
         /\ pc'[t] = "lock" => pc[t] = "lock" \/ Write(t)
         /\ pc'[t] = "insert_user" => pc[t] = "insert_user" \/ LockMutex(t)
         /\ pc'[t] = "unlock" => pc[t] = "unlock" \/ InsertUser(t)
  <1> USE DEF Registering
  <1>1. CASE Receive(t)
    BY <1>1, ReceiveFrame
  <1>2. CASE ~ Receive(t) /\ ~ Handle(t)
    BY <1>2, OthersFrame
  <1>3. CASE Handle(t)
    <2> USE DEF Typed, TypeOK, KindAt
    <2>1. request' = request
      BY <1>3, HandlerFrame
    <2>2. CASE Unreadable(t) \/ Patterns(t) \/ AuthFails(t) \/ UnknownPattern(t) \/ AuthPasses(t)
      BY <2>2 DEF Unreadable, Patterns, AuthFails, UnknownPattern, AuthPasses, Goto, Return
    <2>3. CASE ReadAvatar(t) \/ CountTests(t) \/ RowVanished(t) \/ ReadTest(t)
      BY <2>3 DEF ReadAvatar, CountTests, RowVanished, ReadTest, Goto, Return
    <2>4. CASE CheckLogin(t) \/ Truncate(t) \/ Write(t)
      <3>1. \/ pc'[t] \in {"truncate", "done"} /\ CheckLogin(t)
            \/ pc'[t] = "write" /\ Truncate(t)
            \/ pc'[t] = "lock" /\ Write(t)
        BY <2>4 DEF CheckLogin, Truncate, Write, Goto, Return
      <3> QED BY <1>3, <2>1, <3>1
    <2>5. CASE LockMutex(t) \/ Unlock(t) \/ InsertUser(t) \/ InsertUserThrows(t)
      <3>1. \/ pc'[t] \in {"insert_user", "find_row"} /\ LockMutex(t)
            \/ pc'[t] = "unlock" /\ InsertUser(t)
            \/ pc'[t] = "done"
        BY <2>5 DEF LockMutex, Unlock, InsertUser, InsertUserThrows, Goto, Return
      <3> QED BY <1>3, <2>1, <3>1
    <2>6. CASE FindRow(t) \/ InsertRow(t) \/ UpdateRow(t) \/ ResultThrows(t) \/ DeleteTests(t)
      BY <2>1, <2>6 DEF FindRow, InsertRow, UpdateRow, ResultThrows, DeleteTests, Goto, Return
    <2>7. CASE InsertTest(t) \/ UploadDone(t)
      BY <2>1, <2>7 DEF InsertTest, UploadDone, Goto, Return
    <2> QED BY <1>3, <2>1, <2>2, <2>3, <2>4, <2>5, <2>6, <2>7 DEF Handle
  <1> QED BY <1>1, <1>2, <1>3

LEMMA InitAccounts == Init => AccountsInv /\ FilesInv
  <1> SUFFICES ASSUME Init PROVE AccountsInv /\ FilesInv
    OBVIOUS
  <1>1. AccountsInv
    BY InitialUserAssumption DEF Init, AccountsInv, Owner
  <1>2. \A l \in DOMAIN User : FileOf[User[l].path] \in Path
    BY InitialUserAssumption, FileAssumption DEF Init, Account
  <1>3. FilesInv
    BY <1>2 DEF Init, FilesInv, Registering
  <1> QED BY <1>1, <1>3

LEMMA NextAccounts == Typed /\ OwnerInv /\ AccountsInv /\ [Next]_vars => AccountsInv'
  <1> SUFFICES ASSUME Typed, OwnerInv, AccountsInv, [Next]_vars PROVE AccountsInv'
    OBVIOUS
  <1>1. ASSUME NEW v \in Thread, InsertUser(v) PROVE AccountsInv'
    <2>1. /\ request' = request /\ request[v].login \notin DOMAIN User
          /\ DOMAIN User' = DOMAIN User \cup {request[v].login}
          /\ User'[request[v].login].path = path_to_file(request[v])
          /\ \A l \in DOMAIN User : User'[l] = User[l]
      BY <1>1 DEF InsertUser, UniqueViolated
    <2>2. \A u \in Thread : InsertUser(u) => u = v
      BY <1>1 DEF InsertUser, Goto, Typed, TypeOK
    <2>3. \A r \in Thread : Owner(r)' => Owner(r) \/ r = v
      BY <2>2, NewOwner
    <2>4. \A l \in DOMAIN User' : User'[l].path[1] = l
      BY <2>1 DEF AccountsInv, path_to_file
    <2>5. \A l \in DOMAIN InitialUser : l \in DOMAIN User' /\ User'[l] = InitialUser[l]
      BY <2>1 DEF AccountsInv
    <2>6. ASSUME NEW r \in Thread, Owner(r)'
          PROVE  User'[request[r].login].path = path_to_file(request[r])
      <3>1. CASE r = v
        BY <2>1, <3>1
      <3>2. CASE Owner(r)
        BY <2>1, <3>2 DEF AccountsInv, OwnerInv, is_correct_auth
      <3> QED BY <2>3, <2>6, <3>1, <3>2
    <2> QED BY <2>1, <2>4, <2>5, <2>6 DEF AccountsInv, path_to_file
  <1>2. CASE ~ \E v \in Thread : InsertUser(v)
    BY <1>2, NewOwner, Writers DEF AccountsInv, path_to_file
  <1> QED BY <1>1, <1>2

(* A file that exists is not removed again. *)
LEMMA FilesStay ==
  ASSUME Typed, [Next]_vars, NEW p \in Path, files[p] # "absent"
  PROVE  files'[p] # "absent"
  <1>1. ASSUME NEW t \in Thread, Truncate(t) PROVE files'[p] # "absent"
    BY <1>1 DEF Truncate, Typed, TypeOK
  <1>2. ASSUME NEW t \in Thread, Write(t) PROVE files'[p] # "absent"
    <2>1. request[t].img # "absent"
      BY <1>2, RequestFields, ImageAssumption DEF Write, Typed, KindAt
    <2> QED BY <1>2, <2>1 DEF Write, Typed, TypeOK
  <1> QED BY <1>1, <1>2, FileWriters

LEMMA NextFiles == Typed /\ FilesInv /\ [Next]_vars => FilesInv'
  <1> SUFFICES ASSUME Typed, FilesInv, [Next]_vars PROVE FilesInv'
    OBVIOUS
  <1>1. \A t \in Thread : Registering(t) => file_of(request[t]) \in Path
    BY RegistrationFile DEF Typed, KindAt, Registering
  <1>2. \A l \in DOMAIN User : FileOf[User[l].path] \in Path
    BY FileAssumption DEF Typed, TypeOK, Account
  <1>3. ASSUME NEW l \in DOMAIN User' PROVE files'[FileOf[User'[l].path]] # "absent"
    <2>1. CASE l \in DOMAIN User
      BY <1>2, <2>1, UserGrows, FilesStay DEF FilesInv
    <2>2. CASE l \notin DOMAIN User
      <3>1. PICK v \in Thread : InsertUser(v)
        BY <2>2, Writers
      <3>2. FileOf[User'[l].path] = file_of(request[v]) /\ Registering(v) /\ pc[v] # "truncate"
            /\ files' = files
        BY <2>2, <3>1 DEF InsertUser, Registering, Typed, KindAt, file_of
      <3> QED BY <3>2 DEF FilesInv
    <2> QED BY <2>1, <2>2
  <1>4. ASSUME NEW t \in Thread, Registering(t)', pc'[t] # "truncate"
        PROVE  files'[file_of(request'[t])] # "absent"
    <2>1. request'[t] = request[t]
      BY <1>4, NewRegistering
    <2>2. CASE Registering(t) /\ pc[t] # "truncate"
      BY <1>1, <2>1, <2>2, FilesStay DEF FilesInv
    <2>3. CASE Truncate(t)
      BY <1>1, <2>1, <2>3 DEF Truncate, Typed, TypeOK, KindAt, Registering
    <2>4. CASE ~ (Registering(t) /\ pc[t] # "truncate") /\ ~ Truncate(t)
      BY <1>4, <2>1, <2>4, NewRegistering DEF Registering, Write, LockMutex, InsertUser
    <2> QED BY <2>2, <2>3, <2>4
  <1> QED BY <1>3, <1>4 DEF FilesInv, file_of, path_to_file

-----------------------------------------------------------------------------
(* An authorization gets its picture once, from ReadAvatar. *)
LEMMA NewDelivered ==
  ASSUME Typed, [Next]_vars, NEW t \in Thread, Delivered(t)'
  PROVE  /\ request'[t] = request[t]
         /\ (Delivered(t) /\ avatar'[t] = avatar[t]) \/ (ReadAvatar(t) /\ pc'[t] = "count")
  <1> USE DEF Delivered
  <1>1. CASE Receive(t)
    BY <1>1, ReceiveFrame
  <1>2. CASE ~ Receive(t) /\ ~ Handle(t)
    BY <1>2, OthersFrame
  <1>3. CASE Handle(t)
    <2> USE DEF Typed, TypeOK, KindAt
    <2>1. request' = request
      BY <1>3, HandlerFrame
    <2>2. CASE Unreadable(t) \/ Patterns(t) \/ AuthFails(t) \/ UnknownPattern(t) \/ AuthPasses(t)
      BY <2>1, <2>2 DEF Unreadable, Patterns, AuthFails, UnknownPattern, AuthPasses, Goto, Return
    <2>3. CASE RowVanished(t)
      BY <2>1, <2>3 DEF RowVanished, Goto, Return
    <2>4. CASE ReadAvatar(t)
      BY <2>1, <2>4 DEF ReadAvatar, Goto, Return
    <2>5. CASE CountTests(t) \/ ReadTest(t)
      BY <2>1, <2>5 DEF CountTests, ReadTest, Goto, Return
    <2>6. CASE CheckLogin(t) \/ Truncate(t) \/ Write(t) \/ LockMutex(t) \/ Unlock(t)
      BY <2>1, <2>6 DEF CheckLogin, Truncate, Write, LockMutex, Unlock, Goto, Return
    <2>7. CASE InsertUser(t) \/ InsertUserThrows(t)
      BY <2>1, <2>7 DEF InsertUser, InsertUserThrows, Goto, Return
    <2>8. CASE FindRow(t) \/ InsertRow(t) \/ UpdateRow(t) \/ ResultThrows(t) \/ DeleteTests(t)
      BY <2>1, <2>8 DEF FindRow, InsertRow, UpdateRow, ResultThrows, DeleteTests, Goto, Return
    <2>9. CASE InsertTest(t) \/ UploadDone(t)
      BY <2>1, <2>9 DEF InsertTest, UploadDone, Goto, Return
    <2> QED BY <1>3, <2>2, <2>3, <2>4, <2>5, <2>6, <2>7, <2>8, <2>9 DEF Handle
  <1> QED BY <1>1, <1>2, <1>3

LEMMA NextPictures ==
  /\ Typed /\ OwnerInv /\ LogInv /\ AccountsInv /\ PicturesInv
  /\ [Next]_vars
  => PicturesInv'
  <1> SUFFICES ASSUME Typed, OwnerInv, LogInv, AccountsInv, PicturesInv, [Next]_vars
               PROVE  PicturesInv'
    OBVIOUS
  <1>1. ASSUME NEW t \in Thread, Registering(t)'
        PROVE  \A r \in earlier'[t] : Owner(r)' => request'[r].login # request'[t].login
    <2>1. pc[t] # "idle" /\ earlier'[t] = earlier[t] /\ request'[t] = request[t]
      BY <1>1, NewRegistering, HandlerFrame, Lasting DEF Registering
    <2>2. \A r \in earlier[t] : /\ r \in Thread /\ Finished(r)
                                /\ Owner(r)' => Owner(r) /\ request'[r] = request[r]
      BY Lasting DEF LogInv, Owner, Finished, Typed, TypeOK
    <2>3. CASE Registering(t)
      BY <2>1, <2>2, <2>3 DEF PicturesInv
    <2>4. CASE ~ Registering(t)
      <3>1. CheckLogin(t) /\ pc'[t] = "truncate"
        BY <1>1, <2>1, <2>4, NewRegistering
           DEF Registering, Truncate, Write, LockMutex, InsertUser, Typed, KindAt
      <3>2. request[t].login \notin DOMAIN User
        BY <3>1 DEF CheckLogin, LoginFree, Goto, Return, Typed, TypeOK
      <3> QED BY <2>1, <2>2, <3>2 DEF OwnerInv, is_correct_auth
    <2> QED BY <2>3, <2>4
  <1>2. ASSUME NEW r \in Thread, Registering(r)' \/ Owner(r)', Unspoilt(r)'
        PROVE  \/ pc'[r] = "truncate"
               \/ files'[file_of(request'[r])] = IF pc'[r] = "write" THEN "empty"
                                                 ELSE request'[r].img
    <2> DEFINE p == file_of(request[r])
    <2>1. pc[r] # "idle" /\ request'[r] = request[r]
      BY <1>2, NewRegistering, NewOwner, HandlerFrame
         DEF Registering, Owner, InsertUser
    <2>2. Unspoilt(r)
      BY <1>2, <2>1, OverwritesStay
    <2>3. \/ (Registering(r) \/ Owner(r)) /\ pc'[r] = pc[r]
          \/ CheckLogin(r) /\ pc'[r] = "truncate"
          \/ Truncate(r) /\ pc'[r] = "write"
          \/ Write(r) /\ pc'[r] = "lock"
          \/ LockMutex(r) /\ pc'[r] = "insert_user"
          \/ InsertUser(r) /\ pc'[r] = "unlock"
          \/ Owner(r) /\ pc[r] = "unlock" /\ pc'[r] = "done"
      <3>1. InsertUser(r) => pc[r] = "insert_user" /\ pc'[r] = "unlock"
        BY DEF InsertUser, Goto, Typed, TypeOK
      <3>2. CASE Registering(r)'
        BY <2>1, <3>2, NewRegistering DEF Registering
      <3>3. CASE Owner(r)'
        BY <2>1, <3>1, <3>3, NewOwner, Lasting DEF Owner, Finished
      <3> QED BY <1>2, <3>2, <3>3
    <2>4. request[r].kind = "registration" /\ p \in Path
      <3>1. request[r].kind = "registration"
        BY <1>2, <2>1 DEF Registering, Owner
      <3>2. request[r] \in Request
        BY <3>1 DEF Typed, TypeOK, NoRequest
      <3> QED BY <3>1, <3>2, RegistrationFile
    <2>5. CASE Truncate(r) \/ Write(r)
      BY <2>1, <2>2, <2>3, <2>4, <2>5
         DEF Truncate, Write, Goto, PicturesInv, Typed, TypeOK, Registering
    <2>6. CASE files' = files /\ ~ Truncate(r) /\ ~ Write(r)
      BY <2>1, <2>2, <2>3, <2>4, <2>6
         DEF LockMutex, InsertUser, PicturesInv, Registering, Owner, file_of, path_to_file
    <2>7. ASSUME NEW v \in Thread, v # r, Truncate(v) \/ Write(v)
          PROVE  files'[p] = files[p] /\ pc'[r] = pc[r]
      <3>1. Registering(v) /\ ~ Finished(v)
        BY <2>7 DEF Truncate, Write, Registering, Finished, Typed, KindAt
      <3>2. file_of(request[v]) # p
        <4> SUFFICES ASSUME file_of(request[v]) = p PROVE Overwrites(v, r)
          BY <2>2 DEF Unspoilt
        <4>1. v \notin earlier[r]
          BY <3>1 DEF LogInv
        <4>2. ASSUME r \in earlier[v] PROVE request[v].login # request[r].login
          <5>1. Finished(r)
            BY <4>2 DEF LogInv
          <5>2. Owner(r)
            BY <1>2, <2>1, <5>1, Lasting DEF Registering, Owner, Finished
          <5> QED BY <3>1, <4>2, <5>2 DEF PicturesInv
        <4> QED BY <2>7, <3>1, <4>1, <4>2 DEF Overwrites, Registering
      <3>3. files'[p] = files[p]
        BY <2>4, <2>7, <3>2 DEF Truncate, Write, Typed, TypeOK
      <3>4. pc'[r] = pc[r]
        BY <2>7 DEF Truncate, Write, Goto, Typed, TypeOK
      <3> QED BY <3>3, <3>4
    <2>8. CASE \E v \in Thread \ {r} : Truncate(v) \/ Write(v)
      <3>1. files'[p] = files[p] /\ pc'[r] = pc[r]
        BY <2>7, <2>8
      <3>2. Registering(r) \/ Owner(r)
        BY <2>3, <3>1 DEF CheckLogin, Truncate, Write, LockMutex, InsertUser
      <3> QED BY <2>1, <2>2, <3>1, <3>2 DEF PicturesInv, file_of, path_to_file
    <2> QED BY <2>5, <2>6, <2>8, FileWriters
  <1>3. ASSUME NEW t \in Thread, Delivered(t)' PROVE is_correct_auth(request[t])'
    <2>1. is_correct_auth(request[t])
      BY <1>3, NewDelivered DEF PicturesInv, ReadAvatar, Typed, KindAt
    <2> QED BY <1>3, <2>1, NewDelivered, UserGrows DEF is_correct_auth
  <1>4. ASSUME NEW t \in Thread, NEW r \in Thread, Delivered(t)', Owner(r)',
               request'[r].login = request'[t].login, Unspoilt(r)'
        PROVE  avatar'[t] = request'[r].img
    <2>1. request'[t] = request[t] /\ is_correct_auth(request[t])
      BY <1>4, NewDelivered DEF PicturesInv, ReadAvatar, Typed, KindAt
    <2>2. Owner(r) /\ request'[r] = request[r]
      <3>1. CASE InsertUser(r)
        BY <1>4, <2>1, <3>1 DEF InsertUser, UniqueViolated, is_correct_auth
      <3> QED BY <1>4, <3>1, NewOwner
    <2>3. Unspoilt(r)
      BY <1>4, <2>2, OverwritesStay DEF Owner
    <2>4. CASE Delivered(t) /\ avatar'[t] = avatar[t]
      BY <1>4, <2>1, <2>2, <2>3, <2>4 DEF PicturesInv
    <2>5. CASE ReadAvatar(t) /\ pc'[t] = "count"
      <3>1. avatar'[t] = files[FileOf[User[request[t].login].path]]
        BY <2>5 DEF ReadAvatar, Return, Goto, encode_file, Typed, TypeOK
      <3>2. User[request[r].login].path = path_to_file(request[r])
        BY <2>2 DEF AccountsInv
      <3>3. files[file_of(request[r])] = request[r].img
        BY <2>2, <2>3 DEF PicturesInv, Owner
      <3> QED BY <1>4, <2>1, <2>2, <3>1, <3>2, <3>3 DEF file_of
    <2> QED BY <1>4, <2>4, <2>5, NewDelivered
  <1>5. \A r : file_of(request[r])' = file_of(request'[r])
    BY DEF file_of, path_to_file
  <1> QED BY <1>1, <1>2, <1>3, <1>4, <1>5 DEF PicturesInv

-----------------------------------------------------------------------------
LEMMA InitIds == Init => IdsInv
  BY DEF Init, IdsInv

LEMMA LastIdGrows ==
  ASSUME Typed, [Next]_vars
  PROVE  last_id' \in Nat /\ last_id <= last_id'
  <1>1. last_id' = last_id \/ last_id' = last_id + 1
    BY ZenonT(30) DEF Next, Handle, Restart, Terminated, vars, disk, Receive, Received,
         Unreadable, Patterns, AuthFails, UnknownPattern, AuthPasses, ReadAvatar,
         CountTests, ReadTest, RowVanished, CheckLogin, Truncate, Write, LockMutex, Unlock,
         InsertUser, InsertUserThrows, FindRow, ResultThrows, UploadDone, InsertRow,
         UpdateRow, DeleteTests, InsertTest, AddRow
  <1> QED BY <1>1 DEF Typed, TypeOK

(* What the INSERTs add and the UPDATE changes. *)
LEMMA Additions ==
  ASSUME Typed, NEW v \in Thread, InsertRow(v) \/ InsertTest(v)
  PROVE  \/ UNCHANGED <<User_test, last_id>>
         \/ \E test : /\ test = IF InsertRow(v) THEN request[v].test
                                ELSE request[v].tests[counter[v] + 1]
                      /\ last_id' = last_id + 1
                      /\ User_test' = User_test \cup {Row(last_id + 1, request[v].login, test)}
  <1>1. CASE InsertRow(v)
    BY <1>1 DEF InsertRow, AddRow
  <1>2. CASE InsertTest(v) /\ ~ InsertRow(v)
    BY <1>2 DEF InsertTest, AddRow
  <1> QED BY <1>1, <1>2

LEMMA UpdatedRows ==
  ASSUME Typed, NEW v \in Thread, UpdateRow(v)
  PROVE  /\ \A row \in User_test' : \E was \in User_test :
              /\ row.id = was.id /\ row.id_user = was.id_user
              /\ row.id_pattern = was.id_pattern
              /\ row = was \/ (row = Row(was.id, was.id_user, request[v].test)
                               /\ was \in RowsFor(request[v].login, request[v].test.name))
         /\ \A was \in User_test : \E row \in User_test' :
              /\ row.id = was.id /\ row.id_user = was.id_user
              /\ row.id_pattern = was.id_pattern
              /\ row = was \/ (row = Row(was.id, was.id_user, request[v].test)
                               /\ was \in RowsFor(request[v].login, request[v].test.name))
  <1> DEFINE old == RowsFor(request[v].login, request[v].test.name)
  <1>1. User_test' = (User_test \ old)
                       \cup {Row(row.id, row.id_user, request[v].test) : row \in old}
    BY DEF UpdateRow, Updated
  <1>2. \A row \in old : row \in User_test /\ row.id_pattern = request[v].test.name
    BY DEF RowsFor, RowsOf
  <1> HIDE DEF old
  <1>3. ASSUME NEW row \in User_test'
        PROVE  \E was \in User_test :
                 /\ row.id = was.id /\ row.id_user = was.id_user
                 /\ row.id_pattern = was.id_pattern
                 /\ row = was \/ (row = Row(was.id, was.id_user, request[v].test)
                                  /\ was \in old)
    BY <1>1, <1>2, RowField
  <1>4. ASSUME NEW was \in User_test
        PROVE  \E row \in User_test' :
                 /\ row.id = was.id /\ row.id_user = was.id_user
                 /\ row.id_pattern = was.id_pattern
                 /\ row = was \/ (row = Row(was.id, was.id_user, request[v].test)
                                  /\ was \in old)
    <2>1. CASE was \in old
      BY <1>1, <1>2, <2>1, RowField
    <2>2. CASE was \notin old
      BY <1>1, <2>2
    <2> QED BY <2>1, <2>2
  <1> QED BY <1>3, <1>4 DEF old

LEMMA NextIds == Typed /\ IdsInv /\ [Next]_vars => IdsInv'
  <1> SUFFICES ASSUME Typed, IdsInv, [Next]_vars PROVE IdsInv'
    OBVIOUS
  <1> DEFINE Counted(U, n) == /\ \A row \in U : row.id > 0 /\ row.id <= n
                              /\ \A row, other \in U : row.id = other.id => row = other
  <1>0. last_id \in Nat /\ \A row \in User_test : row.id \in Nat
    BY DEF Typed, TypeOK
  <1>1. Counted(User_test', last_id')
    <2>1. CASE UNCHANGED User_test
      BY <1>0, <2>1, LastIdGrows DEF IdsInv
    <2>2. ASSUME NEW v \in Thread, InsertRow(v) \/ InsertTest(v) PROVE Counted(User_test', last_id')
      <3>1. CASE UNCHANGED <<User_test, last_id>>
        BY <3>1 DEF IdsInv
      <3>2. ASSUME NEW new, new.id = last_id + 1, last_id' = last_id + 1,
                   User_test' = User_test \cup {new}
            PROVE  Counted(User_test', last_id')
        BY <1>0, <3>2 DEF IdsInv
      <3> QED BY <2>2, <3>1, <3>2, Additions, RowField
    <2>3. ASSUME NEW v \in Thread, UpdateRow(v) PROVE Counted(User_test', last_id')
      <3>1. \A row \in User_test' : row.id > 0 /\ row.id <= last_id'
        BY <1>0, <2>3, UpdatedRows, LastIdGrows DEF IdsInv
      <3>2. ASSUME NEW row \in User_test', NEW other \in User_test', row.id = other.id
            PROVE  row = other
        <4> DEFINE old == RowsFor(request[v].login, request[v].test.name)
        <4>1. User_test' = (User_test \ old)
                             \cup {Row(was.id, was.id_user, request[v].test) : was \in old}
          BY <2>3 DEF UpdateRow, Updated
        <4>2. old \subseteq User_test
          BY DEF RowsFor, RowsOf
        <4> HIDE DEF old
        <4>3. \A was, is \in User_test : was.id = is.id => was = is
          BY DEF IdsInv
        <4>4. \A x \in User_test' :
                \/ x \in User_test \ old
                \/ \E was \in old : x = Row(was.id, was.id_user, request[v].test) /\ x.id = was.id
          BY <4>1, RowField
        <4> QED BY <3>2, <4>2, <4>3, <4>4
      <3> QED BY <3>1, <3>2
    <2>4. ASSUME NEW v \in Thread, DeleteTests(v) PROVE Counted(User_test', last_id')
      BY <1>0, <2>4, LastIdGrows DEF DeleteTests, IdsInv
    <2> QED BY <2>1, <2>2, <2>3, <2>4, Writers
  <1>2. ASSUME NEW t \in Thread PROVE cursor'[t] <= last_id'
    <2>1. cursor[t] <= last_id /\ cursor[t] \in Nat
      BY DEF IdsInv, Typed, TypeOK
    <2>2. cursor'[t] = cursor[t] \/ ReadTest(t) \/ RowVanished(t)
      <3>1. CASE Receive(t)
        BY <3>1, ReceiveFrame DEF reply
      <3>2. CASE Handle(t)
        BY ZenonT(30), <3>2 DEF Handle, reply, Unreadable, Patterns, AuthFails, UnknownPattern,
           AuthPasses, ReadAvatar, CountTests, CheckLogin, Truncate, Write, LockMutex, Unlock,
           InsertUser, InsertUserThrows, FindRow, ResultThrows, UploadDone, InsertRow,
           UpdateRow, DeleteTests, InsertTest
      <3>3. CASE ~ Receive(t) /\ ~ Handle(t)
        BY <3>3, OthersFrame
      <3> QED BY <3>1, <3>2, <3>3
    <2>3. CASE cursor'[t] = cursor[t]
      BY <1>0, <2>1, <2>3, LastIdGrows
    <2>4. CASE ReadTest(t)
      <3>1. PICK row \in User_test : cursor' = [cursor EXCEPT ![t] = row.id]
        BY <2>4 DEF ReadTest, RowsLeft, RowsOf
      <3>2. cursor'[t] = row.id
        BY <3>1 DEF Typed, TypeOK
      <3> QED BY <1>0, <3>2, LastIdGrows DEF IdsInv
    <2>5. CASE RowVanished(t)
      <3>1. cursor'[t] = 0
        BY <2>5 DEF RowVanished, Forget, Typed, TypeOK
      <3> QED BY <3>1, LastIdGrows
    <2> QED BY <2>2, <2>3, <2>4, <2>5
  <1> QED BY <1>1, <1>2 DEF IdsInv

-----------------------------------------------------------------------------
(* A user has as many rows as row ids. *)
LEMMA IdsCounted ==
  ASSUME Finite, IdsInv, NEW l
  PROVE  /\ IsFiniteSet(RowsOf(l)) /\ IsFiniteSet(Ids(l))
         /\ Cardinality(Ids(l)) = Cardinality(RowsOf(l))
  <1> DEFINE f == [row \in RowsOf(l) |-> row.id]
  <1>1. IsFiniteSet(RowsOf(l))
    BY FS_Subset DEF RowsOf, Finite
  <1>2. f \in Bijection(RowsOf(l), Ids(l))
    <2>1. f \in [RowsOf(l) -> Ids(l)]
      BY DEF Ids
    <2>2. \A row, other \in RowsOf(l) : f[row] = f[other] => row = other
      BY DEF RowsOf, IdsInv
    <2>3. \A i \in Ids(l) : \E row \in RowsOf(l) : f[row] = i
      BY DEF Ids
    <2> HIDE DEF f
    <2>4. f \in Injection(RowsOf(l), Ids(l))
      BY <2>1, <2>2 DEF Injection, IsInjective
    <2>5. f \in Surjection(RowsOf(l), Ids(l))
      BY <2>1, <2>3 DEF Surjection
    <2> QED BY <2>4, <2>5 DEF Bijection
  <1>3. ExistsBijection(RowsOf(l), Ids(l))
    BY <1>2 DEF ExistsBijection
  <1> QED BY <1>1, <1>3, FS_Bijection

(* Only statements of requests with login l change the rows of l, and the   *)
(* UPDATE keeps their ids.                                                  *)
LEMMA RowsEffect ==
  ASSUME Typed, [Next]_vars, NEW l
  PROVE  \/ RowsOf(l)' = RowsOf(l)
         \/ \E v \in Thread : /\ request[v].login = l
                              /\ InsertRow(v) \/ UpdateRow(v) \/ DeleteTests(v) \/ InsertTest(v)
  <1>1. CASE UNCHANGED User_test
    BY <1>1 DEF RowsOf
  <1>2. ASSUME NEW v \in Thread, InsertRow(v) \/ InsertTest(v), request[v].login # l
        PROVE  RowsOf(l)' = RowsOf(l)
    BY <1>2, Additions, RowField DEF RowsOf
  <1>3. ASSUME NEW v \in Thread, DeleteTests(v), request[v].login # l
        PROVE  RowsOf(l)' = RowsOf(l)
    BY <1>3 DEF DeleteTests, Deleted, RowsOf
  <1>4. ASSUME NEW v \in Thread, UpdateRow(v), request[v].login # l
        PROVE  RowsOf(l)' = RowsOf(l)
    <2>1. \A row \in Updated(request[v]) : row \in User_test /\ row.id_user # l
      BY <1>4 DEF Updated, RowsFor, RowsOf
    <2>2. User_test' = (User_test \ Updated(request[v])) \cup
                         {Row(row.id, row.id_user, request[v].test) : row \in Updated(request[v])}
      BY <1>4 DEF UpdateRow
    <2> QED BY <2>1, <2>2, RowField DEF RowsOf
  <1> QED BY <1>1, <1>2, <1>3, <1>4, Writers

LEMMA IdsEffect ==
  ASSUME Typed, [Next]_vars, NEW l
  PROVE  \/ Ids(l)' = Ids(l)
         \/ Ids(l)' = Ids(l) \cup {last_id + 1}
         \/ \E v \in Thread : DeleteTests(v) /\ request[v].login = l
  <1>1. CASE RowsOf(l)' = RowsOf(l)
    BY <1>1 DEF Ids
  <1>2. ASSUME NEW v \in Thread, InsertRow(v) \/ InsertTest(v), request[v].login = l
        PROVE  Ids(l)' = Ids(l) \/ Ids(l)' = Ids(l) \cup {last_id + 1}
    BY <1>2, Additions, RowField DEF Ids, RowsOf
  <1>3. ASSUME NEW v \in Thread, UpdateRow(v) PROVE Ids(l)' = Ids(l)
    <2>1. \A row \in RowsOf(l)' : \E was \in RowsOf(l) : row.id = was.id
      BY <1>3, UpdatedRows DEF RowsOf
    <2>2. \A was \in RowsOf(l) : \E row \in RowsOf(l)' : row.id = was.id
      BY <1>3, UpdatedRows DEF RowsOf
    <2> QED BY <2>1, <2>2 DEF Ids
  <1> QED BY <1>1, <1>2, <1>3, RowsEffect

(* Where an authorization that reads rows comes from. *)
LEMMA NewReader ==
  ASSUME Typed, [Next]_vars, NEW t \in Thread, pc'[t] = "row"
  PROVE  /\ request'[t] = request[t] /\ pc[t] # "idle"
         /\ request[t].kind = "authorization"
         /\ \/ CountTests(t) \/ ReadTest(t)
            \/ /\ pc[t] = "row" /\ counter'[t] = counter[t]
               /\ cursor'[t] = cursor[t] /\ tests'[t] = tests[t]
  <1>1. CASE Receive(t)
    BY <1>1, ReceiveFrame
  <1>2. CASE ~ Receive(t) /\ ~ Handle(t)
    BY <1>2, OthersFrame DEF Typed, KindAt
  <1>3. CASE Handle(t)
    <2> USE DEF Typed, TypeOK
    <2>1. CountTests(t) \/ ReadTest(t)
      BY <1>3 DEF Handle, Unreadable, Patterns, AuthFails, UnknownPattern, AuthPasses,
        ReadAvatar, RowVanished, CheckLogin, Truncate, Write, LockMutex, Unlock, InsertUser,
        InsertUserThrows, FindRow, InsertRow, UpdateRow, ResultThrows, DeleteTests,
        InsertTest, UploadDone, Goto, Return
    <2> QED BY <2>1 DEF CountTests, ReadTest, KindAt
  <1> QED BY <1>1, <1>2, <1>3

(* The row that ReadTest reads is the next one. *)
LEMMA ReadStep ==
  ASSUME Typed, Finite, IdsInv, NEW t \in Thread, ReadTest(t)
  PROVE  \E row \in RowsOf(request[t].login) :
           /\ cursor'[t] = row.id /\ tests'[t] = Append(tests[t], AsTest(row))
           /\ Len(tests'[t]) = Len(tests[t]) + 1
           /\ Elements(tests'[t]) = Elements(tests[t]) \cup {AsTest(row)}
           /\ {other \in RowsOf(request[t].login) : other.id <= row.id}
                = {other \in RowsOf(request[t].login) : other.id <= cursor[t]} \cup {row}
           /\ Seen(t)' = Seen(t) \cup {row.id} /\ row.id \notin Seen(t)
           /\ Cardinality(Seen(t)') = Cardinality(Seen(t)) + 1
  <1> DEFINE login == request[t].login
  <1>1. PICK row \in RowsLeft(t) :
          /\ \A other \in RowsLeft(t) : row.id <= other.id
          /\ cursor' = [cursor EXCEPT ![t] = row.id]
          /\ tests' = [tests EXCEPT ![t] = Append(@, AsTest(row))]
    BY DEF ReadTest
  <1>2. UNCHANGED <<request, User_test>>
    BY DEF ReadTest, disk
  <1>3. row \in RowsOf(login) /\ row.id > cursor[t]
    BY <1>1 DEF RowsLeft
  <1>4. cursor[t] \in Nat /\ \A other \in RowsOf(login) : other \in User_test /\ other.id \in Nat
    BY DEF Typed, TypeOK, RowsOf
  <1>5. cursor'[t] = row.id /\ tests'[t] = Append(tests[t], AsTest(row))
    BY <1>1 DEF Typed, TypeOK
  <1>6. /\ Len(tests'[t]) = Len(tests[t]) + 1
        /\ Elements(tests'[t]) = Elements(tests[t]) \cup {AsTest(row)}
    <2> DEFINE S == [name : Pattern, result : Result]
    <2>1. tests[t] \in Seq(S) /\ AsTest(row) \in S
      BY <1>3, <1>4 DEF Typed, TypeOK, AsTest
    <2> HIDE DEF S
    <2>2. /\ Len(tests'[t]) = Len(tests[t]) + 1 /\ Len(tests[t]) \in Nat
          /\ \A i \in 1..Len(tests[t]) : tests'[t][i] = tests[t][i]
          /\ tests'[t][Len(tests[t]) + 1] = AsTest(row)
          /\ DOMAIN tests'[t] = 1..(Len(tests[t]) + 1) /\ DOMAIN tests[t] = 1..Len(tests[t])
      BY <1>5, <2>1
    <2>3. 1..(Len(tests[t]) + 1) = 1..Len(tests[t]) \cup {Len(tests[t]) + 1}
      BY <2>2
    <2> QED BY <2>2, <2>3 DEF Elements
  <1>7. \A other \in RowsOf(login) : other.id <= row.id <=> other.id <= cursor[t] \/ other = row
    <2> SUFFICES ASSUME NEW other \in RowsOf(login)
                 PROVE  other.id <= row.id <=> other.id <= cursor[t] \/ other = row
      OBVIOUS
    <2>1. other.id > cursor[t] => row.id <= other.id
      BY <1>1 DEF RowsLeft
    <2>2. other.id = row.id => other = row
      BY <1>3, <1>4 DEF IdsInv
    <2> QED BY <1>3, <1>4, <2>1, <2>2
  <1>8. Seen(t)' = Seen(t) \cup {row.id} /\ row.id \notin Seen(t)
    <2>1. Seen(t)' = {i \in Ids(login) : i <= row.id}
      BY <1>2, <1>5 DEF Seen, Ids, RowsOf
    <2>2. \A i \in Ids(login) : i <= row.id <=> i <= cursor[t] \/ i = row.id
      BY <1>3, <1>4, <1>7 DEF Ids
    <2>3. row.id \in Ids(login) /\ ~ (row.id <= cursor[t])
      BY <1>3, <1>4 DEF Ids
    <2> QED BY <2>1, <2>2, <2>3 DEF Seen
  <1>9. Cardinality(Seen(t)') = Cardinality(Seen(t)) + 1
    <2>1. IsFiniteSet(Seen(t))
      BY IdsCounted, FS_Subset DEF Seen
    <2> QED BY <1>8, <2>1, FS_AddElement
  <1> QED BY <1>3, <1>5, <1>6, <1>7, <1>8, <1>9

(* Who writes the results of a user while t reads them is a rival of t.     *)
LEMMA WritersAreRivals ==
  ASSUME Typed, LogInv, NEW t \in Thread, ~ Finished(t),
         NEW v \in Thread, v # t, request[v].login = request[t].login,
         InsertRow(v) \/ UpdateRow(v) \/ DeleteTests(v) \/ InsertTest(v)
  PROVE  /\ ~ NoRival(t, {"result", "set_all_result"})
         /\ ~ NoRival(t, {"set_all_result", "result"})
         /\ DeleteTests(v) => ~ NoRival(t, {"set_all_result"})
  <1>1. /\ ~ Finished(v) /\ request[v].kind \in {"result", "set_all_result"}
        /\ DeleteTests(v) => request[v].kind = "set_all_result"
    BY DEF InsertRow, UpdateRow, DeleteTests, InsertTest, Finished, Typed, KindAt
  <1> QED BY <1>1, ActiveRivals DEF NoRival

LEMMA NextRead ==
  Typed /\ Finite /\ LogInv /\ IdsInv /\ ReadInv /\ [Next]_vars => ReadInv'
  <1> SUFFICES ASSUME Typed, Finite, LogInv, IdsInv, ReadInv, [Next]_vars,
                      NEW t \in Thread, pc'[t] = "row", NoRival(t, {"set_all_result"})'
               PROVE  /\ Len(tests'[t]) = Cardinality(Seen(t)')
                      /\ Len(tests'[t]) < counter'[t]
                      /\ counter'[t] <= Cardinality(Ids(request[t].login)')
    BY DEF ReadInv
  <1>0. PICK login : login = request[t].login
    OBVIOUS
  <1> USE <1>0
  <1>1. NoRival(t, {"set_all_result"}) /\ request'[t] = request[t]
    BY NewReader, RivalsStay
  <1>2. /\ IsFiniteSet(Ids(login)) /\ Cardinality(Ids(login)) \in Nat
        /\ Cardinality(Ids(login)) = Cardinality(RowsOf(login))
    BY IdsCounted, FS_CardinalityType
  <1>3. /\ counter[t] \in Nat /\ cursor[t] \in Nat /\ last_id \in Nat
        /\ cursor[t] <= last_id /\ Len(tests[t]) \in Nat
        /\ \A row \in User_test : row.id \in Nat
    BY DEF Typed, TypeOK, IdsInv
  <1>4. CASE CountTests(t)
    <2>1. /\ counter'[t] = Cardinality(RowsOf(login)) /\ counter'[t] # 0
          /\ UNCHANGED <<User_test, request, cursor, tests>> /\ pc[t] = "count"
      BY <1>4 DEF CountTests, count_test, Return, Goto, disk, Typed, TypeOK
    <2>2. cursor[t] = 0 /\ tests[t] = <<>>
      BY <2>1 DEF LogInv
    <2>3. Seen(t) = {}
      BY <1>3, <2>2 DEF Seen, Ids, RowsOf, IdsInv
    <2>4. Seen(t)' = {} /\ Ids(login)' = Ids(login)
      BY <2>1, <2>3 DEF Seen, Ids, RowsOf
    <2>5. Cardinality(Seen(t)') = 0 /\ Len(tests'[t]) = 0
      BY <2>1, <2>2, <2>4, FS_EmptySet
    <2> QED BY <1>1, <1>2, <2>1, <2>4, <2>5
  <1>5. CASE ReadTest(t)
    <2>1. /\ Len(tests'[t]) = Len(tests[t]) + 1
          /\ Cardinality(Seen(t)') = Cardinality(Seen(t)) + 1
      BY <1>5, ReadStep
    <2>2. /\ pc[t] = "row" /\ counter' = counter /\ Len(tests[t]) + 1 # counter[t]
          /\ UNCHANGED <<User_test, request>>
      BY <1>5 DEF ReadTest, Return, Goto, disk, Typed, TypeOK
    <2>3. Ids(login)' = Ids(login)
      BY <2>2 DEF Ids, RowsOf
    <2> QED BY <1>1, <1>2, <1>3, <2>1, <2>2, <2>3 DEF ReadInv
  <1>6. CASE ~ CountTests(t) /\ ~ ReadTest(t)
    <2>1. /\ pc[t] = "row" /\ counter'[t] = counter[t]
          /\ cursor'[t] = cursor[t] /\ tests'[t] = tests[t]
      BY <1>6, NewReader
    <2>2. /\ Len(tests[t]) = Cardinality(Seen(t)) /\ Len(tests[t]) < counter[t]
          /\ counter[t] <= Cardinality(Ids(login))
      BY <1>1, <2>1 DEF ReadInv
    <2>3. ~ \E v \in Thread : DeleteTests(v) /\ request[v].login = login
      <3> SUFFICES ASSUME NEW v \in Thread, DeleteTests(v), request[v].login = login
                   PROVE  FALSE
        OBVIOUS
      <3>1. v # t
        BY <2>1 DEF DeleteTests
      <3> QED BY <1>1, <2>1, <3>1, WritersAreRivals DEF Finished
    <2>4. Ids(login)' = Ids(login) \/ Ids(login)' = Ids(login) \cup {last_id + 1}
      BY <2>3, IdsEffect
    <2>5. Cardinality(Ids(login)) <= Cardinality(Ids(login)')
      <3>1. Cardinality(Ids(login) \cup {last_id + 1})
              \in {Cardinality(Ids(login)), Cardinality(Ids(login)) + 1}
        BY <1>2, FS_AddElement
      <3>2. Cardinality(Ids(login)') \in {Cardinality(Ids(login)), Cardinality(Ids(login)) + 1}
        BY <2>4, <3>1
      <3> QED BY <1>2, <3>2
    <2>6. Seen(t)' = {i \in Ids(login)' : i <= cursor[t]}
      BY <1>1, <2>1 DEF Seen, Ids, RowsOf
    <2>7. Seen(t)' = Seen(t)
      BY <1>3, <2>4, <2>6 DEF Seen
    <2>8. Cardinality(Ids(login)') \in Nat
      BY <1>2, <2>4, FS_AddElement
    <2> QED BY <1>1, <1>2, <1>3, <2>1, <2>2, <2>5, <2>7, <2>8
  <1> QED BY <1>4, <1>5, <1>6

LEMMA NextReadExact ==
  Typed /\ Finite /\ LogInv /\ IdsInv /\ ReadExactInv /\ [Next]_vars => ReadExactInv'
  <1> DEFINE Upto(l, n) == {row \in RowsOf(l) : row.id <= n}
  <1> SUFFICES ASSUME Typed, Finite, LogInv, IdsInv, ReadExactInv, [Next]_vars,
                      NEW t \in Thread, pc'[t] = "row",
                      NoRival(t, {"result", "set_all_result"})'
               PROVE  /\ counter'[t] = Cardinality(Ids(request[t].login)')
                      /\ Elements(tests'[t]) = {AsTest(row) : row \in Upto(request[t].login, cursor[t])'}
    BY DEF ReadExactInv
  <1>0. PICK login : login = request[t].login
    OBVIOUS
  <1> USE <1>0
  <1>1. NoRival(t, {"result", "set_all_result"}) /\ request'[t] = request[t]
    BY NewReader, RivalsStay
  <1>2. Cardinality(Ids(login)) = Cardinality(RowsOf(login))
    BY IdsCounted
  <1>3. CASE CountTests(t)
    <2>1. /\ counter'[t] = Cardinality(RowsOf(login))
          /\ UNCHANGED <<User_test, request, cursor, tests>> /\ pc[t] = "count"
      BY <1>3 DEF CountTests, count_test, Return, Goto, disk, Typed, TypeOK
    <2>2. cursor[t] = 0 /\ tests[t] = <<>>
      BY <2>1 DEF LogInv
    <2>3. \A row \in RowsOf(login) : ~ (row.id <= 0)
      BY DEF IdsInv, RowsOf, Typed, TypeOK
    <2>4. Upto(login, cursor[t])' = {}
      BY <1>1, <2>1, <2>2, <2>3 DEF RowsOf
    <2>5. Elements(tests'[t]) = {}
      BY <2>1, <2>2 DEF Elements
    <2>6. Ids(login)' = Ids(login)
      BY <2>1 DEF Ids, RowsOf
    <2> QED BY <1>2, <2>1, <2>4, <2>5, <2>6
  <1>4. CASE ReadTest(t)
    <2>1. PICK row \in RowsOf(login) :
            /\ cursor'[t] = row.id
            /\ Elements(tests'[t]) = Elements(tests[t]) \cup {AsTest(row)}
            /\ Upto(login, row.id) = Upto(login, cursor[t]) \cup {row}
      BY <1>4, ReadStep
    <2>2. pc[t] = "row" /\ counter' = counter /\ UNCHANGED <<User_test, request>>
      BY <1>4 DEF ReadTest, disk
    <2>3. Ids(login)' = Ids(login) /\ Upto(login, cursor[t])' = Upto(login, row.id)
      BY <2>1, <2>2 DEF Ids, RowsOf
    <2>4. /\ counter[t] = Cardinality(Ids(login))
          /\ Elements(tests[t]) = {AsTest(other) : other \in Upto(login, cursor[t])}
      BY <1>1, <2>2 DEF ReadExactInv
    <2> QED BY <2>1, <2>2, <2>3, <2>4
  <1>5. CASE ~ CountTests(t) /\ ~ ReadTest(t)
    <2>1. /\ pc[t] = "row" /\ counter'[t] = counter[t]
          /\ cursor'[t] = cursor[t] /\ tests'[t] = tests[t]
      BY <1>5, NewReader
    <2>2. RowsOf(login)' = RowsOf(login)
      <3> SUFFICES ASSUME NEW v \in Thread, request[v].login = login,
                          InsertRow(v) \/ UpdateRow(v) \/ DeleteTests(v) \/ InsertTest(v)
                   PROVE  FALSE
        BY RowsEffect
      <3>1. v # t
        BY <2>1 DEF InsertRow, UpdateRow, DeleteTests, InsertTest
      <3> QED BY <1>1, <2>1, <3>1, WritersAreRivals DEF Finished
    <2>3. Ids(login)' = Ids(login) /\ Upto(login, cursor[t])' = Upto(login, cursor[t])
      BY <1>1, <2>1, <2>2 DEF Ids
    <2> QED BY <1>1, <2>1, <2>3 DEF ReadExactInv
  <1> QED BY <1>3, <1>4, <1>5

-----------------------------------------------------------------------------
(* The statements that refuse a request. *)
Refuses(t) == \/ Unreadable(t) \/ Patterns(t) \/ AuthFails(t) \/ UnknownPattern(t)
              \/ ReadAvatar(t) \/ RowVanished(t) \/ CheckLogin(t) \/ InsertUserThrows(t)
              \/ ResultThrows(t) \/ InsertTest(t)

LEMMA NewRefusal ==
  ASSUME Typed, [Next]_vars, NEW t \in Thread, pc'[t] = "done", answer'[t] = "uncorrect"
  PROVE  /\ request'[t] = request[t] /\ pc[t] # "idle"
         /\ \/ pc[t] = "done" /\ answer[t] = "uncorrect"
            \/ Refuses(t)
  <1>1. CASE Receive(t)
    BY <1>1, ReceiveFrame
  <1>2. CASE ~ Receive(t) /\ ~ Handle(t)
    BY <1>2, OthersFrame
  <1>3. CASE Handle(t)
    <2> USE DEF Typed, TypeOK
    <2>1. Refuses(t)
      <3>1. ~ AuthPasses(t) /\ ~ CountTests(t) /\ ~ ReadTest(t) /\ ~ Truncate(t) /\ ~ Write(t)
        BY DEF AuthPasses, CountTests, ReadTest, Truncate, Write, Return, Goto
      <3>2. ~ LockMutex(t) /\ ~ Unlock(t) /\ ~ InsertUser(t) /\ ~ FindRow(t)
        BY DEF LockMutex, Unlock, InsertUser, FindRow, Return, Goto
      <3>3. ~ InsertRow(t) /\ ~ UpdateRow(t) /\ ~ DeleteTests(t) /\ ~ UploadDone(t)
        BY DEF InsertRow, UpdateRow, DeleteTests, UploadDone, Return, Goto
      <3> QED BY <1>3, <3>1, <3>2, <3>3 DEF Handle, Refuses
    <2> QED BY <1>3, <2>1, HandlerFrame
  <1> QED BY <1>1, <1>2, <1>3

(* Who had an account when he sent his request is let in. *)
LEMMA HadAccountSuffices ==
  ASSUME Typed, OwnerInv, AccountsInv, NEW t \in Thread, HadAccount(t)
  PROVE  is_correct_auth(request[t])
  <1>1. CASE /\ request[t].login \in DOMAIN InitialUser
             /\ InitialUser[request[t].login].password = request[t].password
    BY <1>1 DEF AccountsInv, is_correct_auth
  <1>2. CASE \E r \in earlier[t] : /\ Answered(r, "registration", "correct")
                                   /\ request[r].login = request[t].login
                                   /\ request[r].password = request[t].password
    <2>1. PICK r \in Thread : /\ Owner(r) /\ request[r].login = request[t].login
                              /\ request[r].password = request[t].password
      BY <1>2 DEF Typed, TypeOK, Answered, Owner
    <2> QED BY <2>1 DEF OwnerInv, is_correct_auth
  <1> QED BY <1>1, <1>2 DEF HadAccount

LEMMA HadAccountBefore ==
  ASSUME Typed, LogInv, [Next]_vars, NEW t \in Thread, pc[t] # "idle", HadAccount(t)'
  PROVE  HadAccount(t)
  <1>1. request'[t] = request[t] /\ earlier'[t] = earlier[t]
    BY Lasting
  <1>2. \A r \in earlier[t] : /\ pc'[r] = pc[r] /\ answer'[r] = answer[r]
                              /\ request'[r] = request[r]
    BY Lasting DEF LogInv, Typed, TypeOK
  <1> QED BY <1>1, <1>2 DEF HadAccount, Answered

LEMMA NextRefusals ==
  /\ Typed /\ Finite /\ OwnerInv /\ LogInv /\ AccountsInv /\ FilesInv /\ IdsInv /\ ReadInv
  /\ RefusalsJustified /\ [Next]_vars
  => RefusalsJustified'
  <1> SUFFICES ASSUME Typed, Finite, OwnerInv, LogInv, AccountsInv, FilesInv, IdsInv, ReadInv,
                      RefusalsJustified, [Next]_vars,
                      NEW t \in Thread, pc'[t] = "done", answer'[t] = "uncorrect"
               PROVE  /\ request'[t].kind = "registration" =>
                           \E l \in DOMAIN User' : \/ l = request'[t].login
                                                   \/ User'[l].password = request'[t].password
                      /\ request'[t].kind = "result" /\ HadAccount(t)' =>
                           \/ request'[t].test.name \notin Pattern
                           \/ request'[t].test.result \in Malformed
                      /\ request'[t].kind = "authorization" /\ HadAccount(t)' =>
                           \E u \in Thread : Rival(t, u, {"set_all_result"})'
    BY DEF RefusalsJustified, Answered
  <1>1. /\ request'[t] = request[t] /\ pc[t] # "idle"
        /\ (pc[t] = "done" /\ answer[t] = "uncorrect") \/ Refuses(t)
    BY NewRefusal
  <1>2. HadAccount(t)' => HadAccount(t)
    BY <1>1, HadAccountBefore
  <1>3. NoRival(t, {"set_all_result"})' => NoRival(t, {"set_all_result"})
    BY <1>1, RivalsStay
  <1>4. ASSUME request[t].kind = "registration"
        PROVE  \E l \in DOMAIN User' : \/ l = request[t].login
                                       \/ User'[l].password = request[t].password
    <2>1. \E l \in DOMAIN User : \/ l = request[t].login
                                 \/ User[l].password = request[t].password
      <3>1. CASE pc[t] = "done" /\ answer[t] = "uncorrect"
        BY <1>4, <3>1 DEF RefusalsJustified, Answered
      <3>2. CASE CheckLogin(t)
        BY <3>2 DEF CheckLogin, LoginFree, Goto, Typed, TypeOK
      <3>3. CASE InsertUserThrows(t)
        BY <3>3 DEF InsertUserThrows, UniqueViolated, AccountsInv, path_to_file
      <3>4. Refuses(t) => CheckLogin(t) \/ InsertUserThrows(t)
        BY <1>4 DEF Refuses, Unreadable, Patterns, AuthFails, UnknownPattern, ReadAvatar,
                    RowVanished, ResultThrows, InsertTest, Typed, KindAt
      <3> QED BY <1>1, <3>1, <3>2, <3>3, <3>4
    <2> QED BY <2>1, UserGrows
  <1>5. ASSUME request[t].kind = "result", HadAccount(t)
        PROVE  request[t].test.name \notin Pattern \/ request[t].test.result \in Malformed
    <2>1. CASE pc[t] = "done" /\ answer[t] = "uncorrect"
      BY <1>5, <2>1 DEF RefusalsJustified, Answered
    <2>2. ~ AuthFails(t)
      BY <1>5, HadAccountSuffices DEF AuthFails
    <2>3. Refuses(t) => UnknownPattern(t) \/ ResultThrows(t)
      BY <1>5, <2>2 DEF Refuses, Unreadable, Patterns, CheckLogin, InsertUserThrows,
                        ReadAvatar, RowVanished, InsertTest, Typed, KindAt
    <2>4. ResultThrows(t) => request[t].test.result \in Malformed
      BY RequestFields DEF ResultThrows, IsNumber, Test, Typed, KindAt
    <2> QED BY <1>1, <2>1, <2>3, <2>4 DEF UnknownPattern
  <1>6. ASSUME request[t].kind = "authorization", HadAccount(t), NoRival(t, {"set_all_result"})
        PROVE  FALSE
    <2>1. ~ (pc[t] = "done" /\ answer[t] = "uncorrect")
      BY <1>6 DEF RefusalsJustified, Answered, NoRival
    <2>2. ~ AuthFails(t)
      BY <1>6, HadAccountSuffices DEF AuthFails
    <2>3. ~ ReadAvatar(t)
      <3> SUFFICES ASSUME ReadAvatar(t) PROVE FALSE
        OBVIOUS
      <3>1. files[FileOf[User[request[t].login].path]] = "absent"
        BY DEF ReadAvatar, encode_file, Goto, Typed, TypeOK
      <3>2. request[t].login \in DOMAIN User
        BY <1>6, HadAccountSuffices DEF is_correct_auth
      <3> QED BY <3>1, <3>2 DEF FilesInv
    <2>4. ~ RowVanished(t)
      <3> SUFFICES ASSUME RowVanished(t) PROVE FALSE
        OBVIOUS
      <3>1. pc[t] = "row" /\ RowsLeft(t) = {}
        BY DEF RowVanished
      <3>2. \A row \in RowsOf(request[t].login) : row.id <= cursor[t]
        BY <3>1 DEF RowsLeft, RowsOf, Typed, TypeOK
      <3>3. Seen(t) = Ids(request[t].login)
        BY <3>2 DEF Seen, Ids
      <3>4. Cardinality(Seen(t)) < counter[t] /\ counter[t] <= Cardinality(Seen(t))
        BY <1>6, <3>1, <3>3 DEF ReadInv
      <3>5. Cardinality(Seen(t)) \in Nat /\ counter[t] \in Nat
        BY <3>3, IdsCounted, FS_CardinalityType DEF Typed, TypeOK
      <3> QED BY <3>4, <3>5
    <2>5. ~ Refuses(t)
      BY <1>6, <2>2, <2>3, <2>4 DEF Refuses, Unreadable, Patterns, UnknownPattern, CheckLogin,
                                    InsertUserThrows, ResultThrows, InsertTest, Typed, KindAt
    <2> QED BY <1>1, <2>1, <2>5
  <1> QED BY <1>1, <1>2, <1>3, <1>4, <1>5, <1>6 DEF NoRival

-----------------------------------------------------------------------------
HistoryInv == /\ OwnerInv /\ LogInv /\ AccountsInv /\ FilesInv /\ PicturesInv
              /\ IdsInv /\ ReadInv /\ ReadExactInv /\ RefusalsJustified

LEMMA AlwaysHistory == Safety => []HistoryInv
  <1>1. Init => HistoryInv
    <2> SUFFICES ASSUME Init PROVE HistoryInv
      OBVIOUS
    <2>1. \A t \in Thread : pc[t] = "idle" /\ request[t] = NoRequest
      BY DEF Init
    <2>2. OwnerInv /\ PicturesInv
      BY <2>1 DEF OwnerInv, Owner, PicturesInv, Registering, Delivered
    <2>3. ReadInv /\ ReadExactInv /\ RefusalsJustified
      BY <2>1 DEF ReadInv, ReadExactInv, RefusalsJustified, Answered
    <2> QED BY <2>2, <2>3, InitLog, InitAccounts, InitIds DEF HistoryInv
  <1>2. TypedInv /\ HistoryInv /\ [Next]_vars => HistoryInv'
    <2> SUFFICES ASSUME TypedInv, HistoryInv, [Next]_vars PROVE HistoryInv'
      OBVIOUS
    <2> USE DEF TypedInv, HistoryInv
    <2>1. OwnerInv' /\ LogInv' /\ AccountsInv' /\ FilesInv'
      BY NextOwner, NextLog, NextAccounts, NextFiles
    <2>2. PicturesInv' /\ IdsInv' /\ ReadInv'
      BY NextPictures, NextIds, NextRead
    <2>3. ReadExactInv' /\ RefusalsJustified'
      BY NextReadExact, NextRefusals
    <2> QED BY <2>1, <2>2, <2>3
  <1> QED BY <1>1, <1>2, AlwaysTyped, PTL DEF Spec, Safety

(* Whoever registered is delivered, by every authorization with his login   *)
(* that is answered "correct", the picture he registered, unless another    *)
(* registration writes the same file: one of his own login that overlaps    *)
(* his, or one of a login that differs in case and was not over before.     *)
THEOREM PictureStaysIntact == Spec => []AvatarIntact
  <1>1. HistoryInv => AvatarIntact
    <2> SUFFICES ASSUME HistoryInv, NEW r \in Thread, NEW t \in Thread,
                        Answered(r, "registration", "correct"),
                        Unspoilt(r),
                        Answered(t, "authorization", "correct"),
                        request[t].login = request[r].login
                 PROVE  avatar[t] = request[r].img
      BY DEF AvatarIntact, Unspoilt
    <2>1. Owner(r) /\ Delivered(t)
      BY DEF Owner, Delivered, Answered
    <2> QED BY <2>1 DEF HistoryInv, PicturesInv
  <1> QED BY <1>1, AlwaysHistory, PTL DEF Spec, Safety

(* Every refusal has a reason in the tables or in the user's own uploads.   *)
THEOREM RefusalsAlwaysJustified == Spec => []RefusalsJustified
  <1>1. HistoryInv => RefusalsJustified
    BY DEF HistoryInv
  <1> QED BY <1>1, AlwaysHistory, PTL DEF Spec, Safety

(* An authorization that nobody disturbs ends with all rows of its user.    *)
LEMMA ExactStep ==
  ASSUME TypedInv, HistoryInv, [Next]_vars,
         NEW t \in Thread, Returns(t), Answered(t, "authorization", "correct")',
         NoRival(t, {"result", "set_all_result"})
  PROVE  /\ Elements(tests'[t]) = {AsTest(row) : row \in RowsOf(request[t].login)}
         /\ Len(tests'[t]) = Cardinality(RowsOf(request[t].login))
  <1> DEFINE login == request[t].login
  <1> USE DEF TypedInv, HistoryInv
  <1>1. CountTests(t) \/ ReadTest(t)
    <2>1. /\ pc[t] # "done" /\ pc'[t] = "done" /\ answer'[t] = "correct"
          /\ request'[t].kind = "authorization"
      BY DEF Returns, Answered
    <2>2. Handle(t) /\ request' = request
      BY <2>1, ReceiveFrame, OthersFrame, HandlerFrame
    <2>3. ~ RowVanished(t) /\ ~ ReadAvatar(t) /\ ~ AuthFails(t)
      BY <2>1 DEF RowVanished, ReadAvatar, AuthFails, Return, Goto, Typed, TypeOK
    <2> QED BY <2>1, <2>2, <2>3 DEF Handle, Unreadable, Patterns, UnknownPattern, AuthPasses,
          CheckLogin, Truncate, Write, LockMutex, Unlock, InsertUser, InsertUserThrows,
          FindRow, InsertRow, UpdateRow, ResultThrows, DeleteTests, InsertTest, UploadDone,
          Goto, Typed, TypeOK, KindAt
  <1>2. CASE CountTests(t)
    <2>1. Cardinality(RowsOf(login)) = 0 /\ pc[t] = "count" /\ tests' = tests
      BY <1>2 DEF CountTests, count_test, Goto, Typed, TypeOK, Returns
    <2>2. RowsOf(login) = {} /\ tests[t] = <<>>
      BY <2>1, IdsCounted, FS_EmptySet DEF LogInv
    <2> QED BY <2>1, <2>2 DEF Elements
  <1>3. CASE ReadTest(t)
    <2>1. PICK row \in RowsOf(login) :
            /\ Len(tests'[t]) = Len(tests[t]) + 1
            /\ Elements(tests'[t]) = Elements(tests[t]) \cup {AsTest(row)}
            /\ {other \in RowsOf(login) : other.id <= row.id}
                 = {other \in RowsOf(login) : other.id <= cursor[t]} \cup {row}
            /\ Seen(t)' = Seen(t) \cup {row.id}
            /\ Cardinality(Seen(t)') = Cardinality(Seen(t)) + 1
      BY <1>3, ReadStep
    <2>2. pc[t] = "row" /\ Len(tests[t]) + 1 = counter[t]
      BY <1>3 DEF ReadTest, Returns
    <2>3. /\ Len(tests[t]) = Cardinality(Seen(t)) /\ counter[t] = Cardinality(Ids(login))
          /\ Elements(tests[t]) = {AsTest(other) : other \in
                                     {other \in RowsOf(login) : other.id <= cursor[t]}}
      <3>1. NoRival(t, {"set_all_result"})
        BY DEF NoRival, Rival
      <3> QED BY <2>2, <3>1 DEF ReadInv, ReadExactInv
    <2>4. Seen(t) \cup {row.id} = Ids(login)
      <3>1. Seen(t) \cup {row.id} \subseteq Ids(login)
        BY DEF Seen, Ids
      <3>2. IsFiniteSet(Ids(login))
        BY IdsCounted
      <3>3. Cardinality(Ids(login)) = Cardinality(Seen(t) \cup {row.id})
        BY <2>1, <2>2, <2>3
      <3> QED BY <3>1, <3>2, <3>3, FS_Subset
    <2>5. \A other \in RowsOf(login) : other.id <= cursor[t] \/ other = row
      BY <2>4 DEF Seen, Ids, IdsInv, RowsOf
    <2>6. RowsOf(login) = {other \in RowsOf(login) : other.id <= cursor[t]} \cup {row}
      BY <2>5
    <2>7. Elements(tests'[t]) = {AsTest(other) : other \in RowsOf(login)}
      BY <2>1, <2>3, <2>6
    <2>8. Cardinality(Ids(login)) = Cardinality(RowsOf(login))
      BY IdsCounted
    <2> QED BY <2>1, <2>2, <2>3, <2>7, <2>8
  <1> QED BY <1>1, <1>2, <1>3

(* Though it reads its rows one at a time, an authorization that no writer   *)
(* of the same user overlaps answers with exactly what is stored.           *)
THEOREM AuthorizationAlwaysExact == Spec => AuthorizationIsExact
  <1> DEFINE Exact == \A t \in Thread :
       /\ Returns(t) /\ Answered(t, "authorization", "correct")'
       /\ ~ \E u \in Thread : Rival(t, u, {"result", "set_all_result"})
       => /\ {tests'[t][i] : i \in DOMAIN tests'[t]} = {AsTest(row) : row \in RowsOf(request[t].login)}
          /\ Len(tests'[t]) = Cardinality(RowsOf(request[t].login))
  <1>1. TypedInv /\ HistoryInv /\ [Next]_vars => Exact
    BY ExactStep DEF NoRival, Elements
  <1>2. TypedInv /\ HistoryInv /\ [Next]_vars => [Exact]_vars
    BY <1>1
  <1> QED BY <1>2, AlwaysTyped, AlwaysHistory, PTL DEF Spec, Safety, AuthorizationIsExact

-----------------------------------------------------------------------------
(* Where an upload that inserts comes from. *)
LEMMA NewUploader ==
  ASSUME Typed, [Next]_vars, NEW t \in Thread, pc'[t] = "insert"
  PROVE  /\ request'[t] = request[t] /\ pc[t] # "idle"
         /\ request[t].kind = "set_all_result"
         /\ \/ DeleteTests(t) \/ InsertTest(t)
            \/ pc[t] = "insert" /\ counter'[t] = counter[t]
  <1>1. CASE Receive(t)
    BY <1>1, ReceiveFrame
  <1>2. CASE ~ Receive(t) /\ ~ Handle(t)
    BY <1>2, OthersFrame DEF Typed, KindAt
  <1>3. CASE Handle(t)
    <2> USE DEF Typed, TypeOK
    <2>1. DeleteTests(t) \/ InsertTest(t)
      BY <1>3 DEF Handle, Unreadable, Patterns, AuthFails, UnknownPattern, AuthPasses,
        ReadAvatar, CountTests, ReadTest, RowVanished, CheckLogin, Truncate, Write, LockMutex,
        Unlock, InsertUser, InsertUserThrows, FindRow, InsertRow, UpdateRow, ResultThrows,
        UploadDone, Goto, Return
    <2> QED BY <2>1 DEF DeleteTests, InsertTest, disk, KindAt
  <1> QED BY <1>1, <1>2, <1>3

(* A row that holds a test is read back as that test. *)
LEMMA TestReadsBack ==
  ASSUME NEW test \in Test, NEW id, NEW login
  PROVE  AsTest(Row(id, login, test)) = test
  BY DEF Test, AsTest, Row

(* One INSERT of an upload. *)
LEMMA InsertStep ==
  ASSUME Typed, NEW t \in Thread, InsertTest(t), pc'[t] = "insert"
  PROVE  LET test == request[t].tests[counter[t] + 1]
             new == Row(last_id + 1, request[t].login, test)
         IN /\ counter[t] + 1 <= Len(request[t].tests)
            /\ test \in Test /\ Storable(test)
            /\ counter'[t] = counter[t] + 1 /\ request' = request
            /\ new.id_user = request[t].login /\ AsTest(new) = test
            /\ User_test' = User_test \cup {new}
  <1> DEFINE test == request[t].tests[counter[t] + 1]
  <1>1. request[t].tests \in Seq(Test) /\ counter[t] \in Nat
    BY RequestFields, UploadsAssumption DEF InsertTest, Typed, TypeOK, KindAt
  <1>2. counter[t] < Len(request[t].tests) /\ Len(request[t].tests) \in Nat /\ request' = request
    BY <1>1 DEF InsertTest
  <1>3. test \in Test
    BY <1>1, <1>2
  <1>4. KnownName(test.name) /\ IsNumber(test.result)
    BY DEF InsertTest, Return, Goto, Typed, TypeOK
  <1>5. /\ User_test' = User_test \cup {Row(last_id + 1, request[t].login, test)}
        /\ counter' = [counter EXCEPT ![t] = @ + 1]
    BY <1>4 DEF InsertTest, AddRow
  <1>6. counter'[t] = counter[t] + 1
    BY <1>5 DEF Typed, TypeOK
  <1>7. counter[t] + 1 <= Len(request[t].tests)
    BY <1>1, <1>2
  <1> QED BY <1>2, <1>3, <1>4, <1>5, <1>6, <1>7, TestReadsBack, RowField
       DEF KnownName, IsNumber, Storable

LEMMA NextUpload == Typed /\ LogInv /\ UploadInv /\ [Next]_vars => UploadInv'
  <1> SUFFICES ASSUME Typed, LogInv, UploadInv, [Next]_vars,
                      NEW t \in Thread, pc'[t] = "insert"
               PROVE  /\ counter'[t] <= Len(request'[t].tests)
                      /\ \A i \in 1..counter'[t] : Storable(request'[t].tests[i])
                      /\ NoRival(t, {"result", "set_all_result"})' =>
                           {AsTest(row) : row \in RowsOf(request[t].login)'}
                             = {request'[t].tests[i] : i \in 1..counter'[t]}
    BY DEF UploadInv, Storable
  <1>0. PICK login, sent : login = request[t].login /\ sent = request[t].tests
    OBVIOUS
  <1>1. request'[t] = request[t] /\ pc[t] # "idle" /\ request[t].kind = "set_all_result"
    BY NewUploader
  <1>2. NoRival(t, {"result", "set_all_result"})' => NoRival(t, {"result", "set_all_result"})
    BY <1>1, RivalsStay
  <1>3. sent \in Seq(Test) /\ counter[t] \in Nat /\ Len(sent) \in Nat
    <2>1. request[t] \in Request
      BY <1>1, RequestFields DEF Typed, TypeOK, NoRequest
    <2>2. sent \in Uploads
      BY <1>0, <1>1, <2>1, RequestFields
    <2> QED BY <2>2, UploadsAssumption DEF Typed, TypeOK
  <1>4. CASE DeleteTests(t)
    <2>1. counter'[t] = 0
      BY <1>4 DEF DeleteTests, reply, LogInv
    <2>2. RowsOf(login)' = {}
      BY <1>0, <1>4 DEF DeleteTests, Deleted, RowsOf
    <2>3. 1..counter'[t] = {}
      BY <2>1
    <2> QED BY <1>0, <1>1, <1>3, <2>1, <2>2, <2>3
  <1>5. CASE InsertTest(t)
    <2>1. PICK new : /\ counter[t] + 1 <= Len(sent) /\ Storable(sent[counter[t] + 1])
                     /\ counter'[t] = counter[t] + 1
                     /\ new.id_user = login /\ AsTest(new) = sent[counter[t] + 1]
                     /\ User_test' = User_test \cup {new}
      BY <1>0, <1>5, InsertStep
    <2>2. 1..(counter[t] + 1) = 1..counter[t] \cup {counter[t] + 1}
      BY <1>3
    <2>3. RowsOf(login)' = RowsOf(login) \cup {new}
      BY <2>1 DEF RowsOf
    <2>4. pc[t] = "insert"
      BY <1>5 DEF InsertTest
    <2>5. \A i \in 1..counter'[t] : Storable(sent[i])
      BY <1>0, <2>1, <2>2, <2>4 DEF UploadInv
    <2>6. ASSUME NoRival(t, {"result", "set_all_result"})
          PROVE  {AsTest(row) : row \in RowsOf(login)'} = {sent[i] : i \in 1..counter'[t]}
      <3>1. {AsTest(row) : row \in RowsOf(login)} = {sent[i] : i \in 1..counter[t]}
        BY <1>0, <2>4, <2>6 DEF UploadInv
      <3>2. {AsTest(row) : row \in RowsOf(login) \cup {new}}
              = {AsTest(row) : row \in RowsOf(login)} \cup {AsTest(new)}
        OBVIOUS
      <3>3. {sent[i] : i \in 1..counter[t] \cup {counter[t] + 1}}
              = {sent[i] : i \in 1..counter[t]} \cup {sent[counter[t] + 1]}
        OBVIOUS
      <3> QED BY <2>1, <2>2, <2>3, <3>1, <3>2, <3>3
    <2> QED BY <1>0, <1>1, <1>2, <2>1, <2>5, <2>6
  <1>6. CASE ~ DeleteTests(t) /\ ~ InsertTest(t)
    <2>1. pc[t] = "insert" /\ counter'[t] = counter[t]
      BY <1>6, NewUploader
    <2>2. ASSUME NoRival(t, {"result", "set_all_result"}) PROVE RowsOf(login)' = RowsOf(login)
      <3> SUFFICES ASSUME NEW v \in Thread, request[v].login = login,
                          InsertRow(v) \/ UpdateRow(v) \/ DeleteTests(v) \/ InsertTest(v)
                   PROVE  FALSE
        BY RowsEffect
      <3>1. v # t
        BY <1>6, <2>1 DEF InsertRow, UpdateRow
      <3> QED BY <1>0, <2>1, <2>2, <3>1, WritersAreRivals DEF Finished
    <2> QED BY <1>0, <1>1, <1>2, <2>1, <2>2 DEF UploadInv
  <1> QED BY <1>4, <1>5, <1>6

LEMMA AlwaysUpload == Safety => []UploadInv
  <1>1. Init => UploadInv
    BY DEF Init, UploadInv
  <1>2. TypedInv /\ HistoryInv /\ UploadInv /\ [Next]_vars => UploadInv'
    BY NextUpload DEF TypedInv, HistoryInv
  <1> QED BY <1>1, <1>2, AlwaysTyped, AlwaysHistory, PTL DEF Spec, Safety

StoredTests(sent) == {i \in DOMAIN sent : \A j \in 1..i : Storable(sent[j])}

(* The last statement of an upload that nobody disturbs. *)
LEMMA UploadStep ==
  ASSUME TypedInv, HistoryInv, UploadInv, [Next]_vars,
         NEW t \in Thread, Returns(t),
         request[t].kind = "set_all_result", is_correct_auth(request[t]),
         NoRival(t, {"result", "set_all_result"})
  PROVE  /\ {AsTest(row) : row \in RowsOf(request[t].login)'}
              = {request[t].tests[i] : i \in StoredTests(request[t].tests)}
         /\ answer'[t] = "correct" <=> StoredTests(request[t].tests) = DOMAIN request[t].tests
  <1> USE DEF TypedInv
  <1>0. PICK login, sent, n : login = request[t].login /\ sent = request[t].tests /\ n = counter[t]
    OBVIOUS
  <1>1. UploadDone(t) \/ InsertTest(t)
    <2>1. pc[t] # "done" /\ pc'[t] = "done"
      BY DEF Returns
    <2>2. Handle(t)
      BY <2>1, ReceiveFrame, OthersFrame
    <2>3. ~ AuthFails(t)
      BY DEF AuthFails
    <2>4. pc[t] \notin {"idle", "done", "lost"}
      BY <2>2, HandlerFrame
    <2> QED BY <2>1, <2>2, <2>3, <2>4 DEF Handle, Unreadable, Patterns, UnknownPattern, AuthPasses,
          ReadAvatar, CountTests, ReadTest, RowVanished, CheckLogin, Truncate, Write, LockMutex,
          Unlock, InsertUser, InsertUserThrows, FindRow, InsertRow, UpdateRow, ResultThrows,
          DeleteTests, Goto, Typed, TypeOK, KindAt
  <1>2. pc[t] = "insert"
    BY <1>1 DEF UploadDone, InsertTest
  <1>3. sent \in Seq(Test) /\ n \in Nat /\ Len(sent) \in Nat /\ DOMAIN sent = 1..Len(sent)
    <2>1. request[t] \in Request
      BY <1>2 DEF Typed, KindAt
    <2>2. sent \in Uploads
      BY <1>0, <2>1, RequestFields
    <2> QED BY <1>0, <2>2, UploadsAssumption DEF Typed, TypeOK
  <1>4. /\ n <= Len(sent) /\ \A i \in 1..n : Storable(sent[i])
        /\ {AsTest(row) : row \in RowsOf(login)} = {sent[i] : i \in 1..n}
    BY <1>0, <1>2 DEF UploadInv
  <1>5. CASE UploadDone(t)
    <2>1. /\ n = Len(sent) /\ answer'[t] = "correct"
          /\ User_test' = User_test /\ request' = request
      BY <1>0, <1>5 DEF UploadDone, Return, disk, Typed, TypeOK
    <2>2. StoredTests(sent) = 1..n
      BY <1>3, <1>4, <2>1 DEF StoredTests
    <2>3. RowsOf(request[t].login)' = RowsOf(login)
      BY <1>0, <2>1 DEF RowsOf
    <2> QED BY <1>0, <1>3, <1>4, <2>1, <2>2, <2>3
  <1>6. CASE InsertTest(t)
    <2>1. /\ n < Len(sent) /\ ~ Storable(sent[n + 1])
          /\ answer'[t] = "uncorrect"
          /\ User_test' = User_test /\ request' = request
      BY <1>0, <1>6 DEF InsertTest, KnownName, IsNumber, Storable, Return, Returns, Typed, TypeOK
    <2>2. n + 1 \in DOMAIN sent /\ n + 1 \notin StoredTests(sent)
      BY <1>3, <2>1 DEF StoredTests
    <2>3. ASSUME NEW i \in DOMAIN sent PROVE i \in StoredTests(sent) <=> i \in 1..n
      <3>1. i \in Nat /\ 1 <= i
        BY <1>3
      <3>2. CASE i \in 1..n
        BY <1>3, <1>4, <3>2 DEF StoredTests
      <3>3. CASE i \notin 1..n
        <4>1. n + 1 \in 1..i
          BY <1>3, <3>1, <3>3
        <4> QED BY <2>1, <3>3, <4>1 DEF StoredTests
      <3> QED BY <3>2, <3>3
    <2>4. StoredTests(sent) = 1..n
      <3>1. 1..n \subseteq DOMAIN sent
        BY <1>3, <1>4
      <3> QED BY <2>3, <3>1 DEF StoredTests
    <2>5. RowsOf(request[t].login)' = RowsOf(login)
      BY <1>0, <2>1 DEF RowsOf
    <2> QED BY <1>0, <1>4, <2>1, <2>2, <2>4, <2>5
  <1> QED BY <1>1, <1>5, <1>6

(* An upload that no other writer of the same user overlaps leaves what it   *)
(* lists, up to the first name the server does not know or the first result *)
(* that is no number.                                                       *)
THEOREM UploadAlwaysExact == Spec => UploadIsExact
  <1> DEFINE Exact == \A t \in Thread :
       /\ Returns(t) /\ request[t].kind = "set_all_result" /\ is_correct_auth(request[t])
       /\ ~ \E u \in Thread : Rival(t, u, {"result", "set_all_result"})
       => LET sent == request[t].tests
              stored == {i \in DOMAIN sent : \A j \in 1..i : /\ sent[j].name \in Pattern
                                                          /\ sent[j].result \in Result}
          IN /\ {AsTest(row) : row \in RowsOf(request[t].login)'} = {sent[i] : i \in stored}
             /\ answer'[t] = "correct" <=> stored = DOMAIN sent
  <1>1. TypedInv /\ HistoryInv /\ UploadInv /\ [Next]_vars => Exact
    BY UploadStep DEF NoRival, StoredTests, Storable
  <1>2. TypedInv /\ HistoryInv /\ UploadInv /\ [Next]_vars => [Exact]_vars
    BY <1>1
  <1> QED BY <1>2, AlwaysTyped, AlwaysHistory, AlwaysUpload, PTL DEF Spec, Safety, UploadIsExact

-----------------------------------------------------------------------------
(* Without uploads of its user a row stays, or an UPDATE overwrites it. *)
LEMMA RowsRemain ==
  ASSUME Typed, [Next]_vars, NEW l, NEW name, UploadsNothing(l), NEW was \in RowsFor(l, name)
  PROVE  \E row \in RowsFor(l, name)' :
           \/ row = was
           \/ \E v \in Thread : /\ UpdateRow(v) /\ request[v].login = l
                                /\ AsTest(row) = request[v].test
  <1>1. was \in User_test /\ was.id_user = l /\ was.id_pattern = name
    BY DEF RowsFor, RowsOf
  <1>2. CASE UNCHANGED User_test
    BY <1>2 DEF RowsFor, RowsOf
  <1>3. ASSUME NEW v \in Thread, InsertRow(v) \/ InsertTest(v) PROVE was \in RowsFor(l, name)'
    BY <1>1, <1>3, Additions DEF RowsFor, RowsOf
  <1>4. ASSUME NEW v \in Thread, DeleteTests(v) PROVE was \in RowsFor(l, name)'
    <2>1. request[v].login # l
      BY <1>4 DEF DeleteTests, UploadsNothing, Typed, KindAt
    <2> QED BY <1>1, <1>4, <2>1 DEF DeleteTests, Deleted, RowsFor, RowsOf
  <1>5. ASSUME NEW v \in Thread, UpdateRow(v)
        PROVE  \E row \in RowsFor(l, name)' :
                 row = was \/ (request[v].login = l /\ AsTest(row) = request[v].test)
    <2>1. PICK row \in User_test' :
            /\ row.id_user = was.id_user /\ row.id_pattern = was.id_pattern
            /\ row = was \/ (row = Row(was.id, was.id_user, request[v].test)
                             /\ was \in RowsFor(request[v].login, request[v].test.name))
      BY <1>1, <1>5, UpdatedRows
    <2>2. row \in RowsFor(l, name)'
      BY <1>1, <2>1 DEF RowsFor, RowsOf
    <2>3. request[v].test \in Test
      BY <1>5, RequestFields DEF UpdateRow, Typed, KindAt
    <2>4. \A w : w \in RowsFor(request[v].login, request[v].test.name) =>
                   w.id_user = request[v].login
      BY DEF RowsFor, RowsOf
    <2>5. row = was \/ (request[v].login = l /\ AsTest(row) = request[v].test)
      BY <1>1, <2>1, <2>3, <2>4, TestReadsBack
    <2> QED BY <2>2, <2>5
  <1> QED BY <1>2, <1>3, <1>4, <1>5, Writers

(* A result is applied by its INSERT or its UPDATE. *)
LEMMA NewApplied ==
  ASSUME Typed, [Next]_vars, NEW t \in Thread, Applied(t)'
  PROVE  /\ request'[t] = request[t] /\ pc[t] # "idle"
         /\ Applied(t) \/ InsertRow(t) \/ UpdateRow(t)
  <1> USE DEF Applied
  <1>1. CASE Receive(t)
    BY <1>1, ReceiveFrame
  <1>2. CASE ~ Receive(t) /\ ~ Handle(t)
    BY <1>2, OthersFrame
  <1>3. CASE Handle(t)
    <2> USE DEF Typed, TypeOK
    <2>1. request' = request /\ request[t].kind = "result" /\ pc[t] # "idle"
      BY <1>3, HandlerFrame
    <2>2. CASE Unlock(t)
      BY <2>1, <2>2 DEF Unlock
    <2>3. InsertRow(t) \/ UpdateRow(t) \/ Unlock(t)
      BY <1>3, <2>1 DEF Handle, Unreadable, Patterns, AuthFails, UnknownPattern, AuthPasses,
        ReadAvatar, CountTests, ReadTest, RowVanished, CheckLogin, Truncate, Write, LockMutex,
        InsertUser, InsertUserThrows, FindRow, ResultThrows, DeleteTests, InsertTest,
        UploadDone, Goto, Return, KindAt
    <2> QED BY <2>1, <2>2, <2>3
  <1> QED BY <1>1, <1>2, <1>3

LEMMA NextLast == Typed /\ LogInv /\ LastInv /\ [Next]_vars => LastInv'
  <1> SUFFICES ASSUME Typed, LogInv, LastInv, [Next]_vars, NEW t \in Thread,
                      request'[t].kind = "result", UploadsNothing(request[t].login)'
               PROVE  /\ pc'[t] = "update_row" =>
                           RowsFor(request[t].login, request[t].test.name)' # {}
                      /\ Applied(t)' => \E row \in User_test', u \in Thread : StoredBy(t, row, u)'
    BY DEF LastInv
  <1>0. PICK l, name : l = request[t].login /\ name = request[t].test.name
    OBVIOUS
  <1>1. ASSUME request'[t] = request[t] PROVE UploadsNothing(l)
    <2>1. UploadsNothing(l)'
      BY <1>0, <1>1 DEF UploadsNothing
    <2>2. \A u \in Thread : request[u].kind = "set_all_result" => request'[u] = request[u]
      BY Lasting DEF LogInv, NoRequest
    <2> QED BY <2>1, <2>2 DEF UploadsNothing
  <1>2. ASSUME pc'[t] = "update_row"
        PROVE  RowsFor(request[t].login, request[t].test.name)' # {}
    <2>1. request'[t] = request[t] /\ (pc[t] = "update_row" \/ FindRow(t))
      BY <1>2, NewWriter
    <2>2. RowsFor(l, name) # {}
      <3>1. CASE FindRow(t)
        BY <1>0, <1>2, <3>1 DEF FindRow, Goto, Typed, TypeOK
      <3>2. CASE pc[t] = "update_row"
        BY <1>0, <1>1, <2>1, <3>2 DEF LastInv
      <3> QED BY <2>1, <3>1, <3>2
    <2>3. RowsFor(l, name)' # {}
      BY <1>1, <2>1, <2>2, RowsRemain
    <2> QED BY <1>0, <2>1, <2>3 DEF RowsFor, RowsOf
  <1>3. ASSUME Applied(t)' PROVE \E row \in User_test', u \in Thread : StoredBy(t, row, u)'
    <2>1. /\ request'[t] = request[t] /\ earlier'[t] = earlier[t] /\ pc[t] # "idle"
          /\ Applied(t) \/ InsertRow(t) \/ UpdateRow(t)
      BY <1>3, NewApplied, Lasting
    <2>2. RowsFor(l, name)' = RowsFor(request[t].login, request[t].test.name)'
      BY <1>0, <2>1 DEF RowsFor, RowsOf
    <2>3. t \notin earlier[t]
      BY DEF LogInv
    <2>4. CASE InsertRow(t)
      <3> DEFINE new == Row(last_id + 1, l, request[t].test)
      <3>1. request[t].test \in Test /\ request[t].kind = "result"
        BY <2>4, RequestFields DEF InsertRow, Typed, KindAt
      <3>2. new \in User_test' /\ new.id_user = l /\ new.id_pattern = name
            /\ AsTest(new) = request[t].test
        BY <1>0, <2>4, <3>1, RowField, TestReadsBack DEF InsertRow, AddRow
      <3> HIDE DEF new
      <3>3. new \in RowsFor(l, name)'
        BY <3>2 DEF RowsFor, RowsOf
      <3> QED BY <2>1, <2>2, <2>3, <3>1, <3>2, <3>3 DEF StoredBy
    <2>5. CASE UpdateRow(t)
      <3>1. request[t].test \in Test /\ request[t].kind = "result" /\ pc[t] = "update_row"
        BY <2>5, RequestFields DEF UpdateRow, Typed, KindAt
      <3>2. PICK was \in RowsFor(l, name) : TRUE
        BY <1>0, <1>1, <2>1, <3>1 DEF LastInv
      <3> DEFINE new == Row(was.id, was.id_user, request[t].test)
      <3>3. was.id_user = l
        BY DEF RowsFor, RowsOf
      <3>4. new \in User_test' /\ new.id_user = l /\ new.id_pattern = name
            /\ AsTest(new) = request[t].test
        BY <1>0, <2>5, <3>1, <3>2, <3>3, RowField, TestReadsBack DEF UpdateRow, Updated
      <3> HIDE DEF new
      <3>5. new \in RowsFor(l, name)'
        BY <3>4 DEF RowsFor, RowsOf
      <3> QED BY <2>1, <2>2, <2>3, <3>1, <3>4, <3>5 DEF StoredBy
    <2>6. CASE Applied(t)
      <3>1. PICK was \in User_test, u \in Thread : StoredBy(t, was, u)
        BY <1>0, <1>1, <2>1, <2>6 DEF LastInv, Applied
      <3>2. was \in RowsFor(l, name) /\ pc[u] # "idle"
        BY <1>0, <3>1 DEF StoredBy, LogInv, NoRequest
      <3>3. PICK row \in RowsFor(l, name)' :
              \/ row = was
              \/ \E v \in Thread : /\ UpdateRow(v) /\ request[v].login = l
                                   /\ AsTest(row) = request[v].test
        BY <1>1, <2>1, <3>2, RowsRemain
      <3>4. row \in User_test'
        BY DEF RowsFor, RowsOf
      <3>5. CASE row = was
        <4>1. request'[u] = request[u]
          BY <3>2, Lasting
        <4> QED BY <1>0, <2>1, <2>2, <3>1, <3>3, <3>4, <3>5, <4>1 DEF StoredBy
      <3>6. ASSUME NEW v \in Thread, UpdateRow(v), request[v].login = l,
                   AsTest(row) = request[v].test
            PROVE  StoredBy(t, row, v)'
        <4>1. pc[v] = "update_row" /\ request[v].kind = "result" /\ request'[v] = request[v]
          BY <3>6, HandlerFrame DEF UpdateRow, Handle, Typed, KindAt
        <4>2. v \notin earlier[t]
          BY <4>1 DEF LogInv, Finished
        <4> QED BY <1>0, <2>1, <2>2, <3>3, <3>6, <4>1, <4>2 DEF StoredBy
      <3> QED BY <3>3, <3>4, <3>5, <3>6
    <2> QED BY <2>1, <2>4, <2>5, <2>6
  <1> QED BY <1>2, <1>3

(* Once result is answered "correct", what is stored for that user and       *)
(* pattern was sent by it or by a request that was not over before it came. *)
THEOREM LastResultAlwaysWins == Spec => []LastResultWins
  <1>1. Init => LastInv
    BY DEF Init, LastInv, Applied, NoRequest
  <1>2. TypedInv /\ HistoryInv /\ LastInv /\ [Next]_vars => LastInv'
    BY NextLast DEF TypedInv, HistoryInv
  <1>3. LastInv => LastResultWins
    <2> SUFFICES ASSUME LastInv, NEW t \in Thread, Answered(t, "result", "correct"),
                        UploadsNothing(request[t].login)
                 PROVE  \E row \in RowsFor(request[t].login, request[t].test.name), u \in Thread :
                          /\ u \notin earlier[t]
                          /\ request[u].kind = "result" /\ request[u].login = request[t].login
                          /\ request[u].test = [name |-> row.id_pattern,
                                                result |-> row.count_correct]
      BY DEF LastResultWins
    <2>1. PICK row \in User_test, u \in Thread : StoredBy(t, row, u)
      BY DEF LastInv, Applied, Answered
    <2> QED BY <2>1 DEF StoredBy, AsTest
  <1> QED BY <1>1, <1>2, <1>3, AlwaysTyped, AlwaysHistory, PTL DEF Spec, Safety

-----------------------------------------------------------------------------
(* No client lists a pattern twice in one upload. *)
UploadsListOnce == \A sent \in Uploads : \A i, j \in DOMAIN sent :
                     sent[i].name = sent[j].name => i = j

LEMMA QuietBefore ==
  ASSUME Typed, LogInv, [Next]_vars, NEW l, Quiet(l)'
  PROVE  Quiet(l)
  <1> SUFFICES ASSUME NEW t \in Thread, request[t].kind = "set_all_result", request[t].login = l
               PROVE  NoRival(t, {"set_all_result", "result"})
    BY DEF Quiet
  <1>1. pc[t] # "idle"
    BY DEF LogInv, NoRequest
  <1>2. NoRival(t, {"set_all_result", "result"})'
    BY <1>1, Lasting DEF Quiet
  <1> QED BY <1>1, <1>2, RivalsStay

LEMMA NextQuiet ==
  ASSUME UploadsListOnce
  PROVE  /\ Typed /\ MutexInv /\ LogInv /\ IdsInv /\ UploadInv /\ QuietInv /\ [Next]_vars
         => QuietInv'
  <1> SUFFICES ASSUME Typed, MutexInv, LogInv, IdsInv, UploadInv, QuietInv, [Next]_vars,
                      NEW l \in Login, Quiet(l)'
               PROVE  /\ \A row, other \in RowsOf(l)' :
                           row.id_pattern = other.id_pattern => row = other
                      /\ \A t \in Thread : pc'[t] = "insert_row" /\ request'[t].login = l =>
                           RowsFor(l, request[t].test.name)' = {}
    BY DEF QuietInv
  <1>1. Quiet(l)
    BY QuietBefore
  <1>2. /\ \A row, other \in RowsOf(l) : row.id_pattern = other.id_pattern => row = other
        /\ \A t \in Thread : pc[t] = "insert_row" /\ request[t].login = l =>
             RowsFor(l, request[t].test.name) = {}
    BY <1>1 DEF QuietInv
  <1>3. ASSUME NEW row \in RowsOf(l)', NEW other \in RowsOf(l)',
               row.id_pattern = other.id_pattern
        PROVE  row = other
    <2>1. CASE RowsOf(l)' = RowsOf(l)
      BY <1>2, <1>3, <2>1
    <2>2. ASSUME NEW new, RowsOf(l)' = RowsOf(l) \cup {new},
                 \A was \in RowsOf(l) : was.id_pattern # new.id_pattern
          PROVE  row = other
      BY <1>2, <1>3, <2>2
    <2>3. ASSUME NEW v \in Thread, InsertRow(v), request[v].login = l PROVE row = other
      <3> DEFINE new == Row(last_id + 1, l, request[v].test)
      <3>1. new.id_user = l /\ new.id_pattern = request[v].test.name
        BY RowField
      <3>2. User_test' = User_test \cup {new}
        BY <2>3 DEF InsertRow, AddRow
      <3> HIDE DEF new
      <3>3. RowsOf(l)' = RowsOf(l) \cup {new}
        BY <3>1, <3>2 DEF RowsOf
      <3>4. \A was \in RowsOf(l) : was.id_pattern # new.id_pattern
        BY <1>2, <2>3, <3>1 DEF InsertRow, RowsFor
      <3> QED BY <2>2, <3>3, <3>4
    <2>4. ASSUME NEW v \in Thread, UpdateRow(v) PROVE row = other
      <3>1. PICK was \in User_test : /\ row.id = was.id /\ row.id_user = was.id_user
                                     /\ row.id_pattern = was.id_pattern
        BY <2>4, UpdatedRows DEF RowsOf
      <3>2. PICK is \in User_test : /\ other.id = is.id /\ other.id_user = is.id_user
                                    /\ other.id_pattern = is.id_pattern
        BY <2>4, UpdatedRows DEF RowsOf
      <3>3. was = is
        BY <1>2, <1>3, <3>1, <3>2 DEF RowsOf
      <3>4. IdsInv'
        BY NextIds
      <3> QED BY <3>1, <3>2, <3>3, <3>4 DEF IdsInv, RowsOf
    <2>5. ASSUME NEW v \in Thread, DeleteTests(v) PROVE row = other
      BY <1>2, <1>3, <2>5 DEF DeleteTests, RowsOf
    <2>6. ASSUME NEW v \in Thread, InsertTest(v), request[v].login = l PROVE row = other
      <3>1. CASE pc'[v] # "insert"
        <4>1. User_test' = User_test
          BY <2>6, <3>1 DEF InsertTest, Goto, Typed, TypeOK
        <4> QED BY <2>1, <4>1 DEF RowsOf
      <3>2. CASE pc'[v] = "insert"
        <4> DEFINE sent == request[v].tests
                   n == counter[v]
        <4>1. pc[v] = "insert" /\ request[v].kind = "set_all_result" /\ n \in Nat
          BY <2>6 DEF InsertTest, Typed, TypeOK, KindAt
        <4>2. sent \in Uploads /\ sent \in Seq(Test) /\ Len(sent) \in Nat
          BY <4>1, RequestFields, UploadsAssumption DEF Typed, KindAt
        <4>3. NoRival(v, {"result", "set_all_result"})
          <5>1. NoRival(v, {"set_all_result", "result"})
            BY <1>1, <2>6, <4>1 DEF Quiet
          <5> QED BY <5>1 DEF NoRival, Rival
        <4>4. {AsTest(was) : was \in RowsOf(l)} = {sent[i] : i \in 1..n}
          BY <2>6, <4>1, <4>3 DEF UploadInv
        <4>5. PICK new : /\ n + 1 <= Len(sent) /\ new.id_user = l /\ AsTest(new) = sent[n + 1]
                         /\ User_test' = User_test \cup {new}
          BY <2>6, <3>2, InsertStep
        <4>6. \A i \in 1..n : i \in DOMAIN sent /\ n + 1 \in DOMAIN sent /\ i # n + 1
          BY <4>1, <4>2, <4>5
        <4>7. \A i \in 1..n : sent[i].name # sent[n + 1].name
          BY <4>2, <4>6 DEF UploadsListOnce
        <4> HIDE DEF sent, n
        <4>8. \A x : AsTest(x).name = x.id_pattern
          BY DEF AsTest
        <4>9. ASSUME NEW was \in RowsOf(l) PROVE was.id_pattern # new.id_pattern
          <5>1. AsTest(was) \in {sent[i] : i \in 1..n}
            BY <4>4
          <5>2. PICK i \in 1..n : AsTest(was) = sent[i]
            BY <5>1
          <5> QED BY <4>5, <4>7, <4>8, <5>2
        <4>10. RowsOf(l)' = RowsOf(l) \cup {new}
          BY <4>5 DEF RowsOf
        <4> QED BY <2>2, <4>9, <4>10
      <3> QED BY <3>1, <3>2
    <2> QED BY <2>1, <2>3, <2>4, <2>5, <2>6, RowsEffect
  <1>4. ASSUME NEW t \in Thread, pc'[t] = "insert_row", request'[t].login = l
        PROVE  RowsFor(l, request[t].test.name)' = {}
    <2>1. request'[t] = request[t] /\ (pc[t] = "insert_row" \/ FindRow(t))
      BY <1>4, NewWriter
    <2>2. RowsFor(l, request[t].test.name)' = {row \in RowsOf(l)' : row.id_pattern = request[t].test.name}
      BY <2>1 DEF RowsFor
    <2>3. CASE FindRow(t)
      <3>1. RowsFor(l, request[t].test.name) = {} /\ User_test' = User_test
        BY <1>4, <2>1, <2>3 DEF FindRow, Goto, disk, Typed, TypeOK
      <3> QED BY <2>2, <3>1 DEF RowsFor, RowsOf
    <2>4. CASE pc[t] = "insert_row"
      <3>1. request[t].kind = "result" /\ ~ Finished(t)
        BY <2>4 DEF Finished, Typed, KindAt
      <3>2. RowsOf(l)' = RowsOf(l)
        <4> SUFFICES ASSUME NEW v \in Thread, request[v].login = l,
                            InsertRow(v) \/ UpdateRow(v) \/ DeleteTests(v) \/ InsertTest(v)
                     PROVE  FALSE
          BY RowsEffect
        <4>1. CASE InsertRow(v) \/ UpdateRow(v)
          <5>1. v = t
            BY <2>4, <4>1 DEF InsertRow, UpdateRow, MutexInv, CriticalSection, InSection
          <5> QED BY <1>4, <4>1, <5>1 DEF InsertRow, UpdateRow, Goto, Typed, TypeOK
        <4>2. CASE DeleteTests(v) \/ InsertTest(v)
          <5>1. request[v].kind = "set_all_result" /\ ~ Finished(v)
            BY <4>2 DEF DeleteTests, InsertTest, Finished, Typed, KindAt
          <5>2. Rival(v, t, {"set_all_result", "result"})
            BY <1>4, <2>1, <3>1, <5>1, ActiveRivals
          <5> QED BY <1>1, <5>1, <5>2 DEF Quiet, NoRival
        <4> QED BY <4>1, <4>2
      <3>3. RowsFor(l, request[t].test.name) = {}
        BY <1>2, <1>4, <2>1, <2>4
      <3> QED BY <2>2, <3>2, <3>3 DEF RowsFor
    <2> QED BY <2>1, <2>3, <2>4
  <1> QED BY <1>3, <1>4

(* Two rows of one user for one pattern need an upload of his that overlaps  *)
(* another upload or a result of his.                                        *)
THEOREM DoubleRowsNeedOverlap ==
  ASSUME UploadsListOnce
  PROVE  Spec => []OneRowUnlessUploadsOverlap
  <1>1. Init => QuietInv
    BY DEF Init, QuietInv, RowsOf
  <1>2. TypedInv /\ MutexInv /\ HistoryInv /\ UploadInv /\ QuietInv /\ [Next]_vars => QuietInv'
    BY NextQuiet DEF TypedInv, HistoryInv
  <1>3. QuietInv => OneRowUnlessUploadsOverlap
    <2> SUFFICES ASSUME QuietInv, NEW l \in Login,
                        NEW row \in RowsOf(l), NEW other \in RowsOf(l),
                        row.id_pattern = other.id_pattern, row # other
                 PROVE  ~ Quiet(l)
      BY DEF OneRowUnlessUploadsOverlap, Quiet, NoRival
    <2> QED BY DEF QuietInv
  <1> QED BY <1>1, <1>2, <1>3, AlwaysTyped, AlwaysMutex, AlwaysHistory, AlwaysUpload, PTL DEF Spec, Safety
=============================================================================
