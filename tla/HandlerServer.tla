---------------------------- MODULE HandlerServer ----------------------------
(***************************************************************************)
(* The request handler of the server (server/handler_server.cpp), called   *)
(* from one thread per connection (server/tcpserver.cpp, client_loop).     *)
(* Every connection carries one request and gets one answer.  The threads  *)
(* share one SQLite connection, the avatar files and one mutex; every      *)
(* statement on the database is atomic (SQLite serialises them), every     *)
(* handler is a sequence of such statements.                               *)
(*                                                                         *)
(* pc[t] names the statement that thread t executes next:                  *)
(*   idle             the connection has not delivered its request         *)
(*   unreadable       no handler for the text            processing 39-53  *)
(*   patterns         the list of patterns               patterns          *)
(*   is_correct_auth  the check of login and password    is_correct_auth   *)
(*   avatar, count, row               the answer to an authorization  auth *)
(*   login_free, truncate, write      a registration up to its lock    reg *)
(*   lock             mutex.lock()                        reg and result   *)
(*   insert_user      the INSERT of reg, under the lock                    *)
(*   find_row, insert_row, update_row the statements of result, under it   *)
(*   unlock           mutex.unlock() and the answer                        *)
(*   delete, insert   the statements of set_all_result                     *)
(*   done             answered;    lost   the server died before that      *)
(* A definition nothing uses (AnyPassword, NoLock, ...) is what a mistake  *)
(* would make of the one right after it; the mutants swap the two.         *)
(***************************************************************************)
EXTENDS Integers, Sequences, FiniteSets

CONSTANTS
  Thread,         \* connections, each with the thread that serves it
  Login, Password,
  ImgType, Image, \* file types and contents of avatars
  Pattern,        \* names in the server's table Pattern, which no code changes
  PatternImages,  \* the patterns whose image file can be opened
  Name,           \* pattern names a client may send (its list may be older)
  Result,         \* counts of correct answers
  Malformed,      \* texts of <result> that are no number
  FileOf,         \* the file a path names, as the one path that stands for it
  Uploads,        \* the lists of tests a client may upload
  Kinds,          \* the kinds of request that are sent
  InitialUser,    \* the table User when the server is first started
  None            \* nobody holds the mutex

AllKinds == {"unreadable", "patterns", "authorization", "registration",
             "result", "set_all_result"}
Path == Login \X ImgType  \* the text images/users_images/<login>.<img_type>
Account == [password : Password, path : Path]
Test == [name : Name, result : Result \cup Malformed]
Content == Image \cup {"absent", "empty", "mixed", "stock"}

ASSUME NoneAssumption == None \notin Thread
ASSUME PatternAssumption == /\ Pattern \subseteq Name
                            /\ PatternImages \subseteq Pattern
ASSUME MalformedAssumption == Malformed \cap Result = {}
(* Two paths may name one file: Windows compares names without case.       *)
ASSUME FileAssumption == FileOf \in [Path -> Path]
ASSUME UploadsAssumption == Uploads \subseteq Seq(Test)
ASSUME ImageAssumption == Image \cap {"absent", "empty", "mixed", "stock"} = {}
ASSUME KindsAssumption == Kinds \subseteq AllKinds
ASSUME InitialUserAssumption ==
  /\ DOMAIN InitialUser \subseteq Login
  /\ InitialUser \in [DOMAIN InitialUser -> Account]
  /\ \A l \in DOMAIN InitialUser : InitialUser[l].path[1] = l
  /\ \A l, m \in DOMAIN InitialUser :
       InitialUser[l].password = InitialUser[m].password => l = m

(* The texts that can arrive, by the element <type>. *)
Request ==
  { r \in [kind : {"unreadable", "patterns"}]
     \cup [kind : {"authorization"}, login : Login, password : Password]
     \cup [kind : {"registration"}, login : Login, password : Password,
           img_type : ImgType, img : Image]
     \cup [kind : {"result"}, login : Login, password : Password, test : Test]
     \cup [kind : {"set_all_result"}, login : Login, password : Password,
           tests : Uploads] : r.kind \in Kinds }

NoRequest == [kind |-> "none"]

VARIABLES
  User,       \* table User: login -> password and path_to_image
  User_test,  \* table User_test; id_user and id_pattern stand for the names
  last_id,    \* the AUTOINCREMENT counter of User_test
  files,      \* the avatar files
  mutex,      \* the holder of the global mutex, or None
  pc,
  request,    \* what the connection sent
  answer,     \* the element <answer> of the reply
  counter,    \* auth: the COUNT(*); set_all_result: tests stored so far
  cursor,     \* auth: id of the last row of User_test the query returned
  tests,      \* auth: the element <tests> built so far
  avatar,     \* auth: the contents put into the element <img>
  earlier     \* history: the threads that had finished when t got its request

disk == <<User, User_test, last_id, files>>
reply == <<counter, cursor, tests, avatar>>
vars == <<disk, mutex, pc, request, answer, reply, earlier>>

-----------------------------------------------------------------------------
Active == {t \in Thread : pc[t] \notin {"idle", "done", "lost"}}

RowsOf(login) == {row \in User_test : row.id_user = login}

Row(id, login, test) == [id |-> id, id_user |-> login, id_pattern |-> test.name,
                         count_correct |-> test.result]

AsTest(row) == [name |-> row.id_pattern, result |-> row.count_correct]

Goto(t, label) == pc' = [pc EXCEPT ![t] = label]

(* A handler returns and its thread sends the answer. *)
Return(t, a) == /\ Goto(t, "done")
                /\ answer' = [answer EXCEPT ![t] = a]

(* Locals go out of scope; an exception drops the answer built so far. *)
Forget(t) == /\ counter' = [counter EXCEPT ![t] = 0]
             /\ cursor' = [cursor EXCEPT ![t] = 0]
             /\ tests' = [tests EXCEPT ![t] = <<>>]
             /\ avatar' = [avatar EXCEPT ![t] = "absent"]

Init ==
  /\ User = InitialUser
  /\ User_test = {}
  /\ last_id = 0
  /\ files = [file \in Path |-> IF \E l \in DOMAIN InitialUser : FileOf[InitialUser[l].path] = file
                                THEN "stock" ELSE "absent"]
  /\ mutex = None
  /\ pc = [t \in Thread |-> "idle"]
  /\ request = [t \in Thread |-> NoRequest]
  /\ answer = [t \in Thread |-> "none"]
  /\ counter = [t \in Thread |-> 0]
  /\ cursor = [t \in Thread |-> 0]
  /\ tests = [t \in Thread |-> <<>>]
  /\ avatar = [t \in Thread |-> "absent"]
  /\ earlier = [t \in Thread |-> {}]

-----------------------------------------------------------------------------
(* processing: the callback of a connection whose text has arrived. *)
Entry(kind) == IF kind \in {"unreadable", "patterns"} THEN kind
               ELSE IF kind = "registration" THEN "login_free" ELSE "is_correct_auth"

Received(t, r) ==
  /\ pc[t] = "idle"
  /\ request' = [request EXCEPT ![t] = r]
  /\ Goto(t, Entry(r.kind))
  /\ earlier' = [earlier EXCEPT ![t] = {u \in Thread : pc[u] \in {"done", "lost"}}]
  /\ UNCHANGED <<disk, mutex, answer, reply>>

Receive(t) == \E r \in Request : Received(t, r)

Unreadable(t) ==
  /\ pc[t] = "unreadable"
  /\ Return(t, "uncorrect")
  /\ UNCHANGED <<disk, mutex, request, reply, earlier>>

(* patterns: encode_file throws when an image cannot be opened. *)
Patterns(t) ==
  /\ pc[t] = "patterns"
  /\ Return(t, IF Pattern \subseteq PatternImages THEN "correct" ELSE "uncorrect")
  /\ UNCHANGED <<disk, mutex, request, reply, earlier>>

-----------------------------------------------------------------------------
(* is_correct_auth, and the branch of the three handlers that call it. *)
AnyPassword(r) == r.login \in DOMAIN User

is_correct_auth(r) == /\ r.login \in DOMAIN User
                      /\ User[r.login].password = r.password

AuthFails(t) ==
  /\ pc[t] = "is_correct_auth"
  /\ ~ is_correct_auth(request[t])
  /\ Return(t, "uncorrect")
  /\ UNCHANGED <<disk, mutex, request, reply, earlier>>

(* result looks the pattern up before it locks: no such name throws. *)
UnknownPattern(t) ==
  /\ pc[t] = "is_correct_auth"
  /\ is_correct_auth(request[t])
  /\ request[t].kind = "result" /\ request[t].test.name \notin Pattern
  /\ Return(t, "uncorrect")
  /\ UNCHANGED <<disk, mutex, request, reply, earlier>>

AuthPasses(t) ==
  /\ pc[t] = "is_correct_auth"
  /\ is_correct_auth(request[t])
  /\ \/ request[t].kind = "authorization" /\ Goto(t, "avatar")
     \/ /\ request[t].kind = "result" /\ request[t].test.name \in Pattern
        /\ Goto(t, "lock")
     \/ request[t].kind = "set_all_result" /\ Goto(t, "delete")
  /\ UNCHANGED <<disk, mutex, request, answer, reply, earlier>>

-----------------------------------------------------------------------------
(* auth: the picture, the number of tests, then one row at a time.  *)
encode_file(path) == files[FileOf[path]]

ReadAvatar(t) ==
  /\ pc[t] = "avatar"
  /\ LET img == encode_file(User[request[t].login].path)
     IN IF img = "absent"           \* cannot be opened: throws
        THEN Return(t, "uncorrect") /\ UNCHANGED avatar
        ELSE /\ Goto(t, "count") /\ UNCHANGED answer
             /\ avatar' = [avatar EXCEPT ![t] = img]
  /\ UNCHANGED <<disk, mutex, request, counter, cursor, tests, earlier>>

(* SELECT COUNT over User_test WHERE id_user = ? *)
count_test(t) == Cardinality(RowsOf(request[t].login))

CountTests(t) ==
  /\ pc[t] = "count"
  /\ counter' = [counter EXCEPT ![t] = count_test(t)]
  /\ IF count_test(t) = 0 THEN Return(t, "correct")
                          ELSE Goto(t, "row") /\ UNCHANGED answer
  /\ UNCHANGED <<disk, mutex, request, cursor, tests, avatar, earlier>>

(* The rows the open query has still to return, as the table is now; it    *)
(* returns them in the order of their ids.                                 *)
NotStepped(t) == RowsOf(request[t].login)

EverySecondRow(t) == {row \in RowsOf(request[t].login) : row.id > cursor[t] + 1}

RowsLeft(t) == {row \in RowsOf(request[t].login) : row.id > cursor[t]}

ReadTest(t) ==
  /\ pc[t] = "row"
  /\ \E row \in RowsLeft(t) :
       /\ \A other \in RowsLeft(t) : row.id <= other.id
       /\ cursor' = [cursor EXCEPT ![t] = row.id]
       /\ tests' = [tests EXCEPT ![t] = Append(@, AsTest(row))]
  /\ IF Len(tests[t]) + 1 = counter[t] THEN Return(t, "correct")
                                       ELSE UNCHANGED <<pc, answer>>
  /\ UNCHANGED <<disk, mutex, request, counter, avatar, earlier>>

(* The query ran out before the count was reached: getColumn throws. *)
RowVanished(t) ==
  /\ pc[t] = "row"
  /\ RowsLeft(t) = {}
  /\ Return(t, "uncorrect")
  /\ Forget(t)
  /\ UNCHANGED <<disk, mutex, request, earlier>>

-----------------------------------------------------------------------------
(* reg up to its lock: the COUNT, then decode_file, which empties the file *)
(* and then writes it; neither is under the mutex.                         *)
AnyLogin(login) == TRUE

LoginFree(login) == login \notin DOMAIN User

CheckLogin(t) ==
  /\ pc[t] = "login_free"
  /\ IF LoginFree(request[t].login)
     THEN Goto(t, "truncate") /\ UNCHANGED answer
     ELSE Return(t, "uncorrect")
  /\ UNCHANGED <<disk, mutex, request, reply, earlier>>

path_to_file(r) == <<r.login, r.img_type>>

file_of(r) == FileOf[path_to_file(r)]

Truncate(t) ==
  /\ pc[t] = "truncate"
  /\ files' = [files EXCEPT ![file_of(request[t])] = "empty"]
  /\ Goto(t, "write")
  /\ UNCHANGED <<User, User_test, last_id, mutex, request, answer, reply, earlier>>

(* Two writers of one file write over each other from its start: the tail  *)
(* of the longer contents survives.                                        *)
Write(t) ==
  /\ pc[t] = "write"
  /\ LET file == file_of(request[t])
         img == request[t].img
     IN \E content \in IF files[file] \in {"empty", img} THEN {img} ELSE {img, "mixed"} :
          files' = [files EXCEPT ![file] = content]
  /\ Goto(t, "lock")
  /\ UNCHANGED <<User, User_test, last_id, mutex, request, answer, reply, earlier>>

-----------------------------------------------------------------------------
(* The mutex, taken by reg around its INSERT and by result around its      *)
(* COUNT and INSERT or UPDATE.                                             *)
NoLock == TRUE

MutexFree == mutex = None

LockMutex(t) ==
  /\ pc[t] = "lock"
  /\ MutexFree
  /\ mutex' = t
  /\ Goto(t, IF request[t].kind = "registration" THEN "insert_user" ELSE "find_row")
  /\ UNCHANGED <<disk, request, answer, reply, earlier>>

StillLocked(t) == mutex' = mutex

UnlockMutex(t) == mutex' = None

Unlock(t) ==
  /\ pc[t] = "unlock"
  /\ UnlockMutex(t)
  /\ Return(t, "correct")
  /\ UNCHANGED <<disk, request, reply, earlier>>

(* UNIQUE(login), UNIQUE(password), UNIQUE(path_to_image) of the table. *)
NoClash(r) == FALSE

UniqueViolated(r) ==
  \E l \in DOMAIN User : \/ l = r.login
                         \/ User[l].password = r.password
                         \/ User[l].path = path_to_file(r)

InsertUser(t) ==
  /\ pc[t] = "insert_user"
  /\ ~ UniqueViolated(request[t])
  /\ User' = [l \in DOMAIN User \cup {request[t].login} |->
                IF l = request[t].login
                THEN [password |-> request[t].password, path |-> path_to_file(request[t])]
                ELSE User[l]]
  /\ Goto(t, "unlock")
  /\ UNCHANGED <<User_test, last_id, files, mutex, request, answer, reply, earlier>>

(* The INSERT throws out of reg: mutex.unlock() is not reached. *)
InsertUserThrows(t) ==
  /\ pc[t] = "insert_user"
  /\ UniqueViolated(request[t])
  /\ Return(t, "uncorrect")
  /\ UNCHANGED <<disk, mutex, request, reply, earlier>>

-----------------------------------------------------------------------------
(* result, under the lock. *)
RowsFor(login, name) == {row \in RowsOf(login) : row.id_pattern = name}

FindRow(t) ==
  /\ pc[t] = "find_row"
  /\ Goto(t, IF RowsFor(request[t].login, request[t].test.name) = {}
             THEN "insert_row" ELSE "update_row")
  /\ UNCHANGED <<disk, mutex, request, answer, reply, earlier>>

AddRow(login, test) == /\ last_id' = last_id + 1
                       /\ User_test' = User_test \cup {Row(last_id + 1, login, test)}

(* The text of <result> is put into the statement as it is.                *)
IsNumber(result) == result \in Result

InsertRow(t) ==
  /\ pc[t] = "insert_row"
  /\ IsNumber(request[t].test.result)
  /\ AddRow(request[t].login, request[t].test)
  /\ Goto(t, "unlock")
  /\ UNCHANGED <<User, files, mutex, request, answer, reply, earlier>>

(* The rows the UPDATE of r changes; NoRow has a condition none fulfils. *)
NoRow(r) == {}

Updated(r) == RowsFor(r.login, r.test.name)

UpdateRow(t) ==
  /\ pc[t] = "update_row"
  /\ IsNumber(request[t].test.result)
  /\ User_test' = (User_test \ Updated(request[t]))
       \cup {Row(row.id, row.id_user, request[t].test) : row \in Updated(request[t])}
  /\ Goto(t, "unlock")
  /\ UNCHANGED <<User, last_id, files, mutex, request, answer, reply, earlier>>

(* The INSERT or the UPDATE throws out of result: here, too, mutex.unlock() *)
(* is not reached.                                                         *)
ResultThrows(t) ==
  /\ pc[t] \in {"insert_row", "update_row"}
  /\ ~ IsNumber(request[t].test.result)
  /\ Return(t, "uncorrect")
  /\ UNCHANGED <<disk, mutex, request, reply, earlier>>

-----------------------------------------------------------------------------
(* set_all_result: the DELETE and one INSERT for each test, each of them   *)
(* committed on its own and none of them under the mutex.                  *)
NothingDeleted(t) == {}

Deleted(t) == RowsOf(request[t].login)

DeleteTests(t) ==
  /\ pc[t] = "delete"
  /\ User_test' = User_test \ Deleted(t)
  /\ Goto(t, "insert")
  /\ UNCHANGED <<User, last_id, files, mutex, request, answer, reply, earlier>>

AnyName(name) == TRUE

KnownName(name) == name \in Pattern

InsertTest(t) ==
  /\ pc[t] = "insert"
  /\ counter[t] < Len(request[t].tests)
  /\ LET test == request[t].tests[counter[t] + 1]
     IN IF KnownName(test.name) /\ IsNumber(test.result)
        THEN /\ AddRow(request[t].login, test)
             /\ counter' = [counter EXCEPT ![t] = @ + 1]
             /\ UNCHANGED <<pc, answer>>
        ELSE /\ Return(t, "uncorrect")     \* the rows inserted so far stay
             /\ UNCHANGED <<User_test, last_id, counter>>
  /\ UNCHANGED <<User, files, mutex, request, cursor, tests, avatar, earlier>>

UploadDone(t) ==
  /\ pc[t] = "insert"
  /\ counter[t] = Len(request[t].tests)
  /\ Return(t, "correct")
  /\ UNCHANGED <<disk, mutex, request, reply, earlier>>

-----------------------------------------------------------------------------
(* The server process dies and is started again: its threads and its mutex *)
(* are gone, and with them the connections, also those whose request has   *)
(* not arrived; the database and the files are what they were.             *)
Restart ==
  \E cut \in SUBSET {t \in Thread : pc[t] = "idle"} :
    /\ Active \cup cut # {} \/ mutex # None
    /\ mutex' = None
    /\ pc' = [t \in Thread |-> IF t \in Active \cup cut THEN "lost" ELSE pc[t]]
    /\ UNCHANGED <<disk, request, answer, reply, earlier>>

(* Every connection is closed. *)
Terminated == /\ \A t \in Thread : pc[t] \in {"done", "lost"}
              /\ mutex = None
              /\ UNCHANGED vars

Handle(t) ==
  \/ Unreadable(t) \/ Patterns(t)
  \/ AuthFails(t) \/ UnknownPattern(t) \/ AuthPasses(t)
  \/ ReadAvatar(t) \/ CountTests(t) \/ ReadTest(t) \/ RowVanished(t)
  \/ CheckLogin(t) \/ Truncate(t) \/ Write(t)
  \/ LockMutex(t) \/ Unlock(t) \/ InsertUser(t) \/ InsertUserThrows(t)
  \/ FindRow(t) \/ InsertRow(t) \/ UpdateRow(t) \/ ResultThrows(t)
  \/ DeleteTests(t) \/ InsertTest(t) \/ UploadDone(t)

Next == \/ \E t \in Thread : Receive(t) \/ Handle(t)
        \/ Restart
        \/ Terminated

(* A thread that can go on does: the operating system schedules it and a   *)
(* free mutex is handed to a thread that waits for it.  Clients need not   *)
(* send, the server need not restart.                                      *)
Spec == Init /\ [][Next]_vars /\ \A t \in Thread : WF_vars(Handle(t))

-----------------------------------------------------------------------------
(***************************************************************************)
(*                               Properties                                *)
(***************************************************************************)
TypeOK ==
  /\ DOMAIN User \subseteq Login /\ User \in [DOMAIN User -> Account]
  /\ User_test \subseteq [id : Nat, id_user : Login, id_pattern : Pattern,
                          count_correct : Result]
  /\ last_id \in Nat
  /\ files \in [Path -> Content]
  /\ mutex \in Thread \cup {None}
  /\ pc \in [Thread -> {"idle", "unreadable", "patterns", "is_correct_auth", "avatar",
                        "count", "row", "login_free", "truncate", "write", "lock",
                        "insert_user", "unlock", "find_row", "insert_row",
                        "update_row", "delete", "insert", "done", "lost"}]
  /\ request \in [Thread -> Request \cup {NoRequest}]
  /\ answer \in [Thread -> {"none", "correct", "uncorrect"}]
  /\ counter \in [Thread -> Nat]
  /\ cursor \in [Thread -> Nat]
  /\ tests \in [Thread -> Seq([name : Pattern, result : Result])]
  /\ avatar \in [Thread -> Content]
  /\ earlier \in [Thread -> SUBSET Thread]

Answered(t, kind, a) == pc[t] = "done" /\ answer[t] = a /\ request[t].kind = kind

(* Neither request had been dealt with when the other one arrived. *)
Overlap(t, u) == t # u /\ t \notin earlier[u] /\ u \notin earlier[t]

Rival(t, u, kinds) == /\ Overlap(t, u)
                      /\ request[u].kind \in kinds
                      /\ request[u].login = request[t].login

(* Mutual exclusion: the statements between mutex.lock() and mutex.unlock() *)
(* of reg and of result are executed by the holder of the mutex only.       *)
InSection(t) == pc[t] \in {"insert_user", "find_row", "insert_row", "update_row", "unlock"}

CriticalSection == \A t \in Thread : InSection(t) => mutex = t

(* A request that was refused by a statement under the lock, which its text *)
(* made fail: an INSERT of reg that violates UNIQUE, or a result of a known *)
(* pattern that is no number.                                               *)
ThrewUnderLock(t) ==
  \/ Answered(t, "registration", "uncorrect")
  \/ /\ Answered(t, "result", "uncorrect")
     /\ request[t].test.name \in Pattern /\ request[t].test.result \in Malformed

(* The mutex is held outside of those statements only after one of them has *)
(* thrown, for one of these two reasons: no other way through the handlers  *)
(* leaks it.                                                                *)
MutexLeakedOnlyByThrow == mutex # None => InSection(mutex) \/ ThrewUnderLock(mutex)

(* Two connections that register the same login are not both told           *)
(* "correct", and whoever is told so has an account with its own password.  *)
RegisteredOnce ==
  \A t \in Thread : Answered(t, "registration", "correct") =>
    /\ is_correct_auth(request[t])
    /\ \A u \in Thread \ {t} :
         Answered(u, "registration", "correct") => request[u].login # request[t].login

(* No handler removes an account or changes its password or picture.        *)
AccountsPersist ==
  [][\A l \in DOMAIN User : l \in DOMAIN User' /\ User'[l] = User[l]]_vars

(* A user has at most one result for a pattern, however the requests that   *)
(* result handles interleave (it counts and inserts under the mutex).       *)
OneRowPerResult ==
  \A row, other \in User_test :
    row.id_user = other.id_user /\ row.id_pattern = other.id_pattern => row = other

(* The same when results are also uploaded: two rows for one pattern need   *)
(* an upload of that user that overlapped another upload or result of his   *)
(* (no client lists a pattern twice in one upload).                         *)
OneRowUnlessUploadsOverlap ==
  \A l \in Login :
    (\E row, other \in RowsOf(l) : row.id_pattern = other.id_pattern /\ row # other)
    => \E t, u \in Thread : /\ request[t].kind = "set_all_result" /\ request[t].login = l
                            /\ Rival(t, u, {"set_all_result", "result"})

UploadsNothing(l) ==
  \A t \in Thread : request[t].kind = "set_all_result" => request[t].login # l

(* The last result wins: once result is answered "correct", the stored      *)
(* value for that user and pattern was sent by a request that had not been  *)
(* dealt with before this one arrived, if the user uploads nothing.         *)
LastResultWins ==
  \A t \in Thread :
    Answered(t, "result", "correct") /\ UploadsNothing(request[t].login) =>
    \E row \in RowsFor(request[t].login, request[t].test.name), u \in Thread :
      /\ u \notin earlier[t]
      /\ request[u].kind = "result" /\ request[u].login = request[t].login
      /\ request[u].test = [name |-> row.id_pattern, result |-> row.count_correct]

Returns(t) == pc[t] # "done" /\ pc'[t] = "done"

(* An authorization that no result or upload of the same user overlaps      *)
(* returns exactly the stored results: none missing, none twice, none of    *)
(* another user, although it reads them one by one.                         *)
AuthorizationIsExact ==
  [][\A t \in Thread :
       /\ Returns(t) /\ Answered(t, "authorization", "correct")'
       /\ ~ \E u \in Thread : Rival(t, u, {"result", "set_all_result"})
       => /\ {tests'[t][i] : i \in DOMAIN tests'[t]} = {AsTest(row) : row \in RowsOf(request[t].login)}
          /\ Len(tests'[t]) = Cardinality(RowsOf(request[t].login))]_vars

(* An upload that no other writer of the same user overlaps leaves exactly  *)
(* the uploaded results if it is answered "correct", and the ones listed    *)
(* before the first unknown pattern or result that is no number if it is    *)
(* refused.                                                                 *)
UploadIsExact ==
  [][\A t \in Thread :
       /\ Returns(t) /\ request[t].kind = "set_all_result" /\ is_correct_auth(request[t])
       /\ ~ \E u \in Thread : Rival(t, u, {"result", "set_all_result"})
       => LET sent == request[t].tests
              stored == {i \in DOMAIN sent : \A j \in 1..i : /\ sent[j].name \in Pattern
                                                          /\ sent[j].result \in Result}
          IN /\ {AsTest(row) : row \in RowsOf(request[t].login)'} = {sent[i] : i \in stored}
             /\ answer'[t] = "correct" <=> stored = DOMAIN sent]_vars

(* The picture of r's account may be lost to the registration u: they write *)
(* one file, and u was not over when r arrived.  If both are for one login  *)
(* they overlap: once the account is there u is refused before it writes.   *)
(* If only the file is the same (logins that differ in case) u may as well  *)
(* come when r is long over.                                                *)
Overwrites(u, r) ==
  /\ u # r /\ request[u].kind = "registration"
  /\ file_of(request[u]) = file_of(request[r])
  /\ u \notin earlier[r]
  /\ request[u].login = request[r].login => r \notin earlier[u]

(* A registered user is delivered the picture he registered with, unless    *)
(* another registration may have overwritten it: files are written before   *)
(* the INSERT decides who gets the login, and their names are compared in   *)
(* another way than logins and paths are by the table.                      *)
AvatarIntact ==
  \A r, t \in Thread :
    /\ Answered(r, "registration", "correct")
    /\ ~ \E u \in Thread : Overwrites(u, r)
    /\ Answered(t, "authorization", "correct") /\ request[t].login = request[r].login
    => avatar[t] = request[r].img

(* The account of a request was there before it arrived. *)
HadAccount(t) ==
  \/ /\ request[t].login \in DOMAIN InitialUser
     /\ InitialUser[request[t].login].password = request[t].password
  \/ \E r \in earlier[t] : /\ Answered(r, "registration", "correct")
                           /\ request[r].login = request[t].login
                           /\ request[r].password = request[t].password

(* "uncorrect" has a reason: a registration is refused when its login or    *)
(* its password is taken, a result of a user with an account only for an    *)
(* unknown pattern or because it is no number, and an authorization only if *)
(* one of his own uploads took away the rows it was reading.                *)
RefusalsJustified ==
  \A t \in Thread :
    /\ Answered(t, "registration", "uncorrect") =>
         \E l \in DOMAIN User : l = request[t].login \/ User[l].password = request[t].password
    /\ Answered(t, "result", "uncorrect") /\ HadAccount(t) =>
         request[t].test.name \notin Pattern \/ request[t].test.result \in Malformed
    /\ Answered(t, "authorization", "uncorrect") /\ HadAccount(t) =>
         \E u \in Thread : Rival(t, u, {"set_all_result"})

(* The server without uploads implements the book of accounts and results.  *)
Phase(t) == IF pc[t] \in {"idle", "lost"} THEN pc[t]
            ELSE IF pc[t] = "done" THEN answer[t]
            ELSE IF pc[t] = "unlock" THEN "applied" ELSE "waiting"

Book == INSTANCE ResultBook WITH
  InitialPasswords <- [l \in DOMAIN InitialUser |-> InitialUser[l].password],
  passwords <- [l \in DOMAIN User |-> User[l].password],
  book <- {[login |-> row.id_user, name |-> row.id_pattern, result |-> row.count_correct] :
             row \in User_test},
  asked <- request,
  phase <- [t \in Thread |-> Phase(t)]

ImplementsBook == Book!Spec

(* Every request that arrives is answered, unless the server dies or the    *)
(* mutex has been leaked by a registration or a result whose statement      *)
(* threw under it.                                                          *)
AnsweredUnlessLeaked ==
  \A t \in Thread :
    pc[t] # "idle" ~> \/ pc[t] \in {"done", "lost"}
                      \/ \E r \in Thread : mutex = r /\ ThrewUnderLock(r)

=============================================================================
