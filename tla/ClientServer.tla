---------------------------- MODULE ClientServer ----------------------------
(***************************************************************************)
(* The results of one account, kept in the server's table and in the local *)
(* database of every computer its owner has logged in on: the buttons that *)
(* load and upload them (client/mainwindow.cpp) composed with the handlers *)
(* of the server (HandlerServer).  Each connection is a thread of the      *)
(* server; how its bytes are framed is in MainWindow and TcpServer, here a *)
(* request arrives whole or, as one recv may return less, in part.         *)
(***************************************************************************)
EXTENDS HandlerServer, SequencesExt

CONSTANTS
  Client,         \* the computers
  login, password, \* the account, which is in main.db of the server
  Taken           \* bound: the results of the tests that are taken

ASSUME TakenAssumption == Taken \subseteq [name : Pattern, result : Result]
ASSUME AccountAssumption == login \in DOMAIN InitialUser /\ InitialUser[login].password = password
ASSUME TablesAssumption == IsFiniteSet(Pattern) /\ None \notin Result

(* What a local table may hold, and the rows of one as send_test_result     *)
(* sends them: by their rowid; a test that is taken again becomes the last  *)
(* row, which no property asks for.                                         *)
Tables == {table \in [Name -> Result \cup {None}] :
             \A n \in Name : table[n] # None => n \in Pattern}

ResultsOf(table) == {[name |-> n, result |-> table[n]] : n \in {m \in Name : table[m] # None}}

TestsOf(table) == SetToSeq(ResultsOf(table))

(* The clients send loads and uploads, of which a part may arrive.          *)
ASSUME SendsAssumption == /\ Kinds = {"unreadable", "authorization", "set_all_result"}
                          /\ Uploads = {TestsOf(table) : table \in Tables}

VARIABLES
  local,    \* client -> its table User_test: pattern -> result, or None
  forward,  \* client -> type_forward: load_result or upload_result
  socket,   \* client -> the connection, or None: a null pointer
  link,     \* client -> its state: connecting, waiting for an answer, or closed
  sent,     \* connection -> the request that is on its way
  since,    \* history: client -> patterns whose test was taken while it waits
  success   \* history: client -> it was told of a success since it clicked

clientVars == <<local, forward, socket, link, sent, since, success>>
allVars == <<vars, clientVars>>

NoResults == [n \in Name |-> None]

ClientInit ==
  /\ Init
  /\ local \in [Client -> {NoResults}]
  /\ forward = [c \in Client |-> "load_result"]
  /\ socket = [c \in Client |-> None]
  /\ link = [c \in Client |-> "closed"]
  /\ sent = [t \in Thread |-> NoRequest]
  /\ since = [c \in Client |-> {}]
  /\ success = [c \in Client |-> FALSE]

Unused == {t \in Thread : pc[t] = "idle" /\ sent[t] = NoRequest /\ \A c \in Client : socket[c] # t}

-----------------------------------------------------------------------------
(* check_test: DELETE and INSERT of the result of a test. *)
check_test(c) ==
  /\ \E test \in Taken :
       /\ local' = [local EXCEPT ![c][test.name] = test.result]
       /\ since' = [since EXCEPT ![c] = IF link[c] = "waiting" THEN @ \cup {test.name} ELSE @]
  /\ UNCHANGED <<vars, forward, socket, link, sent, success>>

(* socket.reset(new QTcpSocket()), connectToHost: the old one is gone.      *)
Reconnect(c) == /\ Unused # {}
                /\ socket' = [socket EXCEPT ![c] = CHOOSE t \in Unused : TRUE]
                /\ link' = [link EXCEPT ![c] = "connecting"]
                /\ since' = [since EXCEPT ![c] = {}]

(* on_load_result_clicked, on_upload_result_clicked *)
Click(c) ==
  /\ Reconnect(c)
  /\ \E f \in {"load_result", "upload_result"} : forward' = [forward EXCEPT ![c] = f]
  /\ success' = [success EXCEPT ![c] = FALSE]
  /\ UNCHANGED <<vars, local, sent>>

on_settings_save_clicked(c) ==
  /\ socket[c] # None
  /\ Reconnect(c)
  /\ UNCHANGED <<vars, local, forward, sent, success>>

RequestOf(c) ==
  IF forward[c] = "load_result"
  THEN [kind |-> "authorization", login |-> login, password |-> password]
  ELSE [kind |-> "set_all_result", login |-> login, password |-> password, tests |-> TestsOf(local[c])]

slotConnected(c) ==
  /\ link[c] = "connecting"
  /\ sent' = [sent EXCEPT ![socket[c]] = RequestOf(c)]
  /\ link' = [link EXCEPT ![c] = "waiting"]
  /\ UNCHANGED <<vars, local, forward, socket, since, success>>

(* The server cannot be reached, or it died: the socket stays. *)
slotError(c) ==
  /\ \/ link[c] = "connecting"
     \/ link[c] = "waiting" /\ pc[socket[c]] = "lost"
  /\ link' = [link EXCEPT ![c] = "closed"]
  /\ since' = [since EXCEPT ![c] = {}]
  /\ UNCHANGED <<vars, local, forward, socket, sent, success>>

-----------------------------------------------------------------------------
(* recv_data_handler, of a load and of an upload. *)
Stale(c, rows) == [n \in Name |-> LET i == SelectInSeq(rows, LAMBDA x : x.name = n)
                                  IN IF i = 0 THEN local[c][n] ELSE rows[i].result]

(* fill_db_result_test: the table is emptied; pattern is its key, and a     *)
(* second INSERT for one pattern fails unnoticed.                           *)
fill_db_result_test(c, rows) ==
  [n \in Name |-> LET i == SelectInSeq(rows, LAMBDA x : x.name = n)
                  IN IF i = 0 THEN None ELSE rows[i].result]

KeepSocket(c) == socket' = socket

(* socket.reset() *)
ResetSocket(c) == socket' = [socket EXCEPT ![c] = None]

recv_data_handler(c) ==
  /\ link[c] = "waiting"
  /\ pc[socket[c]] = "done"
  /\ link' = [link EXCEPT ![c] = "closed"]
  /\ IF answer[socket[c]] = "correct"
     THEN /\ ResetSocket(c)
          /\ success' = [success EXCEPT ![c] = TRUE]
          /\ local' = IF forward[c] = "load_result"
                      THEN [local EXCEPT ![c] = fill_db_result_test(c, tests[socket[c]])]
                      ELSE local
     ELSE UNCHANGED <<local, socket, success>>
  /\ since' = [since EXCEPT ![c] = {}]
  /\ UNCHANGED <<vars, forward, sent>>

-----------------------------------------------------------------------------
(* The server process dies.  The requests that are on their way to it and   *)
(* the connections they are in are lost.                                    *)
ServerDies ==
  /\ Restart
  /\ \A t \in Thread : pc[t] = "idle" => (pc'[t] = "lost" <=> sent[t] # NoRequest)
  /\ sent' = [t \in Thread |-> NoRequest]
  /\ UNCHANGED <<local, forward, socket, link, since, success>>

(* The text arrives with one recv: whole, or a part of it that does not     *)
(* parse, or the part up to </type>, and the server dies over the body that *)
(* is not there.                                                            *)
Arrives(t) == /\ sent[t] # NoRequest
              /\ sent' = [sent EXCEPT ![t] = NoRequest]
              /\ UNCHANGED <<local, forward, socket, link, since, success>>

ArrivesWhole(t) ==
  /\ Arrives(t)
  /\ Received(t, sent[t])

ArrivesTorn(t) ==
  /\ Arrives(t)
  /\ Received(t, [kind |-> "unreadable"])

ArrivesWithoutBody(t) == sent[t] # NoRequest /\ ServerDies

Deliver(t) == ArrivesWhole(t) \/ ArrivesTorn(t) \/ ArrivesWithoutBody(t)

Reports(c) == slotConnected(c) \/ slotError(c) \/ recv_data_handler(c)

(* No connection is left for another click (the bound of the model). *)
Stopped == /\ Unused = {}
           /\ \A t \in Thread : pc[t] \in {"idle", "done", "lost"}
           /\ UNCHANGED allVars

ClientNext ==
  \/ \E c \in Client : check_test(c) \/ Click(c) \/ on_settings_save_clicked(c) \/ Reports(c)
  \/ \E t \in Thread : Deliver(t) \/ (Handle(t) /\ UNCHANGED clientVars)
  \/ ServerDies
  \/ Stopped

ClientSpec == ClientInit /\ [][ClientNext]_allVars

-----------------------------------------------------------------------------
(***************************************************************************)
(*                               Properties                                *)
(***************************************************************************)
Stored == {AsTest(row) : row \in RowsOf(login)}

LocalResults(c) == ResultsOf(local[c])

SuccessOf(c, f) == success'[c] /\ ~ success[c] /\ forward[c] = f

(* When a computer is told that its results are uploaded, and no other      *)
(* upload of the account overlapped, the server has the results that the    *)
(* computer has, up to the tests taken since it sent them and to uploads    *)
(* that came after.                                                         *)
UploadedIsStored ==
  [][\A c \in Client :
       LET t == socket[c]
       IN /\ SuccessOf(c, "upload_result")
          /\ \A u \in Thread \ {t} : request[u].kind # "set_all_result" \/ u \in earlier[t]
          => /\ {x \in Stored : x.name \notin since[c]} = {x \in LocalResults(c) : x.name \notin since[c]}
             /\ Cardinality(RowsOf(login)) = Cardinality({x.name : x \in Stored})]_allVars

(* When a computer is told that it has loaded the results, and no upload    *)
(* overlapped, it has those that are stored, and nothing it had before.     *)
LoadedIsStored ==
  [][\A c \in Client :
       /\ SuccessOf(c, "load_result")
       /\ \A u \in Thread : request[u].kind # "set_all_result" \/ u \in earlier[socket[c]]
       /\ \A n \in Pattern : Cardinality(RowsFor(login, n)) <= 1
       => LocalResults(c)' = Stored]_allVars

(* A load or an upload is sent again without a click (the settings were     *)
(* saved) only while the user has not been told that it succeeded.          *)
RepeatedOnlyUntilSuccess ==
  [][\A c \in Client : sent' # sent /\ link[c] = "connecting" /\ link'[c] = "waiting" => ~ success[c]]_allVars

=============================================================================
