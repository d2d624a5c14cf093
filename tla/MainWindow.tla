------------------------------ MODULE MainWindow ------------------------------
(***************************************************************************)
(* The client's main window (client/mainwindow.cpp): its pages, the one    *)
(* socket it has at a time, and what it makes of an answer.  An answer     *)
(* does not say what it answers: recv_data_handler goes by the member      *)
(* forward as it is when the answer is complete.                           *)
(* One thread runs everything: an action is one slot, called by a click or *)
(* by an event of the socket.  A message box is modal, so no click comes   *)
(* between the statements of a slot that shows one.                        *)
(* A definition nothing uses (Reused, OtherForm, ...) is what a mistake    *)
(* would make of the one right after it; the mutants swap the two.         *)
(***************************************************************************)
EXTENDS Integers

CONSTANTS
  Account,  \* pairs of login and password
  None,     \* an empty field
  Length    \* kind of request, answer -> bytes of the text

Kind == {"authorization", "registration", "set_all_result", "patterns"}
Forward == {"login", "registration", "load_result", "upload_result", "load_patterns"}

ASSUME NoneAssumption == None \notin Account
ASSUME LengthAssumption == Length \in [Kind \X {"correct", "uncorrect"} -> Nat \ {0, 1}]

VARIABLES
  screen,
  forward,
  is_auth,
  db,           \* main.db is there
  user,         \* its table User
  login_form,   \* login_lineEdit and password_lineEdit
  reg_form,     \* reg_login and reg_pas
  base64_file,  \* none, chosen in the dialog or fetched from the server
  file_type,    \* its suffix is known
  enabled,      \* login_2 and register_2
  socket,       \* the connection, with what the server has of it
  msg_length,   \* the bytes slotReadyRead waits for
  undefined,    \* an element that is not there was used: the process ends
  accepted,     \* history: the account of the last answer "correct"
  mixed,        \* history: a form or a page was changed while a request waited
  cut           \* history: a connection was given up between length and text

local == <<db, user>>
forms == <<login_form, reg_form, base64_file, file_type>>
history == <<accepted, mixed, cut>>
vars == <<screen, forward, is_auth, local, forms, enabled, socket, msg_length, undefined,
          history>>

NoRequest == [kind |-> "none"]

(* state   none, connecting, connected or closed                            *)
(* answer  none, correct or uncorrect;   arrived   its bytes, prefix and all *)
(* prefix  the four bytes of the length have been read                      *)
NoSocket == [state |-> "none", request |-> NoRequest, answer |-> "none",
             arrived |-> 0, prefix |-> FALSE]

NewSocket == [NoSocket EXCEPT !.state = "connecting"]

Credentials(kind, account) == [kind |-> kind, account |-> account]

(* send: the server reads one request from a connection, and no more. *)
Send(s, r) == IF s.request = NoRequest THEN [s EXCEPT !.request = r] ELSE s

(* The kind of request whose answer forward expects. *)
Expected == CASE forward \in {"login", "load_result"} -> "authorization"
              [] forward = "registration"             -> "registration"
              [] forward = "upload_result"            -> "set_all_result"
              [] forward = "load_patterns"            -> "patterns"

-----------------------------------------------------------------------------
(* The constructor, without and with a database. *)
Started ==
  \/ /\ ~ db
     /\ screen' = "login" /\ forward' = "login" /\ is_auth' = FALSE
     /\ socket' = NewSocket
  \/ /\ db
     /\ screen' = "personal_area" /\ is_auth' = TRUE
     /\ socket' = NoSocket
     /\ forward' = forward           \* uninitialised; never read

Init ==
  /\ \/ /\ db = FALSE /\ user = None /\ is_auth = FALSE
        /\ screen = "login" /\ socket = NewSocket /\ forward = "login"
     \/ /\ db = TRUE /\ user \in Account /\ is_auth = TRUE
        /\ screen = "personal_area" /\ socket = NoSocket /\ forward \in Forward
  /\ login_form = None /\ reg_form = None
  /\ base64_file = "none" /\ file_type = FALSE
  /\ enabled = FALSE
  /\ msg_length = -1
  /\ undefined = FALSE
  /\ accepted = user /\ mixed = FALSE /\ cut = FALSE

(* The program has died or is closed, and is started again. *)
Restart ==
  /\ Started
  /\ login_form' = None /\ reg_form' = None
  /\ base64_file' = "none" /\ file_type' = FALSE
  /\ enabled' = FALSE
  /\ msg_length' = -1
  /\ undefined' = FALSE
  /\ cut' = FALSE
  /\ UNCHANGED <<local, accepted, mixed>>

-----------------------------------------------------------------------------
(* The user. *)
On(pages) == ~ undefined /\ screen \in pages

Waits == socket.request # NoRequest

Type ==
  /\ \E a \in Account \cup {None} :
       \/ On({"login"}) /\ login_form' = a /\ UNCHANGED <<reg_form, base64_file, file_type>>
       \/ On({"registration"}) /\ reg_form' = a /\ UNCHANGED <<login_form, base64_file, file_type>>
       \/ /\ On({"registration"})                              \* on_reg_img_clicked
          /\ base64_file' = "chosen" /\ file_type' = TRUE
          /\ UNCHANGED <<login_form, reg_form>>
  /\ mixed' = (mixed \/ Waits)
  /\ UNCHANGED <<screen, forward, is_auth, local, enabled, socket, msg_length, undefined,
                 accepted, cut>>

(* on_login_2_clicked and on_register_2_clicked *)
Click(r) ==
  /\ enabled
  /\ socket' = Send(socket, r)
  /\ mixed' = IF Waits THEN mixed ELSE FALSE
  /\ UNCHANGED <<screen, forward, is_auth, local, forms, enabled, msg_length, undefined,
                 accepted, cut>>

LogIn == /\ On({"login"}) /\ login_form # None
         /\ Click(Credentials("authorization", login_form))

Register ==
  /\ On({"registration"}) /\ reg_form # None /\ base64_file # "none"
  /\ Click([kind |-> "registration", account |-> reg_form, img |-> base64_file,
            img_type |-> file_type])

Turn(from, to) == /\ On({from})
                  /\ screen' = to
                  /\ UNCHANGED <<is_auth, local, forms, enabled, socket, msg_length,
                                 undefined, history>>

(* on_to_register_clicked and on_to_login_clicked *)
TurnRegistration == Turn("login", "registration") /\ forward' = "registration"

TurnLogin == Turn("registration", "login") /\ forward' = "login"

(* The other buttons that change the page, on_to_back_clicked among them.   *)
BackPage == IF is_auth THEN "personal_area" ELSE "login"

TurnPage ==
  /\ \/ \E page \in {"login", "registration", "personal_area"} : Turn(page, "settings")
     \/ Turn("settings", BackPage)
     \/ \E page \in {"patterns", "result_test"} :
          Turn("personal_area", page) \/ Turn(page, "personal_area")
  /\ UNCHANGED forward

(* A new QTcpSocket; msg_length keeps its value. *)
Reused == IF socket = NoSocket THEN NewSocket ELSE socket

Fresh == NewSocket

Connect == /\ socket' = Fresh
           /\ cut' = (msg_length # -1)
           /\ UNCHANGED <<msg_length, accepted, mixed>>

(* on_load_result_clicked, on_upload_result_clicked, on_update_patterns_clicked *)
Request(page, purpose) ==
  /\ On({page})
  /\ forward' = purpose
  /\ Connect
  /\ UNCHANGED <<screen, is_auth, local, forms, enabled, undefined>>

SettingsSave ==
  /\ On({"settings"})
  /\ socket # NoSocket
  /\ enabled' = FALSE
  /\ Connect
  /\ UNCHANGED <<screen, forward, is_auth, local, forms, undefined>>

Quit ==
  /\ On({"personal_area"})
  /\ is_auth' = FALSE
  /\ Connect
  /\ screen' = "login" /\ forward' = "login"
  /\ db' = FALSE /\ user' = None
  /\ enabled' = FALSE
  /\ UNCHANGED <<forms, undefined>>

User == \/ Type \/ LogIn \/ Register \/ TurnRegistration \/ TurnLogin \/ TurnPage
        \/ Request("result_test", "load_result") \/ Request("result_test", "upload_result")
        \/ Request("patterns", "load_patterns")
        \/ SettingsSave \/ Quit

-----------------------------------------------------------------------------
(* The socket. *)
slotConnected ==
  /\ ~ undefined
  /\ socket.state = "connecting"
  /\ LET s == [socket EXCEPT !.state = "connected"]
     IN \/ /\ forward \in {"login", "registration"}
           /\ enabled' = TRUE /\ socket' = s
        \/ /\ forward \notin {"login", "registration"}
           /\ socket' = Send(s, Credentials(Expected, user))
           /\ UNCHANGED enabled
  /\ UNCHANGED <<screen, forward, is_auth, local, forms, msg_length, undefined, history>>

(* The connection cannot be made, or is lost. *)
slotError ==
  /\ ~ undefined
  /\ socket.state \in {"connecting", "connected"}
  /\ IF forward \in {"login", "registration"}
     THEN socket' = NewSocket /\ cut' = (msg_length # -1)
     ELSE socket' = [socket EXCEPT !.state = "closed"] /\ UNCHANGED cut
  /\ UNCHANGED <<screen, forward, is_auth, local, forms, enabled, msg_length, undefined,
                 accepted, mixed>>

(* The server answers the request, HandlerServer says how. *)
Serve ==
  /\ socket.state = "connected" /\ Waits /\ socket.answer = "none"
  /\ \E a \in {"correct", "uncorrect"} : socket' = [socket EXCEPT !.answer = a]
  /\ UNCHANGED <<screen, forward, is_auth, local, forms, enabled, msg_length, undefined,
                 history>>

TextLength == Length[<<socket.request.kind, socket.answer>>]

-----------------------------------------------------------------------------
(* recv_data_handler, case by case. *)
OtherForm == reg_form

FormOfLogin == login_form

Crash == undefined' = TRUE /\ UNCHANGED <<screen, is_auth, forms, enabled, socket>>

Entered == screen' = "personal_area" /\ is_auth' = TRUE /\ db' = TRUE /\ socket' = NoSocket

(* create_db, then fill_db_login, which needs the picture of an authorization. *)
LoggedIn ==
  /\ forward = "login" /\ socket.answer = "correct"
  /\ IF socket.request.kind = "authorization"
     THEN /\ Entered /\ user' = FormOfLogin
          /\ base64_file' = "fetched"
          /\ UNCHANGED <<login_form, reg_form, file_type, enabled, undefined>>
     ELSE db' = TRUE /\ user' = None /\ Crash

Registered ==
  /\ forward = "registration" /\ socket.answer = "correct"
  /\ Entered /\ user' = reg_form
  /\ base64_file' = "none" /\ file_type' = FALSE
  /\ UNCHANGED <<login_form, reg_form, enabled, undefined>>

(* An exception: the reconnected socket enables the buttons again. *)
Refused ==
  /\ forward \in {"login", "registration"} /\ socket.answer = "uncorrect"
  /\ enabled' = FALSE
  /\ socket' = NewSocket
  /\ UNCHANGED <<screen, is_auth, local, forms, undefined>>

(* load_result, upload_result and load_patterns.  The results or the list  *)
(* of patterns are looked for in any text that is not a refusal, the list  *)
(* even in a refusal.                                                      *)
Found == CASE forward = "load_result" -> \/ socket.answer = "uncorrect"
                                         \/ socket.request.kind = "authorization"
           [] forward = "upload_result" -> TRUE
           [] forward = "load_patterns" -> /\ socket.answer = "correct"
                                           /\ socket.request.kind = "patterns"

Transferred ==
  /\ forward \notin {"login", "registration"}
  /\ IF Found
     THEN /\ socket' = IF socket.answer = "correct" THEN NoSocket
                       ELSE [socket EXCEPT !.state = "closed"]
          /\ UNCHANGED <<screen, is_auth, forms, enabled, undefined>>
     ELSE Crash
  /\ UNCHANGED local

(* The text begins with the bytes of a length: it has no element <body>. *)
Garbled == Crash /\ UNCHANGED local

recv_data_handler(whole) ==
  /\ IF whole THEN LoggedIn \/ Registered \/ Refused \/ Transferred ELSE Garbled
  /\ accepted' = IF socket.answer = "correct" THEN socket.request.account ELSE accepted
  /\ mixed' = (mixed \/ socket.request.kind # Expected)
  /\ cut' = FALSE

(* slotReadyRead, called when n more bytes of the answer have arrived; the *)
(* four bytes of the length count as one.  The server sends a length that  *)
(* counts every byte of the text, the client waits for all but the last.   *)
OneMore(length) == length + 1

Awaited(length) == length - 1

NotReset(length) == length

ResetLength(length) == -1

slotReadyRead(n) ==
  /\ ~ undefined
  /\ socket.state = "connected"
  /\ socket.arrived + n <= 1 + TextLength
  /\ LET prefix == socket.prefix \/ msg_length = -1
         length == IF msg_length = -1 THEN Awaited(TextLength) ELSE msg_length
         bytesAvailable == socket.arrived + n - (IF prefix THEN 1 ELSE 0)
     IN IF bytesAvailable >= length
        THEN msg_length' = ResetLength(length) /\ recv_data_handler(prefix)
        ELSE /\ msg_length' = length
             /\ socket' = [socket EXCEPT !.arrived = @ + n, !.prefix = prefix]
             /\ UNCHANGED <<screen, is_auth, local, forms, enabled, undefined, history>>
  /\ UNCHANGED forward

Arrival == /\ socket.answer # "none"
           /\ \E n \in 1..(1 + TextLength) : slotReadyRead(n)

Next == User \/ slotConnected \/ slotError \/ Serve \/ Arrival \/ Restart

(* What the server has sent arrives while the connection stands.            *)
Spec == Init /\ [][Next]_vars /\ WF_vars(Arrival)

-----------------------------------------------------------------------------
(* The pages of a user are on screen only while there is a database with    *)
(* one, the pages to log in only while there is none; and these always have *)
(* a socket to send through, which no button checks.                        *)
ScreensFitAccount ==
  ~ undefined =>
    /\ is_auth <=> db
    /\ screen \in {"login", "registration"} => ~ is_auth
    /\ screen \in {"personal_area", "patterns", "result_test"} => is_auth
    /\ ~ is_auth => socket.state \in {"connecting", "connected"}

(* An answer is taken for that of another request only between a login and  *)
(* a registration: a load, an upload and an update of the patterns never    *)
(* get each other's answers, whatever is clicked while they wait.           *)
AnswerFitsForward ==
  Waits => \/ socket.request.kind = Expected
           \/ /\ forward \in {"login", "registration"}
              /\ socket.request.kind \in {"authorization", "registration"}

(* The account in the local database is the one the server has accepted,    *)
(* unless a form or the page was changed while the request waited, or       *)
(* forward was not that of the page when the request was sent.              *)
AccountIsServers == is_auth /\ ~ undefined /\ ~ mixed => user = accepted

(* The length slotReadyRead waits for is that of the answer on the present  *)
(* connection, and is not there yet, unless an earlier connection was given *)
(* up after its length and before the end of its text.                      *)
WaitsForOwnAnswer ==
  msg_length # -1 /\ ~ cut =>
    socket.prefix /\ msg_length = TextLength - 1 /\ socket.arrived - 1 < msg_length

(* The program breaks down over an answer only after such a connection,     *)
(* when a registration is accepted after the page was turned to the login,  *)
(* or when the list of patterns is refused.                                 *)
CrashHasReason ==
  [][undefined' /\ ~ undefined =>
       \/ cut
       \/ forward = "login" /\ socket.request.kind = "registration"
       \/ forward = "load_patterns" /\ socket.answer = "uncorrect"]_vars

(* An answer the server has sent is handled, unless the connection is given *)
(* up or an earlier one was cut.                                            *)
AnswerHandled ==
  socket.state = "connected" /\ socket.answer # "none" ~>
    socket.state # "connected" \/ socket.answer = "none" \/ undefined \/ cut

=============================================================================
