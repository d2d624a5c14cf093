--------------------------- MODULE MainWindowProofs ---------------------------
(***************************************************************************)
(* Theorems about MainWindow, for any accounts and any lengths of answers. *)
(*                                                                         *)
(* Nothing in an answer says what it answers, so everything rests on what  *)
(* the window knows when it arrives: where forward can be for the page on  *)
(* screen (ScreensInv), that a request is only left waiting for the answer *)
(* forward expects (AnswerInv), that no byte precedes the answer           *)
(* (SocketInv), and whose account a waiting request carries (AccountInv).  *)
(***************************************************************************)
EXTENDS MainWindow, TLAPS

Page == {"login", "registration", "settings", "personal_area", "patterns", "result_test"}

Requests == [kind : Kind, account : Account \cup {None}]
              \cup [kind : {"registration"}, account : Account,
                    img : {"chosen", "fetched"}, img_type : BOOLEAN]

Socket == [state : {"none", "connecting", "connected", "closed"},
           request : Requests \cup {NoRequest},
           answer : {"none", "correct", "uncorrect"}, arrived : Nat, prefix : BOOLEAN]

Typed ==
  /\ screen \in Page
  /\ forward \in Forward
  /\ is_auth \in BOOLEAN /\ db \in BOOLEAN /\ enabled \in BOOLEAN /\ undefined \in BOOLEAN
  /\ mixed \in BOOLEAN /\ cut \in BOOLEAN /\ file_type \in BOOLEAN
  /\ user \in Account \cup {None} /\ accepted \in Account \cup {None}
  /\ login_form \in Account \cup {None} /\ reg_form \in Account \cup {None}
  /\ base64_file \in {"none", "chosen", "fetched"}
  /\ socket \in Socket
  /\ msg_length \in Int

(* Nobody is logged in: forward is that of the pages to log in.  Somebody   *)
(* is: the socket, if there is one, was opened for another purpose.         *)
ScreensInv ==
  /\ ScreensFitAccount
  /\ ~ undefined /\ ~ is_auth => forward \in {"login", "registration"}
  /\ ~ undefined /\ is_auth /\ socket # NoSocket => forward \notin {"login", "registration"}

SocketInv == /\ socket.answer # "none" => Waits
             /\ socket.prefix => socket.answer # "none"

(* Whose account the database and a request that waits carry. *)
AccountInv ==
  /\ db /\ ~ mixed => user = accepted
  /\ is_auth /\ Waits => socket.request.account = user
  /\ ~ mixed /\ Waits /\ ~ is_auth =>
       /\ socket.request.kind = "authorization" => login_form = socket.request.account
       /\ socket.request.kind = "registration" => reg_form = socket.request.account

IInv == /\ Typed /\ ScreensInv /\ SocketInv /\ AnswerFitsForward /\ WaitsForOwnAnswer
        /\ AccountInv

-----------------------------------------------------------------------------
LEMMA RequestFields ==
  /\ \A r \in Requests : r # NoRequest /\ r.kind \in Kind /\ r.account \in Account \cup {None}
  /\ NoRequest \notin Requests /\ NoRequest.kind = "none"
  BY DEF Requests, NoRequest, Kind

LEMMA CredentialsFields ==
  ASSUME NEW k \in Kind, NEW a \in Account \cup {None}
  PROVE  /\ Credentials(k, a) \in Requests
         /\ Credentials(k, a).kind = k /\ Credentials(k, a).account = a
  BY DEF Credentials, Requests

LEMMA SocketsTyped ==
  /\ NoSocket \in Socket /\ NewSocket \in Socket /\ NewSocket # NoSocket
  /\ NoSocket.state = "none" /\ NewSocket.state = "connecting"
  /\ NoSocket.request = NoRequest /\ NewSocket.request = NoRequest
  /\ NoSocket.answer = "none" /\ NewSocket.answer = "none"
  /\ NoSocket.prefix = FALSE /\ NewSocket.prefix = FALSE
  BY DEF NoSocket, NewSocket, Socket

(* Sending is the first request only. *)
LEMMA SendEffect ==
  ASSUME NEW s \in Socket, NEW r \in Requests
  PROVE  /\ Send(s, r) \in Socket
         /\ s.request = NoRequest => Send(s, r).request = r
         /\ s.request # NoRequest => Send(s, r) = s
         /\ Send(s, r).state = s.state /\ Send(s, r).answer = s.answer
         /\ Send(s, r).prefix = s.prefix /\ Send(s, r).arrived = s.arrived
  BY DEF Send, Socket

LEMMA TextLengthTyped ==
  ASSUME Typed, Waits, socket.answer # "none"
  PROVE  TextLength \in Nat /\ TextLength > 1
  <1>1. socket.request \in Requests /\ socket.answer \in {"correct", "uncorrect"}
    BY DEF Typed, Socket, Waits
  <1>2. socket.request.kind \in Kind
    BY <1>1, RequestFields
  <1>3. <<socket.request.kind, socket.answer>> \in Kind \X {"correct", "uncorrect"}
    BY <1>1, <1>2
  <1>4. Length[<<socket.request.kind, socket.answer>>] \in Nat \ {0, 1}
    BY <1>3, LengthAssumption
  <1>5. TextLength \in Nat \ {0, 1}
    BY <1>4 DEF TextLength
  <1> QED BY <1>5

LEMMA InitIInv == Init => IInv
  <1> SUFFICES ASSUME Init PROVE IInv
    OBVIOUS
  <1> USE SocketsTyped DEF Init
  <1>1. Typed
    <2>1. forward \in Forward /\ screen \in Page
      BY DEF Page, Forward
    <2>2. socket \in Socket /\ user \in Account \cup {None} /\ accepted \in Account \cup {None}
      OBVIOUS
    <2>3. /\ db \in BOOLEAN /\ is_auth \in BOOLEAN /\ enabled \in BOOLEAN /\ undefined \in BOOLEAN
          /\ mixed \in BOOLEAN /\ cut \in BOOLEAN /\ file_type \in BOOLEAN
      OBVIOUS
    <2>4. /\ msg_length \in Int /\ base64_file \in {"none", "chosen", "fetched"}
          /\ login_form \in Account \cup {None} /\ reg_form \in Account \cup {None}
      OBVIOUS
    <2> QED BY <2>1, <2>2, <2>3, <2>4 DEF Typed
  <1>2. ScreensInv
    BY DEF ScreensInv, ScreensFitAccount
  <1>3. SocketInv /\ AnswerFitsForward /\ WaitsForOwnAnswer
    BY DEF SocketInv, AnswerFitsForward, WaitsForOwnAnswer, Waits
  <1>4. AccountInv
    BY DEF AccountInv, Waits
  <1> QED BY <1>1, <1>2, <1>3, <1>4 DEF IInv

-----------------------------------------------------------------------------
(* The steps that leave the socket as it is. *)
LEMMA NextType == ASSUME IInv, Type PROVE IInv'
  <1> USE DEF IInv, Type, On, local
  <1>1. Typed'
    BY DEF Typed
  <1>2. ScreensInv'
    BY DEF ScreensInv, ScreensFitAccount
  <1>3. SocketInv' /\ AnswerFitsForward' /\ WaitsForOwnAnswer'
    BY DEF SocketInv, AnswerFitsForward, WaitsForOwnAnswer, Waits, Expected, TextLength
  <1>4. AccountInv'
    BY DEF AccountInv, Waits, Typed
  <1> QED BY <1>1, <1>2, <1>3, <1>4

LEMMA NextTurn ==
  ASSUME IInv, TurnRegistration \/ TurnLogin \/ TurnPage
  PROVE  IInv'
  <1>1. /\ UNCHANGED <<is_auth, local, forms, enabled, socket, msg_length, undefined, history>>
        /\ ~ undefined
    BY DEF TurnRegistration, TurnLogin, TurnPage, Turn, On
  <1>2. /\ screen' \in Page
        /\ \/ screen \in {"login", "registration"} /\ forward' \in {"login", "registration"}
           \/ forward' = forward
        /\ screen' \in {"login", "registration"} => ~ is_auth
        /\ screen' \in {"personal_area", "patterns", "result_test"} => is_auth
    BY DEF TurnRegistration, TurnLogin, TurnPage, Turn, On, Page, BackPage, IInv, Typed, ScreensInv,
           ScreensFitAccount
  <1>3. Typed'
    BY <1>1, <1>2 DEF IInv, Typed, local, forms, history, Forward
  <1>4. ScreensInv'
    BY <1>1, <1>2 DEF IInv, ScreensInv, ScreensFitAccount, local
  <1>5. AnswerFitsForward'
    BY <1>1, <1>2 DEF IInv, ScreensInv, ScreensFitAccount, AnswerFitsForward, Waits, Expected
  <1>6. SocketInv' /\ WaitsForOwnAnswer'
    BY <1>1 DEF IInv, SocketInv, WaitsForOwnAnswer, Waits, TextLength, history
  <1>7. AccountInv'
    BY <1>1 DEF IInv, AccountInv, Waits, local, forms, history
  <1> QED BY <1>3, <1>4, <1>5, <1>6, <1>7 DEF IInv

(* The steps that begin with a new socket. *)
LEMMA NextConnect ==
  ASSUME IInv,
         \/ Request("result_test", "load_result") \/ Request("result_test", "upload_result")
         \/ Request("patterns", "load_patterns")
         \/ SettingsSave \/ Quit
  PROVE  IInv'
  <1>1. /\ socket' = NewSocket /\ cut' = (msg_length # -1)
        /\ UNCHANGED <<msg_length, accepted, mixed, forms, undefined>>
        /\ ~ undefined
    BY DEF Request, SettingsSave, Quit, Connect, Fresh, On, forms
  <1>2. /\ socket' \in Socket /\ socket' # NoSocket /\ ~ Waits'
        /\ socket'.state = "connecting" /\ socket'.answer = "none" /\ ~ socket'.prefix
    BY <1>1, SocketsTyped DEF Waits
  <1>3. \/ /\ is_auth /\ is_auth' = is_auth /\ UNCHANGED <<screen, user, db>>
           /\ forward' \in Forward \ {"login", "registration"}
        \/ UNCHANGED <<is_auth, screen, user, db, forward>> /\ socket # NoSocket
        \/ ~ is_auth' /\ ~ db' /\ screen' = "login" /\ forward' = "login" /\ user' = None /\ is_auth' \in BOOLEAN /\ db' \in BOOLEAN
    BY DEF Request, SettingsSave, Quit, On, local, IInv, ScreensInv, ScreensFitAccount, Forward
  <1>4. enabled' \in BOOLEAN
    BY DEF Request, SettingsSave, Quit, IInv, Typed
  <1>5. cut' \in BOOLEAN
    BY <1>1
  <1>6. Typed'
    BY <1>1, <1>2, <1>3, <1>4, <1>5 DEF IInv, Typed, forms, Forward, Page
  <1>7. ScreensInv'
    BY <1>1, <1>2, <1>3 DEF IInv, ScreensInv, ScreensFitAccount
  <1>8. SocketInv' /\ AnswerFitsForward' /\ WaitsForOwnAnswer'
    BY <1>1, <1>2 DEF SocketInv, AnswerFitsForward, WaitsForOwnAnswer
  <1>9. AccountInv'
    BY <1>1, <1>2, <1>3 DEF IInv, AccountInv
  <1> QED BY <1>6, <1>7, <1>8, <1>9 DEF IInv

LEMMA NextRestart == ASSUME IInv, Restart PROVE IInv'
  <1>1. /\ socket' \in {NoSocket, NewSocket} /\ socket' \in Socket
        /\ ~ Waits' /\ socket'.answer = "none" /\ ~ socket'.prefix
    BY SocketsTyped DEF Restart, Started, Waits
  <1>2. /\ msg_length' = -1 /\ msg_length' \in Int
        /\ UNCHANGED <<db, user, accepted, mixed>>
        /\ enabled' = FALSE /\ undefined' = FALSE /\ cut' = FALSE
        /\ login_form' = None /\ reg_form' = None /\ base64_file' = "none" /\ file_type' = FALSE
    BY DEF Restart, local
  <1>3. \/ /\ ~ db /\ screen' = "login" /\ forward' = "login" /\ is_auth' = FALSE
           /\ socket' = NewSocket /\ socket'.state = "connecting"
        \/ db /\ screen' = "personal_area" /\ forward' = forward /\ is_auth' = TRUE /\ socket' = NoSocket
    BY SocketsTyped DEF Restart, Started
  <1>4. Typed'
    <2>1. forward' \in Forward /\ screen' \in Page /\ is_auth' \in BOOLEAN
      BY <1>3 DEF Forward, Page, IInv, Typed
    <2>2. /\ base64_file' \in {"none", "chosen", "fetched"} /\ enabled' \in BOOLEAN
          /\ undefined' \in BOOLEAN /\ cut' \in BOOLEAN /\ file_type' \in BOOLEAN
      BY <1>2
    <2>3. login_form' \in Account \cup {None} /\ reg_form' \in Account \cup {None}
      BY <1>2
    <2>4. /\ db' \in BOOLEAN /\ mixed' \in BOOLEAN
          /\ user' \in Account \cup {None} /\ accepted' \in Account \cup {None}
      BY <1>2 DEF IInv, Typed
    <2> QED BY <1>1, <1>2, <2>1, <2>2, <2>3, <2>4 DEF Typed
  <1>5. ScreensInv'
    BY <1>1, <1>2, <1>3 DEF ScreensInv, ScreensFitAccount
  <1>6. SocketInv' /\ AnswerFitsForward' /\ WaitsForOwnAnswer'
    BY <1>1, <1>2 DEF SocketInv, AnswerFitsForward, WaitsForOwnAnswer
  <1>7. AccountInv'
    BY <1>1, <1>2 DEF IInv, AccountInv
  <1> QED BY <1>4, <1>5, <1>6, <1>7 DEF IInv

(* The clicks that send a request. *)
LEMMA NextClick == ASSUME IInv, LogIn \/ Register PROVE IInv'
  <1>1. PICK r \in Requests :
          /\ Click(r) /\ On({"login", "registration"})
          /\ r.kind \in {"authorization", "registration"}
          /\ r.kind = "authorization" => r.account = login_form
          /\ r.kind = "registration" => r.account = reg_form
    <2>1. CASE LogIn
      <3>1. /\ Credentials("authorization", login_form) \in Requests
            /\ Credentials("authorization", login_form).kind = "authorization"
            /\ Credentials("authorization", login_form).account = login_form
        BY CredentialsFields DEF IInv, Typed, Kind
      <3> QED BY <2>1, <3>1 DEF LogIn, On
    <2>2. CASE Register
      <3> DEFINE r == [kind |-> "registration", account |-> reg_form, img |-> base64_file,
                       img_type |-> file_type]
      <3>1. r \in Requests /\ r.kind = "registration" /\ r.account = reg_form
        BY <2>2 DEF Register, Requests, IInv, Typed
      <3> QED BY <2>2, <3>1 DEF Register, On
    <2> QED BY <2>1, <2>2
  <1>2. /\ UNCHANGED <<screen, forward, is_auth, local, forms, enabled, msg_length, undefined,
                       accepted, cut>>
        /\ socket' = Send(socket, r) /\ ~ undefined
        /\ mixed' = IF Waits THEN mixed ELSE FALSE
        /\ screen \in {"login", "registration"}
    BY <1>1 DEF Click, On
  <1>3. /\ ~ is_auth /\ ~ db /\ forward \in {"login", "registration"}
        /\ socket.state \in {"connecting", "connected"}
    BY <1>2 DEF IInv, ScreensInv, ScreensFitAccount
  <1>4. /\ socket' \in Socket
        /\ socket'.state = socket.state /\ socket'.answer = socket.answer
        /\ socket'.prefix = socket.prefix /\ socket'.arrived = socket.arrived
        /\ \/ Waits /\ socket' = socket
           \/ ~ Waits /\ socket'.request = r
    BY <1>2, SendEffect DEF IInv, Typed, Waits
  <1>5. Waits'
    BY <1>1, <1>4, RequestFields DEF Waits
  <1>6. Typed'
    BY <1>2, <1>4 DEF IInv, Typed, local, forms
  <1>7. ScreensInv'
    BY <1>2, <1>3, <1>4 DEF IInv, ScreensInv, ScreensFitAccount, local
  <1>8. SocketInv'
    BY <1>4, <1>5 DEF IInv, SocketInv
  <1>9. AnswerFitsForward'
    BY <1>1, <1>2, <1>3, <1>4, <1>5 DEF IInv, AnswerFitsForward, Expected
  <1>10. WaitsForOwnAnswer'
    BY <1>2, <1>4 DEF IInv, WaitsForOwnAnswer, SocketInv, TextLength
  <1>11. AccountInv'
    BY <1>1, <1>2, <1>3, <1>4 DEF IInv, AccountInv, local, forms
  <1> QED BY <1>6, <1>7, <1>8, <1>9, <1>10, <1>11 DEF IInv

-----------------------------------------------------------------------------
(* The events of the socket. *)
LEMMA NextConnected == ASSUME IInv, slotConnected PROVE IInv'
  <1> DEFINE s == [socket EXCEPT !.state = "connected"]
  <1>1. /\ s \in Socket /\ s.state = "connected"
        /\ s.request = socket.request /\ s.answer = socket.answer
        /\ s.prefix = socket.prefix /\ s.arrived = socket.arrived
    BY DEF IInv, Typed, Socket
  <1>2. /\ UNCHANGED <<screen, forward, is_auth, local, forms, msg_length, undefined, history>>
        /\ ~ undefined /\ socket.state = "connecting"
        /\ enabled' \in BOOLEAN
    BY DEF slotConnected, IInv, Typed
  <1>3. \/ /\ socket'.request = socket.request /\ socket' \in Socket
           /\ forward \in {"login", "registration"}
        \/ /\ forward \notin {"login", "registration"}
           /\ socket' = Send(s, Credentials(Expected, user))
    BY <1>1 DEF slotConnected
  <1>4. forward \notin {"login", "registration"} =>
          /\ Credentials(Expected, user) \in Requests
          /\ Credentials(Expected, user).kind = Expected
          /\ Credentials(Expected, user).account = user
          /\ is_auth
    <2> SUFFICES ASSUME forward \notin {"login", "registration"}
                 PROVE  /\ Credentials(Expected, user) \in Requests
                        /\ Credentials(Expected, user).kind = Expected
                        /\ Credentials(Expected, user).account = user
                        /\ is_auth
      OBVIOUS
    <2>1. Expected \in Kind
      BY DEF Expected, Kind, IInv, Typed, Forward
    <2>2. is_auth
      BY <1>2 DEF IInv, Typed, ScreensInv
    <2> QED BY <2>1, <2>2, CredentialsFields DEF IInv, Typed
  <1>5. /\ socket' \in Socket /\ socket'.state = "connected" /\ socket'.answer = socket.answer
        /\ socket'.prefix = socket.prefix /\ socket'.arrived = socket.arrived
    <2>1. CASE forward \in {"login", "registration"}
      BY <1>1, <2>1 DEF slotConnected
    <2>2. CASE forward \notin {"login", "registration"}
      <3> DEFINE r == Credentials(Expected, user)
      <3>1. r \in Requests /\ socket' = Send(s, r)
        BY <1>3, <1>4, <2>2
      <3> HIDE DEF r, s
      <3> QED BY <1>1, <3>1, SendEffect
    <2> QED BY <2>1, <2>2
  <1>6. \/ socket'.request = socket.request
        \/ /\ ~ Waits /\ Waits' /\ is_auth
           /\ socket'.request.kind = Expected /\ socket'.request.account = user
    <2>1. CASE forward \notin {"login", "registration"}
      <3>1. \/ socket.request # NoRequest /\ socket'.request = socket.request
            \/ socket.request = NoRequest /\ socket'.request = Credentials(Expected, user)
        BY <1>1, <1>3, <1>4, <2>1, SendEffect
      <3> QED BY <1>4, <2>1, <3>1, RequestFields DEF Waits
    <2> QED BY <1>3, <2>1
  <1> HIDE DEF s
  <1>7. Typed'
    BY <1>2, <1>5 DEF IInv, Typed, local, forms, history
  <1>8. ScreensInv'
    <2>1. socket' # NoSocket
      BY <1>5, SocketsTyped
    <2>2. socket # NoSocket
      BY <1>2, SocketsTyped
    <2> QED BY <1>2, <1>5, <2>1, <2>2 DEF IInv, ScreensInv, ScreensFitAccount, local
  <1>9. SocketInv'
    BY <1>5, <1>6 DEF IInv, SocketInv, Waits
  <1>10. AnswerFitsForward'
    BY <1>2, <1>6 DEF IInv, AnswerFitsForward, Expected, Waits
  <1>11. WaitsForOwnAnswer'
    BY <1>2, <1>5, <1>6 DEF IInv, WaitsForOwnAnswer, SocketInv, TextLength, history
  <1>12. AccountInv'
    BY <1>2, <1>6 DEF IInv, AccountInv, Waits, local, forms, history
  <1> QED BY <1>7, <1>8, <1>9, <1>10, <1>11, <1>12 DEF IInv

LEMMA NextError == ASSUME IInv, slotError PROVE IInv'
  <1>1. /\ UNCHANGED <<screen, forward, is_auth, db, user, login_form, reg_form, base64_file,
                       file_type, enabled, msg_length, undefined, accepted, mixed>>
        /\ ~ undefined /\ socket.state \in {"connecting", "connected"}
    BY DEF slotError, local, forms
  <1>2. socket # NoSocket /\ socket \in Socket
    BY <1>1, SocketsTyped DEF IInv, Typed
  <1>3. CASE forward \in {"login", "registration"}
    <2>1. /\ socket' = NewSocket /\ cut' = (msg_length # -1)
          /\ socket' \in Socket /\ socket' # NoSocket /\ ~ Waits'
          /\ socket'.state = "connecting" /\ socket'.answer = "none" /\ ~ socket'.prefix
      BY <1>3, SocketsTyped DEF slotError, Waits
    <2>2. cut' \in BOOLEAN
      BY <2>1
    <2>3. Typed'
      BY <1>1, <2>1, <2>2 DEF IInv, Typed
    <2>4. ScreensInv'
      BY <1>1, <1>2, <2>1 DEF IInv, ScreensInv, ScreensFitAccount
    <2>5. SocketInv' /\ AnswerFitsForward' /\ WaitsForOwnAnswer'
      BY <1>1, <2>1 DEF SocketInv, AnswerFitsForward, WaitsForOwnAnswer
    <2>6. AccountInv'
      BY <1>1, <2>1 DEF IInv, AccountInv
    <2> QED BY <2>3, <2>4, <2>5, <2>6 DEF IInv
  <1>4. CASE forward \notin {"login", "registration"}
    <2>1. /\ socket' \in Socket /\ socket'.state = "closed" /\ cut' = cut
          /\ socket'.request = socket.request /\ socket'.answer = socket.answer
          /\ socket'.prefix = socket.prefix /\ socket'.arrived = socket.arrived
      BY <1>2, <1>4 DEF slotError, Socket
    <2>2. is_auth
      BY <1>1, <1>4 DEF IInv, Typed, ScreensInv
    <2>3. Typed'
      BY <1>1, <2>1 DEF IInv, Typed
    <2>4. ScreensInv'
      BY <1>1, <1>2, <1>4, <2>1, <2>2 DEF IInv, ScreensInv, ScreensFitAccount
    <2>5. SocketInv' /\ AnswerFitsForward'
      BY <1>1, <2>1 DEF IInv, SocketInv, AnswerFitsForward, Waits, Expected
    <2>6. WaitsForOwnAnswer'
      BY <1>1, <2>1 DEF IInv, WaitsForOwnAnswer, TextLength
    <2>7. AccountInv'
      BY <1>1, <2>1 DEF IInv, AccountInv, Waits
    <2> QED BY <2>3, <2>4, <2>5, <2>6, <2>7 DEF IInv
  <1> QED BY <1>3, <1>4

LEMMA NextServe == ASSUME IInv, Serve PROVE IInv'
  <1>1. /\ UNCHANGED <<screen, forward, is_auth, local, forms, enabled, msg_length, undefined,
                       history>>
        /\ socket.state = "connected" /\ Waits /\ socket.answer = "none"
    BY DEF Serve
  <1>2. /\ socket' \in Socket /\ socket'.state = "connected"
        /\ socket'.request = socket.request /\ socket'.prefix = socket.prefix
    BY <1>1 DEF Serve, IInv, Typed, Socket
  <1>3. ~ socket.prefix
    BY <1>1 DEF IInv, SocketInv
  <1>4. Typed'
    BY <1>1, <1>2 DEF IInv, Typed, local, forms, history
  <1>5. ScreensInv'
    <2>1. socket # NoSocket
      BY <1>1, SocketsTyped
    <2> QED BY <1>1, <1>2, <2>1 DEF IInv, ScreensInv, ScreensFitAccount, local
  <1>6. SocketInv' /\ AnswerFitsForward'
    BY <1>1, <1>2, <1>3 DEF IInv, SocketInv, AnswerFitsForward, Waits, Expected
  <1>7. WaitsForOwnAnswer'
    BY <1>1, <1>2, <1>3 DEF IInv, WaitsForOwnAnswer, history
  <1>8. AccountInv'
    BY <1>1, <1>2 DEF IInv, AccountInv, Waits, local, forms, history
  <1> QED BY <1>4, <1>5, <1>6, <1>7, <1>8 DEF IInv

-----------------------------------------------------------------------------
(* The answer.  What slotReadyRead reads before the text is a length on a   *)
(* socket of its own, or an earlier connection was cut.                     *)
LEMMA Arrives ==
  ASSUME IInv, Arrival
  PROVE  /\ ~ undefined /\ socket.state = "connected" /\ socket # NoSocket /\ Waits
         /\ socket.answer \in {"correct", "uncorrect"} /\ socket.request \in Requests
         /\ forward' = forward
         /\ is_auth <=> forward \notin {"login", "registration"}
         /\ is_auth <=> db
         /\ \/ \E whole \in BOOLEAN : /\ msg_length' = -1 /\ recv_data_handler(whole)
                                      /\ whole \/ cut
            \/ /\ UNCHANGED <<screen, is_auth, local, forms, enabled, undefined, history>>
               /\ socket' \in Socket /\ socket'.state = "connected"
               /\ socket'.request = socket.request /\ socket'.answer = socket.answer
               /\ msg_length' \in Int
               /\ ~ cut => /\ socket'.prefix /\ msg_length' = TextLength - 1
                           /\ socket'.arrived - 1 < msg_length'
  <1>1. PICK n \in 1..(1 + TextLength) : slotReadyRead(n)
    BY DEF Arrival
  <1> DEFINE whole == socket.prefix \/ msg_length = -1
             length == IF msg_length = -1 THEN Awaited(TextLength) ELSE msg_length
             available == socket.arrived + n - (IF whole THEN 1 ELSE 0)
  <1>2. /\ ~ undefined /\ socket.state = "connected" /\ socket \in Socket /\ Waits
        /\ socket.answer \in {"correct", "uncorrect"} /\ socket.request \in Requests
        /\ forward' = forward
    <2>1. socket \in Socket /\ socket.answer # "none" /\ Waits
      BY DEF IInv, Typed, SocketInv, Arrival
    <2> QED BY <1>1, <2>1 DEF slotReadyRead, Socket, Waits
  <1>3. socket # NoSocket
    BY <1>2, SocketsTyped
  <1>4. TextLength \in Nat /\ TextLength > 1 /\ n \in Nat /\ socket.arrived \in Nat /\ msg_length \in Int
    <2>1. Typed
      BY DEF IInv
    <2>2. TextLength \in Nat /\ TextLength > 1
      BY <1>2, <2>1, TextLengthTyped
    <2> QED BY <1>1, <1>2, <2>1, <2>2 DEF Typed, Socket
  <1>5. /\ is_auth <=> forward \notin {"login", "registration"}
        /\ is_auth <=> db
    BY <1>2, <1>3 DEF IInv, Typed, ScreensInv, ScreensFitAccount
  <1>6. CASE available >= length
    <2>1. msg_length' = -1 /\ recv_data_handler(whole)
      BY <1>1, <1>6 DEF slotReadyRead, ResetLength
    <2>2. whole \in BOOLEAN
      BY <1>2 DEF Socket
    <2>3. whole \/ cut
      BY DEF IInv, WaitsForOwnAnswer
    <2> HIDE DEF whole
    <2> QED BY <1>2, <1>3, <1>5, <2>1, <2>2, <2>3
  <1>7. CASE ~ (available >= length)
    <2>1. /\ msg_length' = length
          /\ socket' = [socket EXCEPT !.arrived = @ + n, !.prefix = whole]
          /\ UNCHANGED <<screen, is_auth, local, forms, enabled, undefined, history>>
      BY <1>1, <1>7 DEF slotReadyRead
    <2>2. whole \in BOOLEAN /\ length \in Int /\ socket.arrived + n \in Nat
      BY <1>2, <1>4 DEF Socket, Awaited
    <2>3. /\ socket' \in Socket /\ socket'.state = "connected"
          /\ socket'.request = socket.request /\ socket'.answer = socket.answer
          /\ socket'.arrived = socket.arrived + n /\ socket'.prefix = whole
      <3> HIDE DEF whole
      <3> QED BY <1>2, <2>1, <2>2 DEF Socket
    <2>4. ~ cut => whole /\ length = TextLength - 1
      BY DEF IInv, WaitsForOwnAnswer, Awaited
    <2>5. ~ cut => /\ socket'.prefix /\ msg_length' = TextLength - 1
                   /\ socket'.arrived - 1 < msg_length'
      <3>1. whole => socket.arrived + n - 1 < length
        <4> SUFFICES ASSUME whole PROVE socket.arrived + n - 1 < length
          OBVIOUS
        <4>1. available = socket.arrived + n - 1
          OBVIOUS
        <4> HIDE DEF available, length, whole
        <4> QED BY <1>4, <1>7, <2>2, <4>1
      <3> HIDE DEF whole, length, available
      <3> QED BY <1>4, <2>1, <2>2, <2>3, <2>4, <3>1
    <2> HIDE DEF whole, length
    <2> QED BY <1>2, <1>3, <1>5, <2>1, <2>2, <2>3, <2>5
  <1> QED BY <1>6, <1>7

LEMMA Handled ==
  ASSUME IInv, Arrival, NEW whole \in BOOLEAN,
         msg_length' = -1, recv_data_handler(whole)
  PROVE  IInv'
  <1>0. /\ ~ undefined /\ socket.state = "connected" /\ socket # NoSocket /\ Waits
        /\ socket.answer \in {"correct", "uncorrect"} /\ socket.request \in Requests
        /\ forward' = forward
        /\ is_auth <=> forward \notin {"login", "registration"}
        /\ is_auth <=> db
    BY Arrives
  <1>1. /\ cut' = FALSE
        /\ accepted' = IF socket.answer = "correct" THEN socket.request.account ELSE accepted
        /\ mixed' = (mixed \/ socket.request.kind # Expected)
    BY DEF recv_data_handler
  <1>2. Typed /\ AccountInv /\ AnswerFitsForward /\ SocketInv
    BY DEF IInv
  <1>3. /\ cut' \in BOOLEAN /\ mixed' \in BOOLEAN /\ accepted' \in Account \cup {None}
        /\ msg_length' \in Int /\ forward' \in Forward
    <2>1. mixed' \in BOOLEAN
      BY <1>1
    <2>2. accepted' \in Account \cup {None}
      BY <1>0, <1>1, <1>2, RequestFields DEF Typed
    <2>3. cut' \in BOOLEAN
      BY <1>1
    <2>4. msg_length' \in Int
      OBVIOUS
    <2>5. forward' \in Forward
      BY <1>0, <1>2 DEF Typed
    <2> QED BY <2>1, <2>2, <2>3, <2>4, <2>5
  <1>4. WaitsForOwnAnswer'
    BY DEF WaitsForOwnAnswer
  (* A login or a registration is accepted. *)
  <1>5. ASSUME Entered, ~ undefined', user' \in Account \cup {None}, ~ mixed' => user' = accepted',
               base64_file' \in {"none", "chosen", "fetched"}, file_type' \in BOOLEAN,
               UNCHANGED <<login_form, reg_form, enabled, undefined>>
        PROVE  IInv'
    <2>1. /\ screen' = "personal_area" /\ is_auth' = TRUE /\ db' = TRUE /\ socket' = NoSocket
          /\ socket' \in Socket /\ ~ Waits' /\ socket'.answer = "none" /\ ~ socket'.prefix
      BY <1>5, SocketsTyped DEF Entered, Waits
    <2>2. Typed'
      <3>1. screen' \in Page /\ is_auth' \in BOOLEAN /\ db' \in BOOLEAN
        BY <2>1 DEF Page
      <3> QED BY <1>2, <1>3, <1>5, <2>1, <3>1 DEF Typed
    <2>3. ScreensInv'
      BY <2>1 DEF ScreensInv, ScreensFitAccount
    <2>4. SocketInv' /\ AnswerFitsForward' /\ AccountInv'
      BY <1>5, <2>1 DEF SocketInv, AnswerFitsForward, AccountInv
    <2> QED BY <1>4, <2>2, <2>3, <2>4 DEF IInv
  (* The answer breaks the program. *)
  <1>6. ASSUME Crash, \/ UNCHANGED local
                      \/ db' = TRUE /\ user' = None /\ mixed' /\ ~ is_auth
        PROVE  IInv'
    <2>1. /\ undefined' = TRUE
          /\ UNCHANGED <<screen, is_auth, login_form, reg_form, base64_file, file_type, enabled, socket>>
      BY <1>6 DEF Crash, forms
    <2>2. undefined' \in BOOLEAN /\ user' \in Account \cup {None} /\ db' \in BOOLEAN
      BY <1>2, <1>6, <2>1 DEF Typed, local
    <2>3. Typed'
      BY <1>2, <1>3, <2>1, <2>2 DEF Typed
    <2>4. ScreensInv'
      BY <2>1 DEF ScreensInv, ScreensFitAccount
    <2>5. SocketInv' /\ AnswerFitsForward'
      BY <1>0, <1>2, <2>1 DEF SocketInv, AnswerFitsForward, Waits, Expected
    <2>6. AccountInv'
      <3>1. CASE UNCHANGED local
        BY <1>0, <1>1, <1>2, <2>1, <3>1 DEF AccountInv, Waits, local
      <3>2. CASE db' = TRUE /\ user' = None /\ mixed' /\ ~ is_auth
        BY <1>0, <1>1, <1>2, <2>1, <3>2 DEF AccountInv, Waits
      <3> QED BY <1>6, <3>1, <3>2
    <2> QED BY <1>4, <2>3, <2>4, <2>5, <2>6 DEF IInv
  <1>7. CASE LoggedIn
    <2>1. ~ is_auth /\ Expected = "authorization" /\ accepted' = socket.request.account
      BY <1>0, <1>1, <1>7 DEF LoggedIn, Expected
    <2>2. CASE socket.request.kind = "authorization"
      <3>1. /\ Entered /\ user' = login_form /\ base64_file' = "fetched"
            /\ UNCHANGED <<login_form, reg_form, file_type, enabled, undefined>>
        BY <1>7, <2>2 DEF LoggedIn, FormOfLogin
      <3>2. ~ mixed' => user' = accepted'
        BY <1>0, <1>1, <1>2, <2>1, <2>2, <3>1 DEF AccountInv
      <3> QED BY <1>0, <1>2, <1>5, <3>1, <3>2 DEF Typed
    <2>3. CASE socket.request.kind # "authorization"
      <3>1. db' = TRUE /\ user' = None /\ Crash /\ mixed'
        BY <1>1, <1>7, <2>1, <2>3 DEF LoggedIn
      <3> QED BY <1>6, <2>1, <3>1
    <2> QED BY <2>2, <2>3
  <1>8. CASE Registered
    <2>1. ~ is_auth /\ Expected = "registration" /\ accepted' = socket.request.account
      BY <1>0, <1>1, <1>8 DEF Registered, Expected
    <2>2. /\ Entered /\ user' = reg_form /\ base64_file' = "none" /\ file_type' = FALSE
          /\ UNCHANGED <<login_form, reg_form, enabled, undefined>>
      BY <1>8 DEF Registered
    <2>3. ~ mixed' => user' = accepted'
      BY <1>0, <1>1, <1>2, <2>1, <2>2 DEF AccountInv
    <2> QED BY <1>0, <1>2, <1>5, <2>2, <2>3 DEF Typed
  <1>9. CASE Refused
    <2>1. /\ ~ is_auth /\ ~ db /\ enabled' = FALSE /\ socket' = NewSocket
          /\ UNCHANGED <<screen, is_auth, db, user, login_form, reg_form, base64_file, file_type,
                         undefined>>
      BY <1>0, <1>9 DEF Refused, local, forms
    <2>2. /\ socket' \in Socket /\ socket'.state = "connecting" /\ ~ Waits'
          /\ socket'.answer = "none" /\ ~ socket'.prefix
      BY <2>1, SocketsTyped DEF Waits
    <2>3. enabled' \in BOOLEAN
      BY <2>1
    <2>4. Typed'
      BY <1>2, <1>3, <2>1, <2>2, <2>3 DEF Typed
    <2>5. ScreensInv'
      BY <1>0, <2>1, <2>2 DEF IInv, ScreensInv, ScreensFitAccount
    <2>6. SocketInv' /\ AnswerFitsForward' /\ AccountInv'
      BY <2>1, <2>2 DEF SocketInv, AnswerFitsForward, AccountInv
    <2> QED BY <1>4, <2>4, <2>5, <2>6 DEF IInv
  <1>10. CASE Transferred
    <2>1. is_auth /\ db /\ UNCHANGED local
      BY <1>0, <1>10 DEF Transferred
    <2>2. CASE ~ Found
      BY <1>6, <1>10, <2>1, <2>2 DEF Transferred
    <2>3. CASE Found
      <3>1. /\ UNCHANGED <<screen, is_auth, db, user, login_form, reg_form, base64_file, file_type,
                           enabled, undefined>>
            /\ socket' = IF socket.answer = "correct" THEN NoSocket
                         ELSE [socket EXCEPT !.state = "closed"]
        BY <1>10, <2>1, <2>3 DEF Transferred, local, forms
      <3>2. /\ socket' \in Socket
            /\ \/ ~ Waits' /\ socket'.answer = "none" /\ ~ socket'.prefix
               \/ /\ socket'.request = socket.request /\ socket'.answer = socket.answer
                  /\ socket'.prefix = socket.prefix
        <4>1. CASE socket.answer = "correct"
          BY <3>1, <4>1, SocketsTyped DEF Waits
        <4>2. CASE socket.answer # "correct"
          BY <1>2, <3>1, <4>2 DEF Typed, Socket
        <4> QED BY <4>1, <4>2
      <3>3. Typed'
        BY <1>2, <1>3, <3>1, <3>2 DEF Typed
      <3>4. ScreensInv'
        BY <1>0, <2>1, <3>1 DEF IInv, ScreensInv, ScreensFitAccount
      <3>5. SocketInv' /\ AnswerFitsForward'
        BY <1>0, <1>2, <3>2 DEF SocketInv, AnswerFitsForward, Waits, Expected
      <3>6. AccountInv'
        BY <1>0, <1>1, <1>2, <2>1, <3>1, <3>2 DEF AccountInv, Waits
      <3> QED BY <1>4, <3>3, <3>4, <3>5, <3>6 DEF IInv
    <2> QED BY <2>2, <2>3
  <1>11. CASE Garbled
    BY <1>6, <1>11 DEF Garbled
  <1> QED BY <1>7, <1>8, <1>9, <1>10, <1>11 DEF recv_data_handler

LEMMA NextArrival == ASSUME IInv, Arrival PROVE IInv'
  <1>1. /\ ~ undefined /\ socket.state = "connected" /\ socket # NoSocket /\ Waits
        /\ socket.answer # "none" /\ forward' = forward
    BY Arrives
  <1>2. CASE \E whole \in BOOLEAN : msg_length' = -1 /\ recv_data_handler(whole)
    BY <1>2, Handled
  <1>3. CASE /\ UNCHANGED <<screen, is_auth, local, forms, enabled, undefined, history>>
             /\ socket' \in Socket /\ socket'.state = "connected"
             /\ socket'.request = socket.request /\ socket'.answer = socket.answer
             /\ msg_length' \in Int
             /\ ~ cut => /\ socket'.prefix /\ msg_length' = TextLength - 1
                         /\ socket'.arrived - 1 < msg_length'
    <2>1. Typed'
      BY <1>1, <1>3 DEF IInv, Typed, local, forms, history
    <2>2. ScreensInv'
      BY <1>1, <1>3 DEF IInv, ScreensInv, ScreensFitAccount, local
    <2>3. SocketInv' /\ AnswerFitsForward'
      BY <1>1, <1>3 DEF IInv, SocketInv, AnswerFitsForward, Waits, Expected
    <2>4. WaitsForOwnAnswer'
      BY <1>3 DEF WaitsForOwnAnswer, TextLength, history
    <2>5. AccountInv'
      BY <1>3 DEF IInv, AccountInv, Waits, local, forms, history
    <2> QED BY <2>1, <2>2, <2>3, <2>4, <2>5 DEF IInv
  <1> QED BY <1>2, <1>3, Arrives

LEMMA NextIInv == IInv /\ [Next]_vars => IInv'
  <1> SUFFICES ASSUME IInv, [Next]_vars PROVE IInv'
    OBVIOUS
  <1>1. CASE Type \/ TurnRegistration \/ TurnLogin \/ TurnPage
    BY <1>1, NextType, NextTurn
  <1>2. CASE \/ Request("result_test", "load_result") \/ Request("result_test", "upload_result")
             \/ Request("patterns", "load_patterns") \/ SettingsSave \/ Quit
    BY <1>2, NextConnect
  <1>3. CASE LogIn \/ Register
    BY <1>3, NextClick
  <1>4. CASE slotConnected \/ slotError \/ Serve \/ Arrival \/ Restart
    BY <1>4, NextConnected, NextError, NextServe, NextArrival, NextRestart
  <1>5. CASE UNCHANGED vars
    <2> USE <1>5 DEF vars, local, forms, history
    <2>1. Typed'
      BY DEF IInv, Typed
    <2>2. ScreensInv' /\ AccountInv'
      BY DEF IInv, ScreensInv, ScreensFitAccount, AccountInv, Waits
    <2>3. SocketInv' /\ AnswerFitsForward'
      BY DEF IInv, SocketInv, AnswerFitsForward, Waits, Expected
    <2>4. WaitsForOwnAnswer'
      BY DEF IInv, WaitsForOwnAnswer, TextLength
    <2> QED BY <2>1, <2>2, <2>3, <2>4 DEF IInv
  <1> QED BY <1>1, <1>2, <1>3, <1>4, <1>5 DEF Next, User

LEMMA AlwaysIInv == Spec => []IInv
  BY InitIInv, NextIInv, PTL DEF Spec

-----------------------------------------------------------------------------
(* Whatever is clicked and whatever happens to the connection, the pages of *)
(* a user are on screen only with a database of one, and the pages to log   *)
(* in always have a socket to send through (mainwindow.cpp:48-76, :903-1069).*)
THEOREM ScreensAlwaysFit == Spec => []ScreensFitAccount
  BY AlwaysIInv, PTL DEF IInv, ScreensInv

(* An answer is never taken for that of a request of another kind, but for  *)
(* a login and a registration, which share one socket (recv_data_handler).  *)
THEOREM AnswersAlwaysFit == Spec => []AnswerFitsForward
  BY AlwaysIInv, PTL DEF IInv

(* slotReadyRead never waits for the length of an answer on an earlier      *)
(* socket, unless that socket was given up in the middle of a text.         *)
THEOREM AlwaysWaitsForOwn == Spec => []WaitsForOwnAnswer
  BY AlwaysIInv, PTL DEF IInv

(* The account in the local database is the one the server accepted, unless *)
(* a form or the page was changed while the request waited.                 *)
THEOREM AccountAlwaysServers == Spec => []AccountIsServers
  <1>1. IInv => AccountIsServers
    BY DEF IInv, Typed, ScreensInv, ScreensFitAccount, AccountInv, AccountIsServers
  <1> QED BY AlwaysIInv, <1>1, PTL

(* No other answer than the three named ones makes the program break down   *)
(* (recv_data_handler uses elements of the text without a check).           *)
THEOREM CrashAlwaysHasReason == Spec => CrashHasReason
  <1> DEFINE Reason == \/ cut
                       \/ forward = "login" /\ socket.request.kind = "registration"
                       \/ forward = "load_patterns" /\ socket.answer = "uncorrect"
  <1>1. ASSUME IInv, [Next]_vars, undefined', ~ undefined PROVE Reason
    <2>1. Arrival
      BY <1>1 DEF Next, User, Type, LogIn, Register, Click, TurnRegistration, TurnLogin, TurnPage,
                  Turn, Request, SettingsSave, Quit, slotConnected, slotError, Serve, Restart, vars
    <2>2. PICK whole \in BOOLEAN : recv_data_handler(whole) /\ (whole \/ cut)
      BY <1>1, <2>1, Arrives
    <2>3. Waits /\ socket.answer \in {"correct", "uncorrect"} /\ forward \in Forward
      BY <1>1, <2>1, Arrives DEF IInv, Typed
    <2>4. CASE ~ whole
      BY <2>2, <2>4
    <2>5. CASE LoggedIn
      BY <1>1, <2>3, <2>5 DEF LoggedIn, IInv, AnswerFitsForward, Expected
    <2>6. CASE Transferred
      <3>1. ~ Found /\ forward \notin {"login", "registration"}
        BY <1>1, <2>6 DEF Transferred
      <3>2. socket.request.kind = Expected
        BY <1>1, <2>3, <3>1 DEF IInv, AnswerFitsForward
      <3> QED BY <2>3, <3>1, <3>2 DEF Found, Expected, Forward
    <2>7. ~ (Registered \/ Refused)
      BY <1>1 DEF Registered, Refused
    <2> QED BY <2>2, <2>4, <2>5, <2>6, <2>7 DEF recv_data_handler
  <1>2. IInv /\ [Next]_vars => [undefined' /\ ~ undefined => Reason]_vars
    BY <1>1
  <1> QED BY AlwaysIInv, <1>2, PTL DEF Spec, CrashHasReason

=============================================================================
