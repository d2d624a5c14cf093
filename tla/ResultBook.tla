----------------------------- MODULE ResultBook -----------------------------
(***************************************************************************)
(* What the server promises the clients that register, log in and report   *)
(* results: a book of accounts and results in which every request takes    *)
(* effect at one instant between its arrival and its answer, a refused     *)
(* request has no effect, and an accepted one had it exactly once.         *)
(***************************************************************************)
CONSTANTS
  Thread,           \* connections: one request and one answer each
  Request,          \* the requests, as in HandlerServer
  NoRequest,
  InitialPasswords  \* login -> password of the accounts given at the start

VARIABLES
  passwords,  \* the accounts: login -> password
  book,       \* the results: a set of [login, name, result]
  asked,      \* the request of each connection
  phase       \* idle, waiting, applied, correct, uncorrect or lost

vars == <<passwords, book, asked, phase>>

Known(r) == r.login \in DOMAIN passwords /\ passwords[r.login] = r.password

Init == /\ passwords = InitialPasswords
        /\ book = {}
        /\ asked = [t \in Thread |-> NoRequest]
        /\ phase = [t \in Thread |-> "idle"]

Move(t, from, to) == phase[t] = from /\ phase' = [phase EXCEPT ![t] = to]

Ask(t) == /\ Move(t, "idle", "waiting")
          /\ \E r \in Request : asked' = [asked EXCEPT ![t] = r]
          /\ UNCHANGED <<passwords, book>>

(* Both the login and the password of a new account are new. *)
Register(t) ==
  /\ Move(t, "waiting", "applied")
  /\ LET r == asked[t]
     IN /\ r.kind = "registration"
        /\ \A l \in DOMAIN passwords : l # r.login /\ passwords[l] # r.password
        /\ passwords' = [l \in DOMAIN passwords \cup {r.login} |->
                           IF l = r.login THEN r.password ELSE passwords[l]]
  /\ UNCHANGED <<book, asked>>

(* A result replaces the one the account had for the same pattern. *)
Record(t) ==
  /\ Move(t, "waiting", "applied")
  /\ LET r == asked[t]
     IN /\ r.kind = "result" /\ Known(r)
        /\ book' = {e \in book : ~ (e.login = r.login /\ e.name = r.test.name)}
             \cup {[login |-> r.login, name |-> r.test.name, result |-> r.test.result]}
  /\ UNCHANGED <<passwords, asked>>

(* A request that only reads. *)
Show(t) ==
  /\ Move(t, "waiting", "correct")
  /\ \/ asked[t].kind = "patterns"
     \/ asked[t].kind = "authorization" /\ Known(asked[t])
  /\ UNCHANGED <<passwords, book, asked>>

Acknowledge(t) == Move(t, "applied", "correct") /\ UNCHANGED <<passwords, book, asked>>

Refuse(t) == Move(t, "waiting", "uncorrect") /\ UNCHANGED <<passwords, book, asked>>

(* A crash of the server: nobody who waits is answered any more, and some   *)
(* never get to ask.                                                       *)
Crash ==
  \E cut \in SUBSET {t \in Thread : phase[t] = "idle"} :
    /\ phase' = [t \in Thread |-> IF phase[t] \in {"waiting", "applied"} \/ t \in cut
                                  THEN "lost" ELSE phase[t]]
    /\ UNCHANGED <<passwords, book, asked>>

Next == \/ \E t \in Thread : \/ Ask(t) \/ Register(t) \/ Record(t) \/ Show(t)
                             \/ Acknowledge(t) \/ Refuse(t)
        \/ Crash

Spec == Init /\ [][Next]_vars
=============================================================================
