------------------------------ MODULE TcpServer ------------------------------
(***************************************************************************)
(* The accept loop of the server and the threads it starts, one for each   *)
(* connection (server/tcpserver.cpp).  The loop keeps two parallel lists,  *)
(* clients and threads; a thread that ends tells the loop the position of  *)
(* its own entry through the vector del, and the loop erases it after the  *)
(* next connection.  vec_mutex protects del and the erasing; the loop      *)
(* appends to the lists without it.                                        *)
(*                                                                         *)
(* main names the statement the loop executes next:                        *)
(*   accept 67, push_client 86, start_thread and push_thread 87, detach 88,*)
(*   lock 90, erase 91-110; stopped: the loop was left at 72 and the       *)
(*   process has ended; undefined: list::erase(end()) was executed.        *)
(* at[c] names the statement the thread of c executes next:                *)
(*   none      not accepted yet, or no thread for it yet                   *)
(*   get_data 120, callback 124, lock 132, scan 135-139, compare 140-144   *)
(*   ended     client_loop has returned                                    *)
(* A definition nothing uses (ByReference, AnyEntry, ...) is what a mistake*)
(* would make of the one right after it; the mutants swap the two.         *)
(***************************************************************************)
EXTENDS Integers, Sequences, FiniteSets, SequencesExt

CONSTANTS Conn, Main

ASSUME MainAssumption == Main \notin Conn

VARIABLES
  backlog,    \* connections the listening socket holds
  main,
  NS,         \* the connection accepted last
  clients,    \* std::list of shared_ptr<TCPClient>
  threads,    \* std::list of std::thread: [conn, joinable]
  del,        \* positions (from 0) of entries to erase
  vec_mutex,  \* its holder: {}, {Main} or {c}
  at,
  counter,    \* client_loop: where the scan stopped
  refs        \* use_count of the shared_ptr<TCPClient> of each connection

vars == <<backlog, main, NS, clients, threads, del, vec_mutex, at, counter, refs>>

Init == /\ backlog = {}
        /\ main = "accept"
        /\ NS \in Conn             \* uninitialised
        /\ clients = <<>> /\ threads = <<>> /\ del = <<>>
        /\ vec_mutex = {}
        /\ at = [c \in Conn |-> "none"]
        /\ counter = [c \in Conn |-> 0]
        /\ refs = [c \in Conn |-> 0]

Alive == main \notin {"stopped", "undefined"}

Accepted(c) == c \in ToSet(clients) \/ at[c] # "none" \/ (NS = c /\ main = "push_client")

-----------------------------------------------------------------------------
(* start: the accept loop. *)
Connect(c) ==
  /\ Alive
  /\ c \notin backlog /\ at[c] = "none" /\ ~ Accepted(c)
  /\ backlog' = backlog \cup {c}
  /\ UNCHANGED <<main, NS, clients, threads, del, vec_mutex, at, counter, refs>>

Accept(c) ==
  /\ main = "accept"
  /\ c \in backlog
  /\ NS' = c
  /\ backlog' = backlog \ {c}
  /\ main' = "push_client"
  /\ UNCHANGED <<clients, threads, del, vec_mutex, at, counter, refs>>

(* INVALID_SOCKET: the loop is left, main returns, the process ends. *)
AcceptFails ==
  /\ main = "accept"
  /\ main' = "stopped"
  /\ UNCHANGED <<backlog, NS, clients, threads, del, vec_mutex, at, counter, refs>>

PushClient ==
  /\ main = "push_client"
  /\ clients' = Append(clients, NS)
  /\ refs' = [refs EXCEPT ![NS] = @ + 1]
  /\ main' = "start_thread"
  /\ UNCHANGED <<backlog, NS, threads, del, vec_mutex, at, counter>>

(* std::thread(&TCPServer::client_loop, ...): the thread gets a shared_ptr  *)
(* of its own and runs before its object is in the list.                   *)
ByReference == refs

ByCopy == [refs EXCEPT ![NS] = @ + 1]

StartThread ==
  /\ main = "start_thread"
  /\ refs' = ByCopy
  /\ at' = [at EXCEPT ![NS] = "get_data"]
  /\ main' = "push_thread"
  /\ UNCHANGED <<backlog, NS, clients, threads, del, vec_mutex, counter>>

PushThread ==
  /\ main = "push_thread"
  /\ threads' = Append(threads, [conn |-> NS, joinable |-> TRUE])
  /\ main' = "detach"
  /\ UNCHANGED <<backlog, NS, clients, del, vec_mutex, at, counter, refs>>

Detach ==
  /\ main = "detach"
  /\ threads' = [threads EXCEPT ![Len(threads)].joinable = FALSE]
  /\ main' = "lock"
  /\ UNCHANGED <<backlog, NS, clients, del, vec_mutex, at, counter, refs>>

VecFree == vec_mutex = {}

LockLists ==
  /\ main = "lock"
  /\ VecFree
  /\ vec_mutex' = vec_mutex \cup {Main}
  /\ main' = "erase"
  /\ UNCHANGED <<backlog, NS, clients, threads, del, at, counter, refs>>

(* One turn of the loop over del, which is sorted in descending order.     *)
FirstClient(d) == 1

ClientAt(d) == d + 1

Erase ==
  /\ main = "erase" /\ del # <<>>
  /\ \E k \in DOMAIN del :
       /\ \A j \in DOMAIN del : del[j] <= del[k]
       /\ del' = RemoveAt(del, k)
       /\ IF del[k] < Len(threads)
          THEN /\ refs' = [refs EXCEPT ![clients[ClientAt(del[k])]] = @ - 1]
               /\ clients' = RemoveAt(clients, ClientAt(del[k]))
               /\ threads' = RemoveAt(threads, del[k] + 1)
               /\ UNCHANGED main
          ELSE main' = "undefined" /\ UNCHANGED <<clients, threads, refs>>
  /\ UNCHANGED <<backlog, NS, vec_mutex, at, counter>>

EraseDone ==
  /\ main = "erase" /\ del = <<>>
  /\ vec_mutex' = {}
  /\ main' = "accept"
  /\ UNCHANGED <<backlog, NS, clients, threads, del, at, counter, refs>>

-----------------------------------------------------------------------------
(* client_loop: the thread of a connection. *)
ThreadGoes(c, from, to) == Alive /\ at[c] = from /\ at' = [at EXCEPT ![c] = to]

(* get_data returns a request, or fails: nothing came, or it was cut off.  *)
GetData(c) ==
  /\ \/ ThreadGoes(c, "get_data", "callback")
     \/ ThreadGoes(c, "get_data", "lock")
  /\ UNCHANGED <<backlog, main, NS, clients, threads, del, vec_mutex, counter, refs>>

(* The handler returns; HandlerServer says what it does and when it never  *)
(* returns.                                                                *)
Callback(c) ==
  /\ ThreadGoes(c, "callback", "lock")
  /\ UNCHANGED <<backlog, main, NS, clients, threads, del, vec_mutex, counter, refs>>

LockDel(c) ==
  /\ ThreadGoes(c, "lock", "scan")
  /\ VecFree
  /\ vec_mutex' = vec_mutex \cup {c}
  /\ UNCHANGED <<backlog, main, NS, clients, threads, del, counter, refs>>

(* The entries whose get_id() is the id of the thread of c: a detached     *)
(* std::thread has the id of no thread.                                    *)
AnyEntry(c) == {i \in DOMAIN threads : threads[i].conn = c}

OwnEntry(c) == {i \in DOMAIN threads : threads[i].conn = c /\ threads[i].joinable}

Scan(c) ==
  /\ ThreadGoes(c, "scan", "compare")
  /\ counter' = [counter EXCEPT ![c] =
                   IF OwnEntry(c) = {} THEN Len(threads)
                   ELSE (CHOOSE i \in OwnEntry(c) : TRUE) - 1]
  /\ UNCHANGED <<backlog, main, NS, clients, threads, del, vec_mutex, refs>>

(* counter < threads.size(), with the size of now. *)
FoundOrEnd(c) == counter[c] <= Len(threads)

Found(c) == counter[c] < Len(threads)

UnlockIfFound(c) == IF Found(c) THEN {} ELSE vec_mutex

Unlocked(c) == {}

(* The position is reported, the mutex unlocked; client_loop returns and   *)
(* drops its shared_ptr.                                                   *)
Compare(c) ==
  /\ ThreadGoes(c, "compare", "ended")
  /\ del' = IF Found(c) THEN Append(del, counter[c]) ELSE del
  /\ vec_mutex' = Unlocked(c)
  /\ refs' = [refs EXCEPT ![c] = @ - 1]
  /\ UNCHANGED <<backlog, main, NS, clients, threads, counter>>

-----------------------------------------------------------------------------
Loop == \/ \E c \in Conn : Accept(c)
        \/ PushClient \/ StartThread \/ PushThread \/ Detach
        \/ LockLists \/ Erase \/ EraseDone

Ending(c) == LockDel(c) \/ Scan(c) \/ Compare(c)

(* The process has ended, or runs on without any rule. *)
Halted == ~ Alive /\ UNCHANGED vars

Next == \/ \E c \in Conn : Connect(c) \/ GetData(c) \/ Callback(c) \/ Ending(c)
        \/ Loop \/ AcceptFails \/ Halted

(* The loop and the end of a thread are scheduled.  That a client sends    *)
(* anything, or that a handler returns, is not assumed.                    *)
Spec == Init /\ [][Next]_vars /\ WF_vars(Loop) /\ \A c \in Conn : WF_vars(Ending(c))

-----------------------------------------------------------------------------
(* ~TCPClient closes the socket when the last shared_ptr goes.             *)
Closed(c) == at[c] # "none" /\ refs[c] <= 0

(* The two lists stay parallel: the entries at one position are those of    *)
(* one connection, although positions are all a thread can report.          *)
ListsParallel ==
  LET conns == [i \in DOMAIN threads |-> threads[i].conn]
  IN clients = IF main \in {"start_thread", "push_thread"} THEN Append(conns, NS) ELSE conns

(* What is reported for erasing is the entry the loop appended last, and    *)
(* it is reported at most twice: by its own thread before detach, and by a  *)
(* thread that had scanned to the end just before it was appended.          *)
DelNamesNewest ==
  /\ Alive /\ del # <<>> => main \in {"detach", "lock", "erase"}
  /\ main \in {"detach", "lock"} => \A i \in DOMAIN del : del[i] = Len(threads) - 1
  /\ Len(del) <= 2

(* erase(end()) is executed only after two threads reported one entry.      *)
UndefinedAfterTwoReports ==
  main = "undefined" =>
    \E c \in Conn \ {NS} : /\ at[c] = "ended" /\ at[NS] = "ended"
                           /\ counter[c] = Len(threads) /\ counter[NS] = Len(threads)

(* A thread that still reads its request or handles it has an open socket,  *)
(* even when another thread has reported its entry for erasing.             *)
SocketOpenWhileServed ==
  \A c \in Conn : at[c] \in {"get_data", "callback"} => ~ Closed(c)

(* A connection is accepted in the end whatever the other connections do,   *)
(* in particular if their handlers never return.                            *)
EveryConnectionAccepted == \A c \in Conn : c \in backlog ~> c \notin backlog \/ ~ Alive

=============================================================================
