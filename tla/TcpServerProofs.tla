--------------------------- MODULE TcpServerProofs ---------------------------
(***************************************************************************)
(* Theorems about TcpServer, for any number of connections.                *)
(*                                                                         *)
(* A position is all that a thread can report, and the lists change under  *)
(* it.  Why it is that of the newest entry: only an entry that was not     *)
(* detached yet is found, and a scan that found nothing stopped at the end *)
(* of the list, to which at most one entry is appended before the mutex    *)
(* changes hands.                                                          *)
(***************************************************************************)
EXTENDS TcpServer, SequenceTheorems, TLAPS

Entry == [conn : Conn, joinable : BOOLEAN]

Statement == {"accept", "push_client", "start_thread", "push_thread", "detach", "lock",
              "erase", "stopped", "undefined"}

Typed ==
  /\ backlog \subseteq Conn
  /\ main \in Statement
  /\ NS \in Conn
  /\ clients \in Seq(Conn)
  /\ threads \in Seq(Entry)
  /\ del \in Seq(Nat)
  /\ at \in [Conn -> {"none", "get_data", "callback", "lock", "scan", "compare", "ended"}]
  /\ counter \in [Conn -> Nat]
  /\ refs \in [Conn -> Int]

(* Who is in the section that the mutex protects. *)
MutexInv ==
  /\ main \in {"erase", "undefined"} => vec_mutex = {Main}
  /\ \A c \in Conn : at[c] \in {"scan", "compare"} => vec_mutex = {c}

(* The lists, and what of a connection is there before its thread is.      *)
ListsInv ==
  /\ Len(clients) = Len(threads) + IF main \in {"start_thread", "push_thread"} THEN 1 ELSE 0
  /\ \A i \in 1..Len(threads) : clients[i] = threads[i].conn
  /\ main \in {"start_thread", "push_thread"} => clients[Len(clients)] = NS
  /\ \A i, j \in 1..Len(clients) : clients[i] = clients[j] => i = j
  /\ \A c \in Conn : at[c] = "none" =>
       \A i \in 1..Len(clients) : clients[i] = c => c = NS /\ main = "start_thread"
  /\ \A c \in backlog : ~ Accepted(c)
  /\ main \in {"push_client", "start_thread"} => at[NS] = "none"
  /\ main = "push_client" => NS \notin ToSet(clients)
  /\ main \in {"push_thread", "detach", "lock"} => at[NS] # "none"

(* The entry of a thread can be found from its push to its detach.         *)
JoinableInv ==
  /\ main \in {"detach", "lock"} => Len(threads) > 0 /\ threads[Len(threads)].conn = NS
  /\ \A i \in 1..Len(threads) : threads[i].joinable => main = "detach" /\ i = Len(threads)

Reported(c, k) == at[c] = "ended" /\ counter[c] = k

ReportedTwice(k) == Reported(NS, k) /\ \E c \in Conn \ {NS} : Reported(c, k)

(* Where the scans have stopped, and who has reported what is in del.       *)
ReportsInv ==
  LET newest == Len(threads) - 1
  IN /\ \A c \in Conn : at[c] = "compare" =>
          \/ counter[c] = Len(threads)
          \/ /\ counter[c] = newest /\ main \in {"detach", "lock"}
             /\ c # NS => del = <<>>
     /\ main \notin {"detach", "lock", "erase"} => del = <<>>
     /\ main \in {"detach", "lock"} =>
          /\ \A i \in 1..Len(del) : del[i] = newest
          /\ Len(del) <= 2
          /\ Len(del) = 1 => \E c \in Conn : Reported(c, newest)
          /\ Len(del) = 2 => ReportedTwice(newest)
     /\ main = "erase" =>
          \/ del = <<>>
          \/ Len(del) = 1 /\ del[1] = newest /\ newest >= 0
          \/ Len(del) = 2 /\ del[1] = newest /\ del[2] = newest /\ newest >= 0 /\ ReportedTwice(newest)
          \/ Len(del) = 1 /\ del[1] = Len(threads) /\ ReportedTwice(Len(threads))
     /\ main = "undefined" => ReportedTwice(Len(threads))

(* A connection is referred to by its entry and by its thread, no more.    *)
RefsInv ==
  \A c \in Conn :
    refs[c] = (IF c \in ToSet(clients) THEN 1 ELSE 0) + (IF at[c] \in {"none", "ended"} THEN 0 ELSE 1)

-----------------------------------------------------------------------------
(* Removing the k-th element of a sequence. *)
LEMMA RemoveAtProperties ==
  ASSUME NEW S, NEW s \in Seq(S), NEW k \in 1..Len(s)
  PROVE  /\ RemoveAt(s, k) \in Seq(S)
         /\ Len(RemoveAt(s, k)) = Len(s) - 1
         /\ \A i \in 1..(Len(s) - 1) : RemoveAt(s, k)[i] = IF i < k THEN s[i] ELSE s[i + 1]
  <1> DEFINE before == SubSeq(s, 1, k - 1)
             behind == SubSeq(s, k + 1, Len(s))
  <1>1. /\ before \in Seq(S) /\ Len(before) = k - 1
        /\ \A i \in 1..(k - 1) : before[i] = s[i]
    BY SubSeqProperties, ElementOfSeq
  <1>2. /\ behind \in Seq(S) /\ Len(behind) = Len(s) - k
        /\ \A i \in 1..(Len(s) - k) : behind[i] = s[k + i]
    BY SubSeqProperties, ElementOfSeq
  <1>3. RemoveAt(s, k) = before \o behind
    BY DEF RemoveAt
  <1>4. Len(s) \in Nat /\ k \in Int /\ 1 <= k /\ k <= Len(s)
    BY LenProperties
  <1> HIDE DEF before, behind
  <1>5. /\ before \o behind \in Seq(S)
        /\ Len(before \o behind) = Len(before) + Len(behind)
        /\ \A i \in 1..(Len(before) + Len(behind)) :
             (before \o behind)[i] = IF i <= Len(before) THEN before[i] ELSE behind[i - Len(before)]
    BY <1>1, <1>2, ConcatProperties
  <1>6. Len(before) + Len(behind) = Len(s) - 1
    BY <1>1, <1>2, <1>4
  <1>7. ASSUME NEW i \in 1..(Len(s) - 1)
        PROVE  RemoveAt(s, k)[i] = IF i < k THEN s[i] ELSE s[i + 1]
    <2>1. RemoveAt(s, k)[i] = IF i <= k - 1 THEN before[i] ELSE behind[i - (k - 1)]
      BY <1>1, <1>3, <1>5, <1>6, <1>4
    <2>2. CASE i < k
      BY <2>1, <2>2, <1>1, <1>4
    <2>3. CASE i >= k
      <3>1. i - (k - 1) \in 1..(Len(s) - k) /\ k + (i - (k - 1)) = i + 1
        BY <2>3, <1>4
      <3> QED BY <2>1, <2>3, <3>1, <1>2, <1>4
    <2> QED BY <2>2, <2>3, <1>4
  <1> QED BY <1>3, <1>5, <1>6, <1>7

LEMMA ToSetMembers ==
  ASSUME NEW S, NEW s \in Seq(S), NEW x
  PROVE  x \in ToSet(s) <=> \E i \in 1..Len(s) : s[i] = x
  BY LenProperties DEF ToSet

LEMMA AppendMembers ==
  ASSUME NEW S, NEW s \in Seq(S), NEW x \in S
  PROVE  ToSet(Append(s, x)) = ToSet(s) \cup {x}
  <1> DEFINE t == Append(s, x)
             n == Len(s)
  <1>1. /\ n \in Nat /\ t \in Seq(S) /\ Len(t) = n + 1 /\ t[n + 1] = x
        /\ \A i \in 1..n : t[i] = s[i]
    BY AppendProperties, LenProperties
  <1> HIDE DEF t, n
  <1>2. \A i : i \in 1..(n + 1) <=> i \in 1..n \/ i = n + 1
    BY <1>1
  <1>3. ASSUME NEW y PROVE y \in ToSet(t) <=> y \in ToSet(s) \/ y = x
    <2>1. y \in ToSet(t) <=> \E i \in 1..(n + 1) : t[i] = y
      BY <1>1, ToSetMembers
    <2>2. y \in ToSet(s) <=> \E i \in 1..n : s[i] = y
      BY ToSetMembers DEF n
    <2> QED BY <1>1, <1>2, <2>1, <2>2
  <1>4. ToSet(t) = ToSet(s) \cup {x}
    BY <1>3
  <1> QED BY <1>4 DEF t

LEMMA FrontMembers ==
  ASSUME NEW S, NEW s \in Seq(S), NEW t \in Seq(S), Len(s) > 0, Len(t) = Len(s) - 1,
         \A i \in 1..Len(t) : t[i] = s[i],
         \A i, j \in 1..Len(s) : s[i] = s[j] => i = j
  PROVE  ToSet(t) = ToSet(s) \ {s[Len(s)]}
  <1> DEFINE n == Len(s)
  <1>1. n \in Nat /\ n > 0 /\ n \in 1..n /\ Len(t) = n - 1
    BY LenProperties
  <1>2. \A i : i \in 1..(n - 1) <=> i \in 1..n /\ i # n
    BY <1>1
  <1>3. ASSUME NEW y PROVE y \in ToSet(t) <=> y \in ToSet(s) /\ y # s[n]
    <2>1. y \in ToSet(t) <=> \E i \in 1..(n - 1) : t[i] = y
      BY <1>1, ToSetMembers
    <2>2. y \in ToSet(s) <=> \E i \in 1..n : s[i] = y
      BY ToSetMembers
    <2> QED BY <1>1, <1>2, <2>1, <2>2
  <1> QED BY <1>3

-----------------------------------------------------------------------------
IInv == Typed /\ MutexInv /\ ListsInv /\ JoinableInv /\ ReportsInv /\ RefsInv

LEMMA InitIInv == Init => IInv
  <1> SUFFICES ASSUME Init PROVE IInv
    OBVIOUS
  <1>1. Typed
    BY DEF Init, Typed, Statement
  <1>2. MutexInv /\ JoinableInv
    BY DEF Init, MutexInv, JoinableInv
  <1>3. ListsInv
    BY DEF Init, ListsInv, Accepted
  <1>4. ReportsInv
    BY DEF Init, ReportsInv
  <1>5. RefsInv
    BY DEF Init, RefsInv, ToSet
  <1> QED BY <1>1, <1>2, <1>3, <1>4, <1>5 DEF IInv

(* What a turn of the erasing loop removes is the last entry, if there is  *)
(* one: the second report of one entry finds none.                         *)
LEMMA EraseEffect ==
  ASSUME IInv, Erase
  PROVE  /\ main = "erase" /\ Len(threads) \in Nat
         /\ del' \in Seq(Nat)
         /\ \/ /\ main' = "erase"
               /\ Len(threads) > 0 /\ Len(clients) = Len(threads)
               /\ threads' \in Seq(Entry) /\ Len(threads') = Len(threads) - 1
               /\ \A i \in 1..Len(threads') : threads'[i] = threads[i]
               /\ clients' \in Seq(Conn) /\ Len(clients') = Len(clients) - 1
               /\ \A i \in 1..Len(clients') : clients'[i] = clients[i]
               /\ refs' = [refs EXCEPT ![clients[Len(clients)]] = @ - 1]
               /\ \/ del' = <<>>
                  \/ Len(del') = 1 /\ del'[1] = Len(threads') /\ ReportedTwice(Len(threads'))
            \/ /\ main' = "undefined"
               /\ UNCHANGED <<clients, threads, refs>>
               /\ del' = <<>>
               /\ ReportedTwice(Len(threads))
  <1> DEFINE n == Len(threads)
  <1>1. PICK k \in DOMAIN del :
          /\ del' = RemoveAt(del, k)
          /\ IF del[k] < n
             THEN /\ refs' = [refs EXCEPT ![clients[ClientAt(del[k])]] = @ - 1]
                  /\ clients' = RemoveAt(clients, ClientAt(del[k]))
                  /\ threads' = RemoveAt(threads, del[k] + 1)
                  /\ UNCHANGED main
             ELSE main' = "undefined" /\ UNCHANGED <<clients, threads, refs>>
    BY DEF Erase
  <1>2. /\ main = "erase" /\ n \in Nat /\ Len(clients) = n
        /\ clients \in Seq(Conn) /\ threads \in Seq(Entry) /\ del \in Seq(Nat)
    BY LenProperties DEF Erase, IInv, Typed, ListsInv
  <1>3. k \in 1..Len(del) /\ del # <<>>
    BY <1>1, <1>2
  <1>4. /\ del' \in Seq(Nat) /\ Len(del') = Len(del) - 1
        /\ \A i \in 1..(Len(del) - 1) : del'[i] = IF i < k THEN del[i] ELSE del[i + 1]
    BY <1>1, <1>2, <1>3, RemoveAtProperties
  <1>5. \/ Len(del) = 1 /\ del[1] = n - 1 /\ n > 0
        \/ Len(del) = 2 /\ del[1] = n - 1 /\ del[2] = n - 1 /\ n > 0 /\ ReportedTwice(n - 1)
        \/ Len(del) = 1 /\ del[1] = n /\ ReportedTwice(n)
    BY <1>2, <1>3 DEF IInv, ReportsInv
  <1>6. CASE del[k] < n
    <2>1. del[k] = n - 1 /\ n > 0 /\ ClientAt(del[k]) = n /\ del[k] + 1 = n
      BY <1>2, <1>3, <1>5, <1>6 DEF ClientAt
    <2>2. /\ threads' \in Seq(Entry) /\ Len(threads') = n - 1
          /\ \A i \in 1..(n - 1) : threads'[i] = threads[i]
      BY <1>1, <1>2, <1>6, <2>1, RemoveAtProperties
    <2>3. /\ clients' \in Seq(Conn) /\ Len(clients') = n - 1
          /\ \A i \in 1..(n - 1) : clients'[i] = clients[i]
      BY <1>1, <1>2, <1>6, <2>1, RemoveAtProperties
    <2>4. \/ del' = <<>>
          \/ Len(del') = 1 /\ del'[1] = n - 1 /\ ReportedTwice(n - 1)
      <3>1. CASE Len(del) = 1
        BY <3>1, <1>4
      <3>2. CASE Len(del) = 2
        BY <3>2, <1>3, <1>4, <1>5
      <3> QED BY <3>1, <3>2, <1>5
    <2> QED BY <1>1, <1>2, <1>4, <1>6, <2>1, <2>2, <2>3, <2>4
  <1>7. CASE ~ (del[k] < n)
    <2>1. Len(del) = 1 /\ ReportedTwice(n)
      BY <1>2, <1>3, <1>5, <1>7
    <2> QED BY <1>1, <1>2, <1>4, <1>7, <2>1
  <1> QED BY <1>6, <1>7

LEMMA NextTyped == IInv /\ [Next]_vars => Typed'
  <1> SUFFICES ASSUME IInv, [Next]_vars PROVE Typed'
    OBVIOUS
  <1>0. Typed
    BY DEF IInv
  <1> USE DEF Typed, Statement
  <1>1. ASSUME NEW c \in Conn, Connect(c) \/ Accept(c) PROVE Typed'
    BY <1>0, <1>1 DEF Connect, Accept
  <1>2. CASE AcceptFails \/ LockLists \/ EraseDone
    BY <1>0, <1>2 DEF AcceptFails, LockLists, EraseDone
  <1>3. CASE PushClient
    <2>1. Append(clients, NS) \in Seq(Conn)
      BY <1>0, AppendProperties
    <2> QED BY <1>0, <1>3, <2>1 DEF PushClient
  <1>4. CASE StartThread
    BY <1>0, <1>4 DEF StartThread, ByCopy
  <1>5. CASE PushThread
    <2>1. Append(threads, [conn |-> NS, joinable |-> TRUE]) \in Seq(Entry)
      BY <1>0, AppendProperties DEF Entry
    <2> QED BY <1>0, <1>5, <2>1 DEF PushThread
  <1>6. CASE Detach
    <2>1. Len(threads) \in 1..Len(threads)
      BY <1>0, <1>6, LenProperties DEF IInv, JoinableInv, Detach
    <2>2. [threads[Len(threads)] EXCEPT !.joinable = FALSE] \in Entry
      <3>1. threads[Len(threads)] \in Entry
        BY <1>0, <2>1, ElementOfSeq
      <3> QED BY <3>1 DEF Entry
    <2>3. threads' \in Seq(Entry)
      BY <1>0, <1>6, <2>1, <2>2, ExceptSeq DEF Detach
    <2> QED BY <1>0, <1>6, <2>3 DEF Detach
  <1>7. CASE Erase
    <2>1. threads' \in Seq(Entry) /\ clients' \in Seq(Conn) /\ del' \in Seq(Nat)
      BY <1>0, <1>7, EraseEffect
    <2>2. main' \in {"erase", "undefined"} /\ refs' \in [Conn -> Int]
      <3>1. \/ refs' = [refs EXCEPT ![clients[Len(clients)]] = @ - 1]
            \/ UNCHANGED refs
        BY <1>7, EraseEffect
      <3>2. refs' \in [Conn -> Int]
        BY <1>0, <3>1
      <3>3. main' \in {"erase", "undefined"}
        BY <1>7, EraseEffect
      <3> QED BY <3>2, <3>3
    <2> QED BY <1>0, <1>7, <2>1, <2>2 DEF Erase
  <1>8. ASSUME NEW c \in Conn, GetData(c) \/ Callback(c) \/ LockDel(c) PROVE Typed'
    BY <1>0, <1>8 DEF GetData, Callback, LockDel, ThreadGoes
  <1>9. ASSUME NEW c \in Conn, Scan(c) PROVE Typed'
    <2>1. counter'[c] \in Nat
      <3>1. Len(threads) \in Nat
        BY <1>0, LenProperties
      <3>2. OwnEntry(c) \subseteq 1..Len(threads)
        BY <1>0, LenProperties DEF OwnEntry
      <3>3. CASE OwnEntry(c) = {}
        BY <1>0, <1>9, <3>1, <3>3 DEF Scan
      <3>4. CASE OwnEntry(c) # {}
        <4>1. (CHOOSE i \in OwnEntry(c) : TRUE) \in 1..Len(threads)
          BY <3>2, <3>4
        <4> QED BY <1>0, <1>9, <3>1, <3>4, <4>1 DEF Scan
      <3> QED BY <3>3, <3>4
    <2>2. counter' = [counter EXCEPT ![c] = counter'[c]]
      BY <1>0, <1>9 DEF Scan
    <2>3. counter' \in [Conn -> Nat]
      BY <1>0, <2>1, <2>2
    <2> QED BY <1>0, <1>9, <2>3 DEF Scan, ThreadGoes
  <1>10. ASSUME NEW c \in Conn, Compare(c) PROVE Typed'
    <2>1. del' \in Seq(Nat)
      BY <1>0, <1>10, AppendProperties DEF Compare
    <2> QED BY <1>0, <1>10, <2>1 DEF Compare, ThreadGoes
  <1>11. CASE UNCHANGED vars
    BY <1>0, <1>11 DEF vars
  <1> QED
    BY <1>1, <1>2, <1>3, <1>4, <1>5, <1>6, <1>7, <1>8, <1>9, <1>10, <1>11
       DEF Next, Loop, Ending, Halted

LEMMA NextMutex == IInv /\ [Next]_vars => MutexInv'
  <1> SUFFICES ASSUME IInv, [Next]_vars PROVE MutexInv'
    OBVIOUS
  <1> USE MainAssumption DEF IInv, Typed, MutexInv
  <1>1. ASSUME NEW c \in Conn, Connect(c) \/ Accept(c) PROVE MutexInv'
    BY <1>1 DEF Connect, Accept
  <1>2. CASE AcceptFails \/ PushClient \/ PushThread \/ Detach
    BY <1>2 DEF AcceptFails, PushClient, PushThread, Detach
  <1>3. CASE StartThread
    BY <1>3 DEF StartThread
  <1>4. CASE LockLists
    BY <1>4 DEF LockLists, VecFree
  <1>5. CASE Erase
    <2>1. vec_mutex = {Main} /\ UNCHANGED <<vec_mutex, at>>
      BY <1>5 DEF Erase
    <2> QED BY <2>1
  <1>6. CASE EraseDone
    <2>1. \A c \in Conn : at[c] \notin {"scan", "compare"}
      BY <1>6 DEF EraseDone
    <2> QED BY <1>6, <2>1 DEF EraseDone
  <1>7. ASSUME NEW c \in Conn, GetData(c) \/ Callback(c) PROVE MutexInv'
    BY <1>7 DEF GetData, Callback, ThreadGoes
  <1>8. ASSUME NEW c \in Conn, LockDel(c) PROVE MutexInv'
    BY <1>8 DEF LockDel, ThreadGoes, VecFree
  <1>9. ASSUME NEW c \in Conn, Scan(c) PROVE MutexInv'
    BY <1>9 DEF Scan, ThreadGoes
  <1>10. ASSUME NEW c \in Conn, Compare(c) PROVE MutexInv'
    BY <1>10 DEF Compare, ThreadGoes, Unlocked, Alive
  <1>11. CASE UNCHANGED vars
    BY <1>11 DEF vars
  <1> QED
    BY <1>1, <1>2, <1>3, <1>4, <1>5, <1>6, <1>7, <1>8, <1>9, <1>10, <1>11
       DEF Next, Loop, Ending, Halted

LEMMA NextJoinable == IInv /\ [Next]_vars => JoinableInv'
  <1> SUFFICES ASSUME IInv, [Next]_vars PROVE JoinableInv'
    OBVIOUS
  <1>0. /\ Typed /\ JoinableInv /\ Len(threads) \in Nat
        /\ \A i \in 1..Len(threads) : threads[i] \in Entry
    BY LenProperties, ElementOfSeq DEF IInv, Typed
  <1> USE DEF JoinableInv
  <1>1. ASSUME NEW c \in Conn, Connect(c) PROVE JoinableInv'
    BY <1>0, <1>1 DEF Connect
  <1>2. ASSUME NEW c \in Conn, Accept(c) PROVE JoinableInv'
    BY <1>0, <1>2 DEF Accept
  <1>3. CASE AcceptFails \/ PushClient \/ StartThread
    BY <1>0, <1>3 DEF AcceptFails, PushClient, StartThread
  <1>4. CASE PushThread
    <2> DEFINE new == [conn |-> NS, joinable |-> TRUE]
    <2>1. new \in Entry /\ threads \in Seq(Entry)
      BY <1>0 DEF Typed, Entry
    <2>2. /\ threads' = Append(threads, new)
          /\ main = "push_thread" /\ main' = "detach" /\ NS' = NS
      BY <1>4 DEF PushThread
    <2>3. /\ Len(threads') = Len(threads) + 1
          /\ \A i \in 1..Len(threads) : threads'[i] = threads[i]
          /\ threads'[Len(threads) + 1] = new
      BY <2>1, <2>2, AppendProperties
    <2>4. \A i \in 1..Len(threads') : i \in 1..Len(threads) \/ i = Len(threads) + 1
      BY <1>0, <2>3
    <2> QED BY <1>0, <2>2, <2>3, <2>4
  <1>5. CASE Detach
    <2> DEFINE n == Len(threads)
    <2>1. /\ n \in 1..n /\ threads[n].conn = NS /\ threads \in Seq(Entry)
          /\ main = "detach" /\ main' = "lock" /\ NS' = NS
          /\ threads' = [threads EXCEPT ![n] = [threads[n] EXCEPT !.joinable = FALSE]]
      BY <1>0, <1>5 DEF Detach, Typed
    <2>2. [threads[n] EXCEPT !.joinable = FALSE] \in Entry
      BY <1>0, <2>1 DEF Entry
    <2>3. /\ Len(threads') = n
          /\ \A i \in 1..n : threads'[i] = IF i = n THEN [threads[n] EXCEPT !.joinable = FALSE]
                                          ELSE threads[i]
      BY <2>1, <2>2, ExceptSeq
    <2>4. threads'[n].conn = NS /\ ~ threads'[n].joinable
      BY <1>0, <2>1, <2>3 DEF Entry
    <2> QED BY <1>0, <2>1, <2>3, <2>4
  <1>6. CASE LockLists \/ EraseDone
    BY <1>0, <1>6 DEF LockLists, EraseDone
  <1>7. CASE Erase
    <2>1. main' \in {"erase", "undefined"} /\ Len(threads') \in {Len(threads), Len(threads) - 1}
          /\ \A i \in 1..Len(threads') : threads'[i] = threads[i]
      BY <1>7, EraseEffect
    <2>2. \A i \in 1..Len(threads) : ~ threads[i].joinable
      BY <1>0, <1>7 DEF Erase
    <2> QED BY <1>0, <2>1, <2>2
  <1>8. ASSUME NEW c \in Conn, GetData(c) \/ Callback(c) \/ LockDel(c) PROVE JoinableInv'
    BY <1>0, <1>8 DEF GetData, Callback, LockDel
  <1>9. ASSUME NEW c \in Conn, Scan(c) \/ Compare(c) PROVE JoinableInv'
    BY <1>0, <1>9 DEF Scan, Compare
  <1>10. CASE UNCHANGED vars
    BY <1>0, <1>10 DEF vars
  <1> QED
    BY <1>1, <1>2, <1>3, <1>4, <1>5, <1>6, <1>7, <1>8, <1>9, <1>10
       DEF Next, Loop, Ending, Halted

LEMMA NextLists == IInv /\ [Next]_vars => ListsInv'
  <1> SUFFICES ASSUME IInv, [Next]_vars PROVE ListsInv'
    OBVIOUS
  <1>0. /\ Typed /\ ListsInv /\ Len(threads) \in Nat /\ Len(clients) \in Nat
        /\ \A i \in 1..Len(clients) : clients[i] \in Conn
        /\ \A c : c \in ToSet(clients) <=> \E i \in 1..Len(clients) : clients[i] = c
    BY LenProperties, ElementOfSeq DEF IInv, Typed, ToSet
  <1> USE DEF ListsInv, Accepted
  <1>1. ASSUME NEW c \in Conn, Connect(c) PROVE ListsInv'
    BY <1>0, <1>1 DEF Connect
  <1>2. ASSUME NEW c \in Conn, Accept(c) PROVE ListsInv'
    <2>1. /\ c \in backlog /\ main = "accept" /\ main' = "push_client" /\ NS' = c
          /\ backlog' = backlog \ {c} /\ UNCHANGED <<clients, threads, at>>
      BY <1>2 DEF Accept
    <2>2. at[c] = "none" /\ c \notin ToSet(clients)
      BY <1>0, <2>1
    <2> QED BY <1>0, <2>1, <2>2
  <1>3. CASE AcceptFails
    BY <1>0, <1>3 DEF AcceptFails
  <1>4. CASE PushClient
    <2>1. /\ main = "push_client" /\ main' = "start_thread" /\ clients' = Append(clients, NS)
          /\ UNCHANGED <<backlog, NS, threads, at>> /\ NS \notin ToSet(clients) /\ at[NS] = "none"
      BY <1>0, <1>4 DEF PushClient
    <2>2. /\ Len(clients') = Len(clients) + 1
          /\ \A i \in 1..Len(clients) : clients'[i] = clients[i]
          /\ clients'[Len(clients) + 1] = NS
          /\ clients' \in Seq(Conn)
      BY <1>0, <2>1, AppendProperties DEF Typed
    <2>3. \A i \in 1..Len(clients') : i \in 1..Len(clients) \/ i = Len(clients) + 1
      BY <1>0, <2>2
    <2>4. \A c : c \in ToSet(clients') <=> c \in ToSet(clients) \/ c = NS
      <3>1. DOMAIN clients' = 1..Len(clients')
        BY <2>2, LenProperties
      <3> QED BY <1>0, <2>2, <2>3, <3>1 DEF ToSet
    <2>5. \A i \in 1..Len(clients) : clients[i] # NS
      BY <1>0, <2>1
    <2>6. \A i, j \in 1..Len(clients') : clients'[i] = clients'[j] => i = j
      BY <1>0, <2>2, <2>3, <2>5
    <2>7. \A c \in backlog' : ~ Accepted(c)'
      BY <1>0, <2>1, <2>4
    <2> QED BY <1>0, <2>1, <2>2, <2>3, <2>5, <2>6, <2>7
  <1>5. CASE StartThread
    <2>1. /\ main = "start_thread" /\ main' = "push_thread" /\ at' = [at EXCEPT ![NS] = "get_data"]
          /\ UNCHANGED <<backlog, NS, clients, threads>>
      BY <1>5 DEF StartThread
    <2>2. NS \in ToSet(clients)
      BY <1>0, <2>1
    <2>3. NS \in Conn /\ at'[NS] = "get_data" /\ \A c \in Conn \ {NS} : at'[c] = at[c]
      <3> HIDE DEF ListsInv, Accepted
      <3> QED BY <1>0, <2>1 DEF Typed
    <2>4. backlog \subseteq Conn
      BY <1>0 DEF Typed
    <2> QED BY <1>0, <2>1, <2>2, <2>3, <2>4
  <1>6. CASE PushThread
    <2> DEFINE new == [conn |-> NS, joinable |-> TRUE]
    <2>1. new \in Entry /\ threads \in Seq(Entry)
      BY <1>0 DEF Typed, Entry
    <2>2. /\ threads' = Append(threads, new)
          /\ main = "push_thread" /\ main' = "detach" /\ UNCHANGED <<backlog, NS, clients, at>>
      BY <1>6 DEF PushThread
    <2>3. /\ Len(threads') = Len(threads) + 1
          /\ \A i \in 1..Len(threads) : threads'[i] = threads[i]
          /\ threads'[Len(threads) + 1] = new
      BY <2>1, <2>2, AppendProperties
    <2>4. \A i \in 1..Len(threads') : i \in 1..Len(threads) \/ i = Len(threads) + 1
      BY <1>0, <2>3
    <2> QED BY <1>0, <2>2, <2>3, <2>4
  <1>7. CASE Detach
    <2> DEFINE n == Len(threads)
    <2>1. /\ n \in 1..n /\ threads \in Seq(Entry) /\ threads[n] \in Entry
          /\ main = "detach" /\ main' = "lock" /\ UNCHANGED <<backlog, NS, clients, at>>
          /\ threads' = [threads EXCEPT ![n] = [threads[n] EXCEPT !.joinable = FALSE]]
      BY <1>0, <1>7, ElementOfSeq DEF Detach, Typed, IInv, JoinableInv
    <2>2. [threads[n] EXCEPT !.joinable = FALSE] \in Entry
      BY <2>1 DEF Entry
    <2>3. /\ Len(threads') = n
          /\ \A i \in 1..n : threads'[i] = IF i = n THEN [threads[n] EXCEPT !.joinable = FALSE]
                                          ELSE threads[i]
      BY <2>1, <2>2, ExceptSeq
    <2>4. \A i \in 1..n : threads'[i].conn = threads[i].conn
      BY <2>1, <2>3 DEF Entry
    <2> QED BY <1>0, <2>1, <2>3, <2>4
  <1>8. CASE LockLists \/ EraseDone
    BY <1>0, <1>8 DEF LockLists, EraseDone
  <1>9. CASE Erase
    <2>1. /\ main = "erase" /\ main' \in {"erase", "undefined"} /\ UNCHANGED <<backlog, NS, at>>
          /\ Len(clients') = Len(threads') /\ Len(clients') \in Nat
          /\ Len(clients') <= Len(clients)
          /\ clients' \in Seq(Conn)
          /\ \A i \in 1..Len(threads') : threads'[i] = threads[i]
          /\ \A i \in 1..Len(clients') : clients'[i] = clients[i]
      <3>1. /\ main = "erase" /\ UNCHANGED <<backlog, NS, at>> /\ Len(clients) = Len(threads)
            /\ clients \in Seq(Conn) /\ threads \in Seq(Entry)
        BY <1>0, <1>9 DEF Erase, Typed
      <3> HIDE DEF ListsInv, Accepted
      <3>2. CASE main' = "erase"
        BY <1>0, <1>9, <3>1, <3>2, EraseEffect
      <3>3. CASE main' = "undefined"
        BY <1>0, <1>9, <3>1, <3>3, EraseEffect
      <3> QED BY <1>9, <3>2, <3>3, EraseEffect
    <2>2. \A i \in 1..Len(clients') : i \in 1..Len(clients) /\ i \in 1..Len(threads)
      BY <1>0, <2>1
    <2>3. \A c : c \in ToSet(clients') => c \in ToSet(clients)
      <3>1. DOMAIN clients' = 1..Len(clients')
        BY <2>1, LenProperties
      <3> QED BY <1>0, <2>1, <2>2, <3>1 DEF ToSet
    <2> QED BY <1>0, <2>1, <2>2, <2>3
  <1>10. ASSUME NEW c \in Conn, at[c] # "none", at'[c] # "none",
                \A d \in Conn \ {c} : at'[d] = at[d],
                UNCHANGED <<backlog, main, NS, clients, threads>>
         PROVE  ListsInv'
    <2>1. \A d \in Conn : at'[d] = "none" <=> at[d] = "none"
      BY <1>10
    <2>2. NS \in Conn /\ backlog \subseteq Conn
      BY <1>0 DEF Typed
    <2> QED BY <1>0, <1>10, <2>1, <2>2
  <1>11. ASSUME NEW c \in Conn, GetData(c) \/ Callback(c) \/ Ending(c) PROVE ListsInv'
    <2>1. /\ at[c] # "none" /\ at'[c] # "none" /\ \A d \in Conn \ {c} : at'[d] = at[d]
          /\ UNCHANGED <<backlog, main, NS, clients, threads>>
      BY <1>0, <1>11
         DEF Typed, GetData, Callback, Ending, LockDel, Scan, Compare, ThreadGoes
    <2> QED BY <1>10, <2>1
  <1>12. CASE UNCHANGED vars
    BY <1>0, <1>12 DEF vars
  <1> QED
    BY <1>1, <1>2, <1>3, <1>4, <1>5, <1>6, <1>7, <1>8, <1>9, <1>11, <1>12
       DEF Next, Loop, Halted

LEMMA UpToTwo == \A n \in Nat : n <= 2 => n \in {0, 1, 2}
  OBVIOUS

LEMMA NextReports == IInv /\ [Next]_vars => ReportsInv'
  <1> SUFFICES ASSUME IInv, [Next]_vars PROVE ReportsInv'
    OBVIOUS
  <1>0. /\ ReportsInv /\ MutexInv /\ JoinableInv /\ Len(threads) \in Nat /\ Len(del) \in Nat
        /\ NS \in Conn /\ main \in Statement
        /\ threads \in Seq(Entry) /\ del \in Seq(Nat)
    BY LenProperties DEF IInv, Typed
  <1>a. /\ at \in [Conn -> {"none", "get_data", "callback", "lock", "scan", "compare", "ended"}]
        /\ counter \in [Conn -> Nat]
    BY DEF IInv, Typed
  <1> USE DEF ReportsInv, ReportedTwice, Reported
  <1>1. ASSUME NEW c \in Conn, Connect(c) PROVE ReportsInv'
    BY <1>0, <1>1 DEF Connect
  <1>2. ASSUME NEW c \in Conn, Accept(c) PROVE ReportsInv'
    BY <1>0, <1>2 DEF Accept
  <1>3. CASE AcceptFails \/ PushClient
    BY <1>0, <1>3 DEF AcceptFails, PushClient
  <1>4. CASE StartThread
    <2>1. /\ main = "start_thread" /\ main' = "push_thread" /\ UNCHANGED <<NS, threads, del, counter>>
          /\ \A d \in Conn : at'[d] = "compare" => at[d] = "compare"
      BY <1>a, <1>4 DEF StartThread
    <2> QED BY <1>0, <2>1
  <1>5. CASE PushThread
    <2>1. /\ main = "push_thread" /\ main' = "detach" /\ UNCHANGED <<NS, del, at, counter>>
          /\ del = <<>>
      BY <1>0, <1>5 DEF PushThread
    <2>2. Len(threads') = Len(threads) + 1
      BY <1>0, <1>5, AppendProperties DEF PushThread, Entry
    <2> QED BY <1>0, <2>1, <2>2
  <1>6. CASE Detach
    <2>1. /\ main = "detach" /\ main' = "lock" /\ UNCHANGED <<NS, del, at, counter>>
      BY <1>6 DEF Detach
    <2>2. Len(threads') = Len(threads)
      BY <1>0, <1>6 DEF Detach
    <2> QED BY <1>0, <2>1, <2>2
  <1>7. CASE LockLists
    <2>1. /\ main = "lock" /\ main' = "erase" /\ UNCHANGED <<NS, threads, del, at, counter>>
          /\ Len(threads) > 0
          /\ \A d \in Conn : at[d] # "compare"
      BY <1>0, <1>7 DEF LockLists, VecFree, MutexInv, JoinableInv
    <2>2. \/ Len(del) = 0 /\ del = <<>>
          \/ Len(del) = 1 /\ del[1] = Len(threads) - 1
          \/ /\ Len(del) = 2 /\ del[1] = Len(threads) - 1 /\ del[2] = Len(threads) - 1
             /\ ReportedTwice(Len(threads) - 1)
      <3>1. /\ Len(del) <= 2 /\ Len(del) \in Nat
            /\ \A i \in 1..Len(del) : del[i] = Len(threads) - 1
            /\ Len(del) = 2 => ReportedTwice(Len(threads) - 1)
        BY <1>0, <2>1
      <3> HIDE DEF ReportsInv, ReportedTwice
      <3>2. CASE Len(del) = 0
        BY <1>0, <3>2, EmptySeq
      <3>3. CASE Len(del) = 1
        BY <3>1, <3>3
      <3>4. CASE Len(del) = 2
        BY <3>1, <3>4
      <3>5. Len(del) \in {0, 1, 2}
        BY <3>1, UpToTwo
      <3> QED BY <3>2, <3>3, <3>4, <3>5
    <2> QED BY <1>0, <2>1, <2>2
  <1>8. CASE Erase
    <2>1. UNCHANGED <<NS, at, counter>> /\ \A d \in Conn : at[d] # "compare"
      BY <1>0, <1>8, MainAssumption DEF Erase, MutexInv
    <2>2. \/ /\ main' = "erase" /\ Len(threads') \in Nat
             /\ \/ del' = <<>>
                \/ Len(del') = 1 /\ del'[1] = Len(threads') /\ ReportedTwice(Len(threads'))
          \/ main' = "undefined" /\ UNCHANGED threads /\ del' = <<>> /\ ReportedTwice(Len(threads))
      BY <1>8, EraseEffect, LenProperties
    <2> QED BY <2>1, <2>2
  <1>9. CASE EraseDone
    BY <1>0, <1>9 DEF EraseDone
  <1>10. ASSUME NEW c \in Conn, GetData(c) \/ Callback(c) \/ LockDel(c) PROVE ReportsInv'
    <2>1. /\ UNCHANGED <<main, NS, threads, del, counter>>
          /\ \A d \in Conn : /\ at'[d] = "compare" <=> at[d] = "compare"
                             /\ at'[d] = "ended" <=> at[d] = "ended"
      BY <1>a, <1>10 DEF GetData, Callback, LockDel, ThreadGoes
    <2> QED BY <1>0, <2>1
  <1>11. ASSUME NEW c \in Conn, Scan(c) PROVE ReportsInv'
    <2>1. /\ UNCHANGED <<main, NS, threads, del>>
          /\ at[c] = "scan" /\ at'[c] = "compare"
          /\ \A d \in Conn \ {c} : at'[d] = at[d] /\ counter'[d] = counter[d]
          /\ counter'[c] = IF OwnEntry(c) = {} THEN Len(threads)
                           ELSE (CHOOSE i \in OwnEntry(c) : TRUE) - 1
      BY <1>a, <1>11 DEF Scan, ThreadGoes
    <2>2. \A d \in Conn \ {c} : at[d] # "compare"
      BY <1>0, <2>1 DEF MutexInv
    <2>3. \/ counter'[c] = Len(threads)
          \/ counter'[c] = Len(threads) - 1 /\ main = "detach" /\ c = NS
      <3>1. \A i \in OwnEntry(c) : i = Len(threads) /\ main = "detach" /\ c = NS
        BY <1>0, LenProperties DEF OwnEntry, JoinableInv
      <3>2. CASE OwnEntry(c) = {}
        BY <2>1, <3>2
      <3>3. CASE OwnEntry(c) # {}
        <4>1. (CHOOSE i \in OwnEntry(c) : TRUE) \in OwnEntry(c)
          BY <3>3
        <4> QED BY <2>1, <3>1, <3>3, <4>1
      <3> QED BY <3>2, <3>3
    <2>4. \A d \in Conn, k \in Int : Reported(d, k) => Reported(d, k)'
      BY <2>1
    <2> QED BY <1>0, <2>1, <2>2, <2>3, <2>4
  <1>12. ASSUME NEW c \in Conn, Compare(c) PROVE ReportsInv'
    <2> DEFINE newest == Len(threads) - 1
    <2>1. /\ UNCHANGED <<main, NS, threads, counter>>
          /\ at[c] = "compare" /\ at'[c] = "ended"
          /\ \A d \in Conn \ {c} : at'[d] = at[d]
          /\ del' = IF counter[c] < Len(threads) THEN Append(del, counter[c]) ELSE del
      BY <1>a, <1>12 DEF Compare, ThreadGoes, Found
    <2>2. /\ \A d \in Conn \ {c} : at[d] # "compare"
          /\ main \notin {"erase", "undefined"}
      BY <1>0, <2>1, MainAssumption DEF MutexInv
    <2>3. \A d \in Conn, k \in Int : Reported(d, k) => Reported(d, k)' /\ d # c
      BY <2>1
    <2>4. CASE ~ (counter[c] < Len(threads))
      BY <1>0, <2>1, <2>2, <2>3, <2>4
    <2>5. CASE counter[c] < Len(threads)
      <3>1. /\ counter[c] = newest /\ main \in {"detach", "lock"}
            /\ c # NS => del = <<>>
        BY <1>0, <2>1, <2>5
      <3>2. /\ \A i \in 1..Len(del) : del[i] = newest
            /\ Len(del) \in {0, 1}
        <4>1. /\ Len(del) # 2 /\ Len(del) <= 2
              /\ \A i \in 1..Len(del) : del[i] = newest
          BY <1>0, <2>1, <3>1
        <4>2. Len(del) \in {0, 1, 2}
          BY <1>0, <4>1, UpToTwo
        <4> QED BY <4>1, <4>2
      <3>3. /\ Len(del') = Len(del) + 1
            /\ \A i \in 1..Len(del) : del'[i] = del[i]
            /\ del'[Len(del) + 1] = newest
        BY <1>0, <1>a, <2>1, <2>5, <3>1, AppendProperties
      <3>4. Reported(c, newest)'
        BY <2>1, <3>1
      <3>5. CASE Len(del) = 0
        BY <2>1, <2>2, <3>1, <3>3, <3>4, <3>5
      <3>6. CASE Len(del) = 1
        <4>1. PICK d \in Conn : Reported(d, newest)
          BY <1>0, <3>1, <3>6
        <4>2. c = NS /\ d # c /\ Reported(d, newest)'
          BY <2>1, <3>1, <3>6, <4>1
        <4> QED BY <2>1, <2>2, <3>1, <3>2, <3>3, <3>4, <3>6, <4>2
      <3> QED BY <3>2, <3>5, <3>6
    <2> QED BY <2>4, <2>5
  <1>13. CASE UNCHANGED vars
    BY <1>0, <1>13 DEF vars
  <1> QED
    BY <1>1, <1>2, <1>3, <1>4, <1>5, <1>6, <1>7, <1>8, <1>9, <1>10, <1>11, <1>12, <1>13
       DEF Next, Loop, Ending, Halted

LEMMA NextRefs == IInv /\ [Next]_vars => RefsInv'
  <1> SUFFICES ASSUME IInv, [Next]_vars PROVE RefsInv'
    OBVIOUS
  <1>0. /\ RefsInv /\ ListsInv /\ Len(clients) \in Nat
        /\ NS \in Conn /\ clients \in Seq(Conn)
        /\ refs \in [Conn -> Int]
        /\ at \in [Conn -> {"none", "get_data", "callback", "lock", "scan", "compare", "ended"}]
        /\ \A i \in 1..Len(clients) : clients[i] \in Conn
    BY LenProperties, ElementOfSeq DEF IInv, Typed
  <1> USE DEF RefsInv
  <1>1. ASSUME NEW c \in Conn, Connect(c) \/ Accept(c) PROVE RefsInv'
    BY <1>0, <1>1 DEF Connect, Accept
  <1>2. CASE AcceptFails \/ PushThread \/ Detach \/ LockLists \/ EraseDone
    BY <1>0, <1>2 DEF AcceptFails, PushThread, Detach, LockLists, EraseDone
  <1>3. CASE PushClient
    <2>1. /\ clients' = Append(clients, NS) /\ at' = at
          /\ refs'[NS] = refs[NS] + 1 /\ \A d \in Conn \ {NS} : refs'[d] = refs[d]
          /\ NS \notin ToSet(clients)
      BY <1>0, <1>3 DEF PushClient, ListsInv
    <2>2. ToSet(clients') = ToSet(clients) \cup {NS}
      BY <1>0, <2>1, AppendMembers
    <2> QED BY <1>0, <2>1, <2>2
  <1>4. CASE StartThread
    <2>1. /\ clients' = clients /\ at[NS] = "none" /\ at'[NS] = "get_data"
          /\ refs'[NS] = refs[NS] + 1
          /\ \A d \in Conn \ {NS} : refs'[d] = refs[d] /\ at'[d] = at[d]
      BY <1>0, <1>4 DEF StartThread, ByCopy, ListsInv
    <2> QED BY <1>0, <2>1
  <1>5. CASE Erase
    <2>1. at' = at
      BY <1>5 DEF Erase
    <2>2. CASE main' = "erase"
      <3> DEFINE x == clients[Len(clients)]
      <3>1. /\ Len(clients) \in 1..Len(clients) /\ Len(clients') = Len(clients) - 1
            /\ \A i \in 1..Len(clients') : clients'[i] = clients[i]
            /\ refs' = [refs EXCEPT ![x] = @ - 1]
            /\ clients' \in Seq(Conn) /\ Len(clients) > 0
        BY <1>0, <1>5, <2>2, EraseEffect
      <3>2. x \in Conn /\ x \in ToSet(clients)
        BY <1>0, <3>1, ToSetMembers
      <3>3. \A i, j \in 1..Len(clients) : clients[i] = clients[j] => i = j
        BY <1>0 DEF ListsInv
      <3>4. ToSet(clients') = ToSet(clients) \ {x}
        BY <1>0, <3>1, <3>3, FrontMembers
      <3>5. refs'[x] = refs[x] - 1 /\ \A d \in Conn \ {x} : refs'[d] = refs[d]
        BY <1>0, <3>1, <3>2
      <3> HIDE DEF x
      <3> QED BY <1>0, <2>1, <3>2, <3>4, <3>5
    <2>3. CASE main' = "undefined"
      BY <1>0, <1>5, <2>1, <2>3, EraseEffect
    <2> QED BY <1>5, <2>2, <2>3, EraseEffect
  <1>6. ASSUME NEW c \in Conn, GetData(c) \/ Callback(c) \/ LockDel(c) \/ Scan(c) PROVE RefsInv'
    <2>1. /\ UNCHANGED <<clients, refs>>
          /\ \A d \in Conn : at'[d] \in {"none", "ended"} <=> at[d] \in {"none", "ended"}
      BY <1>0, <1>6 DEF GetData, Callback, LockDel, Scan, ThreadGoes
    <2> QED BY <1>0, <2>1
  <1>7. ASSUME NEW c \in Conn, Compare(c) PROVE RefsInv'
    <2>1. /\ clients' = clients /\ at[c] = "compare" /\ at'[c] = "ended"
          /\ refs'[c] = refs[c] - 1
          /\ \A d \in Conn \ {c} : refs'[d] = refs[d] /\ at'[d] = at[d]
      BY <1>0, <1>7 DEF Compare, ThreadGoes
    <2> QED BY <1>0, <2>1
  <1>8. CASE UNCHANGED vars
    BY <1>0, <1>8 DEF vars
  <1> QED
    BY <1>1, <1>2, <1>3, <1>4, <1>5, <1>6, <1>7, <1>8
       DEF Next, Loop, Ending, Halted

LEMMA AlwaysIInv == Spec => []IInv
  <1>1. IInv /\ [Next]_vars => IInv'
    BY NextTyped, NextMutex, NextLists, NextJoinable, NextReports, NextRefs DEF IInv
  <1> QED BY InitIInv, <1>1, PTL DEF Spec

-----------------------------------------------------------------------------
(* The two lists stay parallel, position by position, although a thread     *)
(* reports a bare position and the loop appends without the mutex           *)
(* (tcpserver.cpp:86-110).                                                  *)
THEOREM ListsStayParallel == Spec => []ListsParallel
  <1>1. IInv => ListsParallel
    <2> SUFFICES ASSUME IInv PROVE ListsParallel
      OBVIOUS
    <2> DEFINE conns == [i \in DOMAIN threads |-> threads[i].conn]
               pending == main \in {"start_thread", "push_thread"}
    <2>1. /\ ListsInv /\ NS \in Conn /\ Len(threads) \in Nat /\ DOMAIN threads = 1..Len(threads)
          /\ clients \in Seq(Conn) /\ DOMAIN clients = 1..Len(clients)
          /\ \A i \in 1..Len(threads) : threads[i] \in Entry
      BY LenProperties, ElementOfSeq DEF IInv, Typed
    <2>2. \A i \in 1..Len(threads) : threads[i].conn \in Conn
      BY <2>1 DEF Entry
    <2>3. conns \in Seq(Conn) /\ Len(conns) = Len(threads)
          /\ \A i \in 1..Len(threads) : conns[i] = threads[i].conn
      BY <2>1, <2>2
    <2> HIDE DEF conns
    <2>4. CASE pending
      <3>1. /\ Append(conns, NS) \in Seq(Conn) /\ Len(Append(conns, NS)) = Len(threads) + 1
            /\ \A i \in 1..Len(threads) : Append(conns, NS)[i] = threads[i].conn
            /\ Append(conns, NS)[Len(threads) + 1] = NS
        BY <2>1, <2>3, AppendProperties
      <3>2. /\ Len(clients) = Len(threads) + 1
            /\ \A i \in 1..Len(threads) : clients[i] = threads[i].conn
            /\ clients[Len(threads) + 1] = NS
        BY <2>1, <2>4 DEF ListsInv
      <3>3. \A i \in 1..(Len(threads) + 1) : clients[i] = Append(conns, NS)[i]
        BY <2>1, <3>1, <3>2
      <3>4. clients = Append(conns, NS)
        BY <2>1, <3>1, <3>2, <3>3, SeqEqual
      <3> QED BY <2>4, <3>4 DEF ListsParallel, conns
    <2>5. CASE ~ pending
      <3>1. /\ Len(clients) = Len(threads)
            /\ \A i \in 1..Len(threads) : clients[i] = threads[i].conn
        BY <2>1, <2>5 DEF ListsInv
      <3>2. clients = conns
        BY <2>1, <2>3, <3>1, SeqEqual
      <3> QED BY <2>5, <3>2 DEF ListsParallel, conns
    <2> QED BY <2>4, <2>5
  <1> QED BY AlwaysIInv, <1>1, PTL

(* A position that waits to be erased is that of the entry appended last,   *)
(* and it waits at most twice, whichever threads end while the loop is      *)
(* between push and lock (tcpserver.cpp:87-90 and :132-146).                *)
THEOREM OnlyNewestReported == Spec => []DelNamesNewest
  <1>1. IInv => DelNamesNewest
    <2> SUFFICES ASSUME IInv PROVE DelNamesNewest
      OBVIOUS
    <2>1. /\ ReportsInv /\ Len(del) \in Nat /\ Len(threads) \in Nat
          /\ DOMAIN del = 1..Len(del) /\ main \in Statement
      BY LenProperties DEF IInv, Typed
    <2>2. main \in {"detach", "lock"} => \A i \in DOMAIN del : del[i] = Len(threads) - 1
      BY <2>1 DEF ReportsInv
    <2>3. Alive /\ del # <<>> => main \in {"detach", "lock", "erase"}
      BY <2>1 DEF ReportsInv
    <2>4. Len(del) <= 2
      <3>1. CASE main \in {"detach", "lock"}
        BY <2>1, <3>1 DEF ReportsInv
      <3>2. CASE main = "erase"
        BY <2>1, <3>2 DEF ReportsInv
      <3>3. CASE main \notin {"detach", "lock", "erase"}
        BY <2>1, <3>3 DEF ReportsInv
      <3> QED BY <3>1, <3>2, <3>3
    <2> QED BY <2>2, <2>3, <2>4 DEF DelNamesNewest
  <1> QED BY AlwaysIInv, <1>1, PTL

(* list::erase(end()) is reached in one way only: the newest connection's   *)
(* own thread and a second one have both reported its entry                 *)
(* (tcpserver.cpp:91-110).                                                  *)
THEOREM UndefinedNeedsTwoReports == Spec => []UndefinedAfterTwoReports
  <1>1. IInv => UndefinedAfterTwoReports
    BY DEF IInv, ReportsInv, ReportedTwice, Reported, UndefinedAfterTwoReports
  <1> QED BY AlwaysIInv, <1>1, PTL

(* The thread that serves a connection keeps its socket open, although its  *)
(* entry, and the list's reference with it, may have been erased            *)
(* (tcpserver.cpp:87 and :118-147).                                         *)
THEOREM ServedSocketOpen == Spec => []SocketOpenWhileServed
  <1>1. IInv => SocketOpenWhileServed
    <2> SUFFICES ASSUME IInv, NEW c \in Conn, at[c] \in {"get_data", "callback"}
                 PROVE  refs[c] > 0
      BY DEF SocketOpenWhileServed, Closed, IInv, Typed
    <2> QED BY DEF IInv, RefsInv
  <1> QED BY AlwaysIInv, <1>1, PTL

=============================================================================
