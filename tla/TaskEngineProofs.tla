--------------------------- MODULE TaskEngineProofs ---------------------------
(***************************************************************************)
(* Theorems about TaskEngine, for all tasks, threads and bounds.           *)
(***************************************************************************)
EXTENDS TaskEngine, TLAPS, NaturalsInduction, WellFoundedInduction, SequenceTheorems

\* A non-empty set of indices of a sequence has a least and a greatest element.
LEMMA MinMaxOfIndices ==
  ASSUME NEW n \in Nat, NEW I \in SUBSET (1 .. n), I # {}
  PROVE  /\ Min(I) \in I /\ \A j \in I : Min(I) <= j
         /\ Max(I) \in I /\ \A j \in I : j <= Max(I)
<1>1. IsWellFoundedOn(OpToRel(<, Nat), Nat)
  BY NatLessThanWellFounded
<1>2. ASSUME NEW J \in SUBSET Nat, J # {}
      PROVE  \E x \in J : \A y \in J : x <= y
  <2>1. PICK x \in J : \A y \in J : ~ (<<y, x>> \in OpToRel(<, Nat))
    BY <1>1, <1>2, WFMin
  <2>2. \A y \in J : ~ (y < x)
    BY <2>1, <1>2 DEF OpToRel
  <2> QED  BY <2>2, <1>2
<1>3. \E x \in I : \A y \in I : x <= y
  BY <1>2
<1>4. \E x \in I : \A y \in I : x >= y
  <2> DEFINE J == {n - i : i \in I}
  <2>1. J \in SUBSET Nat /\ J # {}
    <3>1. \A i \in I : n - i \in Nat  OBVIOUS
    <3>2. J # {}
      <4>1. PICK i \in I : TRUE  OBVIOUS
      <4> QED  BY <4>1
    <3> QED  BY <3>1, <3>2
  <2>2. PICK m \in J : \A y \in J : m <= y
    BY <2>1, <1>2
  <2>3. PICK x \in I : m = n - x
    BY <2>2
  <2>4. ASSUME NEW y \in I PROVE x >= y
    <3>1. n - y \in J  OBVIOUS
    <3>2. n - x <= n - y  BY <2>2, <2>3, <3>1
    <3> QED  BY <3>2
  <2> QED  BY <2>4
<1> QED  BY <1>3, <1>4 DEF Min, Max

\* Taking one element out of a sequence adds nothing to it.
LEMMA RemoveAtShrinks ==
  ASSUME NEW S, NEW s \in Seq(S), NEW i \in 1 .. Len(s)
  PROVE  /\ RemoveAt(s, i) \in Seq(S)
         /\ Range(RemoveAt(s, i)) \subseteq Range(s)
<1> DEFINE a == SubSeq(s, 1, i - 1)
           b == SubSeq(s, i + 1, Len(s))
<1>1. a \in Seq(S) /\ Len(a) = i - 1 /\ \A k \in 1 .. i - 1 : a[k] = s[k]
  OBVIOUS
<1>2. b \in Seq(S) /\ Len(b) = Len(s) - i /\ \A k \in 1 .. Len(s) - i : b[k] = s[k + i]
  OBVIOUS
<1>3. RemoveAt(s, i) = a \o b
  BY DEF RemoveAt
<1> DEFINE r == a \o b
<1> HIDE DEF a, b
<1>4. r \in Seq(S) /\ Len(r) = Len(s) - 1
      /\ (\A k \in 1 .. Len(s) - 1 : r[k] = IF k <= i - 1 THEN a[k] ELSE b[k - (i - 1)])
  <2>1. /\ r \in Seq(S) /\ Len(r) = Len(a) + Len(b)
        /\ \A k \in 1 .. Len(a) + Len(b) : r[k] = IF k <= Len(a) THEN a[k] ELSE b[k - Len(a)]
    BY <1>1, <1>2, ConcatProperties, Zenon
  <2>2. Len(a) = i - 1 /\ Len(a) + Len(b) = Len(s) - 1
    BY <1>1, <1>2
  <2> HIDE DEF r
  <2> QED  BY <2>1, <2>2
<1> HIDE DEF r
<1>5. ASSUME NEW k \in 1 .. Len(s) - 1
      PROVE  r[k] = s[k] \/ (k + 1 \in 1 .. Len(s) /\ r[k] = s[k + 1])
  <2>1. CASE k <= i - 1
    BY <1>1, <1>4, <2>1
  <2>2. CASE k > i - 1
    <3>1. k - (i - 1) \in 1 .. Len(s) - i  BY <2>2
    <3>2. b[k - (i - 1)] = s[k - (i - 1) + i]  BY <1>2, <3>1
    <3> QED  BY <1>4, <2>2, <3>2
  <2> QED  BY <2>1, <2>2
<1>6. ASSUME NEW k \in 1 .. Len(s) - 1
      PROVE  r[k] \in Range(s)
  <2>1. \A j \in 1 .. Len(s) : s[j] \in Range(s)
    BY DEF Range
  <2> QED  BY <1>5, <2>1
<1>7. Range(r) \subseteq Range(s)
  <2>1. DOMAIN r = 1 .. Len(s) - 1
    BY <1>4
  <2> QED  BY <1>6, <2>1, Zenon DEF Range
<1> QED  BY <1>3, <1>4, <1>7 DEF r

\* TaskQueue.remove only takes out of the list.
LEMMA WithoutShrinks ==
  ASSUME queue \in Seq(Ids), NEW t
  PROVE  /\ Without(t) \in Seq(Ids)
         /\ Range(Without(t)) \subseteq Listed
<1> DEFINE I == {i \in 1 .. Len(queue) : obj[queue[i]].task = t}
<1> I \in SUBSET (1 .. Len(queue)) /\ Len(queue) \in Nat
  OBVIOUS
<1>1. CASE I = {}
  <2>1. Without(t) = queue
    BY <1>1 DEF Without, RemoveFirstMatch
  <2> QED  BY <2>1 DEF Listed
<1>2. CASE I # {}
  <2>1. Without(t) = RemoveAt(queue, Min(I))
    BY <1>2 DEF Without, RemoveFirstMatch, SelectInSeq
  <2>2. Min(I) \in 1 .. Len(queue)
    <3> HIDE DEF I
    <3> QED  BY <1>2, MinMaxOfIndices
  <2> QED  BY <2>1, <2>2, RemoveAtShrinks DEF Listed
<1> QED  BY <1>1, <1>2

\* A batch write leaves a row alone or stores the Task object of an entry.
LEMMA ReplacedRows ==
  ASSUME NEW s \in Seq(Ids), NEW t \in Tasks
  PROVE  \/ Replaced(s)[t] = db[t]
         \/ \E e \in Range(s) : obj[e].task = t /\ Replaced(s)[t] = obj[e].row
<1> DEFINE I == {i \in 1 .. Len(s) : obj[s[i]].task = t}
<1> I \in SUBSET (1 .. Len(s)) /\ Len(s) \in Nat
  OBVIOUS
<1>1. CASE I = {}
  BY <1>1 DEF Replaced, SelectLastInSeq
<1>2. CASE I # {}
  <2>1. Max(I) \in I
    <3> HIDE DEF I
    <3> QED  BY <1>2, MinMaxOfIndices
  <2>2. Replaced(s)[t] = obj[s[Max(I)]].row
    BY <1>2, <2>1 DEF Replaced, SelectLastInSeq
  <2>3. ASSUME NEW m \in I PROVE s[m] \in Range(s) /\ obj[s[m]].task = t
    BY DEF Range
  <2> QED  BY <2>1, <2>2, <2>3
<1> QED  BY <1>1, <1>2
-----------------------------------------------------------------------------
\* The inductive invariant: who may refer to a Queue object, and what its rank
\* is then.

\* Places of a client where its Queue object is known to nobody else, and those
\* where it has one at all.
PrivatePCs == {"write", "isFull", "rank", "add", "vipWrite", "vipRemove", "vipSubmit",
               "killWrite", "killRemove"}
SharedPCs == {"first", "check", "modify", "batch", "submit"}

\* Whatever is in the list, in a snapshot of it, or with a client is an object.
ListedAreQueues == \A e \in Listed : obj[e] \in Queues
SnapsAreQueues == \A p \in Threads : \A e \in Range(snap[p]) : obj[e] \in Queues
OwnIsQueue ==
  \A c \in Clients : IF pc[c] \in PrivatePCs \cup SharedPCs
                     THEN own[c] \in Ids /\ obj[own[c]] \in Queues
                     ELSE own[c] = 0

\* A client shares its object with no other client, and with nobody until it
\* has added or submitted it.
OwnIsPrivate ==
  \A c \in Clients :
    /\ \A d \in Clients : own[c] = own[d] /\ own[c] # 0 => c = d
    /\ pc[c] \in PrivatePCs => /\ own[c] \notin Listed
                               /\ ~Held(own[c])
                               /\ \A p \in Threads : own[c] \notin Range(snap[p])

\* The pool is given objects of rank 0 only.
HeldAreReady == \A e \in Ids : Held(e) => obj[e] \in Queues /\ obj[e].rank = 0
VipAreReady ==
  \A c \in Clients : pc[c] \in {"vipWrite", "vipRemove", "vipSubmit"} => obj[own[c]].rank = 0
BusyWorkersHold == \A w \in Workers : wpc[w] # "idle" => run[w] \in Ids

\* The boot has loaded rows that exist.
LoadingAreRows == \A t \in loading.left : loading.rows[t] \in Rows

Refs == /\ ListedAreQueues /\ SnapsAreQueues /\ OwnIsQueue /\ OwnIsPrivate
        /\ HeldAreReady /\ VipAreReady /\ BusyWorkersHold /\ LoadingAreRows

\* An export or a change of schedule under way knows its task.
CalledPCs == {"created", "start", "stop", "delete"}
CallsHaveTasks == \A c \in Clients : pc[c] \in CalledPCs => arg[c] \in Tasks

\* Every copy of a row agrees that Finished means a query has succeeded.
FinishedAreEarned ==
  /\ \A t \in Tasks : /\ db[t].status = "Finished" => t \in succeeded
                      /\ loading.rows[t].status = "Finished" => t \in succeeded
  /\ \A e \in Ids : obj[e] \in Queues =>
       /\ obj[e].status # "Finished"
       /\ obj[e].row.status = "Finished" => obj[e].task \in succeeded
-----------------------------------------------------------------------------
\* Type correctness.

LEMMA RowsExist ==
  ASSUME TypeOK, NEW t \in Tasks, db[t] # NoRow
  PROVE  db[t] \in Rows
BY DEF TypeOK

LEMMA EntryIsQueue ==
  ASSUME NEW t \in Tasks, NEW row \in Rows, NEW r \in Int, NEW s \in Statuses,
         NEW v \in {TASK_COMMON, TASK_VIP}
  PROVE  Entry(t, row, r, s, v) \in Queues
BY DEF Entry, Queues

LEMMA StatusOfRow ==
  ASSUME NEW row \in Rows, NEW s \in Statuses
  PROVE  [row EXCEPT !.status = s] \in Rows
BY DEF Rows

LEMMA ModifiedType ==
  ASSUME TypeOK, ListedAreQueues
  PROVE  /\ Modified \in [Ids -> Queues \cup {NoQueue}]
         /\ \A e \in Ids : obj[e] \in Queues =>
              /\ Modified[e] \in Queues
              /\ Modified[e].rank = obj[e].rank /\ Modified[e].task = obj[e].task
              /\ Modified[e].status = obj[e].status
              /\ Modified[e].row.status \in {obj[e].row.status, obj[e].status}
         /\ \A e \in Ids : Modified[e] = NoQueue <=> obj[e] = NoQueue
<1>1. ASSUME NEW e \in Ids, obj[e] \in Queues
      PROVE  LET q == [obj[e] EXCEPT !.row.status = obj[e].status]
             IN /\ q \in Queues
                /\ q.rank = obj[e].rank /\ q.task = obj[e].task
                /\ q.status = obj[e].status /\ q.row.status = obj[e].status
  BY <1>1 DEF Queues, Rows
<1>2. ASSUME NEW e \in Ids
      PROVE  /\ Modified[e] \in Queues \cup {NoQueue}
             /\ obj[e] \in Queues =>
                  /\ Modified[e] \in Queues
                  /\ Modified[e].rank = obj[e].rank /\ Modified[e].task = obj[e].task
                  /\ Modified[e].status = obj[e].status
                  /\ Modified[e].row.status \in {obj[e].row.status, obj[e].status}
             /\ Modified[e] = NoQueue <=> obj[e] = NoQueue
  <2>1. CASE e \in Listed
    BY <1>1, <2>1 DEF Modified, ListedAreQueues, Queues, NoQueue, Statuses
  <2>2. CASE e \notin Listed
    BY <2>2 DEF Modified, TypeOK
  <2> QED  BY <2>1, <2>2
<1> QED  BY <1>2 DEF Modified

LEMMA NoQueueIsNoQueue == NoQueue \notin Queues
BY DEF NoQueue, Queues, Statuses

LEMMA ReplacedType ==
  ASSUME TypeOK, SnapsAreQueues, NEW p \in Threads
  PROVE  /\ Replaced(snap[p]) \in [Tasks -> Rows \cup {NoRow}]
<1>1. snap[p] \in Seq(Ids)
  BY DEF TypeOK
<1>2. ASSUME NEW t \in Tasks PROVE Replaced(snap[p])[t] \in Rows \cup {NoRow}
  <2>1. CASE Replaced(snap[p])[t] = db[t]
    BY <2>1 DEF TypeOK
  <2>2. ASSUME NEW e \in Range(snap[p]), Replaced(snap[p])[t] = obj[e].row
        PROVE  Replaced(snap[p])[t] \in Rows
    <3>1. obj[e] \in Queues  BY DEF SnapsAreQueues
    <3> QED  BY <2>2, <3>1 DEF Queues
  <2> QED  BY <1>1, <2>1, <2>2, ReplacedRows
<1> QED  BY <1>2 DEF Replaced

LEMMA StoredType ==
  ASSUME TypeOK, NEW e \in Ids, obj[e] \in Queues
  PROVE  Stored(e) \in [Tasks -> Rows \cup {NoRow}]
BY DEF TypeOK, Stored, Queues

LEMMA SubmitAllType ==
  ASSUME TypeOK, NEW S \in SUBSET Ids, SubmitAll(S)
  PROVE  pool' \in [Ids -> Nat] /\ handed' \subseteq Ids
BY DEF TypeOK, SubmitAll

LEMMA NoLoadingType ==
  /\ NoLoading \in Loadings /\ NoLoading.left = {} /\ NoLoading.next = NoTask
  /\ \A t \in Tasks : NoLoading.rows[t] = NoRow
BY DEF NoLoading, LoadingOf, Loadings

LEMMA InitType == Init => TypeOK
<1> SUFFICES ASSUME Init PROVE TypeOK
  OBVIOUS
<1>1. db \in [Tasks -> Rows \cup {NoRow}]
  BY TasksAssumption, BoundsAssumption DEF Init, Rows
<1>2. loading \in Loadings
  BY NoLoadingType DEF Init
<1>3. pc \in [Threads -> ClientPCs \cup MonitorPCs \cup BootPCs]
      /\ (\A c \in Clients : pc[c] \in ClientPCs)
      /\ pc["monitor"] \in MonitorPCs /\ pc["boot"] \in BootPCs
  BY ThreadsAssumption DEF Init, Threads, ClientPCs, MonitorPCs, BootPCs
<1>4. snap \in [Threads -> Seq(Ids)] /\ queue \in Seq(Ids)
  BY DEF Init
<1> QED  BY <1>1, <1>2, <1>3, <1>4 DEF Init, TypeOK, WorkerPCs

\* A client at work has an object; which one is its own is given by its place.
LEMMA OwnFacts ==
  ASSUME TypeOK, OwnIsQueue, NEW c \in Clients, pc[c] \in PrivatePCs \cup SharedPCs
  PROVE  /\ own[c] \in Ids /\ obj[own[c]] \in Queues
         /\ obj[own[c]].task \in Tasks /\ obj[own[c]].row \in Rows
         /\ obj[own[c]] # NoQueue
BY NoQueueIsNoQueue DEF OwnIsQueue, Queues

\* A pool thread at work has one too.
LEMMA RunFacts ==
  ASSUME TypeOK, HeldAreReady, BusyWorkersHold, NEW w \in Workers, wpc[w] # "idle"
  PROVE  /\ run[w] \in Ids /\ obj[run[w]] \in Queues /\ obj[run[w]].rank = 0
         /\ obj[run[w]].task \in Tasks /\ obj[run[w]].row \in Rows
         /\ Held(run[w])
BY DEF HeldAreReady, BusyWorkersHold, Held, Queues

\* Where the threads are, once one of them has moved.
PlacesOK == /\ pc \in [Threads -> ClientPCs \cup MonitorPCs \cup BootPCs]
            /\ \A c \in Clients : pc[c] \in ClientPCs
            /\ pc["monitor"] \in MonitorPCs /\ pc["boot"] \in BootPCs

LEMMA GotoPlaces ==
  ASSUME TypeOK, NEW p \in Threads, NEW l, Goto(p, l),
         p \in Clients => l \in ClientPCs,
         p = "monitor" => l \in MonitorPCs,
         p = "boot" => l \in BootPCs
  PROVE  /\ PlacesOK'
         /\ pc'[p] = l
         /\ \A q \in Threads \ {p} : pc'[q] = pc[q]
BY ThreadsAssumption DEF TypeOK, Goto, PlacesOK, Threads

LEMMA ClientIsThread == Clients \subseteq Threads /\ "monitor" \in Threads /\ "boot" \in Threads
BY DEF Threads

LEMMA ModifyType ==
  ASSUME TypeOK, Refs, NEW p \in Threads, Refresh(p)
  PROVE  TypeOK'
<1> USE DEF ClientPCs, MonitorPCs, BootPCs
<1> USE ThreadsAssumption
<1>1. CASE ModifyCheck(p)
  <2>1. PlacesOK'
    BY <1>1, GotoPlaces DEF ModifyCheck, Skipped, Done
  <2> QED  BY <1>1, <2>1, ModifiedType DEF Refs, PlacesOK, ModifyCheck, TypeOK, wrk
<1>4. CASE ModifyFirst(p)
  <2>1. PlacesOK'
    BY <1>4, GotoPlaces DEF ModifyFirst
  <2> QED  BY <1>4, <2>1, ModifiedType DEF Refs, PlacesOK, ModifyFirst, TypeOK, wrk
<1>2. CASE ModifyAll(p)
  <2>1. PlacesOK'
    BY <1>2, GotoPlaces DEF ModifyAll, Failed
  <2>2. own' \in [Clients -> Ids \cup {0}] /\ snap' \in [Threads -> Seq(Ids)]
    BY <1>2 DEF ModifyAll, TypeOK
  <2> QED  BY <1>2, <2>1, <2>2, ModifiedType DEF Refs, PlacesOK, ModifyAll, TypeOK, wrk
<1>3. CASE BatchWrite(p)
  <2>1. PlacesOK'
    BY <1>3, GotoPlaces DEF BatchWrite, Done
  <2>2. snap' \in [Threads -> Seq(Ids)]
    BY <1>3 DEF BatchWrite, TypeOK
  <2>3. db' \in [Tasks -> Rows \cup {NoRow}]
    BY <1>3, ReplacedType DEF Refs, BatchWrite
  <2> QED  BY <1>3, <2>1, <2>2, <2>3 DEF BatchWrite, PlacesOK, TypeOK, wrk, mem
<1> QED  BY <1>1, <1>2, <1>3, <1>4 DEF Refresh

LEMMA FreshType ==
  ASSUME TypeOK, NEW e \in Ids, NEW q \in Queues
  PROVE  [obj EXCEPT ![e] = q] \in [Ids -> Queues \cup {NoQueue}]
BY DEF TypeOK

LEMMA StartedType ==
  ASSUME NEW row \in Rows
  PROVE  Started(row) \in Rows
BY DEF Started, Rows, Statuses

LEMMA FindType ==
  ASSUME TypeOK, NEW c \in Clients, NEW t \in Tasks, Find(c, t)
  PROVE  TypeOK'
<1> USE DEF ClientPCs
<1> USE ThreadsAssumption, ClientIsThread
<1>1. CASE Goto(c, "idle") /\ UNCHANGED <<obj, own>>
  <2>1. PlacesOK'
    BY <1>1, GotoPlaces
  <2> QED  BY <1>1, <2>1 DEF Find, PlacesOK, TypeOK, wrk
<1>2. ASSUME NEW e \in Ids, db[t] # NoRow,
             obj' = [obj EXCEPT ![e] = Entry(t, Started(db[t]), 0, "Running", TASK_COMMON)],
             own' = [own EXCEPT ![c] = e], Goto(c, "write")
      PROVE  TypeOK'
  <2>1. PlacesOK'
    BY <1>2, GotoPlaces
  <2>2. Entry(t, Started(db[t]), 0, "Running", TASK_COMMON) \in Queues
    BY <1>2, RowsExist, StartedType, EntryIsQueue DEF Statuses
  <2>3. obj' \in [Ids -> Queues \cup {NoQueue}] /\ own' \in [Clients -> Ids \cup {0}]
    BY <1>2, <2>2, FreshType DEF TypeOK
  <2> QED  BY <2>1, <2>3 DEF Find, PlacesOK, TypeOK, wrk
<1> QED  BY <1>1, <1>2 DEF Find

LEMMA ClientType ==
  ASSUME TypeOK, Refs, CallsHaveTasks, NEW c \in Clients, ClientStep(c)
  PROVE  TypeOK'
<1> USE DEF ClientPCs
<1> USE ThreadsAssumption, ClientIsThread
<1>1. CASE PrivateWrite(c)
  <2>1. PlacesOK'
    BY <1>1, GotoPlaces DEF PrivateWrite
  <2>2. own[c] \in Ids /\ obj[own[c]] \in Queues
    BY <1>1, OwnFacts DEF Refs, PrivateWrite, PrivatePCs
  <2> QED  BY <1>1, <2>1, <2>2, StoredType DEF PrivateWrite, PlacesOK, TypeOK, mem, wrk
<1>2. CASE PrivateIsFull(c)
  <2>1. PlacesOK'
    BY <1>2, GotoPlaces DEF PrivateIsFull
  <2> QED  BY <1>2, <2>1 DEF PrivateIsFull, PlacesOK, TypeOK, mem, wrk
<1>3. CASE PrivateRank(c)
  <2>1. obj' \in [Ids -> Queues \cup {NoQueue}]
    <3>1. getPrivateRank \in Int
      BY BoundsAssumption DEF getPrivateRank, TypeOK
    <3>2. obj[own[c]] \in Queues /\ own[c] \in Ids
      BY <1>3, OwnFacts DEF Refs, PrivateRank, PrivatePCs
    <3>3. [obj[own[c]] EXCEPT !.rank = getPrivateRank, !.status = "Queue"] \in Queues
      BY <3>1, <3>2 DEF Queues, Statuses
    <3> HIDE DEF Queues
    <3> QED  BY <1>3, <3>2, <3>3 DEF PrivateRank, TypeOK
  <2> QED  BY <1>3, <2>1, GotoPlaces DEF PrivateRank, PlacesOK, TypeOK, wrk
<1>4. CASE PrivateAdd(c)
  <2>1. own[c] \in Ids /\ obj[own[c]].task \in Tasks
    BY <1>4, OwnFacts DEF Refs, PrivateAdd, PrivatePCs
  <2>2. PlacesOK'
    BY <1>4, GotoPlaces DEF PrivateAdd
  <2>3. queue' \in Seq(Ids)
    BY <1>4, <2>1 DEF PrivateAdd, TypeOK
  <2>4. added' \in [Tasks -> Nat]
    BY <1>4, <2>1 DEF PrivateAdd, TypeOK
  <2> QED  BY <1>4, <2>2, <2>3, <2>4 DEF PrivateAdd, PlacesOK, TypeOK, wrk
<1>5. CASE Refresh(c)
  BY <1>5, ModifyType
<1>8. CASE PrivateSubmit(c)
  <2>1. own[c] \in Ids
    BY <1>8, OwnFacts DEF Refs, PrivateSubmit, SharedPCs
  <2>2. pool' \in [Ids -> Nat] /\ handed' \subseteq Ids
    <3>1. CASE Ready(own[c])
      <4>1. SubmitAll({own[c]})  BY <1>8, <3>1 DEF PrivateSubmit, Submit
      <4> QED  BY <4>1, <2>1, SubmitAllType
    <3>2. CASE ~Ready(own[c])
      BY <1>8, <3>2 DEF PrivateSubmit, TypeOK
    <3> QED  BY <3>1, <3>2
  <2> QED  BY <1>8, <2>2, GotoPlaces DEF PrivateSubmit, PlacesOK, TypeOK, wrk
<1>9. CASE VipWrite(c)
  <2>1. PlacesOK'
    BY <1>9, GotoPlaces DEF VipWrite
  <2>2. own[c] \in Ids /\ obj[own[c]] \in Queues
    BY <1>9, OwnFacts DEF Refs, VipWrite, PrivatePCs
  <2> QED  BY <1>9, <2>1, <2>2, StoredType DEF VipWrite, PlacesOK, TypeOK, mem, wrk
<1>10. CASE VipRemove(c)
  <2>1. PlacesOK'
    BY <1>10, GotoPlaces DEF VipRemove
  <2> QED  BY <1>10, <2>1, WithoutShrinks DEF VipRemove, PlacesOK, TypeOK, wrk
<1>11. CASE VipSubmit(c)
  <2>1. own[c] \in Ids
    BY <1>11, OwnFacts DEF Refs, VipSubmit, PrivatePCs
  <2>2. pool' \in [Ids -> Nat] /\ handed' \subseteq Ids
    <3>1. SubmitAll({own[c]})  BY <1>11 DEF VipSubmit, Submit
    <3> QED  BY <3>1, <2>1, SubmitAllType
  <2> QED  BY <1>11, <2>2, GotoPlaces DEF VipSubmit, PlacesOK, TypeOK, wrk
<1>12. CASE KillWrite(c)
  <2>1. PlacesOK'
    BY <1>12, GotoPlaces DEF KillWrite
  <2>2. own[c] \in Ids /\ obj[own[c]] \in Queues
    BY <1>12, OwnFacts DEF Refs, KillWrite, PrivatePCs
  <2> QED  BY <1>12, <2>1, <2>2, StoredType DEF KillWrite, PlacesOK, TypeOK, mem, wrk
<1>13. CASE KillRemove(c)
  <2>1. PlacesOK'
    BY <1>13, GotoPlaces DEF KillRemove
  <2> QED  BY <1>13, <2>1, WithoutShrinks DEF KillRemove, PlacesOK, TypeOK, wrk
<1>14. CASE ExportFind(c)
  <2>1. arg[c] \in Tasks
    BY <1>14 DEF ExportFind, CallsHaveTasks, CalledPCs
  <2> QED  BY <1>14, <2>1, FindType DEF ExportFind
<1>15. CASE SwitchTask(c)
  <2>1. PlacesOK'
    BY <1>15, GotoPlaces DEF SwitchTask
  <2>2. \A row \in Rows \cup {NoRow} : /\ Switched(row, "Start") \in Rows \cup {NoRow}
                                       /\ Switched(row, "Stop") \in Rows \cup {NoRow}
    BY StatusOfRow DEF Switched, Statuses
  <2>3. db' \in [Tasks -> Rows \cup {NoRow}] /\ arg' \in [Clients -> Tasks \cup {NoTask}]
    BY <1>15, <2>2 DEF SwitchTask, TypeOK
  <2> QED  BY <1>15, <2>1, <2>3 DEF SwitchTask, PlacesOK, TypeOK, mem, wrk
<1> QED  BY <1>1, <1>2, <1>3, <1>4, <1>5, <1>8, <1>9, <1>10, <1>11, <1>12, <1>13, <1>14, <1>15
         DEF ClientStep

LEMMA RequestType ==
  ASSUME TypeOK, Refs, NEW c \in Clients, Request(c)
  PROVE  TypeOK'
<1> USE DEF ClientPCs
<1> USE ThreadsAssumption, ClientIsThread
<1> PICK t \in Tasks :
      \/ PrivateFind(c, t) \/ ExportInsert(c, t) \/ VipFind(c, t) \/ KillFind(c, t)
      \/ DeleteTask(c, t) \/ EditContent(c, t)
      \/ \E type \in ScheduleTypes : ConvertAuto(c, t, type)
  BY DEF Request
<1>1. CASE PrivateFind(c, t)
  BY <1>1, FindType DEF PrivateFind
<1>2. CASE ExportInsert(c, t)
  <2>1. PlacesOK'
    BY <1>2, GotoPlaces DEF ExportInsert
  <2>2. db' \in [Tasks -> Rows \cup {NoRow}]
    BY <1>2, BoundsAssumption DEF ExportInsert, TypeOK, Rows, Statuses
  <2> QED  BY <1>2, <2>1, <2>2 DEF ExportInsert, PlacesOK, TypeOK, wrk, mem
<1>3. CASE VipFind(c, t)
  <2>1. PlacesOK'
    BY <1>3, GotoPlaces DEF VipFind
  <2>2. Entry(t, Started(db[t]), 0, "Running", TASK_VIP) \in Queues
    BY <1>3, RowsExist, StartedType, EntryIsQueue DEF VipFind, Statuses
  <2>3. obj' \in [Ids -> Queues \cup {NoQueue}] /\ own' \in [Clients -> Ids \cup {0}]
    BY <1>3, <2>2, FreshType DEF VipFind, TypeOK
  <2> QED  BY <1>3, <2>1, <2>3 DEF VipFind, PlacesOK, TypeOK, wrk
<1>4. CASE KillFind(c, t)
  <2>1. PlacesOK'
    BY <1>4, GotoPlaces DEF KillFind
  <2>2. Entry(t, [db[t] EXCEPT !.status = "Stop"], 0, "Stop", TASK_COMMON) \in Queues
    <3>1. [db[t] EXCEPT !.status = "Stop"] \in Rows
      BY <1>4, RowsExist, StatusOfRow DEF KillFind, Statuses
    <3> QED  BY <3>1, EntryIsQueue DEF Statuses
  <2>3. obj' \in [Ids -> Queues \cup {NoQueue}] /\ own' \in [Clients -> Ids \cup {0}]
    BY <1>4, <2>2, FreshType DEF KillFind, TypeOK
  <2> QED  BY <1>4, <2>1, <2>3 DEF KillFind, PlacesOK, TypeOK, wrk
<1>5. CASE DeleteTask(c, t)
  BY <1>5 DEF DeleteTask, RowUpdate, TypeOK, mem, thr, wrk
<1>6. CASE EditContent(c, t)
  <2>1. db' \in [Tasks -> Rows \cup {NoRow}]
    <3>1. [db[t] EXCEPT !.rev = @ + 1] \in Rows
      BY <1>6, RowsExist, BoundsAssumption DEF EditContent, Rows
    <3> QED  BY <1>6, <3>1 DEF EditContent, TypeOK
  <2> QED  BY <1>6, <2>1 DEF EditContent, RowUpdate, TypeOK, mem, thr, wrk
<1>7. ASSUME NEW type \in ScheduleTypes, ConvertAuto(c, t, type)
      PROVE  TypeOK'
  <2>1. db' \in [Tasks -> Rows \cup {NoRow}]
    <3>1. \A a \in BOOLEAN : [db[t] EXCEPT !.auto = a] \in Rows
      BY <1>7, RowsExist DEF ConvertAuto, Rows
    <3> DEFINE a == type \in {"start", "modify", "stop"}
    <3>2. db' = [db EXCEPT ![t].auto = a] /\ a \in BOOLEAN
      BY <1>7 DEF ConvertAuto
    <3> HIDE DEF a
    <3> QED  BY <3>1, <3>2 DEF TypeOK
  <2>2. PlacesOK'
    BY <1>7, GotoPlaces DEF ConvertAuto
  <2>3. arg' \in [Clients -> Tasks \cup {NoTask}]
    BY <1>7 DEF ConvertAuto, TypeOK
  <2> QED  BY <1>7, <2>1, <2>2, <2>3 DEF ConvertAuto, PlacesOK, TypeOK, mem, wrk
<1> QED  BY <1>1, <1>2, <1>3, <1>4, <1>5, <1>6, <1>7

LEMMA WorkerType ==
  ASSUME TypeOK, Refs, NEW w \in Workers, Worker(w)
  PROVE  TypeOK'
<1> USE DEF WorkerPCs
<1>1. ASSUME NEW e \in Ids, Take(w, e)
      PROVE  TypeOK'
  BY <1>1 DEF Take, TypeOK, thr
<1>2. ASSUME NEW o \in Outcomes, Execute(w, o)
      PROVE  TypeOK'
  <2>1. run[w] \in Ids /\ obj[run[w]] \in Queues /\ obj[run[w]].task \in Tasks
        /\ obj[run[w]].row \in Rows
    BY <1>2, RunFacts DEF Refs, Execute
  <2>2. Ended(obj[run[w]].row, o) \in Rows
    BY <2>1, StatusOfRow DEF Ended, Statuses
  <2>3. [obj[run[w]] EXCEPT !.row = Ended(@, o)] \in Queues
    BY <2>1, <2>2 DEF Queues
  <2>4. obj' \in [Ids -> Queues \cup {NoQueue}]
    BY <1>2, <2>1, <2>3 DEF Execute, TypeOK
  <2> QED  BY <1>2, <2>1, <2>4 DEF Execute, TypeOK, thr
<1>3. CASE ExecuteThrows(w)
  <2>1. run[w] \in Ids
    BY <1>3, RunFacts DEF Refs, ExecuteThrows
  <2> QED  BY <1>3, <2>1 DEF ExecuteThrows, TypeOK, thr
<1>4. CASE Commit(w)
  <2>1. db' \in [Tasks -> Rows \cup {NoRow}]
    BY <1>4, RunFacts, StoredType DEF Refs, Commit
  <2> QED  BY <1>4, <2>1 DEF Commit, TypeOK, thr, mem
<1>5. CASE Leave(w)
  <2>1. queue' \in Seq(Ids)
    BY <1>5, WithoutShrinks DEF Leave, TypeOK
  <2> QED  BY <1>5, <2>1 DEF Leave, TypeOK, thr
<1>6. CASE Report(w)
  <2>1. mails' \in [Tasks -> Nat]
    BY <1>6, RunFacts DEF Refs, Report, TypeOK
  <2> QED  BY <1>6, <2>1 DEF Report, TypeOK, thr, mem
<1> QED  BY <1>1, <1>2, <1>3, <1>4, <1>5, <1>6 DEF Worker

MovedTo(q, n, s) == [q EXCEPT !.rank = n, !.status = s]

LEMMA Moved ==
  ASSUME NEW q, q \in Queues, NEW n \in Int, NEW s \in Statuses
  PROVE  /\ MovedTo(q, n, s) \in Queues
         /\ MovedTo(q, n, s).rank = n /\ MovedTo(q, n, s).status = s
         /\ MovedTo(q, n, s).task = q.task /\ MovedTo(q, n, s).row = q.row
<1> SUFFICES ASSUME NEW r, r = [q EXCEPT !.rank = n, !.status = s]
             PROVE  /\ r \in Queues /\ r.rank = n /\ r.status = s
                    /\ r.task = q.task /\ r.row = q.row
  BY Zenon DEF MovedTo
<1> QED  BY DEF Queues

LEMMA AdvancedType ==
  ASSUME NEW q, q \in Queues
  PROVE  /\ Advanced(q) \in Queues
         /\ Advanced(q).task = q.task /\ Advanced(q).row = q.row
         /\ Advanced(q).status # "Finished" \/ Advanced(q).status = q.status
         /\ Advanced(q).rank = IF q.rank > 0 THEN q.rank - 1 ELSE q.rank
<1>0. q.rank \in Int
  BY DEF Queues
<1>1. CASE q.rank = 1
  <2>1. Advanced(q) = MovedTo(q, 0, "Running")
    BY <1>0, <1>1 DEF Advanced, MovedTo
  <2>2. 0 \in Int /\ "Running" \in Statuses
    BY <1>0 DEF Statuses
  <2> HIDE DEF Advanced
  <2> QED  BY <1>1, <2>1, <2>2, Moved
<1>2. CASE q.rank > 1
  <2>1. Advanced(q) = MovedTo(q, q.rank - 1, "Queue")
    BY <1>0, <1>2 DEF Advanced, MovedTo
  <2>2. q.rank - 1 \in Int /\ "Queue" \in Statuses
    BY <1>0 DEF Statuses
  <2> HIDE DEF Advanced
  <2> QED  BY <1>0, <1>2, <2>1, <2>2, Moved
<1>3. CASE q.rank <= 0
  <2>1. Advanced(q) = q
    BY <1>0, <1>3 DEF Advanced
  <2> QED  BY <1>0, <1>3, <2>1
<1> QED  BY <1>0, <1>1, <1>2, <1>3

\* What the steps of the boot make of its list.
LEMMA BootLoadMoves ==
  ASSUME TypeOK, BootLoad
  PROVE  /\ loading' \in Loadings /\ loading'.rows = db /\ loading'.next = NoTask
         /\ loading'.left = {t \in Tasks : Loadable(db[t])}
BY DEF BootLoad, LoadingOf, Loadings, TypeOK

LEMMA IsFullMoves ==
  ASSUME TypeOK, NEW t \in Tasks, BootIsFull(t)
  PROVE  /\ loading' \in Loadings /\ loading'.rows = loading.rows
         /\ loading'.left = loading.left /\ loading'.next = t
<1>1. isFull \in BOOLEAN
  BY DEF isFull
<1>2. PICK b \in BOOLEAN : b = isFull
  BY <1>1
<1>3. loading' = [loading EXCEPT !.next = t, !.full = b]
  BY <1>2, Zenon DEF BootIsFull
<1>4. loading \in Loadings
  BY DEF TypeOK
<1> QED  BY <1>3, <1>4 DEF Loadings

LEMMA EnqueueMoves ==
  ASSUME TypeOK, NEW t \in Tasks, BootEnqueue(t)
  PROVE  /\ loading' \in Loadings /\ loading'.rows = loading.rows
         /\ loading'.left = loading.left \ {t}
<1>1. loading \in Loadings
  BY DEF TypeOK
<1>2. /\ loading.left \ {t} \in SUBSET Tasks /\ loading.done + 1 \in Nat
      /\ NoTask \in Tasks \cup {NoTask}
  BY <1>1 DEF Loadings
<1>3. PICK x \in SUBSET Tasks : x = loading.left \ {t}
  BY <1>2
<1>4. PICK n \in Nat : n = loading.done + 1
  BY <1>2
<1>5. loading' = [loading EXCEPT !.left = x, !.done = n, !.next = NoTask]
  BY <1>3, <1>4, Zenon DEF BootEnqueue
<1>6. /\ loading' \in Loadings /\ loading'.rows = loading.rows /\ loading'.left = x
  BY <1>1, <1>5 DEF Loadings
<1> QED  BY <1>3, <1>6

LEMMA MonitorType ==
  ASSUME TypeOK, Refs, MonitorStep
  PROVE  TypeOK'
<1> USE DEF MonitorPCs
<1> USE ThreadsAssumption, ClientIsThread
<1>1. CASE MonitorCheck
  <2>1. PlacesOK'
    BY <1>1, GotoPlaces DEF MonitorCheck
  <2> QED  BY <1>1, <2>1 DEF MonitorCheck, PlacesOK, TypeOK, mem, wrk
<1>2. CASE MonitorUpdate
  <2>1. PlacesOK'
    BY <1>2, GotoPlaces DEF MonitorUpdate
  <2>2. obj' \in [Ids -> Queues \cup {NoQueue}]
    BY <1>2, AdvancedType DEF MonitorUpdate, Refs, ListedAreQueues, TypeOK
  <2>3. Promoted \in SUBSET Ids
    BY DEF Promoted, Listed, Range, TypeOK
  <2>4. pool' \in [Ids -> Nat] /\ handed' \subseteq Ids
    BY <1>2, <2>3, SubmitAllType DEF MonitorUpdate
  <2> QED  BY <1>2, <2>1, <2>2, <2>4 DEF MonitorUpdate, PlacesOK, TypeOK, wrk
<1> QED  BY <1>1, <1>2, ModifyType DEF MonitorStep

LEMMA BootType ==
  ASSUME TypeOK, Refs, BootStep
  PROVE  TypeOK'
<1> USE DEF BootPCs, MonitorPCs
<1> USE ThreadsAssumption, ClientIsThread
<1>1. CASE BootLoad
  <2>1. PlacesOK'
    BY <1>1, GotoPlaces DEF BootLoad
  <2>2. loading' \in Loadings
    BY <1>1, BootLoadMoves
  <2> QED  BY <1>1, <2>1, <2>2 DEF BootLoad, PlacesOK, TypeOK, mem, wrk
<1>2. ASSUME NEW t \in Tasks, BootEnqueue(t)
      PROVE  TypeOK'
  <2>1. PICK e \in Ids :
          /\ obj' = [obj EXCEPT ![e] =
                    IF loading.full
                    THEN Entry(t, loading.rows[t], getRank(loading.done), "Queue", TASK_COMMON)
                    ELSE Entry(t, loading.rows[t], 0, "Running", TASK_COMMON)]
          /\ queue' = Append(queue, e)
    BY <1>2 DEF BootEnqueue
  <2>2. loading.rows[t] \in Rows /\ getRank(loading.done) \in Int
    BY <1>2, BoundsAssumption DEF BootEnqueue, Refs, LoadingAreRows, getRank, TypeOK, Loadings
  <2>3. /\ Entry(t, loading.rows[t], getRank(loading.done), "Queue", TASK_COMMON) \in Queues
        /\ Entry(t, loading.rows[t], 0, "Running", TASK_COMMON) \in Queues
    BY <2>2, EntryIsQueue DEF Statuses
  <2>4. obj' \in [Ids -> Queues \cup {NoQueue}] /\ queue' \in Seq(Ids)
    BY <2>1, <2>3, FreshType DEF TypeOK
  <2>5. added' \in [Tasks -> Nat]
    BY <1>2 DEF BootEnqueue, TypeOK
  <2>6. loading' \in Loadings
    BY <1>2, EnqueueMoves
  <2> QED  BY <1>2, <2>4, <2>5, <2>6 DEF BootEnqueue, TypeOK, wrk
<1>3. CASE BootEnqueued
  <2>1. PlacesOK'
    BY <1>3, GotoPlaces DEF BootEnqueued
  <2>2. loading' \in Loadings
    BY <1>3, NoLoadingType DEF BootEnqueued
  <2> QED  BY <1>3, <2>1, <2>2 DEF BootEnqueued, PlacesOK, TypeOK, mem, wrk
<1>4. CASE BootSubmit
  <2>1. PlacesOK'
    BY <1>4 DEF BootSubmit, TypeOK, PlacesOK
  <2>2. {e \in Listed : Ready(e)} \in SUBSET Ids
    BY DEF Listed, Range, TypeOK
  <2>3. pool' \in [Ids -> Nat] /\ handed' \subseteq Ids
    BY <1>4, <2>2, SubmitAllType DEF BootSubmit
  <2> QED  BY <1>4, <2>1, <2>3 DEF BootSubmit, PlacesOK, TypeOK, wrk
<1>5. CASE BootAddJobs
  <2>1. PlacesOK'
    BY <1>5, GotoPlaces DEF BootAddJobs
  <2>2. loading' \in Loadings
    BY <1>5, NoLoadingType DEF BootAddJobs, TypeOK
  <2> QED  BY <1>5, <2>1, <2>2 DEF BootAddJobs, PlacesOK, TypeOK, mem, wrk
<1>6. ASSUME NEW t \in Tasks, BootIsFull(t)
      PROVE  TypeOK'
  <2>1. loading' \in Loadings
    BY <1>6, IsFullMoves
  <2> QED  BY <1>6, <2>1 DEF BootIsFull, TypeOK, mem, wrk
<1> QED  BY <1>1, <1>2, <1>3, <1>4, <1>5, <1>6, ModifyType DEF BootStep

LEMMA CrashType ==
  ASSUME TypeOK, Crash
  PROVE  TypeOK'
<1>1. PlacesOK'
  BY ThreadsAssumption DEF Crash, PlacesOK, TypeOK, Threads, ClientPCs, MonitorPCs, BootPCs
<1>2. loading' \in Loadings
  BY NoLoadingType DEF Crash
<1>3. queue' \in Seq(Ids) /\ snap' \in [Threads -> Seq(Ids)]
  BY DEF Crash
<1> QED  BY <1>1, <1>2, <1>3 DEF Crash, PlacesOK, TypeOK, WorkerPCs

LEMMA StepType ==
  ASSUME TypeOK, Refs, CallsHaveTasks, [Next]_vars
  PROVE  TypeOK'
<1>1. CASE UNCHANGED vars
  BY <1>1 DEF TypeOK, vars, mem, thr, wrk
<1> QED  BY <1>1, ClientType, RequestType, WorkerType, MonitorType, BootType, CrashType DEF Next
-----------------------------------------------------------------------------
\* Calls: a client that goes to one of their places takes its task there.

LEMMA CallsKept ==
  ASSUME CallsHaveTasks,
         \A c \in Clients : \/ pc'[c] \notin CalledPCs
                            \/ pc'[c] = pc[c] /\ arg'[c] = arg[c]
                            \/ arg'[c] \in Tasks
  PROVE  CallsHaveTasks'
BY DEF CallsHaveTasks

LEMMA OneCalls ==
  ASSUME TypeOK, CallsHaveTasks, NEW c \in Clients, NEW l, Goto(c, l),
         \A d \in Clients \ {c} : arg'[d] = arg[d],
         l \notin CalledPCs \/ arg'[c] \in Tasks
  PROVE  CallsHaveTasks'
<1>1. pc'[c] = l /\ \A d \in Clients \ {c} : pc'[d] = pc[d]
  BY ClientIsThread DEF Goto, TypeOK
<1> QED  BY <1>1 DEF CallsHaveTasks

LEMMA RefreshCalls ==
  ASSUME TypeOK, CallsHaveTasks, NEW p \in Threads, Refresh(p)
  PROVE  CallsHaveTasks'
<1> USE ThreadsAssumption, ClientIsThread
<1>1. UNCHANGED arg /\ \A c \in Clients \ {p} : pc'[c] = pc[c]
  BY DEF Refresh, ModifyFirst, ModifyCheck, ModifyAll, BatchWrite, Goto, TypeOK
<1>2. p \in Clients => pc'[p] \in {"check", "submit", "modify", "idle", "batch"}
  BY DEF Refresh, ModifyFirst, ModifyCheck, ModifyAll, BatchWrite, Goto, TypeOK, Skipped, Done, Failed
<1> QED  BY <1>1, <1>2, CallsKept DEF CalledPCs

LEMMA ClientCalls ==
  ASSUME TypeOK, CallsHaveTasks, NEW c \in Clients, ClientStep(c) \/ Request(c)
  PROVE  CallsHaveTasks'
<1> USE ThreadsAssumption, ClientIsThread
<1>1. CASE Refresh(c)
  BY <1>1, RefreshCalls
<1>2. CASE \/ PrivateWrite(c) \/ PrivateIsFull(c) \/ PrivateRank(c) \/ PrivateAdd(c)
           \/ PrivateSubmit(c) \/ VipWrite(c) \/ VipRemove(c) \/ VipSubmit(c)
           \/ KillWrite(c) \/ KillRemove(c)
  <2>1. UNCHANGED arg /\ \E l : Goto(c, l) /\ l \notin CalledPCs
    BY <1>2 DEF PrivateWrite, PrivateIsFull, PrivateRank, PrivateAdd, PrivateSubmit, VipWrite,
                VipRemove, VipSubmit, KillWrite, KillRemove, CalledPCs
  <2> QED  BY <2>1, OneCalls
<1>3. ASSUME NEW t, Find(c, t)
      PROVE  CallsHaveTasks'
  <2>1. \A d \in Clients \ {c} : arg'[d] = arg[d]
    BY <1>3 DEF Find, TypeOK
  <2>2. Goto(c, "idle") \/ Goto(c, "write")
    BY <1>3 DEF Find
  <2>3. "idle" \notin CalledPCs /\ "write" \notin CalledPCs
    BY DEF CalledPCs
  <2> QED  BY <2>1, <2>2, <2>3, OneCalls
<1>4. CASE SwitchTask(c)
  <2>1. (\A d \in Clients \ {c} : arg'[d] = arg[d]) /\ Goto(c, "idle") /\ "idle" \notin CalledPCs
    BY <1>4 DEF SwitchTask, TypeOK, CalledPCs
  <2> QED  BY <2>1, OneCalls
<1>5. ASSUME NEW t \in Tasks, VipFind(c, t) \/ KillFind(c, t)
      PROVE  CallsHaveTasks'
  <2>1. UNCHANGED arg /\ \E l : Goto(c, l) /\ l \notin CalledPCs
    BY <1>5 DEF VipFind, KillFind, CalledPCs
  <2> QED  BY <2>1, OneCalls
<1>6. ASSUME NEW t \in Tasks, NEW type \in ScheduleTypes, ExportInsert(c, t) \/ ConvertAuto(c, t, type)
      PROVE  CallsHaveTasks'
  <2>1. /\ \A d \in Clients \ {c} : arg'[d] = arg[d]
        /\ \E l : Goto(c, l) /\ (l \notin CalledPCs \/ arg'[c] \in Tasks)
    BY <1>6 DEF ExportInsert, ConvertAuto, TypeOK, CalledPCs
  <2> QED  BY <2>1, OneCalls
<1>7. ASSUME NEW t \in Tasks, DeleteTask(c, t) \/ EditContent(c, t)
      PROVE  CallsHaveTasks'
  BY <1>7, CallsKept DEF DeleteTask, EditContent, RowUpdate, thr
<1>8. CASE ClientStep(c)
  BY <1>1, <1>2, <1>3, <1>4, <1>8 DEF ClientStep, ExportFind
<1>9. CASE Request(c)
  BY <1>3, <1>5, <1>6, <1>7, <1>9 DEF Request, PrivateFind, ScheduleTypes
<1> QED  BY <1>8, <1>9

LEMMA InitCalls == Init => CallsHaveTasks
BY ClientIsThread DEF Init, CallsHaveTasks, CalledPCs

LEMMA StepCalls ==
  ASSUME TypeOK, CallsHaveTasks, [Next]_vars
  PROVE  CallsHaveTasks'
<1> USE ThreadsAssumption, ClientIsThread
<1>1. CASE UNCHANGED vars
  BY <1>1, CallsKept DEF vars, thr
<1>2. ASSUME NEW w \in Workers, Worker(w)
      PROVE  CallsHaveTasks'
  BY <1>2, CallsKept DEF Worker, Take, Execute, ExecuteThrows, Commit, Leave, Report, thr
<1>3. CASE MonitorCheck \/ MonitorUpdate
  <2>1. UNCHANGED arg /\ \A c \in Clients : pc'[c] = pc[c]
    BY <1>3 DEF MonitorCheck, MonitorUpdate, Goto, TypeOK
  <2> QED  BY <2>1, CallsKept
<1>4. CASE BootLoad \/ BootAddJobs \/ BootEnqueued \/ BootSubmit
             \/ \E t \in Tasks : BootIsFull(t) \/ BootEnqueue(t)
  <2>1. UNCHANGED arg /\ \A c \in Clients : pc'[c] = pc[c]
    BY <1>4 DEF BootLoad, BootAddJobs, BootEnqueued, BootSubmit, BootIsFull, BootEnqueue, Goto, TypeOK
  <2> QED  BY <2>1, CallsKept
<1>5. CASE Crash
  <2>1. \A c \in Clients : pc'[c] \notin CalledPCs
    BY <1>5 DEF Crash, CalledPCs
  <2> QED  BY <2>1 DEF CallsHaveTasks
<1>6. ASSUME NEW p \in Threads, Refresh(p)
      PROVE  CallsHaveTasks'
  BY <1>6, RefreshCalls
<1> QED  BY <1>1, <1>2, <1>3, <1>4, <1>5, <1>6, ClientCalls DEF Next, MonitorStep, BootStep
-----------------------------------------------------------------------------
\* References.  Most steps keep them in the same way: objects stay objects, the
\* list and the pool only get what no client has to itself, a client keeps its
\* object or lets go of it.

Exposable(e) == /\ obj'[e] \in Queues
                /\ \A c \in Clients : pc'[c] \in PrivatePCs => own'[c] # e
VipPCs == {"vipWrite", "vipRemove", "vipSubmit"}

ObjectsKept ==
  \A e \in Ids : obj[e] \in Queues => /\ obj'[e] \in Queues
                                      /\ obj[e].rank = 0 => obj'[e].rank = 0
ListKept == \A e \in Range(queue') : e \in Listed \/ Exposable(e)
SnapsKept == \A p \in Threads : \A e \in Range(snap'[p]) : e \in Range(snap[p]) \cup Listed
HeldKept == \A e \in Ids : Held(e)' => Held(e) \/ (Exposable(e) /\ obj'[e].rank = 0)
ClientKept(c) ==
  \/ own'[c] = 0 /\ pc'[c] \notin PrivatePCs \cup SharedPCs
  \/ /\ own'[c] = own[c]
     /\ \/ pc[c] \in PrivatePCs /\ pc'[c] \in PrivatePCs
        \/ pc[c] \in PrivatePCs \cup SharedPCs /\ pc'[c] \in SharedPCs
     /\ pc'[c] \in VipPCs => pc[c] \in VipPCs

Kept == /\ ObjectsKept /\ ListKept /\ SnapsKept /\ HeldKept
        /\ \A c \in Clients : ClientKept(c)
        /\ BusyWorkersHold' /\ LoadingAreRows'

LEMMA RangeType ==
  ASSUME TypeOK
  PROVE  Listed \in SUBSET Ids /\ \A p \in Threads : Range(snap[p]) \in SUBSET Ids
BY DEF TypeOK, Listed, Range

LEMMA RangeOfAppend ==
  ASSUME NEW S, NEW s \in Seq(S), NEW e \in S
  PROVE  Range(Append(s, e)) = Range(s) \cup {e}
<1>1. /\ Len(Append(s, e)) = Len(s) + 1 /\ DOMAIN Append(s, e) = 1 .. Len(s) + 1
      /\ Append(s, e)[Len(s) + 1] = e
      /\ \A i \in 1 .. Len(s) : Append(s, e)[i] = s[i]
  OBVIOUS
<1>2. DOMAIN s = 1 .. Len(s) /\ Len(s) \in Nat
  OBVIOUS
<1> QED  BY <1>1, <1>2, SMTT(30) DEF Range

LEMMA RefsKept ==
  ASSUME TypeOK, TypeOK', Refs, Kept
  PROVE  Refs'
<1>1. ListedAreQueues'
  BY RangeType DEF Refs, ListedAreQueues, Listed, Kept, ObjectsKept, ListKept, Exposable
<1>2. SnapsAreQueues'
  BY RangeType DEF Refs, ListedAreQueues, SnapsAreQueues, Kept, ObjectsKept, SnapsKept
<1>3. ASSUME NEW c \in Clients
      PROVE  IF pc'[c] \in PrivatePCs \cup SharedPCs
             THEN own'[c] \in Ids /\ obj'[own'[c]] \in Queues
             ELSE own'[c] = 0
  <2>1. CASE own'[c] = 0 /\ pc'[c] \notin PrivatePCs \cup SharedPCs
    BY <2>1
  <2>2. CASE own'[c] = own[c] /\ pc[c] \in PrivatePCs \cup SharedPCs
             /\ pc'[c] \in PrivatePCs \cup SharedPCs
    BY <2>2, OwnFacts DEF Refs, Kept, ObjectsKept
  <2> QED  BY <2>1, <2>2 DEF Kept, ClientKept
<1>4. OwnIsQueue'
  BY <1>3 DEF OwnIsQueue
<1>5. ASSUME NEW c \in Clients, NEW d \in Clients, own'[c] = own'[d], own'[c] # 0
      PROVE  c = d
  BY <1>5 DEF Refs, OwnIsPrivate, Kept, ClientKept
<1>6. ASSUME NEW c \in Clients, pc'[c] \in PrivatePCs
      PROVE  /\ own'[c] \notin Range(queue')
             /\ ~Held(own[c])'
             /\ \A p \in Threads : own'[c] \notin Range(snap'[p])
  <2>1. own'[c] = own[c] /\ pc[c] \in PrivatePCs
    BY <1>6 DEF Kept, ClientKept, PrivatePCs, SharedPCs
  <2>2. own[c] \notin Listed /\ ~Held(own[c]) /\ \A p \in Threads : own[c] \notin Range(snap[p])
    BY <2>1 DEF Refs, OwnIsPrivate
  <2>3. ~Exposable(own[c]) /\ own[c] \in Ids
    BY <1>6, <2>1, OwnFacts DEF Exposable, Refs
  <2> QED  BY <2>1, <2>2, <2>3 DEF Kept, ListKept, SnapsKept, HeldKept
<1>7. OwnIsPrivate'
  BY <1>5, <1>6 DEF OwnIsPrivate, Listed
<1>8. HeldAreReady'
  BY DEF Kept, HeldKept, ObjectsKept, Exposable, Refs, HeldAreReady
<1>9. VipAreReady'
  <2> SUFFICES ASSUME NEW c \in Clients, pc'[c] \in VipPCs
               PROVE  obj'[own'[c]].rank = 0
    BY DEF VipAreReady, VipPCs
  <2>1. own'[c] = own[c] /\ pc[c] \in VipPCs
    BY DEF Kept, ClientKept, VipPCs, PrivatePCs
  <2> QED  BY <2>1, OwnFacts DEF Refs, VipAreReady, VipPCs, PrivatePCs, Kept, ObjectsKept
<1> QED  BY <1>1, <1>2, <1>4, <1>7, <1>8, <1>9 DEF Refs, Kept

LEMMA StillClients ==
  ASSUME TypeOK, Refs, NEW P \in SUBSET Clients,
         \A d \in P : pc'[d] = pc[d] /\ own'[d] = own[d]
  PROVE  \A d \in P : ClientKept(d)
BY DEF Refs, OwnIsQueue, ClientKept

LEMMA OneClientMoves ==
  ASSUME TypeOK, Refs, NEW c \in Clients, NEW l, Goto(c, l), ClientKept(c),
         \A d \in Clients \ {c} : own'[d] = own[d]
  PROVE  \A d \in Clients : ClientKept(d)
<1>1. \A d \in Clients \ {c} : pc'[d] = pc[d]
  BY DEF Goto, TypeOK, Threads
<1>2. \A d \in Clients \ {c} : ClientKept(d)
  <2> DEFINE P == Clients \ {c}
  <2> HIDE DEF P
  <2>1. P \in SUBSET Clients /\ \A d \in P : pc'[d] = pc[d] /\ own'[d] = own[d]
    BY <1>1 DEF P
  <2>2. \A d \in P : ClientKept(d)
    BY <2>1, StillClients
  <2> QED  BY <2>2 DEF P
<1> QED  BY <1>2

\* Steps that leave the pool threads alone, or the pool as well.
LEMMA WorkersStill ==
  ASSUME Refs, UNCHANGED <<wpc, run>>
  PROVE  BusyWorkersHold'
BY DEF Refs, BusyWorkersHold

LEMMA PoolStill ==
  ASSUME Refs, UNCHANGED <<pool, run>>
  PROVE  HeldKept
BY DEF HeldKept, Held

LEMMA LoadingStill ==
  ASSUME Refs, UNCHANGED loading
  PROVE  LoadingAreRows'
BY DEF Refs, LoadingAreRows

LEMMA ObjStill ==
  ASSUME UNCHANGED obj
  PROVE  ObjectsKept
BY DEF ObjectsKept

LEMMA ListStill ==
  ASSUME UNCHANGED queue
  PROVE  ListKept
BY DEF ListKept, Listed

LEMMA SnapsStill ==
  ASSUME UNCHANGED snap
  PROVE  SnapsKept
BY DEF SnapsKept

LEMMA ModifyRefs ==
  ASSUME TypeOK, TypeOK', Refs, NEW p \in Threads, Refresh(p)
  PROVE  Refs'
<1> USE ThreadsAssumption, ClientIsThread
<1>1. \A c \in Clients : ClientKept(c)
  <2> SUFFICES ASSUME NEW c \in Clients PROVE ClientKept(c)
    OBVIOUS
  <2>1. CASE c # p
    <3>1. pc'[c] = pc[c] /\ own'[c] = own[c]
      BY <2>1 DEF Refresh, ModifyFirst, ModifyCheck, ModifyAll, BatchWrite, Goto, TypeOK
    <3> QED  BY <3>1, StillClients
  <2>5. CASE c = p /\ ModifyFirst(c)
    <3>1. own'[c] = own[c] /\ pc[c] = "first" /\ pc'[c] = "check"
      BY <2>5 DEF ModifyFirst, Goto, TypeOK
    <3> QED  BY <3>1 DEF ClientKept, SharedPCs, VipPCs
  <2>2. CASE c = p /\ ModifyCheck(c)
    <3>1. own'[c] = own[c] /\ pc[c] = "check" /\ pc'[c] \in {"submit", "modify"}
      BY <2>2 DEF ModifyCheck, Goto, TypeOK, Skipped, Done
    <3> QED  BY <3>1 DEF ClientKept, SharedPCs, VipPCs
  <2>3. CASE c = p /\ ModifyAll(c)
    <3>1. CASE queue = <<>>
      <4>1. own'[c] = 0 /\ pc'[c] = "idle"
        BY <2>3, <3>1 DEF ModifyAll, Goto, TypeOK, Failed
      <4> QED  BY <4>1 DEF ClientKept, SharedPCs, PrivatePCs
    <3>2. CASE queue # <<>>
      <4>1. own'[c] = own[c] /\ pc[c] = "modify" /\ pc'[c] = "batch"
        BY <2>3, <3>2 DEF ModifyAll, Goto, TypeOK
      <4> QED  BY <4>1 DEF ClientKept, SharedPCs, VipPCs
    <3> QED  BY <3>1, <3>2
  <2>4. CASE c = p /\ BatchWrite(c)
    <3>1. own'[c] = own[c] /\ pc[c] = "batch" /\ pc'[c] = "submit"
      BY <2>4 DEF BatchWrite, Goto, TypeOK, Done
    <3> QED  BY <3>1 DEF ClientKept, SharedPCs, VipPCs
  <2> QED  BY <2>1, <2>2, <2>3, <2>4, <2>5 DEF Refresh
<1>2. ObjectsKept
  <2>1. CASE obj' = Modified
    BY <2>1, ModifiedType DEF Refs, ObjectsKept
  <2>2. CASE obj' = obj
    BY <2>2, ObjStill
  <2> QED  BY <2>1, <2>2 DEF Refresh, ModifyFirst, ModifyCheck, ModifyAll, BatchWrite, mem
<1>3. SnapsKept
  <2>1. CASE ModifyAll(p)
    BY <2>1 DEF ModifyAll, SnapsKept, TypeOK, Listed
  <2>2. CASE BatchWrite(p)
    <3>1. Range(<<>>) = {}
      BY DEF Range
    <3> QED  BY <2>2, <3>1 DEF BatchWrite, SnapsKept, TypeOK
  <2>3. CASE ModifyFirst(p) \/ ModifyCheck(p)
    BY <2>3, SnapsStill DEF ModifyFirst, ModifyCheck
  <2> QED  BY <2>1, <2>2, <2>3 DEF Refresh
<1>4. UNCHANGED <<queue, pool, run, wpc, loading>>
  BY DEF Refresh, ModifyFirst, ModifyCheck, ModifyAll, BatchWrite, mem, wrk
<1>5. Kept
  BY <1>1, <1>2, <1>3, <1>4, ListStill, PoolStill, WorkersStill, LoadingStill DEF Kept
<1> QED  BY <1>5, RefsKept

\* A client that writes a row or looks at the list changes no reference.
LEMMA QuietClientRefs ==
  ASSUME TypeOK, TypeOK', Refs, NEW c \in Clients,
         PrivateWrite(c) \/ PrivateIsFull(c) \/ VipWrite(c) \/ KillWrite(c) \/ VipRemove(c)
  PROVE  Refs'
<1> USE ThreadsAssumption, ClientIsThread
<1>1. UNCHANGED <<obj, pool, run, wpc, snap, loading, own>>
  BY DEF PrivateWrite, PrivateIsFull, VipWrite, KillWrite, VipRemove, mem, wrk
<1>2. \E l : Goto(c, l)
  BY DEF PrivateWrite, PrivateIsFull, VipWrite, KillWrite, VipRemove
<1>3. ClientKept(c)
  <2>1. /\ pc[c] \in PrivatePCs /\ pc'[c] \in PrivatePCs
        /\ pc'[c] \in VipPCs => pc[c] \in VipPCs
    BY DEF PrivateWrite, PrivateIsFull, VipWrite, KillWrite, VipRemove, Goto, TypeOK, PrivatePCs, VipPCs
  <2> QED  BY <1>1, <2>1 DEF ClientKept
<1>4. \A d \in Clients : ClientKept(d)
  BY <1>1, <1>2, <1>3, OneClientMoves
<1>5. ListKept
  <2>1. CASE VipRemove(c)
    BY <2>1, WithoutShrinks DEF VipRemove, ListKept, TypeOK
  <2>2. CASE UNCHANGED queue
    BY <2>2, ListStill
  <2> QED  BY <2>1, <2>2 DEF PrivateWrite, PrivateIsFull, VipWrite, KillWrite, mem
<1>6. Kept
  BY <1>1, <1>4, <1>5, ObjStill, SnapsStill, PoolStill, WorkersStill, LoadingStill DEF Kept
<1> QED  BY <1>6, RefsKept

\* No other client refers to the object of a client.
LEMMA OthersOwn ==
  ASSUME TypeOK, Refs, NEW c \in Clients, pc[c] \in PrivatePCs \cup SharedPCs,
         NEW d \in Clients, d # c
  PROVE  own[d] # own[c]
<1>1. own[c] # 0
  BY OwnFacts DEF Refs, Ids
<1> QED  BY <1>1 DEF Refs, OwnIsPrivate

LEMMA AddRefs ==
  ASSUME TypeOK, TypeOK', Refs, NEW c \in Clients, PrivateAdd(c)
  PROVE  Refs'
<1> USE ThreadsAssumption, ClientIsThread
<1>1. UNCHANGED <<obj, pool, run, wpc, snap, loading, own>> /\ Goto(c, "first")
  BY DEF PrivateAdd, wrk
<1>2. pc[c] = "add" /\ pc'[c] = "first"
  BY DEF PrivateAdd, Goto, TypeOK
<1>3. ClientKept(c)
  BY <1>1, <1>2 DEF ClientKept, PrivatePCs, SharedPCs, VipPCs
<1>4. \A d \in Clients : ClientKept(d)
  BY <1>1, <1>3, OneClientMoves
<1>5. ListKept
  <2>1. own[c] \in Ids /\ obj[own[c]] \in Queues
    BY <1>2, OwnFacts DEF Refs, PrivatePCs
  <2>2. Exposable(own[c])
    <3>1. pc'[c] \notin PrivatePCs
      BY <1>2 DEF PrivatePCs
    <3>2. \A d \in Clients \ {c} : own'[d] # own[c]
      BY <1>1, <1>2, OthersOwn DEF PrivatePCs
    <3> QED  BY <1>1, <2>1, <3>1, <3>2 DEF Exposable
  <2>3. Range(queue') = Listed \cup {own[c]}
    BY <2>1, RangeOfAppend DEF PrivateAdd, TypeOK, Listed
  <2> QED  BY <2>2, <2>3 DEF ListKept
<1>6. Kept
  BY <1>1, <1>4, <1>5, ObjStill, SnapsStill, PoolStill, WorkersStill, LoadingStill DEF Kept
<1> QED  BY <1>6, RefsKept

\* What the pool holds after a submission.
LEMMA HeldAfterSubmit ==
  ASSUME TypeOK, NEW S \in SUBSET Ids, SubmitAll(S), UNCHANGED run, NEW e \in Ids, Held(e)'
  PROVE  Held(e) \/ e \in S
BY DEF Held, SubmitAll, TypeOK

LEMMA SubmitRefs ==
  ASSUME TypeOK, TypeOK', Refs, NEW c \in Clients, PrivateSubmit(c) \/ VipSubmit(c)
  PROVE  Refs'
<1> USE ThreadsAssumption, ClientIsThread
<1>1. UNCHANGED <<obj, queue, run, wpc, snap, loading>> /\ Goto(c, "idle")
  BY DEF PrivateSubmit, VipSubmit, wrk
<1>2. /\ pc'[c] = "idle" /\ own' = [own EXCEPT ![c] = 0]
      /\ own[c] \in Ids /\ obj[own[c]] \in Queues
      /\ pc[c] \in PrivatePCs \cup SharedPCs
  <2>1. pc[c] \in PrivatePCs \cup SharedPCs
    BY DEF PrivateSubmit, VipSubmit, PrivatePCs, SharedPCs
  <2> QED  BY <2>1, OwnFacts DEF PrivateSubmit, VipSubmit, Goto, TypeOK, Refs
<1>3. ClientKept(c)
  BY <1>2 DEF ClientKept, PrivatePCs, SharedPCs, TypeOK
<1>4. \A d \in Clients : ClientKept(d)
  BY <1>1, <1>2, <1>3, OneClientMoves DEF TypeOK
<1>5. HeldKept
  <2>1. Exposable(own[c])
    <3>1. pc'[c] \notin PrivatePCs
      BY <1>2 DEF PrivatePCs
    <3>2. \A d \in Clients \ {c} : own'[d] # own[c]
      BY <1>2, OthersOwn DEF TypeOK
    <3> QED  BY <1>1, <1>2, <3>1, <3>2 DEF Exposable
  <2>2. CASE UNCHANGED pool
    BY <1>1, <2>2, PoolStill
  <2>3. CASE Submit(own[c]) /\ obj[own[c]].rank = 0
    <3>1. \A e \in Ids : Held(e)' => Held(e) \/ e = own[c]
      <4>1. SubmitAll({own[c]})
        BY <2>3 DEF Submit
      <4> QED  BY <4>1, <1>1, <1>2, HeldAfterSubmit
    <3> QED  BY <1>1, <2>1, <2>3, <3>1 DEF HeldKept
  <2> QED  BY <2>2, <2>3 DEF PrivateSubmit, VipSubmit, Ready, Refs, VipAreReady
<1>6. Kept
  BY <1>1, <1>4, <1>5, ObjStill, ListStill, SnapsStill, WorkersStill, LoadingStill DEF Kept
<1> QED  BY <1>6, RefsKept

\* A rank is given to an object that nobody else knows and the pool has not.
LEMMA RankRefs ==
  ASSUME TypeOK, TypeOK', Refs, NEW c \in Clients, PrivateRank(c)
  PROVE  Refs'
<1> USE ThreadsAssumption, ClientIsThread
<1>1. UNCHANGED <<queue, pool, run, wpc, snap, loading, own>> /\ Goto(c, "add")
  BY DEF PrivateRank, wrk
<1>2. pc[c] = "rank" /\ pc'[c] = "add" /\ own[c] \in Ids /\ obj[own[c]] \in Queues
  BY OwnFacts DEF PrivateRank, Goto, TypeOK, Refs, PrivatePCs
<1>3. \A d \in Clients \ {c} : pc'[d] = pc[d] /\ own[d] # own[c]
  BY <1>1, <1>2, OthersOwn DEF Goto, TypeOK, PrivatePCs
<1>4. \A e \in Ids : /\ obj[e] \in Queues => obj'[e] \in Queues
                     /\ e # own[c] => obj'[e] = obj[e]
  <2>1. getPrivateRank \in Int /\ "Queue" \in Statuses
    BY BoundsAssumption DEF getPrivateRank, TypeOK, Statuses
  <2>2. \A e \in Ids \ {own[c]} : obj'[e] = obj[e]
    BY DEF PrivateRank, TypeOK
  <2>3. obj'[own[c]] = MovedTo(obj[own[c]], getPrivateRank, "Queue")
    BY <1>2 DEF PrivateRank, TypeOK, MovedTo
  <2>4. obj'[own[c]] \in Queues
    <3>1. MovedTo(obj[own[c]], getPrivateRank, "Queue") \in Queues
      BY <1>2, <2>1, Moved, Zenon
    <3> QED  BY <2>3, <3>1, Zenon
  <2> QED  BY <2>2, <2>4
<1>5. own[c] \notin Listed /\ ~Held(own[c])
  BY <1>2 DEF Refs, OwnIsPrivate, PrivatePCs
<1>6. ListedAreQueues' /\ SnapsAreQueues'
  BY <1>1, <1>4, RangeType DEF Refs, ListedAreQueues, SnapsAreQueues, Listed
<1>7. OwnIsQueue'
  BY <1>1, <1>2, <1>3, <1>4 DEF Refs, OwnIsQueue, PrivatePCs
<1>8. OwnIsPrivate'
  BY <1>1, <1>2, <1>3 DEF Refs, OwnIsPrivate, PrivatePCs, Listed, Held
<1>9. HeldAreReady'
  BY <1>1, <1>4, <1>5 DEF Refs, HeldAreReady, Held
<1>10. VipAreReady'
  <2> SUFFICES ASSUME NEW d \in Clients, pc'[d] \in VipPCs
               PROVE  obj'[own'[d]].rank = 0
    BY DEF VipAreReady, VipPCs
  <2>1. d # c
    BY <1>2 DEF VipPCs
  <2>2. own[d] \in Ids /\ pc[d] \in VipPCs
    BY <1>3, <2>1, OwnFacts DEF Refs, VipPCs, PrivatePCs
  <2> QED  BY <1>1, <1>3, <1>4, <2>1, <2>2 DEF Refs, VipAreReady, VipPCs
<1> QED  BY <1>1, <1>6, <1>7, <1>8, <1>9, <1>10, WorkersStill, LoadingStill DEF Refs

\* The object of a kill is forgotten while nobody else knows it.
LEMMA KillRefs ==
  ASSUME TypeOK, TypeOK', Refs, NEW c \in Clients, KillRemove(c)
  PROVE  Refs'
<1> USE ThreadsAssumption, ClientIsThread
<1>1. UNCHANGED <<pool, run, wpc, snap, loading>> /\ Goto(c, "idle")
  BY DEF KillRemove, wrk
<1>2. pc[c] = "killRemove" /\ pc'[c] = "idle" /\ own[c] \in Ids /\ own' = [own EXCEPT ![c] = 0]
  BY OwnFacts DEF KillRemove, Goto, TypeOK, Refs, PrivatePCs
<1>3. \A d \in Clients \ {c} : pc'[d] = pc[d] /\ own'[d] = own[d] /\ own[d] # own[c]
  BY <1>1, <1>2, OthersOwn DEF Goto, TypeOK, PrivatePCs
<1>4. \A e \in Ids \ {own[c]} : obj'[e] = obj[e]
  BY DEF KillRemove, TypeOK
<1>5. /\ own[c] \notin Listed /\ ~Held(own[c])
      /\ \A p \in Threads : own[c] \notin Range(snap[p])
  BY <1>2 DEF Refs, OwnIsPrivate, PrivatePCs
<1>6. Range(queue') \subseteq Listed
  BY WithoutShrinks DEF KillRemove, TypeOK
<1>7. ListedAreQueues' /\ SnapsAreQueues'
  BY <1>1, <1>4, <1>5, <1>6, RangeType DEF Refs, ListedAreQueues, SnapsAreQueues, Listed
<1>8. own'[c] = 0
  BY <1>2 DEF TypeOK
<1>9. OwnIsQueue'
  BY <1>2, <1>3, <1>4, <1>8 DEF Refs, OwnIsQueue, PrivatePCs, SharedPCs
<1>10. OwnIsPrivate'
  BY <1>1, <1>2, <1>3, <1>6, <1>8 DEF Refs, OwnIsPrivate, PrivatePCs, Listed, Held
<1>11. HeldAreReady'
  BY <1>1, <1>4, <1>5 DEF Refs, HeldAreReady, Held
<1>12. VipAreReady'
  <2> SUFFICES ASSUME NEW d \in Clients, pc'[d] \in VipPCs
               PROVE  obj'[own'[d]].rank = 0
    BY DEF VipAreReady, VipPCs
  <2>1. d # c
    BY <1>2 DEF VipPCs
  <2>2. own[d] \in Ids /\ pc[d] \in VipPCs
    BY <1>3, <2>1, OwnFacts DEF Refs, VipPCs, PrivatePCs
  <2> QED  BY <1>3, <1>4, <2>1, <2>2 DEF Refs, VipAreReady, VipPCs
<1> QED  BY <1>1, <1>7, <1>9, <1>10, <1>11, <1>12, WorkersStill, LoadingStill DEF Refs

\* A client gets an object that has just been made.
LEMMA FreshRefs ==
  ASSUME TypeOK, TypeOK', Refs, NEW c \in Clients, NEW e \in Ids, NEW l \in PrivatePCs, NEW q \in Queues,
         pc[c] \notin PrivatePCs \cup SharedPCs,
         obj[e] = NoQueue, q.rank = 0,
         obj' = [obj EXCEPT ![e] = q], own' = [own EXCEPT ![c] = e], Goto(c, l),
         UNCHANGED <<queue, pool, run, wpc, snap, loading>>
  PROVE  Refs'
<1> USE ThreadsAssumption, ClientIsThread
<1>1. obj[e] \notin Queues
  BY NoQueueIsNoQueue
<1>2. /\ pc'[c] = l /\ own'[c] = e /\ obj'[e] = q
      /\ \A d \in Clients \ {c} : pc'[d] = pc[d] /\ own'[d] = own[d]
      /\ \A f \in Ids \ {e} : obj'[f] = obj[f]
  BY DEF Goto, TypeOK
<1>3. /\ e \notin Listed /\ ~Held(e)
      /\ \A p \in Threads : e \notin Range(snap[p])
      /\ \A d \in Clients : own[d] # e
  <2>1. \A d \in Clients : own[d] # e
    BY <1>1 DEF Refs, OwnIsQueue, Ids
  <2> QED  BY <1>1, <2>1 DEF Refs, ListedAreQueues, SnapsAreQueues, HeldAreReady
<1>4. ListedAreQueues' /\ SnapsAreQueues'
  BY <1>2, <1>3, RangeType DEF Refs, ListedAreQueues, SnapsAreQueues, Listed
<1>5. OwnIsQueue'
  <2> SUFFICES ASSUME NEW d \in Clients
               PROVE  IF pc'[d] \in PrivatePCs \cup SharedPCs
                      THEN own'[d] \in Ids /\ obj'[own'[d]] \in Queues
                      ELSE own'[d] = 0
    BY DEF OwnIsQueue
  <2>1. CASE d = c
    BY <1>2, <2>1
  <2>2. CASE d # c
    BY <1>2, <1>3, <2>2 DEF Refs, OwnIsQueue
  <2> QED  BY <2>1, <2>2
<1>6. OwnIsPrivate'
  BY <1>2, <1>3 DEF Refs, OwnIsPrivate, Listed, Held
<1>7. HeldAreReady'
  BY <1>2, <1>3 DEF Refs, HeldAreReady, Held
<1>8. VipAreReady'
  <2> SUFFICES ASSUME NEW d \in Clients, pc'[d] \in VipPCs
               PROVE  obj'[own'[d]].rank = 0
    BY DEF VipAreReady, VipPCs
  <2>1. CASE d = c
    BY <1>2, <2>1
  <2>2. CASE d # c
    <3>1. own[d] \in Ids /\ pc[d] \in VipPCs
      BY <1>2, <2>2, OwnFacts DEF Refs, VipPCs, PrivatePCs
    <3> QED  BY <1>2, <1>3, <2>2, <3>1 DEF Refs, VipAreReady, VipPCs
  <2> QED  BY <2>1, <2>2
<1> QED  BY <1>4, <1>5, <1>6, <1>7, <1>8, WorkersStill, LoadingStill DEF Refs

\* The objects that requests make.
LEMMA MadeByRequest ==
  ASSUME TypeOK, NEW t \in Tasks, db[t] # NoRow, NEW v \in {TASK_COMMON, TASK_VIP}
  PROVE  /\ Entry(t, Started(db[t]), 0, "Running", v) \in Queues
         /\ Entry(t, Started(db[t]), 0, "Running", v).rank = 0
         /\ Entry(t, [db[t] EXCEPT !.status = "Stop"], 0, "Stop", v) \in Queues
         /\ Entry(t, [db[t] EXCEPT !.status = "Stop"], 0, "Stop", v).rank = 0
<1>1. "Running" \in Statuses /\ "Stop" \in Statuses
  BY DEF Statuses
<1>2. Started(db[t]) \in Rows /\ [db[t] EXCEPT !.status = "Stop"] \in Rows
  BY <1>1, RowsExist, StartedType, StatusOfRow
<1>3. \A row, s : Entry(t, row, 0, s, v).rank = 0
  BY DEF Entry
<1>4. \A row \in Rows, s \in Statuses : Entry(t, row, 0, s, v) \in Queues
  BY EntryIsQueue
<1> DEFINE a == Started(db[t])
           b == [db[t] EXCEPT !.status = "Stop"]
<1>5. a \in Rows /\ b \in Rows
  BY <1>2
<1> HIDE DEF a, b
<1>6. /\ Entry(t, a, 0, "Running", v) \in Queues /\ Entry(t, a, 0, "Running", v).rank = 0
      /\ Entry(t, b, 0, "Stop", v) \in Queues /\ Entry(t, b, 0, "Stop", v).rank = 0
  BY <1>1, <1>3, <1>4, <1>5
<1> QED  BY <1>6 DEF a, b

\* A client that has no object goes where it has none.
LEMMA AwayRefs ==
  ASSUME TypeOK, TypeOK', Refs, NEW c \in Clients, NEW l,
         pc[c] \notin PrivatePCs \cup SharedPCs, l \notin PrivatePCs \cup SharedPCs, Goto(c, l),
         UNCHANGED <<obj, queue, pool, run, wpc, snap, loading, own>>
  PROVE  Refs'
<1> USE ClientIsThread
<1>1. ClientKept(c)
  <2>1. own[c] = 0
    BY DEF Refs, OwnIsQueue
  <2>2. pc'[c] = l
    BY DEF Goto, TypeOK
  <2> QED  BY <2>1, <2>2 DEF ClientKept
<1>2. \A d \in Clients : ClientKept(d)
  BY <1>1, OneClientMoves
<1>3. Kept
  BY <1>2, ObjStill, ListStill, SnapsStill, PoolStill, WorkersStill, LoadingStill DEF Kept
<1> QED  BY <1>3, RefsKept

LEMMA FindRefs ==
  ASSUME TypeOK, TypeOK', Refs, NEW c \in Clients, pc[c] \in {"idle", "created"},
         NEW t \in Tasks, Find(c, t)
  PROVE  Refs'
<1>1. UNCHANGED <<queue, pool, run, wpc, snap, loading>>
      /\ pc[c] \notin PrivatePCs \cup SharedPCs /\ "write" \in PrivatePCs
      /\ "idle" \notin PrivatePCs \cup SharedPCs
  BY DEF Find, wrk, PrivatePCs, SharedPCs
<1>2. CASE Goto(c, "idle") /\ UNCHANGED <<obj, own>>
  BY <1>1, <1>2, AwayRefs
<1>3. ASSUME NEW e \in Ids, CallFresh(e), db[t] # NoRow,
             obj' = [obj EXCEPT ![e] = Entry(t, Started(db[t]), 0, "Running", TASK_COMMON)],
             own' = [own EXCEPT ![c] = e], Goto(c, "write")
      PROVE  Refs'
  <2>1. obj[e] = NoQueue
    BY <1>3 DEF CallFresh, Fresh
  <2> QED  BY <1>1, <1>3, <2>1, FreshRefs, MadeByRequest
<1> QED  BY <1>2, <1>3 DEF Find

LEMMA ClientRefs ==
  ASSUME TypeOK, TypeOK', Refs, CallsHaveTasks, NEW c \in Clients, ClientStep(c)
  PROVE  Refs'
<1>1. CASE ExportFind(c)
  <2>1. arg[c] \in Tasks /\ pc[c] = "created"
    BY <1>1 DEF ExportFind, CallsHaveTasks, CalledPCs
  <2> QED  BY <1>1, <2>1, FindRefs DEF ExportFind
<1>2. CASE SwitchTask(c)
  BY <1>2, AwayRefs DEF SwitchTask, PrivatePCs, SharedPCs, mem, wrk
<1> QED  BY <1>1, <1>2, ModifyRefs, QuietClientRefs, AddRefs, SubmitRefs, RankRefs, KillRefs, ClientIsThread
         DEF ClientStep

LEMMA RequestRefs ==
  ASSUME TypeOK, TypeOK', Refs, NEW c \in Clients, Request(c)
  PROVE  Refs'
<1> USE ThreadsAssumption, ClientIsThread
<1> PICK t \in Tasks :
      \/ PrivateFind(c, t) \/ ExportInsert(c, t) \/ VipFind(c, t) \/ KillFind(c, t)
      \/ DeleteTask(c, t) \/ EditContent(c, t)
      \/ \E type \in ScheduleTypes : ConvertAuto(c, t, type)
  BY DEF Request
<1>2. CASE PrivateFind(c, t)
  BY <1>2, FindRefs DEF PrivateFind
<1>3. CASE VipFind(c, t)
  <2>1. PICK e \in Ids :
          /\ CallFresh(e)
          /\ obj' = [obj EXCEPT ![e] = Entry(t, Started(db[t]), 0, "Running", TASK_VIP)]
          /\ own' = [own EXCEPT ![c] = e]
    BY <1>3 DEF VipFind
  <2>2. UNCHANGED <<queue, pool, run, wpc, snap, loading>> /\ Goto(c, "vipWrite")
        /\ pc[c] \notin PrivatePCs \cup SharedPCs /\ "vipWrite" \in PrivatePCs
    BY <1>3 DEF VipFind, wrk, PrivatePCs, SharedPCs
  <2>3. db[t] # NoRow /\ obj[e] = NoQueue
    BY <1>3, <2>1 DEF VipFind, CallFresh, Fresh
  <2> QED  BY <2>1, <2>2, <2>3, FreshRefs, MadeByRequest
<1>4. CASE KillFind(c, t)
  <2>1. PICK e \in Ids :
          /\ CallFresh(e)
          /\ obj' = [obj EXCEPT ![e] = Entry(t, [db[t] EXCEPT !.status = "Stop"],
                                             0, "Stop", TASK_COMMON)]
          /\ own' = [own EXCEPT ![c] = e]
    BY <1>4 DEF KillFind
  <2>2. UNCHANGED <<queue, pool, run, wpc, snap, loading>> /\ Goto(c, "killWrite")
        /\ pc[c] \notin PrivatePCs \cup SharedPCs /\ "killWrite" \in PrivatePCs
    BY <1>4 DEF KillFind, wrk, PrivatePCs, SharedPCs
  <2>3. db[t] # NoRow /\ obj[e] = NoQueue
    BY <1>4, <2>1 DEF KillFind, CallFresh, Fresh
  <2> QED  BY <2>1, <2>2, <2>3, FreshRefs, MadeByRequest
<1>5. ASSUME NEW type \in ScheduleTypes, ExportInsert(c, t) \/ ConvertAuto(c, t, type)
      PROVE  Refs'
  <2>1. /\ UNCHANGED <<obj, queue, pool, run, wpc, snap, loading, own>> /\ pc[c] = "idle"
        /\ \E l \in CalledPCs \cup {"idle"} : Goto(c, l)
    BY <1>5 DEF ExportInsert, ConvertAuto, mem, wrk, CalledPCs
  <2>2. (CalledPCs \cup {"idle"}) \cap (PrivatePCs \cup SharedPCs) = {}
    BY DEF CalledPCs, PrivatePCs, SharedPCs
  <2> QED  BY <2>1, <2>2, AwayRefs
<1>6. ASSUME UNCHANGED <<mem, thr, wrk>>
      PROVE  Refs'
  <2>1. UNCHANGED <<obj, queue, pool, run, wpc, snap, loading, own, pc>>
    BY <1>6 DEF mem, thr, wrk
  <2>2. \A d \in Clients : ClientKept(d)
    BY <2>1, StillClients
  <2>3. Kept
    BY <2>1, <2>2, ObjStill, ListStill, SnapsStill, PoolStill, WorkersStill, LoadingStill DEF Kept
  <2> QED  BY <2>3, RefsKept
<1> QED  BY <1>2, <1>3, <1>4, <1>5, <1>6 DEF DeleteTask, EditContent, RowUpdate, ScheduleTypes

LEMMA WorkerRefs ==
  ASSUME TypeOK, TypeOK', Refs, NEW w \in Workers, Worker(w)
  PROVE  Refs'
<1>1. UNCHANGED <<snap, loading, own, pc>>
  BY DEF Worker, Take, Execute, ExecuteThrows, Commit, Leave, Report, thr
<1>2. \A d \in Clients : ClientKept(d)
  BY <1>1, StillClients
<1>3. SnapsKept /\ LoadingAreRows'
  BY <1>1, SnapsStill, LoadingStill
<1> SUFFICES ObjectsKept /\ ListKept /\ HeldKept /\ BusyWorkersHold'
  BY <1>2, <1>3, RefsKept DEF Kept
<1>4. ASSUME NEW e \in Ids, Take(w, e)
      PROVE  ObjectsKept /\ ListKept /\ HeldKept /\ BusyWorkersHold'
  <2>1. HeldKept
    BY <1>4 DEF Take, HeldKept, Held, TypeOK
  <2>2. BusyWorkersHold'
    BY <1>4 DEF Take, Refs, BusyWorkersHold, TypeOK
  <2> QED  BY <1>4, <2>1, <2>2, ObjStill, ListStill DEF Take
<1>5. ASSUME NEW o \in Outcomes, Execute(w, o)
      PROVE  ObjectsKept /\ ListKept /\ HeldKept /\ BusyWorkersHold'
  <2>1. run[w] \in Ids /\ obj[run[w]] \in Queues /\ obj[run[w]].row \in Rows
    BY <1>5, RunFacts DEF Refs, Execute
  <2>2. ObjectsKept
    <3>1. Ended(obj[run[w]].row, o) \in Rows
      BY <2>1, StatusOfRow DEF Ended, Statuses
    <3>2. obj'[run[w]] \in Queues /\ obj'[run[w]].rank = obj[run[w]].rank
      BY <1>5, <2>1, <3>1 DEF Execute, TypeOK, Queues
    <3>3. \A f \in Ids \ {run[w]} : obj'[f] = obj[f]
      BY <1>5 DEF Execute, TypeOK
    <3> QED  BY <3>2, <3>3 DEF ObjectsKept
  <2>3. BusyWorkersHold'
    BY <1>5 DEF Execute, Refs, BusyWorkersHold, TypeOK
  <2> QED  BY <1>5, <2>2, <2>3, ListStill, PoolStill DEF Execute
<1>6. CASE ExecuteThrows(w) \/ Report(w)
  <2>1. HeldKept
    BY <1>6 DEF ExecuteThrows, Report, HeldKept, Held, TypeOK, mem, Ids
  <2>2. BusyWorkersHold'
    BY <1>6 DEF ExecuteThrows, Report, Refs, BusyWorkersHold, TypeOK
  <2> QED  BY <1>6, <2>1, <2>2, ObjStill, ListStill DEF ExecuteThrows, Report, mem
<1>7. CASE Commit(w)
  <2>1. BusyWorkersHold'
    BY <1>7 DEF Commit, Refs, BusyWorkersHold, TypeOK
  <2> QED  BY <1>7, <2>1, ObjStill, ListStill, PoolStill DEF Commit, mem
<1>8. CASE Leave(w)
  <2>1. HeldKept
    BY <1>8 DEF Leave, HeldKept, Held, TypeOK, Ids
  <2>2. BusyWorkersHold'
    BY <1>8 DEF Leave, Refs, BusyWorkersHold, TypeOK
  <2>3. ListKept
    BY <1>8, WithoutShrinks DEF Leave, ListKept, TypeOK
  <2> QED  BY <1>8, <2>1, <2>2, <2>3, ObjStill DEF Leave
<1> QED  BY <1>4, <1>5, <1>6, <1>7, <1>8 DEF Worker

\* What is in the list belongs to nobody alone.
LEMMA ListedExposable ==
  ASSUME TypeOK, Refs, UNCHANGED own, \A c \in Clients : pc'[c] = pc[c],
         NEW e \in Listed, obj'[e] \in Queues
  PROVE  Exposable(e)
BY DEF Exposable, Refs, OwnIsPrivate

LEMMA MonitorRefs ==
  ASSUME TypeOK, TypeOK', Refs, MonitorStep
  PROVE  Refs'
<1> USE ThreadsAssumption, ClientIsThread
<1>1. CASE MonitorCheck
  <2>1. UNCHANGED <<obj, queue, pool, run, wpc, snap, loading, own>>
        /\ \A c \in Clients : pc'[c] = pc[c]
    BY <1>1 DEF MonitorCheck, mem, wrk, Goto, TypeOK
  <2>2. \A d \in Clients : ClientKept(d)
    BY <2>1, StillClients
  <2>3. Kept
    BY <2>1, <2>2, ObjStill, ListStill, SnapsStill, PoolStill, WorkersStill, LoadingStill DEF Kept
  <2> QED  BY <2>3, RefsKept
<1>2. CASE MonitorUpdate
  <2>1. UNCHANGED <<queue, run, wpc, snap, loading, own>>
        /\ \A c \in Clients : pc'[c] = pc[c]
    BY <1>2 DEF MonitorUpdate, wrk, Goto, TypeOK
  <2>2. \A d \in Clients : ClientKept(d)
    BY <2>1, StillClients
  <2>3. ASSUME NEW e \in Ids, obj[e] \in Queues
        PROVE  obj'[e] = (IF e \in Listed THEN Advanced(obj[e]) ELSE obj[e])
               /\ obj'[e] \in Queues
    BY <1>2, <2>3, AdvancedType DEF MonitorUpdate
  <2>4. ObjectsKept
    BY <2>3, AdvancedType DEF ObjectsKept
  <2>5. HeldKept
    <3>1. Promoted \in SUBSET Ids
      BY DEF Promoted, Listed, Range, TypeOK
    <3>2. \A e \in Ids : Held(e)' => Held(e) \/ e \in Promoted
      BY <1>2, <2>1, <3>1, HeldAfterSubmit DEF MonitorUpdate
    <3>3. \A e \in Promoted : e \in Listed /\ obj[e] \in Queues /\ obj[e].rank = 1
      BY DEF Promoted, Refs, ListedAreQueues
    <3>4. \A e \in Promoted : Exposable(e) /\ obj'[e].rank = 0
      BY <2>1, <2>3, <3>1, <3>3, ListedExposable, AdvancedType
    <3> QED  BY <3>2, <3>4 DEF HeldKept
  <2>6. Kept
    BY <2>1, <2>2, <2>4, <2>5, ListStill, SnapsStill, WorkersStill, LoadingStill DEF Kept
  <2> QED  BY <2>6, RefsKept
<1> QED  BY <1>1, <1>2, ModifyRefs DEF MonitorStep

LEMMA BootRefs ==
  ASSUME TypeOK, TypeOK', Refs, BootStep
  PROVE  Refs'
<1> USE ThreadsAssumption, ClientIsThread
<1>1. CASE BootLoad \/ BootAddJobs \/ BootEnqueued \/ \E t \in Tasks : BootIsFull(t)
  <2>1. UNCHANGED <<obj, queue, pool, run, wpc, snap, own>>
        /\ \A c \in Clients : pc'[c] = pc[c]
    BY <1>1 DEF BootLoad, BootAddJobs, BootEnqueued, BootIsFull, mem, wrk, Goto, TypeOK
  <2>2. \A d \in Clients : ClientKept(d)
    BY <2>1, StillClients
  <2>3. LoadingAreRows'
    <3>1. CASE BootLoad
      <4>1. ~Loadable(NoRow)
        BY DEF Loadable, NoRow
      <4> QED  BY <3>1, <4>1, BootLoadMoves, RowsExist DEF LoadingAreRows
    <3>2. CASE loading' = NoLoading
      BY <3>2, NoLoadingType DEF LoadingAreRows
    <3>3. CASE loading' = loading
      BY <3>3 DEF Refs, LoadingAreRows
    <3>4. CASE \E t \in Tasks : BootIsFull(t)
      BY <3>4, IsFullMoves DEF Refs, LoadingAreRows
    <3> QED  BY <1>1, <3>1, <3>2, <3>3, <3>4 DEF BootAddJobs, BootEnqueued
  <2>4. Kept
    BY <2>1, <2>2, <2>3, ObjStill, ListStill, SnapsStill, PoolStill, WorkersStill DEF Kept
  <2> QED  BY <2>4, RefsKept
<1>2. ASSUME NEW t \in Tasks, BootEnqueue(t)
      PROVE  Refs'
  <2>1. PICK e \in Ids :
          /\ Fresh(e)
          /\ obj' = [obj EXCEPT ![e] =
                    IF loading.full
                    THEN Entry(t, loading.rows[t], getRank(loading.done), "Queue", TASK_COMMON)
                    ELSE Entry(t, loading.rows[t], 0, "Running", TASK_COMMON)]
          /\ queue' = Append(queue, e)
    BY <1>2 DEF BootEnqueue
  <2>2. UNCHANGED <<pool, run, wpc, snap, own, pc>>
    BY <1>2 DEF BootEnqueue, wrk
  <2>3. obj[e] \notin Queues
    BY <2>1, NoQueueIsNoQueue DEF Fresh
  <2>4. obj'[e] \in Queues
    <3>1. loading.rows[t] \in Rows /\ getRank(loading.done) \in Int
      <4>1. loading.rows[t] \in Rows
        BY <1>2 DEF BootEnqueue, Refs, LoadingAreRows
      <4>2. getRank(loading.done) \in Int
        BY BoundsAssumption DEF getRank, TypeOK, Loadings
      <4> QED  BY <4>1, <4>2
    <3>2. /\ Entry(t, loading.rows[t], getRank(loading.done), "Queue", TASK_COMMON) \in Queues
          /\ Entry(t, loading.rows[t], 0, "Running", TASK_COMMON) \in Queues
      BY <3>1, EntryIsQueue DEF Statuses
    <3> QED  BY <2>1, <3>2 DEF TypeOK
  <2>5. \A d \in Clients : ClientKept(d)
    BY <2>2, StillClients
  <2>6. ObjectsKept
    BY <2>1, <2>3 DEF ObjectsKept, TypeOK
  <2>7. ListKept
    <3>1. \A d \in Clients : own[d] # e
      BY <2>3 DEF Refs, OwnIsQueue, Ids
    <3>2. Range(queue') = Listed \cup {e}
      BY <2>1, RangeOfAppend DEF TypeOK, Listed
    <3> QED  BY <2>2, <2>4, <3>1, <3>2 DEF ListKept, Exposable
  <2>8. LoadingAreRows'
    <3>1. loading'.rows = loading.rows /\ loading'.left \subseteq loading.left
      BY <1>2, EnqueueMoves
    <3> QED  BY <3>1 DEF Refs, LoadingAreRows
  <2>9. Kept
    BY <2>2, <2>5, <2>6, <2>7, <2>8, SnapsStill, PoolStill, WorkersStill DEF Kept
  <2> QED  BY <2>9, RefsKept
<1>3. CASE BootSubmit
  <2>1. UNCHANGED <<obj, queue, run, wpc, snap, loading, own>>
        /\ \A c \in Clients : pc'[c] = pc[c]
    BY <1>3 DEF BootSubmit, wrk, TypeOK
  <2>2. \A d \in Clients : ClientKept(d)
    BY <2>1, StillClients
  <2>3. HeldKept
    <3> DEFINE S == {e \in Listed : Ready(e)}
    <3>1. S \in SUBSET Ids
      BY RangeType
    <3>2. \A e \in Ids : Held(e)' => Held(e) \/ e \in S
      BY <1>3, <2>1, <3>1, HeldAfterSubmit DEF BootSubmit
    <3>3. \A e \in S : Exposable(e) /\ obj'[e].rank = 0
      BY <2>1, ListedExposable DEF Refs, ListedAreQueues, Ready
    <3> QED  BY <3>2, <3>3 DEF HeldKept
  <2>4. Kept
    BY <2>1, <2>2, <2>3, ObjStill, ListStill, SnapsStill, WorkersStill, LoadingStill DEF Kept
  <2> QED  BY <2>4, RefsKept
<1> QED  BY <1>1, <1>2, <1>3, ModifyRefs DEF BootStep

LEMMA CrashRefs ==
  ASSUME TypeOK, Crash
  PROVE  Refs'
<1>1. Range(<<>>) = {}
  BY DEF Range
<1>2. UNCHANGED db /\ queue' = <<>> /\ snap' = [p \in Threads |-> <<>>]
      /\ pool' = [e \in Ids |-> 0] /\ run' = [w \in Workers |-> 0]
      /\ own' = [c \in Clients |-> 0] /\ wpc' = [w \in Workers |-> "idle"]
      /\ loading' = NoLoading /\ \A c \in Clients : pc'[c] = "idle"
  BY ClientIsThread DEF Crash
<1>3. ListedAreQueues' /\ SnapsAreQueues'
  BY <1>1, <1>2 DEF ListedAreQueues, SnapsAreQueues, Listed
<1>4. OwnIsQueue' /\ OwnIsPrivate' /\ VipAreReady'
  BY <1>2 DEF OwnIsQueue, OwnIsPrivate, VipAreReady, PrivatePCs, SharedPCs
<1>5. HeldAreReady' /\ BusyWorkersHold'
  BY <1>2 DEF HeldAreReady, BusyWorkersHold, Held, Ids
<1>6. LoadingAreRows'
  BY <1>2, NoLoadingType DEF LoadingAreRows
<1> QED  BY <1>3, <1>4, <1>5, <1>6 DEF Refs

LEMMA InitRefs == Init => Refs
<1> SUFFICES ASSUME Init PROVE Refs
  OBVIOUS
<1>1. Range(<<>>) = {}
  BY DEF Range
<1>2. queue = <<>> /\ snap = [p \in Threads |-> <<>>]
      /\ pool = [e \in Ids |-> 0] /\ run = [w \in Workers |-> 0]
      /\ own = [c \in Clients |-> 0] /\ wpc = [w \in Workers |-> "idle"]
      /\ loading = NoLoading /\ \A c \in Clients : pc[c] = "idle"
  BY ClientIsThread DEF Init
<1>3. ListedAreQueues /\ SnapsAreQueues
  BY <1>1, <1>2 DEF ListedAreQueues, SnapsAreQueues, Listed
<1>4. OwnIsQueue /\ OwnIsPrivate /\ VipAreReady
  BY <1>2 DEF OwnIsQueue, OwnIsPrivate, VipAreReady, PrivatePCs, SharedPCs
<1>5. HeldAreReady /\ BusyWorkersHold
  BY <1>2 DEF HeldAreReady, BusyWorkersHold, Held, Ids
<1>6. LoadingAreRows
  BY <1>2, NoLoadingType DEF LoadingAreRows
<1> QED  BY <1>3, <1>4, <1>5, <1>6 DEF Refs

LEMMA StillRefs ==
  ASSUME Refs, UNCHANGED vars
  PROVE  Refs'
BY DEF Refs, ListedAreQueues, SnapsAreQueues, OwnIsQueue, OwnIsPrivate, HeldAreReady, VipAreReady,
       BusyWorkersHold, LoadingAreRows, Listed, Held, vars, mem, thr, wrk

LEMMA StepRefs ==
  ASSUME TypeOK, TypeOK', Refs, CallsHaveTasks, [Next]_vars
  PROVE  Refs'
BY StillRefs, ClientRefs, RequestRefs, WorkerRefs, MonitorRefs, BootRefs, CrashRefs DEF Next
-----------------------------------------------------------------------------
\* Every variable has its type.
THEOREM TypeCorrect == Spec => []TypeOK
<1>1. TypeOK /\ Refs /\ CallsHaveTasks /\ [Next]_vars => TypeOK' /\ Refs' /\ CallsHaveTasks'
  BY StepType, StepRefs, StepCalls
<1> QED  BY <1>1, InitType, InitRefs, InitCalls, PTL DEF Spec

\* Whatever is in the list, in the pool or with a thread is a Queue object; a
\* client shares its object with nobody before it has added or submitted it,
\* and what the pool has been given has rank 0.
THEOREM ReferencesHold == Spec => [](TypeOK /\ Refs /\ CallsHaveTasks)
<1>1. TypeOK /\ Refs /\ CallsHaveTasks /\ [Next]_vars => TypeOK' /\ Refs' /\ CallsHaveTasks'
  BY StepType, StepRefs, StepCalls
<1> QED  BY <1>1, InitType, InitRefs, InitCalls, PTL DEF Spec

\* An entry that has a place in the line is never in the pool nor in the hands
\* of a pool thread, for any number of tasks, requests, threads and slots.
THEOREM QueuedNeverExecutesHolds == Spec => []QueuedNeverExecutes
<1>1. TypeOK /\ Refs => QueuedNeverExecutes
  BY NoQueueIsNoQueue DEF Refs, HeldAreReady, QueuedNeverExecutes
<1> QED  BY <1>1, ReferencesHold, PTL
-----------------------------------------------------------------------------
\* Slots.

LEMMA InitSlots == Init => SlotsAreHandedOver
BY ClientIsThread, ThreadsAssumption DEF Init, SlotsAreHandedOver, Deployed

\* A step that makes no slot, and moves no client that has to hand one over.
LEMMA SlotsKept ==
  ASSUME SlotsAreHandedOver, handed \subseteq handed', Deployed' => Deployed,
         Executing' \subseteq Executing,
         \A c \in Clients :
           \/ pc'[c] = pc[c] /\ own'[c] = own[c]
           \/ pc[c] \notin SharedPCs
           \/ pc'[c] \in SharedPCs /\ own'[c] = own[c]
  PROVE  SlotsAreHandedOver'
BY DEF SlotsAreHandedOver, HandlingOwn, SharedPCs

LEMMA NoSlots ==
  ASSUME queue' = <<>> \/ ~Deployed'
  PROVE  SlotsAreHandedOver'
<1>1. Range(<<>>) = {}
  BY DEF Range
<1> QED  BY <1>1 DEF SlotsAreHandedOver, Executing, Listed

\* The slots depend on the ranks of what is listed.
LEMMA SameSlots ==
  ASSUME Range(queue') \subseteq Listed, \A e \in Listed : obj'[e].rank = 0 => obj[e].rank = 0
  PROVE  Executing' \subseteq Executing
BY DEF Executing, Listed

\* Where the others are when one client has moved.
LEMMA OneMoves ==
  ASSUME TypeOK, NEW p \in Threads, NEW l, Goto(p, l)
  PROVE  /\ pc'[p] = l
         /\ \A c \in Clients : c # p => pc'[c] = pc[c]
         /\ p # "boot" => (Deployed' <=> Deployed)
BY ClientIsThread DEF Goto, TypeOK, Deployed

LEMMA ModifySlots ==
  ASSUME TypeOK, Refs, SlotsAreHandedOver,
         NEW p \in Threads, Refresh(p)
  PROVE  SlotsAreHandedOver'
<1> USE ThreadsAssumption, ClientIsThread
<1>1. UNCHANGED <<queue, handed>>
  BY DEF Refresh, ModifyFirst, ModifyCheck, ModifyAll, BatchWrite, mem
<1>2. CASE queue = <<>>
  BY <1>1, <1>2, NoSlots
<1>3. CASE queue # <<>>
  <2>1. \A e \in Listed : obj'[e].rank = obj[e].rank
    <3>1. CASE obj' = Modified
      BY <3>1, ModifiedType, RangeType DEF Refs, ListedAreQueues
    <3>2. CASE obj' = obj
      BY <3>2
    <3> QED  BY <3>1, <3>2 DEF Refresh, ModifyFirst, ModifyCheck, ModifyAll, BatchWrite, mem
  <2>2. Executing' \subseteq Executing
    BY <1>1, <2>1, SameSlots DEF Listed
  <2>3. UNCHANGED own
    BY <1>3 DEF Refresh, ModifyFirst, ModifyCheck, ModifyAll, BatchWrite, TypeOK
  <2>4. \A c \in Clients : pc'[c] = pc[c] \/ pc'[c] \in SharedPCs
    BY <1>3 DEF Refresh, ModifyFirst, ModifyCheck, ModifyAll, BatchWrite, Goto, Done, TypeOK, SharedPCs
  <2>5. Deployed' => Deployed
    BY <1>3 DEF Refresh, ModifyFirst, ModifyCheck, ModifyAll, BatchWrite, Goto, Done, TypeOK, Deployed
  <2> QED  BY <1>1, <2>2, <2>3, <2>4, <2>5, SlotsKept
<1> QED  BY <1>2, <1>3

\* A client with nothing to hand over goes elsewhere, or makes an object.
LEMMA AwaySlots ==
  ASSUME TypeOK, Refs, SlotsAreHandedOver, NEW c \in Clients, NEW l, Goto(c, l),
         pc[c] \notin SharedPCs, UNCHANGED <<queue, handed>>,
         \A d \in Clients \ {c} : own'[d] = own[d],
         \A e \in Ids : obj[e] # NoQueue => obj'[e] = obj[e]
  PROVE  SlotsAreHandedOver'
<1> USE ThreadsAssumption, ClientIsThread
<1>1. \A e \in Listed : obj'[e] = obj[e]
  BY RangeType, NoQueueIsNoQueue DEF Refs, ListedAreQueues
<1>2. Executing' \subseteq Executing
  BY <1>1, SameSlots DEF Listed
<1>3. /\ \A d \in Clients \ {c} : pc'[d] = pc[d] /\ own'[d] = own[d]
      /\ Deployed' <=> Deployed
  BY OneMoves
<1>4. \A d \in Clients : (pc'[d] = pc[d] /\ own'[d] = own[d]) \/ pc[d] \notin SharedPCs
  BY <1>3
<1> QED  BY <1>2, <1>3, <1>4, SlotsKept

LEMMA FindSlots ==
  ASSUME TypeOK, Refs, SlotsAreHandedOver, NEW c \in Clients, NEW t, Find(c, t),
         pc[c] \notin SharedPCs
  PROVE  SlotsAreHandedOver'
<1>1. UNCHANGED <<queue, handed>> /\ \E l : Goto(c, l)
  BY DEF Find
<1>2. \A d \in Clients \ {c} : own'[d] = own[d]
  BY DEF Find, TypeOK
<1>3. \A e \in Ids : obj[e] # NoQueue => obj'[e] = obj[e]
  BY DEF Find, TypeOK, CallFresh, Fresh
<1> QED  BY <1>1, <1>2, <1>3, AwaySlots

LEMMA ClientSlots ==
  ASSUME TypeOK, Refs, SlotsAreHandedOver, NEW c \in Clients, ClientStep(c)
  PROVE  SlotsAreHandedOver'
<1> USE ThreadsAssumption, ClientIsThread
<1>1. CASE PrivateWrite(c) \/ PrivateIsFull(c) \/ VipWrite(c) \/ KillWrite(c) \/ VipRemove(c)
  <2>1. UNCHANGED <<obj, own, handed>> /\ pc[c] \notin SharedPCs /\ \E l : Goto(c, l)
    BY <1>1 DEF PrivateWrite, PrivateIsFull, VipWrite, KillWrite, VipRemove, mem, SharedPCs
  <2>2. Range(queue') \subseteq Listed
    BY <1>1, WithoutShrinks DEF PrivateWrite, PrivateIsFull, VipWrite, KillWrite, VipRemove, mem,
                                TypeOK, Listed
  <2>3. Executing' \subseteq Executing
    BY <2>1, <2>2, SameSlots
  <2> QED  BY <2>1, <2>3, OneMoves, SlotsKept
<1>2. CASE PrivateRank(c) \/ KillRemove(c)
  <2>1. /\ UNCHANGED handed /\ pc[c] \in PrivatePCs /\ \E l : Goto(c, l)
        /\ \A d \in Clients \ {c} : own'[d] = own[d]
    BY <1>2 DEF PrivateRank, KillRemove, PrivatePCs, TypeOK
  <2>2. own[c] \notin Listed
    BY <2>1 DEF Refs, OwnIsPrivate
  <2>3. Range(queue') \subseteq Listed
    BY <1>2, WithoutShrinks DEF PrivateRank, KillRemove, TypeOK, Listed
  <2>4. \A e \in Ids \ {own[c]} : obj'[e] = obj[e]
    BY <1>2 DEF PrivateRank, KillRemove, TypeOK
  <2>5. Executing' \subseteq Executing
    BY <2>2, <2>3, <2>4, RangeType, SameSlots
  <2>6. pc[c] \notin SharedPCs
    BY <2>1 DEF PrivatePCs, SharedPCs
  <2>7. /\ \A d \in Clients \ {c} : pc'[d] = pc[d] /\ own'[d] = own[d]
        /\ Deployed' <=> Deployed
    BY <2>1, OneMoves
  <2>8. \A d \in Clients : (pc'[d] = pc[d] /\ own'[d] = own[d]) \/ pc[d] \notin SharedPCs
    BY <2>7, <2>6
  <2> QED  BY <2>1, <2>7, <2>8, <2>5, SlotsKept
<1>3. CASE PrivateAdd(c)
  <2>1. UNCHANGED <<obj, own, handed>> /\ Goto(c, "first") /\ own[c] \in Ids
    BY <1>3, OwnFacts DEF PrivateAdd, Refs, PrivatePCs
  <2>2. Range(queue') = Listed \cup {own[c]}
    BY <1>3, <2>1, RangeOfAppend DEF PrivateAdd, TypeOK, Listed
  <2>3. \A e \in Executing' : e \in Executing \/ e = own[c]
    BY <2>1, <2>2 DEF Executing, Listed
  <2>4. HandlingOwn(c, own[c])'
    BY <2>1, OneMoves DEF HandlingOwn
  <2>5. \A d \in Clients, e \in Ids : HandlingOwn(d, e) => HandlingOwn(d, e)'
    BY <2>1, OneMoves, <1>3 DEF HandlingOwn, PrivateAdd
  <2>6. Deployed' <=> Deployed
    BY <2>1, OneMoves
  <2>7. Executing \subseteq Ids
    BY RangeType DEF Executing
  <2> QED  BY <2>1, <2>3, <2>4, <2>5, <2>6, <2>7 DEF SlotsAreHandedOver
<1>4. CASE PrivateSubmit(c)
  <2>1. UNCHANGED <<obj, queue>> /\ Goto(c, "idle") /\ \A d \in Clients \ {c} : own'[d] = own[d]
    BY <1>4 DEF PrivateSubmit, TypeOK
  <2>2. Executing' = Executing /\ (Deployed' <=> Deployed)
    BY <2>1, OneMoves DEF Executing, Listed
  <2>3. handed \subseteq handed'
    BY <1>4 DEF PrivateSubmit, Submit, SubmitAll
  <2>4. \A e \in Executing : HandlingOwn(c, e) => e \in handed'
    BY <1>4 DEF PrivateSubmit, Submit, SubmitAll, HandlingOwn, Executing, Ready
  <2>5. \A d \in Clients \ {c}, e \in Executing : HandlingOwn(d, e) => HandlingOwn(d, e)'
    BY <2>1, OneMoves DEF HandlingOwn
  <2> QED  BY <2>2, <2>3, <2>4, <2>5 DEF SlotsAreHandedOver
<1>5. CASE VipSubmit(c)
  <2>1. /\ UNCHANGED <<obj, queue>> /\ Goto(c, "idle") /\ \A d \in Clients \ {c} : own'[d] = own[d]
        /\ handed \subseteq handed' /\ pc[c] \notin SharedPCs
    BY <1>5 DEF VipSubmit, Submit, SubmitAll, TypeOK, SharedPCs
  <2>2. Executing' \subseteq Executing
    BY <2>1 DEF Executing, Listed
  <2>7. /\ \A d \in Clients \ {c} : pc'[d] = pc[d] /\ own'[d] = own[d]
        /\ Deployed' <=> Deployed
    BY <2>1, OneMoves
  <2>8. \A d \in Clients : (pc'[d] = pc[d] /\ own'[d] = own[d]) \/ pc[d] \notin SharedPCs
    BY <2>7, <2>1
  <2> QED  BY <2>1, <2>2, <2>7, <2>8, SlotsKept
<1>6. CASE ExportFind(c)
  BY <1>6, FindSlots DEF ExportFind, SharedPCs
<1>7. CASE SwitchTask(c)
  <2>1. UNCHANGED <<queue, handed, obj, own>> /\ Goto(c, "idle") /\ pc[c] \notin SharedPCs
    BY <1>7 DEF SwitchTask, mem, SharedPCs
  <2> QED  BY <2>1, AwaySlots
<1> QED  BY <1>1, <1>2, <1>3, <1>4, <1>5, <1>6, <1>7, ModifySlots DEF ClientStep

LEMMA RequestSlots ==
  ASSUME TypeOK, Refs, SlotsAreHandedOver, NEW c \in Clients, Request(c)
  PROVE  SlotsAreHandedOver'
<1> USE ThreadsAssumption, ClientIsThread
<1> PICK t \in Tasks :
      \/ PrivateFind(c, t) \/ ExportInsert(c, t) \/ VipFind(c, t) \/ KillFind(c, t)
      \/ DeleteTask(c, t) \/ EditContent(c, t)
      \/ \E type \in ScheduleTypes : ConvertAuto(c, t, type)
  BY DEF Request
<1>1. CASE PrivateFind(c, t)
  BY <1>1, FindSlots DEF PrivateFind, SharedPCs
<1>2. CASE VipFind(c, t) \/ KillFind(c, t)
  <2>1. UNCHANGED <<queue, handed>> /\ pc[c] \notin SharedPCs /\ \E l : Goto(c, l)
    BY <1>2 DEF VipFind, KillFind, SharedPCs
  <2>2. \A d \in Clients \ {c} : own'[d] = own[d]
    BY <1>2 DEF VipFind, KillFind, TypeOK
  <2>3. \A e \in Ids : obj[e] # NoQueue => obj'[e] = obj[e]
    BY <1>2 DEF VipFind, KillFind, TypeOK, CallFresh, Fresh
  <2> QED  BY <2>1, <2>2, <2>3, AwaySlots
<1>3. CASE ExportInsert(c, t) \/ \E type \in ScheduleTypes : ConvertAuto(c, t, type)
  <2>1. UNCHANGED <<queue, handed, obj, own>> /\ pc[c] \notin SharedPCs /\ \E l : Goto(c, l)
    BY <1>3 DEF ExportInsert, ConvertAuto, SharedPCs, mem
  <2> QED  BY <2>1, AwaySlots
<1>4. CASE UNCHANGED <<mem, thr, wrk>>
  BY <1>4 DEF mem, thr, wrk, SlotsAreHandedOver, HandlingOwn, Executing, Listed, Deployed
<1> QED  BY <1>1, <1>2, <1>3, <1>4 DEF DeleteTask, EditContent, RowUpdate

LEMMA WorkerSlots ==
  ASSUME TypeOK, Refs, SlotsAreHandedOver, NEW w \in Workers, Worker(w)
  PROVE  SlotsAreHandedOver'
<1>1. UNCHANGED <<own, pc, handed>>
  BY DEF Worker, Take, Execute, ExecuteThrows, Commit, Leave, Report, thr, mem
<1>2. Range(queue') \subseteq Listed
  BY WithoutShrinks DEF Worker, Take, Execute, ExecuteThrows, Commit, Leave, Report, mem, TypeOK, Listed
<1>3. \A e \in Listed : obj'[e].rank = obj[e].rank
  <2>1. CASE UNCHANGED obj
    BY <2>1
  <2>2. ASSUME NEW o \in Outcomes, Execute(w, o)
        PROVE  \A e \in Ids : obj[e] \in Queues => obj'[e].rank = obj[e].rank
    <3>1. obj' = [obj EXCEPT ![run[w]].row = Ended(obj[run[w]].row, o)]
      BY <2>2 DEF Execute
    <3> QED  BY <3>1 DEF TypeOK, Queues
  <2> QED  BY <2>1, <2>2, RangeType
           DEF Worker, Take, ExecuteThrows, Commit, Leave, Report, mem, Refs, ListedAreQueues
<1>4. Executing' \subseteq Executing
  BY <1>2, <1>3, SameSlots
<1> QED  BY <1>1, <1>4, SlotsKept DEF Deployed

LEMMA MonitorSlots ==
  ASSUME TypeOK, Refs, SlotsAreHandedOver, MonitorStep
  PROVE  SlotsAreHandedOver'
<1> USE ThreadsAssumption, ClientIsThread
<1>1. CASE MonitorCheck
  <2>1. UNCHANGED <<obj, queue, own, handed>> /\ Goto("monitor", "update")
    BY <1>1 DEF MonitorCheck, mem
  <2>2. Executing' \subseteq Executing
    BY <2>1 DEF Executing, Listed
  <2> QED  BY <2>1, <2>2, OneMoves, SlotsKept
<1>2. CASE MonitorUpdate
  <2>1. UNCHANGED <<queue, own>> /\ Goto("monitor", "first") /\ handed' = handed \cup Promoted
    BY <1>2 DEF MonitorUpdate, SubmitAll
  <2>2. \A e \in Listed : obj'[e] = Advanced(obj[e]) /\ obj[e] \in Queues
    BY <1>2, RangeType DEF MonitorUpdate, Refs, ListedAreQueues
  <2>3. \A e \in Listed : obj'[e].rank = 0 => obj[e].rank \in {0, 1}
    <3>1. \A q \in Queues : q.rank \in Int /\ (Advanced(q).rank = 0 => q.rank \in {0, 1})
      <4>1. \A q \in Queues : q.rank \in Int
        BY DEF Queues
      <4> QED  BY <4>1, AdvancedType
    <3> QED  BY <2>2, <3>1
  <2>4. \A e \in Executing' : e \in Executing \/ e \in handed'
    BY <2>1, <2>3 DEF Executing, Listed, Promoted
  <2>5. \A d \in Clients, e \in Ids : HandlingOwn(d, e) => HandlingOwn(d, e)'
    BY <2>1, OneMoves DEF HandlingOwn
  <2>6. Deployed' <=> Deployed
    BY <2>1, OneMoves
  <2>7. Executing \subseteq Ids
    BY RangeType DEF Executing
  <2> QED  BY <2>1, <2>4, <2>5, <2>6, <2>7 DEF SlotsAreHandedOver
<1> QED  BY <1>1, <1>2, ModifySlots DEF MonitorStep

LEMMA BootSlots ==
  ASSUME TypeOK, Refs, SlotsAreHandedOver, BootStep
  PROVE  SlotsAreHandedOver'
<1> USE ThreadsAssumption, ClientIsThread
<1>1. CASE BootLoad \/ BootAddJobs \/ BootEnqueued
             \/ \E t \in Tasks : BootIsFull(t) \/ BootEnqueue(t)
  <2>1. ~Deployed'
    BY <1>1 DEF BootLoad, BootAddJobs, BootEnqueued, BootIsFull, BootEnqueue, Goto, TypeOK, Deployed
  <2> QED  BY <2>1, NoSlots
<1>2. CASE BootSubmit
  BY <1>2 DEF BootSubmit, SubmitAll, SlotsAreHandedOver, Executing, Listed, Ready
<1> QED  BY <1>1, <1>2, ModifySlots DEF BootStep

LEMMA StepSlots ==
  ASSUME TypeOK, Refs, SlotsAreHandedOver, [Next]_vars
  PROVE  SlotsAreHandedOver'
<1>1. CASE UNCHANGED vars
  BY <1>1 DEF vars, mem, thr, wrk, SlotsAreHandedOver, HandlingOwn, Executing, Listed, Deployed
<1>2. CASE Crash
  BY <1>2, NoSlots DEF Crash
<1> QED  BY <1>1, <1>2, ClientSlots, RequestSlots, WorkerSlots, MonitorSlots, BootSlots DEF Next

\* No slot is lost to an entry that nobody will ever run.
THEOREM SlotsAreHandedOverHolds == Spec => []SlotsAreHandedOver
<1>1. TypeOK /\ Refs /\ SlotsAreHandedOver /\ [Next]_vars => SlotsAreHandedOver'
  BY StepSlots
<1> QED  BY <1>1, InitSlots, ReferencesHold, PTL DEF Spec
-----------------------------------------------------------------------------
\* Places in the line.

\* What a step may do to the rank of an entry that is in the list.
RankKept(e) == IF obj[e].rank > 0 THEN obj'[e].rank \in 0 .. obj[e].rank
               ELSE obj'[e].rank = obj[e].rank

LEMMA SameRank ==
  ASSUME NEW e \in Ids, obj[e] \in Queues, obj'[e].rank = obj[e].rank
  PROVE  RankKept(e)
BY DEF RankKept, Queues

LEMMA ClientRanks ==
  ASSUME TypeOK, Refs, NEW c \in Clients, ClientStep(c) \/ Request(c), NEW e \in Listed
  PROVE  obj'[e].rank = obj[e].rank
<1>1. e \in Ids /\ obj[e] \in Queues /\ obj[e] # NoQueue
  BY RangeType, NoQueueIsNoQueue DEF Refs, ListedAreQueues
<1>2. CASE obj' = Modified
  BY <1>1, <1>2, ModifiedType DEF Refs
<1>3. CASE PrivateRank(c) \/ KillRemove(c)
  <2>1. own[c] \notin Listed
    BY <1>3 DEF PrivateRank, KillRemove, Refs, OwnIsPrivate, PrivatePCs
  <2> QED  BY <1>1, <1>3, <2>1 DEF PrivateRank, KillRemove, TypeOK
<1>4. CASE \E t : Find(c, t) \/ VipFind(c, t) \/ KillFind(c, t)
  BY <1>1, <1>4 DEF Find, VipFind, KillFind, CallFresh, Fresh, TypeOK
<1>5. CASE UNCHANGED obj
  BY <1>5
<1> QED
  BY <1>2, <1>3, <1>4, <1>5
  DEF ClientStep, Request, PrivateWrite, PrivateIsFull, PrivateAdd, Refresh, ModifyFirst, ModifyCheck,
      ModifyAll, BatchWrite, PrivateFind, ExportFind, PrivateSubmit, VipWrite, VipRemove, VipSubmit, KillWrite, ExportInsert, DeleteTask, EditContent,
      ConvertAuto, SwitchTask, RowUpdate, mem

LEMMA WorkerRanks ==
  ASSUME TypeOK, Refs, NEW w \in Workers, Worker(w), NEW e \in Listed
  PROVE  obj'[e].rank = obj[e].rank
<1>1. e \in Ids /\ obj[e] \in Queues
  BY RangeType DEF Refs, ListedAreQueues
<1>2. ASSUME NEW o \in Outcomes, Execute(w, o)
      PROVE  obj'[e].rank = obj[e].rank
  <2>1. obj' = [obj EXCEPT ![run[w]].row = Ended(obj[run[w]].row, o)]
    BY <1>2 DEF Execute
  <2> QED  BY <1>1, <2>1 DEF TypeOK, Queues
<1>3. CASE UNCHANGED obj
  BY <1>3
<1> QED  BY <1>2, <1>3 DEF Worker, Take, ExecuteThrows, Commit, Leave, Report, mem

LEMMA MonitorRanks ==
  ASSUME TypeOK, Refs, MonitorStep, NEW e \in Listed
  PROVE  RankKept(e)
<1>1. e \in Ids /\ obj[e] \in Queues /\ obj[e].rank \in Int
  BY RangeType DEF Refs, ListedAreQueues, Queues
<1>2. CASE MonitorUpdate
  <2>1. obj'[e] = Advanced(obj[e])
    BY <1>1, <1>2 DEF MonitorUpdate
  <2>2. Advanced(obj[e]).rank = IF obj[e].rank > 0 THEN obj[e].rank - 1 ELSE obj[e].rank
    BY <1>1, AdvancedType
  <2> QED  BY <1>1, <2>1, <2>2 DEF RankKept
<1>3. CASE obj' = Modified
  <2>1. obj'[e].rank = obj[e].rank
    BY <1>1, <1>3, ModifiedType DEF Refs
  <2> QED  BY <1>1, <2>1, SameRank
<1>4. CASE UNCHANGED obj
  BY <1>1, <1>4, SameRank
<1> QED  BY <1>2, <1>3, <1>4 DEF MonitorStep, MonitorCheck, Refresh, ModifyFirst, ModifyCheck, ModifyAll, BatchWrite, mem

LEMMA BootRanks ==
  ASSUME TypeOK, Refs, BootStep, NEW e \in Listed
  PROVE  obj'[e].rank = obj[e].rank
<1>1. e \in Ids /\ obj[e] \in Queues /\ obj[e] # NoQueue
  BY RangeType, NoQueueIsNoQueue DEF Refs, ListedAreQueues
<1>2. CASE obj' = Modified
  BY <1>1, <1>2, ModifiedType DEF Refs
<1>3. CASE \E t \in Tasks : BootEnqueue(t)
  BY <1>1, <1>3 DEF BootEnqueue, Fresh, TypeOK
<1>4. CASE UNCHANGED obj
  BY <1>4
<1> QED  BY <1>2, <1>3, <1>4
         DEF BootStep, BootLoad, BootAddJobs, BootIsFull, BootEnqueued, BootSubmit, Refresh,
             ModifyFirst, ModifyCheck, ModifyAll, BatchWrite, mem

\* A place in the line only gets better, and a slot is kept.
THEOREM RanksOnlyImproveHolds == Spec => RanksOnlyImprove
<1>1. ASSUME TypeOK, Refs, [Next]_vars
      PROVE  [\A e \in Listed \cap Range(queue') : RankKept(e)]_vars
  <2> SUFFICES ASSUME Next, NEW e \in Listed, e \in Range(queue')
               PROVE  RankKept(e)
    BY <1>1
  <2>1. e \in Ids /\ obj[e] \in Queues
    BY <1>1, RangeType DEF Refs, ListedAreQueues
  <2>2. ASSUME NEW c \in Clients, ClientStep(c) \/ Request(c)
        PROVE  RankKept(e)
    BY <1>1, <2>1, <2>2, ClientRanks, SameRank
  <2>3. ASSUME NEW w \in Workers, Worker(w)
        PROVE  RankKept(e)
    BY <1>1, <2>1, <2>3, WorkerRanks, SameRank
  <2>4. CASE MonitorStep
    BY <1>1, <2>4, MonitorRanks
  <2>5. CASE BootStep
    BY <1>1, <2>1, <2>5, BootRanks, SameRank
  <2>6. CASE Crash
    <3>1. Range(<<>>) = {}
      BY DEF Range
    <3> QED  BY <2>6, <3>1 DEF Crash
  <2> QED  BY <2>2, <2>3, <2>4, <2>5, <2>6 DEF Next
<1>2. TypeOK /\ Refs /\ [Next]_vars =>
        [\A e \in Listed \cap Range(queue') :
            IF obj[e].rank > 0 THEN obj'[e].rank \in 0 .. obj[e].rank
            ELSE obj'[e].rank = obj[e].rank]_vars
  BY <1>1 DEF RankKept
<1> QED  BY <1>2, ReferencesHold, PTL DEF Spec, RanksOnlyImprove
-----------------------------------------------------------------------------
\* Finished tasks.

LEMMA InitEarned == Init => FinishedAreEarned
<1> SUFFICES ASSUME Init PROVE FinishedAreEarned
  OBVIOUS
<1>1. \A t \in Tasks : NoLoading.rows[t].status # "Finished"
  BY NoLoadingType DEF NoRow
<1> QED  BY <1>1, NoQueueIsNoQueue DEF Init, FinishedAreEarned

\* A row comes from the table or from an object, an object from a query.
RowsEarned ==
  \A t \in Tasks :
    /\ db'[t].status = "Finished" =>
         \/ db[t].status = "Finished"
         \/ \E e \in Ids : obj[e] \in Queues /\ obj[e].task = t /\ obj[e].row.status = "Finished"
    /\ loading'.rows[t].status = "Finished" =>
         loading.rows[t].status = "Finished" \/ db[t].status = "Finished"
ObjectEarned(e) ==
  obj'[e] \in Queues => /\ obj'[e].status # "Finished"
                        /\ obj'[e].row.status = "Finished" => obj'[e].task \in succeeded'

LEMMA EarnedKept ==
  ASSUME FinishedAreEarned, succeeded \subseteq succeeded', RowsEarned,
         \A e \in Ids : ObjectEarned(e)
  PROVE  FinishedAreEarned'
BY DEF FinishedAreEarned, RowsEarned, ObjectEarned

LEMMA SameObject ==
  ASSUME FinishedAreEarned, succeeded \subseteq succeeded', NEW e \in Ids, obj'[e] = obj[e]
  PROVE  ObjectEarned(e)
BY DEF FinishedAreEarned, ObjectEarned

LEMMA StoredEarned ==
  ASSUME TypeOK, NEW e \in Ids, obj[e] \in Queues, db' = Stored(e), UNCHANGED loading
  PROVE  RowsEarned
BY DEF Stored, TypeOK, RowsEarned, Queues

LEMMA ReplacedEarned ==
  ASSUME TypeOK, Refs, NEW p \in Threads, db' = Replaced(snap[p]), UNCHANGED loading
  PROVE  RowsEarned
<1>1. snap[p] \in Seq(Ids)
  BY DEF TypeOK
<1>2. \A e \in Range(snap[p]) : e \in Ids /\ obj[e] \in Queues
  BY RangeType DEF Refs, SnapsAreQueues
<1> QED  BY <1>1, <1>2, ReplacedRows DEF RowsEarned

LEMMA SameRows ==
  ASSUME UNCHANGED <<db, loading>>
  PROVE  RowsEarned
BY DEF RowsEarned

LEMMA ModifyEarned ==
  ASSUME TypeOK, Refs, FinishedAreEarned,
         NEW p \in Threads, Refresh(p)
  PROVE  FinishedAreEarned'
<1>1. UNCHANGED <<succeeded, loading>>
  BY DEF Refresh, ModifyFirst, ModifyCheck, ModifyAll, BatchWrite, wrk
<1>2. RowsEarned
  <2>1. CASE UNCHANGED db
    BY <1>1, <2>1, SameRows
  <2>2. CASE BatchWrite(p)
    BY <1>1, <2>2, ReplacedEarned DEF BatchWrite
  <2> QED  BY <2>1, <2>2 DEF Refresh, ModifyFirst, ModifyCheck, ModifyAll
<1>3. ASSUME NEW e \in Ids PROVE ObjectEarned(e)
  <2>1. CASE obj' = obj
    BY <1>1, <2>1, SameObject
  <2>2. CASE obj' = Modified
    <3>1. obj'[e] \in Queues => obj[e] \in Queues
      BY <2>2, ModifiedType, NoQueueIsNoQueue DEF TypeOK, Refs
    <3> QED  BY <1>1, <2>2, <3>1, ModifiedType DEF ObjectEarned, FinishedAreEarned, Refs
  <2> QED  BY <2>1, <2>2 DEF Refresh, ModifyFirst, ModifyCheck, ModifyAll, BatchWrite, mem
<1> QED  BY <1>1, <1>2, <1>3, EarnedKept

\* An object that a request makes is not Finished.
LEMMA MadeEarned ==
  ASSUME TypeOK, FinishedAreEarned, UNCHANGED <<db, loading, succeeded>>,
         NEW t \in Tasks, db[t] # NoRow,
         \/ \E e \in Ids, v \in {TASK_COMMON, TASK_VIP} :
              obj' = [obj EXCEPT ![e] = Entry(t, Started(db[t]), 0, "Running", v)]
         \/ \E e \in Ids :
              obj' = [obj EXCEPT ![e] = Entry(t, [db[t] EXCEPT !.status = "Stop"], 0, "Stop", TASK_COMMON)]
  PROVE  FinishedAreEarned'
<1>1. ASSUME NEW row \in Rows, NEW e \in Ids, NEW st \in {"Running", "Stop"}, NEW v,
             row.status = st, obj' = [obj EXCEPT ![e] = Entry(t, row, 0, st, v)]
      PROVE  \A f \in Ids : ObjectEarned(f)
  <2>1. ObjectEarned(e)
    BY <1>1 DEF TypeOK, Entry, ObjectEarned
  <2>2. \A f \in Ids \ {e} : obj'[f] = obj[f]
    BY <1>1 DEF TypeOK
  <2> QED  BY <2>1, <2>2, SameObject
<1>2. /\ Started(db[t]) \in Rows /\ Started(db[t]).status = "Running"
      /\ [db[t] EXCEPT !.status = "Stop"] \in Rows
      /\ [db[t] EXCEPT !.status = "Stop"].status = "Stop"
  <2>1. db[t] \in Rows
    BY RowsExist
  <2> QED  BY <2>1 DEF Started, Rows, Statuses
<1>3. \A e \in Ids : ObjectEarned(e)
  <2>1. CASE \E e \in Ids, v \in {TASK_COMMON, TASK_VIP} :
               obj' = [obj EXCEPT ![e] = Entry(t, Started(db[t]), 0, "Running", v)]
    <3> HIDE DEF Started
    <3> QED  BY <1>1, <1>2, <2>1
  <2>2. CASE \E e \in Ids :
               obj' = [obj EXCEPT ![e] = Entry(t, [db[t] EXCEPT !.status = "Stop"], 0, "Stop", TASK_COMMON)]
    BY <1>1, <1>2, <2>2
  <2> QED  BY <2>1, <2>2
<1> QED  BY <1>3, SameRows, EarnedKept

LEMMA FindEarned ==
  ASSUME TypeOK, FinishedAreEarned, NEW c \in Clients, NEW t \in Tasks, Find(c, t)
  PROVE  FinishedAreEarned'
<1>1. UNCHANGED <<db, loading, succeeded>>
  BY DEF Find, wrk
<1>2. CASE UNCHANGED obj
  BY <1>1, <1>2, SameRows, SameObject, EarnedKept
<1>3. CASE db[t] # NoRow /\ \E e \in Ids :
             obj' = [obj EXCEPT ![e] = Entry(t, Started(db[t]), 0, "Running", TASK_COMMON)]
  BY <1>1, <1>3, MadeEarned
<1> QED  BY <1>2, <1>3 DEF Find

LEMMA ClientEarned ==
  ASSUME TypeOK, Refs, CallsHaveTasks, FinishedAreEarned, NEW c \in Clients, ClientStep(c)
  PROVE  FinishedAreEarned'
<1>1. CASE Refresh(c)
  BY <1>1, ModifyEarned, ClientIsThread
<1>2. CASE PrivateWrite(c) \/ VipWrite(c) \/ KillWrite(c)
  <2>1. UNCHANGED <<obj, loading, succeeded>> /\ db' = Stored(own[c])
        /\ own[c] \in Ids /\ obj[own[c]] \in Queues
    BY <1>2, OwnFacts DEF PrivateWrite, VipWrite, KillWrite, mem, wrk, Refs, PrivatePCs
  <2> QED  BY <2>1, StoredEarned, SameObject, EarnedKept
<1>3. CASE PrivateIsFull(c) \/ PrivateAdd(c) \/ PrivateSubmit(c) \/ VipRemove(c) \/ VipSubmit(c)
  <2>1. UNCHANGED <<obj, db, loading, succeeded>>
    BY <1>3 DEF PrivateIsFull, PrivateAdd, PrivateSubmit, VipRemove, VipSubmit, mem, wrk
  <2> QED  BY <2>1, SameRows, SameObject, EarnedKept
<1>4. CASE PrivateRank(c) \/ KillRemove(c)
  <2>1. UNCHANGED <<db, loading, succeeded>> /\ own[c] \in Ids /\ obj[own[c]] \in Queues
    BY <1>4, OwnFacts DEF PrivateRank, KillRemove, wrk, Refs, PrivatePCs
  <2>2. \A e \in Ids \ {own[c]} : obj'[e] = obj[e]
    BY <1>4 DEF PrivateRank, KillRemove, TypeOK
  <2>3. ObjectEarned(own[c])
    <3>1. CASE KillRemove(c)
      BY <2>1, <3>1, NoQueueIsNoQueue DEF KillRemove, TypeOK, ObjectEarned
    <3>2. CASE PrivateRank(c)
      <4>1. obj'[own[c]] = MovedTo(obj[own[c]], getPrivateRank, "Queue")
        BY <2>1, <3>2 DEF PrivateRank, TypeOK, MovedTo
      <4>2. getPrivateRank \in Int /\ "Queue" \in Statuses
        BY BoundsAssumption DEF getPrivateRank, TypeOK, Statuses
      <4>3. /\ MovedTo(obj[own[c]], getPrivateRank, "Queue").status = "Queue"
            /\ MovedTo(obj[own[c]], getPrivateRank, "Queue").row = obj[own[c]].row
            /\ MovedTo(obj[own[c]], getPrivateRank, "Queue").task = obj[own[c]].task
        <5>1. \A m \in Int : /\ MovedTo(obj[own[c]], m, "Queue").status = "Queue"
                             /\ MovedTo(obj[own[c]], m, "Queue").row = obj[own[c]].row
                             /\ MovedTo(obj[own[c]], m, "Queue").task = obj[own[c]].task
          BY <2>1, <4>2, Moved
        <5> QED  BY <4>2, <5>1
      <4> QED  BY <2>1, <4>1, <4>3 DEF ObjectEarned, FinishedAreEarned
    <3> QED  BY <1>4, <3>1, <3>2
  <2>4. \A e \in Ids : ObjectEarned(e)
    BY <2>1, <2>2, <2>3, SameObject
  <2> QED  BY <2>1, <2>4, SameRows, EarnedKept
<1>5. CASE ExportFind(c)
  BY <1>5, FindEarned DEF ExportFind, CallsHaveTasks, CalledPCs
<1>6. CASE SwitchTask(c)
  <2>1. UNCHANGED <<obj, loading, succeeded>>
    BY <1>6 DEF SwitchTask, mem, wrk
  <2>2. \A u \in Tasks : db'[u] = db[u] \/ db'[u] = NoRow \/ \E s \in {"Start", "Stop"} : db'[u] = Switched(db[u], s)
    BY <1>6 DEF SwitchTask, TypeOK
  <2>3. \A row \in Rows \cup {NoRow}, s \in {"Start", "Stop"} : Switched(row, s).status # "Finished"
    BY DEF Switched, NoRow, Rows
  <2>4. RowsEarned
    <3>1. ASSUME NEW u \in Tasks, db'[u].status = "Finished"
          PROVE  db[u].status = "Finished"
      <4>1. db[u] \in Rows \cup {NoRow} /\ NoRow.status # "Finished"
        BY DEF TypeOK, NoRow
      <4>2. CASE db'[u] = NoRow
        BY <3>1, <4>1, <4>2
      <4>3. CASE \E st \in {"Start", "Stop"} : db'[u] = Switched(db[u], st)
        BY <2>3, <3>1, <4>1, <4>3, Zenon
      <4> QED  BY <2>2, <3>1, <4>2, <4>3
    <3> QED  BY <2>1, <3>1 DEF RowsEarned
  <2> QED  BY <2>1, <2>4, SameObject, EarnedKept
<1> QED  BY <1>1, <1>2, <1>3, <1>4, <1>5, <1>6 DEF ClientStep

LEMMA RequestEarned ==
  ASSUME TypeOK, Refs, FinishedAreEarned, NEW c \in Clients, Request(c)
  PROVE  FinishedAreEarned'
<1> PICK t \in Tasks :
      \/ PrivateFind(c, t) \/ ExportInsert(c, t) \/ VipFind(c, t) \/ KillFind(c, t)
      \/ DeleteTask(c, t) \/ EditContent(c, t)
      \/ \E type \in ScheduleTypes : ConvertAuto(c, t, type)
  BY DEF Request
<1>1. CASE PrivateFind(c, t)
  BY <1>1, FindEarned DEF PrivateFind
<1>3. CASE VipFind(c, t) \/ KillFind(c, t)
  <2>1. UNCHANGED <<db, loading, succeeded>> /\ db[t] # NoRow
    BY <1>3 DEF VipFind, KillFind, wrk
  <2> QED  BY <1>3, <2>1, MadeEarned DEF VipFind, KillFind
<1>2. CASE \/ ExportInsert(c, t) \/ DeleteTask(c, t) \/ EditContent(c, t)
           \/ \E type \in ScheduleTypes : ConvertAuto(c, t, type)
  <2>1. UNCHANGED <<obj, loading, succeeded>>
    BY <1>2 DEF ExportInsert, DeleteTask, EditContent, ConvertAuto, RowUpdate, mem, thr, wrk
  <2>2. \A u \in Tasks \ {t} : db'[u] = db[u]
    BY <1>2 DEF ExportInsert, DeleteTask, EditContent, ConvertAuto, TypeOK
  <2>3. db'[t].status = "Finished" => db[t].status = "Finished"
    <3>1. CASE ExportInsert(c, t) \/ DeleteTask(c, t)
      BY <3>1 DEF ExportInsert, DeleteTask, NoRow, TypeOK
    <3>2. CASE \E x : db' = [db EXCEPT ![t].rev = x] \/ db' = [db EXCEPT ![t].auto = x]
      <4>1. CASE db[t] = NoRow
        BY <3>2, <4>1 DEF NoRow, TypeOK
      <4>2. CASE db[t] \in Rows
        BY <3>2, <4>2 DEF Rows, TypeOK
      <4> QED  BY <4>1, <4>2 DEF TypeOK
    <3> QED  BY <1>2, <3>1, <3>2 DEF EditContent, ConvertAuto
  <2>4. RowsEarned
    BY <2>1, <2>2, <2>3 DEF RowsEarned
  <2> QED  BY <2>1, <2>4, SameObject, EarnedKept
<1> QED  BY <1>1, <1>2, <1>3

LEMMA WorkerEarned ==
  ASSUME TypeOK, Refs, FinishedAreEarned, NEW w \in Workers, Worker(w)
  PROVE  FinishedAreEarned'
<1>1. UNCHANGED loading /\ succeeded \subseteq succeeded'
  BY DEF Worker, Take, Execute, ExecuteThrows, Commit, Leave, Report, thr
<1>2. ASSUME NEW o \in Outcomes, Execute(w, o)
      PROVE  FinishedAreEarned'
  <2> DEFINE q == obj[run[w]]
  <2>1. run[w] \in Ids /\ q \in Queues /\ q.row \in Rows
    BY <1>2, RunFacts DEF Refs, Execute
  <2>2. /\ Ended(q.row, o).status = "Finished" => o = "success" \/ q.row.status = "Finished"
        /\ Ended(q.row, o) \in Rows
    BY <2>1, StatusOfRow DEF Ended, Rows, Statuses
  <2>3. obj'[run[w]] = [q EXCEPT !.row = Ended(q.row, o)]
    BY <1>2, <2>1 DEF Execute, TypeOK
  <2>4. /\ obj'[run[w]].status = q.status /\ obj'[run[w]].task = q.task
        /\ obj'[run[w]].row = Ended(q.row, o)
    BY <2>1, <2>3 DEF Queues
  <2>5. o = "success" => q.task \in succeeded'
    BY <1>2 DEF Execute
  <2>6. ObjectEarned(run[w])
    BY <1>1, <2>1, <2>2, <2>4, <2>5 DEF ObjectEarned, FinishedAreEarned
  <2>7. \A e \in Ids \ {run[w]} : obj'[e] = obj[e]
    BY <1>2 DEF Execute, TypeOK
  <2>8. UNCHANGED db
    BY <1>2 DEF Execute
  <2> QED  BY <1>1, <2>6, <2>7, <2>8, SameRows, SameObject, EarnedKept
<1>3. CASE Commit(w)
  <2>1. run[w] \in Ids /\ obj[run[w]] \in Queues
    BY <1>3, RunFacts DEF Refs, Commit
  <2>2. UNCHANGED obj /\ db' = Stored(run[w])
    BY <1>3 DEF Commit, mem
  <2> QED  BY <1>1, <2>1, <2>2, StoredEarned, SameObject, EarnedKept
<1>4. CASE UNCHANGED <<db, obj>>
  BY <1>1, <1>4, SameRows, SameObject, EarnedKept
<1> QED  BY <1>2, <1>3, <1>4 DEF Worker, Take, ExecuteThrows, Leave, Report, mem

LEMMA MonitorEarned ==
  ASSUME TypeOK, Refs, FinishedAreEarned, MonitorStep
  PROVE  FinishedAreEarned'
<1>1. CASE MonitorCheck
  <2>1. UNCHANGED <<obj, db, loading, succeeded>>
    BY <1>1 DEF MonitorCheck, mem, wrk
  <2> QED  BY <2>1, SameRows, SameObject, EarnedKept
<1>2. CASE MonitorUpdate
  <2>1. UNCHANGED <<db, loading, succeeded>>
    BY <1>2 DEF MonitorUpdate, wrk
  <2>2. ASSUME NEW e \in Ids PROVE ObjectEarned(e)
    <3>1. CASE e \in Listed
      <4>1. obj[e] \in Queues /\ obj'[e] = Advanced(obj[e])
        BY <1>2, <3>1 DEF MonitorUpdate, Refs, ListedAreQueues
      <4> QED  BY <2>1, <4>1, AdvancedType DEF ObjectEarned, FinishedAreEarned
    <3>2. CASE e \notin Listed
      BY <1>2, <2>1, <3>2, SameObject DEF MonitorUpdate
    <3> QED  BY <3>1, <3>2
  <2> QED  BY <2>1, <2>2, SameRows, EarnedKept
<1> QED  BY <1>1, <1>2, ModifyEarned, ClientIsThread DEF MonitorStep

LEMMA BootEarned ==
  ASSUME TypeOK, Refs, FinishedAreEarned, BootStep
  PROVE  FinishedAreEarned'
<1>1. CASE BootLoad \/ BootAddJobs \/ BootEnqueued \/ BootSubmit \/ \E t \in Tasks : BootIsFull(t)
  <2>1. UNCHANGED <<obj, db, succeeded>>
    BY <1>1 DEF BootLoad, BootAddJobs, BootEnqueued, BootIsFull, BootSubmit, mem, wrk
  <2>2. \A t \in Tasks : loading'.rows[t].status = "Finished" =>
                          loading.rows[t].status = "Finished" \/ db[t].status = "Finished"
    <3>1. CASE BootLoad
      BY <3>1, BootLoadMoves
    <3>2. CASE loading' = NoLoading
      BY <3>2, NoLoadingType DEF NoRow
    <3>3. CASE loading' = loading
      BY <3>3
    <3>4. CASE \E t \in Tasks : BootIsFull(t)
      BY <3>4, IsFullMoves
    <3> QED  BY <1>1, <3>1, <3>2, <3>3, <3>4 DEF BootAddJobs, BootEnqueued, BootSubmit
  <2>3. RowsEarned
    BY <2>1, <2>2 DEF RowsEarned
  <2> QED  BY <2>1, <2>3, SameObject, EarnedKept
<1>2. ASSUME NEW t \in Tasks, BootEnqueue(t)
      PROVE  FinishedAreEarned'
  <2>1. PICK e \in Ids :
          obj' = [obj EXCEPT ![e] =
                    IF loading.full
                    THEN Entry(t, loading.rows[t], getRank(loading.done), "Queue", TASK_COMMON)
                    ELSE Entry(t, loading.rows[t], 0, "Running", TASK_COMMON)]
    BY <1>2 DEF BootEnqueue
  <2>2. UNCHANGED <<db, succeeded>>
    BY <1>2 DEF BootEnqueue, wrk
  <2>3. loading'.rows = loading.rows
    BY <1>2, EnqueueMoves
  <2>4. ObjectEarned(e)
    <3>1. obj'[e].status \in {"Queue", "Running"} /\ obj'[e].row = loading.rows[t] /\ obj'[e].task = t
      BY <2>1 DEF TypeOK, Entry
    <3> QED  BY <2>2, <3>1 DEF ObjectEarned, FinishedAreEarned
  <2>5. \A f \in Ids \ {e} : obj'[f] = obj[f]
    BY <2>1 DEF TypeOK
  <2>6. RowsEarned
    BY <2>2, <2>3 DEF RowsEarned
  <2> QED  BY <2>2, <2>4, <2>5, <2>6, SameObject, EarnedKept
<1> QED  BY <1>1, <1>2, ModifyEarned, ClientIsThread DEF BootStep

LEMMA CrashEarned ==
  ASSUME FinishedAreEarned, Crash
  PROVE  FinishedAreEarned'
<1>1. UNCHANGED <<db, succeeded>>
  BY DEF Crash
<1>2. \A t \in Tasks : loading'.rows[t].status # "Finished"
  BY NoLoadingType DEF Crash, NoRow
<1>3. \A e \in Ids : obj'[e] \notin Queues
  BY NoQueueIsNoQueue DEF Crash
<1> QED  BY <1>1, <1>2, <1>3 DEF FinishedAreEarned

LEMMA StepEarned ==
  ASSUME TypeOK, Refs, CallsHaveTasks, FinishedAreEarned, [Next]_vars
  PROVE  FinishedAreEarned'
<1>1. CASE UNCHANGED vars
  BY <1>1 DEF vars, mem, thr, wrk, FinishedAreEarned
<1> QED  BY <1>1, ClientEarned, RequestEarned, WorkerEarned, MonitorEarned, BootEarned, CrashEarned DEF Next

\* A task is Finished in the table only if one of its queries has succeeded,
\* whatever stale rows are written back.
THEOREM NoPhantomFinishHolds == Spec => []NoPhantomFinish
<1>1. TypeOK /\ Refs /\ CallsHaveTasks /\ FinishedAreEarned /\ [Next]_vars => FinishedAreEarned'
  BY StepEarned
<1>2. FinishedAreEarned => NoPhantomFinish
  BY DEF FinishedAreEarned, NoPhantomFinish
<1> QED  BY <1>1, <1>2, InitEarned, ReferencesHold, PTL DEF Spec
=============================================================================
