------------------------- MODULE TaskRefinementProofs -------------------------
(***************************************************************************)
(* TaskEngine implements TaskLife, for all tasks, threads and bounds.      *)
(*                                                                         *)
(* The life of an object depends on who owns it, on whether it is in the   *)
(* list and was handed to the pool, and on its rank.  Most steps change    *)
(* none of this, for no object; the others change it for one object, for   *)
(* all who wait, or for all at a crash.                                    *)
(*                                                                         *)
(* The parts that follow count how often an entry is submitted and how     *)
(* many notices it gives rise to, follow the boot, and weigh the slots     *)
(* that are taken against the runs that will give them back.               *)
(***************************************************************************)
EXTENDS TaskRefinement, TaskEngineProofs, FiniteSetTheorems

KillPCs == {"killWrite", "killRemove"}

\* The inductive invariant: what the pool holds was handed over, and what was
\* handed over has rank 0 and belongs to no client any more that could hold it back.
HandedInv ==
  /\ \A e \in Ids : Held(e) => e \in handed
  /\ \A e \in handed : obj[e] \in Queues /\ obj[e].rank = 0
  /\ \A c \in Clients : pc[c] \in PrivatePCs => own[c] \notin handed

Inv == TypeOK /\ Refs /\ CallsHaveTasks /\ HandedInv /\ FinishedAreEarned

\* A client keeps its object, and its hold on it.
Same(c) == /\ own'[c] = own[c]
           /\ pc'[c] \in BeforePCs <=> pc[c] \in BeforePCs
           /\ pc'[c] \in KillPCs <=> pc[c] \in KillPCs
           /\ pc'[c] \in SharedPCs <=> pc[c] \in SharedPCs

\* Nothing that matters for the life of an object has changed, but for its owner.
Unmoved(e) ==
  /\ e \in handed' <=> e \in handed
  /\ e \in Listed' <=> e \in Listed
  /\ obj'[e] = NoQueue <=> obj[e] = NoQueue
  /\ obj[e] # NoQueue => obj'[e].task = obj[e].task /\ obj'[e].rank = obj[e].rank

\* ... and its life goes on as it was.
LEMMA LifeKept ==
  ASSUME NEW e \in Ids, Unmoved(e),
         \A c \in Clients : own[c] = e \/ own'[c] = e => Same(c)
  PROVE  LifeOf(e)' = LifeOf(e)
<1>1. Killing(e)' <=> Killing(e)
  BY DEF Killing, Same, KillPCs
<1>2. Before(e)' <=> Before(e)
  BY DEF Before, Same
<1>3. (\E c \in Clients : HandlingOwn(c, e))' <=> \E c \in Clients : HandlingOwn(c, e)
  BY DEF HandlingOwn, Same, SharedPCs
<1>4. /\ Alive(e)' <=> Alive(e)
      /\ Attended(e)' <=> Attended(e)
  BY <1>1, <1>3 DEF Alive, Attended, Unmoved
<1>5. Alive(e) => obj'[e].task = obj[e].task /\ obj'[e].rank = obj[e].rank
  BY DEF Alive, Unmoved
<1> QED
  BY <1>2, <1>4, <1>5 DEF LifeOf, Unmoved

\* The life of an object, by its owner and its place.
LEMMA OwnerOf ==
  ASSUME Refs, NEW c \in Clients, own[c] \in Ids
  PROVE  /\ Before(own[c]) <=> pc[c] \in BeforePCs
         /\ Killing(own[c]) <=> pc[c] \in KillPCs
         /\ (\E d \in Clients : HandlingOwn(d, own[c])) <=> pc[c] \in SharedPCs
<1>1. \A d \in Clients : own[d] = own[c] => d = c
  BY DEF Refs, OwnIsPrivate, Ids
<1> QED
  BY <1>1 DEF Before, Killing, KillPCs, HandlingOwn, SharedPCs

LEMMA NoOwner ==
  ASSUME NEW e \in Ids, \A c \in Clients : own[c] # e
  PROVE  ~Before(e) /\ ~Killing(e) /\ (Attended(e) <=> e \in Listed)
  BY DEF Before, Killing, Attended, HandlingOwn

Nil == [at |-> "none"]
Place(t, at, rank) == [task |-> t, at |-> at, rank |-> rank]

LEMMA LifeCases ==
  ASSUME NEW e \in Ids
  PROVE  /\ ~Alive(e) => LifeOf(e) = Nil
         /\ Alive(e) /\ e \in handed => LifeOf(e) = Place(obj[e].task, "started", 0)
         /\ Alive(e) /\ e \notin handed /\ Before(e) => LifeOf(e) = Place(obj[e].task, "made", 0)
         /\ Alive(e) /\ e \notin handed /\ ~Before(e) =>
              /\ obj[e].rank # 0 /\ e \in Listed =>
                   LifeOf(e) = Place(obj[e].task, "waiting", obj[e].rank)
              /\ obj[e].rank # 0 /\ e \notin Listed =>
                   LifeOf(e) = Place(obj[e].task, "withdrawn", 0)
              /\ obj[e].rank = 0 /\ Attended(e) => LifeOf(e) = Place(obj[e].task, "turn", 0)
              /\ obj[e].rank = 0 /\ ~Attended(e) => LifeOf(e) = Place(obj[e].task, "withdrawn", 0)
<1>1. CASE ~Alive(e)
  BY <1>1 DEF LifeOf, Nil
<1>2. CASE Alive(e) /\ e \in handed
  BY <1>2 DEF LifeOf, Place
<1>3. CASE Alive(e) /\ e \notin handed /\ Before(e)
  BY <1>3 DEF LifeOf, Place
<1>4. CASE Alive(e) /\ e \notin handed /\ ~Before(e)
  BY <1>4 DEF LifeOf, Place
<1> QED  BY <1>1, <1>2, <1>3, <1>4
-----------------------------------------------------------------------------
\* Steps of TaskLife.

LEMMA OneLife ==
  ASSUME NEW x \in Ids, \A e \in Ids \ {x} : LifeOf(e)' = LifeOf(e)
  PROVE  /\ lives' = [lives EXCEPT ![x] = LifeOf(x)']
         /\ lives[x] = LifeOf(x) /\ lives'[x] = LifeOf(x)'
<1>1. lives[x] = LifeOf(x) /\ lives'[x] = LifeOf(x)'
  BY DEF lives
<1>2. \A e \in Ids : lives'[e] = [lives EXCEPT ![x] = LifeOf(x)'][e]
  BY DEF lives
<1>3. lives' = [e \in Ids |-> lives'[e]]
  BY DEF lives
<1>4. [lives EXCEPT ![x] = LifeOf(x)'] = [e \in Ids |-> [lives EXCEPT ![x] = LifeOf(x)'][e]]
  BY DEF lives
<1> QED  BY <1>1, <1>2, <1>3, <1>4

LEMMA MakeMaps ==
  ASSUME NEW x \in Ids, NEW t \in Tasks, \A e \in Ids \ {x} : LifeOf(e)' = LifeOf(e),
         LifeOf(x) = Nil, LifeOf(x)' = Place(t, "made", 0)
  PROVE  Life!Make(x)
  BY OneLife DEF Life!Make, Life!IsAt, Life!At, Nil, Place

LEMMA EnterMaps ==
  ASSUME NEW x \in Ids, NEW t \in Tasks, \A e \in Ids \ {x} : LifeOf(e)' = LifeOf(e),
         LifeOf(x) = Nil \/ LifeOf(x) = Place(t, "made", 0),
         NEW r \in Int,
         LifeOf(x)' = IF r = 0 THEN Place(t, "turn", 0) ELSE Place(t, "waiting", r)
  PROVE  Life!Enter(x)
<1>1. lives' = [lives EXCEPT ![x] = lives'[x]] /\ lives[x] \in {Life!None, Life!At(t, "made")}
  BY OneLife DEF Life!At, Life!None, Nil, Place
<1>2. CASE r = 0
  <2>1. lives'[x] = Life!At(t, "turn")
    BY <1>2, OneLife DEF Life!At, Place
  <2> QED  BY <1>1, <2>1 DEF Life!Enter
<1>3. CASE r # 0
  <2>1. lives'[x] = Place(t, "waiting", r)
    BY <1>3, OneLife
  <2>2. lives'[x].at = "waiting" /\ lives'[x].rank = r
    BY <2>1 DEF Place
  <2>3. lives'[x] = Life!Waiting(t, lives'[x].rank)
    BY <2>1, <2>2 DEF Life!Waiting, Place
  <2> QED  BY <1>1, <1>3, <2>2, <2>3 DEF Life!Enter
<1> QED  BY <1>2, <1>3

LEMMA StartMaps ==
  ASSUME NEW S \in SUBSET Ids, \A e \in Ids \ S : LifeOf(e)' = LifeOf(e),
         \A e \in S : \E t \in Tasks : /\ LifeOf(e) \in {Place(t, "made", 0), Place(t, "turn", 0)}
                                       /\ LifeOf(e)' = Place(t, "started", 0)
  PROVE  Life!Start(S)
  BY DEF Life!Start, Life!At, Life!IsAt, Place, lives

LEMMA WithdrawMaps ==
  ASSUME NEW x \in Ids, NEW t \in Tasks, \A e \in Ids \ {x} : LifeOf(e)' = LifeOf(e),
         NEW r \in Int,
         LifeOf(x) \in {Place(t, "waiting", r), Place(t, "turn", 0)},
         LifeOf(x)' = Place(t, "withdrawn", 0)
  PROVE  Life!Withdraw(x)
<1>1. lives[x].at \in {"waiting", "turn"} /\ lives[x].task = t
  BY OneLife DEF Place
<1>2. lives' = [lives EXCEPT ![x] = Life!At(t, "withdrawn")]
  BY OneLife DEF Place, Life!At
<1> QED
  BY <1>1, <1>2 DEF Life!Withdraw, Life!IsAt

LEMMA StutterMaps ==
  ASSUME \A e \in Ids : LifeOf(e)' = LifeOf(e)
  PROVE  lives' = lives
  BY DEF lives
-----------------------------------------------------------------------------
\* Steps that change nobody's life.

Quiet ==
  /\ UNCHANGED handed
  /\ \A e \in Ids : Held(e)' => Held(e)
  /\ \A c \in Clients : Same(c)
  /\ \A e \in Ids : Unmoved(e) /\ (obj[e] \in Queues => obj'[e] \in Queues)

LEMMA QuietSteps ==
  ASSUME TypeOK, HandedInv, Quiet
  PROVE  HandedInv' /\ lives' = lives
<1>1. \A e \in Ids : LifeOf(e)' = LifeOf(e)
  BY LifeKept DEF Quiet
<1>2. \A e \in handed : obj'[e] \in Queues /\ obj'[e].rank = 0
  BY NoQueueIsNoQueue DEF HandedInv, Quiet, Unmoved, TypeOK
<1>3. \A c \in Clients : pc'[c] \in PrivatePCs => pc[c] \in PrivatePCs /\ own'[c] = own[c]
  BY DEF Quiet, Same, PrivatePCs, BeforePCs, KillPCs
<1>4. HandedInv'
  BY <1>2, <1>3 DEF HandedInv, Quiet
<1> QED
  BY <1>1, <1>4, StutterMaps

\* The objects, the list and the pool stay, and a thread moves.
LEMMA UnmovedAll ==
  ASSUME UNCHANGED <<obj, queue, handed>>
  PROVE  \A e \in Ids : Unmoved(e) /\ (obj[e] \in Queues => obj'[e] \in Queues)
  BY DEF Unmoved, Listed

LEMMA OthersSame ==
  ASSUME TypeOK, NEW p \in Threads, NEW l, Goto(p, l), \A d \in Clients \ {p} : own'[d] = own[d]
  PROVE  \A d \in Clients \ {p} : Same(d)
  BY OneMoves DEF Same

LEMMA StillHeld ==
  ASSUME UNCHANGED <<pool, run>>
  PROVE  \A e \in Ids : Held(e)' => Held(e)
  BY DEF Held

LEMMA AllSame ==
  ASSUME UNCHANGED own, \A c \in Clients : pc'[c] = pc[c]
  PROVE  \A c \in Clients : Same(c)
  BY DEF Same

\* A client that writes a row, looks at the list, or has no object.
LEMMA QuietClient ==
  ASSUME TypeOK, Refs, NEW c \in Clients,
         PrivateWrite(c) \/ PrivateIsFull(c) \/ VipWrite(c) \/ KillWrite(c) \/ SwitchTask(c)
  PROVE  Quiet
<1> USE ClientIsThread
<1>1. UNCHANGED <<obj, queue, pool, handed, run, own>> /\ \E l : Goto(c, l)
  BY DEF PrivateWrite, PrivateIsFull, VipWrite, KillWrite, SwitchTask, mem, wrk
<1>2. Same(c)
  BY OneMoves DEF PrivateWrite, PrivateIsFull, VipWrite, KillWrite, SwitchTask, Goto, TypeOK,
                  Same, BeforePCs, KillPCs, SharedPCs
<1>3. \A d \in Clients : Same(d)
  BY <1>1, <1>2, OthersSame
<1> QED
  BY <1>1, <1>3, UnmovedAll, StillHeld DEF Quiet

\* A refresh of the rows, but for the one that fails on an empty list.
LEMMA QuietRefresh ==
  ASSUME TypeOK, Refs, NEW p \in Threads, Refresh(p), ~(ModifyAll(p) /\ queue = <<>> /\ p \in Clients)
  PROVE  Quiet
<1> USE ClientIsThread, ThreadsAssumption
<1>1. UNCHANGED <<queue, pool, handed, run>>
  BY DEF Refresh, ModifyFirst, ModifyCheck, ModifyAll, BatchWrite, mem, wrk
<1>2. \A e \in Ids : Unmoved(e) /\ (obj[e] \in Queues => obj'[e] \in Queues)
  <2>1. CASE obj' = Modified
    BY <1>1, <2>1, ModifiedType, NoQueueIsNoQueue DEF Refs, Unmoved, Listed, TypeOK
  <2>2. CASE obj' = obj
    BY <1>1, <2>2, UnmovedAll
  <2> QED
    BY <2>1, <2>2 DEF Refresh, ModifyFirst, ModifyCheck, ModifyAll, BatchWrite, mem
<1>3. UNCHANGED own
  BY DEF Refresh, ModifyFirst, ModifyCheck, ModifyAll, BatchWrite, TypeOK
<1>4. \E l : Goto(p, l)
  BY DEF Refresh, ModifyFirst, ModifyCheck, ModifyAll, BatchWrite
<1>5. p \in Clients => Same(p)
  <2>1. p \in Clients => pc[p] \in SharedPCs /\ pc'[p] \in SharedPCs
    BY DEF Refresh, ModifyFirst, ModifyCheck, ModifyAll, BatchWrite, Goto, TypeOK, Done, Skipped,
           SharedPCs
  <2> QED
    BY <1>3, <2>1 DEF Same, SharedPCs, BeforePCs, KillPCs
<1>6. \A d \in Clients : Same(d)
  BY <1>3, <1>4, <1>5, OthersSame
<1> QED
  BY <1>1, <1>2, <1>6, StillHeld DEF Quiet

\* A request that changes a row only, or that is refused.
LEMMA QuietRequest ==
  ASSUME TypeOK, Refs, NEW c \in Clients, NEW t,
         \/ ExportInsert(c, t) \/ DeleteTask(c, t) \/ EditContent(c, t)
         \/ \E type \in ScheduleTypes : ConvertAuto(c, t, type)
         \/ Find(c, t) /\ pc[c] \in {"idle", "created"} /\ UNCHANGED <<obj, own>>
  PROVE  Quiet
<1> USE ClientIsThread
<1>1. UNCHANGED <<obj, queue, pool, handed, run, own>>
  BY DEF ExportInsert, DeleteTask, EditContent, ConvertAuto, Find, RowUpdate, mem, thr, wrk
<1>2. CASE UNCHANGED pc
  BY <1>1, <1>2, AllSame, UnmovedAll, StillHeld DEF Quiet
<1>3. CASE ~UNCHANGED pc
  <2>1. own[c] = 0 /\ pc[c] \in {"idle", "created"}
    BY <1>3 DEF ExportInsert, DeleteTask, EditContent, ConvertAuto, Find, RowUpdate, thr,
                 Refs, OwnIsQueue, PrivatePCs, SharedPCs
  <2>2. \E l : Goto(c, l)
    BY <1>3 DEF ExportInsert, DeleteTask, EditContent, ConvertAuto, Find, RowUpdate, thr
  <2>3. pc'[c] \in {"idle", "created", "start", "stop", "delete"}
    <3>1. CASE Find(c, t) /\ UNCHANGED <<obj, own>>
      <4>1. CASE Goto(c, "idle")
        BY <4>1, OneMoves
      <4>2. ASSUME NEW e \in Ids, own' = [own EXCEPT ![c] = e]
            PROVE  FALSE
        BY <1>1, <2>1, <4>2 DEF TypeOK, Ids
      <4> QED
        BY <3>1, <4>1, <4>2 DEF Find
    <3> QED
      BY <1>3, <3>1, OneMoves DEF ExportInsert, DeleteTask, EditContent, ConvertAuto, RowUpdate, thr
  <2>4. Same(c)
    BY <1>1, <2>1, <2>3 DEF Same, BeforePCs, KillPCs, SharedPCs
  <2> QED
    BY <1>1, <2>2, <2>4, OthersSame, UnmovedAll, StillHeld DEF Quiet
<1> QED  BY <1>2, <1>3

\* A pool thread that takes a submission, runs it and writes its row.
LEMMA QuietWorker ==
  ASSUME TypeOK, Refs, NEW w \in Workers,
         \/ \E e \in Ids : Take(w, e)
         \/ \E o \in Outcomes : Execute(w, o)
         \/ ExecuteThrows(w) \/ Commit(w) \/ Report(w)
  PROVE  Quiet
<1>1. UNCHANGED <<queue, handed, pc, own>>
  BY DEF Take, Execute, ExecuteThrows, Commit, Report, mem, thr
<1>2. \A e \in Ids : Unmoved(e) /\ (obj[e] \in Queues => obj'[e] \in Queues)
  <2>1. CASE UNCHANGED obj
    BY <1>1, <2>1, UnmovedAll
  <2>2. ASSUME NEW o \in Outcomes, Execute(w, o)
        PROVE  \A e \in Ids : Unmoved(e) /\ (obj[e] \in Queues => obj'[e] \in Queues)
    <3>1. run[w] \in Ids /\ obj[run[w]] \in Queues
      BY <2>2, RunFacts DEF Execute, Refs
    <3>2. obj'[run[w]] \in Queues /\ obj'[run[w]].task = obj[run[w]].task
          /\ obj'[run[w]].rank = obj[run[w]].rank
      <4>1. obj' = [obj EXCEPT ![run[w]].row = Ended(obj[run[w]].row, o)]
        BY <2>2 DEF Execute
      <4>2. Ended(obj[run[w]].row, o) \in Rows
        BY <3>1 DEF Ended, Queues, Rows, Statuses
      <4> QED
        BY <3>1, <4>1, <4>2 DEF TypeOK, Queues
    <3>3. \A e \in Ids \ {run[w]} : obj'[e] = obj[e]
      BY <2>2 DEF Execute, TypeOK
    <3> QED
      BY <1>1, <3>1, <3>2, <3>3, NoQueueIsNoQueue DEF Unmoved, Listed
  <2> QED
    BY <2>1, <2>2 DEF Take, ExecuteThrows, Commit, Report, mem
<1>3. \A e \in Ids : Held(e)' => Held(e)
  <2>1. CASE \E e \in Ids : Take(w, e)
    BY <2>1 DEF Take, Held, TypeOK
  <2>2. CASE UNCHANGED pool /\ \A v \in Workers : run'[v] \in {run[v], 0}
    BY <2>2 DEF Held, Ids
  <2> QED
    BY <2>1, <2>2 DEF Execute, ExecuteThrows, Commit, Report, mem, TypeOK
<1> QED
  BY <1>1, <1>2, <1>3, AllSame DEF Quiet

\* The steps of the boot that change nothing but what it knows itself.
BootReads ==
  BootLoad \/ BootAddJobs \/ (\E t \in Tasks : BootIsFull(t)) \/ BootEnqueued

LEMMA BootOnlyReads ==
  ASSUME BootReads
  PROVE  /\ UNCHANGED <<db, issued, mem, own, snap, wrk>>
         /\ Booting
         /\ UNCHANGED pc \/ \E l : Goto("boot", l)
BY DEF BootReads, BootLoad, BootAddJobs, BootIsFull, BootEnqueued, Booting

\* The monitor that looks, the boot that reads rows or has none left.
LEMMA QuietOther ==
  ASSUME TypeOK, Refs, MonitorCheck \/ BootReads \/ UNCHANGED vars
  PROVE  Quiet
<1> USE ClientIsThread, ThreadsAssumption
<1>1. UNCHANGED <<obj, queue, pool, handed, run, own>>
  BY BootOnlyReads DEF MonitorCheck, vars, mem, thr, wrk
<1>2. \A d \in Clients : Same(d)
  <2>1. CASE UNCHANGED vars
    BY <2>1 DEF vars, thr, Same
  <2>2. CASE MonitorCheck
    BY <1>1, <2>2, OthersSame DEF MonitorCheck
  <2>3. CASE BootReads
    <3>1. CASE UNCHANGED pc
      BY <1>1, <3>1, AllSame
    <3> QED  BY <1>1, <2>3, <3>1, BootOnlyReads, OthersSame
  <2> QED  BY <2>1, <2>2, <2>3
<1> QED
  BY <1>1, <1>2, UnmovedAll, StillHeld DEF Quiet
-----------------------------------------------------------------------------
\* Steps that take an entry out of the list.

\* Taking out the element at a position takes no other value.
LEMMA RemoveAtKeeps ==
  ASSUME NEW S, NEW s \in Seq(S), NEW i \in 1 .. Len(s)
  PROVE  Range(s) \ {s[i]} \subseteq Range(RemoveAt(s, i))
<1> DEFINE a == SubSeq(s, 1, i - 1)
           b == SubSeq(s, i + 1, Len(s))
           r == a \o b
<1>1. a \in Seq(S) /\ Len(a) = i - 1 /\ \A k \in 1 .. i - 1 : a[k] = s[k]
  OBVIOUS
<1>2. b \in Seq(S) /\ Len(b) = Len(s) - i /\ \A k \in 1 .. Len(s) - i : b[k] = s[k + i]
  OBVIOUS
<1>3. RemoveAt(s, i) = r
  BY DEF RemoveAt
<1> HIDE DEF a, b
<1>4. /\ r \in Seq(S) /\ Len(r) = Len(s) - 1
      /\ \A k \in 1 .. Len(s) - 1 : r[k] = IF k <= i - 1 THEN a[k] ELSE b[k - (i - 1)]
  <2>1. /\ r \in Seq(S) /\ Len(r) = Len(a) + Len(b)
        /\ \A k \in 1 .. Len(a) + Len(b) : r[k] = IF k <= Len(a) THEN a[k] ELSE b[k - Len(a)]
    BY <1>1, <1>2, ConcatProperties, Zenon
  <2>2. Len(a) = i - 1 /\ Len(a) + Len(b) = Len(s) - 1
    BY <1>1, <1>2
  <2> HIDE DEF r
  <2> QED  BY <2>1, <2>2
<1> HIDE DEF r
<1>5. ASSUME NEW j \in 1 .. Len(s), j # i
      PROVE  s[j] \in Range(r)
  <2>1. DOMAIN r = 1 .. Len(s) - 1
    BY <1>4
  <2>2. CASE j < i
    <3>1. j \in 1 .. Len(s) - 1 /\ j \in 1 .. i - 1 /\ j <= i - 1
      BY <2>2
    <3>2. r[j] = a[j] /\ a[j] = s[j]
      BY <1>1, <1>4, <3>1
    <3> QED  BY <2>1, <3>1, <3>2 DEF Range
  <2>3. CASE j > i
    <3>1. j - 1 \in 1 .. Len(s) - 1 /\ j - i \in 1 .. Len(s) - i /\ ~(j - 1 <= i - 1)
      BY <2>3
    <3>2. j - 1 - (i - 1) = j - i /\ j - i + i = j
      OBVIOUS
    <3>3. r[j - 1] = b[j - i]
      BY <1>4, <3>1, <3>2
    <3>4. b[j - i] = s[j]
      BY <1>2, <3>1, <3>2
    <3> QED  BY <2>1, <3>1, <3>3, <3>4 DEF Range
  <2> QED  BY <1>5, <2>2, <2>3
<1>6. \A v \in Range(s) : \E j \in 1 .. Len(s) : v = s[j]
  BY DEF Range
<1> QED  BY <1>3, <1>5, <1>6

\* TaskQueue.remove takes out one entry at most.
LEMMA WithoutTakesOne ==
  ASSUME TypeOK, NEW t, queue' = Without(t)
  PROVE  Listed' = Listed \/ \E x \in Listed : obj[x].task = t /\ Listed' = Listed \ {x}
<1> DEFINE I == {i \in 1 .. Len(queue) : obj[queue[i]].task = t}
<1>0. queue \in Seq(Ids)
  BY DEF TypeOK
<1>1. CASE I = {}
  <2>1. Without(t) = queue
    BY <1>1 DEF Without, RemoveFirstMatch
  <2> QED  BY <2>1 DEF Listed
<1>2. CASE I # {}
  <2>1. Without(t) = RemoveAt(queue, Min(I))
    BY <1>2 DEF Without, RemoveFirstMatch, SelectInSeq
  <2>2. Min(I) \in I /\ Min(I) \in 1 .. Len(queue)
    <3>1. I \in SUBSET (1 .. Len(queue)) /\ Len(queue) \in Nat
      BY <1>0
    <3> HIDE DEF I
    <3> QED  BY <1>2, <3>1, MinMaxOfIndices
  <2> DEFINE m == Min(I)
  <2>3. obj[queue[m]].task = t
    BY <2>2
  <2> HIDE DEF I, m
  <2>4. Listed \ {queue[m]} \subseteq Listed' /\ Listed' \subseteq Listed /\ queue[m] \in Listed
    <3>1. m \in 1 .. Len(queue) /\ queue' = RemoveAt(queue, m)
      BY <2>1, <2>2 DEF m
    <3>2. Range(queue) \ {queue[m]} \subseteq Range(RemoveAt(queue, m))
      BY <1>0, <3>1, RemoveAtKeeps
    <3>3. Range(RemoveAt(queue, m)) \subseteq Range(queue)
      BY <1>0, <3>1, RemoveAtShrinks
    <3>4. queue[m] \in Range(queue)
      BY <1>0, <3>1 DEF Range
    <3> QED  BY <3>1, <3>2, <3>3, <3>4 DEF Listed
  <2> QED  BY <2>3, <2>4
<1> QED  BY <1>1, <1>2

\* Whoever is taken out of the list and was not handed to the pool is withdrawn,
\* unless the thread that added it still has to submit it.
LEMMA RemovalMaps ==
  ASSUME TypeOK, Refs, NEW t, queue' = Without(t), UNCHANGED handed,
         NEW k, k \notin Listed, k \in Ids => LifeOf(k)' = LifeOf(k),
         \A e \in Ids \ {k} : obj'[e] = obj[e],
         \A c \in Clients : Same(c) \/ (own[c] \in {k, 0} /\ own'[c] \in {k, 0})
  PROVE  lives' = lives \/ \E x \in Ids : Life!Withdraw(x)
<1>1. ASSUME NEW e \in Ids, e \in Listed' <=> e \in Listed
      PROVE  LifeOf(e)' = LifeOf(e)
  <2>1. CASE e = k
    BY <2>1
  <2>2. CASE e # k
    <3>1. Unmoved(e)
      BY <1>1, <2>2 DEF Unmoved
    <3>2. \A c \in Clients : own[c] = e \/ own'[c] = e => Same(c)
      BY <2>2 DEF Ids
    <3> QED  BY <3>1, <3>2, LifeKept
  <2> QED  BY <2>1, <2>2
<1>2. CASE Listed' = Listed
  BY <1>1, <1>2, StutterMaps
<1>3. ASSUME NEW x \in Listed, Listed' = Listed \ {x}
      PROVE  lives' = lives \/ Life!Withdraw(x)
  <2>1. x \in Ids /\ x # k /\ obj'[x] = obj[x] /\ obj[x] \in Queues /\ x \notin Listed'
        /\ obj[x].task \in Tasks /\ obj[x].rank \in Int /\ obj[x] # NoQueue
    <3>1. x \in Ids /\ x # k
      BY <1>3, RangeType
    <3>2. obj[x] \in Queues
      BY <1>3 DEF Refs, ListedAreQueues
    <3>3. obj[x].task \in Tasks /\ obj[x].rank \in Int
      BY <3>2 DEF Queues
    <3> QED  BY <1>3, <3>1, <3>2, <3>3, NoQueueIsNoQueue
  <2>2. \A e \in Ids \ {x} : LifeOf(e)' = LifeOf(e)
    BY <1>1, <1>3
  <2>3. \A c \in Clients : own[c] = x \/ own'[c] = x => Same(c) /\ own[c] = x
    BY <2>1 DEF Same, Ids
  <2>4. ~Before(x) /\ ~Killing(x)
    BY <1>3 DEF Before, Killing, Refs, OwnIsPrivate, PrivatePCs, BeforePCs
  <2>5. ~Before(x)' /\ ~Killing(x)'
    BY <2>3, <2>4 DEF Before, Killing, Same, KillPCs
  <2>6. Alive(x) /\ Alive(x)' /\ Attended(x)
    BY <1>3, <2>1, <2>4, <2>5 DEF Alive, Attended
  <2>7. CASE x \in handed
    <3>1. LifeOf(x)' = LifeOf(x)
      BY <2>1, <2>6, <2>7 DEF LifeOf
    <3> QED  BY <2>2, <3>1, StutterMaps
  <2>8. CASE x \notin handed /\ obj[x].rank # 0
    <3>1. LifeOf(x) = Place(obj[x].task, "waiting", obj[x].rank)
      BY <1>3, <2>1, <2>4, <2>6, <2>8, LifeCases
    <3>2. LifeOf(x)' = Place(obj[x].task, "withdrawn", 0)
      BY <1>3, <2>1, <2>5, <2>6, <2>8 DEF LifeOf, Place
    <3> QED  BY <2>1, <2>2, <3>1, <3>2, WithdrawMaps
  <2>9. CASE x \notin handed /\ obj[x].rank = 0
    <3>1. LifeOf(x) = Place(obj[x].task, "turn", 0)
      BY <1>3, <2>1, <2>4, <2>6, <2>9, LifeCases
    <3>2. CASE Attended(x)'
      <4>1. LifeOf(x)' = Place(obj[x].task, "turn", 0)
        BY <1>3, <2>1, <2>5, <2>6, <2>9, <3>2 DEF LifeOf, Place
      <4>2. \A e \in Ids : LifeOf(e)' = LifeOf(e)
        BY <2>2, <3>1, <4>1
      <4> QED  BY <4>2, StutterMaps
    <3>3. CASE ~Attended(x)'
      <4>1. LifeOf(x)' = Place(obj[x].task, "withdrawn", 0)
        BY <1>3, <2>1, <2>5, <2>6, <2>9, <3>3 DEF LifeOf, Place
      <4>2. 0 \in Int
        OBVIOUS
      <4> QED  BY <2>1, <2>2, <3>1, <4>1, <4>2, WithdrawMaps
    <3> QED  BY <3>2, <3>3
  <2> QED  BY <2>7, <2>8, <2>9
<1>4. \A x \in Listed : x \in Ids
  BY RangeType
<1> QED  BY <1>2, <1>3, <1>4, WithoutTakesOne

\* What was handed over is left as it is.
LEMMA HandedKept ==
  ASSUME TypeOK, HandedInv, UNCHANGED handed, \A e \in Ids : Held(e)' => Held(e),
         \A e \in handed : obj'[e] = obj[e],
         \A c \in Clients : pc'[c] \in PrivatePCs => pc[c] \in PrivatePCs /\ own'[c] = own[c]
  PROVE  HandedInv'
  BY DEF HandedInv

LEMMA VipRemoveMaps ==
  ASSUME TypeOK, Refs, HandedInv, NEW c \in Clients, VipRemove(c)
  PROVE  HandedInv' /\ (lives' = lives \/ \E x \in Ids : Life!Withdraw(x))
<1> USE ClientIsThread
<1>1. UNCHANGED <<obj, pool, handed, run, own>> /\ Goto(c, "vipSubmit") /\ pc[c] = "vipRemove"
  BY DEF VipRemove, wrk
<1>2. \A d \in Clients : Same(d)
  <2>1. Same(c)
    BY <1>1, OneMoves DEF Same, BeforePCs, KillPCs, SharedPCs
  <2> QED  BY <1>1, <2>1, OthersSame
<1>3. HandedInv'
  <2>1. \A d \in Clients : pc'[d] \in PrivatePCs => pc[d] \in PrivatePCs /\ own'[d] = own[d]
    BY <1>2 DEF Same, PrivatePCs, BeforePCs, KillPCs
  <2> QED  BY <1>1, <2>1, StillHeld, HandedKept
<1>4. 0 \notin Listed /\ 0 \notin Ids
  BY RangeType DEF Ids
<1> QED
  BY <1>1, <1>2, <1>3, <1>4, RemovalMaps DEF VipRemove

LEMMA LeaveMaps ==
  ASSUME TypeOK, Refs, HandedInv, NEW w \in Workers, Leave(w)
  PROVE  HandedInv' /\ (lives' = lives \/ \E x \in Ids : Life!Withdraw(x))
<1>1. UNCHANGED <<obj, pool, handed, own, pc>> /\ \A v \in Workers : run'[v] \in {run[v], 0}
  BY DEF Leave, thr, TypeOK
<1>2. \A d \in Clients : Same(d)
  BY <1>1, AllSame
<1>3. HandedInv'
  <2>1. \A e \in Ids : Held(e)' => Held(e)
    BY <1>1 DEF Held, Ids
  <2> QED  BY <1>1, <2>1, HandedKept
<1>4. 0 \notin Listed /\ 0 \notin Ids
  BY RangeType DEF Ids
<1> QED
  BY <1>1, <1>2, <1>3, <1>4, RemovalMaps DEF Leave

\* The object of a kill is forgotten: it never was an execution.
LEMMA KillRemoveMaps ==
  ASSUME TypeOK, Refs, HandedInv, NEW c \in Clients, KillRemove(c)
  PROVE  HandedInv' /\ (lives' = lives \/ \E x \in Ids : Life!Withdraw(x))
<1> USE ClientIsThread
<1>0. PICK k \in Ids : k = own[c]
  BY OwnFacts DEF KillRemove, PrivatePCs, Refs
<1>1. UNCHANGED <<pool, handed, run>> /\ Goto(c, "idle") /\ pc[c] = "killRemove"
      /\ own' = [own EXCEPT ![c] = 0] /\ obj' = [obj EXCEPT ![k] = NoQueue]
  BY <1>0 DEF KillRemove, wrk
<1>2. k \in Ids /\ k \notin Listed /\ k \notin handed
  BY <1>0, <1>1 DEF PrivatePCs, Refs, OwnIsPrivate, HandedInv
<1>3. pc'[c] = "idle" /\ own'[c] = 0
  BY <1>1, OneMoves DEF TypeOK
<1>4. \A d \in Clients \ {c} : Same(d)
  BY <1>1, OthersSame DEF TypeOK
<1>5. \A e \in Ids \ {k} : obj'[e] = obj[e]
  BY <1>1 DEF TypeOK
<1>6. HandedInv'
  <2>1. \A e \in handed : obj'[e] = obj[e]
    BY <1>2, <1>5 DEF TypeOK
  <2>2. \A d \in Clients : pc'[d] \in PrivatePCs => pc[d] \in PrivatePCs /\ own'[d] = own[d]
    BY <1>3, <1>4 DEF Same, PrivatePCs, BeforePCs, KillPCs
  <2> QED  BY <1>1, <2>1, <2>2, StillHeld, HandedKept
<1>7. LifeOf(k)' = LifeOf(k)
  <2>1. ~Alive(k)
    BY <1>0, <1>1, <1>2, OwnerOf DEF Alive, KillPCs
  <2>2. LifeOf(k) = Nil
    BY <1>2, <2>1, LifeCases
  <2>3. obj'[k] = NoQueue
    BY <1>1, <1>2 DEF TypeOK
  <2>4. LifeOf(k)' = Nil
    BY <2>3 DEF LifeOf, Alive, Nil
  <2> QED  BY <2>2, <2>4
<1>8. \A d \in Clients : Same(d) \/ (own[d] \in {k, 0} /\ own'[d] \in {k, 0})
  BY <1>0, <1>3, <1>4
<1>9. lives' = lives \/ \E x \in Ids : Life!Withdraw(x)
  BY <1>1, <1>2, <1>5, <1>7, <1>8, RemovalMaps DEF KillRemove
<1> QED
  BY <1>6, <1>9
-----------------------------------------------------------------------------
\* Steps that make an object.

\* Nobody knows an object before it is made.
LEMMA FreshFacts ==
  ASSUME Refs, HandedInv, NEW x \in Ids, obj[x] = NoQueue
  PROVE  /\ x \notin Listed /\ x \notin handed /\ ~Held(x)
         /\ \A c \in Clients : own[c] # x
         /\ LifeOf(x) = Nil
<1>1. obj[x] \notin Queues
  BY NoQueueIsNoQueue
<1>2. \A c \in Clients : own[c] # x
  BY <1>1 DEF Refs, OwnIsQueue, Ids
<1>3. ~Alive(x)
  BY DEF Alive
<1> QED
  BY <1>1, <1>2, <1>3, LifeCases DEF Refs, ListedAreQueues, HeldAreReady, HandedInv

\* One object changes and, with it, at most who owns it.
LEMMA OthersLive ==
  ASSUME NEW x \in Ids, \A e \in Ids \ {x} : Unmoved(e),
         \A c \in Clients : Same(c) \/ (own[c] \in {x, 0} /\ own'[c] \in {x, 0})
  PROVE  \A e \in Ids \ {x} : LifeOf(e)' = LifeOf(e)
<1> SUFFICES ASSUME NEW e \in Ids \ {x}
             PROVE  LifeOf(e)' = LifeOf(e)
  OBVIOUS
<1>1. e \in Ids /\ e # x /\ e # 0
  BY DEF Ids
<1>2. \A c \in Clients : own[c] = e \/ own'[c] = e => Same(c)
  BY <1>1
<1> QED
  BY <1>1, <1>2, LifeKept

\* A request that is accepted makes an execution; a kill does not.
LEMMA RequestMaps ==
  ASSUME TypeOK, Refs, HandedInv, NEW c \in Clients, NEW x \in Ids, NEW q \in Queues, NEW l,
         pc[c] \notin PrivatePCs \cup SharedPCs, obj[x] = NoQueue,
         obj' = [obj EXCEPT ![x] = q], own' = [own EXCEPT ![c] = x], Goto(c, l),
         UNCHANGED <<queue, pool, run, handed>>
  PROVE  /\ HandedInv'
         /\ l \in BeforePCs => Life!Make(x)
         /\ l \in KillPCs => lives' = lives
<1> USE ClientIsThread
<1>1. /\ x \notin Listed /\ x \notin handed /\ ~Held(x)
      /\ \A d \in Clients : own[d] # x
      /\ LifeOf(x) = Nil
  BY FreshFacts
<1>2. pc'[c] = l /\ own'[c] = x /\ obj'[x] = q /\ q # NoQueue /\ own[c] = 0
  <2>1. pc'[c] = l
    BY OneMoves
  <2>2. own[c] = 0
    BY DEF Refs, OwnIsQueue
  <2> QED  BY <2>1, <2>2, NoQueueIsNoQueue DEF TypeOK
<1>3. \A d \in Clients \ {c} : Same(d)
  BY OthersSame DEF TypeOK
<1>4. \A e \in Ids \ {x} : Unmoved(e) /\ obj'[e] = obj[e]
  BY DEF Unmoved, Listed, TypeOK
<1>5. \A e \in Ids \ {x} : LifeOf(e)' = LifeOf(e)
  BY <1>2, <1>3, <1>4, OthersLive
<1>6. HandedInv'
  <2>1. \A e \in handed : obj'[e] = obj[e]
    BY <1>1, <1>4 DEF TypeOK
  <2>2. \A d \in Clients \ {c} : pc'[d] \in PrivatePCs => pc[d] \in PrivatePCs /\ own'[d] = own[d]
    BY <1>3 DEF Same, PrivatePCs, BeforePCs, KillPCs
  <2> QED  BY <1>1, <1>2, <2>1, <2>2, StillHeld DEF HandedInv
<1>7. ASSUME l \in BeforePCs
      PROVE  Life!Make(x)
  <2>1. Before(x)'
    BY <1>2, <1>7 DEF Before
  <2>2. ~Killing(x)'
    BY <1>1, <1>2, <1>3, <1>7 DEF Killing, Same, BeforePCs
  <2>3. Alive(x)'
    BY <1>2, <2>2 DEF Alive
  <2>4. LifeOf(x)' = Place(q.task, "made", 0)
    BY <1>1, <1>2, <2>1, <2>3 DEF LifeOf, Place
  <2>5. q.task \in Tasks
    BY DEF Queues
  <2> QED  BY <1>1, <1>5, <2>4, <2>5, MakeMaps
<1>8. ASSUME l \in KillPCs
      PROVE  lives' = lives
  <2>1. Killing(x)'
    BY <1>2, <1>8 DEF Killing, KillPCs
  <2>2. LifeOf(x)' = Nil
    BY <2>1 DEF LifeOf, Alive, Nil
  <2>3. \A e \in Ids : LifeOf(e)' = LifeOf(e)
    BY <1>1, <1>5, <2>2
  <2> QED  BY <2>3, StutterMaps
<1> QED  BY <1>6, <1>7, <1>8

LEMMA FindMaps ==
  ASSUME TypeOK, Refs, HandedInv, NEW c \in Clients, NEW t \in Tasks, Find(c, t),
         pc[c] \in {"idle", "created"}
  PROVE  HandedInv' /\ (lives' = lives \/ \E x \in Ids : Life!Make(x))
<1>1. CASE UNCHANGED <<obj, own>>
  BY <1>1, QuietRequest, QuietSteps
<1>2. CASE ~UNCHANGED <<obj, own>>
  <2>1. PICK x \in Ids :
          /\ CallFresh(x)
          /\ obj' = [obj EXCEPT ![x] = Entry(t, Started(db[t]), 0, "Running", TASK_COMMON)]
          /\ own' = [own EXCEPT ![c] = x]
          /\ Goto(c, "write")
    BY <1>2 DEF Find
  <2>2. db[t] # NoRow
    BY <1>2 DEF Find
  <2>3. Entry(t, Started(db[t]), 0, "Running", TASK_COMMON) \in Queues
    BY <2>2, MadeByRequest
  <2>4. pc[c] \notin PrivatePCs \cup SharedPCs /\ "write" \in BeforePCs
    BY DEF PrivatePCs, SharedPCs, BeforePCs
  <2>5. obj[x] = NoQueue /\ UNCHANGED <<queue, pool, run, handed>>
    BY <2>1 DEF CallFresh, Fresh, Find, wrk
  <2> QED  BY <2>1, <2>3, <2>4, <2>5, RequestMaps
<1> QED  BY <1>1, <1>2

LEMMA VipFindMaps ==
  ASSUME TypeOK, Refs, HandedInv, NEW c \in Clients, NEW t \in Tasks, VipFind(c, t)
  PROVE  HandedInv' /\ \E x \in Ids : Life!Make(x)
<1>1. PICK x \in Ids :
        /\ CallFresh(x)
        /\ obj' = [obj EXCEPT ![x] = Entry(t, Started(db[t]), 0, "Running", TASK_VIP)]
        /\ own' = [own EXCEPT ![c] = x]
  BY DEF VipFind
<1>2. Entry(t, Started(db[t]), 0, "Running", TASK_VIP) \in Queues
  BY MadeByRequest DEF VipFind
<1>3. pc[c] \notin PrivatePCs \cup SharedPCs /\ "vipWrite" \in BeforePCs
  BY DEF VipFind, PrivatePCs, SharedPCs, BeforePCs
<1>4. obj[x] = NoQueue /\ UNCHANGED <<queue, pool, run, handed>> /\ Goto(c, "vipWrite")
  BY <1>1 DEF CallFresh, Fresh, VipFind, wrk
<1> QED  BY <1>1, <1>2, <1>3, <1>4, RequestMaps

LEMMA KillFindMaps ==
  ASSUME TypeOK, Refs, HandedInv, NEW c \in Clients, NEW t \in Tasks, KillFind(c, t)
  PROVE  HandedInv' /\ lives' = lives
<1>1. PICK x \in Ids :
        /\ CallFresh(x)
        /\ obj' = [obj EXCEPT ![x] = Entry(t, [db[t] EXCEPT !.status = "Stop"],
                                           0, "Stop", TASK_COMMON)]
        /\ own' = [own EXCEPT ![c] = x]
  BY DEF KillFind
<1>2. Entry(t, [db[t] EXCEPT !.status = "Stop"], 0, "Stop", TASK_COMMON) \in Queues
  BY MadeByRequest DEF KillFind
<1>3. pc[c] \notin PrivatePCs \cup SharedPCs /\ "killWrite" \in KillPCs
  BY DEF KillFind, PrivatePCs, SharedPCs, KillPCs
<1>4. obj[x] = NoQueue /\ UNCHANGED <<queue, pool, run, handed>> /\ Goto(c, "killWrite")
  BY <1>1 DEF CallFresh, Fresh, KillFind, wrk
<1> QED  BY <1>1, <1>2, <1>3, <1>4, RequestMaps

\* The boot makes an object and puts it in the list at once.
LEMMA EnqueueMaps ==
  ASSUME TypeOK, Refs, HandedInv, NEW t \in Tasks, BootEnqueue(t)
  PROVE  HandedInv' /\ \E x \in Ids : Life!Enter(x)
<1>1. PICK x \in Ids :
        /\ Fresh(x)
        /\ obj' = [obj EXCEPT ![x] =
                     IF loading.full
                     THEN Entry(t, loading.rows[t], getRank(loading.done), "Queue", TASK_COMMON)
                     ELSE Entry(t, loading.rows[t], 0, "Running", TASK_COMMON)]
        /\ queue' = Append(queue, x)
  BY DEF BootEnqueue
<1>2. UNCHANGED <<pool, handed, run, own, pc>>
  BY DEF BootEnqueue, wrk
<1>3. /\ x \notin Listed /\ x \notin handed /\ ~Held(x)
      /\ \A d \in Clients : own[d] # x
      /\ LifeOf(x) = Nil
  BY <1>1, FreshFacts DEF Fresh
<1>4. Listed' = Listed \cup {x}
  BY <1>1, RangeOfAppend DEF TypeOK, Listed
<1>5. \A e \in Ids \ {x} : obj'[e] = obj[e]
  BY <1>1 DEF TypeOK
<1>6. \A e \in Ids \ {x} : Unmoved(e)
  BY <1>2, <1>4, <1>5 DEF Unmoved
<1>7. \A d \in Clients : Same(d)
  BY <1>2, AllSame
<1>8. \A e \in Ids \ {x} : LifeOf(e)' = LifeOf(e)
  BY <1>6, <1>7, OthersLive
<1>9. obj'[x].task = t /\ obj'[x] # NoQueue /\ obj'[x].rank \in Int
  <2>1. getRank(loading.done) \in Int
    BY BoundsAssumption DEF getRank, TypeOK, Loadings
  <2>2. obj'[x] = IF loading.full
                  THEN Entry(t, loading.rows[t], getRank(loading.done), "Queue", TASK_COMMON)
                  ELSE Entry(t, loading.rows[t], 0, "Running", TASK_COMMON)
    BY <1>1 DEF TypeOK
  <2>3. obj'[x].task = t /\ obj'[x].rank \in Int /\ obj'[x].status \in {"Queue", "Running"}
    BY <2>1, <2>2 DEF Entry
  <2>4. NoQueue.status = "Absent"
    BY DEF NoQueue
  <2> QED  BY <2>3, <2>4
<1>10. ~Before(x)' /\ ~Killing(x)'
  BY <1>2, <1>3 DEF Before, Killing
<1>11. LifeOf(x)' = IF obj'[x].rank = 0 THEN Place(t, "turn", 0)
                    ELSE Place(t, "waiting", obj'[x].rank)
  <2>1. Alive(x)' /\ Attended(x)'
    BY <1>4, <1>9, <1>10 DEF Alive, Attended
  <2> QED  BY <1>2, <1>3, <1>4, <1>9, <1>10, <2>1 DEF LifeOf, Place
<1>12. Life!Enter(x)
  <2>1. PICK r \in Int : r = obj'[x].rank
    BY <1>9
  <2>2. LifeOf(x)' = IF r = 0 THEN Place(t, "turn", 0) ELSE Place(t, "waiting", r)
    BY <1>11, <2>1
  <2> QED  BY <1>3, <1>8, <2>2, EnterMaps
<1>13. HandedInv'
  <2>1. \A e \in handed : obj'[e] = obj[e]
    BY <1>3, <1>5 DEF TypeOK
  <2> QED  BY <1>2, <2>1, StillHeld, HandedKept
<1> QED  BY <1>12, <1>13
-----------------------------------------------------------------------------
\* Steps of a client on its own object.

\* A place is given to an execution that is not in the line yet.
LEMMA RankMaps ==
  ASSUME TypeOK, Refs, HandedInv, NEW c \in Clients, PrivateRank(c)
  PROVE  HandedInv' /\ lives' = lives
<1> USE ClientIsThread
<1>0. PICK x \in Ids : x = own[c]
  BY OwnFacts DEF PrivateRank, PrivatePCs, Refs
<1>1. UNCHANGED <<queue, pool, handed, run, own>> /\ Goto(c, "add") /\ pc[c] = "rank"
      /\ obj' = [obj EXCEPT ![x].rank = getPrivateRank, ![x].status = "Queue"]
  BY <1>0 DEF PrivateRank, wrk
<1>2. x \notin handed /\ obj[x] \in Queues
  BY <1>0, <1>1, OwnFacts DEF PrivatePCs, HandedInv, Refs
<1>3. \A e \in Ids \ {x} : obj'[e] = obj[e]
  BY <1>1 DEF TypeOK
<1>4. \A d \in Clients : Same(d)
  <2>1. Same(c)
    BY <1>1, OneMoves DEF Same, BeforePCs, KillPCs, SharedPCs
  <2> QED  BY <1>1, <2>1, OthersSame
<1>5. HandedInv'
  <2>1. \A e \in handed : obj'[e] = obj[e]
    BY <1>2, <1>3 DEF TypeOK
  <2>2. \A d \in Clients : pc'[d] \in PrivatePCs => pc[d] \in PrivatePCs /\ own'[d] = own[d]
    BY <1>4 DEF Same, PrivatePCs, BeforePCs, KillPCs
  <2> QED  BY <1>1, <2>1, <2>2, StillHeld, HandedKept
<1>6. obj'[x].task = obj[x].task /\ obj'[x] # NoQueue /\ obj[x] # NoQueue
  <2>1. obj'[x] = MovedTo(obj[x], getPrivateRank, "Queue")
    BY <1>1, <1>2 DEF TypeOK, MovedTo
  <2>2. getPrivateRank \in Int /\ "Queue" \in Statuses
    BY BoundsAssumption DEF getPrivateRank, TypeOK, Statuses
  <2>3. MovedTo(obj[x], getPrivateRank, "Queue") \in Queues
        /\ MovedTo(obj[x], getPrivateRank, "Queue").task = obj[x].task
    BY <1>2, <2>2, Moved, Zenon
  <2>4. obj'[x] \in Queues /\ obj'[x].task = obj[x].task
    BY <2>1, <2>3, Zenon
  <2> QED  BY <1>2, <2>4, NoQueueIsNoQueue
<1>7. LifeOf(x)' = LifeOf(x)
  <2>1. Before(x) /\ ~Killing(x)
    BY <1>0, <1>1, OwnerOf DEF BeforePCs, KillPCs
  <2>2. Before(x)' /\ ~Killing(x)'
    BY <1>4, <2>1 DEF Before, Killing, Same, KillPCs
  <2> QED  BY <1>1, <1>2, <1>6, <2>1, <2>2 DEF LifeOf, Alive
<1>8. \A e \in Ids \ {x} : Unmoved(e)
  BY <1>1, <1>3 DEF Unmoved, Listed
<1>9. \A e \in Ids : LifeOf(e)' = LifeOf(e)
  BY <1>4, <1>7, <1>8, OthersLive
<1> QED  BY <1>5, <1>9, StutterMaps

\* It joins the line with the place it was given, or with its turn.
LEMMA AddMaps ==
  ASSUME TypeOK, Refs, HandedInv, NEW c \in Clients, PrivateAdd(c)
  PROVE  HandedInv' /\ \E x \in Ids : Life!Enter(x)
<1> USE ClientIsThread
<1>0. PICK x \in Ids : x = own[c]
  BY OwnFacts DEF PrivateAdd, PrivatePCs, Refs
<1>1. UNCHANGED <<obj, pool, handed, run, own>> /\ Goto(c, "first") /\ pc[c] = "add"
      /\ queue' = Append(queue, x)
  BY <1>0 DEF PrivateAdd, wrk
<1>2. x \notin handed /\ obj[x] \in Queues /\ pc'[c] = "first"
  BY <1>0, <1>1, OwnFacts, OneMoves DEF PrivatePCs, HandedInv, Refs
<1>3. Listed' = Listed \cup {x}
  BY <1>1, RangeOfAppend DEF TypeOK, Listed
<1>4. \A d \in Clients \ {c} : Same(d)
  BY <1>1, OthersSame
<1>5. HandedInv'
  <2>1. \A d \in Clients : pc'[d] \in PrivatePCs => pc[d] \in PrivatePCs /\ own'[d] = own[d]
    BY <1>1, <1>2, <1>4 DEF Same, PrivatePCs, BeforePCs, KillPCs
  <2> QED  BY <1>1, <2>1, StillHeld, HandedKept
<1>6. \A e \in Ids \ {x} : Unmoved(e)
  BY <1>1, <1>3 DEF Unmoved
<1>7. \A e \in Ids \ {x} : LifeOf(e)' = LifeOf(e)
  BY <1>0, <1>1, <1>4, <1>6, OthersLive
<1>8. Before(x) /\ ~Killing(x) /\ obj[x] # NoQueue
  BY <1>0, <1>1, <1>2, OwnerOf, NoQueueIsNoQueue DEF BeforePCs, KillPCs
<1>9. LifeOf(x) = Place(obj[x].task, "made", 0)
  BY <1>2, <1>8, LifeCases DEF Alive
<1>10. ~Before(x)' /\ ~Killing(x)'
  <2>1. \A d \in Clients : own'[d] = x => d = c
    BY <1>0, <1>1 DEF Refs, OwnIsPrivate, Ids
  <2> QED  BY <1>2, <2>1 DEF Before, Killing, BeforePCs
<1>11. LifeOf(x)' = IF obj[x].rank = 0 THEN Place(obj[x].task, "turn", 0)
                    ELSE Place(obj[x].task, "waiting", obj[x].rank)
  <2>1. Alive(x)' /\ Attended(x)'
    BY <1>1, <1>3, <1>8, <1>10 DEF Alive, Attended
  <2> QED  BY <1>1, <1>2, <1>3, <1>10, <2>1 DEF LifeOf, Place
<1>12. obj[x].task \in Tasks /\ obj[x].rank \in Int
  BY <1>2 DEF Queues
<1>13. Life!Enter(x)
  BY <1>7, <1>9, <1>11, <1>12, EnterMaps
<1> QED  BY <1>5, <1>13

\* What the pool is given has started.
LEMMA HandOverMaps ==
  ASSUME TypeOK, Refs, HandedInv, NEW c \in Clients, NEW x \in Ids, x = own[c],
         pc[c] \in {"submit", "vipSubmit"}, obj[x].rank = 0, Submit(x),
         own' = [own EXCEPT ![c] = 0], Goto(c, "idle"), UNCHANGED <<obj, queue, run>>
  PROVE  HandedInv' /\ (lives' = lives \/ \E S \in SUBSET Ids : Life!Start(S))
<1> USE ClientIsThread
<1>1. handed' = handed \cup {x} /\ SubmitAll({x})
  BY DEF Submit, SubmitAll
<1>2. pc'[c] = "idle" /\ own'[c] = 0
  BY OneMoves DEF TypeOK
<1>3. \A d \in Clients \ {c} : Same(d)
  BY OthersSame DEF TypeOK
<1>4. pc[c] \in PrivatePCs \cup SharedPCs /\ obj[x] \in Queues
  BY OwnFacts DEF PrivatePCs, SharedPCs, Refs
<1>5. HandedInv'
  <2>1. \A e \in Ids : Held(e)' => e \in handed'
    BY <1>1, HeldAfterSubmit DEF HandedInv
  <2>2. \A e \in handed' : obj'[e] \in Queues /\ obj'[e].rank = 0
    BY <1>1, <1>4 DEF HandedInv
  <2>3. ASSUME NEW d \in Clients, pc'[d] \in PrivatePCs
        PROVE  own'[d] \notin handed'
    <3>1. d # c
      BY <1>2, <2>3 DEF PrivatePCs
    <3>2. pc[d] \in PrivatePCs /\ own'[d] = own[d]
      BY <1>3, <2>3, <3>1 DEF Same, PrivatePCs, BeforePCs, KillPCs
    <3>3. own[d] # x
      BY <1>4, <3>1, OthersOwn
    <3> QED  BY <1>1, <3>2, <3>3 DEF HandedInv
  <2> QED  BY <2>1, <2>2, <2>3 DEF HandedInv
<1>6. \A e \in Ids \ {x} : Unmoved(e)
  BY <1>1 DEF Unmoved, Listed
<1>7. \A e \in Ids \ {x} : LifeOf(e)' = LifeOf(e)
  BY <1>2, <1>3, <1>6, OthersLive
<1>8. ~Killing(x) /\ ~Killing(x)' /\ obj[x] # NoQueue
  <2>1. ~Killing(x)
    BY OwnerOf DEF KillPCs
  <2>2. ~Killing(x)'
    BY <1>2, <1>3, <2>1 DEF Killing, Same, KillPCs, Ids
  <2> QED  BY <1>4, <2>1, <2>2, NoQueueIsNoQueue
<1>9. LifeOf(x)' = Place(obj[x].task, "started", 0)
  BY <1>1, <1>8 DEF LifeOf, Alive, Place
<1>10. CASE x \in handed
  <2>1. LifeOf(x) = Place(obj[x].task, "started", 0)
    BY <1>8, <1>10, LifeCases DEF Alive
  <2>2. \A e \in Ids : LifeOf(e)' = LifeOf(e)
    BY <1>7, <1>9, <2>1
  <2> QED  BY <1>5, <2>2, StutterMaps
<1>11. CASE x \notin handed
  <2>1. LifeOf(x) \in {Place(obj[x].task, "made", 0), Place(obj[x].task, "turn", 0)}
    <3>1. CASE pc[c] = "vipSubmit"
      <4>1. Before(x)
        BY <3>1, OwnerOf DEF BeforePCs
      <4> QED  BY <1>8, <1>11, <4>1, LifeCases DEF Alive
    <3>2. CASE pc[c] = "submit"
      <4>1. ~Before(x) /\ Attended(x)
        BY <3>2, OwnerOf DEF BeforePCs, Attended, SharedPCs
      <4> QED  BY <1>8, <1>11, <4>1, LifeCases DEF Alive
    <3> QED  BY <3>1, <3>2
  <2>2. obj[x].task \in Tasks /\ {x} \in SUBSET Ids
    BY <1>4 DEF Queues
  <2>3. Life!Start({x})
    BY <1>7, <1>9, <2>1, <2>2, StartMaps
  <2> QED  BY <1>5, <2>2, <2>3
<1> QED  BY <1>10, <1>11

\* A client that finds its object waiting leaves it to the monitor.
LEMMA LeftWaiting ==
  ASSUME TypeOK, Refs, HandedInv, NEW c \in Clients, pc[c] = "submit", obj[own[c]].rank # 0,
         own' = [own EXCEPT ![c] = 0], Goto(c, "idle"),
         UNCHANGED <<obj, queue, pool, handed, run>>
  PROVE  HandedInv' /\ lives' = lives
<1> USE ClientIsThread
<1>0. PICK x \in Ids : x = own[c]
  BY OwnFacts DEF SharedPCs, Refs
<1>2. pc'[c] = "idle" /\ own'[c] = 0
  BY OneMoves DEF TypeOK
<1>3. \A d \in Clients \ {c} : Same(d)
  BY OthersSame DEF TypeOK
<1>4. HandedInv'
  <2>1. \A d \in Clients : pc'[d] \in PrivatePCs => pc[d] \in PrivatePCs /\ own'[d] = own[d]
    BY <1>2, <1>3 DEF Same, PrivatePCs, BeforePCs, KillPCs
  <2> QED  BY <2>1, StillHeld, HandedKept
<1>5. \A e \in Ids : Unmoved(e)
  BY UnmovedAll
<1>6. \A e \in Ids \ {x} : LifeOf(e)' = LifeOf(e)
  BY <1>0, <1>2, <1>3, <1>5, OthersLive
<1>7. ~Killing(x) /\ ~Before(x)
  BY <1>0, OwnerOf DEF KillPCs, BeforePCs
<1>8. ~Killing(x)' /\ ~Before(x)'
  BY <1>2, <1>3, <1>7 DEF Killing, Before, Same, KillPCs, Ids
<1>9. LifeOf(x)' = LifeOf(x)
  BY <1>0, <1>7, <1>8 DEF LifeOf, Alive, Listed
<1>10. \A e \in Ids : LifeOf(e)' = LifeOf(e)
  BY <1>6, <1>9
<1> QED  BY <1>4, <1>10, StutterMaps

LEMMA SubmitMaps ==
  ASSUME TypeOK, Refs, HandedInv, NEW c \in Clients, PrivateSubmit(c) \/ VipSubmit(c)
  PROVE  HandedInv' /\ (lives' = lives \/ \E S \in SUBSET Ids : Life!Start(S))
<1>0. pc[c] \in {"submit", "vipSubmit"}
  BY DEF PrivateSubmit, VipSubmit
<1>1. PICK x \in Ids : x = own[c]
  BY <1>0, OwnFacts DEF PrivatePCs, SharedPCs, Refs
<1>2. own' = [own EXCEPT ![c] = 0] /\ Goto(c, "idle") /\ UNCHANGED <<obj, queue, run>>
  BY DEF PrivateSubmit, VipSubmit, wrk
<1>3. CASE obj[x].rank = 0
  <2>1. Submit(x)
    BY <1>1, <1>3 DEF PrivateSubmit, VipSubmit, Ready
  <2> QED  BY <1>0, <1>1, <1>2, <1>3, <2>1, HandOverMaps
<1>4. CASE obj[x].rank # 0
  <2>1. pc[c] = "submit"
    BY <1>0, <1>1, <1>4 DEF Refs, VipAreReady
  <2>2. UNCHANGED <<pool, handed>>
    BY <1>1, <1>4, <2>1 DEF PrivateSubmit, VipSubmit, Ready
  <2> QED  BY <1>1, <1>2, <1>4, <2>1, <2>2, LeftWaiting
<1> QED  BY <1>3, <1>4

\* The SQL error on an empty list: the handler ends, and its execution with it.
LEMMA FailureMaps ==
  ASSUME TypeOK, Refs, HandedInv, NEW c \in Clients, ModifyAll(c), queue = <<>>
  PROVE  HandedInv' /\ (lives' = lives \/ \E x \in Ids : Life!Withdraw(x))
<1> USE ClientIsThread, ThreadsAssumption
<1>0. PICK x \in Ids : x = own[c]
  BY OwnFacts DEF ModifyAll, SharedPCs, Refs
<1>1. UNCHANGED <<queue, pool, handed, run>> /\ Goto(c, "idle") /\ pc[c] = "modify"
  BY DEF ModifyAll, Failed, wrk
<1>2. pc'[c] = "idle" /\ own'[c] = 0 /\ \A d \in Clients \ {c} : own'[d] = own[d]
  BY <1>1, OneMoves DEF ModifyAll, TypeOK
<1>3. Listed = {} /\ Listed' = {} /\ \A e \in Ids : obj'[e] = obj[e]
  <2>1. Listed = {} /\ Listed' = {}
    BY <1>1 DEF Listed, Range
  <2> QED  BY <2>1 DEF ModifyAll, Modified
<1>4. \A d \in Clients \ {c} : Same(d)
  BY <1>1, <1>2, OthersSame
<1>5. HandedInv'
  <2>1. \A d \in Clients : pc'[d] \in PrivatePCs => pc[d] \in PrivatePCs /\ own'[d] = own[d]
    BY <1>2, <1>4 DEF Same, PrivatePCs, BeforePCs, KillPCs
  <2>2. \A e \in handed : obj'[e] = obj[e]
    BY <1>3 DEF TypeOK
  <2> QED  BY <1>1, <2>1, <2>2, StillHeld, HandedKept
<1>6. \A e \in Ids : Unmoved(e)
  BY <1>1, <1>3 DEF Unmoved
<1>7. \A e \in Ids \ {x} : LifeOf(e)' = LifeOf(e)
  BY <1>0, <1>2, <1>4, <1>6, OthersLive
<1>8. obj[x] \in Queues /\ obj[x] # NoQueue
  BY <1>0, <1>1, OwnFacts, NoQueueIsNoQueue DEF SharedPCs, Refs
<1>9. ~Killing(x) /\ ~Before(x) /\ Attended(x)
  BY <1>0, <1>1, OwnerOf DEF KillPCs, BeforePCs, Attended, SharedPCs
<1>10. ~Killing(x)' /\ ~Before(x)' /\ ~Attended(x)'
  <2>1. \A d \in Clients : own'[d] # x
    BY <1>0, <1>2 DEF Refs, OwnIsPrivate, Ids
  <2> QED  BY <1>3, <2>1 DEF Killing, Before, Attended, HandlingOwn
<1>11. obj[x].task \in Tasks /\ 0 \in Int
  BY <1>8 DEF Queues
<1>12. CASE x \notin handed /\ obj[x].rank = 0
  <2>1. LifeOf(x) = Place(obj[x].task, "turn", 0)
    BY <1>8, <1>9, <1>12, LifeCases DEF Alive
  <2>2. LifeOf(x)' = Place(obj[x].task, "withdrawn", 0)
    BY <1>1, <1>3, <1>8, <1>10, <1>12 DEF LifeOf, Alive, Place
  <2>3. Life!Withdraw(x)
    BY <1>7, <1>11, <2>1, <2>2, WithdrawMaps
  <2> QED  BY <1>5, <2>3
<1>13. CASE x \in handed \/ obj[x].rank # 0
  <2>1. LifeOf(x)' = LifeOf(x)
    BY <1>1, <1>3, <1>8, <1>9, <1>10, <1>13 DEF LifeOf, Alive
  <2>2. \A e \in Ids : LifeOf(e)' = LifeOf(e)
    BY <1>7, <2>1
  <2> QED  BY <1>5, <2>2, StutterMaps
<1> QED  BY <1>12, <1>13
-----------------------------------------------------------------------------
\* Steps of the monitor, the boot and the crash, on all objects at once.

\* Everyone who waits moves up, and who reaches the front has started.
LEMMA UpdateMaps ==
  ASSUME TypeOK, Refs, HandedInv, MonitorUpdate
  PROVE  HandedInv' /\ Life!Promote
<1> USE ClientIsThread, ThreadsAssumption
<1>1. UNCHANGED <<queue, run, own>> /\ Goto("monitor", "first") /\ SubmitAll(Promoted)
      /\ \A e \in Ids : obj'[e] = IF e \in Listed THEN Advanced(obj[e]) ELSE obj[e]
  BY DEF MonitorUpdate, wrk
<1>2. \A c \in Clients : Same(c)
  BY <1>1, OthersSame
<1>3. Promoted \in SUBSET Ids /\ handed' = handed \cup Promoted /\ Listed' = Listed
  BY <1>1, RangeType DEF Promoted, SubmitAll, Listed
<1>4. ASSUME NEW e \in Ids
      PROVE  /\ obj[e] = NoQueue => obj'[e] = NoQueue
             /\ obj[e] \in Queues => /\ obj'[e] \in Queues /\ obj'[e].task = obj[e].task
                                     /\ obj'[e].rank = IF e \in Listed /\ obj[e].rank > 0
                                                       THEN obj[e].rank - 1 ELSE obj[e].rank
  <2>1. e \in Listed => obj[e] \in Queues
    BY DEF Refs, ListedAreQueues
  <2> QED  BY <1>1, <2>1, AdvancedType, NoQueueIsNoQueue
<1>5. HandedInv'
  <2>1. \A e \in Ids : Held(e)' => e \in handed'
    BY <1>1, <1>3, HeldAfterSubmit DEF HandedInv
  <2>2. \A e \in handed' : obj'[e] \in Queues /\ obj'[e].rank = 0
    <3>1. \A e \in handed : e \in Ids /\ obj'[e] \in Queues /\ obj'[e].rank = 0
      <4>1. ASSUME NEW e \in handed
            PROVE  e \in Ids /\ obj[e] \in Queues /\ obj[e].rank = 0
        BY DEF HandedInv, TypeOK
      <4>2. ~(0 > 0)
        OBVIOUS
      <4> QED  BY <1>4, <4>1, <4>2
    <3>2. \A e \in Promoted : obj'[e] \in Queues /\ obj'[e].rank = 0
      BY <1>3, <1>4 DEF Promoted, Refs, ListedAreQueues
    <3> QED  BY <1>3, <3>1, <3>2
  <2>3. ASSUME NEW c \in Clients, pc'[c] \in PrivatePCs
        PROVE  own'[c] \notin handed'
    <3>1. pc[c] \in PrivatePCs /\ own'[c] = own[c]
      BY <1>2, <2>3 DEF Same, PrivatePCs, BeforePCs, KillPCs
    <3>2. own[c] \notin Listed /\ own[c] \notin handed
      BY <3>1 DEF HandedInv, Refs, OwnIsPrivate
    <3> QED  BY <1>3, <3>1, <3>2 DEF Promoted
  <2> QED  BY <2>1, <2>2, <2>3 DEF HandedInv
<1>6. ASSUME NEW e \in Ids
      PROVE  LifeOf(e)' = Life!Up(LifeOf(e))
  <2>1. /\ Killing(e)' <=> Killing(e)
        /\ Before(e)' <=> Before(e)
        /\ Attended(e)' <=> Attended(e)
    <3>1. Killing(e)' <=> Killing(e)
      BY <1>2 DEF Killing, Same, KillPCs
    <3>2. Before(e)' <=> Before(e)
      BY <1>2 DEF Before, Same
    <3>3. Attended(e)' <=> Attended(e)
      BY <1>2, <1>3 DEF Attended, HandlingOwn, Same, SharedPCs
    <3> QED  BY <3>1, <3>2, <3>3
  <2>2. Alive(e)' <=> Alive(e)
    BY <1>4, <2>1, NoQueueIsNoQueue DEF Alive, TypeOK
  <2>3. CASE ~Alive(e)
    <3>1. LifeOf(e) = Nil /\ LifeOf(e)' = Nil
      BY <2>2, <2>3, LifeCases DEF LifeOf, Nil
    <3> QED  BY <3>1 DEF Life!Up, Nil
  <2>4. CASE Alive(e)
    <3>1. /\ obj[e] \in Queues /\ obj'[e] \in Queues /\ obj'[e].task = obj[e].task
          /\ obj'[e].rank = IF e \in Listed /\ obj[e].rank > 0
                            THEN obj[e].rank - 1 ELSE obj[e].rank
      BY <1>4, <2>4 DEF Alive, TypeOK
    <3>2. obj[e].rank \in Int
      BY <3>1 DEF Queues
    <3>3. CASE e \in handed
      <4>1. LifeOf(e) = Place(obj[e].task, "started", 0)
            /\ LifeOf(e)' = Place(obj[e].task, "started", 0)
        BY <1>3, <2>2, <2>4, <3>1, <3>3, LifeCases DEF LifeOf, Place
      <4> QED  BY <4>1 DEF Life!Up, Place
    <3>4. CASE e \notin handed /\ Before(e)
      <4>1. e \notin Promoted
        BY <3>4 DEF Before, BeforePCs, Promoted, Refs, OwnIsPrivate, PrivatePCs
      <4>2. LifeOf(e) = Place(obj[e].task, "made", 0)
            /\ LifeOf(e)' = Place(obj[e].task, "made", 0)
        BY <1>3, <2>1, <2>2, <2>4, <3>1, <3>4, <4>1, LifeCases DEF LifeOf, Place
      <4> QED  BY <4>2 DEF Life!Up, Place
    <3>5. CASE e \notin handed /\ ~Before(e) /\ e \in Listed /\ obj[e].rank # 0
      <4>1. LifeOf(e) = Place(obj[e].task, "waiting", obj[e].rank)
        BY <2>4, <3>5, LifeCases
      <4>2. CASE obj[e].rank = 1
        <5>1. e \in handed'
          BY <1>3, <3>5, <4>2 DEF Promoted
        <5>2. LifeOf(e)' = Place(obj[e].task, "started", 0)
          BY <2>2, <2>4, <3>1, <5>1 DEF LifeOf, Place
        <5> QED  BY <4>1, <4>2, <5>2 DEF Life!Up, Life!At, Place
      <4>3. CASE obj[e].rank # 1
        <5>1. e \notin handed' /\ obj'[e].rank # 0
          BY <1>3, <3>1, <3>2, <3>5, <4>3 DEF Promoted
        <5>2. LifeOf(e)' = Place(obj[e].task, "waiting", obj'[e].rank)
          BY <1>3, <2>1, <2>2, <2>4, <3>1, <3>5, <5>1 DEF LifeOf, Place
        <5>3. CASE obj[e].rank > 1
          <6>1. obj'[e].rank = obj[e].rank - 1
            BY <3>1, <3>2, <3>5, <5>3
          <6>2. Place(obj[e].task, "waiting", obj[e].rank).rank = obj[e].rank
                /\ Place(obj[e].task, "waiting", obj[e].rank).task = obj[e].task
                /\ Place(obj[e].task, "waiting", obj[e].rank).at = "waiting"
            BY DEF Place
          <6>3. Life!Up(LifeOf(e)) = Life!Waiting(obj[e].task, obj[e].rank - 1)
            BY <3>2, <4>1, <4>3, <5>3, <6>2 DEF Life!Up
          <6> QED  BY <5>2, <6>1, <6>3 DEF Life!Waiting, Place
        <5>4. CASE ~(obj[e].rank > 1)
          <6>1. obj'[e].rank = obj[e].rank
            BY <3>1, <3>2, <3>5, <4>3, <5>4
          <6> QED  BY <3>2, <4>1, <4>3, <5>2, <5>4, <6>1 DEF Life!Up, Place
        <5> QED  BY <5>3, <5>4
      <4> QED  BY <4>2, <4>3
    <3>6. CASE e \notin handed /\ ~Before(e) /\ (e \notin Listed \/ obj[e].rank = 0)
      <4>1. e \notin handed' /\ obj'[e].rank = obj[e].rank
        BY <1>3, <3>1, <3>2, <3>6 DEF Promoted
      <4>2. LifeOf(e)' = LifeOf(e)
        BY <1>3, <2>1, <2>2, <2>4, <3>1, <3>6, <4>1 DEF LifeOf
      <4>3. LifeOf(e) \in {Place(obj[e].task, "turn", 0), Place(obj[e].task, "withdrawn", 0)}
        BY <2>4, <3>6, LifeCases
      <4> QED  BY <4>2, <4>3 DEF Life!Up, Place
    <3> QED  BY <3>3, <3>4, <3>5, <3>6
  <2> QED  BY <2>3, <2>4
<1>7. Life!Promote
  BY <1>6 DEF Life!Promote, lives
<1> QED  BY <1>5, <1>7

\* The boot hands over whoever has a slot.
LEMMA BootSubmitMaps ==
  ASSUME TypeOK, Refs, HandedInv, BootSubmit
  PROVE  HandedInv' /\ \E S \in SUBSET Ids : Life!Start(S)
<1> USE ClientIsThread, ThreadsAssumption
<1>0. PICK S \in SUBSET Ids : S = {e \in Listed : Ready(e)}
  BY RangeType
<1>1. UNCHANGED <<obj, queue, run, own>> /\ SubmitAll(S) /\ \A c \in Clients : pc'[c] = pc[c]
  BY <1>0 DEF BootSubmit, wrk, TypeOK
<1>2. \A c \in Clients : Same(c)
  BY <1>1, AllSame
<1>3. handed' = handed \cup S /\ Listed' = Listed
  BY <1>1 DEF SubmitAll, Listed
<1>4. HandedInv'
  <2>1. \A e \in Ids : Held(e)' => e \in handed'
    BY <1>1, <1>3, HeldAfterSubmit DEF HandedInv
  <2>2. \A e \in handed' : obj'[e] \in Queues /\ obj'[e].rank = 0
    BY <1>0, <1>1, <1>3 DEF HandedInv, Ready, Refs, ListedAreQueues
  <2>3. \A c \in Clients : pc'[c] \in PrivatePCs => own'[c] \notin handed'
    BY <1>0, <1>1, <1>3 DEF HandedInv, Refs, OwnIsPrivate
  <2> QED  BY <2>1, <2>2, <2>3 DEF HandedInv
<1>5. ASSUME NEW e \in Ids, e \notin S \/ e \in handed
      PROVE  LifeOf(e)' = LifeOf(e)
  <2>1. Unmoved(e)
    BY <1>1, <1>3, <1>5 DEF Unmoved
  <2> QED  BY <1>2, <2>1, LifeKept
<1>6. ASSUME NEW e \in S \ handed
      PROVE  \E t \in Tasks : /\ LifeOf(e) \in {Place(t, "made", 0), Place(t, "turn", 0)}
                              /\ LifeOf(e)' = Place(t, "started", 0)
  <2>1. e \in Listed /\ obj[e].rank = 0 /\ obj[e] \in Queues /\ obj[e] # NoQueue
    BY <1>0, NoQueueIsNoQueue DEF Ready, Refs, ListedAreQueues
  <2>2. ~Before(e) /\ ~Killing(e) /\ Attended(e)
    BY <2>1 DEF Before, Killing, Attended, BeforePCs, Refs, OwnIsPrivate, PrivatePCs
  <2>3. LifeOf(e) = Place(obj[e].task, "turn", 0)
    BY <2>1, <2>2, LifeCases DEF Alive
  <2>4. ~Killing(e)'
    BY <1>2, <2>2 DEF Killing, Same, KillPCs
  <2>5. LifeOf(e)' = Place(obj[e].task, "started", 0)
    BY <1>1, <1>3, <2>1, <2>4 DEF LifeOf, Alive, Place
  <2>6. obj[e].task \in Tasks
    BY <2>1 DEF Queues
  <2> QED  BY <2>3, <2>5, <2>6
<1>7. \E R \in SUBSET Ids : Life!Start(R)
  <2>1. PICK R \in SUBSET Ids : \A e \in Ids : e \in R <=> e \in S \ handed
    <3>1. S \ handed \in SUBSET Ids
      OBVIOUS
    <3> QED  BY <3>1
  <2>2. \A e \in Ids \ R : LifeOf(e)' = LifeOf(e)
    BY <1>5, <2>1
  <2>3. \A e \in R : \E t \in Tasks : /\ LifeOf(e) \in {Place(t, "made", 0), Place(t, "turn", 0)}
                                      /\ LifeOf(e)' = Place(t, "started", 0)
    BY <1>6, <2>1
  <2>4. Life!Start(R)
    BY <2>2, <2>3, StartMaps
  <2> QED  BY <2>4
<1> QED  BY <1>4, <1>7

\* A crash leaves no execution.
LEMMA CrashMaps ==
  ASSUME TypeOK, Crash
  PROVE  HandedInv' /\ Life!Restart
<1>1. UNCHANGED <<db, succeeded, mails>> /\ \A e \in Ids : obj'[e] = NoQueue
  BY DEF Crash
<1>2. lives' = [e \in Ids |-> Nil]
  <2>1. \A e \in Ids : LifeOf(e)' = Nil
    BY <1>1 DEF LifeOf, Alive, Nil
  <2> QED  BY <2>1 DEF lives
<1>3. HandedInv'
  BY ClientIsThread DEF Crash, HandedInv, Held, PrivatePCs, Ids
<1>4. finished' = finished
  BY <1>1 DEF finished
<1> QED  BY <1>1, <1>2, <1>3, <1>4 DEF Life!Restart, Life!None, Nil
-----------------------------------------------------------------------------
\* All steps.

\* What a step of TaskEngine is to TaskLife: nobody's life changes, somebody's
\* does and no row, or one of the three steps that are about results or crashes.
Idle == lives' = lives /\ UNCHANGED <<succeeded, mails>>
Moves == /\ \/ \E e \in Ids : Life!Make(e) \/ Life!Enter(e) \/ Life!Withdraw(e)
            \/ \E S \in SUBSET Ids : Life!Start(S)
            \/ Life!Promote
         /\ UNCHANGED <<db, succeeded, mails>>
Tells == \E t \in Tasks : Life!Succeed(t) \/ Life!Notify(t)

LEMMA ClientMaps ==
  ASSUME TypeOK, Refs, HandedInv, NEW c \in Clients, ClientStep(c), CallsHaveTasks
  PROVE  HandedInv' /\ (Idle \/ Moves)
<1> USE ClientIsThread
<1>1. CASE PrivateWrite(c) \/ PrivateIsFull(c) \/ VipWrite(c) \/ KillWrite(c) \/ SwitchTask(c)
  <2>1. UNCHANGED <<succeeded, mails>>
    BY <1>1 DEF PrivateWrite, PrivateIsFull, VipWrite, KillWrite, SwitchTask, wrk
  <2> QED  BY <1>1, <2>1, QuietClient, QuietSteps DEF Idle
<1>2. CASE Refresh(c)
  <2>1. UNCHANGED <<succeeded, mails>>
    BY <1>2 DEF Refresh, ModifyFirst, ModifyCheck, ModifyAll, BatchWrite, wrk
  <2>2. CASE ModifyAll(c) /\ queue = <<>>
    <3>1. UNCHANGED db
      BY <2>2 DEF ModifyAll
    <3> QED  BY <2>1, <2>2, <3>1, FailureMaps DEF Idle, Moves
  <2>3. CASE ~(ModifyAll(c) /\ queue = <<>>)
    BY <1>2, <2>1, <2>3, QuietRefresh, QuietSteps DEF Idle
  <2> QED  BY <2>2, <2>3
<1>3. CASE PrivateRank(c)
  BY <1>3, RankMaps DEF Idle, PrivateRank, wrk
<1>4. CASE PrivateAdd(c)
  BY <1>4, AddMaps DEF Moves, PrivateAdd, wrk
<1>5. CASE PrivateSubmit(c) \/ VipSubmit(c)
  <2>1. UNCHANGED <<db, succeeded, mails>>
    BY <1>5 DEF PrivateSubmit, VipSubmit, wrk
  <2> QED  BY <1>5, <2>1, SubmitMaps DEF Idle, Moves
<1>6. CASE ExportFind(c)
  <2>1. pc[c] = "created" /\ arg[c] \in Tasks /\ Find(c, arg[c])
    BY <1>6 DEF ExportFind, CallsHaveTasks, CalledPCs
  <2>2. UNCHANGED <<db, succeeded, mails>>
    BY <2>1 DEF Find, wrk
  <2> QED  BY <2>1, <2>2, FindMaps DEF Idle, Moves
<1>7. CASE VipRemove(c)
  BY <1>7, VipRemoveMaps DEF Idle, Moves, VipRemove, wrk
<1>8. CASE KillRemove(c)
  BY <1>8, KillRemoveMaps DEF Idle, Moves, KillRemove, wrk
<1> QED
  BY <1>1, <1>2, <1>3, <1>4, <1>5, <1>6, <1>7, <1>8 DEF ClientStep

LEMMA RequestsMap ==
  ASSUME TypeOK, Refs, HandedInv, NEW c \in Clients, Request(c)
  PROVE  HandedInv' /\ (Idle \/ Moves)
<1>1. PICK t \in Tasks :
        \/ PrivateFind(c, t) \/ ExportInsert(c, t) \/ VipFind(c, t) \/ KillFind(c, t)
        \/ DeleteTask(c, t) \/ EditContent(c, t)
        \/ \E type \in ScheduleTypes : ConvertAuto(c, t, type)
  BY DEF Request
<1>2. CASE PrivateFind(c, t)
  <2>1. Find(c, t) /\ pc[c] = "idle" /\ UNCHANGED <<db, succeeded, mails>>
    BY <1>2 DEF PrivateFind, Find, wrk
  <2> QED  BY <2>1, FindMaps DEF Idle, Moves
<1>3. CASE VipFind(c, t)
  BY <1>3, VipFindMaps DEF Moves, VipFind, wrk
<1>4. CASE KillFind(c, t)
  BY <1>4, KillFindMaps DEF Idle, KillFind, wrk
<1>5. CASE \/ ExportInsert(c, t) \/ DeleteTask(c, t) \/ EditContent(c, t)
           \/ \E type \in ScheduleTypes : ConvertAuto(c, t, type)
  <2>1. UNCHANGED <<succeeded, mails>>
    BY <1>5 DEF ExportInsert, DeleteTask, EditContent, ConvertAuto, RowUpdate, wrk
  <2> QED  BY <1>5, <2>1, QuietRequest, QuietSteps DEF Idle
<1> QED  BY <1>1, <1>2, <1>3, <1>4, <1>5

\* A result comes from an execution that has started, and is in the row when
\* it is reported.
LEMMA WorkerMaps ==
  ASSUME TypeOK, Refs, HandedInv, FinishedAreEarned, NEW w \in Workers, Worker(w)
  PROVE  HandedInv' /\ (Idle \/ Moves \/ Tells)
<1>1. CASE (\E e \in Ids : Take(w, e)) \/ ExecuteThrows(w) \/ Commit(w)
  <2>1. UNCHANGED <<succeeded, mails>>
    BY <1>1 DEF Take, ExecuteThrows, Commit
  <2> QED  BY <1>1, <2>1, QuietWorker, QuietSteps DEF Idle
<1>2. CASE Leave(w)
  BY <1>2, LeaveMaps DEF Idle, Moves, Leave
<1>3. ASSUME NEW o \in Outcomes, Execute(w, o)
      PROVE  HandedInv' /\ (Idle \/ Tells)
  <2>1. HandedInv' /\ lives' = lives
    BY <1>3, QuietWorker, QuietSteps
  <2>2. UNCHANGED <<db, mails>>
    BY <1>3 DEF Execute
  <2>3. CASE o # "success"
    BY <1>3, <2>1, <2>2, <2>3 DEF Execute, Idle
  <2>4. CASE o = "success"
    <3>1. PICK x \in Ids : x = run[w]
      BY <1>3, RunFacts DEF Execute, Refs
    <3>2. x \in handed /\ obj[x] \in Queues /\ obj[x] # NoQueue /\ obj[x].task \in Tasks
      BY <1>3, <3>1, RunFacts, NoQueueIsNoQueue DEF Execute, Refs, HandedInv
    <3>3. ~Killing(x)
      BY <3>2 DEF Killing, HandedInv, PrivatePCs
    <3>4. LifeOf(x) = Place(obj[x].task, "started", 0)
      BY <3>2, <3>3, LifeCases DEF Alive
    <3>5. Life!IsAt(x, {"started"}) /\ lives[x].task = obj[x].task
      BY <3>4 DEF Life!IsAt, lives, Place
    <3>6. succeeded' = succeeded \cup {obj[x].task}
      BY <1>3, <2>4, <3>1 DEF Execute
    <3>7. finished' = finished
      BY <2>2 DEF finished
    <3>8. Life!Succeed(obj[x].task)
      BY <2>1, <2>2, <3>5, <3>6, <3>7 DEF Life!Succeed
    <3> QED  BY <2>1, <3>2, <3>8 DEF Tells
  <2> QED  BY <2>3, <2>4
<1>4. CASE Report(w)
  <2>1. HandedInv' /\ lives' = lives
    BY <1>4, QuietWorker, QuietSteps
  <2>2. UNCHANGED <<db, succeeded>>
    BY <1>4 DEF Report
  <2>3. CASE obj[run[w]].row.status # "Finished"
    BY <1>4, <2>1, <2>2, <2>3 DEF Report, Idle
  <2>4. CASE obj[run[w]].row.status = "Finished"
    <3>1. PICK t \in Tasks : t = obj[run[w]].task
      BY <1>4, RunFacts DEF Report, Refs
    <3>2. t \in succeeded
      BY <1>4, <2>4, <3>1, RunFacts DEF Report, Refs, FinishedAreEarned
    <3>3. mails' = [mails EXCEPT ![t] = mails[t] + 1]
      BY <1>4, <2>4, <3>1 DEF Report
    <3>4. finished' = finished
      BY <2>2 DEF finished
    <3>5. Life!Notify(t)
      BY <2>1, <2>2, <3>2, <3>3, <3>4 DEF Life!Notify
    <3> QED  BY <2>1, <3>5 DEF Tells
  <2> QED  BY <2>3, <2>4
<1> QED  BY <1>1, <1>2, <1>3, <1>4 DEF Worker

LEMMA BackgroundMaps ==
  ASSUME TypeOK, Refs, HandedInv, MonitorStep \/ BootStep \/ UNCHANGED vars
  PROVE  HandedInv' /\ (Idle \/ Moves)
<1> USE ClientIsThread, ThreadsAssumption
<1>1. CASE MonitorCheck \/ BootReads \/ UNCHANGED vars
  <2>1. UNCHANGED <<succeeded, mails>>
    BY <1>1, BootOnlyReads DEF MonitorCheck, vars, wrk
  <2> QED  BY <1>1, <2>1, QuietOther, QuietSteps DEF Idle
<1>2. ASSUME NEW p \in {"monitor", "boot"}, Refresh(p)
      PROVE  HandedInv' /\ Idle
  <2>1. UNCHANGED <<succeeded, mails>>
    BY <1>2 DEF Refresh, ModifyFirst, ModifyCheck, ModifyAll, BatchWrite, wrk
  <2>2. p \in Threads /\ p \notin Clients
    OBVIOUS
  <2> QED  BY <1>2, <2>1, <2>2, QuietRefresh, QuietSteps DEF Idle
<1>3. CASE MonitorUpdate
  BY <1>3, UpdateMaps DEF Moves, MonitorUpdate, wrk
<1>4. ASSUME NEW t \in Tasks, BootEnqueue(t)
      PROVE  HandedInv' /\ Moves
  BY <1>4, EnqueueMaps DEF Moves, BootEnqueue, wrk
<1>5. CASE BootSubmit
  BY <1>5, BootSubmitMaps DEF Moves, BootSubmit, wrk
<1> QED  BY <1>1, <1>2, <1>3, <1>4, <1>5 DEF MonitorStep, BootStep, BootReads

\* What is shown as finished has a result.
LEMMA ShownAreDone ==
  ASSUME FinishedAreEarned
  PROVE  finished \in SUBSET succeeded
  BY DEF FinishedAreEarned, finished

LEMMA InitMaps == Init => HandedInv /\ Life!Init
<1> SUFFICES ASSUME Init
             PROVE  HandedInv /\ Life!Init
  OBVIOUS
<1>1. HandedInv
  BY ClientIsThread DEF Init, HandedInv, Held, PrivatePCs, Ids
<1>2. lives = [e \in Ids |-> Nil]
  <2>1. \A e \in Ids : LifeOf(e) = Nil
    BY DEF Init, LifeOf, Alive, Nil
  <2> QED  BY <2>1 DEF lives
<1>3. finished \subseteq succeeded /\ succeeded \subseteq Tasks /\ mails = [t \in Tasks |-> 0]
  BY InitEarned, ShownAreDone DEF Init
<1> QED  BY <1>1, <1>2, <1>3 DEF Life!Init, Life!None, Nil

LEMMA StepMaps ==
  ASSUME Inv, [Next]_vars
  PROVE  Inv' /\ [Life!Next]_(Life!vars)
<1> USE DEF Inv
<1>1. TypeOK' /\ Refs' /\ CallsHaveTasks' /\ FinishedAreEarned'
  BY StepType, StepRefs, StepCalls, StepEarned
<1>2. CASE Crash
  BY <1>1, <1>2, CrashMaps DEF Life!Next
<1>3. CASE ~Crash
  <2>1. HandedInv' /\ (Idle \/ Moves \/ Tells)
    BY <1>3, ClientMaps, RequestsMap, WorkerMaps, BackgroundMaps DEF Next
  <2>2. CASE Idle
    <3>1. finished' \in SUBSET succeeded
      BY <1>1, <2>2 DEF FinishedAreEarned, finished, Idle
    <3>2. Life!Show
      BY <2>2, <3>1 DEF Idle, Life!Show
    <3> QED  BY <1>1, <2>1, <3>2 DEF Life!Next
  <2>3. CASE Moves
    <3>1. finished' = finished
      BY <2>3 DEF Moves, finished
    <3>2. Life!Move
      BY <2>3, <3>1 DEF Moves, Life!Move
    <3> QED  BY <1>1, <2>1, <3>2 DEF Life!Next
  <2>4. CASE Tells
    BY <1>1, <2>1, <2>4 DEF Tells, Life!Next
  <2> QED  BY <2>1, <2>2, <2>3, <2>4
<1> QED  BY <1>2, <1>3

\* What the pool has been given was handed over once and for all: it has rank 0
\* and no client can still hold it back or take it away.
THEOREM HandedOverHolds == Spec => []HandedInv
<1>1. Init => Inv
  BY InitType, InitRefs, InitCalls, InitEarned, InitMaps DEF Inv
<1>2. Inv /\ [Next]_vars => Inv'
  BY StepMaps
<1>3. Inv => HandedInv
  BY DEF Inv
<1> QED  BY <1>1, <1>2, <1>3, PTL DEF Spec

\* Every behaviour of the task line, with its threads, its stale rows and its
\* crashes, is one of TaskLife: who was taken out of the line never starts, who
\* waits starts only by moving up to the front, results are shown and reported
\* only of executions that have started.
THEOREM ImplementsTaskLifeHolds == Spec => ImplementsTaskLife
<1>1. Init => Inv /\ Life!Init
  BY InitType, InitRefs, InitCalls, InitEarned, InitMaps DEF Inv
<1>2. Inv /\ [Next]_vars => Inv' /\ [Life!Next]_(Life!vars)
  BY StepMaps
<1> QED  BY <1>1, <1>2, PTL DEF Spec, ImplementsTaskLife, Life!Spec

-----------------------------------------------------------------------------
\* Counts.  An entry is submitted by the thread that added it and by the monitor
\* or the boot, and by nobody else.

Takers(e) == {w \in Workers : run[w] = e}
Owned(e) == \E c \in Clients : own[c] = e

\* The monitor has still to promote it, or the boot to submit it.
Due(e) == obj[e] # NoQueue /\ (obj[e].rank > 0 \/ Booting)

OwnedOnce(e) == IF Owned(e) THEN 1 ELSE 0
DueOnce(e) == IF Due(e) THEN 1 ELSE 0
CopiesOf(e) ==
  IsFiniteSet(Takers(e)) /\ pool[e] + Cardinality(Takers(e)) + OwnedOnce(e) + DueOnce(e) <= 2

IdleHoldNothing == \A w \in Workers : wpc[w] = "idle" => run[w] = 0
MonitorComesLast == pc["monitor"] # "off" => pc["boot"] = "up"
CopiesInv == (\A e \in Ids : CopiesOf(e)) /\ IdleHoldNothing /\ MonitorComesLast

\* What is neither in the pool nor with a pool thread has no copies.
LEMMA NoCopies ==
  ASSUME TypeOK, NEW e \in Ids, ~Held(e)
  PROVE  pool[e] = 0 /\ IsFiniteSet(Takers(e)) /\ Cardinality(Takers(e)) = 0
<1>1. pool[e] = 0
  BY DEF TypeOK, Held
<1>2. Takers(e) = {}
  BY DEF Held, Takers
<1> QED  BY <1>1, <1>2, FS_EmptySet

\* Neither the pool nor a pool thread moves.
LEMMA CopiesStill ==
  ASSUME TypeOK, UNCHANGED <<pool, run>>, Booting' => Booting, NEW e \in Ids, CopiesOf(e),
         \/ ~Held(e)
         \/ /\ Owned(e)' => Owned(e)
            /\ obj'[e] # NoQueue => obj[e] # NoQueue /\ obj'[e].rank = obj[e].rank
  PROVE  CopiesOf(e)'
<1>1. Takers(e)' = Takers(e) /\ pool'[e] = pool[e] /\ pool[e] \in Nat
  BY DEF Takers, TypeOK
<1>2. Cardinality(Takers(e)) \in Nat
  BY FS_CardinalityType DEF CopiesOf
<1>3. CASE ~Held(e)
  <2>1. pool[e] = 0 /\ Cardinality(Takers(e)) = 0 /\ IsFiniteSet(Takers(e))
    BY <1>3, NoCopies
  <2>2. OwnedOnce(e)' \in {0, 1} /\ DueOnce(e)' \in {0, 1}
    BY DEF OwnedOnce, DueOnce
  <2> QED  BY <1>1, <2>1, <2>2 DEF CopiesOf
<1>4. CASE ~(~Held(e))
  <2>1. (Owned(e)' => Owned(e)) /\ (Due(e)' => Due(e))
    BY <1>4 DEF Due
  <2>2. OwnedOnce(e)' <= OwnedOnce(e) /\ DueOnce(e)' <= DueOnce(e)
        /\ {OwnedOnce(e), OwnedOnce(e)', DueOnce(e), DueOnce(e)'} \subseteq {0, 1}
    BY <2>1 DEF OwnedOnce, DueOnce
  <2> QED  BY <1>1, <1>2, <2>2 DEF CopiesOf
<1> QED  BY <1>3, <1>4

\* Submissions: each uses up the owner's or what was due.
LEMMA CopiesSubmitted ==
  ASSUME TypeOK, UNCHANGED run, NEW S, SubmitAll(S), NEW e \in Ids, CopiesOf(e),
         Owned(e)' => Owned(e), Due(e)' => Due(e),
         e \in S => (Owned(e) /\ ~Owned(e)') \/ (Due(e) /\ ~Due(e)')
  PROVE  CopiesOf(e)'
<1>1. Takers(e)' = Takers(e) /\ pool[e] \in Nat
      /\ pool'[e] = (IF e \in S THEN pool[e] + 1 ELSE pool[e])
  BY DEF Takers, TypeOK, SubmitAll
<1>2. Cardinality(Takers(e)) \in Nat
  BY FS_CardinalityType DEF CopiesOf
<1>3. /\ OwnedOnce(e)' <= OwnedOnce(e) /\ DueOnce(e)' <= DueOnce(e)
      /\ e \in S => OwnedOnce(e)' + DueOnce(e)' + 1 <= OwnedOnce(e) + DueOnce(e)
      /\ {OwnedOnce(e), OwnedOnce(e)', DueOnce(e), DueOnce(e)'} \subseteq {0, 1}
  BY DEF OwnedOnce, DueOnce
<1> QED  BY <1>1, <1>2, <1>3 DEF CopiesOf

\* A pool thread lets go of its object, or takes one from the pool.
LEMMA CopiesLeft ==
  ASSUME TypeOK, NEW w \in Workers, run' = [run EXCEPT ![w] = 0], UNCHANGED <<pool, obj, own, pc>>,
         NEW e \in Ids, CopiesOf(e)
  PROVE  CopiesOf(e)'
<1>1. Takers(e)' = Takers(e) \ {w}
  <2>1. \A v \in Workers : run'[v] = IF v = w THEN 0 ELSE run[v]
    BY DEF TypeOK
  <2>2. e # 0
    BY DEF Ids
  <2> QED  BY <2>1, <2>2 DEF Takers
<1>2. /\ Cardinality(Takers(e)) \in Nat /\ IsFiniteSet(Takers(e) \ {w})
      /\ Cardinality(Takers(e) \ {w}) \in Nat
      /\ Cardinality(Takers(e) \ {w}) <= Cardinality(Takers(e))
  <2>1. IsFiniteSet(Takers(e))
    BY DEF CopiesOf
  <2>2. /\ Cardinality(Takers(e)) \in Nat /\ IsFiniteSet(Takers(e) \ {w})
        /\ Cardinality(Takers(e) \ {w}) =
             IF w \in Takers(e) THEN Cardinality(Takers(e)) - 1 ELSE Cardinality(Takers(e))
    BY <2>1, FS_RemoveElement, FS_CardinalityType
  <2>3. Cardinality(Takers(e) \ {w}) \in Nat
    BY <2>2, FS_CardinalityType
  <2> QED  BY <2>2, <2>3
<1>3. OwnedOnce(e)' = OwnedOnce(e) /\ DueOnce(e)' = DueOnce(e) /\ pool'[e] = pool[e]
      /\ OwnedOnce(e) \in {0, 1} /\ DueOnce(e) \in {0, 1} /\ pool[e] \in Nat
  BY DEF OwnedOnce, DueOnce, Owned, Due, Booting, TypeOK
<1> QED  BY <1>1, <1>2, <1>3 DEF CopiesOf

LEMMA CopiesTaken ==
  ASSUME TypeOK, NEW w \in Workers, NEW x \in Ids, Take(w, x), run[w] = 0,
         NEW e \in Ids, CopiesOf(e)
  PROVE  CopiesOf(e)'
<1>1. OwnedOnce(e)' = OwnedOnce(e) /\ DueOnce(e)' = DueOnce(e)
      /\ OwnedOnce(e) \in {0, 1} /\ DueOnce(e) \in {0, 1} /\ pool[e] \in Nat
  BY DEF OwnedOnce, DueOnce, Owned, Due, Booting, TypeOK, Take, thr
<1>2. IsFiniteSet(Takers(e)) /\ Cardinality(Takers(e)) \in Nat
  BY FS_CardinalityType DEF CopiesOf
<1>0. /\ \A v \in Workers : run'[v] = IF v = w THEN x ELSE run[v]
      /\ \A f \in Ids : pool'[f] = IF f = x THEN pool[f] - 1 ELSE pool[f]
      /\ e # 0
  BY DEF TypeOK, Take, Ids
<1>3. CASE e = x
  <2>1. Takers(e)' = Takers(e) \cup {w} /\ w \notin Takers(e) /\ pool'[e] = pool[e] - 1
    BY <1>0, <1>3 DEF Takers
  <2>2. IsFiniteSet(Takers(e)') /\ Cardinality(Takers(e)') = Cardinality(Takers(e)) + 1
    BY <1>2, <2>1, FS_AddElement
  <2> QED  BY <1>1, <1>2, <2>1, <2>2 DEF CopiesOf
<1>4. CASE e # x
  <2>1. Takers(e)' = Takers(e) /\ pool'[e] = pool[e]
    BY <1>0, <1>4 DEF Takers
  <2> QED  BY <1>1, <1>2, <2>1 DEF CopiesOf
<1> QED  BY <1>3, <1>4

\* Steps in which neither the pool nor a pool thread moves.

LEMMA BootGoesOn ==
  ASSUME TypeOK, NEW p \in Threads, p # "boot", NEW l, Goto(p, l)
  PROVE  Booting' <=> Booting
  BY ThreadsAssumption DEF TypeOK, Threads, Goto, Booting

LEMMA CopiesByClient ==
  ASSUME TypeOK, Refs, CopiesInv, NEW c \in Clients,
         \/ PrivateWrite(c) \/ PrivateIsFull(c) \/ PrivateRank(c) \/ PrivateAdd(c) \/ SwitchTask(c)
         \/ VipWrite(c) \/ VipRemove(c) \/ KillWrite(c) \/ KillRemove(c)
  PROVE  \A e \in Ids : CopiesOf(e)'
<1>1. UNCHANGED <<pool, run>> /\ \E l : Goto(c, l)
  BY DEF PrivateWrite, PrivateIsFull, PrivateRank, PrivateAdd, SwitchTask, VipWrite, VipRemove,
         KillWrite, KillRemove, mem, wrk
<1>2. Booting' <=> Booting
  BY <1>1, BootGoesOn, ClientIsThread, ThreadsAssumption
<1>3. \A e \in Ids : Owned(e)' => Owned(e)
  BY DEF TypeOK, Owned, PrivateWrite, PrivateIsFull, PrivateRank, PrivateAdd, SwitchTask, VipWrite,
         VipRemove, KillWrite, KillRemove, Ids
<1>4. CASE UNCHANGED obj
  BY <1>1, <1>2, <1>3, <1>4, CopiesStill DEF CopiesInv
<1>5. CASE PrivateRank(c) \/ KillRemove(c)
  <2>1. own[c] \in Ids /\ ~Held(own[c])
    BY <1>5 DEF PrivateRank, KillRemove, Refs, OwnIsQueue, OwnIsPrivate, PrivatePCs
  <2>2. \A e \in Ids : e # own[c] => obj'[e] = obj[e]
    BY <1>5 DEF PrivateRank, KillRemove, TypeOK
  <2> QED  BY <1>1, <1>2, <1>3, <2>1, <2>2, CopiesStill DEF CopiesInv
<1> QED
  BY <1>4, <1>5 DEF PrivateWrite, PrivateIsFull, PrivateAdd, SwitchTask, VipWrite, VipRemove,
                    KillWrite, mem

LEMMA CopiesByRefresh ==
  ASSUME TypeOK, Refs, CopiesInv, NEW p \in Threads, Refresh(p)
  PROVE  \A e \in Ids : CopiesOf(e)'
<1>1. UNCHANGED <<pool, run>> /\ \E l : Goto(p, l)
  BY DEF Refresh, ModifyFirst, ModifyCheck, ModifyAll, BatchWrite, mem, wrk
<1>2. Booting' => Booting
  <2>1. CASE p = "boot"
    BY <2>1 DEF Refresh, ModifyFirst, ModifyCheck, ModifyAll, BatchWrite, Booting
  <2>2. CASE p # "boot"
    BY <1>1, <2>2, BootGoesOn
  <2> QED  BY <2>1, <2>2
<1>3. \A e \in Ids : Owned(e)' => Owned(e)
  BY DEF TypeOK, Owned, Ids, Refresh, ModifyFirst, ModifyCheck, ModifyAll, BatchWrite
<1>4. obj' = obj \/ obj' = Modified
  BY DEF Refresh, ModifyFirst, ModifyCheck, ModifyAll, BatchWrite, mem
<1>5. ASSUME NEW e \in Ids, obj'[e] # NoQueue
      PROVE  obj[e] # NoQueue /\ obj'[e].rank = obj[e].rank
  <2>1. CASE obj' = obj
    BY <1>5, <2>1
  <2>2. CASE obj' = Modified
    <3>1. (obj'[e] = NoQueue <=> obj[e] = NoQueue) /\ obj[e] \in Queues \cup {NoQueue}
      BY <2>2, ModifiedType DEF Refs, TypeOK
    <3> QED  BY <1>5, <2>2, <3>1, ModifiedType DEF Refs
  <2> QED  BY <1>4, <2>1, <2>2
<1> QED  BY <1>1, <1>2, <1>3, <1>5, CopiesStill DEF CopiesInv

\* A new object has no copies yet.
LEMMA CopiesByNew ==
  ASSUME TypeOK, Refs, HandedInv, CopiesInv, NEW x \in Ids, obj[x] = NoQueue,
         UNCHANGED <<pool, run>>, Booting' => Booting,
         \A e \in Ids \ {x} : obj'[e] = obj[e] /\ (Owned(e)' => Owned(e))
  PROVE  \A e \in Ids : CopiesOf(e)'
<1>1. ~Held(x)
  BY FreshFacts
<1> QED  BY <1>1, CopiesStill DEF CopiesInv

LEMMA CopiesByRequest ==
  ASSUME TypeOK, Refs, HandedInv, CopiesInv, NEW c \in Clients, Request(c) \/ ExportFind(c)
  PROVE  \A e \in Ids : CopiesOf(e)'
<1>1. UNCHANGED <<pool, run>>
  BY DEF Request, ExportFind, PrivateFind, Find, ExportInsert, VipFind, KillFind, DeleteTask,
         EditContent, RowUpdate, ConvertAuto, mem, wrk
<1>2. Booting' <=> Booting
  <2>1. UNCHANGED pc \/ \E l : Goto(c, l)
    BY DEF Request, ExportFind, PrivateFind, Find, ExportInsert, VipFind, KillFind, DeleteTask,
           EditContent, RowUpdate, ConvertAuto, thr
  <2> QED  BY <2>1, BootGoesOn, ClientIsThread, ThreadsAssumption DEF Booting
<1>3. CASE UNCHANGED <<obj, own>>
  BY <1>1, <1>2, <1>3, CopiesStill DEF CopiesInv, Owned
<1>4. CASE \E x \in Ids : /\ Fresh(x) /\ own' = [own EXCEPT ![c] = x]
                          /\ \E q : obj' = [obj EXCEPT ![x] = q]
  <2>1. PICK x \in Ids : /\ Fresh(x) /\ own' = [own EXCEPT ![c] = x]
                         /\ \E q : obj' = [obj EXCEPT ![x] = q]
    BY <1>4
  <2>2. \A e \in Ids \ {x} : obj'[e] = obj[e] /\ (Owned(e)' => Owned(e))
    BY <2>1 DEF TypeOK, Owned
  <2> QED  BY <1>1, <1>2, <2>1, <2>2, CopiesByNew DEF Fresh
<1> QED
  BY <1>3, <1>4 DEF Request, ExportFind, PrivateFind, Find, ExportInsert, VipFind, KillFind,
                    DeleteTask, EditContent, RowUpdate, ConvertAuto, mem, thr, CallFresh
-----------------------------------------------------------------------------
\* Steps that submit.

LEMMA CopiesBySubmit ==
  ASSUME TypeOK, Refs, CopiesInv, NEW c \in Clients, PrivateSubmit(c) \/ VipSubmit(c)
  PROVE  \A e \in Ids : CopiesOf(e)'
<1>1. own[c] \in Ids /\ UNCHANGED <<run, obj>> /\ Goto(c, "idle") /\ own' = [own EXCEPT ![c] = 0]
  BY DEF PrivateSubmit, VipSubmit, Refs, OwnIsQueue, PrivatePCs, SharedPCs, wrk
<1>2. Booting' <=> Booting
  BY <1>1, BootGoesOn, ClientIsThread, ThreadsAssumption
<1>3. \A e \in Ids : (Owned(e)' => Owned(e)) /\ (Due(e)' => Due(e))
  BY <1>1, <1>2 DEF TypeOK, Owned, Due, Ids
<1>4. PICK x \in Ids : x = own[c]
  BY <1>1
<1>5. Owned(x) /\ ~Owned(x)'
  <2>1. \A d \in Clients : own[d] = own[c] => d = c
    BY <1>1 DEF Refs, OwnIsPrivate, Ids
  <2>2. \A d \in Clients : own'[d] # own[c]
    BY <1>1, <2>1 DEF TypeOK, Ids
  <2> QED  BY <1>4, <2>2 DEF Owned
<1>6. CASE SubmitAll({x})
  <2>1. \A e \in Ids : e \in {x} => Owned(e) /\ ~Owned(e)'
    BY <1>5
  <2> QED  BY <1>1, <1>3, <1>6, <2>1, CopiesSubmitted DEF CopiesInv
<1>7. CASE UNCHANGED pool
  BY <1>1, <1>2, <1>3, <1>7, CopiesStill DEF CopiesInv
<1> QED  BY <1>4, <1>6, <1>7 DEF PrivateSubmit, VipSubmit, Submit

LEMMA CopiesByMonitor ==
  ASSUME TypeOK, Refs, CopiesInv, MonitorUpdate
  PROVE  \A e \in Ids : CopiesOf(e)'
<1>1. /\ UNCHANGED <<run, own>> /\ SubmitAll(Promoted) /\ pc'["boot"] = pc["boot"]
      /\ pc["boot"] = "up"
      /\ \A e \in Ids : obj'[e] = IF e \in Listed THEN Advanced(obj[e]) ELSE obj[e]
  BY ThreadsAssumption DEF MonitorUpdate, wrk, Goto, TypeOK, Threads, CopiesInv, MonitorComesLast
<1>2. \A e \in Listed : obj[e] \in Queues
  BY DEF Refs, ListedAreQueues
<1>3. ASSUME NEW e \in Ids
      PROVE  (Due(e)' => Due(e)) /\ (e \in Promoted => Due(e) /\ ~Due(e)')
  <2>1. CASE e \notin Listed
    BY <1>1, <2>1 DEF Due, Booting, Promoted
  <2>2. CASE e \in Listed
    <3>1. /\ obj[e].rank = 1 => obj'[e].rank = 0
          /\ obj'[e].rank > 0 => obj[e].rank > 0
      <4>1. obj'[e] = Advanced(obj[e]) /\ obj[e].rank \in Int /\ obj[e] \in Queues
        BY <1>1, <1>2, <2>2 DEF Queues
      <4>2. obj'[e].rank = IF obj[e].rank > 0 THEN obj[e].rank - 1 ELSE obj[e].rank
        BY <4>1, AdvancedType
      <4> QED  BY <4>1, <4>2
    <3>2. obj[e] # NoQueue
      BY <1>2, <2>2, NoQueueIsNoQueue
    <3>3. Due(e)' => obj'[e].rank > 0
      BY <1>1 DEF Due, Booting
    <3> QED  BY <3>1, <3>2, <3>3 DEF Due, Promoted
  <2> QED  BY <2>1, <2>2
<1>4. \A e \in Ids : Owned(e)' => Owned(e)
  BY <1>1 DEF Owned
<1> QED  BY <1>1, <1>3, <1>4, CopiesSubmitted DEF CopiesInv

LEMMA CopiesByBootSubmit ==
  ASSUME TypeOK, Refs, CopiesInv, BootSubmit
  PROVE  \A e \in Ids : CopiesOf(e)'
<1>1. /\ UNCHANGED <<run, own, obj>> /\ SubmitAll({e \in Listed : Ready(e)})
      /\ pc'["boot"] = "up" /\ pc["boot"] = "submit"
  BY ThreadsAssumption DEF BootSubmit, wrk, TypeOK, Threads
<1>2. ASSUME NEW e \in Ids
      PROVE  (Due(e)' => Due(e)) /\ (e \in Listed /\ Ready(e) => Due(e) /\ ~Due(e)')
  BY <1>1, NoQueueIsNoQueue DEF Due, Booting, Ready, Refs, ListedAreQueues
<1>3. \A e \in Ids : Owned(e)' => Owned(e)
  BY <1>1 DEF Owned
<1> QED  BY <1>1, <1>2, <1>3, CopiesSubmitted DEF CopiesInv

LEMMA CopiesByCrash ==
  ASSUME TypeOK, Crash, NEW e \in Ids
  PROVE  CopiesOf(e)'
<1>1. /\ pool'[e] = 0 /\ obj'[e] = NoQueue
      /\ \A w \in Workers : run'[w] = 0
      /\ \A c \in Clients : own'[c] = 0
  BY DEF Crash
<1>2. e # 0
  BY DEF Ids
<1>3. Takers(e)' = {} /\ ~Owned(e)' /\ ~Due(e)'
  BY <1>1, <1>2 DEF Takers, Owned, Due
<1>4. Cardinality(Takers(e)') = 0 /\ IsFiniteSet(Takers(e)')
  BY <1>3, FS_EmptySet
<1>5. OwnedOnce(e)' = 0 /\ DueOnce(e)' = 0
  BY <1>3 DEF OwnedOnce, DueOnce
<1> QED  BY <1>1, <1>4, <1>5 DEF CopiesOf

LEMMA CopiesByWorker ==
  ASSUME TypeOK, Refs, CopiesInv, NEW w \in Workers, Worker(w)
  PROVE  (\A e \in Ids : CopiesOf(e)') /\ IdleHoldNothing' /\ MonitorComesLast'
<1>1. UNCHANGED <<pc, own>>
  BY DEF Worker, Take, Execute, ExecuteThrows, Commit, Leave, Report, thr
<1>2. MonitorComesLast'
  BY <1>1 DEF CopiesInv, MonitorComesLast
<1>3. CASE \E x \in Ids : Take(w, x)
  <2>1. PICK x \in Ids : Take(w, x)
    BY <1>3
  <2>2. run[w] = 0
    BY <2>1 DEF Take, CopiesInv, IdleHoldNothing
  <2>3. IdleHoldNothing'
    BY <2>1 DEF Take, CopiesInv, IdleHoldNothing, TypeOK
  <2> QED  BY <1>2, <2>1, <2>2, <2>3, CopiesTaken DEF CopiesInv
<1>4. CASE run' = [run EXCEPT ![w] = 0] /\ wpc' = [wpc EXCEPT ![w] = "idle"] /\ UNCHANGED <<pool, obj>>
  <2>1. IdleHoldNothing'
    BY <1>4 DEF CopiesInv, IdleHoldNothing, TypeOK
  <2> QED  BY <1>1, <1>2, <1>4, <2>1, CopiesLeft DEF CopiesInv
<1>5. CASE UNCHANGED <<run, pool>> /\ (\E l \in WorkerPCs \ {"idle"} : wpc' = [wpc EXCEPT ![w] = l])
           /\ \A e \in Ids : obj'[e] = obj[e] \/ (obj'[e].rank = obj[e].rank /\ obj[e] # NoQueue)
  <2>1. IdleHoldNothing'
    BY <1>5 DEF CopiesInv, IdleHoldNothing, TypeOK
  <2>2. \A e \in Ids : CopiesOf(e)'
    BY <1>1, <1>5, CopiesStill DEF CopiesInv, Owned, Booting
  <2> QED  BY <1>2, <2>1, <2>2
<1>6. CASE ExecuteThrows(w) \/ Report(w) \/ (Leave(w) /\ ~IsListed(obj[run[w]].task))
  BY <1>4, <1>6 DEF ExecuteThrows, Report, Leave, mem
<1>7. CASE Commit(w) \/ (Leave(w) /\ IsListed(obj[run[w]].task))
  BY <1>5, <1>7 DEF Commit, Leave, mem, WorkerPCs
<1>8. ASSUME NEW o \in Outcomes, Execute(w, o)
      PROVE  UNCHANGED <<run, pool>> /\ wpc' = [wpc EXCEPT ![w] = "commit"]
             /\ \A e \in Ids : obj'[e] = obj[e] \/ (obj'[e].rank = obj[e].rank /\ obj[e] # NoQueue)
  <2>1. run[w] \in Ids /\ obj[run[w]] \in Queues /\ obj[run[w]] # NoQueue
    BY <1>8, RunFacts, NoQueueIsNoQueue DEF Execute, Refs
  <2>2. obj' = [obj EXCEPT ![run[w]].row = Ended(@, o)]
    BY <1>8 DEF Execute
  <2>3. obj'[run[w]].rank = obj[run[w]].rank
    BY <2>1, <2>2 DEF TypeOK, Queues
  <2>4. \A e \in Ids \ {run[w]} : obj'[e] = obj[e]
    BY <2>2 DEF TypeOK
  <2> QED  BY <1>8, <2>1, <2>3, <2>4 DEF Execute
<1> QED
  BY <1>3, <1>5, <1>6, <1>7, <1>8 DEF Worker, WorkerPCs

LEMMA CopiesInit == Init => CopiesInv
<1> SUFFICES ASSUME Init PROVE CopiesInv
  OBVIOUS
<1>1. TypeOK
  BY InitType
<1>2. ASSUME NEW e \in Ids PROVE CopiesOf(e)
  <2>1. pool[e] = 0 /\ Takers(e) = {} /\ ~Owned(e) /\ ~Due(e)
    BY DEF Init, Takers, Owned, Due, Ids
  <2>2. IsFiniteSet(Takers(e)) /\ Cardinality(Takers(e)) = 0
    BY <2>1, FS_EmptySet
  <2> QED  BY <2>1, <2>2 DEF CopiesOf, OwnedOnce, DueOnce
<1>3. IdleHoldNothing /\ MonitorComesLast
  BY ThreadsAssumption DEF Init, IdleHoldNothing, MonitorComesLast, Threads
<1> QED  BY <1>2, <1>3 DEF CopiesInv

\* Who moves but is no pool thread keeps the two facts about pool threads and the monitor.
LEMMA MonitorStaysLast ==
  ASSUME TypeOK, MonitorComesLast,
         \/ \E c \in Clients : ClientStep(c) \/ Request(c)
         \/ MonitorStep \/ BootStep
  PROVE  MonitorComesLast'
<1>1. CASE BootSubmit
  BY <1>1, ThreadsAssumption DEF BootSubmit, MonitorComesLast, TypeOK, Threads
<1>2. ASSUME NEW p \in Threads, NEW l, Goto(p, l), p = "monitor" => pc[p] # "off",
             p = "boot" => pc[p] # "up"
      PROVE  MonitorComesLast'
  BY <1>2, ThreadsAssumption DEF MonitorComesLast, TypeOK, Threads, Goto
<1>3. CASE UNCHANGED pc
  BY <1>3 DEF MonitorComesLast
<1>4. ASSUME NEW c \in Clients, ClientStep(c) \/ Request(c)
      PROVE  UNCHANGED pc \/ \E l : Goto(c, l)
  BY <1>4 DEF ClientStep, PrivateWrite, PrivateIsFull, PrivateRank, PrivateAdd, Refresh, ModifyFirst,
     ModifyCheck, ModifyAll, BatchWrite, PrivateSubmit, ExportFind, SwitchTask, VipWrite, VipRemove,
     VipSubmit, KillWrite, KillRemove, Request, PrivateFind, Find, ExportInsert, VipFind, KillFind,
     DeleteTask, EditContent, RowUpdate, ConvertAuto, thr
<1>5. CASE MonitorStep
  <2>1. (\E l : Goto("monitor", l)) /\ pc["monitor"] # "off"
    BY <1>5 DEF MonitorStep, MonitorCheck, MonitorUpdate, Refresh, ModifyFirst, ModifyCheck,
                ModifyAll, BatchWrite
  <2> QED  BY <1>2, <2>1, ThreadsAssumption DEF Threads
<1>6. CASE BootStep /\ ~BootSubmit
  <2>1. UNCHANGED pc \/ ((\E l : Goto("boot", l)) /\ pc["boot"] # "up")
    BY <1>6, BootOnlyReads DEF BootStep, BootReads, Booting, BootEnqueue, Refresh, ModifyFirst,
                ModifyCheck, ModifyAll, BatchWrite
  <2> QED  BY <1>2, <1>3, <2>1, ThreadsAssumption DEF Threads
<1> QED
  BY <1>1, <1>2, <1>3, <1>4, <1>5, <1>6, ClientIsThread, ThreadsAssumption

LEMMA CopiesStep ==
  ASSUME TypeOK, Refs, HandedInv, CopiesInv, [Next]_vars
  PROVE  CopiesInv'
<1>1. ASSUME NEW c \in Clients, ClientStep(c) \/ Request(c)
      PROVE  \A e \in Ids : CopiesOf(e)'
  BY <1>1, CopiesByClient, CopiesByRefresh, CopiesByRequest, CopiesBySubmit, ClientIsThread
     DEF ClientStep
<1>2. ASSUME MonitorStep PROVE \A e \in Ids : CopiesOf(e)'
  <2>1. CASE MonitorCheck
    <3>1. UNCHANGED <<pool, run, obj, own>> /\ Goto("monitor", "update")
      BY <2>1 DEF MonitorCheck, mem, wrk
    <3>2. Booting' <=> Booting
      BY <3>1, BootGoesOn, ThreadsAssumption DEF Threads
    <3> QED  BY <3>1, <3>2, CopiesStill DEF CopiesInv, Owned
  <2> QED  BY <1>2, <2>1, CopiesByMonitor, CopiesByRefresh DEF MonitorStep, Threads
<1>3. ASSUME BootStep PROVE \A e \in Ids : CopiesOf(e)'
  <2>1. CASE BootReads
    <3>1. UNCHANGED <<pool, run, obj, own>> /\ Booting
      BY <2>1, BootOnlyReads DEF mem, wrk
    <3> QED  BY <3>1, CopiesStill DEF CopiesInv, Owned
  <2>2. ASSUME NEW t \in Tasks, BootEnqueue(t)
        PROVE  \A e \in Ids : CopiesOf(e)'
    <3>1. PICK x \in Ids : Fresh(x) /\ \E q : obj' = [obj EXCEPT ![x] = q]
      BY <2>2 DEF BootEnqueue
    <3>2. UNCHANGED <<pool, run, own, pc>>
      BY <2>2 DEF BootEnqueue, wrk
    <3>3. \A e \in Ids \ {x} : obj'[e] = obj[e]
      BY <3>1 DEF TypeOK
    <3> QED  BY <3>1, <3>2, <3>3, CopiesByNew DEF Owned, Booting, Fresh
  <2> QED
    BY <1>3, <2>1, <2>2, CopiesByBootSubmit, CopiesByRefresh DEF BootStep, BootReads, Threads
<1>4. CASE Crash
  <2>1. IdleHoldNothing' /\ MonitorComesLast'
    BY <1>4, ThreadsAssumption DEF Crash, IdleHoldNothing, MonitorComesLast, Threads
  <2> QED  BY <1>4, <2>1, CopiesByCrash DEF CopiesInv
<1>5. CASE UNCHANGED vars
  <2>1. UNCHANGED <<pool, run, obj, own, pc, wpc>>
    BY <1>5 DEF vars, mem, thr, wrk
  <2> QED
    BY <2>1, CopiesStill DEF CopiesInv, Owned, Booting, IdleHoldNothing, MonitorComesLast
<1>6. CASE (\E c \in Clients : ClientStep(c) \/ Request(c)) \/ MonitorStep \/ BootStep
  <2>1. IdleHoldNothing'
    <3>1. ASSUME NEW p \in Threads, Refresh(p) PROVE UNCHANGED wrk
      BY <3>1 DEF Refresh, ModifyFirst, ModifyCheck, ModifyAll, BatchWrite
    <3>2. ASSUME NEW c \in Clients, ClientStep(c) PROVE UNCHANGED wrk
      BY <3>1, <3>2, ClientIsThread
         DEF ClientStep, PrivateWrite, PrivateIsFull, PrivateRank, PrivateAdd, PrivateSubmit,
             ExportFind, SwitchTask, VipWrite, VipRemove, VipSubmit, KillWrite, KillRemove, Find
    <3>3. ASSUME NEW c \in Clients, Request(c) PROVE UNCHANGED wrk
      BY <3>3 DEF Request, PrivateFind, Find, ExportInsert, VipFind, KillFind, DeleteTask,
                  EditContent, RowUpdate, ConvertAuto
    <3>4. ASSUME MonitorStep \/ BootStep PROVE UNCHANGED wrk
      BY <3>1, <3>4, BootOnlyReads DEF MonitorStep, MonitorCheck, MonitorUpdate, BootStep, BootReads,
                        BootEnqueue, BootSubmit, Threads
    <3>5. UNCHANGED <<wpc, run>>
      BY <1>6, <3>2, <3>3, <3>4 DEF wrk
    <3> QED  BY <3>5 DEF CopiesInv, IdleHoldNothing
  <2>2. MonitorComesLast'
    BY <1>6, MonitorStaysLast DEF CopiesInv
  <2> QED  BY <1>1, <1>2, <1>3, <1>6, <2>1, <2>2 DEF CopiesInv
<1> QED
  BY <1>4, <1>5, <1>6, CopiesByWorker DEF Next, CopiesInv

\* No entry is in the pool and with pool threads more than twice, whatever the
\* monitor, the boot and the thread that added it see of its rank, and in whatever
\* order.
THEOREM AtMostTwiceHolds == Spec => []AtMostTwice
<1>1. Init => Inv /\ CopiesInv
  BY InitType, InitRefs, InitCalls, InitEarned, InitMaps, CopiesInit DEF Inv
<1>2. Inv /\ CopiesInv /\ [Next]_vars => (Inv /\ CopiesInv)'
  BY StepMaps, CopiesStep DEF Inv
<1>3. TypeOK /\ CopiesInv => AtMostTwice
  <2> SUFFICES ASSUME TypeOK, CopiesInv, NEW e \in Ids
               PROVE  pool[e] + Cardinality({w \in Workers : run[w] = e}) <= 2
    BY DEF AtMostTwice
  <2>1. Cardinality(Takers(e)) \in Nat /\ pool[e] \in Nat
    BY FS_CardinalityType DEF CopiesInv, CopiesOf, TypeOK
  <2>2. OwnedOnce(e) \in {0, 1} /\ DueOnce(e) \in {0, 1}
    BY DEF OwnedOnce, DueOnce
  <2>3. pool[e] + Cardinality(Takers(e)) <= 2
    BY <2>1, <2>2 DEF CopiesInv, CopiesOf
  <2> QED  BY <2>3 DEF Takers
<1> QED  BY <1>1, <1>2, <1>3, PTL DEF Spec, Inv

-----------------------------------------------------------------------------
\* Notices.  A run that is told to send one has taken an entry of its task out of
\* the list, which nobody else is told of.

\* Taking out the element at a position moves those behind it up.
LEMMA RemoveAtEntries ==
  ASSUME NEW S, NEW s \in Seq(S), NEW i \in 1 .. Len(s)
  PROVE  /\ Len(RemoveAt(s, i)) = Len(s) - 1 /\ RemoveAt(s, i) \in Seq(S)
         /\ \A k \in 1 .. Len(s) - 1 : RemoveAt(s, i)[k] = IF k < i THEN s[k] ELSE s[k + 1]
<1> DEFINE a == SubSeq(s, 1, i - 1)
           b == SubSeq(s, i + 1, Len(s))
<1>1. a \in Seq(S) /\ Len(a) = i - 1 /\ \A k \in 1 .. i - 1 : a[k] = s[k]
  OBVIOUS
<1>2. b \in Seq(S) /\ Len(b) = Len(s) - i /\ \A k \in 1 .. Len(s) - i : b[k] = s[k + i]
  OBVIOUS
<1>3. RemoveAt(s, i) = a \o b
  BY DEF RemoveAt
<1> HIDE DEF a, b
<1>4. /\ a \o b \in Seq(S) /\ Len(a \o b) = Len(a) + Len(b)
      /\ \A k \in 1 .. Len(a) + Len(b) : (a \o b)[k] = IF k <= Len(a) THEN a[k] ELSE b[k - Len(a)]
  BY <1>1, <1>2, ConcatProperties, Zenon
<1>5. Len(a) = i - 1 /\ Len(a) + Len(b) = Len(s) - 1 /\ Len(s) \in Nat
  BY <1>1, <1>2
<1>6. ASSUME NEW k \in 1 .. Len(s) - 1
      PROVE  RemoveAt(s, i)[k] = IF k < i THEN s[k] ELSE s[k + 1]
  <2>1. RemoveAt(s, i)[k] = IF k <= i - 1 THEN a[k] ELSE b[k - (i - 1)]
    BY <1>3, <1>4, <1>5
  <2>2. CASE k < i
    <3>1. k \in 1 .. i - 1
      BY <2>2
    <3> QED  BY <1>1, <2>1, <2>2, <3>1
  <2>3. CASE ~(k < i)
    <3>1. k - (i - 1) \in 1 .. Len(s) - i /\ k - (i - 1) + i = k + 1 /\ ~(k <= i - 1)
      BY <1>5, <2>3
    <3>2. b[k - (i - 1)] = s[k + 1]
      BY <1>2, <3>1
    <3> QED  BY <2>1, <2>3, <3>1, <3>2
  <2> QED  BY <2>2, <2>3
<1> QED  BY <1>3, <1>4, <1>5, <1>6

Distinct(s) == \A i, j \in 1 .. Len(s) : s[i] = s[j] => i = j

LEMMA RemoveAtDistinct ==
  ASSUME NEW S, NEW s \in Seq(S), NEW i \in 1 .. Len(s), Distinct(s)
  PROVE  Distinct(RemoveAt(s, i)) /\ s[i] \notin Range(RemoveAt(s, i))
<1> DEFINE r == RemoveAt(s, i)
<1>1. /\ Len(r) = Len(s) - 1 /\ DOMAIN r = 1 .. Len(s) - 1 /\ Len(s) \in Nat
      /\ \A k \in 1 .. Len(s) - 1 : r[k] = IF k < i THEN s[k] ELSE s[k + 1]
  BY RemoveAtEntries
<1> HIDE DEF r
<1> DEFINE From(k) == IF k < i THEN k ELSE k + 1
<1>2. ASSUME NEW k \in 1 .. Len(s) - 1
      PROVE  From(k) \in 1 .. Len(s) /\ From(k) # i /\ r[k] = s[From(k)]
  BY <1>1
<1>3. ASSUME NEW j \in 1 .. Len(s) - 1, NEW k \in 1 .. Len(s) - 1, From(j) = From(k)
      PROVE  j = k
  BY <1>3
<1> HIDE DEF From
<1>4. Distinct(r)
  BY <1>1, <1>2, <1>3 DEF Distinct
<1>5. \A k \in 1 .. Len(s) - 1 : r[k] # s[i]
  BY <1>2 DEF Distinct
<1> QED  BY <1>1, <1>4, <1>5 DEF r, Range

\* TaskQueue.remove takes one entry of the task, if there is one.
LEMMA WithoutTakesTask ==
  ASSUME TypeOK, Distinct(queue), NEW t, queue' = Without(t)
  PROVE  /\ Distinct(queue')
         /\ IF IsListed(t) THEN \E x \in Listed : obj[x].task = t /\ Listed' = Listed \ {x}
                           ELSE queue' = queue
<1> DEFINE I == {i \in 1 .. Len(queue) : obj[queue[i]].task = t}
<1>0. queue \in Seq(Ids) /\ Len(queue) \in Nat /\ I \in SUBSET (1 .. Len(queue))
  BY DEF TypeOK
<1>1. IsListed(t) <=> I # {}
  BY <1>0 DEF IsListed, Listed, Range
<1>2. CASE I = {}
  BY <1>1, <1>2 DEF Without, RemoveFirstMatch
<1>3. CASE I # {}
  <2>1. Without(t) = RemoveAt(queue, Min(I))
    BY <1>3 DEF Without, RemoveFirstMatch, SelectInSeq
  <2> HIDE DEF I
  <2>2. PICK m \in I : m = Min(I)
    BY <1>0, <1>3, MinMaxOfIndices
  <2>3. m \in 1 .. Len(queue) /\ obj[queue[m]].task = t
    BY <1>0, <2>2 DEF I
  <2>4. /\ Distinct(queue') /\ queue[m] \notin Range(queue')
        /\ Range(queue) \ {queue[m]} \subseteq Range(queue') /\ Range(queue') \subseteq Range(queue)
    BY <1>0, <2>1, <2>2, <2>3, RemoveAtDistinct, RemoveAtKeeps, RemoveAtShrinks
  <2>5. queue[m] \in Range(queue)
    BY <1>0, <2>3 DEF Range
  <2> QED  BY <1>1, <1>3, <2>3, <2>4, <2>5 DEF Listed
<1> QED  BY <1>2, <1>3

LEMMA AppendDistinct ==
  ASSUME queue \in Seq(Ids), Distinct(queue), NEW x \in Ids, x \notin Listed, queue' = Append(queue, x)
  PROVE  Distinct(queue')
<1>1. /\ Len(queue') = Len(queue) + 1 /\ Len(queue) \in Nat
      /\ \A k \in 1 .. Len(queue) : queue'[k] = queue[k]
      /\ queue'[Len(queue) + 1] = x
  OBVIOUS
<1>2. \A k \in 1 .. Len(queue) : queue[k] # x
  BY DEF Listed, Range
<1>3. \A k \in 1 .. Len(queue') : k \in 1 .. Len(queue) \/ k = Len(queue) + 1
  BY <1>1
<1> QED  BY <1>1, <1>2, <1>3 DEF Distinct
-----------------------------------------------------------------------------
EntriesOf(t) == {e \in Listed : obj[e].task = t}
Reporting(t) == {w \in Workers : wpc[w] = "report" /\ obj[run[w]].task = t}
NoticesOf(t) ==
  /\ IsFiniteSet(Reporting(t))
  /\ mails[t] + Cardinality(Reporting(t)) + Cardinality(EntriesOf(t)) <= added[t]
NoticeInv == Distinct(queue) /\ \A t \in Tasks : NoticesOf(t)

LEMMA ListedFinite ==
  ASSUME queue \in Seq(Ids), NEW t
  PROVE  IsFiniteSet(EntriesOf(t)) /\ Cardinality(EntriesOf(t)) \in Nat
<1>1. EntriesOf(t) \in SUBSET Ids
  BY DEF EntriesOf, Listed, Range
<1>2. IsFiniteSet(Ids)
  BY FS_Interval, BoundsAssumption DEF Ids
<1> QED  BY <1>1, <1>2, FS_Subset, FS_CardinalityType

\* A step that adds no entry and sends nobody to report.
LEMMA NoticesStill ==
  ASSUME TypeOK, NEW t \in Tasks, NoticesOf(t), UNCHANGED <<mails, added>>, queue' \in Seq(Ids),
         EntriesOf(t)' \subseteq EntriesOf(t), Reporting(t)' \subseteq Reporting(t)
  PROVE  NoticesOf(t)'
<1>1. IsFiniteSet(EntriesOf(t)) /\ IsFiniteSet(Reporting(t)) /\ queue \in Seq(Ids)
      /\ mails[t] \in Nat /\ added[t] \in Nat
  BY ListedFinite DEF NoticesOf, TypeOK
<1>2. /\ IsFiniteSet(Reporting(t)') /\ Cardinality(Reporting(t)') <= Cardinality(Reporting(t))
      /\ Cardinality(EntriesOf(t)') <= Cardinality(EntriesOf(t)) /\ IsFiniteSet(EntriesOf(t)')
  BY <1>1, FS_Subset
<1>3. {Cardinality(Reporting(t)), Cardinality(Reporting(t)'),
       Cardinality(EntriesOf(t)), Cardinality(EntriesOf(t)')} \subseteq Nat
  BY <1>1, <1>2, FS_CardinalityType
<1> QED  BY <1>1, <1>2, <1>3 DEF NoticesOf

TasksStay == \A e \in Ids : e \in Listed \/ Held(e) => obj'[e].task = obj[e].task
NobodyReports == \A w \in Workers : wpc'[w] = "report" => wpc[w] = "report" /\ run'[w] = run[w]

LEMMA ReportingStay ==
  ASSUME TypeOK, Refs, TasksStay, NobodyReports, NEW t
  PROVE  Reporting(t)' \subseteq Reporting(t)
<1>1. \A w \in Workers : wpc[w] = "report" => run[w] \in Ids /\ Held(run[w])
  BY DEF Refs, BusyWorkersHold, Held
<1> QED  BY <1>1 DEF Reporting, TasksStay, NobodyReports

LEMMA NoticesQuiet ==
  ASSUME TypeOK, Refs, NoticeInv, TasksStay, NobodyReports, UNCHANGED <<mails, added>>,
         queue' = queue \/ \E t : queue' = Without(t)
  PROVE  NoticeInv'
<1>1. Distinct(queue') /\ Listed' \subseteq Listed /\ queue' \in Seq(Ids)
  <2>1. queue \in Seq(Ids)
    BY DEF TypeOK
  <2>2. ASSUME NEW t, queue' = Without(t)
        PROVE  Distinct(queue') /\ Listed' \subseteq Listed /\ queue' \in Seq(Ids)
    BY <2>1, <2>2, WithoutTakesTask, WithoutShrinks DEF NoticeInv, Listed
  <2> QED  BY <2>1, <2>2 DEF NoticeInv, Listed
<1>2. ASSUME NEW t \in Tasks PROVE NoticesOf(t)'
  <2>1. Listed \subseteq Ids
    BY DEF TypeOK, Listed, Range
  <2>2. EntriesOf(t)' \subseteq EntriesOf(t)
    BY <1>1, <2>1 DEF EntriesOf, TasksStay
  <2> QED  BY <1>1, <2>2, ReportingStay, NoticesStill DEF NoticeInv
<1> QED  BY <1>1, <1>2 DEF NoticeInv

\* An entry is added.
LEMMA NoticesEnter ==
  ASSUME TypeOK, Refs, NoticeInv, TasksStay, NobodyReports, UNCHANGED mails,
         NEW x \in Ids, x \notin Listed, queue' = Append(queue, x),
         NEW u \in Tasks, obj'[x].task = u, added' = [added EXCEPT ![u] = @ + 1]
  PROVE  NoticeInv'
<1>1. queue \in Seq(Ids) /\ queue' \in Seq(Ids) /\ Listed \subseteq Ids
  BY DEF TypeOK, Listed, Range
<1>2. Distinct(queue') /\ Listed' = Listed \cup {x}
  BY <1>1, AppendDistinct, RangeOfAppend DEF NoticeInv, Listed
<1>3. ASSUME NEW t \in Tasks PROVE NoticesOf(t)'
  <2>1. Reporting(t)' \subseteq Reporting(t) /\ NoticesOf(t) /\ IsFiniteSet(Reporting(t))
    BY ReportingStay DEF NoticeInv, NoticesOf
  <2>2. /\ IsFiniteSet(Reporting(t)') /\ Cardinality(Reporting(t)') <= Cardinality(Reporting(t))
        /\ Cardinality(Reporting(t)') \in Nat /\ Cardinality(Reporting(t)) \in Nat
    BY <2>1, FS_Subset, FS_CardinalityType
  <2>3. IsFiniteSet(EntriesOf(t)) /\ Cardinality(EntriesOf(t)) \in Nat
        /\ mails[t] \in Nat /\ added[t] \in Nat
    BY <1>1, ListedFinite DEF TypeOK
  <2>4. CASE t = u
    <3>1. EntriesOf(t)' = EntriesOf(t) \cup {x}
      BY <1>1, <1>2, <2>4 DEF EntriesOf, TasksStay
    <3>2. Cardinality(EntriesOf(t) \cup {x}) \in {Cardinality(EntriesOf(t)), Cardinality(EntriesOf(t)) + 1}
      BY <2>3, FS_AddElement
    <3>3. added'[t] = added[t] + 1
      BY <2>4 DEF TypeOK
    <3> QED  BY <2>1, <2>2, <2>3, <3>1, <3>2, <3>3 DEF NoticesOf
  <2>5. CASE t # u
    <3>1. EntriesOf(t)' = EntriesOf(t)
      BY <1>1, <1>2, <2>5 DEF EntriesOf, TasksStay
    <3>2. added'[t] = added[t]
      BY <2>5 DEF TypeOK
    <3> QED  BY <2>1, <2>2, <2>3, <3>1, <3>2 DEF NoticesOf
  <2> QED  BY <2>4, <2>5
<1> QED  BY <1>2, <1>3 DEF NoticeInv

\* A run leaves the list: it is told to report if it has taken out an entry.
LEMMA NoticesLeave ==
  ASSUME TypeOK, Refs, NoticeInv, NEW w \in Workers, Leave(w)
  PROVE  NoticeInv'
<1>1. UNCHANGED <<obj, mails, added>> /\ wpc[w] = "remove"
  BY DEF Leave
<1>2. PICK u : u = obj[run[w]].task
  OBVIOUS
<1>3. queue' = Without(u)
  BY <1>2 DEF Leave
<1>4. CASE ~IsListed(u)
  <2>1. NobodyReports /\ TasksStay
    BY <1>1, <1>2, <1>4 DEF Leave, TypeOK, NobodyReports, TasksStay
  <2> QED  BY <1>1, <1>3, <2>1, NoticesQuiet
<1>5. CASE IsListed(u)
  <2>1. wpc' = [wpc EXCEPT ![w] = "report"] /\ UNCHANGED run
    BY <1>2, <1>5 DEF Leave
  <2>2. PICK x \in Listed : obj[x].task = u /\ Listed' = Listed \ {x}
    BY <1>3, <1>5, WithoutTakesTask DEF NoticeInv
  <2>3. Distinct(queue')
    BY <1>3, WithoutTakesTask DEF NoticeInv
  <2>4. ASSUME NEW t \in Tasks PROVE NoticesOf(t)'
    <3>1. NoticesOf(t) /\ IsFiniteSet(Reporting(t)) /\ Cardinality(Reporting(t)) \in Nat
          /\ IsFiniteSet(EntriesOf(t)) /\ Cardinality(EntriesOf(t)) \in Nat
          /\ mails[t] \in Nat /\ added[t] \in Nat
      BY ListedFinite, FS_CardinalityType DEF TypeOK, NoticeInv, NoticesOf
    <3>2. CASE t = u
      <4>1. Reporting(t)' = Reporting(t) \cup {w} /\ w \notin Reporting(t)
        BY <1>1, <1>2, <2>1, <3>2 DEF Reporting, TypeOK
      <4>2. EntriesOf(t)' = EntriesOf(t) \ {x} /\ x \in EntriesOf(t)
        BY <1>1, <2>2, <3>2 DEF EntriesOf
      <4>3. /\ IsFiniteSet(Reporting(t) \cup {w})
            /\ Cardinality(Reporting(t) \cup {w}) = Cardinality(Reporting(t)) + 1
        BY <3>1, <4>1, FS_AddElement
      <4>4. Cardinality(EntriesOf(t) \ {x}) = Cardinality(EntriesOf(t)) - 1
        BY <3>1, <4>2, FS_RemoveElement
      <4> QED  BY <1>1, <3>1, <4>1, <4>2, <4>3, <4>4 DEF NoticesOf
    <3>3. CASE t # u
      <4>1. Reporting(t)' = Reporting(t)
        BY <1>1, <1>2, <2>1, <3>3 DEF Reporting, TypeOK
      <4>2. EntriesOf(t)' = EntriesOf(t)
        BY <1>1, <2>2, <3>3 DEF EntriesOf
      <4> QED  BY <1>1, <3>1, <4>1, <4>2 DEF NoticesOf
    <3> QED  BY <3>2, <3>3
  <2> QED  BY <2>3, <2>4 DEF NoticeInv
<1> QED  BY <1>4, <1>5

\* A notice is sent, or not, as the Task object says.
LEMMA NoticesReport ==
  ASSUME TypeOK, Refs, NoticeInv, NEW w \in Workers, Report(w)
  PROVE  NoticeInv'
<1>1. UNCHANGED <<obj, added, queue>> /\ wpc[w] = "report" /\ wpc' = [wpc EXCEPT ![w] = "idle"]
      /\ run' = [run EXCEPT ![w] = 0]
  BY DEF Report, mem
<1>2. PICK u : u = obj[run[w]].task
  OBVIOUS
<1>3. mails' = mails \/ mails' = [mails EXCEPT ![u] = @ + 1]
  BY <1>2 DEF Report
<1>4. ASSUME NEW t \in Tasks PROVE NoticesOf(t)'
  <2>1. NoticesOf(t) /\ IsFiniteSet(Reporting(t)) /\ Cardinality(Reporting(t)) \in Nat
        /\ Cardinality(EntriesOf(t)) \in Nat /\ mails[t] \in Nat /\ added[t] \in Nat
    BY ListedFinite, FS_CardinalityType DEF TypeOK, NoticeInv, NoticesOf
  <2>2. EntriesOf(t)' = EntriesOf(t)
    BY <1>1 DEF EntriesOf, Listed
  <2>3. Reporting(t)' = Reporting(t) \ {w}
    BY <1>1 DEF Reporting, TypeOK
  <2>4. CASE t = u
    <3>1. w \in Reporting(t)
      BY <1>1, <1>2, <2>4 DEF Reporting
    <3>2. IsFiniteSet(Reporting(t)') /\ Cardinality(Reporting(t)') = Cardinality(Reporting(t)) - 1
      BY <2>1, <2>3, <3>1, FS_RemoveElement
    <3>3. mails'[t] = mails[t] \/ mails'[t] = mails[t] + 1
      BY <1>3, <2>4 DEF TypeOK
    <3> QED  BY <1>1, <2>1, <2>2, <3>2, <3>3 DEF NoticesOf
  <2>5. CASE t # u
    <3>1. w \notin Reporting(t)
      BY <1>2, <2>5 DEF Reporting
    <3>2. Reporting(t)' = Reporting(t)
      BY <2>3, <3>1
    <3>3. mails'[t] = mails[t]
      BY <1>3, <2>5 DEF TypeOK
    <3> QED  BY <1>1, <2>1, <2>2, <3>2, <3>3 DEF NoticesOf
  <2> QED  BY <2>4, <2>5
<1> QED  BY <1>1, <1>4 DEF NoticeInv

\* Steps that change one object which is not in the list and which nobody runs,
\* or give the listed ones another status, row or rank.
LEMMA OneChanges ==
  ASSUME TypeOK, NEW x \in Ids, x \notin Listed, ~Held(x), NEW q, obj' = [obj EXCEPT ![x] = q]
  PROVE  TasksStay
  BY DEF TasksStay, TypeOK

LEMMA NoticesByClient ==
  ASSUME TypeOK, Refs, HandedInv, NoticeInv, NEW c \in Clients, ClientStep(c) \/ Request(c)
  PROVE  NoticeInv'
<1>1. NobodyReports /\ UNCHANGED mails
  <2>1. UNCHANGED wrk
    <3>1. ASSUME NEW p \in Threads, Refresh(p) PROVE UNCHANGED wrk
      BY <3>1 DEF Refresh, ModifyFirst, ModifyCheck, ModifyAll, BatchWrite
    <3>2. ASSUME ClientStep(c) PROVE UNCHANGED wrk
      BY <3>1, <3>2, ClientIsThread
         DEF ClientStep, PrivateWrite, PrivateIsFull, PrivateRank, PrivateAdd, PrivateSubmit,
             ExportFind, SwitchTask, VipWrite, VipRemove, VipSubmit, KillWrite, KillRemove, Find
    <3>3. ASSUME Request(c) PROVE UNCHANGED wrk
      BY <3>3 DEF Request, PrivateFind, Find, ExportInsert, VipFind, KillFind, DeleteTask,
                  EditContent, RowUpdate, ConvertAuto
    <3> QED  BY <3>2, <3>3
  <2> QED  BY <2>1 DEF wrk, NobodyReports
<1>2. CASE PrivateAdd(c)
  <2>1. own[c] \in Ids /\ own[c] \notin Listed /\ obj[own[c]] \in Queues
    BY <1>2 DEF PrivateAdd, Refs, OwnIsQueue, OwnIsPrivate, PrivatePCs
  <2>2. PICK x \in Ids : x = own[c] /\ x \notin Listed /\ obj[x].task \in Tasks
    BY <2>1 DEF Queues
  <2>3. /\ UNCHANGED obj /\ queue' = Append(queue, x) /\ TasksStay
        /\ added' = [added EXCEPT ![obj[x].task] = @ + 1]
    BY <1>2, <2>2 DEF PrivateAdd, TasksStay
  <2>4. PICK u \in Tasks : u = obj[x].task
    BY <2>2
  <2> QED  BY <1>1, <2>2, <2>3, <2>4, NoticesEnter
<1>3. CASE Refresh(c)
  <2>1. UNCHANGED <<added, queue>> /\ (obj' = obj \/ obj' = Modified)
    BY <1>3 DEF Refresh, ModifyFirst, ModifyCheck, ModifyAll, BatchWrite, mem
  <2>2. TasksStay
    BY <2>1, ModifiedType DEF TasksStay, Refs, ListedAreQueues, HeldAreReady
  <2> QED  BY <1>1, <2>1, <2>2, NoticesQuiet
<1>4. CASE PrivateRank(c) \/ KillRemove(c)
  <2>1. PICK x \in Ids : x = own[c] /\ x \notin Listed /\ ~Held(x)
    BY <1>4 DEF PrivateRank, KillRemove, Refs, OwnIsQueue, OwnIsPrivate, PrivatePCs
  <2>2. \E q : obj' = [obj EXCEPT ![x] = q]
    <3>1. CASE PrivateRank(c)
      <4>1. obj' = [obj EXCEPT ![x] = [obj[x] EXCEPT !.rank = getPrivateRank, !.status = "Queue"]]
        BY <2>1, <3>1 DEF PrivateRank, TypeOK
      <4> QED  BY <4>1
    <3> QED  BY <1>4, <2>1, <3>1 DEF KillRemove
  <2>3. UNCHANGED added /\ (queue' = queue \/ \E t : queue' = Without(t))
    BY <1>4 DEF PrivateRank, KillRemove
  <2> QED  BY <1>1, <2>1, <2>2, <2>3, OneChanges, NoticesQuiet
<1>5. CASE UNCHANGED <<obj, added>> /\ (queue' = queue \/ \E t : queue' = Without(t))
  BY <1>1, <1>5, NoticesQuiet DEF TasksStay
<1>6. CASE PrivateWrite(c) \/ PrivateIsFull(c) \/ PrivateSubmit(c) \/ SwitchTask(c)
           \/ VipWrite(c) \/ VipRemove(c) \/ VipSubmit(c) \/ KillWrite(c)
  BY <1>5, <1>6 DEF PrivateWrite, PrivateIsFull, PrivateSubmit, SwitchTask, VipWrite, VipRemove,
                    VipSubmit, KillWrite, mem
<1>7. CASE Request(c) \/ ExportFind(c)
  <2>1. UNCHANGED <<queue, added>>
    BY <1>7 DEF Request, ExportFind, PrivateFind, Find, ExportInsert, VipFind, KillFind, DeleteTask,
                EditContent, RowUpdate, ConvertAuto, mem
  <2>2. UNCHANGED obj \/ \E x \in Ids : obj[x] = NoQueue /\ \E q : obj' = [obj EXCEPT ![x] = q]
    BY <1>7 DEF Request, ExportFind, PrivateFind, Find, ExportInsert, VipFind, KillFind, DeleteTask,
                EditContent, RowUpdate, ConvertAuto, mem, CallFresh, Fresh
  <2>3. TasksStay
    BY <2>2, FreshFacts, OneChanges DEF TasksStay
  <2> QED  BY <1>1, <2>1, <2>3, NoticesQuiet
<1> QED  BY <1>2, <1>3, <1>4, <1>6, <1>7 DEF ClientStep

LEMMA NoticesByWorker ==
  ASSUME TypeOK, Refs, NoticeInv, NEW w \in Workers, Worker(w)
  PROVE  NoticeInv'
<1>1. CASE (\E e \in Ids : Take(w, e)) \/ ExecuteThrows(w) \/ Commit(w)
  <2>1. UNCHANGED <<obj, queue, mails, added>> /\ TasksStay
    BY <1>1 DEF Take, ExecuteThrows, Commit, mem, TasksStay
  <2>2. NobodyReports
    BY <1>1 DEF Take, ExecuteThrows, Commit, NobodyReports, TypeOK
  <2> QED  BY <2>1, <2>2, NoticesQuiet
<1>2. ASSUME NEW o \in Outcomes, Execute(w, o) PROVE NoticeInv'
  <2>1. UNCHANGED <<queue, mails, added, run>> /\ wpc' = [wpc EXCEPT ![w] = "commit"]
    BY <1>2 DEF Execute
  <2>2. NobodyReports
    BY <2>1 DEF NobodyReports, TypeOK
  <2>3. run[w] \in Ids /\ obj[run[w]] \in Queues
    BY <1>2, RunFacts DEF Execute, Refs
  <2>4. obj' = [obj EXCEPT ![run[w]].row = Ended(@, o)]
    BY <1>2 DEF Execute
  <2>5. \A e \in Ids : obj'[e].task = obj[e].task
    BY <2>3, <2>4 DEF TypeOK, Queues
  <2> QED  BY <2>1, <2>2, <2>5, NoticesQuiet DEF TasksStay
<1> QED  BY <1>1, <1>2, NoticesLeave, NoticesReport DEF Worker

LEMMA NoticesByOthers ==
  ASSUME TypeOK, Refs, HandedInv, NoticeInv, MonitorStep \/ BootStep \/ Crash \/ UNCHANGED vars
  PROVE  NoticeInv'
<1>1. ASSUME NEW p \in Threads, Refresh(p) PROVE NoticeInv'
  <2>1. UNCHANGED <<added, queue, wrk>> /\ (obj' = obj \/ obj' = Modified)
    BY <1>1 DEF Refresh, ModifyFirst, ModifyCheck, ModifyAll, BatchWrite, mem
  <2>2. TasksStay
    BY <2>1, ModifiedType DEF TasksStay, Refs, ListedAreQueues, HeldAreReady
  <2> QED  BY <2>1, <2>2, NoticesQuiet DEF wrk, NobodyReports
<1>2. CASE MonitorCheck \/ BootReads \/ BootSubmit \/ UNCHANGED vars
  <2>1. UNCHANGED <<added, queue, wrk, obj>>
    BY <1>2, BootOnlyReads DEF MonitorCheck, BootSubmit, vars, mem
  <2> QED  BY <2>1, NoticesQuiet DEF wrk, NobodyReports, TasksStay
<1>3. CASE MonitorUpdate
  <2>1. /\ UNCHANGED <<added, queue, wrk>>
        /\ \A e \in Ids : obj'[e] = IF e \in Listed THEN Advanced(obj[e]) ELSE obj[e]
    BY <1>3 DEF MonitorUpdate
  <2>2. TasksStay
    BY <2>1, AdvancedType DEF TasksStay, Refs, ListedAreQueues
  <2> QED  BY <2>1, <2>2, NoticesQuiet DEF wrk, NobodyReports
<1>4. ASSUME NEW u \in Tasks, BootEnqueue(u) PROVE NoticeInv'
  <2>1. PICK x \in Ids : /\ Fresh(x) /\ queue' = Append(queue, x)
                         /\ \E q : q.task = u /\ obj' = [obj EXCEPT ![x] = q]
    BY <1>4 DEF BootEnqueue, Entry
  <2>2. x \notin Listed /\ TasksStay
    BY <2>1, FreshFacts, OneChanges DEF Fresh
  <2>3. obj'[x].task = u
    BY <2>1 DEF TypeOK
  <2>4. added' = [added EXCEPT ![u] = @ + 1] /\ UNCHANGED wrk
    BY <1>4 DEF BootEnqueue
  <2> QED  BY <2>1, <2>2, <2>3, <2>4, NoticesEnter DEF wrk, NobodyReports
<1>5. CASE Crash
  <2>1. queue' = <<>> /\ UNCHANGED <<added, mails>> /\ (\A w \in Workers : wpc'[w] = "idle")
    BY <1>5 DEF Crash
  <2>2. Distinct(queue') /\ Listed' = {} /\ queue' \in Seq(Ids)
    BY <2>1 DEF Distinct, Listed, Range
  <2>3. ASSUME NEW t \in Tasks PROVE NoticesOf(t)'
    <3>1. EntriesOf(t)' = {} /\ Reporting(t)' = {}
      BY <2>1, <2>2 DEF EntriesOf, Reporting
    <3> QED  BY <2>1, <2>2, <3>1, NoticesStill DEF NoticeInv
  <2> QED  BY <2>2, <2>3 DEF NoticeInv
<1> QED
  BY <1>1, <1>2, <1>3, <1>4, <1>5 DEF MonitorStep, BootStep, BootReads, Threads

LEMMA NoticesInit == Init => NoticeInv
<1> SUFFICES ASSUME Init PROVE NoticeInv
  OBVIOUS
<1>1. Distinct(queue) /\ Listed = {}
  BY DEF Init, Distinct, Listed, Range
<1>2. ASSUME NEW t \in Tasks PROVE NoticesOf(t)
  <2>1. EntriesOf(t) = {} /\ Reporting(t) = {} /\ mails[t] = 0 /\ added[t] = 0
    BY <1>1 DEF EntriesOf, Reporting, Init
  <2>2. IsFiniteSet({}) /\ Cardinality({}) = 0
    BY FS_EmptySet
  <2> QED  BY <2>1, <2>2 DEF NoticesOf
<1> QED  BY <1>1, <1>2 DEF NoticeInv

\* There are never more notices of a task than it has had entries in the list,
\* although an entry may be run twice and a run may take out the entry of another.
THEOREM OneNoticePerEntryHolds == Spec => []OneNoticePerEntry
<1>1. Init => Inv /\ NoticeInv
  BY InitType, InitRefs, InitCalls, InitEarned, InitMaps, NoticesInit DEF Inv
<1>2. Inv /\ NoticeInv /\ [Next]_vars => (Inv /\ NoticeInv)'
  BY StepMaps, NoticesByClient, NoticesByWorker, NoticesByOthers DEF Inv, Next
<1>3. Inv /\ NoticeInv => OneNoticePerEntry
  <2> SUFFICES ASSUME TypeOK, NoticeInv, NEW t \in Tasks PROVE mails[t] <= added[t]
    BY DEF Inv, OneNoticePerEntry
  <2>1. NoticesOf(t) /\ mails[t] \in Nat /\ added[t] \in Nat
        /\ Cardinality(Reporting(t)) \in Nat /\ Cardinality(EntriesOf(t)) \in Nat
    BY ListedFinite, FS_CardinalityType DEF TypeOK, NoticeInv, NoticesOf
  <2> QED  BY <2>1 DEF NoticesOf
<1> QED  BY <1>1, <1>2, <1>3, PTL DEF Spec

-----------------------------------------------------------------------------
\* The boot.  Until it is over only jobs of automatic tasks run, and they touch
\* nothing of the manual ones.

JobPCs == {"idle", "write", "isFull", "rank", "add"} \cup SharedPCs
IsAuto(e) == obj[e] \in Queues /\ db[obj[e].task].auto
Claimed(e) == e \in handed \/ Owned(e)

\* The boot has read the rows and has not enqueued them all.
HoldsRows == pc["boot"] \in {"addJobs", "enqueue"}

\* Every copy of a row agrees with the table on whether the task is automatic.
RowsAgree ==
  /\ \A e \in Ids : obj[e] \in Queues => obj[e].row.auto = db[obj[e].task].auto
  /\ HoldsRows => \A t \in loading.left : loading.rows[t].auto = db[t].auto

OnlyJobs == /\ \A c \in Clients : pc[c] \in JobPCs
            /\ \A e \in Ids : Claimed(e) => IsAuto(e)
SnapsAreListed == \A p \in Threads : \A e \in Range(snap[p]) : e \in Listed \/ IsAuto(e)
AwaitsBoot(t) == HoldsRows /\ t \in loading.left
Requeued ==
  pc["boot"] # "down" => \A t \in Tasks : Interrupted(t) => IsListed(t) \/ AwaitsBoot(t)

BootInv == /\ MonitorComesLast
           /\ Booting => RowsAgree /\ OnlyJobs /\ SnapsAreListed /\ Requeued

\* What a step of the boot, or of a job in the middle of it, may change.
BootKept ==
  /\ Booting
  /\ \A t \in Tasks : db'[t].auto = db[t].auto
  /\ \A e \in Ids : obj[e] \in Queues =>
       obj'[e] \in Queues /\ obj'[e].task = obj[e].task /\ obj'[e].row.auto = obj[e].row.auto
  /\ \A e \in Ids : obj'[e] \in Queues =>
       obj[e] \in Queues \/ obj'[e].row.auto = db[obj'[e].task].auto
  /\ \A c \in Clients : pc'[c] \in JobPCs
  /\ \A e \in Ids : Claimed(e)' => Claimed(e) \/ IsAuto(e)'
  /\ \A e \in Listed : e \in Listed' \/ IsAuto(e)
  /\ \A p \in Threads : Range(snap'[p]) \subseteq Range(snap[p]) \cup Listed
  /\ \A t \in Tasks : Interrupted(t)' => Interrupted(t) \/ IsListed(t)
  /\ UNCHANGED loading
  /\ \/ pc'["boot"] = pc["boot"]
     \/ pc["boot"] # "down" /\ ~HoldsRows /\ ~HoldsRows'

LEMMA AutoKept ==
  ASSUME TypeOK, BootKept, NEW e \in Ids, IsAuto(e)
  PROVE  IsAuto(e)'
BY DEF BootKept, IsAuto, Queues

LEMMA BootInvKept ==
  ASSUME TypeOK, TypeOK', Refs, BootInv, BootKept, MonitorComesLast'
  PROVE  BootInv'
<1>0. Booting /\ RowsAgree /\ OnlyJobs /\ SnapsAreListed /\ Requeued
  BY DEF BootKept, BootInv
<1>1. RowsAgree'
  <2>1. ASSUME NEW e \in Ids, obj'[e] \in Queues
        PROVE  obj'[e].row.auto = db'[obj'[e].task].auto
    <3>1. obj'[e].task \in Tasks /\ db'[obj'[e].task].auto = db[obj'[e].task].auto
      BY <2>1 DEF Queues, BootKept
    <3> QED  BY <1>0, <2>1, <3>1 DEF BootKept, RowsAgree
  <2>2. HoldsRows' => HoldsRows
    BY DEF BootKept, HoldsRows
  <2>3. HoldsRows' => \A t \in loading'.left : loading'.rows[t].auto = db'[t].auto
    BY <1>0, <2>2 DEF BootKept, RowsAgree, TypeOK, Loadings
  <2> QED  BY <2>1, <2>3 DEF RowsAgree
<1>2. OnlyJobs'
  BY <1>0, AutoKept DEF OnlyJobs, BootKept
<1>3. SnapsAreListed'
  <2>1. ASSUME NEW p \in Threads, NEW e \in Range(snap'[p])
        PROVE  e \in Listed' \/ IsAuto(e)'
    <3>1. e \in Ids /\ (e \in Range(snap[p]) \/ e \in Listed)
      BY <2>1, RangeType DEF BootKept
    <3>2. e \in Listed \/ IsAuto(e)
      BY <1>0, <3>1 DEF SnapsAreListed
    <3> QED  BY <3>1, <3>2, AutoKept DEF BootKept
  <2> QED  BY <2>1 DEF SnapsAreListed
<1>4. Requeued'
  <2>1. ASSUME pc'["boot"] # "down", NEW t \in Tasks, Interrupted(t)'
        PROVE  IsListed(t)' \/ AwaitsBoot(t)'
    <3>1. ~db[t].auto
      BY <2>1 DEF BootKept, Interrupted
    <3>2. pc["boot"] # "down"
      BY <2>1 DEF BootKept
    <3>3. CASE IsListed(t)
      <4>1. PICK e \in Listed : obj[e].task = t
        BY <3>3 DEF IsListed
      <4>2. e \in Ids /\ obj[e] \in Queues
        BY RangeType DEF Refs, ListedAreQueues
      <4>3. e \in Listed' /\ obj'[e].task = t
        BY <3>1, <4>1, <4>2 DEF BootKept, IsAuto
      <4> QED  BY <4>3 DEF IsListed
    <3>4. CASE ~IsListed(t)
      <4>1. AwaitsBoot(t)
        BY <1>0, <2>1, <3>2, <3>4 DEF BootKept, Requeued
      <4> QED  BY <4>1 DEF AwaitsBoot, BootKept, HoldsRows
    <3> QED  BY <3>3, <3>4
  <2> QED  BY <2>1 DEF Requeued
<1> QED  BY <1>1, <1>2, <1>3, <1>4 DEF BootInv

LEMMA JobGoesOn ==
  ASSUME TypeOK, OnlyJobs, NEW c \in Clients, NEW l \in JobPCs, Goto(c, l)
  PROVE  (\A d \in Clients : pc'[d] \in JobPCs) /\ pc'["boot"] = pc["boot"]
BY ThreadsAssumption DEF TypeOK, Goto, Threads, OnlyJobs

\* What a job works on is automatic.
LEMMA OwnIsAuto ==
  ASSUME TypeOK, Refs, OnlyJobs, NEW c \in Clients, pc[c] \in PrivatePCs \cup SharedPCs
  PROVE  own[c] \in Ids /\ IsAuto(own[c])
BY OwnFacts DEF Refs, OnlyJobs, Claimed, Owned

\* A write of an automatic task's row.
LEMMA AutoStored ==
  ASSUME TypeOK, RowsAgree, NEW e \in Ids, IsAuto(e), db' = Stored(e)
  PROVE  \A t \in Tasks : /\ db'[t].auto = db[t].auto
                          /\ Interrupted(t)' => Interrupted(t)
<1>1. obj[e].task \in Tasks /\ obj[e].row.auto = TRUE
  BY DEF RowsAgree, IsAuto, Queues, Rows
<1>2. \A t \in Tasks : db'[t] = IF t = obj[e].task THEN obj[e].row ELSE db[t]
  BY <1>1 DEF Stored, TypeOK
<1>3. db[obj[e].task].auto = TRUE
  BY <1>1 DEF RowsAgree, IsAuto
<1> QED  BY <1>1, <1>2, <1>3 DEF Interrupted

\* A batch write, of a list in which the manual tasks still are.
LEMMA BatchStored ==
  ASSUME TypeOK, Refs, RowsAgree, SnapsAreListed, NEW p \in Threads, db' = Replaced(snap[p])
  PROVE  \A t \in Tasks : /\ db'[t].auto = db[t].auto
                          /\ Interrupted(t)' => Interrupted(t) \/ IsListed(t)
<1> SUFFICES ASSUME NEW t \in Tasks
             PROVE  /\ db'[t].auto = db[t].auto
                    /\ Interrupted(t)' => Interrupted(t) \/ IsListed(t)
  OBVIOUS
<1>1. PICK n : n = Replaced(snap[p])
  OBVIOUS
<1>2. CASE n[t] = db[t]
  BY <1>1, <1>2 DEF Interrupted
<1>3. ASSUME NEW e \in Range(snap[p]), obj[e].task = t, n[t] = obj[e].row
      PROVE  /\ db'[t].auto = db[t].auto
             /\ Interrupted(t)' => Interrupted(t) \/ IsListed(t)
  <2>1. e \in Ids /\ obj[e] \in Queues
    BY RangeType DEF Refs, SnapsAreQueues
  <2>2. db'[t].auto = db[t].auto
    BY <1>1, <1>3, <2>1 DEF RowsAgree
  <2>3. CASE e \in Listed
    BY <1>3, <2>2, <2>3 DEF IsListed
  <2>4. CASE IsAuto(e)
    BY <1>3, <2>2, <2>4 DEF IsAuto, Interrupted
  <2> QED  BY <2>2, <2>3, <2>4 DEF SnapsAreListed
<1> QED
  BY <1>1, <1>2, <1>3, ReplacedRows DEF TypeOK

\* Taking an automatic task out of the list leaves the others there.
LEMMA AutoRemoved ==
  ASSUME TypeOK, Refs, NEW t \in Tasks, db[t].auto, queue' = Without(t)
  PROVE  \A e \in Listed : e \in Listed' \/ IsAuto(e)
<1>1. CASE Listed' = Listed
  BY <1>1
<1>2. ASSUME NEW x \in Listed, obj[x].task = t, Listed' = Listed \ {x}
      PROVE  \A e \in Listed : e \in Listed' \/ IsAuto(e)
  BY <1>2 DEF Refs, ListedAreQueues, IsAuto
<1> QED  BY <1>1, <1>2, WithoutTakesOne

\* A job that fires, or a handler of one, in the middle of the boot.
LEMMA JobKeeps ==
  ASSUME TypeOK, Refs, HandedInv, BootInv, Booting, NEW c \in Clients,
         \/ PrivateWrite(c) \/ PrivateIsFull(c) \/ PrivateRank(c) \/ PrivateAdd(c)
         \/ PrivateSubmit(c)
  PROVE  BootKept
<1>0. RowsAgree /\ OnlyJobs /\ UNCHANGED <<loading, snap>>
  BY DEF BootInv, PrivateWrite, PrivateIsFull, PrivateRank, PrivateAdd, PrivateSubmit
<1>1. own[c] \in Ids /\ IsAuto(own[c]) /\ obj[own[c]] \in Queues
  BY <1>0, OwnIsAuto DEF IsAuto, PrivatePCs, SharedPCs, PrivateWrite, PrivateIsFull, PrivateRank,
     PrivateAdd, PrivateSubmit
<1>2. (\A d \in Clients : pc'[d] \in JobPCs) /\ pc'["boot"] = pc["boot"]
  <2>1. \E l \in JobPCs : Goto(c, l)
    BY DEF JobPCs, SharedPCs, PrivateWrite, PrivateIsFull, PrivateRank, PrivateAdd, PrivateSubmit
  <2> QED  BY <1>0, <2>1, JobGoesOn
<1>3. \A p \in Threads : Range(snap'[p]) \subseteq Range(snap[p]) \cup Listed
  BY <1>0
<1>4. CASE PrivateWrite(c)
  <2>1. UNCHANGED <<obj, queue, own, handed>> /\ db' = Stored(own[c])
    BY <1>4 DEF PrivateWrite, mem
  <2>2. \A t \in Tasks : db'[t].auto = db[t].auto /\ (Interrupted(t)' => Interrupted(t))
    <3>1. PICK x \in Ids : x = own[c]
      BY <1>1
    <3> QED  BY <1>0, <1>1, <2>1, <3>1, AutoStored
  <2>3. Listed' = Listed
    BY <2>1 DEF Listed
  <2> QED  BY <1>0, <1>2, <1>3, <2>1, <2>2, <2>3 DEF BootKept, Claimed, Owned
<1>5. CASE ~PrivateWrite(c)
  <2>1. db' = db
    BY <1>5 DEF PrivateIsFull, PrivateRank, PrivateAdd, PrivateSubmit
  <2>2. \A t \in Tasks : db'[t].auto = db[t].auto /\ (Interrupted(t)' => Interrupted(t))
    BY <2>1 DEF Interrupted
  <2>3. \A e \in Ids : obj[e] \in Queues =>
          obj'[e] \in Queues /\ obj'[e].task = obj[e].task /\ obj'[e].row.auto = obj[e].row.auto
    <3>1. CASE PrivateRank(c)
      <4>1. \A e \in Ids : e # own[c] => obj'[e] = obj[e]
        BY <3>1 DEF PrivateRank, TypeOK
      <4>2. getPrivateRank \in Int /\ "Queue" \in Statuses
        BY BoundsAssumption DEF getPrivateRank, TypeOK, Statuses
      <4>3. obj'[own[c]] = MovedTo(obj[own[c]], getPrivateRank, "Queue")
        BY <1>1, <3>1 DEF PrivateRank, TypeOK, MovedTo
      <4>4. PICK q \in Queues, n \in Int : q = obj[own[c]] /\ n = getPrivateRank
        BY <1>1, <4>2
      <4>5. LET m == MovedTo(q, n, "Queue")
            IN  m \in Queues /\ m.task = q.task /\ m.row = q.row
        BY <1>1, <4>2, <4>4, Moved DEF MovedTo, Queues
      <4> QED  BY <1>1, <4>1, <4>3, <4>4, <4>5
    <3> QED  BY <1>5, <3>1 DEF PrivateIsFull, PrivateAdd, PrivateSubmit, mem
  <2>4. \A e \in Ids : obj'[e] \in Queues => obj[e] \in Queues
    BY <1>1, <1>5 DEF TypeOK, PrivateIsFull, PrivateRank, PrivateAdd, PrivateSubmit, mem
  <2>5. \A e \in Ids : Claimed(e)' => Claimed(e) \/ IsAuto(e)'
    <3>1. Claimed(own[c])
      BY <1>1 DEF Claimed, Owned
    <3>2. \A e \in Ids : Owned(e)' => Owned(e)
      BY <1>5 DEF TypeOK, Owned, PrivateIsFull, PrivateRank, PrivateAdd, PrivateSubmit, Ids
    <3>3. handed' \subseteq handed \cup {own[c]}
      BY <1>5 DEF PrivateIsFull, PrivateRank, PrivateAdd, PrivateSubmit, mem, Submit, SubmitAll
    <3> QED  BY <3>1, <3>2, <3>3 DEF Claimed
  <2>6. \A e \in Listed : e \in Listed'
    <3>1. CASE PrivateAdd(c)
      BY <1>1, <3>1, RangeOfAppend DEF PrivateAdd, TypeOK, Listed
    <3> QED  BY <1>5, <3>1 DEF PrivateIsFull, PrivateRank, PrivateSubmit, mem, Listed
  <2> QED  BY <1>0, <1>2, <1>3, <2>2, <2>3, <2>4, <2>5, <2>6 DEF BootKept
<1> QED  BY <1>4, <1>5

LEMMA FindKeeps ==
  ASSUME TypeOK, Refs, HandedInv, BootInv, Booting, NEW c \in Clients, NEW t \in Tasks,
         PrivateFind(c, t)
  PROVE  BootKept
<1>0. RowsAgree /\ OnlyJobs
  BY DEF BootInv
<1>1. UNCHANGED <<db, queue, handed, snap, loading>> /\ Find(c, t)
  BY DEF PrivateFind, Find
<1>2. (\A d \in Clients : pc'[d] \in JobPCs) /\ pc'["boot"] = pc["boot"]
  <2>1. \E l \in JobPCs : Goto(c, l)
    BY <1>1 DEF JobPCs, Find
  <2> QED  BY <1>0, <2>1, JobGoesOn
<1>3. (\A u \in Tasks : Interrupted(u)' => Interrupted(u)) /\ Listed' = Listed
  BY <1>1 DEF Interrupted, Listed
<1>4. CASE UNCHANGED <<obj, own>>
  BY <1>0, <1>1, <1>2, <1>3, <1>4 DEF BootKept, Claimed, Owned
<1>5. CASE ~UNCHANGED <<obj, own>>
  <2>1. db[t] \in Rows /\ db[t].auto
    BY <1>1, <1>5, RowsExist DEF Find, PrivateFind, MayFire, Deployed, Booting
  <2>2. PICK row \in Rows : row = db[t]
    BY <2>1
  <2>3. PICK x \in Ids : /\ Fresh(x)
                         /\ obj' = [obj EXCEPT ![x] =
                                      Entry(t, Started(row), 0, "Running", TASK_COMMON)]
                         /\ own' = [own EXCEPT ![c] = x]
    BY <1>1, <1>5, <2>2 DEF Find, CallFresh
  <2>4. LET q == Entry(t, Started(row), 0, "Running", TASK_COMMON)
        IN  q \in Queues /\ q.task = t /\ q.row.auto = TRUE
    <3>1. Started(row) \in Rows /\ Started(row).auto = TRUE
      BY <2>1, <2>2, StartedType DEF Started, Rows
    <3>2. Entry(t, Started(row), 0, "Running", TASK_COMMON) \in Queues
      BY <3>1, EntryIsQueue DEF Statuses
    <3> QED  BY <3>1, <3>2 DEF Entry
  <2>5. obj[x] = NoQueue /\ obj'[x] \in Queues /\ obj'[x].task = t /\ obj'[x].row.auto = TRUE
        /\ \A e \in Ids : e # x => obj'[e] = obj[e]
    BY <2>3, <2>4 DEF Fresh, TypeOK, Queues, Rows
  <2>6. \A e \in Ids : Claimed(e)' => Claimed(e) \/ e = x
    BY <1>1, <2>3 DEF Claimed, Owned, TypeOK
  <2>7. IsAuto(x)' /\ db[t].auto = TRUE
    BY <1>1, <2>1, <2>5 DEF IsAuto, Rows
  <2> QED  BY <1>0, <1>1, <1>2, <1>3, <2>5, <2>6, <2>7, NoQueueIsNoQueue DEF BootKept
<1> QED  BY <1>4, <1>5

\* The refresh of a job, or of the boot.
LEMMA BootRefreshKeeps ==
  ASSUME TypeOK, Refs, HandedInv, BootInv, Booting, NEW p \in Threads, Refresh(p)
  PROVE  BootKept
<1>0. RowsAgree /\ OnlyJobs /\ SnapsAreListed /\ MonitorComesLast /\ UNCHANGED <<loading, queue, handed>>
  BY DEF BootInv, Refresh, ModifyFirst, ModifyCheck, ModifyAll, BatchWrite, mem
<1>1. p # "monitor"
  BY <1>0, ThreadsAssumption DEF MonitorComesLast, Booting, Refresh, ModifyFirst, ModifyCheck,
     ModifyAll, BatchWrite
<1>2. (\A d \in Clients : pc'[d] \in JobPCs)
      /\ (pc'["boot"] = pc["boot"]
          \/ (pc["boot"] # "down" /\ ~HoldsRows /\ ~HoldsRows'))
  <2>1. CASE p = "boot"
    BY <1>0, <2>1, ThreadsAssumption DEF TypeOK, Threads, Goto, OnlyJobs, Refresh, ModifyFirst,
       ModifyCheck, ModifyAll, BatchWrite, Done, Skipped, Failed, HoldsRows
  <2>2. CASE p \in Clients
    <3>1. \E l \in JobPCs : Goto(p, l)
      BY <2>2, ThreadsAssumption DEF JobPCs, SharedPCs, Refresh, ModifyFirst, ModifyCheck, ModifyAll,
         BatchWrite, Done, Skipped, Failed
    <3> QED  BY <1>0, <2>2, <3>1, JobGoesOn
  <2> QED  BY <1>1, <2>1, <2>2 DEF Threads
<1>3. Listed' = Listed
  BY <1>0 DEF Listed
<1>4. \A q \in Threads : Range(snap'[q]) \subseteq Range(snap[q]) \cup Listed
  <2>1. Range(<<>>) = {}
    BY DEF Range
  <2> QED  BY <2>1 DEF TypeOK, Listed, Refresh, ModifyFirst, ModifyCheck, ModifyAll, BatchWrite
<1>5. \A e \in Ids : Claimed(e)' => Claimed(e)
  BY <1>0 DEF Claimed, Owned, Refresh, ModifyFirst, ModifyCheck, ModifyAll, BatchWrite, Ids, TypeOK
<1>6. CASE BatchWrite(p)
  <2>1. UNCHANGED obj /\ db' = Replaced(snap[p])
    BY <1>6 DEF BatchWrite, mem
  <2>2. \A t \in Tasks : /\ db'[t].auto = db[t].auto
                         /\ Interrupted(t)' => Interrupted(t) \/ IsListed(t)
    BY <1>0, <2>1, BatchStored
  <2> QED  BY <1>0, <1>2, <1>3, <1>4, <1>5, <2>1, <2>2 DEF BootKept
<1>7. CASE ~BatchWrite(p)
  <2>1. UNCHANGED db /\ obj' = Modified
    BY <1>7 DEF Refresh, ModifyFirst, ModifyCheck, ModifyAll
  <2>2. \A e \in Ids : /\ obj[e] \in Queues => /\ Modified[e] \in Queues
                                               /\ Modified[e].task = obj[e].task
                                               /\ Modified[e].row.auto = obj[e].row.auto
                       /\ Modified[e] \in Queues => obj[e] \in Queues
    <3> SUFFICES ASSUME NEW e \in Ids
                 PROVE  /\ obj[e] \in Queues => Modified[e].row.auto = obj[e].row.auto
                        /\ Modified[e] \in Queues => obj[e] \in Queues
      BY ModifiedType DEF Refs
    <3>1. Modified[e] \in Queues => obj[e] \in Queues
      BY ModifiedType, NoQueueIsNoQueue DEF Refs, TypeOK
    <3>2. ASSUME obj[e] \in Queues PROVE Modified[e].row.auto = obj[e].row.auto
      BY <3>2 DEF Modified, Queues, Rows
    <3> QED  BY <3>1, <3>2
  <2>3. \A t \in Tasks : db'[t].auto = db[t].auto /\ (Interrupted(t)' => Interrupted(t))
    BY <2>1 DEF Interrupted
  <2> QED  BY <1>0, <1>2, <1>3, <1>4, <1>5, <2>1, <2>2, <2>3 DEF BootKept
<1> QED  BY <1>6, <1>7

\* A pool thread, which has only jobs' runs in its hands.
LEMMA PoolKeeps ==
  ASSUME TypeOK, Refs, HandedInv, BootInv, Booting, NEW w \in Workers, Worker(w)
  PROVE  BootKept
<1>0. /\ RowsAgree /\ OnlyJobs /\ UNCHANGED <<pc, own, snap, loading>> /\ handed' = handed
      /\ \A e \in Ids : Claimed(e)' => Claimed(e)
  <2>1. UNCHANGED <<pc, own, snap, loading, handed>>
    BY DEF Worker, Take, Execute, ExecuteThrows, Commit, Leave, Report, thr, mem
  <2> QED  BY <2>1 DEF BootInv, Claimed, Owned
<1>1. wpc[w] # "idle" => run[w] \in Ids /\ IsAuto(run[w]) /\ obj[run[w]].task \in Tasks
  <2> SUFFICES ASSUME wpc[w] # "idle"
               PROVE  run[w] \in Ids /\ IsAuto(run[w]) /\ obj[run[w]].task \in Tasks
    OBVIOUS
  <2>1. run[w] \in Ids /\ obj[run[w]].task \in Tasks
    BY RunFacts DEF Refs
  <2>2. run[w] \in handed
    BY <2>1 DEF HandedInv, Held
  <2> QED  BY <1>0, <2>1, <2>2 DEF OnlyJobs, Claimed
<1>2. CASE Commit(w)
  <2>1. UNCHANGED <<obj, queue>> /\ db' = Stored(run[w]) /\ wpc[w] # "idle"
    BY <1>2 DEF Commit, mem
  <2>2. \A t \in Tasks : db'[t].auto = db[t].auto /\ (Interrupted(t)' => Interrupted(t))
    <3>1. PICK x \in Ids : x = run[w]
      BY <1>1, <2>1
    <3> QED  BY <1>0, <1>1, <2>1, <3>1, AutoStored
  <2>3. Listed' = Listed
    BY <2>1 DEF Listed
  <2> QED  BY <1>0, <2>1, <2>2, <2>3 DEF BootKept, OnlyJobs
<1>3. CASE ~Commit(w)
  <2>1. UNCHANGED db
    BY <1>3 DEF Worker, Take, Execute, ExecuteThrows, Leave, Report
  <2>2. \A t \in Tasks : db'[t].auto = db[t].auto /\ (Interrupted(t)' => Interrupted(t))
    BY <2>1 DEF Interrupted
  <2>3. \A e \in Listed : e \in Listed' \/ IsAuto(e)
    <3>1. CASE Leave(w)
      <4>1. queue' = Without(obj[run[w]].task) /\ wpc[w] # "idle"
        BY <3>1 DEF Leave
      <4>2. PICK t \in Tasks : t = obj[run[w]].task
        BY <1>1, <4>1
      <4> QED  BY <1>1, <4>1, <4>2, AutoRemoved DEF IsAuto
    <3>2. CASE ~Leave(w)
      BY <1>3, <3>2 DEF Worker, Take, Execute, ExecuteThrows, Report, mem, Listed
    <3> QED  BY <3>1, <3>2
  <2>4. \A e \in Ids :
          /\ obj[e] \in Queues => /\ obj'[e] \in Queues /\ obj'[e].task = obj[e].task
                                  /\ obj'[e].row.auto = obj[e].row.auto
          /\ obj'[e] \in Queues => obj[e] \in Queues
    <3>1. ASSUME NEW o \in Outcomes, Execute(w, o)
          PROVE  \A e \in Ids :
                   /\ obj[e] \in Queues => /\ obj'[e] \in Queues /\ obj'[e].task = obj[e].task
                                           /\ obj'[e].row.auto = obj[e].row.auto
                   /\ obj'[e] \in Queues => obj[e] \in Queues
      <4>1. run[w] \in Ids /\ obj[run[w]] \in Queues
        BY <1>1, <3>1 DEF Execute, IsAuto
      <4>2. \A e \in Ids : e # run[w] => obj'[e] = obj[e]
        BY <3>1 DEF Execute, TypeOK
      <4>3. obj'[run[w]] = [obj[run[w]] EXCEPT !.row = Ended(@, o)]
        BY <3>1, <4>1 DEF Execute, TypeOK
      <4>4. Ended(obj[run[w]].row, o) \in Rows
            /\ Ended(obj[run[w]].row, o).auto = obj[run[w]].row.auto
        BY <4>1 DEF Ended, Queues, Rows, Statuses
      <4>5. obj'[run[w]] \in Queues /\ obj'[run[w]].task = obj[run[w]].task
            /\ obj'[run[w]].row.auto = obj[run[w]].row.auto
        BY <4>1, <4>3, <4>4 DEF Queues
      <4> QED  BY <4>1, <4>2, <4>5
    <3> QED  BY <1>3, <3>1 DEF Worker, Take, ExecuteThrows, Leave, Report, mem
  <2> QED  BY <1>0, <2>1, <2>2, <2>3, <2>4 DEF BootKept, OnlyJobs
<1> QED  BY <1>2, <1>3

\* The boot reads the table, ...
LEMMA LoadKeeps ==
  ASSUME TypeOK, Refs, BootInv, BootLoad
  PROVE  RowsAgree' /\ OnlyJobs' /\ SnapsAreListed' /\ Requeued'
<1>0. RowsAgree /\ OnlyJobs /\ SnapsAreListed
  BY DEF BootInv, Booting, BootLoad
<1>1. /\ UNCHANGED <<db, obj, queue, handed, own, snap>>
      /\ loading'.rows = db /\ loading'.left = {t \in Tasks : Loadable(db[t])}
      /\ HoldsRows' /\ \A c \in Clients : pc'[c] = pc[c]
  BY BootLoadMoves, ThreadsAssumption DEF BootLoad, mem, Goto, TypeOK, Threads, HoldsRows
<1>2. RowsAgree' /\ OnlyJobs' /\ SnapsAreListed'
  BY <1>0, <1>1 DEF RowsAgree, OnlyJobs, SnapsAreListed, Claimed, Owned, IsAuto, Listed
<1>3. ASSUME NEW t \in Tasks, Interrupted(t)'
      PROVE  AwaitsBoot(t)'
  <2>1. Interrupted(t)
    BY <1>1, <1>3 DEF Interrupted
  <2>2. Loadable(db[t])
    BY <2>1 DEF Interrupted, Loadable
  <2> QED  BY <1>1, <2>2 DEF AwaitsBoot
<1> QED  BY <1>2, <1>3 DEF Requeued

\* ... adds the jobs, ...
LEMMA AddJobsKeeps ==
  ASSUME TypeOK, BootInv, MonitorComesLast', BootAddJobs
  PROVE  BootInv'
<1>0. RowsAgree /\ OnlyJobs /\ SnapsAreListed /\ Requeued
  BY DEF BootInv, Booting, BootAddJobs
<1>1. /\ UNCHANGED <<db, obj, queue, handed, own, snap>>
      /\ HoldsRows /\ \A c \in Clients : pc'[c] = pc[c]
  BY ThreadsAssumption DEF BootAddJobs, mem, Goto, TypeOK, Threads, HoldsRows
<1>2. CASE Goto("boot", "enqueue") /\ UNCHANGED loading
  <2>1. HoldsRows' /\ UNCHANGED loading
    BY <1>2, ThreadsAssumption DEF Goto, TypeOK, Threads, HoldsRows
  <2>2. RowsAgree' /\ OnlyJobs' /\ SnapsAreListed'
    BY <1>0, <1>1, <2>1 DEF RowsAgree, OnlyJobs, SnapsAreListed, Claimed, Owned, IsAuto, Listed
  <2>3. Requeued'
    BY <1>0, <1>1, <2>1
       DEF Requeued, Interrupted, IsListed, AwaitsBoot, Listed, BootAddJobs
  <2> QED  BY <2>2, <2>3 DEF BootInv
<1>3. CASE Goto("boot", "failed")
  <2>1. ~Booting'
    BY <1>3, ThreadsAssumption DEF Goto, TypeOK, Threads, Booting
  <2> QED  BY <2>1 DEF BootInv
<1> QED  BY <1>2, <1>3 DEF BootAddJobs

\* ... asks whether the list is full, ...
LEMMA IsFullKeeps ==
  ASSUME TypeOK, BootInv, NEW t \in Tasks, BootIsFull(t)
  PROVE  RowsAgree' /\ OnlyJobs' /\ SnapsAreListed' /\ Requeued'
<1>0. RowsAgree /\ OnlyJobs /\ SnapsAreListed /\ Requeued
  BY DEF BootInv, Booting, BootIsFull
<1>1. /\ UNCHANGED <<db, obj, queue, handed, own, snap, pc>>
      /\ loading'.rows = loading.rows /\ loading'.left = loading.left
  BY IsFullMoves DEF BootIsFull, mem
<1>2. RowsAgree' /\ OnlyJobs' /\ SnapsAreListed'
  BY <1>0, <1>1
     DEF RowsAgree, OnlyJobs, SnapsAreListed, Claimed, Owned, IsAuto, Listed, HoldsRows
<1>3. Requeued'
  BY <1>0, <1>1 DEF Requeued, Interrupted, IsListed, AwaitsBoot, Listed, HoldsRows
<1> QED  BY <1>2, <1>3

\* ... puts one task after the other into the list, ...
LEMMA EnqueueKeeps ==
  ASSUME TypeOK, Refs, HandedInv, BootInv, NEW t \in Tasks, BootEnqueue(t)
  PROVE  RowsAgree' /\ OnlyJobs' /\ SnapsAreListed' /\ Requeued'
<1>0. RowsAgree /\ OnlyJobs /\ SnapsAreListed /\ Requeued
  BY DEF BootInv, Booting, BootEnqueue
<1>1. /\ HoldsRows /\ t \in loading.left /\ UNCHANGED <<db, handed, own, snap, pc>>
      /\ loading'.left = loading.left \ {t} /\ loading'.rows = loading.rows
      /\ HoldsRows' = HoldsRows
  BY EnqueueMoves DEF BootEnqueue, HoldsRows
<1>2. PICK x \in Ids, row \in Rows, n \in Int, s \in Statuses :
        /\ obj[x] = NoQueue /\ row = loading.rows[t]
        /\ obj' = [obj EXCEPT ![x] = Entry(t, row, n, s, TASK_COMMON)]
        /\ queue' = Append(queue, x)
  <2>1. PICK row \in Rows : row = loading.rows[t]
    BY <1>1 DEF Refs, LoadingAreRows
  <2>2. getRank(loading.done) \in Int /\ {"Queue", "Running"} \subseteq Statuses
    BY BoundsAssumption DEF getRank, TypeOK, Loadings, Statuses
  <2>3. PICK m \in Int : m = getRank(loading.done)
    BY <2>2
  <2>4. PICK x \in Ids :
          /\ obj[x] = NoQueue /\ queue' = Append(queue, x)
          /\ obj' = [obj EXCEPT ![x] = IF loading.full THEN Entry(t, row, m, "Queue", TASK_COMMON)
                                       ELSE Entry(t, row, 0, "Running", TASK_COMMON)]
    BY <2>1, <2>3 DEF BootEnqueue, Fresh
  <2>5. CASE loading.full
    BY <2>1, <2>2, <2>4, <2>5
  <2>6. CASE ~loading.full
    <3>1. "Running" \in Statuses /\ 0 \in Int
      BY <2>2
    <3>2. obj' = [obj EXCEPT ![x] = Entry(t, row, 0, "Running", TASK_COMMON)]
      BY <2>4, <2>6
    <3> QED  BY <2>1, <2>4, <3>1, <3>2, Zenon
  <2> QED  BY <2>5, <2>6
<1>3. LET q == Entry(t, row, n, s, TASK_COMMON) IN q \in Queues /\ q.task = t /\ q.row = row
  <2>1. Entry(t, row, n, s, TASK_COMMON) \in Queues
    BY EntryIsQueue
  <2> QED  BY <2>1 DEF Entry
<1>4. /\ obj'[x] \in Queues /\ obj'[x].task = t /\ obj'[x].row = row
      /\ \A e \in Ids : e # x => obj'[e] = obj[e]
  BY <1>2, <1>3 DEF TypeOK
<1>5. Listed' = Listed \cup {x}
  BY <1>2, RangeOfAppend DEF TypeOK, Listed
<1>6. row.auto = db[t].auto
  BY <1>0, <1>1, <1>2 DEF RowsAgree
<1>7. RowsAgree'
  BY <1>0, <1>1, <1>4, <1>6 DEF RowsAgree, TypeOK
<1>8. OnlyJobs'
  <2>1. \A e \in Ids : Claimed(e)' => Claimed(e)
    BY <1>1 DEF Claimed, Owned
  <2>2. ~Claimed(x)
    BY <1>0, <1>2, NoQueueIsNoQueue DEF OnlyJobs, IsAuto
  <2>3. \A e \in Ids : e # x /\ IsAuto(e) => IsAuto(e)'
    BY <1>1, <1>4 DEF IsAuto
  <2> QED  BY <1>0, <1>1, <2>1, <2>2, <2>3 DEF OnlyJobs
<1>9. SnapsAreListed'
  <2>1. ASSUME NEW p \in Threads, NEW e \in Range(snap[p])
        PROVE  e \in Listed' \/ IsAuto(e)'
    <3>1. e \in Ids /\ (e \in Listed \/ IsAuto(e))
      BY <1>0, RangeType DEF SnapsAreListed
    <3> QED  BY <1>1, <1>4, <1>5, <3>1 DEF IsAuto
  <2> QED  BY <1>1, <2>1 DEF SnapsAreListed
<1>10. Requeued'
  <2>1. ASSUME NEW u \in Tasks, Interrupted(u)'
        PROVE  IsListed(u)' \/ AwaitsBoot(u)'
    <3>1. Interrupted(u) /\ pc["boot"] # "down"
      BY <1>1, <2>1 DEF Interrupted, HoldsRows
    <3>2. CASE u = t
      BY <1>4, <1>5, <3>2 DEF IsListed
    <3>3. ASSUME u # t, NEW e \in Listed, obj[e].task = u
          PROVE  IsListed(u)'
      <4>1. e \in Ids /\ e # x
        BY <1>2, RangeType, NoQueueIsNoQueue DEF Refs, ListedAreQueues
      <4> QED  BY <1>4, <1>5, <3>3, <4>1 DEF IsListed
    <3>4. CASE u # t /\ AwaitsBoot(u)
      BY <1>1, <3>4 DEF AwaitsBoot
    <3> QED  BY <1>0, <3>1, <3>2, <3>3, <3>4 DEF Requeued, IsListed
  <2> QED  BY <2>1 DEF Requeued
<1> QED  BY <1>7, <1>8, <1>9, <1>10

\* ... and is done with it when nothing is left.
LEMMA EnqueuedKeeps ==
  ASSUME TypeOK, BootInv, BootEnqueued
  PROVE  RowsAgree' /\ OnlyJobs' /\ SnapsAreListed' /\ Requeued'
<1>0. RowsAgree /\ OnlyJobs /\ SnapsAreListed /\ Requeued
  BY DEF BootInv, Booting, BootEnqueued
<1>1. /\ UNCHANGED <<db, obj, queue, handed, own, snap>>
      /\ pc["boot"] = "enqueue" /\ pc'["boot"] = "first" /\ \A c \in Clients : pc'[c] = pc[c]
      /\ loading.left = {}
  BY ThreadsAssumption DEF BootEnqueued, mem, Goto, TypeOK, Threads
<1>2. RowsAgree' /\ OnlyJobs' /\ SnapsAreListed'
  BY <1>0, <1>1 DEF RowsAgree, OnlyJobs, SnapsAreListed, Claimed, Owned, IsAuto, Listed, HoldsRows
<1>3. Requeued'
  BY <1>0, <1>1 DEF Requeued, Interrupted, IsListed, AwaitsBoot, Listed
<1> QED  BY <1>2, <1>3

LEMMA CrashKeeps ==
  ASSUME Crash
  PROVE  BootInv'
<1>1. /\ obj' = [e \in Ids |-> NoQueue] /\ pc'["boot"] = "down" /\ pc'["monitor"] = "off"
      /\ \A c \in Clients : pc'[c] = "idle" /\ own'[c] = 0
      /\ handed' = {} /\ \A p \in Threads : snap'[p] = <<>>
  BY ThreadsAssumption DEF Crash, Threads
<1>2. RowsAgree' /\ Requeued' /\ MonitorComesLast'
  BY <1>1, NoQueueIsNoQueue DEF RowsAgree, Requeued, MonitorComesLast, HoldsRows
<1>3. OnlyJobs'
  BY <1>1 DEF OnlyJobs, JobPCs, Claimed, Owned, Ids
<1>4. SnapsAreListed'
  <2>1. Range(<<>>) = {}
    BY DEF Range
  <2> QED  BY <1>1, <2>1 DEF SnapsAreListed
<1> QED  BY <1>2, <1>3, <1>4 DEF BootInv

LEMMA BootInvInit == Init => BootInv
<1> SUFFICES ASSUME Init PROVE BootInv
  OBVIOUS
<1>1. /\ obj = [e \in Ids |-> NoQueue] /\ pc["boot"] = "down" /\ pc["monitor"] = "off"
      /\ \A c \in Clients : pc[c] = "idle" /\ own[c] = 0
      /\ handed = {} /\ \A p \in Threads : snap[p] = <<>>
  BY ThreadsAssumption DEF Init, Threads
<1>2. RowsAgree /\ Requeued /\ MonitorComesLast
  BY <1>1, NoQueueIsNoQueue DEF RowsAgree, Requeued, MonitorComesLast, HoldsRows
<1>3. OnlyJobs
  BY <1>1 DEF OnlyJobs, JobPCs, Claimed, Owned, Ids
<1>4. SnapsAreListed
  <2>1. Range(<<>>) = {}
    BY DEF Range
  <2> QED  BY <1>1, <2>1 DEF SnapsAreListed
<1> QED  BY <1>2, <1>3, <1>4 DEF BootInv

\* Once the boot is over it stays over until the next crash.
LEMMA BootIsOver ==
  ASSUME TypeOK, [Next]_vars, ~Crash, ~Booting
  PROVE  ~Booting'
<1>1. CASE UNCHANGED pc
  BY <1>1 DEF Booting
<1>2. ASSUME NEW p \in Threads, NEW l, Goto(p, l), p # "boot"
      PROVE  ~Booting'
  BY <1>2, BootGoesOn
<1>3. ASSUME NEW c \in Clients, ClientStep(c) \/ Request(c)
      PROVE  UNCHANGED pc \/ \E l : Goto(c, l)
  BY <1>3 DEF ClientStep, PrivateWrite, PrivateIsFull, PrivateRank, PrivateAdd, Refresh, ModifyFirst,
     ModifyCheck, ModifyAll, BatchWrite, PrivateSubmit, ExportFind, SwitchTask, VipWrite, VipRemove,
     VipSubmit, KillWrite, KillRemove, Request, PrivateFind, Find, ExportInsert, VipFind, KillFind,
     DeleteTask, EditContent, RowUpdate, ConvertAuto, thr
<1>4. CASE MonitorStep
  <2>1. \E l : Goto("monitor", l)
    BY <1>4 DEF MonitorStep, MonitorCheck, MonitorUpdate, Refresh, ModifyFirst, ModifyCheck,
                ModifyAll, BatchWrite
  <2> QED  BY <1>2, <2>1, ThreadsAssumption DEF Threads
<1>5. ~BootStep
  BY BootOnlyReads DEF Booting, BootStep, BootReads, BootEnqueue, BootSubmit, Refresh, ModifyFirst,
         ModifyCheck, ModifyAll, BatchWrite
<1>6. ASSUME NEW w \in Workers, Worker(w) PROVE UNCHANGED pc
  BY <1>6 DEF Worker, Take, Execute, ExecuteThrows, Commit, Leave, Report, thr
<1>7. CASE UNCHANGED vars
  BY <1>1, <1>7 DEF vars, thr
<1> QED
  BY <1>1, <1>2, <1>3, <1>4, <1>5, <1>6, <1>7, ClientIsThread, ThreadsAssumption DEF Next

LEMMA BootInvStep ==
  ASSUME TypeOK, TypeOK', Refs, HandedInv, BootInv, [Next]_vars
  PROVE  BootInv'
<1>1. CASE Crash
  BY <1>1, CrashKeeps
<1>2. MonitorComesLast'
  <2>1. ASSUME NEW w \in Workers, Worker(w) PROVE UNCHANGED pc
    BY <2>1 DEF Worker, Take, Execute, ExecuteThrows, Commit, Leave, Report, thr
  <2>2. CASE UNCHANGED pc
    BY <2>2 DEF BootInv, MonitorComesLast
  <2>3. CASE UNCHANGED vars
    BY <2>2, <2>3 DEF vars, thr
  <2>4. CASE Crash
    BY <1>1, <2>4 DEF BootInv
  <2> QED  BY <2>1, <2>2, <2>3, <2>4, MonitorStaysLast DEF Next, BootInv
<1>3. CASE ~Crash /\ ~Booting
  BY <1>2, <1>3, BootIsOver DEF BootInv
<1>4. CASE ~Crash /\ Booting
  <2> USE <1>4
  <2>0. OnlyJobs /\ MonitorComesLast
    BY DEF BootInv
  <2>1. CASE UNCHANGED vars
    <3>1. UNCHANGED <<db, obj, queue, handed, own, snap, loading, pc>>
      BY <2>1 DEF vars, mem, thr
    <3> QED
      BY <3>1 DEF BootInv, Booting, RowsAgree, OnlyJobs, SnapsAreListed, Requeued, MonitorComesLast,
                  Claimed, Owned, IsAuto, Listed, Interrupted, IsListed, AwaitsBoot, HoldsRows
  <2>2. ASSUME NEW c \in Clients, ClientStep(c) PROVE BootKept
    <3>1. pc[c] \in JobPCs
      BY <2>0 DEF OnlyJobs
    <3>2. \/ PrivateWrite(c) \/ PrivateIsFull(c) \/ PrivateRank(c) \/ PrivateAdd(c)
          \/ PrivateSubmit(c) \/ Refresh(c)
      BY <2>2, <3>1 DEF ClientStep, JobPCs, SharedPCs, ExportFind, SwitchTask, VipWrite, VipRemove,
                        VipSubmit, KillWrite, KillRemove
    <3> QED  BY <3>2, JobKeeps, BootRefreshKeeps, ClientIsThread
  <2>3. ASSUME NEW c \in Clients, Request(c) PROVE BootKept
    <3>1. PICK t \in Tasks : PrivateFind(c, t)
      BY <2>3 DEF Request, ExportInsert, VipFind, KillFind, DeleteTask, EditContent, RowUpdate,
                  ConvertAuto, Deployed, Booting
    <3> QED  BY <3>1, FindKeeps
  <2>4. ~MonitorStep
    BY <2>0 DEF MonitorComesLast, Booting, MonitorStep, MonitorCheck, MonitorUpdate, Refresh,
                ModifyFirst, ModifyCheck, ModifyAll, BatchWrite
  <2>5. CASE BootSubmit
    <3>1. ~Booting'
      BY <2>5 DEF BootSubmit, Booting, TypeOK, Threads
    <3> QED  BY <1>2, <3>1 DEF BootInv
  <2>6. CASE BootStep /\ ~BootSubmit
    <3>1. CASE Refresh("boot")
      BY <1>2, <3>1, BootRefreshKeeps, BootInvKept DEF Threads
    <3> QED
      BY <1>2, <2>6, <3>1, LoadKeeps, AddJobsKeeps, IsFullKeeps, EnqueueKeeps, EnqueuedKeeps
         DEF BootStep, BootInv
  <2> QED
    BY <1>2, <2>1, <2>2, <2>3, <2>4, <2>5, <2>6, PoolKeeps, BootInvKept DEF Next
<1> QED  BY <1>1, <1>3, <1>4

\* A manual task that was waiting or running when the process died is back in the
\* list when the boot has loaded the table, and it stays there until the boot
\* submits it, whatever jobs fire, run and leave the list in the meantime.
THEOREM InterruptedAreRequeuedHolds == Spec => []InterruptedAreRequeued
<1>1. Init => Inv /\ BootInv
  BY InitType, InitRefs, InitCalls, InitEarned, InitMaps, BootInvInit DEF Inv
<1>2. Inv /\ BootInv /\ [Next]_vars => (Inv /\ BootInv)'
  BY StepMaps, BootInvStep DEF Inv
<1>3. BootInv => InterruptedAreRequeued
  BY DEF BootInv, Booting, Requeued, AwaitsBoot, HoldsRows, InterruptedAreRequeued
<1> QED  BY <1>1, <1>2, <1>3, PTL DEF Spec

-----------------------------------------------------------------------------
\* Slots.  For every entry of a task that holds a slot after it was handed over,
\* some entry of the task has a run to come, or is gone without one.

Slotted(e) == e \in Listed \cap handed /\ e \notin dropped
Out(e) == pool[e] > 0 \/ \E w \in Workers : run[w] = e /\ wpc[w] \in {"run", "commit", "remove"}
Gone(e) == e \notin Listed /\ ~NotYetListed(e) /\ (e \notin handed \/ e \in dropped)
Backing(e) == (Out(e) /\ e \notin dropped) \/ Gone(e)

Exists(e, t) == obj[e] \in Queues /\ obj[e].task = t
SlotsOf(t) == {e \in Ids : Exists(e, t) /\ Slotted(e)}
BackingOf(t) == {e \in Ids : Exists(e, t) /\ Backing(e)}
SlotsAreBacked(t) == Cardinality(SlotsOf(t)) <= Cardinality(BackingOf(t))
SlotInv == \A t \in Tasks : SlotsAreBacked(t)

LEMMA SlotSets ==
  ASSUME NEW t
  PROVE  /\ IsFiniteSet(SlotsOf(t)) /\ Cardinality(SlotsOf(t)) \in Nat
         /\ IsFiniteSet(BackingOf(t)) /\ Cardinality(BackingOf(t)) \in Nat
         /\ IsFiniteSet(SlotsOf(t)') /\ Cardinality(SlotsOf(t)') \in Nat
         /\ IsFiniteSet(BackingOf(t)') /\ Cardinality(BackingOf(t)') \in Nat
<1>1. IsFiniteSet(Ids)
  BY FS_Interval, BoundsAssumption DEF Ids
<1>2. SlotsOf(t) \subseteq Ids /\ BackingOf(t) \subseteq Ids
      /\ SlotsOf(t)' \subseteq Ids /\ BackingOf(t)' \subseteq Ids
  BY DEF SlotsOf, BackingOf
<1> QED  BY <1>1, <1>2, FS_Subset, FS_CardinalityType

\* What enters on one side enters on the other.
LEMMA BothGrow ==
  ASSUME NEW A, NEW A1, NEW G, NEW G1,
         IsFiniteSet(A), IsFiniteSet(A1), IsFiniteSet(G), IsFiniteSet(G1),
         Cardinality(A) <= Cardinality(G), G \subseteq G1, A1 \ A \subseteq G1 \ G
  PROVE  Cardinality(A1) <= Cardinality(G1)
<1> DEFINE D == A1 \ A
<1>1. IsFiniteSet(D)
  BY FS_Subset
<1>2. A \cap D = {} /\ G \cap D = {} /\ A1 \subseteq A \cup D /\ G \cup D \subseteq G1
  OBVIOUS
<1> HIDE DEF D
<1>3. Cardinality({}) = 0
  BY FS_EmptySet
<1>4. /\ IsFiniteSet(A \cup D) /\ IsFiniteSet(G \cup D)
      /\ Cardinality(A \cup D) = Cardinality(A) + Cardinality(D) - Cardinality(A \cap D)
      /\ Cardinality(G \cup D) = Cardinality(G) + Cardinality(D) - Cardinality(G \cap D)
  BY <1>1, FS_Union
<1>5. /\ Cardinality(A1) <= Cardinality(A \cup D) /\ Cardinality(G \cup D) <= Cardinality(G1)
  BY <1>2, <1>4, FS_Subset
<1>6. /\ Cardinality(A) \in Nat /\ Cardinality(G) \in Nat /\ Cardinality(D) \in Nat
      /\ Cardinality(A1) \in Nat /\ Cardinality(G1) \in Nat
      /\ Cardinality(A \cup D) \in Nat /\ Cardinality(G \cup D) \in Nat
  BY <1>1, <1>4, FS_CardinalityType
<1>7. /\ Cardinality(A \cup D) = Cardinality(A) + Cardinality(D)
      /\ Cardinality(G \cup D) = Cardinality(G) + Cardinality(D)
  <2>1. Cardinality(A \cap D) = 0 /\ Cardinality(G \cap D) = 0
    BY <1>2, <1>3
  <2> QED  BY <1>4, <1>6, <2>1
<1> QED  BY <1>5, <1>6, <1>7

\* One leaves on each side.
LEMMA BothShrink ==
  ASSUME NEW A, NEW A1, NEW G, NEW G1, NEW x \in A, NEW e,
         IsFiniteSet(A), IsFiniteSet(A1), IsFiniteSet(G), IsFiniteSet(G1),
         Cardinality(A) <= Cardinality(G), A1 \subseteq A \ {x}, G \ {e} \subseteq G1
  PROVE  Cardinality(A1) <= Cardinality(G1)
<1>1. /\ IsFiniteSet(A \ {x}) /\ Cardinality(A \ {x}) = Cardinality(A) - 1
      /\ IsFiniteSet(G \ {e}) /\ Cardinality(G \ {e}) >= Cardinality(G) - 1
  <2>1. Cardinality(A \ {x}) = Cardinality(A) - 1 /\ IsFiniteSet(A \ {x})
    BY FS_RemoveElement
  <2>2. /\ IsFiniteSet(G \ {e})
        /\ Cardinality(G \ {e}) = IF e \in G THEN Cardinality(G) - 1 ELSE Cardinality(G)
    BY FS_RemoveElement
  <2>3. Cardinality(G) \in Nat
    BY FS_CardinalityType
  <2> QED  BY <2>1, <2>2, <2>3
<1>2. Cardinality(A1) <= Cardinality(A \ {x}) /\ Cardinality(G \ {e}) <= Cardinality(G1)
  BY <1>1, FS_Subset
<1>3. {Cardinality(A), Cardinality(G), Cardinality(A1), Cardinality(G1), Cardinality(A \ {x}),
       Cardinality(G \ {e})} \subseteq Nat
  BY <1>1, FS_CardinalityType
<1> QED  BY <1>1, <1>2, <1>3

\* One takes the place of another.
LEMMA OneReplaced ==
  ASSUME NEW A, NEW A1, NEW G, NEW G1, NEW x, NEW e, x \notin G,
         IsFiniteSet(A), IsFiniteSet(A1), IsFiniteSet(G), IsFiniteSet(G1),
         Cardinality(A) <= Cardinality(G), A1 \subseteq A, (G \cup {x}) \ {e} \subseteq G1
  PROVE  Cardinality(A1) <= Cardinality(G1)
<1>1. IsFiniteSet(G \cup {x}) /\ Cardinality(G \cup {x}) = Cardinality(G) + 1
  BY FS_AddElement
<1>2. /\ IsFiniteSet((G \cup {x}) \ {e})
      /\ Cardinality((G \cup {x}) \ {e})
           = IF e \in G \cup {x} THEN Cardinality(G \cup {x}) - 1 ELSE Cardinality(G \cup {x})
  BY <1>1, FS_RemoveElement
<1>3. Cardinality(A1) <= Cardinality(A) /\ Cardinality((G \cup {x}) \ {e}) <= Cardinality(G1)
  BY <1>2, FS_Subset
<1>4. {Cardinality(A), Cardinality(G), Cardinality(A1), Cardinality(G1),
       Cardinality((G \cup {x}) \ {e})} \subseteq Nat
  BY <1>2, FS_CardinalityType
<1> QED  BY <1>1, <1>2, <1>3, <1>4

\* An entry counts no less on the one side and no more on the other than before,
\* or comes to count on both.
Steady(e) ==
  /\ obj[e] \in Queues /\ Backing(e) =>
       obj'[e] \in Queues /\ obj'[e].task = obj[e].task /\ Backing(e)'
  /\ obj'[e] \in Queues /\ Slotted(e)' =>
       /\ obj[e] \in Queues /\ obj[e].task = obj'[e].task
       /\ Slotted(e) \/ (Backing(e)' /\ ~Backing(e))

LEMMA SlotsSteady ==
  ASSUME SlotInv, \A e \in Ids : Steady(e)
  PROVE  SlotInv'
<1> SUFFICES ASSUME NEW t \in Tasks PROVE SlotsAreBacked(t)'
  BY DEF SlotInv
<1>1. BackingOf(t) \subseteq BackingOf(t)'
  BY DEF BackingOf, Exists, Steady
<1>2. SlotsOf(t)' \ SlotsOf(t) \subseteq BackingOf(t)' \ BackingOf(t)
  BY DEF SlotsOf, BackingOf, Exists, Steady
<1>3. Cardinality(SlotsOf(t)) <= Cardinality(BackingOf(t))
  BY DEF SlotInv, SlotsAreBacked
<1>4. Cardinality(SlotsOf(t)') <= Cardinality(BackingOf(t)')
  BY <1>1, <1>2, <1>3, SlotSets, BothGrow
<1> QED  BY <1>4 DEF SlotsAreBacked

\* The entry is nobody's business yet, or nothing that matters happens to it.
Unknown(e) == e \notin handed /\ (NotYetListed(e) \/ obj[e] \notin Queues)
Stays(e) ==
  /\ obj[e] \in Queues => obj'[e] \in Queues /\ obj'[e].task = obj[e].task
  /\ obj'[e] \in Queues => obj[e] \in Queues
  /\ e \in Listed' => e \in Listed
  /\ NotYetListed(e)' => NotYetListed(e)

LEMMA OutAreHanded ==
  ASSUME TypeOK, HandedInv, NEW e \in Ids, Out(e)
  PROVE  Held(e) /\ e \in handed
BY DEF Out, Held, HandedInv

\* The pool and its threads are left alone.
LEMMA SlotsQuiet ==
  ASSUME TypeOK, HandedInv, SlotInv, UNCHANGED <<pool, run, wpc, handed, dropped>>,
         \A e \in Ids : Unknown(e) \/ Stays(e)
  PROVE  SlotInv'
<1> SUFFICES ASSUME NEW e \in Ids PROVE Steady(e)
  BY SlotsSteady
<1>1. Out(e)' <=> Out(e)
  BY DEF Out
<1>2. CASE Unknown(e)
  <2>1. ~Out(e) /\ (obj[e] \in Queues => ~Gone(e))
    BY <1>2, OutAreHanded DEF Unknown, Gone
  <2>2. ~Slotted(e)'
    BY <1>2 DEF Unknown, Slotted
  <2> QED  BY <2>1, <2>2 DEF Steady, Backing
<1>3. CASE Stays(e)
  <2>1. Gone(e) => Gone(e)'
    BY <1>3 DEF Gone, Stays
  <2>2. Slotted(e)' => Slotted(e)
    BY <1>3 DEF Slotted, Stays
  <2> QED  BY <1>1, <1>3, <2>1, <2>2 DEF Steady, Backing, Stays
<1> QED  BY <1>2, <1>3

\* A client that goes on from where its object is not yet in the list, or within
\* the refresh, or that lets go of its object.
LEMMA ClientsGoOn ==
  ASSUME TypeOK, NEW p \in Threads, NEW l, Goto(p, l), NEW X,
         p \in Clients => pc[p] \notin SharedPCs \/ l \in SharedPCs \/ own'[p] = 0,
         \A d \in Clients : own'[d] \in {own[d], 0} \cup X
  PROVE  \A e \in Ids \ X : NotYetListed(e)' => NotYetListed(e)
<1> SUFFICES ASSUME NEW e \in Ids, e \notin X, NEW d \in Clients, own'[d] = e, pc'[d] \notin SharedPCs
             PROVE  \E c \in Clients : own[c] = e /\ pc[c] \notin SharedPCs
  BY DEF NotYetListed, SharedPCs
<1>1. own[d] = e
  BY DEF Ids
<1>2. pc[d] \notin SharedPCs
  <2>1. CASE d = p
    BY <2>1 DEF Goto, TypeOK, Ids
  <2>2. CASE d # p
    BY <2>2 DEF Goto, TypeOK
  <2> QED  BY <2>1, <2>2
<1> QED  BY <1>1, <1>2

\* An object that only its client knows.
LEMMA OwnIsUnknown ==
  ASSUME TypeOK, Refs, HandedInv, NEW c \in Clients, pc[c] \in PrivatePCs
  PROVE  own[c] \in Ids /\ Unknown(own[c])
BY OwnFacts DEF Refs, HandedInv, Unknown, NotYetListed, PrivatePCs

LEMMA FreshIsUnknown ==
  ASSUME TypeOK, HandedInv, NEW x \in Ids, obj[x] = NoQueue
  PROVE  Unknown(x)
BY NoQueueIsNoQueue DEF HandedInv, Unknown

LEMMA SlotsByClient ==
  ASSUME TypeOK, Refs, HandedInv, SlotInv, NEW c \in Clients,
         \/ PrivateWrite(c) \/ PrivateIsFull(c) \/ PrivateRank(c) \/ PrivateAdd(c) \/ SwitchTask(c)
         \/ VipWrite(c) \/ VipRemove(c) \/ KillWrite(c) \/ KillRemove(c)
  PROVE  SlotInv'
<1>1. UNCHANGED <<pool, run, wpc, handed, dropped>>
  BY DEF PrivateWrite, PrivateIsFull, PrivateRank, PrivateAdd, SwitchTask, VipWrite, VipRemove,
         KillWrite, KillRemove, mem, wrk
<1>2. \A e \in Ids : NotYetListed(e)' => NotYetListed(e)
  <2>1. /\ pc[c] \notin SharedPCs /\ \E l : Goto(c, l)
        /\ \A d \in Clients : own'[d] \in {own[d], 0} \cup {}
    BY DEF SharedPCs, TypeOK, PrivateWrite, PrivateIsFull, PrivateRank, PrivateAdd, SwitchTask,
           VipWrite, VipRemove, KillWrite, KillRemove
  <2> QED  BY <2>1, ClientsGoOn, ClientIsThread
<1>3. CASE UNCHANGED <<obj, queue>>
  <2>1. \A e \in Ids : Stays(e)
    BY <1>2, <1>3 DEF Stays, Listed
  <2> QED  BY <1>1, <2>1, SlotsQuiet
<1>4. CASE VipRemove(c)
  <2>1. UNCHANGED obj /\ queue' = Without(obj[own[c]].task)
    BY <1>4 DEF VipRemove
  <2>2. Listed' \subseteq Listed
    BY <2>1, WithoutShrinks DEF TypeOK, Listed
  <2>3. \A e \in Ids : Stays(e)
    BY <1>2, <2>1, <2>2 DEF Stays
  <2> QED  BY <1>1, <2>3, SlotsQuiet
<1>5. CASE PrivateRank(c) \/ PrivateAdd(c) \/ KillRemove(c)
  <2>1. own[c] \in Ids /\ Unknown(own[c])
    BY <1>5, OwnIsUnknown DEF PrivateRank, PrivateAdd, KillRemove, PrivatePCs
  <2>2. \A e \in Ids : e # own[c] => obj'[e] = obj[e]
    BY <1>5 DEF PrivateRank, PrivateAdd, KillRemove, TypeOK
  <2>3. Listed' \subseteq Listed \cup {own[c]}
    <3>1. CASE PrivateAdd(c)
      BY <2>1, <3>1, RangeOfAppend DEF PrivateAdd, TypeOK, Listed
    <3>2. CASE KillRemove(c)
      BY <3>2, WithoutShrinks DEF KillRemove, TypeOK, Listed
    <3>3. CASE PrivateRank(c)
      BY <3>3 DEF PrivateRank, Listed
    <3> QED  BY <1>5, <3>1, <3>2, <3>3
  <2>4. \A e \in Ids : e # own[c] => Stays(e)
    BY <1>2, <2>2, <2>3 DEF Stays
  <2> QED  BY <1>1, <2>1, <2>4, SlotsQuiet
<1> QED
  BY <1>3, <1>4, <1>5 DEF PrivateWrite, PrivateIsFull, SwitchTask, VipWrite, KillWrite, mem

\* A new object.
LEMMA SlotsByNew ==
  ASSUME TypeOK, Refs, HandedInv, SlotInv, UNCHANGED <<pool, run, wpc, handed, dropped>>,
         NEW x \in Ids, obj[x] = NoQueue, \A e \in Ids : e # x => obj'[e] = obj[e],
         Listed' \subseteq Listed \cup {x},
         \A e \in Ids \ {x} : NotYetListed(e)' => NotYetListed(e)
  PROVE  SlotInv'
<1>1. \A e \in Ids : e # x => Stays(e)
  BY DEF Stays
<1> QED  BY <1>1, FreshIsUnknown, SlotsQuiet

LEMMA SlotsByRequest ==
  ASSUME TypeOK, Refs, HandedInv, SlotInv, NEW c \in Clients, ExportFind(c) \/ Request(c)
  PROVE  SlotInv'
<1>1. UNCHANGED <<pool, run, wpc, handed, dropped, queue>> /\ pc[c] \notin SharedPCs
  BY DEF SharedPCs, ExportFind, Request, PrivateFind, Find, ExportInsert, VipFind, KillFind,
         DeleteTask, EditContent, RowUpdate, ConvertAuto, mem, wrk
<1>2. UNCHANGED pc \/ \E l : Goto(c, l)
  BY DEF ExportFind, Request, PrivateFind, Find, ExportInsert, VipFind, KillFind, DeleteTask,
         EditContent, RowUpdate, ConvertAuto, thr
<1>3. Listed' = Listed
  BY <1>1 DEF Listed
<1>4. CASE UNCHANGED <<obj, own>>
  <2>1. \A e \in Ids : NotYetListed(e)' => NotYetListed(e)
    <3>1. CASE UNCHANGED pc
      BY <1>4, <3>1 DEF NotYetListed
    <3>2. ASSUME NEW l, Goto(c, l) PROVE \A e \in Ids \ {} : NotYetListed(e)' => NotYetListed(e)
      BY <1>1, <1>4, <3>2, ClientsGoOn, ClientIsThread
    <3> QED  BY <1>2, <3>1, <3>2
  <2>2. \A e \in Ids : Stays(e)
    BY <1>3, <1>4, <2>1 DEF Stays
  <2> QED  BY <1>1, <2>2, SlotsQuiet
<1>5. CASE ~UNCHANGED <<obj, own>>
  <2>1. PICK x \in Ids : /\ obj[x] = NoQueue /\ own' = [own EXCEPT ![c] = x]
                         /\ \E q : obj' = [obj EXCEPT ![x] = q]
    BY <1>5 DEF ExportFind, Request, PrivateFind, Find, ExportInsert, VipFind, KillFind, DeleteTask,
                EditContent, RowUpdate, ConvertAuto, CallFresh, Fresh, mem, thr
  <2>2. \E l : Goto(c, l)
    BY <1>5 DEF ExportFind, Request, PrivateFind, Find, ExportInsert, VipFind, KillFind, DeleteTask,
                EditContent, RowUpdate, ConvertAuto, mem, thr
  <2>3. \A d \in Clients : own'[d] \in {own[d], 0} \cup {x}
    BY <2>1 DEF TypeOK
  <2>4. \A e \in Ids \ {x} : NotYetListed(e)' => NotYetListed(e)
    BY <1>1, <2>2, <2>3, ClientsGoOn, ClientIsThread
  <2>5. \A e \in Ids : e # x => obj'[e] = obj[e]
    BY <2>1 DEF TypeOK
  <2> QED  BY <1>1, <1>3, <2>1, <2>4, <2>5, SlotsByNew
<1> QED  BY <1>4, <1>5

LEMMA SlotsByRefresh ==
  ASSUME TypeOK, Refs, HandedInv, SlotInv, NEW p \in Threads, Refresh(p)
  PROVE  SlotInv'
<1>1. UNCHANGED <<pool, run, wpc, handed, dropped, queue>>
  BY DEF Refresh, ModifyFirst, ModifyCheck, ModifyAll, BatchWrite, mem, wrk
<1>2. \A e \in Ids : NotYetListed(e)' => NotYetListed(e)
  <2>1. /\ \E l : Goto(p, l) /\ (p \in Clients => pc[p] \notin SharedPCs \/ l \in SharedPCs \/ own'[p] = 0)
        /\ \A d \in Clients : own'[d] \in {own[d], 0} \cup {}
    BY ThreadsAssumption DEF SharedPCs, TypeOK, Refresh, ModifyFirst, ModifyCheck, ModifyAll,
       BatchWrite, Done, Skipped, Failed
  <2> QED  BY <2>1, ClientsGoOn
<1>3. obj' = obj \/ obj' = Modified
  BY DEF Refresh, ModifyFirst, ModifyCheck, ModifyAll, BatchWrite, mem
<1>4. \A e \in Ids : /\ obj[e] \in Queues => obj'[e] \in Queues /\ obj'[e].task = obj[e].task
                     /\ obj'[e] \in Queues => obj[e] \in Queues
  <2>1. CASE obj' = obj
    BY <2>1
  <2>2. CASE obj' = Modified
    BY <2>2, ModifiedType, NoQueueIsNoQueue DEF Refs, TypeOK
  <2> QED  BY <1>3, <2>1, <2>2
<1>5. \A e \in Ids : Stays(e)
  BY <1>1, <1>2, <1>4 DEF Stays, Listed
<1> QED  BY <1>1, <1>5, SlotsQuiet

\* What is handed over, and is still where it was, comes to count on both sides.
LEMMA SlotsBySubmit ==
  ASSUME TypeOK, HandedInv, SlotInv, UNCHANGED <<queue, run, wpc, dropped>>, NEW S, SubmitAll(S),
         \A e \in Ids : obj[e] \in Queues => obj'[e] \in Queues /\ obj'[e].task = obj[e].task,
         \A e \in Ids : obj'[e] \in Queues => obj[e] \in Queues,
         \A e \in Ids : NotYetListed(e)' => NotYetListed(e)
  PROVE  SlotInv'
<1> SUFFICES ASSUME NEW e \in Ids PROVE Steady(e)
  BY SlotsSteady
<1>1. /\ pool[e] \in Nat /\ pool'[e] = IF e \in S THEN pool[e] + 1 ELSE pool[e]
      /\ Listed' = Listed /\ (e \in handed' <=> e \in handed \/ e \in S)
  BY DEF TypeOK, SubmitAll, Listed
<1>2. (Out(e) => Out(e)') /\ (e \in S => Out(e)')
  BY <1>1 DEF Out
<1>3. Backing(e) => Backing(e)'
  BY <1>1, <1>2 DEF Backing, Gone
<1>4. Slotted(e)' => Slotted(e) \/ (Backing(e)' /\ ~Backing(e))
  <2> SUFFICES ASSUME Slotted(e)', ~Slotted(e) PROVE Backing(e)' /\ ~Backing(e)
    OBVIOUS
  <2>1. e \in Listed /\ e \notin handed /\ e \in S /\ e \notin dropped
    BY <1>1 DEF Slotted
  <2>2. ~Out(e) /\ ~Gone(e)
    BY <2>1, OutAreHanded DEF Gone
  <2> QED  BY <1>2, <2>1, <2>2 DEF Backing
<1> QED  BY <1>3, <1>4 DEF Steady

LEMMA SlotsByHandlers ==
  ASSUME TypeOK, Refs, HandedInv, SlotInv, NEW c \in Clients, PrivateSubmit(c) \/ VipSubmit(c)
  PROVE  SlotInv'
<1>1. UNCHANGED <<obj, queue, run, wpc, dropped>> /\ own' = [own EXCEPT ![c] = 0] /\ Goto(c, "idle")
  BY DEF PrivateSubmit, VipSubmit, wrk
<1>2. \A e \in Ids : NotYetListed(e)' => NotYetListed(e)
  <2>1. own'[c] = 0 /\ \A d \in Clients : own'[d] \in {own[d], 0} \cup {}
    BY <1>1 DEF TypeOK
  <2> QED  BY <1>1, <2>1, ClientsGoOn, ClientIsThread
<1>3. CASE UNCHANGED <<pool, handed>>
  <2>1. \A e \in Ids : Stays(e)
    BY <1>1, <1>2 DEF Stays, Listed
  <2> QED  BY <1>1, <1>3, <2>1, SlotsQuiet
<1>4. CASE SubmitAll({own[c]})
  BY <1>1, <1>2, <1>4, SlotsBySubmit
<1> QED  BY <1>3, <1>4 DEF PrivateSubmit, VipSubmit, Submit

LEMMA SlotsByMonitor ==
  ASSUME TypeOK, Refs, HandedInv, SlotInv, MonitorStep
  PROVE  SlotInv'
<1>1. CASE Refresh("monitor")
  BY <1>1, SlotsByRefresh DEF Threads
<1>2. CASE MonitorCheck \/ MonitorUpdate
  <2>1. own' = own /\ UNCHANGED <<queue, run, wpc, dropped>> /\ \E l : Goto("monitor", l)
    BY <1>2 DEF MonitorCheck, MonitorUpdate, mem, wrk
  <2>2. \A e \in Ids : NotYetListed(e)' => NotYetListed(e)
    <3>1. \A d \in Clients : own'[d] \in {own[d], 0} \cup {}
      BY <2>1
    <3> QED  BY <2>1, <3>1, ClientsGoOn, ThreadsAssumption DEF Threads
  <2>3. CASE MonitorCheck
    <3>1. UNCHANGED <<obj, pool, handed>>
      BY <2>3 DEF MonitorCheck, mem
    <3>2. \A e \in Ids : Stays(e)
      BY <2>1, <2>2, <3>1 DEF Stays, Listed
    <3> QED  BY <2>1, <3>1, <3>2, SlotsQuiet
  <2>4. CASE MonitorUpdate
    <3>1. SubmitAll(Promoted)
      BY <2>4 DEF MonitorUpdate
    <3>2. \A e \in Ids : obj'[e] = IF e \in Listed THEN Advanced(obj[e]) ELSE obj[e]
      BY <2>4 DEF MonitorUpdate
    <3>3. \A e \in Ids : /\ obj[e] \in Queues => obj'[e] \in Queues /\ obj'[e].task = obj[e].task
                         /\ obj'[e] \in Queues => obj[e] \in Queues
      <4> SUFFICES ASSUME NEW e \in Ids
                   PROVE  /\ obj[e] \in Queues => obj'[e] \in Queues /\ obj'[e].task = obj[e].task
                          /\ obj'[e] \in Queues => obj[e] \in Queues
        OBVIOUS
      <4>1. CASE e \in Listed
        <5>1. obj[e] \in Queues
          BY <4>1 DEF Refs, ListedAreQueues
        <5>2. PICK q \in Queues : q = obj[e]
          BY <5>1
        <5> QED  BY <3>2, <4>1, <5>1, <5>2, AdvancedType
      <4> QED  BY <3>2, <4>1
    <3> QED  BY <2>1, <2>2, <3>1, <3>3, SlotsBySubmit
  <2> QED  BY <1>2, <2>3, <2>4
<1> QED  BY <1>1, <1>2 DEF MonitorStep

LEMMA SlotsByBoot ==
  ASSUME TypeOK, Refs, HandedInv, SlotInv, BootStep
  PROVE  SlotInv'
<1>1. CASE Refresh("boot")
  BY <1>1, SlotsByRefresh DEF Threads
<1>2. CASE ~Refresh("boot")
  <2>1. /\ own' = own /\ UNCHANGED <<run, wpc, dropped>>
        /\ \A c \in Clients : pc'[c] = pc[c]
    BY <1>2, BootOnlyReads, ThreadsAssumption DEF BootStep, BootReads, BootEnqueue, BootSubmit, mem,
       wrk, Goto, TypeOK, Threads
  <2>2. \A e \in Ids : NotYetListed(e)' => NotYetListed(e)
    BY <2>1 DEF NotYetListed
  <2>3. CASE BootReads
    <3>1. UNCHANGED <<obj, queue, pool, handed>>
      BY <2>3, BootOnlyReads DEF mem
    <3>2. \A e \in Ids : Stays(e)
      BY <2>2, <3>1 DEF Stays, Listed
    <3> QED  BY <2>1, <3>1, <3>2, SlotsQuiet
  <2>4. ASSUME NEW t \in Tasks, BootEnqueue(t) PROVE SlotInv'
    <3>1. PICK x \in Ids : /\ obj[x] = NoQueue /\ queue' = Append(queue, x)
                           /\ \E q : obj' = [obj EXCEPT ![x] = q]
      BY <2>4 DEF BootEnqueue, Fresh
    <3>2. UNCHANGED <<pool, handed>>
      BY <2>4 DEF BootEnqueue
    <3>3. \A e \in Ids : e # x => obj'[e] = obj[e]
      BY <3>1 DEF TypeOK
    <3>4. Listed' = Listed \cup {x}
      BY <3>1, RangeOfAppend DEF TypeOK, Listed
    <3> QED  BY <2>1, <2>2, <3>1, <3>2, <3>3, <3>4, SlotsByNew
  <2>5. CASE BootSubmit
    <3>1. UNCHANGED <<obj, queue>> /\ SubmitAll({e \in Listed : Ready(e)})
      BY <2>5 DEF BootSubmit
    <3> QED  BY <2>1, <2>2, <3>1, SlotsBySubmit
  <2> QED  BY <1>2, <2>3, <2>4, <2>5 DEF BootStep, BootReads
<1> QED  BY <1>1, <1>2

\* A pool thread that neither takes an entry out nor ends by an exception.
LEMMA SlotsByRun ==
  ASSUME TypeOK, Refs, HandedInv, SlotInv, NEW w \in Workers,
         \/ \E x \in Ids : Take(w, x)
         \/ \E o \in Outcomes : Execute(w, o)
         \/ Commit(w) \/ Report(w)
  PROVE  SlotInv'
<1> SUFFICES ASSUME NEW e \in Ids PROVE Steady(e)
  BY SlotsSteady
<1>1. UNCHANGED <<queue, handed, dropped, own, pc>>
  BY DEF Take, Execute, Commit, Report, mem, thr
<1>2. Out(e) => Out(e)'
  <2>1. CASE \E x \in Ids : Take(w, x)
    BY <2>1 DEF Take, Out, TypeOK
  <2>2. CASE ~(\E x \in Ids : Take(w, x))
    BY <2>2 DEF Execute, Commit, Report, Out, TypeOK, mem
  <2> QED  BY <2>1, <2>2
<1>3. /\ obj[e] \in Queues => obj'[e] \in Queues /\ obj'[e].task = obj[e].task
      /\ obj'[e] \in Queues => obj[e] \in Queues
  <2>1. ASSUME NEW o \in Outcomes, Execute(w, o)
        PROVE  /\ obj[e] \in Queues => obj'[e] \in Queues /\ obj'[e].task = obj[e].task
               /\ obj'[e] \in Queues => obj[e] \in Queues
    <3>1. run[w] \in Ids /\ obj[run[w]] \in Queues
      BY <2>1, RunFacts DEF Execute, Refs
    <3>2. CASE e = run[w]
      <4>1. obj'[e] = [obj[e] EXCEPT !.row = Ended(@, o)]
        BY <2>1, <3>2 DEF Execute, TypeOK
      <4>2. Ended(obj[e].row, o) \in Rows
        BY <3>1, <3>2 DEF Ended, Queues, Rows, Statuses
      <4> QED  BY <3>1, <3>2, <4>1, <4>2 DEF Queues
    <3>3. CASE e # run[w]
      BY <2>1, <3>3 DEF Execute, TypeOK
    <3> QED  BY <3>2, <3>3
  <2>2. CASE UNCHANGED obj
    BY <2>2
  <2> QED  BY <2>1, <2>2 DEF Take, Commit, Report, mem
<1>4. Gone(e) => Gone(e)'
  BY <1>1 DEF Gone, Listed, NotYetListed
<1>5. Slotted(e)' => Slotted(e)
  BY <1>1 DEF Slotted, Listed
<1> QED  BY <1>1, <1>2, <1>3, <1>4, <1>5 DEF Steady, Backing

\* A run that ends by an exception: its entry no longer counts.
LEMMA SlotsByThrow ==
  ASSUME TypeOK, Refs, HandedInv, SlotInv, NEW w \in Workers, ExecuteThrows(w)
  PROVE  SlotInv'
<1>1. PICK x \in Ids : x = run[w]
  BY RunFacts DEF Refs, ExecuteThrows
<1>2. /\ UNCHANGED <<obj, queue, handed, own, pc, pool>> /\ dropped' = dropped \cup {x}
      /\ run' = [run EXCEPT ![w] = 0]
  BY <1>1 DEF ExecuteThrows, thr
<1>3. x \in handed /\ ~NotYetListed(x)
  <2>1. x \in handed
    BY <1>1 DEF HandedInv, Held
  <2>2. ASSUME NEW c \in Clients, own[c] = x PROVE pc[c] \in SharedPCs
    BY <2>1, <2>2 DEF Refs, OwnIsQueue, HandedInv, Ids
  <2> QED  BY <2>1, <2>2 DEF NotYetListed, SharedPCs
<1>4. ASSUME NEW e \in Ids, e # x PROVE Steady(e)
  <2>1. Out(e) => Out(e)'
    BY <1>1, <1>2, <1>4 DEF Out, TypeOK, ExecuteThrows
  <2> QED
    BY <1>2, <1>4, <2>1 DEF Steady, Backing, Gone, Slotted, Listed, NotYetListed
<1>5. ~Slotted(x)'
  BY <1>2 DEF Slotted
<1>6. CASE x \notin Listed
  <2>1. Backing(x)'
    BY <1>2, <1>3, <1>6 DEF Backing, Gone, Listed, NotYetListed
  <2>2. Steady(x)
    BY <1>2, <1>5, <2>1 DEF Steady
  <2> QED  BY <1>4, <2>2, SlotsSteady
<1>7. CASE x \in dropped
  <2>1. Backing(x) => Backing(x)'
    BY <1>2, <1>7 DEF Backing, Gone, Listed, NotYetListed
  <2>2. Steady(x)
    BY <1>2, <1>5, <2>1 DEF Steady
  <2> QED  BY <1>4, <2>2, SlotsSteady
<1>8. CASE x \in Listed /\ x \notin dropped
  <2> SUFFICES ASSUME NEW t \in Tasks PROVE SlotsAreBacked(t)'
    BY DEF SlotInv
  <2>1. SlotsOf(t)' \subseteq SlotsOf(t) \ {x}
    <3>1. \A e \in Ids : Slotted(e)' => Slotted(e) /\ e # x
      BY <1>2 DEF Slotted, Listed
    <3> QED  BY <1>2, <3>1 DEF SlotsOf, Exists
  <2>2. BackingOf(t) \ {x} \subseteq BackingOf(t)'
    BY <1>4 DEF BackingOf, Exists, Steady
  <2>3. Cardinality(SlotsOf(t)) <= Cardinality(BackingOf(t))
    BY DEF SlotInv, SlotsAreBacked
  <2>4. CASE obj[x] \in Queues /\ obj[x].task = t
    <3>1. x \in SlotsOf(t)
      BY <1>3, <1>8, <2>4 DEF SlotsOf, Exists, Slotted
    <3>2. Cardinality(SlotsOf(t)') <= Cardinality(BackingOf(t)')
      BY <2>1, <2>2, <2>3, <3>1, SlotSets, BothShrink
    <3> QED  BY <3>2 DEF SlotsAreBacked
  <2>5. CASE ~(obj[x] \in Queues /\ obj[x].task = t)
    <3>1. x \notin BackingOf(t)
      BY <2>5 DEF BackingOf, Exists
    <3>2. Cardinality(SlotsOf(t)') <= Cardinality(BackingOf(t)')
      BY <2>1, <2>2, <2>3, <3>1, SlotSets, BothGrow
    <3> QED  BY <3>2 DEF SlotsAreBacked
  <2> QED  BY <2>4, <2>5
<1> QED  BY <1>6, <1>7, <1>8

\* A run that takes an entry of its task out of the list, or finds none there.
LEMMA SlotsByLeave ==
  ASSUME TypeOK, Refs, HandedInv, Distinct(queue), SlotInv, NEW w \in Workers, Leave(w)
  PROVE  SlotInv'
<1>1. PICK y \in Ids, u \in Tasks : y = run[w] /\ u = obj[y].task
  BY RunFacts DEF Refs, Leave
<1>2. /\ UNCHANGED <<obj, handed, dropped, own, pc, pool>> /\ queue' = Without(u)
      /\ \A v \in Workers : v # w => run'[v] = run[v] /\ wpc'[v] = wpc[v]
  BY <1>1 DEF Leave, thr, TypeOK
<1>3. Listed' \subseteq Listed
  BY <1>2, WithoutShrinks DEF TypeOK, Listed
<1>4. \A e \in Ids : Slotted(e)' => Slotted(e)
  BY <1>2, <1>3 DEF Slotted
<1>5. \A e \in Ids : e # y /\ Backing(e) => Backing(e)'
  <2>1. \A e \in Ids : e # y /\ Out(e) => Out(e)'
    BY <1>1, <1>2 DEF Out
  <2>2. \A e \in Ids : Gone(e) => Gone(e)'
    BY <1>2, <1>3 DEF Gone, NotYetListed
  <2> QED  BY <1>2, <2>1, <2>2 DEF Backing
<1> SUFFICES ASSUME NEW t \in Tasks PROVE SlotsAreBacked(t)'
  BY DEF SlotInv
<1>6. SlotsOf(t)' \subseteq SlotsOf(t)
  BY <1>2, <1>4 DEF SlotsOf, Exists
<1>7. BackingOf(t) \ {y} \subseteq BackingOf(t)'
  BY <1>2, <1>5 DEF BackingOf, Exists
<1>8. Cardinality(SlotsOf(t)) <= Cardinality(BackingOf(t))
  BY DEF SlotInv, SlotsAreBacked
<1>9. CASE t # u
  <2>1. y \notin BackingOf(t)
    BY <1>1, <1>9 DEF BackingOf, Exists
  <2>2. Cardinality(SlotsOf(t)') <= Cardinality(BackingOf(t)')
    BY <1>6, <1>7, <1>8, <2>1, SlotSets, BothGrow
  <2> QED  BY <2>2 DEF SlotsAreBacked
<1>10. CASE t = u /\ ~IsListed(u)
  <2>1. SlotsOf(t)' \subseteq {}
    BY <1>6, <1>10 DEF SlotsOf, Exists, Slotted, IsListed
  <2>2. SlotsOf(t)' = {}
    BY <2>1
  <2>3. Cardinality(SlotsOf(t)') = 0 /\ Cardinality(BackingOf(t)') \in Nat
    BY <2>2, SlotSets, FS_EmptySet
  <2> QED  BY <2>3 DEF SlotsAreBacked
<1>11. CASE t = u /\ IsListed(u)
  <2>1. PICK x \in Listed : obj[x].task = u /\ Listed' = Listed \ {x}
    BY <1>2, <1>11, WithoutTakesTask
  <2>2. x \in Ids /\ obj[x] \in Queues
    BY RangeType DEF Refs, ListedAreQueues
  <2>3. CASE x \in SlotsOf(t)
    <3>1. SlotsOf(t)' \subseteq SlotsOf(t) \ {x}
      BY <1>6, <2>1 DEF SlotsOf, Slotted
    <3>2. Cardinality(SlotsOf(t)') <= Cardinality(BackingOf(t)')
      BY <1>7, <1>8, <2>3, <3>1, SlotSets, BothShrink
    <3> QED  BY <3>2 DEF SlotsAreBacked
  <2>4. CASE x \notin SlotsOf(t)
    <3>1. x \notin handed \/ x \in dropped
      BY <1>11, <2>1, <2>2, <2>4 DEF SlotsOf, Exists, Slotted
    <3>2. x \notin BackingOf(t)
      BY <2>1, <2>2, <3>1, OutAreHanded DEF BackingOf, Backing, Gone
    <3>3. ~NotYetListed(x)
      <4>1. ASSUME NEW c \in Clients, own[c] = x PROVE pc[c] \in SharedPCs
        BY <2>1, <2>2, <4>1 DEF Refs, OwnIsQueue, OwnIsPrivate, Ids
      <4> QED  BY <4>1 DEF NotYetListed, SharedPCs
    <3>4. x \in BackingOf(t)'
      BY <1>2, <1>11, <2>1, <2>2, <3>1, <3>3 DEF BackingOf, Exists, Backing, Gone, NotYetListed
    <3>5. (BackingOf(t) \cup {x}) \ {y} \subseteq BackingOf(t)'
      BY <1>7, <3>4
    <3>6. Cardinality(SlotsOf(t)') <= Cardinality(BackingOf(t)')
      BY <1>6, <1>8, <3>2, <3>5, SlotSets, OneReplaced
    <3> QED  BY <3>6 DEF SlotsAreBacked
  <2> QED  BY <2>3, <2>4
<1> QED  BY <1>9, <1>10, <1>11

LEMMA SlotsInit == Init => SlotInv
<1> SUFFICES ASSUME Init, NEW t \in Tasks PROVE SlotsAreBacked(t)
  BY DEF SlotInv
<1>1. SlotsOf(t) = {}
  BY NoQueueIsNoQueue DEF SlotsOf, Exists, Init
<1>2. Cardinality(SlotsOf(t)) = 0 /\ Cardinality(BackingOf(t)) \in Nat
  BY <1>1, SlotSets, FS_EmptySet
<1> QED  BY <1>2 DEF SlotsAreBacked

LEMMA SlotsByCrash ==
  ASSUME Crash
  PROVE  SlotInv'
<1>1. \A e \in Ids : obj'[e] = NoQueue
  BY DEF Crash
<1>2. ASSUME NEW t \in Tasks PROVE SlotsAreBacked(t)'
  <2>1. SlotsOf(t)' = {}
    BY <1>1, NoQueueIsNoQueue DEF SlotsOf, Exists
  <2>2. Cardinality(SlotsOf(t)') = 0 /\ Cardinality(BackingOf(t)') \in Nat
    BY <2>1, SlotSets, FS_EmptySet
  <2> QED  BY <2>2 DEF SlotsAreBacked
<1> QED  BY <1>2 DEF SlotInv

LEMMA SlotsStep ==
  ASSUME TypeOK, Refs, HandedInv, Distinct(queue), SlotInv, [Next]_vars
  PROVE  SlotInv'
<1>1. ASSUME NEW c \in Clients, ClientStep(c) \/ Request(c) PROVE SlotInv'
  BY <1>1, SlotsByClient, SlotsByRequest, SlotsByRefresh, SlotsByHandlers, ClientIsThread
     DEF ClientStep
<1>2. ASSUME NEW w \in Workers, Worker(w) PROVE SlotInv'
  BY <1>2, SlotsByRun, SlotsByThrow, SlotsByLeave DEF Worker
<1>3. CASE UNCHANGED vars
  <2>1. UNCHANGED <<pool, run, wpc, handed, dropped, obj, queue, own, pc>>
    BY <1>3 DEF vars, mem, thr, wrk
  <2>2. \A e \in Ids : Stays(e)
    BY <2>1 DEF Stays, Listed, NotYetListed
  <2> QED  BY <2>1, <2>2, SlotsQuiet
<1> QED  BY <1>1, <1>2, <1>3, SlotsByMonitor, SlotsByBoot, SlotsByCrash DEF Next

\* TaskQueue.remove goes by the id of the task: an entry keeps a slot after the
\* last run of its task only if another entry of the task was taken out in its
\* place without a run, or after one that ended by an exception.
THEOREM SlotsComeBackHolds == Spec => []SlotsComeBack
<1>1. Init => Inv /\ NoticeInv /\ SlotInv
  BY InitType, InitRefs, InitCalls, InitEarned, InitMaps, NoticesInit, SlotsInit DEF Inv
<1>2. Inv /\ NoticeInv /\ SlotInv /\ [Next]_vars => (Inv /\ NoticeInv /\ SlotInv)'
  BY StepMaps, NoticesByClient, NoticesByWorker, NoticesByOthers, SlotsStep DEF Inv, Next, NoticeInv
<1>3. Inv /\ SlotInv => SlotsComeBack
  <2> SUFFICES ASSUME Inv, SlotInv, NEW e \in Ids, Lost(e)
               PROVE  LeftWithoutRun(obj[e].task)
    BY DEF SlotsComeBack
  <2>1. obj[e] \in Queues /\ obj[e].task \in Tasks
    BY DEF Inv, Refs, ListedAreQueues, Lost, Abandoned, Queues
  <2>2. PICK t \in Tasks : t = obj[e].task
    BY <2>1
  <2>3. e \in SlotsOf(t)
    BY <2>1, <2>2 DEF SlotsOf, Exists, Slotted, Lost, Abandoned
  <2>4. Cardinality(SlotsOf(t)) # 0
    BY <2>3, SlotSets, FS_EmptySet
  <2>5. BackingOf(t) # {}
    <3>1. Cardinality(BackingOf(t)) # 0
      BY <2>4, SlotSets DEF SlotInv, SlotsAreBacked
    <3> QED  BY <3>1, FS_EmptySet
  <2>6. PICK f \in BackingOf(t) : TRUE
    BY <2>5
  <2>7. f \in Ids /\ obj[f] \in Queues /\ obj[f].task = t /\ Backing(f)
    BY DEF BackingOf, Exists
  <2>8. ~Out(f)
    BY <2>2, <2>7, NoQueueIsNoQueue DEF Lost, Abandoned, Outstanding, Out
  <2> QED  BY <2>2, <2>7, <2>8, NoQueueIsNoQueue DEF Backing, Gone, LeftWithoutRun
<1> QED  BY <1>1, <1>2, <1>3, PTL DEF Spec
=============================================================================
