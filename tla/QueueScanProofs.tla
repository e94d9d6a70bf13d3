---------------------------- MODULE QueueScanProofs ----------------------------
(***************************************************************************)
(* Proofs for QueueScan.  As long as no other thread has removed an entry, *)
(* the entries a scan looks for are still at or behind its index, and what *)
(* it has found is still there.  And an entry is in the list once, so that *)
(* of two threads that found it one only takes it out.                     *)
(***************************************************************************)
EXTENDS QueueScan, TLAPS, FiniteSetTheorems, SequenceTheorems

Distinct(s) == \A i, j \in 1 .. Len(s) : s[i] = s[j] => i = j

\* Taking out the element at a position takes that element and no other.
LEMMA RemoveAtTakesOne ==
  ASSUME NEW S, NEW s \in Seq(S), Distinct(s), NEW i \in 1 .. Len(s)
  PROVE  /\ RemoveAt(s, i) \in Seq(S)
         /\ Distinct(RemoveAt(s, i))
         /\ Range(RemoveAt(s, i)) = Range(s) \ {s[i]}
<1> DEFINE a == SubSeq(s, 1, i - 1)
           b == SubSeq(s, i + 1, Len(s))
           r == a \o b
<1>1. a \in Seq(S) /\ Len(a) = i - 1 /\ \A k \in 1 .. i - 1 : a[k] = s[k]
  OBVIOUS
<1>2. b \in Seq(S) /\ Len(b) = Len(s) - i /\ \A k \in 1 .. Len(s) - i : b[k] = s[k + i]
  OBVIOUS
<1>3. RemoveAt(s, i) = r
  BY DEF RemoveAt
<1> HIDE DEF a, b
<1>4. /\ r \in Seq(S) /\ Len(r) = Len(s) - 1
      /\ \A k \in 1 .. Len(s) - 1 : r[k] = IF k <= i - 1 THEN a[k] ELSE b[k - (i - 1)]
  <2>1. /\ r \in Seq(S) /\ Len(r) = Len(a) + Len(b)
        /\ \A k \in 1 .. Len(a) + Len(b) : r[k] = IF k <= Len(a) THEN a[k] ELSE b[k - Len(a)]
    BY <1>1, <1>2, ConcatProperties, Zenon
  <2>2. Len(a) = i - 1 /\ Len(a) + Len(b) = Len(s) - 1
    BY <1>1, <1>2
  <2> HIDE DEF r
  <2> QED  BY <2>1, <2>2
<1> HIDE DEF r
<1>5. /\ r \in Seq(S) /\ Len(r) = Len(s) - 1
      /\ \A k \in 1 .. Len(s) - 1 : r[k] = IF k <= i - 1 THEN s[k] ELSE s[k + 1]
  <2>1. ASSUME NEW k \in 1 .. Len(s) - 1
        PROVE  r[k] = IF k <= i - 1 THEN s[k] ELSE s[k + 1]
    <3>1. CASE k <= i - 1
      BY <1>1, <1>4, <3>1
    <3>2. CASE k > i - 1
      <4>1. k - (i - 1) \in 1 .. Len(s) - i  BY <3>2
      <4>2. b[k - (i - 1)] = s[k - (i - 1) + i]  BY <1>2, <4>1
      <4> QED  BY <1>4, <3>2, <4>2
    <3> QED  BY <3>1, <3>2
  <2> QED  BY <1>4, <2>1
<1>6. Distinct(r)
  BY <1>5 DEF Distinct
<1>7. Range(r) = Range(s) \ {s[i]}
  <2>1. DOMAIN r = 1 .. Len(s) - 1 /\ DOMAIN s = 1 .. Len(s)
    BY <1>5
  <2>2. ASSUME NEW k \in 1 .. Len(s) - 1
        PROVE  r[k] \in Range(s) /\ r[k] # s[i]
    BY <1>5, <2>1 DEF Distinct, Range
  <2>3. ASSUME NEW j \in 1 .. Len(s), j # i
        PROVE  s[j] \in Range(r)
    <3>1. CASE j <= i - 1
      BY <1>5, <2>1, <3>1 DEF Range
    <3>2. CASE j > i - 1
      <4>1. j - 1 \in 1 .. Len(s) - 1 /\ r[j - 1] = s[j]
        BY <1>5, <2>3, <3>2
      <4> QED  BY <2>1, <4>1 DEF Range
    <3> QED  BY <3>1, <3>2
  <2>4. Range(r) \subseteq Range(s) \ {s[i]}
    BY <2>1, <2>2, Zenon DEF Range
  <2>5. Range(s) \ {s[i]} \subseteq Range(r)
    BY <2>1, <2>3, Zenon DEF Range
  <2> QED  BY <2>4, <2>5
<1> QED  BY <1>3, <1>5, <1>6, <1>7

\* List.remove takes out what it is asked to take out, if it is there.
LEMMA RemoveFirstTakesOne ==
  ASSUME NEW S, NEW s \in Seq(S), Distinct(s), NEW e
  PROVE  /\ RemoveFirst(s, e) \in Seq(S)
         /\ Distinct(RemoveFirst(s, e))
         /\ Range(RemoveFirst(s, e)) = Range(s) \ {e}
         /\ e \notin Range(s) => RemoveFirst(s, e) = s
<1>1. CASE e \notin Range(s)
  <2>1. RemoveFirst(s, e) = s
    BY <1>1 DEF RemoveFirst, Range
  <2> QED  BY <1>1, <2>1
<1>2. CASE e \in Range(s)
  <2>1. PICK i \in 1 .. Len(s) : s[i] = e
    BY <1>2 DEF Range
  <2> DEFINE I == {j \in 1 .. Len(s) : s[j] = e}
  <2>2. I = {i}
    BY <2>1 DEF Distinct
  <2>3. Min(I) = i
    <3> HIDE DEF I
    <3> QED  BY <2>2 DEF Min
  <2>4. RemoveFirst(s, e) = RemoveAt(s, i)
    BY <2>1, <2>2, <2>3 DEF RemoveFirst, SelectInSeq
  <2> QED
    BY <1>2, <2>1, <2>4, RemoveAtTakesOne
<1> QED  BY <1>1, <1>2
-----------------------------------------------------------------------------
\* The list: an entry is in it once, and was added; those that have left are counted.
LineInv ==
  /\ line \in Seq(Entries)
  /\ Distinct(line)
  /\ Range(line) \subseteq entered
  /\ entered \subseteq Entries
  /\ IsFiniteSet(entered)
  /\ yes \in Nat
  /\ Cardinality(entered \ Range(line)) = yes

\* A scan that nobody has disturbed.
Ahead(p) == \A e \in there[p] : \E i \in 1 .. Len(line) : index[p] <= i /\ line[i] = e
ScanInv ==
  \A p \in Removers :
    /\ at[p] # "idle" => \A e \in there[p] : TaskOf[e] = sought[p]
    /\ at[p] \in {"size", "get"} /\ ~shrunk[p] => Ahead(p)
    /\ at[p] = "get" /\ ~shrunk[p] => index[p] <= Len(line)
    /\ at[p] = "remove" /\ ~shrunk[p] => found[p] \in Range(line)

TInv == TypeOK /\ LineInv /\ ScanInv /\ MissesNeedRemovals

\* An empty list, and no scan.
LEMMA InitTInv == Init => TInv
<1>1. Init => TypeOK
  BY DEF Init, TypeOK
<1>2. Init => LineInv
  BY FS_EmptySet DEF Init, LineInv, Distinct, Range
<1>3. Init => ScanInv /\ MissesNeedRemovals
  BY DEF Init, ScanInv, MissesNeedRemovals
<1> QED  BY <1>1, <1>2, <1>3 DEF TInv

\* The list grows at its end: what a scan has seen and will see stays where it is.
LEMMA AddTInv ==
  ASSUME TInv, NEW e \in Entries, Add(e)
  PROVE  TInv'
<1>1. /\ e \notin entered /\ line' = Append(line, e) /\ entered' = entered \cup {e}
      /\ UNCHANGED <<at, sought, index, found, answer, yes, there, shrunk>>
  BY DEF Add
<1>2. /\ line' \in Seq(Entries) /\ Len(line') = Len(line) + 1 /\ line'[Len(line) + 1] = e
      /\ \A i \in 1 .. Len(line) : line'[i] = line[i]
  BY <1>1 DEF TInv, LineInv
<1>3. Len(line) \in Nat /\ DOMAIN line = 1 .. Len(line) /\ DOMAIN line' = 1 .. Len(line) + 1
  BY <1>2 DEF TInv, LineInv
<1>4. Range(line') = Range(line) \cup {e}
  BY <1>2, <1>3 DEF Range
<1>5. TypeOK'
  BY <1>1, <1>2 DEF TInv, TypeOK
<1>6. LineInv'
  <2>1. Distinct(line')
    <3>1. \A i \in 1 .. Len(line) : line[i] # e
      BY <1>1, <1>3 DEF TInv, LineInv, Range
    <3> QED
      BY <1>2, <1>3, <3>1 DEF TInv, LineInv, Distinct
  <2>2. entered' \ Range(line') = entered \ Range(line)
    BY <1>1, <1>4 DEF TInv, LineInv
  <2>3. IsFiniteSet(entered')
    BY <1>1, FS_AddElement DEF TInv, LineInv
  <2> QED
    BY <1>1, <1>2, <1>4, <2>1, <2>2, <2>3 DEF TInv, LineInv
<1>7. ScanInv'
  BY <1>1, <1>2, <1>3, <1>4 DEF TInv, TypeOK, ScanInv, Ahead
<1> QED
  BY <1>1, <1>5, <1>6, <1>7 DEF TInv, MissesNeedRemovals

\* A scan begins.
LEMMA BeginTInv ==
  ASSUME TInv, NEW p \in Removers, NEW t \in Tasks, Begin(p, t)
  PROVE  TInv'
<1>1. DOMAIN line = 1 .. Len(line) /\ Range(line) \subseteq Entries
  BY DEF TInv, LineInv
<1>2. TypeOK'
  BY <1>1 DEF Begin, TInv, TypeOK
<1>3. LineInv'
  BY DEF Begin, TInv, LineInv
<1>4. ScanInv'
  BY <1>1 DEF Begin, TInv, TypeOK, ScanInv, Ahead, Range
<1> QED
  BY <1>2, <1>3, <1>4 DEF Begin, TInv, TypeOK, MissesNeedRemovals

\* A scan ends.
LEMMA EndKeeps ==
  ASSUME TInv, NEW p \in Removers, NEW result \in {"true", "false", "thrown"}, End(p, result),
         UNCHANGED <<line, entered, yes, there, shrunk>>,
         result = "thrown" => shrunk[p],
         result = "false" => shrunk[p] \/ there[p] = {}
  PROVE  TInv'
<1>1. TypeOK'
  BY DEF End, TInv, TypeOK
<1>2. LineInv' /\ ScanInv'
  BY DEF End, TInv, TypeOK, LineInv, ScanInv, Ahead
<1>3. MissesNeedRemovals'
  BY DEF End, TInv, TypeOK, MissesNeedRemovals
<1> QED  BY <1>1, <1>2, <1>3 DEF TInv

\* The size is asked.
LEMMA SizeTInv ==
  ASSUME TInv, NEW p \in Removers, Size(p)
  PROVE  TInv'
<1>1. UNCHANGED <<line, entered, yes, there, shrunk>> /\ at[p] = "size"
  BY DEF Size
<1>2. CASE InRange(index[p])
  <2>1. at' = [at EXCEPT ![p] = "get"] /\ UNCHANGED <<sought, index, found, answer>>
    BY <1>2 DEF Size
  <2>2. TypeOK' /\ LineInv' /\ MissesNeedRemovals'
    BY <1>1, <2>1 DEF TInv, TypeOK, LineInv, MissesNeedRemovals
  <2>3. ScanInv'
    BY <1>1, <1>2, <2>1 DEF InRange, TInv, TypeOK, ScanInv, Ahead
  <2> QED  BY <2>2, <2>3 DEF TInv
<1>3. CASE ~InRange(index[p])
  <2>1. shrunk[p] \/ there[p] = {}
    BY <1>1, <1>3 DEF InRange, TInv, TypeOK, LineInv, ScanInv, Ahead
  <2> QED
    BY <1>1, <1>3, <2>1, EndKeeps DEF Size
<1> QED  BY <1>2, <1>3

\* An element is asked for, and its id compared.
LEMMA GetTInv ==
  ASSUME TInv, NEW p \in Removers, Get(p)
  PROVE  TInv'
<1>1. UNCHANGED <<line, entered, yes, there, shrunk>> /\ at[p] = "get"
  BY DEF Get
<1>2. CASE index[p] > Len(line)
  <2>1. End(p, "thrown")
    BY <1>2 DEF Get, TInv, TypeOK
  <2>2. shrunk[p]
    BY <1>1, <1>2 DEF TInv, TypeOK, ScanInv
  <2> QED
    BY <1>1, <2>1, <2>2, EndKeeps
<1>3. CASE /\ index[p] <= Len(line) /\ TaskOf[line[index[p]]] = sought[p]
           /\ found' = [found EXCEPT ![p] = line[index[p]]]
           /\ at' = [at EXCEPT ![p] = "remove"]
           /\ UNCHANGED <<sought, index, answer>>
  <2>1. line[index[p]] \in Range(line) /\ line[index[p]] \in Entries
    BY <1>3 DEF TInv, TypeOK, Range
  <2>2. TypeOK' /\ LineInv' /\ MissesNeedRemovals'
    BY <1>1, <1>3, <2>1 DEF TInv, TypeOK, LineInv, MissesNeedRemovals
  <2>3. ScanInv'
    BY <1>1, <1>3, <2>1 DEF TInv, TypeOK, ScanInv, Ahead
  <2> QED  BY <2>2, <2>3 DEF TInv
<1>4. CASE /\ index[p] <= Len(line) /\ TaskOf[line[index[p]]] # sought[p]
           /\ index' = [index EXCEPT ![p] = @ + 1]
           /\ at' = [at EXCEPT ![p] = "size"]
           /\ UNCHANGED <<sought, found, answer>>
  <2>1. TypeOK' /\ LineInv' /\ MissesNeedRemovals'
    BY <1>1, <1>4 DEF TInv, TypeOK, LineInv, MissesNeedRemovals
  <2>2. ScanInv'
    <3>1. \A q \in Removers \ {p} : at'[q] = at[q] /\ index'[q] = index[q]
      BY <1>4 DEF TInv, TypeOK
    <3>2. at'[p] = "size" /\ index'[p] = index[p] + 1
      BY <1>4 DEF TInv, TypeOK
    <3>3. ~shrunk[p] => Ahead(p)'
      <4>1. ASSUME ~shrunk[p], NEW e \in there[p]
            PROVE  \E i \in 1 .. Len(line) : index[p] + 1 <= i /\ line[i] = e
        <5>1. PICK i \in 1 .. Len(line) : index[p] <= i /\ line[i] = e
          BY <1>1, <4>1 DEF TInv, ScanInv, Ahead
        <5>2. TaskOf[e] = sought[p]
          BY <1>1, <4>1 DEF TInv, ScanInv
        <5> QED
          BY <1>4, <5>1, <5>2 DEF TInv, TypeOK
      <4> QED  BY <1>1, <3>2, <4>1 DEF Ahead
    <3> QED
      BY <1>1, <1>4, <3>1, <3>2, <3>3 DEF TInv, ScanInv, Ahead
  <2> QED  BY <2>1, <2>2 DEF TInv
<1> QED  BY <1>2, <1>3, <1>4 DEF Get

\* The removal: the first of two threads that found an entry is told that it was there.
LEMMA TakeOutTInv ==
  ASSUME TInv, NEW p \in Removers, TakeOut(p)
  PROVE  TInv'
<1> DEFINE e == found[p]
           there0 == e \in Range(line)
<1>1. Removed(e) <=> there0
  BY DEF Removed, Contains, Range, TInv, TypeOK
<1>2. /\ line' = RemoveFirst(line, e)
      /\ yes' = IF there0 THEN yes + 1 ELSE yes
      /\ End(p, IF there0 THEN "true" ELSE "false")
      /\ UNCHANGED <<entered, there>> /\ at[p] = "remove"
  BY <1>1 DEF TakeOut
<1>3. /\ line' \in Seq(Entries) /\ Distinct(line') /\ Range(line') = Range(line) \ {e}
      /\ ~there0 => line' = line
  BY <1>2, RemoveFirstTakesOne DEF TInv, LineInv
<1>4. \A q \in Removers : shrunk'[q] <=> shrunk[q] \/ (q # p /\ there0)
  BY <1>1, Zenon DEF TakeOut, Removed
<1>5. TypeOK'
  <2>1. shrunk' \in [Removers -> BOOLEAN]
    BY Zenon DEF TakeOut, TInv, TypeOK
  <2>2. PICK result \in {"true", "false"} : End(p, result)
    BY <1>2
  <2>3. /\ at' \in [Removers -> {"idle", "size", "get", "remove"}]
        /\ sought' \in [Removers -> Tasks \cup {None}]
        /\ index' \in [Removers -> Nat \ {0}]
        /\ found' \in [Removers -> Entries \cup {None}]
        /\ answer' \in [Removers -> {"none", "true", "false", "thrown"}]
    BY <2>2 DEF End, TInv, TypeOK
  <2>4. yes' \in Nat
    BY <1>2 DEF TInv, TypeOK
  <2> HIDE DEF e, there0
  <2> QED
    BY <1>2, <1>3, <2>1, <2>3, <2>4 DEF TInv, TypeOK
<1>6. LineInv'
  <2>1. CASE there0
    <3>1. entered' \ Range(line') = (entered \ Range(line)) \cup {e}
      BY <1>2, <1>3, <2>1 DEF TInv, LineInv
    <3>2. IsFiniteSet(entered \ Range(line))
      BY FS_Subset DEF TInv, LineInv
    <3>3. Cardinality(entered' \ Range(line')) = Cardinality(entered \ Range(line)) + 1
      BY <2>1, <3>1, <3>2, FS_AddElement
    <3> QED
      BY <1>2, <1>3, <2>1, <3>3 DEF TInv, LineInv
  <2>2. CASE ~there0
    BY <1>2, <1>3, <2>2 DEF TInv, LineInv
  <2> QED  BY <2>1, <2>2
<1>7. at' = [at EXCEPT ![p] = "idle"] /\ answer' = [answer EXCEPT ![p] = IF there0 THEN "true" ELSE "false"]
      /\ \A q \in Removers \ {p} : /\ at'[q] = at[q] /\ answer'[q] = answer[q] /\ sought'[q] = sought[q]
                                   /\ index'[q] = index[q] /\ found'[q] = found[q]
  BY <1>2 DEF End, TInv, TypeOK
<1>8. ScanInv' /\ MissesNeedRemovals'
  <2>1. CASE there0
    <3>1. \A q \in Removers \ {p} : shrunk'[q]
      BY <1>4, <2>1
    <3>2. at'[p] = "idle" /\ answer'[p] = "true"
      BY <1>7, <2>1 DEF TInv, TypeOK
    <3>3. ScanInv'
      BY <1>2, <1>7, <3>1, <3>2 DEF TInv, ScanInv
    <3>4. MissesNeedRemovals'
      BY <3>1, <3>2 DEF MissesNeedRemovals
    <3> QED  BY <3>3, <3>4
  <2>2. CASE ~there0
    <3>1. \A q \in Removers : shrunk'[q] <=> shrunk[q]
      BY <1>4, <2>2
    <3>2. at'[p] = "idle" /\ answer'[p] = "false" /\ shrunk[p]
      BY <1>2, <1>7, <2>2 DEF TInv, TypeOK, ScanInv
    <3>3. line' = line
      BY <1>3, <2>2
    <3>4. ScanInv'
      BY <1>2, <1>7, <3>1, <3>2, <3>3 DEF TInv, ScanInv, Ahead
    <3>5. MissesNeedRemovals'
      BY <1>2, <1>7, <3>1, <3>2 DEF TInv, MissesNeedRemovals
    <3> QED  BY <3>4, <3>5
  <2> QED  BY <2>1, <2>2
<1> QED  BY <1>5, <1>6, <1>8 DEF TInv

\* Every call on the list keeps the invariant.
LEMMA NextTInv ==
  ASSUME TInv, [Next]_scanVars
  PROVE  TInv'
<1>1. CASE UNCHANGED scanVars
  BY <1>1 DEF scanVars, TInv, TypeOK, LineInv, ScanInv, Ahead, MissesNeedRemovals
<1> QED
  BY <1>1, AddTInv, BeginTInv, SizeTInv, GetTInv, TakeOutTInv DEF Next
-----------------------------------------------------------------------------
\* The invariant holds of every behaviour.
LEMMA Inductive == Spec => []TInv
  BY InitTInv, NextTInv, PTL DEF Spec

\* Every variable of QueueScan has its type.
THEOREM ScanTypeCorrect == Spec => []TypeOK
<1>1. TInv => TypeOK
  BY DEF TInv
<1> QED
  BY <1>1, Inductive, PTL

\* With any number of threads and entries, remove overlooks an entry or throws only
\* if another thread has removed an entry in the middle of its scan.
THEOREM MissesNeedRemovalsHolds == Spec => []MissesNeedRemovals
<1>1. TInv => MissesNeedRemovals
  BY DEF TInv
<1> QED
  BY <1>1, Inductive, PTL

\* As many calls of remove answer true as entries have left the list.
THEOREM OneAnswerPerEntryHolds == Spec => []OneAnswerPerEntry
<1>1. TInv => OneAnswerPerEntry
  BY DEF TInv, LineInv, OneAnswerPerEntry
<1> QED
  BY <1>1, Inductive, PTL
=============================================================================
