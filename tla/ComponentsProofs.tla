--------------------------- MODULE ComponentsProofs ---------------------------
(***************************************************************************)
(* Theorems about Components: each component of the composition behaves as *)
(* its own module says, so what is proved of the module holds of it.  The  *)
(* proofs for Dialogs, Resources, Roles and QueueScan are in modules of    *)
(* their own; those for ExportPage and HiveSync are here.                  *)
(***************************************************************************)
EXTENDS Components, FiniteSetTheorems, NaturalsInduction, WellFoundedInduction, SequenceTheorems,
        TLAPS

\* While the others rest, one component takes the steps of its own specification.
LEMMA EachOne ==
  /\ Spec => D!Spec
  /\ Spec => R!Spec
  /\ Spec => G!Spec
  /\ Spec => E!Spec
  /\ Spec => H!Spec
  /\ Spec => Q!Spec
<1>1. Init => D!Init /\ R!Init /\ G!Init /\ E!Init /\ H!Init /\ Q!Init
  BY DEF Init
<1>2. [Next]_vars => [D!Next]_(D!dialogVars)
  BY DEF Next, vars, Only, dialogVars, D!dialogVars
<1>3. [Next]_vars => [R!Next]_(R!resVars)
  BY DEF Next, vars, Only, resVars, R!resVars
<1>4. [Next]_vars => [G!Next]_(G!roleVars)
  BY DEF Next, vars, Only, roleVars, G!roleVars
<1>5. [Next]_vars => [E!Next]_(E!pageVars)
  BY DEF Next, vars, Only, pageVars, E!pageVars
<1>6. [Next]_vars => [H!Next]_(H!hiveVars)
  BY DEF Next, vars, Only, hiveVars, H!hiveVars
<1>7. [Next]_vars => [Q!Next]_(Q!scanVars)
  BY DEF Next, vars, Only, scanVars, Q!scanVars
<1> QED
  BY <1>1, <1>2, <1>3, <1>4, <1>5, <1>6, <1>7, PTL
    DEF Spec, D!Spec, R!Spec, G!Spec, E!Spec, H!Spec, Q!Spec

-----------------------------------------------------------------------------
\* The page of exports.  A list that has lost the element at one place:
CutAt(r, s, i) ==
  /\ Len(r) = Len(s) - 1
  /\ \A k \in 1 .. Len(s) - 1 : r[k] = IF k < i THEN s[k] ELSE s[k + 1]

\* Where a list has a value.
Places(s, v) == {k \in 1 .. Len(s) : s[k] = v}

\* FiniteSets is the same in the instance and here.
LEMMA SameCardinality == ASSUME NEW S PROVE E!Cardinality(S) = Cardinality(S)
  BY DEF E!Cardinality, Cardinality

\* RemoveAt takes out one element and moves up those behind it.
LEMMA RemoveAtCuts ==
  ASSUME NEW S, NEW s \in Seq(S), NEW i \in 1 .. Len(s)
  PROVE  E!RemoveAt(s, i) \in Seq(S) /\ CutAt(E!RemoveAt(s, i), s, i)
<1> DEFINE a == SubSeq(s, 1, i - 1)
           b == SubSeq(s, i + 1, Len(s))
<1>1. a \in Seq(S) /\ Len(a) = i - 1 /\ \A k \in 1 .. i - 1 : a[k] = s[k]
  OBVIOUS
<1>2. b \in Seq(S) /\ Len(b) = Len(s) - i /\ \A k \in 1 .. Len(s) - i : b[k] = s[k + i]
  OBVIOUS
<1>3. E!RemoveAt(s, i) = a \o b
  BY DEF E!RemoveAt
<1> HIDE DEF a, b
<1>4. /\ a \o b \in Seq(S) /\ Len(a \o b) = Len(a) + Len(b)
      /\ \A k \in 1 .. Len(a) + Len(b) : (a \o b)[k] = IF k <= Len(a) THEN a[k] ELSE b[k - Len(a)]
  BY <1>1, <1>2, ConcatProperties, Zenon
<1>5. Len(a) = i - 1 /\ Len(a) + Len(b) = Len(s) - 1 /\ Len(s) \in Nat
  BY <1>1, <1>2
<1>6. ASSUME NEW k \in 1 .. Len(s) - 1
      PROVE  (a \o b)[k] = IF k < i THEN s[k] ELSE s[k + 1]
  <2>1. (a \o b)[k] = IF k <= i - 1 THEN a[k] ELSE b[k - (i - 1)]
    BY <1>4, <1>5
  <2>2. CASE k < i
    BY <1>1, <2>1, <2>2
  <2>3. CASE ~(k < i)
    <3>1. k - (i - 1) \in 1 .. Len(s) - i /\ k - (i - 1) + i = k + 1 /\ ~(k <= i - 1)
      BY <1>5, <2>3
    <3>2. b[k - (i - 1)] = s[k + 1]
      BY <1>2, <3>1
    <3> QED  BY <2>1, <2>3, <3>1, <3>2
  <2> QED  BY <2>2, <2>3
<1> QED  BY <1>3, <1>4, <1>5, <1>6 DEF CutAt

\* removeByValue takes out the first of equal values.
LEMMA RemovedValueCuts ==
  ASSUME NEW S, NEW s \in Seq(S), NEW e, Places(s, e) # {}
  PROVE  \E i \in 1 .. Len(s) : /\ s[i] = e /\ (\A j \in Places(s, e) : i <= j)
                                /\ E!RemovedValue(s, e) \in Seq(S)
                                /\ CutAt(E!RemovedValue(s, e), s, i)
<1> DEFINE i == E!Min(Places(s, e))
<1>1. \E k \in Places(s, e) : \A j \in Places(s, e) : k <= j
  <2> DEFINE P == Places(s, e)
  <2>1. P \subseteq Nat /\ P # {}
    BY DEF Places
  <2> HIDE DEF P
  <2>2. PICK n \in P : \A m \in P : ~ (<<m, n>> \in OpToRel(<, Nat))
    BY <2>1, NatLessThanWellFounded, WFMin
  <2>3. \A m \in P : ~ (m < n)
    BY <2>1, <2>2 DEF OpToRel
  <2>4. \A m \in P : n <= m
    BY <2>1, <2>3
  <2> QED  BY <2>4 DEF P
<1>2. i \in Places(s, e) /\ \A j \in Places(s, e) : i <= j
  BY <1>1 DEF E!Min
<1>3. i \in 1 .. Len(s) /\ s[i] = e
  BY <1>2 DEF Places
<1>4. E!RemovedValue(s, e) = E!RemoveAt(s, i)
  BY <1>3 DEF E!RemovedValue, E!RemoveFirst, E!SelectInSeq, Places
<1> QED
  BY <1>2, <1>3, <1>4, RemoveAtCuts

\* The places of a value are finitely many.
LEMMA PlacesFinite ==
  ASSUME NEW S, NEW s \in Seq(S), NEW v
  PROVE  IsFiniteSet(Places(s, v)) /\ Cardinality(Places(s, v)) \in Nat
<1>1. IsFiniteSet(1 .. Len(s)) /\ Places(s, v) \subseteq 1 .. Len(s)
  BY FS_Interval DEF Places
<1> QED
  BY <1>1, FS_Subset, FS_CardinalityType

\* A list that has lost one element has lost one place of its value, and no other.
LEMMA CutCounts ==
  ASSUME NEW S, NEW s \in Seq(S), NEW r \in Seq(S), NEW i \in 1 .. Len(s), CutAt(r, s, i), NEW v
  PROVE  Cardinality(Places(r, v)) =
           IF s[i] = v THEN Cardinality(Places(s, v)) - 1 ELSE Cardinality(Places(s, v))
<1> DEFINE A == Places(r, v)
           B == Places(s, v) \ {i}
           Back(k) == IF k < i THEN k ELSE k + 1
           f == [k \in A |-> Back(k)]
<1>0. Len(s) \in Nat /\ Len(r) = Len(s) - 1
  BY DEF CutAt
<1>1. \A k \in A : Back(k) \in B
  BY <1>0 DEF CutAt, Places
<1>2. \A j, k \in A : Back(j) = Back(k) => j = k
  BY <1>0 DEF Places
<1>3. \A m \in B : \E k \in A : Back(k) = m
  <2>1. ASSUME NEW m \in B PROVE \E k \in A : Back(k) = m
    <3>1. m \in 1 .. Len(s) /\ m # i /\ s[m] = v
      BY DEF Places
    <3>2. CASE m < i
      <4>1. m \in A /\ Back(m) = m
        BY <1>0, <3>1, <3>2 DEF CutAt, Places
      <4> QED  BY <4>1
    <3>3. CASE m > i
      <4>1. m - 1 \in A /\ Back(m - 1) = m
        BY <1>0, <3>1, <3>3 DEF CutAt, Places
      <4> QED  BY <4>1
    <3> QED  BY <3>1, <3>2, <3>3
  <2> QED  BY <2>1
<1>4. ExistsBijection(A, B)
  <2> HIDE DEF A, B, Back
  <2>1. f \in Bijection(A, B)
    BY <1>1, <1>2, <1>3 DEF Bijection, Injection, Surjection, IsInjective
  <2> QED  BY <2>1 DEF ExistsBijection
<1>5. Cardinality(B) = Cardinality(A)
  BY <1>4, PlacesFinite, FS_Bijection
<1>6. Cardinality(B) = IF i \in Places(s, v) THEN Cardinality(Places(s, v)) - 1 ELSE Cardinality(Places(s, v))
  BY PlacesFinite, FS_RemoveElement
<1>7. i \in Places(s, v) <=> s[i] = v
  BY DEF Places
<1> QED  BY <1>5, <1>6, <1>7

\* A list that has got one more element at its end.
LEMMA AppendCounts ==
  ASSUME NEW S, NEW s \in Seq(S), NEW e \in S, NEW v
  PROVE  Cardinality(Places(Append(s, e), v)) =
           IF e = v THEN Cardinality(Places(s, v)) + 1 ELSE Cardinality(Places(s, v))
<1>1. Places(Append(s, e), v) = Places(s, v) \cup (IF e = v THEN {Len(s) + 1} ELSE {})
  BY DEF Places
<1>2. Len(s) + 1 \notin Places(s, v)
  BY DEF Places
<1> QED
  BY <1>1, <1>2, PlacesFinite, FS_AddElement

-----------------------------------------------------------------------------
\* The boxes and the two lists of the page: every name and every text has as many places
\* in its list as there are checked boxes that give it; where names and texts go
\* together, they do so place by place.
Naming(v) == {c \in checked : E!Readable(c) /\ E!extraHiveColumn(c) = v}
Heading(h) == {c \in checked : E!Readable(c) /\ E!extraHiveColumnAlias(c) = h}
Pair(v, h) == \E c \in E!Boxes : /\ E!Readable(c)
                                 /\ E!extraHiveColumn(c) = v /\ E!extraHiveColumnAlias(c) = h
InStep ==
  /\ Len(headers) = Len(columns)
  /\ \A k \in 1 .. Len(columns) : Pair(columns[k], headers[k])
PageInv ==
  /\ checked \subseteq E!Boxes /\ IsFiniteSet(checked)
  /\ \A v \in E!Named : Cardinality(Places(columns, v)) = Cardinality(Naming(v))
  /\ \A h \in E!Titled : Cardinality(Places(headers, h)) = Cardinality(Heading(h))
  /\ E!Distinct => InStep
ExportInv == E!TypeOK /\ PageInv

LEMMA PageFacts ==
  ASSUME E!ConstantsOK, ExportInv
  PROVE  /\ columns \in Seq(E!Named) /\ headers \in Seq(E!Titled)
         /\ E!Boxes \subseteq Columns /\ checked \subseteq Columns
         /\ \A v : IsFiniteSet(Naming(v)) /\ Cardinality(Naming(v)) \in Nat
         /\ \A h : IsFiniteSet(Heading(h)) /\ Cardinality(Heading(h)) \in Nat
<1>1. columns \in Seq(E!Named) /\ headers \in Seq(E!Titled)
  BY DEF ExportInv, E!TypeOK
<1>2. E!Boxes \subseteq Columns /\ checked \subseteq Columns
  BY DEF E!Boxes, ExportInv, E!TypeOK, E!ConstantsOK
<1>3. IsFiniteSet(checked)
  BY DEF ExportInv, PageInv
<1>4. \A v : IsFiniteSet(Naming(v)) /\ Cardinality(Naming(v)) \in Nat
  <2> SUFFICES ASSUME NEW v PROVE IsFiniteSet(Naming(v)) /\ Cardinality(Naming(v)) \in Nat
    OBVIOUS
  <2>1. Naming(v) \subseteq checked
    BY DEF Naming
  <2> QED  BY <1>3, <2>1, FS_Subset, FS_CardinalityType
<1>5. \A h : IsFiniteSet(Heading(h)) /\ Cardinality(Heading(h)) \in Nat
  <2> SUFFICES ASSUME NEW h PROVE IsFiniteSet(Heading(h)) /\ Cardinality(Heading(h)) \in Nat
    OBVIOUS
  <2>1. Heading(h) \subseteq checked
    BY DEF Heading
  <2> QED  BY <1>3, <2>1, FS_Subset, FS_CardinalityType
<1> QED  BY <1>1, <1>2, <1>4, <1>5

\* An empty page.
LEMMA EmptyIsInStep ==
  ASSUME E!TypeOK, checked = {}, columns = <<>>, headers = <<>>
  PROVE  ExportInv
<1>1. \A v : Places(columns, v) = {} /\ Places(headers, v) = {}
  BY DEF Places
<1>2. \A v : Naming(v) = {} /\ Heading(v) = {}
  BY DEF Naming, Heading
<1>3. IsFiniteSet(checked)
  BY FS_EmptySet
<1>4. InStep
  BY DEF InStep
<1> QED  BY <1>1, <1>2, <1>3, <1>4 DEF ExportInv, PageInv

LEMMA EmptyPage ==
  ASSUME E!TypeOK', checked' = {}, columns' = <<>>, headers' = <<>>
  PROVE  ExportInv'
<1>1. \A v : Places(columns', v) = {} /\ Places(headers', v) = {}
  BY DEF Places
<1>2. \A v : Naming(v)' = {} /\ Heading(v)' = {}
  BY DEF Naming, Heading
<1>3. IsFiniteSet(checked')
  BY FS_EmptySet
<1>4. InStep'
  BY DEF InStep
<1> QED  BY <1>1, <1>2, <1>3, <1>4 DEF ExportInv, PageInv

\* Nothing is listed when the page is loaded.
LEMMA InitExportInv == ASSUME E!ConstantsOK PROVE E!Init => ExportInv
<1> SUFFICES ASSUME E!Init PROVE ExportInv
  OBVIOUS
<1>1. E!TypeOK
  BY DEF E!Init, E!TypeOK, E!ConstantsOK
<1> QED
  BY <1>1, EmptyIsInStep DEF E!Init

\* What the lists and boxes mean stays when they stay.
LEMMA PageStill ==
  ASSUME ExportInv, E!TypeOK', UNCHANGED <<shown, checked, columns, headers>>
  PROVE  ExportInv'
<1>1. E!Boxes' = E!Boxes
  BY DEF E!Boxes
<1>2. (E!Distinct)' = E!Distinct /\ InStep' = InStep
  BY <1>1 DEF E!Distinct, InStep, Pair
<1>3. \A v : Naming(v)' = Naming(v) /\ Heading(v)' = Heading(v)
  BY DEF Naming, Heading
<1> QED  BY <1>1, <1>2, <1>3 DEF ExportInv, PageInv

\* A box whose text cannot be read is clicked: it counts for no name and no header.
LEMMA ClickUnread ==
  ASSUME E!ConstantsOK, ExportInv, NEW col \in E!Boxes, ~E!Readable(col),
         checked' = checked \cup {col} \/ checked' = checked \ {col},
         UNCHANGED <<selected, shown, columns, headers, filters, lookups>>
  PROVE  ExportInv'
<1>1. E!TypeOK'
  BY PageFacts DEF ExportInv, E!TypeOK
<1>2. E!Boxes' = E!Boxes
  BY DEF E!Boxes
<1>3. (E!Distinct)' = E!Distinct /\ InStep' = InStep
  BY <1>2 DEF E!Distinct, InStep, Pair
<1>4. \A v : Naming(v)' = Naming(v) /\ Heading(v)' = Heading(v)
  BY DEF Naming, Heading
<1>5. checked' \subseteq E!Boxes' /\ IsFiniteSet(checked')
  BY <1>2, FS_AddElement, FS_RemoveElement DEF ExportInv, PageInv
<1> QED  BY <1>1, <1>3, <1>4, <1>5 DEF ExportInv, PageInv

\* A box is checked: its column and its header come last.
LEMMA CheckExportInv ==
  ASSUME E!ConstantsOK, ExportInv, NEW col \in Columns, E!Check(col)
  PROVE  ExportInv'
<1>1. CASE ~E!Readable(col)
  BY <1>1, ClickUnread DEF E!Check
<1>2. CASE E!Readable(col)
  <2> DEFINE v == E!extraHiveColumn(col)
             h == E!extraHiveColumnAlias(col)
  <2>1. /\ col \in E!Boxes /\ col \notin checked /\ checked' = checked \cup {col}
        /\ columns' = Append(columns, v) /\ headers' = Append(headers, h)
        /\ UNCHANGED <<selected, shown, filters, lookups>>
    BY <1>2 DEF E!Check
  <2>2. v \in E!Named /\ h \in E!Titled
    BY DEF E!Named, E!Titled
  <2>3. \A u : /\ Naming(u)' = IF v = u THEN Naming(u) \cup {col} ELSE Naming(u)
               /\ Heading(u)' = IF h = u THEN Heading(u) \cup {col} ELSE Heading(u)
    BY <1>2, <2>1 DEF Naming, Heading
  <2>4. \A u : col \notin Naming(u) /\ col \notin Heading(u)
    BY <2>1 DEF Naming, Heading
  <2>5. Pair(v, h)
    BY <1>2, <2>1 DEF Pair
  <2> HIDE DEF v, h
  <2>6. E!TypeOK'
    BY <2>1, <2>2 DEF ExportInv, E!TypeOK
  <2>7. E!Boxes' = E!Boxes
    BY <2>1 DEF E!Boxes
  <2>8. (E!Distinct)' = E!Distinct /\ \A a, b : Pair(a, b)' = Pair(a, b)
    BY <2>7 DEF E!Distinct, Pair
  <2>9. checked' \subseteq E!Boxes' /\ IsFiniteSet(checked')
    BY <2>1, <2>7, FS_AddElement DEF ExportInv, PageInv
  <2>10. ASSUME NEW u \in E!Named
         PROVE  Cardinality(Places(columns', u)) = Cardinality(Naming(u)')
    <3>1. Cardinality(Places(columns, u)) = Cardinality(Naming(u))
      BY DEF ExportInv, PageInv
    <3>2. Cardinality(Naming(u)') =
            IF v = u THEN Cardinality(Naming(u)) + 1 ELSE Cardinality(Naming(u))
      BY <2>3, <2>4, PageFacts, FS_AddElement
    <3> QED  BY <2>1, <2>2, <3>1, <3>2, PageFacts, AppendCounts
  <2>11. ASSUME NEW u \in E!Titled
         PROVE  Cardinality(Places(headers', u)) = Cardinality(Heading(u)')
    <3>1. Cardinality(Places(headers, u)) = Cardinality(Heading(u))
      BY DEF ExportInv, PageInv
    <3>2. Cardinality(Heading(u)') =
            IF h = u THEN Cardinality(Heading(u)) + 1 ELSE Cardinality(Heading(u))
      BY <2>3, <2>4, PageFacts, FS_AddElement
    <3> QED  BY <2>1, <2>2, <3>1, <3>2, PageFacts, AppendCounts
  <2>12. ASSUME E!Distinct PROVE InStep'
    <3>1. InStep
      BY <2>12 DEF ExportInv, PageInv
    <3>2. Len(headers') = Len(columns') /\ Len(columns') = Len(columns) + 1
      BY <2>1, <2>2, <3>1, PageFacts DEF InStep
    <3>3. ASSUME NEW k \in 1 .. Len(columns') PROVE Pair(columns'[k], headers'[k])
      <4>1. CASE k \in 1 .. Len(columns)
        BY <2>1, <2>2, <3>1, <4>1, PageFacts DEF InStep
      <4>2. CASE k = Len(columns) + 1
        BY <2>1, <2>2, <2>5, <3>1, <4>2, PageFacts DEF InStep
      <4> QED  BY <3>2, <4>1, <4>2, PageFacts
    <3> QED  BY <2>8, <3>2, <3>3 DEF InStep
  <2> QED
    BY <2>6, <2>8, <2>9, <2>10, <2>11, <2>12 DEF ExportInv, PageInv
<1> QED  BY <1>1, <1>2

\* A box is no longer checked: the first place of its column leaves the one list, and the
\* first of its header the other.  Where names and texts go together it is the same place.
LEMMA UncheckExportInv ==
  ASSUME E!ConstantsOK, ExportInv, NEW col \in Columns, E!Uncheck(col)
  PROVE  ExportInv'
<1>1. CASE ~E!Readable(col)
  BY <1>1, ClickUnread DEF E!Uncheck
<1>2. CASE E!Readable(col)
  <2> DEFINE v == E!extraHiveColumn(col)
             h == E!extraHiveColumnAlias(col)
  <2>1. /\ col \in E!Boxes /\ col \in checked /\ checked' = checked \ {col}
        /\ columns' = E!RemovedValue(columns, v) /\ headers' = E!RemovedValue(headers, h)
        /\ UNCHANGED <<selected, shown, filters, lookups>>
    BY <1>2 DEF E!Uncheck
  <2>2. v \in E!Named /\ h \in E!Titled
    BY DEF E!Named, E!Titled
  <2>3. \A u : /\ Naming(u)' = Naming(u) \ {col} /\ (col \in Naming(u) <=> v = u)
               /\ Heading(u)' = Heading(u) \ {col} /\ (col \in Heading(u) <=> h = u)
    BY <1>2, <2>1 DEF Naming, Heading
  <2>4. ASSUME E!Distinct, NEW a, NEW b, Pair(a, b) PROVE a = v <=> b = h
    BY <1>2, <2>1, <2>4 DEF Pair, E!Distinct
  <2> HIDE DEF v, h
  <2>5. PICK i \in 1 .. Len(columns) :
          /\ columns[i] = v /\ (\A k \in Places(columns, v) : i <= k)
          /\ columns' \in Seq(E!Named) /\ CutAt(columns', columns, i)
    <3>1. Cardinality(Naming(v)) # 0
      BY <2>3, PageFacts, FS_EmptySet
    <3>2. Cardinality(Places(columns, v)) # 0
      BY <2>2, <3>1 DEF ExportInv, PageInv
    <3>3. Places(columns, v) # {}
      BY <3>2, FS_EmptySet
    <3> QED  BY <2>1, <3>3, PageFacts, RemovedValueCuts
  <2>6. PICK m \in 1 .. Len(headers) :
          /\ headers[m] = h /\ (\A k \in Places(headers, h) : m <= k)
          /\ headers' \in Seq(E!Titled) /\ CutAt(headers', headers, m)
    <3>1. Cardinality(Heading(h)) # 0
      BY <2>3, PageFacts, FS_EmptySet
    <3>2. Cardinality(Places(headers, h)) # 0
      BY <2>2, <3>1 DEF ExportInv, PageInv
    <3>3. Places(headers, h) # {}
      BY <3>2, FS_EmptySet
    <3> QED  BY <2>1, <3>3, PageFacts, RemovedValueCuts
  <2>7. E!TypeOK'
    BY <2>1, <2>5, <2>6 DEF ExportInv, E!TypeOK
  <2>8. E!Boxes' = E!Boxes
    BY <2>1 DEF E!Boxes
  <2>9. (E!Distinct)' = E!Distinct /\ \A a, b : Pair(a, b)' = Pair(a, b)
    BY <2>8 DEF E!Distinct, Pair
  <2>10. checked' \subseteq E!Boxes' /\ IsFiniteSet(checked')
    BY <2>1, <2>8, FS_RemoveElement DEF ExportInv, PageInv
  <2>11. ASSUME NEW u \in E!Named
         PROVE  Cardinality(Places(columns', u)) = Cardinality(Naming(u)')
    <3>1. Cardinality(Places(columns, u)) = Cardinality(Naming(u))
      BY DEF ExportInv, PageInv
    <3>2. Cardinality(Places(columns', u)) =
            IF v = u THEN Cardinality(Places(columns, u)) - 1 ELSE Cardinality(Places(columns, u))
      BY <2>5, PageFacts, CutCounts
    <3>3. Cardinality(Naming(u)') =
            IF v = u THEN Cardinality(Naming(u)) - 1 ELSE Cardinality(Naming(u))
      BY <2>3, PageFacts, FS_RemoveElement
    <3> QED  BY <3>1, <3>2, <3>3
  <2>12. ASSUME NEW u \in E!Titled
         PROVE  Cardinality(Places(headers', u)) = Cardinality(Heading(u)')
    <3>1. Cardinality(Places(headers, u)) = Cardinality(Heading(u))
      BY DEF ExportInv, PageInv
    <3>2. Cardinality(Places(headers', u)) =
            IF h = u THEN Cardinality(Places(headers, u)) - 1 ELSE Cardinality(Places(headers, u))
      BY <2>6, PageFacts, CutCounts
    <3>3. Cardinality(Heading(u)') =
            IF h = u THEN Cardinality(Heading(u)) - 1 ELSE Cardinality(Heading(u))
      BY <2>3, PageFacts, FS_RemoveElement
    <3> QED  BY <3>1, <3>2, <3>3
  <2>13. ASSUME E!Distinct PROVE InStep'
    <3>1. Len(headers) = Len(columns) /\ \A k \in 1 .. Len(columns) : Pair(columns[k], headers[k])
      BY <2>13 DEF ExportInv, PageInv, InStep
    <3>2. \A k \in 1 .. Len(columns) : columns[k] = v <=> headers[k] = h
      BY <2>4, <2>13, <3>1
    <3>3. i \in Places(headers, h) /\ m \in Places(columns, v)
      BY <2>5, <2>6, <3>1, <3>2 DEF Places
    <3>4. i = m
      BY <2>5, <2>6, <3>3
    <3>5. Len(columns') = Len(columns) - 1 /\ Len(headers') = Len(columns')
      BY <2>5, <2>6, <3>1 DEF CutAt
    <3>6. ASSUME NEW k \in 1 .. Len(columns') PROVE Pair(columns'[k], headers'[k])
      <4>1. Len(columns) \in Nat
        BY PageFacts
      <4>2. CASE k < i
        <5>1. k \in 1 .. Len(columns) /\ columns'[k] = columns[k] /\ headers'[k] = headers[k]
          BY <2>5, <2>6, <3>1, <3>4, <3>5, <4>1, <4>2 DEF CutAt
        <5> QED  BY <3>1, <5>1
      <4>3. CASE ~(k < i)
        <5>1. /\ k + 1 \in 1 .. Len(columns)
              /\ columns'[k] = columns[k + 1] /\ headers'[k] = headers[k + 1]
          BY <2>5, <2>6, <3>1, <3>4, <3>5, <4>1, <4>3 DEF CutAt
        <5> QED  BY <3>1, <5>1
      <4> QED  BY <4>2, <4>3
    <3> QED  BY <2>9, <3>5, <3>6 DEF InStep
  <2> QED
    BY <2>7, <2>9, <2>10, <2>11, <2>12, <2>13 DEF ExportInv, PageInv
<1> QED  BY <1>1, <1>2

\* No click and no answer parts them.
LEMMA NextExportInv ==
  ASSUME E!ConstantsOK, ExportInv, [E!Next]_(E!pageVars)
  PROVE  ExportInv'
<1>1. CASE UNCHANGED E!pageVars
  <2>1. E!TypeOK'
    BY <1>1 DEF E!pageVars, ExportInv, E!TypeOK
  <2> QED  BY <1>1, <2>1, PageStill DEF E!pageVars
<1>2. ASSUME NEW t \in PageTables, E!SelectTable(t) PROVE ExportInv'
  <2>1. E!TypeOK'
    BY <1>2 DEF E!SelectTable, ExportInv, E!TypeOK
  <2> QED  BY <1>2, <2>1, PageStill DEF E!SelectTable
<1>3. ASSUME NEW l \in Lookups, E!ShowColumns(l) PROVE ExportInv'
  <2>1. E!TypeOK' /\ checked' = {} /\ columns' = <<>> /\ headers' = <<>>
    BY <1>3 DEF E!ShowColumns, E!Emptied, ExportInv, E!TypeOK
  <2> QED  BY <2>1, EmptyPage
<1>4. ASSUME NEW l \in Lookups, E!LoseColumns(l) PROVE ExportInv'
  <2>1. E!TypeOK'
    BY <1>4 DEF E!LoseColumns, ExportInv, E!TypeOK
  <2> QED  BY <1>4, <2>1, PageStill DEF E!LoseColumns
<1>5. ASSUME NEW col \in Columns, E!Filter(col) PROVE ExportInv'
  <2>1. E!TypeOK'
    BY <1>5 DEF E!Filter, ExportInv, E!TypeOK
  <2> QED  BY <1>5, <2>1, PageStill DEF E!Filter
<1> QED
  BY <1>1, <1>2, <1>3, <1>4, <1>5, CheckExportInv, UncheckExportInv DEF E!Next

\* The invariant of the page holds in every behaviour.
LEMMA ExportInvHolds == ASSUME E!ConstantsOK PROVE E!Spec => []ExportInv
  BY InitExportInv, NextExportInv, PTL DEF E!Spec

\* Where no checked box has a bracket or an apostrophe, each name is its own column.
LEMMA PlainNames ==
  ASSUME E!ConstantsOK, ExportInv, \A c \in checked : CommentOf[c].bracket = Plain,
         \A c \in checked : E!Readable(c)
  PROVE  E!IsInjective(columns) /\ E!Range(columns) = checked
<1>1. \A c \in checked : E!extraHiveColumn(c) = c
  BY DEF E!extraHiveColumn
<1>2. \A v : Naming(v) = IF v \in checked THEN {v} ELSE {}
  BY <1>1 DEF Naming
<1>3. ASSUME NEW k \in 1 .. Len(columns)
      PROVE  columns[k] \in checked /\ Cardinality(Places(columns, columns[k])) = 1
  <2>1. columns[k] \in E!Named /\ k \in Places(columns, columns[k])
    BY PageFacts DEF Places
  <2>2. Cardinality(Places(columns, columns[k])) # 0
    BY <2>1, PageFacts, PlacesFinite, FS_EmptySet
  <2>3. Cardinality(Naming(columns[k])) # 0
        /\ Cardinality(Places(columns, columns[k])) = Cardinality(Naming(columns[k]))
    BY <2>1, <2>2 DEF ExportInv, PageInv
  <2>4. columns[k] \in checked
    BY <1>2, <2>3, FS_EmptySet
  <2> QED  BY <1>2, <2>3, <2>4, FS_Singleton
<1>4. ASSUME NEW j \in 1 .. Len(columns), NEW k \in 1 .. Len(columns), columns[j] = columns[k]
      PROVE  j = k
  <2>1. j \in Places(columns, columns[k]) /\ k \in Places(columns, columns[k])
    BY <1>4 DEF Places
  <2>2. \E x : Places(columns, columns[k]) = {x}
    BY <1>3, PageFacts, PlacesFinite, FS_Singleton
  <2> QED  BY <2>1, <2>2
<1>5. ASSUME NEW c \in checked PROVE \E k \in 1 .. Len(columns) : columns[k] = c
  <2>1. c \in E!Named
    BY <1>1, PageFacts DEF E!Named
  <2>2. Cardinality(Naming(c)) = 1
    BY <1>2, FS_Singleton
  <2>3. Cardinality(Places(columns, c)) = 1
    BY <2>1, <2>2 DEF ExportInv, PageInv
  <2>4. Places(columns, c) # {}
    BY <2>3, FS_EmptySet
  <2> QED  BY <2>4 DEF Places
<1> QED
  BY <1>3, <1>4, <1>5, PageFacts DEF E!IsInjective, E!Range

\* The invariant says what the two properties say.
LEMMA ExportInvSuffices ==
  ASSUME E!ConstantsOK, ExportInv
  PROVE  E!SendsWhatIsChecked /\ E!HeadersFit
<1>1. E!SendsWhatIsChecked
  <2>1. ASSUME NEW name \in E!Named
        PROVE  E!Cardinality({i \in 1 .. Len(columns) : columns[i] = name})
                 = E!Cardinality({c \in checked : E!Readable(c) /\ E!extraHiveColumn(c) = name})
    <3>1. Cardinality(Places(columns, name)) = Cardinality(Naming(name))
      BY DEF ExportInv, PageInv
    <3> QED  BY <3>1, SameCardinality DEF Places, Naming
  <2>2. checked \subseteq E!Boxes
    BY DEF ExportInv, PageInv
  <2>3. ASSUME \A c \in checked : CommentOf[c].bracket = Plain
        PROVE  E!IsInjective(columns) /\ E!Range(columns) = checked
    <3>1. \A c \in checked : E!Readable(c)
      BY <2>3 DEF E!Readable, E!ConstantsOK
    <3> QED  BY <2>3, <3>1, PlainNames
  <2> QED  BY <2>1, <2>2, <2>3 DEF E!SendsWhatIsChecked
<1>2. ASSUME NEW text \in E!Titled
      PROVE  E!Cardinality({i \in 1 .. Len(headers) : headers[i] = text})
               = E!Cardinality({c \in checked : E!Readable(c) /\ E!extraHiveColumnAlias(c) = text})
  <2>1. Cardinality(Places(headers, text)) = Cardinality(Heading(text))
    BY DEF ExportInv, PageInv
  <2> QED  BY <2>1, SameCardinality DEF Places, Heading
<1>3. ASSUME E!Distinct, NEW i \in 1 .. Len(columns)
      PROVE  \E c \in checked : /\ columns[i] = E!extraHiveColumn(c)
                                /\ E!Title(i) \in {E!extraHiveColumnAlias(c), None}
  <2>1. Pair(columns[i], headers[i])
    BY <1>3 DEF ExportInv, PageInv, InStep
  <2>2. PICK d \in E!Boxes : /\ E!Readable(d) /\ E!extraHiveColumn(d) = columns[i]
                             /\ E!extraHiveColumnAlias(d) = headers[i]
    BY <2>1 DEF Pair
  <2>3. columns[i] \in E!Named /\ i \in Places(columns, columns[i])
    BY PageFacts DEF Places
  <2>4. Cardinality(Places(columns, columns[i])) # 0
    BY <2>3, PageFacts, PlacesFinite, FS_EmptySet
  <2>5. Cardinality(Naming(columns[i])) # 0
    BY <2>3, <2>4 DEF ExportInv, PageInv
  <2>6. PICK c \in Naming(columns[i]) : TRUE
    BY <2>5, FS_EmptySet
  <2>7. c \in checked /\ E!Readable(c) /\ E!extraHiveColumn(c) = columns[i] /\ c \in E!Boxes
    BY <2>6 DEF Naming, ExportInv, PageInv
  <2>8. E!extraHiveColumnAlias(c) = headers[i]
    BY <1>3, <2>2, <2>7 DEF E!Distinct
  <2> QED  BY <2>7, <2>8 DEF E!Title
<1>4. E!Distinct => Len(headers) = Len(columns)
  BY DEF ExportInv, PageInv, InStep
<1> QED
  BY <1>1, <1>2, <1>3, <1>4 DEF E!HeadersFit

-----------------------------------------------------------------------------
\* The tables of Hive.  A thread that is at a table knows how far the two statements
\* have got there: the invariant says so for each step, and says that two threads at
\* one table are recorded in mixed.

\* The two statements, hive_table first.
LEMMA Order == H!Writes[1] = "table" /\ H!Writes[2] = "status"
  BY DEF H!Writes

\* Threads that have a table, and what they know then.
Working == {"find", "describe", "table", "status", "note"}
Placed(c) ==
  /\ subject[c] \in Tables <=> step[c] \in Working
  /\ step[c] \in Working \ {"find"} => alias[c] \in H!Names
  /\ step[c] = "rest" => ~whole[c]

\* Between two statements hive_table has the row already.
RowFirst == \A c \in Requesters : step[c] = "status" => stored[subject[c]] # None

\* Two threads that meet at a table.
Meet == \A c, d \in Requesters :
          c # d /\ subject[c] = subject[d] /\ subject[c] # None => subject[c] \in mixed

\* What a thread that is alone at a table can rely on there.
Agreed(c) ==
  subject[c] \in Tables \ mixed =>
    /\ step[c] \in {"find", "describe", "table", "note"} => status[subject[c]] = stored[subject[c]]
    /\ step[c] \in {"status", "note"} => stored[subject[c]] = alias[c]

HiveInv ==
  /\ H!TypeOK
  /\ \A c \in Requesters : Placed(c)
  /\ RowFirst /\ H!StatusHasTable
  /\ Meet /\ \A c \in Requesters : Agreed(c)
  /\ H!ListingsAgree /\ H!SyncAllSparesRows

\* No thread is at a table when the process starts.
LEMMA InitHiveInv == ASSUME H!ConstantsOK PROVE H!Init => HiveInv
  BY DEF H!Init, HiveInv, H!TypeOK, Placed, RowFirst, H!StatusHasTable, Meet, Agreed, H!ListingsAgree,
         H!SyncAllSparesRows, H!ConstantsOK, Working, H!Names

\* A thread that is through with a table.
LEMMA ThroughEffect ==
  ASSUME H!TypeOK, NEW c \in Requesters, H!Through(c)
  PROVE  /\ step' = [step EXCEPT ![c] = IF todo[c] = {} THEN "rest" ELSE "next"]
         /\ subject' = [subject EXCEPT ![c] = None]
         /\ alias' = [alias EXCEPT ![c] = None]
         /\ whole' \in [Requesters -> BOOLEAN]
         /\ whole'[c] => whole[c] /\ todo[c] # {}
         /\ \A d \in Requesters \ {c} : whole'[d] = whole[d]
<1>1. whole' = [whole EXCEPT ![c] = whole[c] /\ todo[c] # {}]
  BY DEF H!Through
<1>2. whole \in [Requesters -> BOOLEAN]
  BY DEF H!TypeOK
<1>3. (whole[c] /\ todo[c] # {}) \in BOOLEAN
  OBVIOUS
<1>4. whole' \in [Requesters -> BOOLEAN]
  BY <1>1, <1>2, <1>3, Zenon
<1>5. whole'[c] = (whole[c] /\ todo[c] # {})
  BY <1>1, <1>2, Zenon
<1>6. \A d \in Requesters \ {c} : whole'[d] = whole[d]
  BY <1>1, <1>2, Zenon
<1> QED
  BY <1>4, <1>5, <1>6 DEF H!Through, H!To

\* Every statement of every request, and a crash, keeps the invariant.
LEMMA NextHiveInv ==
  ASSUME H!ConstantsOK, HiveInv, [H!Next]_(H!hiveVars)
  PROVE  HiveInv'
<1> USE Order DEF HiveInv, H!TypeOK, Placed, RowFirst, H!StatusHasTable, Meet, Agreed, H!ListingsAgree,
        H!SyncAllSparesRows, H!ConstantsOK, Working, H!Names, H!To
<1>1. CASE UNCHANGED H!hiveVars
  BY <1>1 DEF H!hiveVars
<1>2. ASSUME NEW c \in Requesters, H!SyncAll(c) PROVE HiveInv'
  BY <1>2 DEF H!SyncAll
<1>3. ASSUME NEW c \in Requesters, NEW t \in Tables, H!NextTable(c, t) PROVE HiveInv'
  BY <1>3 DEF H!NextTable, H!TurnTo
<1>4. ASSUME NEW c \in Requesters, H!FindTable(c) PROVE HiveInv'
  <2>1. H!TypeOK'
    BY <1>4, ThroughEffect DEF H!FindTable, H!HasRow
  <2>2. \A d \in Requesters : Placed(d)'
    BY <1>4, ThroughEffect DEF H!FindTable, H!HasRow
  <2>3. RowFirst' /\ H!StatusHasTable'
    BY <1>4, ThroughEffect DEF H!FindTable, H!HasRow
  <2>4. Meet'
    BY <1>4, ThroughEffect DEF H!FindTable, H!HasRow
  <2>5. \A d \in Requesters : Agreed(d)'
    BY <1>4, ThroughEffect DEF H!FindTable, H!HasRow
  <2>6. H!ListingsAgree'
    BY <1>4, ThroughEffect DEF H!FindTable, H!HasRow
  <2>7. H!SyncAllSparesRows'
    BY <1>4, ThroughEffect DEF H!FindTable, H!HasRow
  <2> QED  BY <2>1, <2>2, <2>3, <2>4, <2>5, <2>6, <2>7
<1>5. ASSUME NEW c \in Requesters, NEW t \in Tables, NEW name \in Aliases, H!SyncOne(c, t, name) PROVE HiveInv'
  BY <1>5 DEF H!SyncOne, H!TurnTo
<1>6. ASSUME NEW c \in Requesters, H!Describe(c) PROVE HiveInv'
  BY <1>6 DEF H!Describe
<1>7. ASSUME NEW c \in Requesters, H!WriteTable(c) PROVE HiveInv'
  <2>1. H!TypeOK'
    BY <1>7, ThroughEffect DEF H!WriteTable, H!Onward
  <2>2. \A d \in Requesters : Placed(d)'
    BY <1>7, ThroughEffect DEF H!WriteTable, H!Onward
  <2>3. RowFirst' /\ H!StatusHasTable'
    BY <1>7, ThroughEffect DEF H!WriteTable, H!Onward
  <2>4. Meet'
    BY <1>7, ThroughEffect DEF H!WriteTable, H!Onward
  <2>5. \A d \in Requesters : Agreed(d)'
    BY <1>7, ThroughEffect DEF H!WriteTable, H!Onward
  <2>6. H!ListingsAgree'
    BY <1>7, ThroughEffect DEF H!WriteTable, H!Onward
  <2>7. H!SyncAllSparesRows'
    BY <1>7, ThroughEffect DEF H!WriteTable, H!Onward
  <2> QED  BY <2>1, <2>2, <2>3, <2>4, <2>5, <2>6, <2>7
<1>8. ASSUME NEW c \in Requesters, H!WriteStatus(c) PROVE HiveInv'
  <2>1. H!TypeOK'
    BY <1>8, ThroughEffect DEF H!WriteStatus, H!Onward
  <2>2. \A d \in Requesters : Placed(d)'
    BY <1>8, ThroughEffect DEF H!WriteStatus, H!Onward
  <2>3. RowFirst' /\ H!StatusHasTable'
    BY <1>8, ThroughEffect DEF H!WriteStatus, H!Onward
  <2>4. Meet'
    BY <1>8, ThroughEffect DEF H!WriteStatus, H!Onward
  <2>5. \A d \in Requesters : Agreed(d)'
    BY <1>8, ThroughEffect DEF H!WriteStatus, H!Onward
  <2>6. H!ListingsAgree'
    BY <1>8, ThroughEffect DEF H!WriteStatus, H!Onward
  <2>7. H!SyncAllSparesRows'
    BY <1>8, ThroughEffect DEF H!WriteStatus, H!Onward
  <2> QED  BY <2>1, <2>2, <2>3, <2>4, <2>5, <2>6, <2>7
<1>9. ASSUME NEW c \in Requesters, NEW t \in Tables, H!NoteRead(c, t) PROVE HiveInv'
  BY <1>9 DEF H!NoteRead, H!TurnTo
<1>10. ASSUME NEW c \in Requesters, H!NoteWrite(c) PROVE HiveInv'
  BY <1>10, ThroughEffect DEF H!NoteWrite, H!Noted
<1>11. CASE H!Die
  BY <1>11 DEF H!Die
<1> HIDE DEF HiveInv, H!TypeOK, Placed, RowFirst, H!StatusHasTable, Meet, Agreed, H!ListingsAgree,
        H!SyncAllSparesRows, H!ConstantsOK, Working, H!Names, H!To
<1> QED
  BY <1>1, <1>2, <1>3, <1>4, <1>5, <1>6, <1>7, <1>8, <1>9, <1>10, <1>11 DEF H!Next

\* The invariant holds in every behaviour.
LEMMA HiveInvHolds == ASSUME H!ConstantsOK PROVE H!Spec => []HiveInv
<1>1. H!Init => HiveInv
  BY InitHiveInv
<1>2. HiveInv /\ [H!Next]_(H!hiveVars) => HiveInv'
  BY NextHiveInv
<1> QED
  BY <1>1, <1>2, PTL DEF H!Spec

-----------------------------------------------------------------------------
\* Every variable of every component has its type, for any rows, menus, users, tables,
\* entries and threads, whatever the order of answers, statements and crashes.
THEOREM ComponentsTypeCorrect == Spec => []TypeOK
<1>1. Spec => []D!TypeOK /\ []R!TypeOK /\ []G!TypeOK /\ []Q!TypeOK
  BY EachOne, InstancesOK, D!DialogsTypeCorrect, R!ResourcesTypeCorrect, G!RolesTypeCorrect,
     Q!ScanTypeCorrect, PTL
<1>2. (ExportInv => E!TypeOK) /\ (HiveInv => H!TypeOK)
  BY DEF ExportInv, HiveInv
<1>3. Spec => []E!TypeOK /\ []H!TypeOK
  BY <1>2, EachOne, InstancesOK, ExportInvHolds, HiveInvHolds, PTL
<1> QED
  BY <1>1, <1>3, PTL DEF TypeOK

\* On the pages of users and servers no row ever takes the content of another one, with
\* any number of rows, of requests under way and of edits.
THEOREM ContentStaysHolds == Spec => []ContentStays
  BY EachOne, InstancesOK, D!ContentStaysHolds, PTL DEF ContentStays

\* On the pages of tasks a submit changes the row of the last click only, whatever answers
\* to earlier clicks come in between.
THEOREM AimKeptHolds == Spec => AimKept
  BY EachOne, InstancesOK, D!AimKeptHolds, PTL DEF AimKept

\* No menu is ever put below a child, however old the answer is from which the parent was
\* chosen.
THEOREM TreeIsFlatHolds == Spec => []TreeIsFlat
  BY EachOne, InstancesOK, R!TreeIsFlatHolds, PTL DEF TreeIsFlat

\* A menu is an orphan only if it was added below a root that was gone by then: no delete
\* makes one.
THEOREM DeletesLeaveNoOrphansHolds == Spec => DeletesLeaveNoOrphans
  BY EachOne, InstancesOK, R!DeletesLeaveNoOrphansHolds, PTL DEF DeletesLeaveNoOrphans

\* The page asks to take a menu only from a role that has had it, whatever the order of
\* the answers.
THEOREM TakesWhatWasGivenHolds == Spec => []TakesWhatWasGiven
  BY EachOne, InstancesOK, G!TakesWhatWasGivenHolds, PTL DEF TakesWhatWasGiven

\* What the cache of authorisations holds agrees with the tables once no request has
\* still to empty it, but for users whose roles have changed and overtaken loads.
THEOREM CacheIsCurrentHolds == Spec => []CacheIsCurrent
  BY EachOne, InstancesOK, G!CacheIsCurrentHolds, PTL DEF CacheIsCurrent

\* What the page of exports sends is what is checked, each column once, for any tables
\* and columns and whatever answers came late, were overtaken or lost.
THEOREM SendsWhatIsCheckedHolds == Spec => []SendsWhatIsChecked
<1>1. E!ConstantsOK /\ ExportInv => SendsWhatIsChecked
  BY ExportInvSuffices DEF SendsWhatIsChecked
<1> QED
  BY <1>1, EachOne, InstancesOK, ExportInvHolds, PTL

\* There is one header for each column, under its comment, in the order of the columns
\* where no two columns of the table have the same comment.
THEOREM HeadersFitHolds == Spec => []HeadersFit
<1>1. E!ConstantsOK /\ ExportInv => HeadersFit
  BY ExportInvSuffices DEF HeadersFit
<1> QED
  BY <1>1, EachOne, InstancesOK, ExportInvHolds, PTL

\* Whatever requests run at once and wherever the process dies, a table that the page
\* lists has its row: hive_table is written first, and nothing deletes there.
THEOREM StatusHasTableHolds == Spec => []StatusHasTable
<1>1. HiveInv => StatusHasTable
  BY DEF HiveInv, StatusHasTable
<1> QED
  BY <1>1, EachOne, InstancesOK, HiveInvHolds, PTL

\* The two tables agree about each table that no two requests have met at and that
\* nobody works on.
THEOREM ListingsAgreeHolds == Spec => []ListingsAgree
<1>1. HiveInv => ListingsAgree
  BY DEF HiveInv, ListingsAgree
<1> QED
  BY <1>1, EachOne, InstancesOK, HiveInvHolds, PTL

\* A synchronisation of all tables overwrites no row, but for one that another request
\* has made while it was at that table.
THEOREM SyncAllSparesRowsHolds == Spec => []SyncAllSparesRows
<1>1. HiveInv => SyncAllSparesRows
  BY DEF HiveInv, SyncAllSparesRows
<1> QED
  BY <1>1, EachOne, InstancesOK, HiveInvHolds, PTL

\* With any number of threads and entries, remove overlooks an entry or throws only if
\* another thread has removed an entry in the middle of its scan.
THEOREM MissesNeedRemovalsHolds == Spec => []MissesNeedRemovals
  BY EachOne, InstancesOK, Q!MissesNeedRemovalsHolds, PTL DEF MissesNeedRemovals

\* As many calls of remove answer true as entries have left the list.
THEOREM OneAnswerPerEntryHolds == Spec => []OneAnswerPerEntry
  BY EachOne, InstancesOK, Q!OneAnswerPerEntryHolds, PTL DEF OneAnswerPerEntry
=============================================================================
