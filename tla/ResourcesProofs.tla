---------------------------- MODULE ResourcesProofs ----------------------------
(***************************************************************************)
(* Proofs for Resources.  A key is never handed out twice, so a menu that  *)
(* was a root once is a root or gone for ever, and one that was a child is *)
(* never a root: what an answer said of a menu stays true in this sense    *)
(* however late the answer is used.  The invariant says that of every      *)
(* answer, option and choice.                                              *)
(***************************************************************************)
EXTENDS Resources, TLAPS

\* What an answer about a menu can be relied on for.
OnceRoot(m) == m \in used /\ parentId[m] \in {Root, Absent}
OnceChild(m) == m \in used /\ parentId[m] # Root

Known(s, m) == IF s = "child" THEN OnceChild(m) ELSE OnceRoot(m)

TableInv ==
  /\ parentId \in [Menus -> Menus \cup {Root, Absent}]
  /\ used \subseteq Menus
  /\ \A m \in Menus \ used : parentId[m] = Absent
  /\ \A k \in Menus : parentId[k] \in Menus => OnceRoot(parentId[k])

PageInv ==
  /\ options \in [Selects -> SUBSET Menus]
  /\ chosen \in [Selects -> Menus \cup {None}]
  /\ window \in {"none", "child", "delete"}
  /\ \A s \in Selects, m \in Menus : m \in options[s] \/ m = chosen[s] => Known(s, m)

CallType == [select : Selects, of : Menus \cup {Root}, answer : SUBSET Menus, read : BOOLEAN]
CallInv ==
  /\ calls \in [Calls -> CallType \cup {NoCall}]
  /\ \A c \in Calls : calls[c] # NoCall =>
       /\ calls[c].of = Root <=> calls[c].select # "child"
       /\ \A m \in Menus : m \in calls[c].answer => Known(calls[c].select, m)

TInv == TableInv /\ PageInv /\ CallInv

\* A step of the table takes no menu out of the sight of those who know it.
TableStep == /\ TableInv'
             /\ used \subseteq used'
             /\ \A m \in used : parentId'[m] \in {parentId[m], Absent}

\* The page has asked for nothing yet.
LEMMA InitTInv == ASSUME ConstantsOK PROVE Init => TInv
  BY DEF Init, TInv, TableInv, PageInv, CallInv, ConstantsOK, OnceRoot, OnceChild, Known, Selects

\* What the table does leaves true what was known of a menu.
LEMMA KnownStays ==
  ASSUME ConstantsOK, TableStep
  PROVE  \A s \in Selects, m \in Menus : Known(s, m) => Known(s, m)'
  BY DEF Known, OnceRoot, OnceChild, ConstantsOK, TableStep

\* An insert below a root, or below what was one.
LEMMA InsertSteps ==
  ASSUME ConstantsOK, TableInv, NEW p \in Menus \cup {Root}, p = Root \/ OnceRoot(p), Insert(p)
  PROVE  TableStep
<1>1. PICK n \in Menus \ used : parentId' = [parentId EXCEPT ![n] = p] /\ used' = used \cup {n}
  BY DEF Insert
<1> QED
  BY <1>1 DEF TableStep, TableInv, OnceRoot, ConstantsOK

\* A delete.
LEMMA DeleteSteps ==
  ASSUME ConstantsOK, TableInv, NEW m \in Menus, NEW isRoot \in BOOLEAN, Delete(m, isRoot)
  PROVE  TableStep
  BY DEF Delete, TableStep, TableInv, OnceRoot, ConstantsOK

LEMMA TableIdles ==
  ASSUME TableInv, UNCHANGED <<parentId, used>>
  PROVE  TableStep
  BY DEF TableStep, TableInv, OnceRoot

\* The page stays as it is, or comes back empty, while the table makes a step.
LEMMA PageStays ==
  ASSUME ConstantsOK, TInv, TableStep,
         Loaded \/ UNCHANGED <<window, options, chosen, calls>>
  PROVE  TInv'
<1>1. PageInv'
  BY KnownStays DEF TInv, PageInv, Loaded, ConstantsOK
<1>2. CallInv'
  <2>1. CASE Loaded
    BY <2>1 DEF CallInv, Loaded
  <2>2. CASE UNCHANGED calls
    <3>1. \A c \in Calls : calls[c] # NoCall => calls[c].select \in Selects
      BY DEF TInv, CallInv, CallType
    <3> QED
      BY <2>2, <3>1, KnownStays DEF TInv, CallInv
  <2> QED  BY <2>1, <2>2
<1> QED
  BY <1>1, <1>2 DEF TInv, TableStep

\* The table stays, and the page has changed.
LEMMA PageMoves ==
  ASSUME TInv, UNCHANGED <<parentId, used>>
  PROVE  /\ TableInv'
         /\ \A s \in Selects, m \in Menus : Known(s, m)' <=> Known(s, m)
  BY DEF TInv, TableInv, Known, OnceRoot, OnceChild

\* A new request, about the roots or about the children of a root.
LEMMA AskKeeps ==
  ASSUME TInv, UNCHANGED <<parentId, used>>, NEW s \in Selects, NEW r \in Menus \cup {Root},
         r = Root <=> s # "child", Ask(s, r)
  PROVE  CallInv'
  BY PageMoves DEF TInv, CallInv, CallType, Ask, Call, NoCall

\* The requests under way stay, and so does the table.
LEMMA CallsIdle ==
  ASSUME TInv, UNCHANGED <<parentId, used, calls>>
  PROVE  CallInv'
<1>1. \A c \in Calls : calls[c] # NoCall => calls[c].select \in Selects
  BY DEF TInv, CallInv, CallType
<1> QED
  BY <1>1, PageMoves DEF TInv, CallInv

\* Every action of the page and of other administrators keeps the invariant.
LEMMA NextTInv ==
  ASSUME ConstantsOK, TInv, [Next]_resVars
  PROVE  TInv'
<1>1. CASE UNCHANGED resVars
  BY <1>1, TableIdles, PageStays DEF resVars, TInv
<1>2. CASE OpenChild
  <2>1. CallInv'
    BY <1>2, AskKeeps DEF OpenChild, Selects
  <2> QED
    BY <1>2, <2>1, PageMoves DEF OpenChild, TInv, PageInv
<1>3. CASE OpenDelete
  <2>1. CallInv'
    BY <1>3, AskKeeps DEF OpenDelete, Selects
  <2> QED
    BY <1>3, <2>1, PageMoves DEF OpenDelete, TInv, PageInv
<1>4. ASSUME NEW s \in Selects, NEW m \in Menus, Choose(s, m) PROVE TInv'
  <2>1. CallInv'
    <3>1. CASE s = "root"
      <4>1. "child" \in Selects /\ m \in Menus \cup {Root} /\ m # Root
        BY <1>4 DEF ConstantsOK, Selects
      <4>2. Ask("child", m) /\ UNCHANGED <<parentId, used>>
        BY <1>4, <3>1 DEF Choose
      <4> QED
        BY <4>1, <4>2, AskKeeps
    <3>2. CASE s # "root"
      BY <1>4, <3>2, CallsIdle DEF Choose
    <3> QED  BY <3>1, <3>2
  <2> QED
    BY <1>4, <2>1, PageMoves DEF Choose, TInv, PageInv, ConstantsOK
<1>5. CASE CloseWindow
  <2>1. CallInv'
    BY <1>5, CallsIdle DEF CloseWindow
  <2> QED
    BY <1>5, <2>1, PageMoves DEF CloseWindow, TInv, PageInv
<1>6. CASE SubmitHome
  BY <1>6, InsertSteps, PageStays DEF SubmitHome, TInv
<1>7. CASE SubmitChild
  <2>1. TableStep
    <3>1. CASE chosen["parent"] = None
      BY <1>7, <3>1, TableIdles DEF SubmitChild, TInv
    <3>2. CASE chosen["parent"] # None
      <4>1. chosen["parent"] \in Menus /\ OnceRoot(chosen["parent"])
        BY <3>2 DEF TInv, PageInv, Known, Selects
      <4> QED
        BY <1>7, <3>2, <4>1, InsertSteps DEF SubmitChild, TInv
    <3> QED  BY <3>1, <3>2
  <2> QED
    BY <1>7, <2>1, PageStays DEF SubmitChild
<1>8. CASE SubmitDelete
  <2>1. TableStep
    <3>1. chosen["child"] \in Menus \cup {None} /\ chosen["root"] \in Menus \cup {None}
      BY DEF TInv, PageInv, Selects
    <3> QED
      BY <1>8, <3>1, DeleteSteps, TableIdles DEF SubmitDelete, TInv
  <2> QED
    BY <1>8, <2>1, PageStays DEF SubmitDelete
<1>9. CASE ReloadPage
  BY <1>9, TableIdles, PageStays DEF ReloadPage, TInv
<1>10. ASSUME NEW c \in Calls, Read(c) PROVE TInv'
  <2>1. ASSUME NEW m \in Menus, m \in IF calls[c].of = Root THEN Parents ELSE ChildrenOf(calls[c].of)
        PROVE  Known(calls[c].select, m)
    BY <1>10, <2>1 DEF Read, TInv, TableInv, CallInv, CallType, Parents, Roots, ChildrenOf, Known,
                       OnceRoot, OnceChild, ConstantsOK
  <2>2. CallInv'
    BY <1>10, <2>1, PageMoves DEF Read, TInv, CallInv, CallType, NoCall, Parents, Roots, ChildrenOf
  <2> QED
    BY <1>10, <2>2, PageMoves DEF Read, TInv, PageInv
<1>11. ASSUME NEW c \in Calls, Fill(c) PROVE TInv'
  <2>1. CallInv'
    BY <1>11, PageMoves DEF Fill, TInv, CallInv, CallType
  <2>2. PageInv'
    BY <1>11, PageMoves DEF Fill, TInv, CallInv, CallType, PageInv, ConstantsOK
  <2> QED
    BY <1>11, <2>1, <2>2, PageMoves DEF Fill, TInv
<1>12. ASSUME NEW c \in Calls, Fail(c) PROVE TInv'
  <2>1. CallInv'
    BY <1>12, PageMoves DEF Fail, TInv, CallInv, CallType
  <2> QED
    BY <1>12, <2>1, PageMoves DEF Fail, TInv, PageInv
<1>13. CASE OthersAddHome
  BY <1>13, InsertSteps, PageStays DEF OthersAddHome, TInv
<1>14. ASSUME NEW m \in Menus, OthersDelete(m) PROVE TInv'
  BY <1>14, DeleteSteps, PageStays DEF OthersDelete, TInv
<1>15. ASSUME NEW m \in Menus, OthersAddChild(m) PROVE TInv'
  <2>1. OnceRoot(m)
    BY <1>15 DEF OthersAddChild, Roots, TInv, TableInv, OnceRoot, ConstantsOK
  <2> QED
    BY <1>15, <2>1, InsertSteps, PageStays DEF OthersAddChild, TInv
<1> QED
  BY <1>1, <1>2, <1>3, <1>4, <1>5, <1>6, <1>7, <1>8, <1>9, <1>10, <1>11, <1>12, <1>13, <1>14,
     <1>15 DEF Next

\* The invariant holds in every behaviour.
LEMMA TInvHolds == ASSUME ConstantsOK PROVE Spec => []TInv
<1>1. Init => TInv
  BY InitTInv
<1>2. TInv /\ [Next]_resVars => TInv'
  BY NextTInv
<1> QED
  BY <1>1, <1>2, PTL DEF Spec

\* Every variable has its type, for any menus.
THEOREM ResourcesTypeCorrect == ASSUME ConstantsOK PROVE Spec => []TypeOK
<1>1. TInv => TypeOK
  BY DEF TInv, TableInv, PageInv, CallInv, CallType, TypeOK
<1> QED
  BY <1>1, TInvHolds, PTL

\* No menu is put below a child, however old the answer that offered the parent.
THEOREM TreeIsFlatHolds == ASSUME ConstantsOK PROVE Spec => []TreeIsFlat
<1>1. TInv => TreeIsFlat
  BY DEF TInv, TableInv, OnceRoot, TreeIsFlat
<1> QED
  BY <1>1, TInvHolds, PTL

\* An insert makes no orphan but the menu it adds, below a root that was gone.
LEMMA InsertOrphans ==
  ASSUME ConstantsOK, TInv, NEW p \in Menus \cup {Root}, Insert(p)
  PROVE  \A k \in Orphans' : k \in Orphans \/ (k \notin used /\ parentId'[k] \notin Roots)
<1>1. PICK n \in Menus \ used : parentId' = [parentId EXCEPT ![n] = p] /\ used' = used \cup {n}
  BY DEF Insert
<1> QED
  BY <1>1 DEF TInv, TableInv, Orphans, Roots, ConstantsOK

\* A delete makes none: a root takes its children along, and what is deleted alone
\* is no root.
LEMMA DeleteOrphans ==
  ASSUME ConstantsOK, TInv, NEW m \in Menus, NEW isRoot \in BOOLEAN, Delete(m, isRoot),
         ~isRoot => parentId[m] # Root
  PROVE  Orphans' \subseteq Orphans
  BY DEF Delete, Doomed, ChildrenOf, TInv, TableInv, Orphans, Roots, ConstantsOK

\* A menu becomes an orphan only by being added below a root that another
\* administrator had deleted.
THEOREM DeletesLeaveNoOrphansHolds == ASSUME ConstantsOK PROVE Spec => DeletesLeaveNoOrphans
<1> DEFINE Good == \A k \in Orphans' : k \in Orphans \/ (k \notin used /\ parentId'[k] \notin Roots)
<1>1. ASSUME TInv, [Next]_resVars PROVE Good
  <2> USE <1>1
  <2>1. CASE UNCHANGED parentId
    BY <2>1 DEF Orphans, Roots
  <2>2. CASE SubmitHome \/ OthersAddHome
    BY <2>2, InsertOrphans DEF SubmitHome, OthersAddHome
  <2>3. CASE SubmitChild
    <3>1. chosen["parent"] \in Menus \cup {None}
      BY DEF TInv, PageInv, Selects
    <3> QED
      BY <2>1, <2>3, <3>1, InsertOrphans DEF SubmitChild
  <2>4. CASE SubmitDelete
    <3>1. chosen["child"] \in Menus \cup {None} /\ chosen["root"] \in Menus \cup {None}
      BY DEF TInv, PageInv, Selects
    <3>2. chosen["child"] # None => parentId[chosen["child"]] # Root
      BY <3>1 DEF TInv, PageInv, Selects, Known, OnceChild
    <3> QED
      BY <2>1, <2>4, <3>1, <3>2, DeleteOrphans DEF SubmitDelete
  <2>5. ASSUME NEW m \in Menus, OthersDelete(m) PROVE Good
    BY <2>5, DeleteOrphans DEF OthersDelete
  <2>6. ASSUME NEW m \in Menus, OthersAddChild(m) PROVE Good
    BY <2>6, InsertOrphans DEF OthersAddChild
  <2> QED
    BY <2>1, <2>2, <2>3, <2>4, <2>5, <2>6 DEF Next, resVars, OpenChild, OpenDelete, Choose,
       CloseWindow, ReloadPage, Read, Fill, Fail
<1>2. TInv /\ [Next]_resVars => [Good]_resVars
  BY <1>1
<1> QED
  BY <1>2, TInvHolds, PTL DEF Spec, DeletesLeaveNoOrphans
=============================================================================
