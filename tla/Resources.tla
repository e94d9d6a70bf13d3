------------------------------ MODULE Resources ------------------------------
(***************************************************************************)
(* The menu resources: a table of roots and their children, and the page   *)
(* on which an administrator adds and deletes them while others do the     *)
(* same.  The page fills its selects with answers that come late, in any   *)
(* order, or never, so what it offers is what the table held at some time. *)
(***************************************************************************)
EXTENDS Integers, FiniteSets

CONSTANTS
  Menus,      \* keys of the table, never handed out twice
  FirstMenus, \* roots the table starts with
  Root,       \* parent_id = -1
  Absent,
  None,       \* nothing chosen in a select
  Calls       \* bound: requests of the page under way

ConstantsOK == /\ FirstMenus \subseteq Menus
               /\ Root \notin Menus /\ Absent \notin Menus /\ None \notin Menus
               /\ Root # Absent

\* res_parent_id, res_child_root_id and res_child_id.
Selects == {"parent", "root", "child"}

VARIABLES
  parentId,  \* the table resources
  used,      \* keys auto_increment has handed out
  window,    \* the dialog that is open: "none", "child" or "delete"
  options,   \* the options of each select
  chosen,    \* the option chosen in each select
  calls      \* requests of the page under way

resVars == <<parentId, used, window, options, chosen, calls>>

NoCall == [select |-> "none"]
Call(select, of) == [select |-> select, of |-> of, answer |-> {}, read |-> FALSE]

Roots == {m \in Menus : parentId[m] = Root}
ChildrenOf(m) == {k \in Menus : parentId[k] = m}
Orphans == {k \in Menus : parentId[k] \in Menus /\ parentId[k] \notin Roots}

Loaded ==
  /\ window' = "none"
  /\ options' = [s \in Selects |-> {}]
  /\ chosen' = [s \in Selects |-> None]
  /\ calls' = [c \in Calls |-> NoCall]

Init ==
  /\ parentId = [m \in Menus |-> IF m \in FirstMenus THEN Root ELSE Absent]
  /\ used = FirstMenus
  /\ window = "none"
  /\ options = [s \in Selects |-> {}]
  /\ chosen = [s \in Selects |-> None]
  /\ calls = [c \in Calls |-> NoCall]
-----------------------------------------------------------------------------
\* The table.

\* insertResource.
Insert(parent) ==
  \E m \in Menus \ used : /\ parentId' = [parentId EXCEPT ![m] = parent]
                          /\ used' = used \cup {m}

\* Mutant: the statement forgets the children.
DoomedAlone(m, isRoot) == {m}
\* deleteParentOrChildByResId: a menu with what is below it, or a menu alone.
Doomed(m, isRoot) == IF isRoot THEN {m} \cup ChildrenOf(m) ELSE {m}

Delete(m, isRoot) ==
  /\ parentId' = [k \in Menus |-> IF k \in Doomed(m, isRoot) THEN Absent ELSE parentId[k]]
  /\ UNCHANGED used

\* Mutant: the statement without its WHERE clause.
ParentsAll == {m \in Menus : parentId[m] # Absent}
\* getResourceParent.
Parents == Roots
-----------------------------------------------------------------------------
\* The page.

Ask(select, of) ==
  \E c \in Calls : calls[c] = NoCall /\ calls' = [calls EXCEPT ![c] = Call(select, of)]

\* config-children-btn and config-delete-btn; nothing empties the selects.
OpenChild ==
  /\ window = "none"
  /\ window' = "child"
  /\ Ask("parent", Root)
  /\ UNCHANGED <<parentId, used, options, chosen>>

OpenDelete ==
  /\ window = "none"
  /\ window' = "delete"
  /\ Ask("root", Root)
  /\ UNCHANGED <<parentId, used, options, chosen>>

\* Another option of a select of the open dialog; a new root asks for its children.
Choose(s, m) ==
  /\ window = IF s = "parent" THEN "child" ELSE "delete"
  /\ m \in options[s] /\ m # chosen[s]
  /\ chosen' = [chosen EXCEPT ![s] = m]
  /\ IF s = "root" THEN Ask("child", m) ELSE UNCHANGED calls
  /\ UNCHANGED <<parentId, used, window, options>>

CloseWindow ==
  /\ window # "none"
  /\ window' = "none"
  /\ UNCHANGED <<parentId, used, options, chosen, calls>>

\* addHome and addChildren.  With nothing chosen the child has no parent and the
\* table refuses it.  The page is loaded anew.
SubmitHome == Insert(Root) /\ Loaded

SubmitChild ==
  /\ window = "child"
  /\ IF chosen["parent"] = None THEN UNCHANGED <<parentId, used>> ELSE Insert(chosen["parent"])
  /\ Loaded

\* delParentOrChildren: the child if one is chosen, else the root with its
\* children; contextDeleteFormValid is nowhere defined, so nothing is validated.
SubmitDelete ==
  /\ window = "delete"
  /\ IF chosen["child"] # None THEN Delete(chosen["child"], FALSE)
     ELSE IF chosen["root"] # None THEN Delete(chosen["root"], TRUE)
     ELSE UNCHANGED <<parentId, used>>
  /\ Loaded

ReloadPage == Loaded /\ UNCHANGED <<parentId, used>>

\* The statement behind a request: the roots, or the children of one.
Read(c) ==
  /\ calls[c] # NoCall /\ ~calls[c].read
  /\ calls' = [calls EXCEPT
       ![c].answer = IF calls[c].of = Root THEN Parents ELSE ChildrenOf(calls[c].of),
       ![c].read = TRUE]
  /\ UNCHANGED <<parentId, used, window, options, chosen>>

\* selectResource: the options are replaced, and the browser chooses the first.
Fill(c) ==
  /\ calls[c] # NoCall /\ calls[c].read
  /\ LET s == calls[c].select
         new == calls[c].answer
     IN /\ options' = [options EXCEPT ![s] = new]
        /\ \E m \in new \cup {None} : /\ m = None <=> new = {}
                                      /\ chosen' = [chosen EXCEPT ![s] = m]
  /\ calls' = [calls EXCEPT ![c] = NoCall]
  /\ UNCHANGED <<parentId, used, window>>

Fail(c) ==
  /\ calls[c] # NoCall
  /\ calls' = [calls EXCEPT ![c] = NoCall]
  /\ UNCHANGED <<parentId, used, window, options, chosen>>

\* Other administrators, from pages that are up to date.
OthersAddHome == Insert(Root) /\ UNCHANGED <<window, options, chosen, calls>>

OthersDelete(m) ==
  /\ parentId[m] # Absent
  /\ Delete(m, parentId[m] = Root)
  /\ UNCHANGED <<window, options, chosen, calls>>

OthersAddChild(m) ==
  /\ m \in Roots
  /\ Insert(m)
  /\ UNCHANGED <<window, options, chosen, calls>>

Next ==
  \/ OpenChild \/ OpenDelete \/ CloseWindow \/ ReloadPage
  \/ SubmitHome \/ SubmitChild \/ SubmitDelete \/ OthersAddHome
  \/ \E m \in Menus : OthersDelete(m) \/ OthersAddChild(m) \/ \E s \in Selects : Choose(s, m)
  \/ \E c \in Calls : Read(c) \/ Fill(c) \/ Fail(c)

Spec == Init /\ [][Next]_resVars
-----------------------------------------------------------------------------
\* Every variable has its type.
TypeOK ==
  /\ parentId \in [Menus -> Menus \cup {Root, Absent}]
  /\ used \subseteq Menus
  /\ window \in {"none", "child", "delete"}
  /\ options \in [Selects -> SUBSET Menus]
  /\ chosen \in [Selects -> Menus \cup {None}]
  /\ calls \in [Calls -> [select : Selects, of : Menus \cup {Root},
                          answer : SUBSET Menus, read : BOOLEAN] \cup {NoCall}]

\* getResourcesTree draws two levels: no menu is ever put below a child, although
\* the parent is chosen from an answer that may be long out of date.
TreeIsFlat ==
  \A k \in Menus : parentId[k] \in Menus => parentId[parentId[k]] \in {Root, Absent}

\* The delete of a root takes its children along, whatever the page shows: a menu
\* is an orphan, for which getResourcesTree fails, only if it was added below a
\* root that another administrator had deleted by then.
DeletesLeaveNoOrphans ==
  [][\A k \in Orphans' : k \in Orphans \/ (k \notin used /\ parentId'[k] \notin Roots)]_resVars
=============================================================================
