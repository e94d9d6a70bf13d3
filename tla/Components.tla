------------------------------- MODULE Components -------------------------------
(***************************************************************************)
(* The components that share no state with each other nor with the task    *)
(* core, for any rows, menus, users, tables and threads: the dialogs of    *)
(* the pages, the page of the menu resources, roles and the cache of       *)
(* authorisations, the page of exports, the tables synchronised from Hive, *)
(* and the scan of TaskQueue.remove.  A behaviour is one of one component, *)
(* and the others stay as they begin.                                      *)
(***************************************************************************)
EXTENDS Integers, Sequences, FiniteSets

CONSTANTS
  None,
  Ids, New, Kinds, Slots, MaxRev,                                      \* Dialogs
  Menus, FirstMenus, Root, Absent, Calls,                              \* Resources
  Users, Groups, LeafMenus, FirstGranted, FirstHeld, Loaders, RoleCalls, \* Roles
  PageTables, TableIn, Columns, ColumnsOf, CommentOf,                  \* ExportPage
  Plain, Cut, WithComma, Lookups,
  Tables, Aliases, Requesters, MaxDeaths,                              \* HiveSync
  Entries, Tasks, TaskOf, Removers                                     \* QueueScan

VARIABLES component,
          kind, rows, listed, dialog, form, flight, aim,
          parentId, used, window, options, chosen, calls,
          selected, shown, checked, columns, headers, filters, lookups,
          stored, status, step, whole, todo, subject, alias, deaths, mixed,
          granted, held, tree, roleCalls, cache, loads, given, overtaken, outdated,
          line, at, sought, index, found, answer, entered, yes, there, shrunk

\* A module of proofs extends its component: an instance of it is one of the component
\* that brings the theorems along.
D == INSTANCE DialogsProofs WITH Nobody <- None
R == INSTANCE ResourcesProofs
G == INSTANCE RolesProofs WITH Menus <- LeafMenus, Calls <- RoleCalls, calls <- roleCalls
E == INSTANCE ExportPage WITH HiveTables <- PageTables
H == INSTANCE HiveSync
Q == INSTANCE QueueScanProofs

ASSUME InstancesOK == /\ D!ConstantsOK /\ R!ConstantsOK /\ G!ConstantsOK
                      /\ E!ConstantsOK /\ H!ConstantsOK /\ Q!ConstantsOK

dialogVars == <<kind, rows, listed, dialog, form, flight, aim>>
resVars == <<parentId, used, window, options, chosen, calls>>
roleVars ==
  <<granted, held, tree, roleCalls, cache, loads, given, overtaken, outdated>>
pageVars == <<selected, shown, checked, columns, headers, filters, lookups>>
hiveVars == <<stored, status, step, whole, todo, subject, alias, deaths, mixed>>
scanVars == <<line, at, sought, index, found, answer, entered, yes, there, shrunk>>
vars == <<component, dialogVars, resVars, roleVars, pageVars, hiveVars, scanVars>>

\* While another component moves, one page is enough.
Init ==
  /\ component \in {"dialogs", "resources", "roles", "export", "hive", "scan"}
  /\ D!Init /\ R!Init /\ G!Init /\ E!Init /\ H!Init /\ Q!Init
  /\ component # "dialogs" => kind = CHOOSE k \in Kinds : TRUE

\* One component moves.
Only(name) ==
  /\ component = name
  /\ UNCHANGED component
  /\ name # "dialogs" => UNCHANGED dialogVars
  /\ name # "resources" => UNCHANGED resVars
  /\ name # "roles" => UNCHANGED roleVars
  /\ name # "export" => UNCHANGED pageVars
  /\ name # "hive" => UNCHANGED hiveVars
  /\ name # "scan" => UNCHANGED scanVars

Next ==
  \/ Only("dialogs") /\ D!Next
  \/ Only("resources") /\ R!Next
  \/ Only("roles") /\ G!Next
  \/ Only("export") /\ E!Next
  \/ Only("hive") /\ H!Next
  \/ Only("scan") /\ Q!Next

Spec == Init /\ [][Next]_vars
-----------------------------------------------------------------------------
\* Every variable of every component has its type.
TypeOK == D!TypeOK /\ R!TypeOK /\ G!TypeOK /\ E!TypeOK /\ H!TypeOK /\ Q!TypeOK

\* The properties of the components, under the names they have there: see the
\* comments there for what they say of the code.
ContentStays == D!ContentStays
AimKept == D!AimKept
TreeIsFlat == R!TreeIsFlat
DeletesLeaveNoOrphans == R!DeletesLeaveNoOrphans
TakesWhatWasGiven == G!TakesWhatWasGiven
CacheIsCurrent == G!CacheIsCurrent
SendsWhatIsChecked == E!SendsWhatIsChecked
HeadersFit == E!HeadersFit
StatusHasTable == H!StatusHasTable
ListingsAgree == H!ListingsAgree
SyncAllSparesRows == H!SyncAllSparesRows
MissesNeedRemovals == Q!MissesNeedRemovals
OneAnswerPerEntry == Q!OneAnswerPerEntry
=============================================================================
