------------------------------- MODULE HiveSync -------------------------------
(***************************************************************************)
(* What the application keeps of the tables of Hive: hive_table with the   *)
(* alias and the columns of each, and hive_sync_status, from which the     *)
(* page lists them.  Requests that synchronise all tables or one, and      *)
(* requests that change the comment of a column, run at the same time, and *)
(* the process may die between two statements.  The columns are left out:  *)
(* what a describe answers, an error included, changes no step.            *)
(***************************************************************************)
EXTENDS Integers, FiniteSets

CONSTANTS
  Tables,     \* tables of Hive
  Aliases,    \* names a request may give to a table
  Requesters, \* request threads
  None,
  MaxDeaths   \* bound: crashes of the process

ConstantsOK == /\ None \notin Tables \cup Aliases
               /\ MaxDeaths \in Nat

\* A table has its own name for alias until a request gives it another.
Names == Aliases \cup Tables

\* The two statements of a synchronisation.  Mutant: in the other order.
WritesSwapped == <<"status", "table">>
Writes == <<"table", "status">>

VARIABLES
  stored,    \* hive_table: the alias of each table, None without a row
  status,    \* hive_sync_status: the same
  step,      \* where each thread is
  whole,     \* whether it synchronises all tables
  todo,      \* what it has still to look at then
  subject,   \* the table it is at
  alias,     \* the alias it has been given or has read
  deaths,
  mixed      \* history: tables on which two requests met, or a crash hit one

hiveVars == <<stored, status, step, whole, todo, subject, alias, deaths, mixed>>

Init ==
  /\ stored = [t \in Tables |-> None]
  /\ status = [t \in Tables |-> None]
  /\ step = [c \in Requesters |-> "rest"]
  /\ whole = [c \in Requesters |-> FALSE]
  /\ todo = [c \in Requesters |-> {}]
  /\ subject = [c \in Requesters |-> None]
  /\ alias = [c \in Requesters |-> None]
  /\ deaths = 0
  /\ mixed = {}

To(c, label) == step' = [step EXCEPT ![c] = label]

\* A thread turns to table t, and whom it meets there.
TurnTo(c, t) ==
  /\ subject' = [subject EXCEPT ![c] = t]
  /\ mixed' = IF \E d \in Requesters \ {c} : subject[d] = t THEN mixed \cup {t} ELSE mixed

\* It is through with a table: on to the next one, if it does them all.
Through(c) ==
  /\ To(c, IF todo[c] = {} THEN "rest" ELSE "next")
  /\ subject' = [subject EXCEPT ![c] = None]
  /\ alias' = [alias EXCEPT ![c] = None]
  /\ whole' = [whole EXCEPT ![c] = @ /\ todo[c] # {}]
-----------------------------------------------------------------------------
\* synchronizeAllTableFromHive.  An error of "show tables" is logged, and what had
\* been read until then is taken for the tables.
SyncAll(c) ==
  /\ step[c] = "rest"
  /\ \E S \in SUBSET Tables \ {{}} : todo' = [todo EXCEPT ![c] = S]
  /\ whole' = [whole EXCEPT ![c] = TRUE]
  /\ To(c, "next")
  /\ UNCHANGED <<stored, status, subject, alias, deaths, mixed>>

NextTable(c, t) ==
  /\ step[c] = "next"
  /\ t \in todo[c]
  /\ todo' = [todo EXCEPT ![c] = @ \ {t}]
  /\ TurnTo(c, t)
  /\ To(c, "find")
  /\ UNCHANGED <<stored, status, whole, alias, deaths>>

\* findTableByTableName.  Mutant: the test the wrong way round.
HasNoRow(t) == stored[t] = None
HasRow(t) == stored[t] # None

\* Only a table that has no row yet is described.
FindTable(c) ==
  /\ step[c] = "find"
  /\ IF HasRow(subject[c])
     THEN Through(c)
     ELSE /\ alias' = [alias EXCEPT ![c] = subject[c]]
          /\ To(c, "describe")
          /\ UNCHANGED <<subject, whole>>
  /\ UNCHANGED <<stored, status, todo, deaths, mixed>>

\* synchronizeTableFromHiveByName.
SyncOne(c, t, name) ==
  /\ step[c] = "rest"
  /\ TurnTo(c, t)
  /\ alias' = [alias EXCEPT ![c] = name]
  /\ To(c, "describe")
  /\ UNCHANGED <<stored, status, whole, todo, deaths>>

\* getHiveDescribe: Hive answers, or fails, which gives an empty list of columns.
Describe(c) ==
  /\ step[c] = "describe"
  /\ To(c, Writes[1])
  /\ UNCHANGED <<stored, status, whole, todo, subject, alias, deaths, mixed>>

\* After a statement: the second one, or the end.
Onward(c) ==
  IF step[c] = Writes[1]
  THEN To(c, Writes[2]) /\ UNCHANGED <<whole, subject, alias>>
  ELSE Through(c)

\* replaceIntoTable.
WriteTable(c) ==
  /\ step[c] = "table"
  /\ stored' = [stored EXCEPT ![subject[c]] = alias[c]]
  /\ Onward(c)
  /\ UNCHANGED <<status, todo, deaths, mixed>>

\* hiveSyncStatus.
WriteStatus(c) ==
  /\ step[c] = "status"
  /\ status' = [status EXCEPT ![subject[c]] = alias[c]]
  /\ Onward(c)
  /\ UNCHANGED <<stored, todo, deaths, mixed>>

\* modifyColumnCommentByName: the row is read, and written as a whole.  With no
\* row to read the request fails.
NoteRead(c, t) ==
  /\ step[c] = "rest"
  /\ stored[t] # None
  /\ TurnTo(c, t)
  /\ alias' = [alias EXCEPT ![c] = stored[t]]
  /\ To(c, "note")
  /\ UNCHANGED <<stored, status, whole, todo, deaths>>

\* Mutant: a row built anew, without the alias it had.
NotedBare(c) == subject[c]
Noted(c) == alias[c]

NoteWrite(c) ==
  /\ step[c] = "note"
  /\ stored' = [stored EXCEPT ![subject[c]] = Noted(c)]
  /\ Through(c)
  /\ UNCHANGED <<status, todo, deaths, mixed>>

Die ==
  /\ deaths < MaxDeaths
  /\ deaths' = deaths + 1
  /\ step' = [c \in Requesters |-> "rest"]
  /\ todo' = [c \in Requesters |-> {}]
  /\ subject' = [c \in Requesters |-> None]
  /\ alias' = [c \in Requesters |-> None]
  /\ whole' = [c \in Requesters |-> FALSE]
  /\ mixed' = mixed \cup {t \in Tables : \E c \in Requesters : subject[c] = t}
  /\ UNCHANGED <<stored, status>>

Next ==
  \/ \E c \in Requesters :
       \/ SyncAll(c) \/ FindTable(c) \/ Describe(c) \/ WriteTable(c) \/ WriteStatus(c)
       \/ NoteWrite(c)
       \/ \E t \in Tables : \/ NextTable(c, t) \/ NoteRead(c, t)
                            \/ \E name \in Aliases : SyncOne(c, t, name)
  \/ Die

Spec == Init /\ [][Next]_hiveVars
-----------------------------------------------------------------------------
\* Every variable has its type.
TypeOK ==
  /\ stored \in [Tables -> Names \cup {None}]
  /\ status \in [Tables -> Names \cup {None}]
  /\ step \in [Requesters -> {"rest", "next", "find", "describe", "table", "status", "note"}]
  /\ whole \in [Requesters -> BOOLEAN]
  /\ todo \in [Requesters -> SUBSET Tables]
  /\ subject \in [Requesters -> Tables \cup {None}]
  /\ alias \in [Requesters -> Names \cup {None}]
  /\ deaths \in Nat
  /\ mixed \subseteq Tables

\* Every table that the page lists from hive_sync_status has a row in hive_table,
\* from which its columns are shown and by which the page counts what it lists:
\* at every moment of every mixture of requests, and after a crash at any step.
StatusHasTable == \A t \in Tables : status[t] # None => stored[t] # None

\* The two tables agree about a table, on its alias and on whether there is one,
\* once nobody works on it, if no two requests ever met there and no crash hit one
\* in the middle: a comment is written back with the alias it was read with.
ListingsAgree ==
  \A t \in Tables \ mixed :
    (\A c \in Requesters : subject[c] # t) => status[t] = stored[t]

\* A synchronisation of all tables leaves alone the rows that are there, with their
\* aliases and comments, unless another request made the row in the middle of it.
SyncAllSparesRows ==
  \A c \in Requesters :
    whole[c] /\ step[c] \in {"describe", "table"} /\ subject[c] \notin mixed =>
      stored[subject[c]] = None
=============================================================================
