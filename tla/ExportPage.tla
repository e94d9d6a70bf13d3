------------------------------ MODULE ExportPage ------------------------------
(***************************************************************************)
(* The page on which a user puts a query together: a table, boxes for its  *)
(* columns, filters.  The columns to select and the headers of the result  *)
(* are two lists of the page, kept in step click by click; the boxes come  *)
(* with an answer that may be late, overtaken or missing, while the user   *)
(* goes on with those of another table.                                    *)
(*                                                                         *)
(* A table is listed as "alias[table]" and a box says 'comment[column]':   *)
(* the page reads both back at the first brackets, whoever wrote them.     *)
(***************************************************************************)
EXTENDS Integers, Sequences, FiniteSets, SequencesExt

CONSTANTS
  HiveTables,
  TableIn,    \* the name that is read in the text of each table: another one if its
              \* alias has brackets, and perhaps of no table
  Columns,    \* columns of all tables
  ColumnsOf,  \* the columns of each table
  CommentOf,  \* the comment of each column, the column's name where it is empty: the
              \* text before the first bracket, and the name behind that bracket
  Plain,      \* ... if the comment has no bracket,
  Cut,        \* ... if it has an apostrophe first, which ends the value of the box
  WithComma,  \* texts that have a comma
  None,
  Lookups     \* bound: requests of the page under way

ConstantsOK == /\ DOMAIN TableIn = HiveTables
               /\ \A t \in HiveTables : TableIn[t] # None
               /\ ColumnsOf \in [HiveTables -> SUBSET Columns]
               /\ DOMAIN CommentOf = Columns
               /\ Plain # Cut /\ None \notin HiveTables

VARIABLES
  selected,  \* hiveSubmitTableName, as it was read
  shown,     \* the table whose columns have boxes
  checked,   \* the boxes that are checked
  columns,   \* hiveSubmitColumns
  headers,   \* hiveSubmitColumnsAlias
  filters,   \* the entries of the filter list that have a condition
  lookups    \* requests for the columns of a table under way

pageVars == <<selected, shown, checked, columns, headers, filters, lookups>>

Boxes == IF shown = None THEN {} ELSE ColumnsOf[shown]

\* split("[")[1].split("]")[0] of the text of a box, and split("[")[0].  Without a
\* bracket the first of them ends the click by an exception.
Readable(col) == CommentOf[col].bracket # Cut
extraHiveColumn(col) == IF CommentOf[col].bracket = Plain THEN col ELSE CommentOf[col].bracket
extraHiveColumnAlias(col) == CommentOf[col].text

Init ==
  /\ selected = None
  /\ shown = None
  /\ checked = {}
  /\ columns = <<>> /\ headers = <<>>
  /\ filters = {}
  /\ lookups = [l \in Lookups |-> None]

\* select2:select: another table; what is checked stays until the answer comes.
SelectTable(t) ==
  /\ selected' = TableIn[t]
  /\ filters' = {}
  /\ \E l \in Lookups : lookups[l] = None /\ lookups' = [lookups EXCEPT ![l] = TableIn[t]]
  /\ UNCHANGED <<shown, checked, columns, headers>>

\* Mutant: one of the lists is not emptied.
KeptHeaders == headers
Emptied == <<>>

\* showTableColumns, success: there is a table of that name.
ShowColumns(l) ==
  /\ lookups[l] \in HiveTables
  /\ shown' = lookups[l]
  /\ checked' = {}
  /\ columns' = <<>> /\ headers' = Emptied
  /\ lookups' = [lookups EXCEPT ![l] = None]
  /\ UNCHANGED <<selected, filters>>

\* A code other than "success", or no answer.
LoseColumns(l) ==
  /\ lookups[l] # None
  /\ lookups' = [lookups EXCEPT ![l] = None]
  /\ UNCHANGED <<selected, shown, checked, columns, headers, filters>>

\* A click on a box; the lists stay if its text cannot be read.
Check(col) ==
  /\ col \in Boxes \ checked
  /\ checked' = checked \cup {col}
  /\ \/ /\ Readable(col)
        /\ columns' = Append(columns, extraHiveColumn(col))
        /\ headers' = Append(headers, extraHiveColumnAlias(col))
     \/ ~Readable(col) /\ UNCHANGED <<columns, headers>>
  /\ UNCHANGED <<selected, shown, filters, lookups>>

\* removeByValue.  Mutant: a splice without its count takes the rest of the list.
RemovedRest(list, value) ==
  LET i == SelectInSeq(list, LAMBDA v : v = value) IN IF i = 0 THEN list ELSE SubSeq(list, 1, i - 1)
RemovedValue(list, value) == RemoveFirst(list, value)

Uncheck(col) ==
  /\ col \in Boxes \cap checked
  /\ checked' = checked \ {col}
  /\ \/ /\ Readable(col)
        /\ columns' = RemovedValue(columns, extraHiveColumn(col))
        /\ headers' = RemovedValue(headers, extraHiveColumnAlias(col))
     \/ ~Readable(col) /\ UNCHANGED <<columns, headers>>
  /\ UNCHANGED <<selected, shown, filters, lookups>>

\* btn_filter_condition and labelClose; what the condition says is left out.
Filter(col) ==
  /\ col \in Boxes
  /\ filters' = IF col \in filters THEN filters \ {col} ELSE filters \cup {col}
  /\ UNCHANGED <<selected, shown, checked, columns, headers, lookups>>

\* hive_btn_submit_task: a query that the button sends, "select columns from selected
\* where filters" under the headers; the page stays as it is.
Sendable == columns # <<>> /\ selected # None /\ filters # {}

\* The headers are sent joined by commas, and EngineServiceImpl splits the line at each
\* comma: one in a comment ends the title there, and those behind it move.
Title(i) == IF \E j \in 1 .. i : headers[j] \in WithComma THEN None ELSE headers[i]

Next ==
  \/ \E t \in HiveTables : SelectTable(t)
  \/ \E l \in Lookups : ShowColumns(l) \/ LoseColumns(l)
  \/ \E col \in Columns : Check(col) \/ Uncheck(col) \/ Filter(col)

Spec == Init /\ [][Next]_pageVars
-----------------------------------------------------------------------------
\* Every variable has its type.
Named == {extraHiveColumn(col) : col \in Columns}
Titled == {extraHiveColumnAlias(col) : col \in Columns}
TypeOK ==
  /\ selected \in {TableIn[t] : t \in HiveTables} \cup {None}
  /\ shown \in HiveTables \cup {None}
  /\ checked \subseteq Columns
  /\ columns \in Seq(Named)
  /\ headers \in Seq(Titled)
  /\ filters \subseteq Columns
  /\ lookups \in [Lookups -> {TableIn[t] : t \in HiveTables} \cup {None}]

\* Whatever answers came late, were overtaken or lost, the boxes and the list of columns
\* never part: each name is there as often as a checked box gives it.  So what the button
\* sends is what is checked, each column once, as long as no checked box has a bracket or
\* an apostrophe in its comment, which may give the name of another column, or none.
SendsWhatIsChecked ==
  /\ checked \subseteq Boxes
  /\ \A name \in Named :
       Cardinality({i \in 1 .. Len(columns) : columns[i] = name})
         = Cardinality({col \in checked : Readable(col) /\ extraHiveColumn(col) = name})
  /\ Sendable /\ (\A col \in checked : CommentOf[col].bracket = Plain)
       => IsInjective(columns) /\ Range(columns) = checked

\* The list of headers neither: each text is there as often as a checked box gives it.
\* Every column of the result is under the comment of a checked box that gives it, up to
\* the first comma in a comment, unless boxes of the table give equal headers for
\* different names or the other way round: removeByValue takes the first of equal values,
\* and then it takes them from different places of the two lists.
Distinct ==
  \A c, d \in {col \in Boxes : Readable(col)} :
    extraHiveColumn(c) = extraHiveColumn(d) <=> extraHiveColumnAlias(c) = extraHiveColumnAlias(d)
HeadersFit ==
  /\ \A text \in Titled :
       Cardinality({i \in 1 .. Len(headers) : headers[i] = text})
         = Cardinality({col \in checked : Readable(col) /\ extraHiveColumnAlias(col) = text})
  /\ Distinct =>
       /\ Len(headers) = Len(columns)
       /\ \A i \in 1 .. Len(columns) :
            \E col \in checked : /\ columns[i] = extraHiveColumn(col)
                                /\ Title(i) \in {extraHiveColumnAlias(col), None}
=============================================================================
