------------------------------- MODULE Dialogs -------------------------------
(***************************************************************************)
(* The dialogs of the web pages: a click on a row of a listing opens a     *)
(* dialog and asks the server for the row; the answer, which may come late *)
(* or never, fills the form; a submit saves the form and loads the page    *)
(* anew.  A closed dialog keeps its form, and one dialog serves all rows.  *)
(* Other users edit and delete the same rows.                              *)
(*                                                                         *)
(* A page is of one kind: the content of tasks (four pages), the time of   *)
(* automatic tasks (two pages), users, MySQL servers.                      *)
(***************************************************************************)
EXTENDS Integers, FiniteSets

CONSTANTS
  Ids,        \* keys of the rows
  New,        \* keys auto_increment has not handed out yet
  Nobody,
  Kinds,      \* the pages
  Slots,      \* bound: requests of the browser under way
  MaxRev      \* bound: changes of one row

ConstantsOK == /\ New \subseteq Ids /\ Nobody \notin Ids
               /\ Kinds \subseteq {"task", "quartz", "user", "storage"}
               /\ MaxRev \in Nat \ {0}

\* What a form or a row holds: whose content it is, and which version of it.
Texts == [of : Ids \cup {Nobody}, rev : 0 .. MaxRev]
Text(of, rev) == [of |-> of, rev |-> rev]
Blank == Text(Nobody, 0)
Typed == Text(Nobody, 1)
Gone == [of |-> Nobody, rev |-> -1]
Asked == [of |-> Nobody, rev |-> -2]

Tags == {"modify", "stop", "start", "delete", "cancle"}
Forms == [id : Ids \cup {Nobody}, text : Texts, tag : Tags]
Empty == [id |-> Nobody, text |-> Blank, tag |-> "modify"]
Requests == [id : Ids, answer : Texts \cup {Gone, Asked}]
Idle == [id |-> Nobody]

VARIABLES
  kind,     \* the page
  rows,     \* the table
  listed,   \* the rows the page lists
  dialog,   \* "closed", or the button that opened it: "modify" or "add"
  form,     \* the inputs of the dialog, hidden ones included
  flight,   \* requests of the page under way
  aim       \* history: the row of the last click since the page was loaded

dialogVars == <<kind, rows, listed, dialog, form, flight, aim>>

Present == {i \in Ids : rows[i] # Gone}

Init ==
  /\ kind \in Kinds
  /\ rows = [i \in Ids |-> IF i \in New THEN Gone ELSE Text(i, 0)]
  /\ listed = Ids \ New
  /\ dialog = "closed"
  /\ form = Empty
  /\ flight = [s \in Slots |-> Idle]
  /\ aim = Nobody
-----------------------------------------------------------------------------
\* What a click puts into the form before it asks the server.

OpenTask(i) == [form EXCEPT !.id = i]

OpenQuartz(i, tag) ==
  [form EXCEPT !.id = i, !.tag = tag, !.text = IF tag = "delete" THEN Typed ELSE @]

\* Mutant: the key does not wait for the answer.
OpenUserKeyed(i) == [form EXCEPT !.id = i]
OpenUser(i) == form

OpenStorage(i) == form

Opened(i, tag) ==
  CASE kind = "task" -> OpenTask(i)
    [] kind = "quartz" -> OpenQuartz(i, tag)
    [] kind = "user" -> OpenUser(i)
    [] OTHER -> OpenStorage(i)

\* What a successful answer puts into it.

\* Mutant: the key comes with the answer.
FillTaskKeyed(i, answer) == [form EXCEPT !.id = i, !.text = answer]
FillTask(i, answer) == [form EXCEPT !.text = answer]

FillQuartz(i, answer) == [form EXCEPT !.text = answer]

FillUser(i, answer) == [form EXCEPT !.id = i, !.text = answer]

FillStorage(i, answer) == [form EXCEPT !.id = i, !.text = answer]

Filled(i, answer) ==
  CASE kind = "task" -> FillTask(i, answer)
    [] kind = "quartz" -> FillQuartz(i, answer)
    [] kind = "user" -> FillUser(i, answer)
    [] OTHER -> FillStorage(i, answer)
-----------------------------------------------------------------------------
\* The user.

Click(i, tag) ==
  /\ dialog = "closed"
  /\ i \in listed
  /\ kind # "quartz" => tag = "modify"
  /\ \E s \in Slots : /\ flight[s] = Idle
                      /\ flight' = [flight EXCEPT ![s] = [id |-> i, answer |-> Asked]]
  /\ dialog' = "modify"
  /\ form' = Opened(i, tag)
  /\ aim' = i
  /\ UNCHANGED <<kind, rows, listed>>

\* The page of the MySQL servers has one dialog for a new server and for an old one.
ClickAdd ==
  /\ kind = "storage"
  /\ dialog = "closed"
  /\ dialog' = "add"
  /\ aim' = Nobody
  /\ UNCHANGED <<kind, rows, listed, form, flight>>

Close ==
  /\ dialog # "closed"
  /\ dialog' = "closed"
  /\ UNCHANGED <<kind, rows, listed, form, flight, aim>>

\* An edit of what the dialog shows, or new content in its place.
Type ==
  /\ dialog # "closed"
  /\ \/ /\ dialog = "modify" /\ form.text # Blank /\ form.text.rev < MaxRev
        /\ form' = [form EXCEPT !.text.rev = @ + 1]
     \/ form' = [form EXCEPT !.text = Typed]
  /\ UNCHANGED <<kind, rows, listed, dialog, flight, aim>>

\* contextFormValid; the automatic pages call contextFormValidQuartz, and the page
\* of the users contextModifyFormValid, which they do not define: the exception
\* does not stop the submit.
Valid == kind \in {"task", "storage"} => form.text # Blank
-----------------------------------------------------------------------------
\* The server.

\* modifyTaskContentByParams: an UPDATE.
SaveTask == IF rows[form.id] = Gone THEN rows ELSE [rows EXCEPT ![form.id] = form.text]

\* updateScheduler: a REPLACE, and the types that end with a DELETE.
SaveQuartz == [rows EXCEPT ![form.id] = IF form.tag \in {"delete", "cancle"} THEN Gone ELSE form.text]

\* An UPDATE.
SaveUser == IF rows[form.id] = Gone THEN rows ELSE [rows EXCEPT ![form.id] = form.text]

\* A REPLACE: with no id, auto_increment gives a new one.
SaveStorage(n) ==
  IF form.id = Nobody THEN [rows EXCEPT ![n] = Text(n, 0)] ELSE [rows EXCEPT ![form.id] = form.text]

\* A form without a key is refused, or has nothing to refer to.
Saved(n) ==
  IF kind = "storage" THEN SaveStorage(n)
  ELSE IF form.id = Nobody THEN rows
  ELSE CASE kind = "task" -> SaveTask
         [] kind = "quartz" -> SaveQuartz
         [] OTHER -> SaveUser

\* The page comes back empty; its requests die with the old one.
Emptied ==
  /\ dialog' = "closed"
  /\ form' = Empty
  /\ flight' = [s \in Slots |-> Idle]
  /\ aim' = Nobody
  /\ UNCHANGED kind

Submit ==
  /\ dialog # "closed"
  /\ Valid
  /\ IF kind = "storage" /\ form.id = Nobody
     THEN \E n \in New : rows[n] = Gone /\ rows' = Saved(n)
     ELSE rows' = Saved(Nobody)
  /\ listed' = {i \in Ids : rows'[i] # Gone}
  /\ Emptied

Reload ==
  /\ listed' = Present
  /\ Emptied
  /\ UNCHANGED rows

\* The row is read.
Serve(s) ==
  /\ flight[s] # Idle /\ flight[s].answer = Asked
  /\ flight' = [flight EXCEPT ![s].answer = rows[flight[s].id]]
  /\ UNCHANGED <<kind, rows, listed, dialog, form, aim>>

\* Mutant: a row that is gone comes back as an answer like any other.
UsableAny(answer) == answer # Asked
Usable(answer) == answer \notin {Asked, Gone}

\* The success callback: the dialog may have been closed, and opened for another row.
Answer(s) ==
  /\ flight[s] # Idle /\ Usable(flight[s].answer)
  /\ form' = Filled(flight[s].id, flight[s].answer)
  /\ flight' = [flight EXCEPT ![s] = Idle]
  /\ UNCHANGED <<kind, rows, listed, dialog, aim>>

\* A request that fails, as it does when the row is gone: there is no error callback.
Lose(s) ==
  /\ flight[s] # Idle
  /\ flight' = [flight EXCEPT ![s] = Idle]
  /\ UNCHANGED <<kind, rows, listed, dialog, form, aim>>

\* Other users.
OtherEdits(i) ==
  /\ rows[i] # Gone /\ rows[i].rev < MaxRev
  /\ rows' = [rows EXCEPT ![i].rev = @ + 1]
  /\ UNCHANGED <<kind, listed, dialog, form, flight, aim>>

OtherDeletes(i) ==
  /\ rows[i] # Gone
  /\ rows' = [rows EXCEPT ![i] = Gone]
  /\ UNCHANGED <<kind, listed, dialog, form, flight, aim>>
-----------------------------------------------------------------------------
Next ==
  \/ \E i \in Ids : OtherEdits(i) \/ OtherDeletes(i) \/ \E tag \in Tags : Click(i, tag)
  \/ ClickAdd \/ Close \/ Type \/ Submit \/ Reload
  \/ \E s \in Slots : Serve(s) \/ Answer(s) \/ Lose(s)

Spec == Init /\ [][Next]_dialogVars
-----------------------------------------------------------------------------
\* Every variable has its type.
TypeOK ==
  /\ kind \in Kinds
  /\ rows \in [Ids -> Texts \cup {Gone}]
  /\ listed \subseteq Ids
  /\ dialog \in {"closed", "modify", "add"}
  /\ form \in Forms
  /\ flight \in [Slots -> Requests \cup {Idle}]
  /\ aim \in Ids \cup {Nobody}

\* On the pages of users and servers no row ever takes the content of another
\* one: whatever the order in which the answers to several clicks arrive, lost
\* ones included, what is saved under a key is an edit of what the server once
\* gave for that key, or was typed anew.
ContentStays ==
  kind \in {"user", "storage"} => \A i \in Present : rows[i].of \in {i, Nobody}

\* On the pages of tasks a submit changes no other row than the one of the last
\* click, whatever answers to earlier clicks come in between.
AimKept ==
  [][(kind \in {"task", "quartz"} /\ Submit) =>
        \A i \in Ids : i # aim => rows'[i] = rows[i]]_dialogVars
=============================================================================
