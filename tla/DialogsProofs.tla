----------------------------- MODULE DialogsProofs -----------------------------
(***************************************************************************)
(* Proofs for Dialogs.  What a row, an answer or the form holds under a    *)
(* key was written for that key: on the pages where the key comes with the *)
(* answer, the two are filled together.  On the other pages the form keeps *)
(* the key of the last click, so key and content may part, but a submit    *)
(* touches no other row.                                                   *)
(***************************************************************************)
EXTENDS Dialogs, TLAPS

\* The pages that fill key and content together.
Together == kind \in {"user", "storage"}
Of(i, text) == text.of \in {i, Nobody}

ContentInv ==
  Together => /\ \A i \in Ids : rows[i] # Gone => Of(i, rows[i])
              /\ \A s \in Slots : flight[s] # Idle /\ Usable(flight[s].answer) =>
                                    Of(flight[s].id, flight[s].answer)
              /\ Of(form.id, form.text)
AimInv == ~Together => form.id = aim
TInv == TypeOK /\ ContentInv /\ AimInv

\* A page begins empty.
LEMMA InitTInv == ASSUME ConstantsOK PROVE Init => TInv
  BY DEF Init, TInv, TypeOK, ContentInv, AimInv, Of, Empty, Forms, Texts, Text, Blank, Tags,
         Idle, ConstantsOK, Gone

\* What a form holds is text that a row may hold.
LEMMA FormText ==
  ASSUME ConstantsOK, TypeOK
  PROVE  /\ form.text \in Texts /\ form.id \in Ids \cup {Nobody} /\ form.tag \in Tags
         /\ Blank \in Texts /\ Typed \in Texts /\ Empty \in Forms
         /\ \A i \in Ids : Text(i, 0) \in Texts
         /\ Nobody \notin Ids
  BY DEF TypeOK, Forms, ConstantsOK, Blank, Typed, Empty, Texts, Text, Tags

\* A click.
LEMMA ClickTInv ==
  ASSUME ConstantsOK, TInv, NEW i \in Ids, NEW tag \in Tags, Click(i, tag)
  PROVE  TInv'
<1>1. PICK s \in Slots : flight' = [flight EXCEPT ![s] = [id |-> i, answer |-> Asked]]
  BY DEF Click
<1>2. /\ form' = Opened(i, tag) /\ aim' = i /\ dialog' = "modify"
      /\ UNCHANGED <<kind, rows, listed>>
  BY DEF Click
<1>3. Opened(i, tag) \in Forms
  BY FormText DEF TInv, TypeOK, Opened, OpenTask, OpenQuartz, OpenUser, OpenStorage, Forms
<1>4. [id |-> i, answer |-> Asked] \in Requests
  BY DEF Requests
<1>5. TypeOK'
  BY <1>1, <1>2, <1>3, <1>4 DEF TInv, TypeOK
<1>6. ContentInv'
  <2>1. Together' => form' = form
    BY <1>2 DEF Together, Opened, OpenUser, OpenStorage, TInv, TypeOK
  <2> QED
    BY <1>1, <1>2, <2>1 DEF TInv, TypeOK, ContentInv, Together, Of, Usable, Asked
<1>7. AimInv'
  <2>1. ~Together' => kind = "task" \/ kind = "quartz"
    BY <1>2 DEF Together, TInv, TypeOK, ConstantsOK
  <2> QED
    BY <1>2, <2>1 DEF AimInv, Opened, OpenTask, OpenQuartz, TInv, TypeOK, Forms
<1> QED
  BY <1>5, <1>6, <1>7 DEF TInv

\* What the user types.
LEMMA TypeTInv ==
  ASSUME ConstantsOK, TInv, Type
  PROVE  TInv'
<1>1. UNCHANGED <<kind, rows, listed, dialog, flight, aim>>
  BY DEF Type
<1>2. PICK t \in Texts : form' = [form EXCEPT !.text = t] /\ t.of \in {form.text.of, Nobody}
  <2>1. CASE form.text.rev < MaxRev /\ form' = [form EXCEPT !.text.rev = @ + 1]
    <3> DEFINE t == [form.text EXCEPT !.rev = @ + 1]
    <3>1. t \in Texts /\ t.of = form.text.of
      BY <2>1, FormText DEF TInv, Texts, ConstantsOK
    <3>2. form' = [form EXCEPT !.text = t]
      BY <2>1 DEF TInv, TypeOK, Forms
    <3> QED  BY <3>1, <3>2
  <2>2. CASE form' = [form EXCEPT !.text = Typed]
    BY <2>2, FormText DEF TInv, Typed, Text
  <2> QED
    BY <2>1, <2>2 DEF Type
<1>3. form' \in Forms /\ form'.id = form.id /\ form'.text = t
  BY <1>2 DEF TInv, TypeOK, Forms
<1> QED
  BY <1>1, <1>2, <1>3 DEF TInv, TypeOK, ContentInv, AimInv, Together, Of

\* A submit changes the row of the form, and a row of that page at most with what
\* the form holds.
LEMMA SavedRow ==
  ASSUME ConstantsOK, TInv, Submit
  PROVE  /\ rows' \in [Ids -> Texts \cup {Gone}]
         /\ \A i \in Ids : \/ rows'[i] = rows[i]
                           \/ rows'[i] = Gone
                           \/ i = form.id /\ rows'[i] = form.text
                           \/ kind = "storage" /\ rows'[i] = Text(i, 0)
         /\ ~Together => \A i \in Ids : i # form.id => rows'[i] = rows[i]
<1> USE FormText
<1>1. CASE kind = "storage" /\ form.id = Nobody
  <2>1. PICK n \in New : rows' = [rows EXCEPT ![n] = Text(n, 0)]
    BY <1>1 DEF Submit, Saved, SaveStorage
  <2> QED
    BY <1>1, <2>1 DEF TInv, TypeOK, ConstantsOK, Together
<1>2. CASE ~(kind = "storage" /\ form.id = Nobody)
  <2>1. rows' = Saved(Nobody)
    BY <1>2 DEF Submit
  <2>2. CASE kind = "storage"
    <3>1. form.id \in Ids /\ rows' = [rows EXCEPT ![form.id] = form.text]
      BY <1>2, <2>1, <2>2 DEF Saved, SaveStorage, TInv
    <3> QED
      BY <2>2, <3>1 DEF TInv, TypeOK, Together
  <2>3. CASE kind # "storage" /\ form.id = Nobody
    BY <2>1, <2>3 DEF Saved, TInv, TypeOK
  <2>4. CASE kind # "storage" /\ form.id # Nobody
    BY <2>1, <2>4 DEF Saved, SaveTask, SaveQuartz, SaveUser, TInv, TypeOK
  <2> QED  BY <2>2, <2>3, <2>4
<1> QED  BY <1>1, <1>2

\* An empty page.
LEMMA EmptiedTInv ==
  ASSUME ConstantsOK, TInv, Emptied, listed' \subseteq Ids,
         rows' \in [Ids -> Texts \cup {Gone}],
         Together => \A i \in Ids : rows'[i] # Gone => Of(i, rows'[i])
  PROVE  TInv'
  BY FormText DEF Emptied, TInv, TypeOK, ContentInv, AimInv, Together, Of, Empty, Blank, Text

\* A submit.
LEMMA SubmitTInv ==
  ASSUME ConstantsOK, TInv, Submit
  PROVE  TInv'
<1>1. Emptied /\ listed' \subseteq Ids
  BY DEF Submit
<1>2. Together => \A i \in Ids : rows'[i] # Gone => Of(i, rows'[i])
  <2>1. ASSUME Together, NEW i \in Ids, rows'[i] # Gone
        PROVE  Of(i, rows'[i])
    <3>1. CASE rows'[i] = rows[i]
      BY <2>1, <3>1 DEF TInv, ContentInv
    <3>2. CASE i = form.id /\ rows'[i] = form.text
      BY <2>1, <3>2 DEF TInv, ContentInv
    <3>3. CASE rows'[i] = Text(i, 0)
      BY <3>3 DEF Of, Text
    <3> QED
      BY <2>1, <3>1, <3>2, <3>3, SavedRow
  <2> QED
    BY <2>1
<1> QED
  BY <1>1, <1>2, SavedRow, EmptiedTInv

\* The rows of other users.
LEMMA OthersTInv ==
  ASSUME ConstantsOK, TInv, NEW i \in Ids, OtherEdits(i) \/ OtherDeletes(i)
  PROVE  TInv'
<1>1. /\ UNCHANGED <<kind, listed, dialog, form, flight, aim>> /\ rows[i] # Gone
  BY DEF OtherEdits, OtherDeletes
<1>2. PICK r \in Texts \cup {Gone} : /\ rows' = [rows EXCEPT ![i] = r]
                                     /\ r # Gone => r.of = rows[i].of
  <2>1. CASE OtherEdits(i)
    <3> DEFINE r == [rows[i] EXCEPT !.rev = @ + 1]
    <3>1. rows[i] \in Texts /\ rows[i].rev < MaxRev
      BY <1>1, <2>1 DEF TInv, TypeOK, OtherEdits
    <3>2. r \in Texts /\ r.of = rows[i].of
      BY <3>1 DEF Texts, ConstantsOK
    <3>3. rows' = [rows EXCEPT ![i] = r]
      BY <2>1 DEF OtherEdits, TInv, TypeOK
    <3> QED  BY <3>2, <3>3
  <2>2. CASE OtherDeletes(i)
    BY <2>2 DEF OtherDeletes
  <2> QED
    BY <2>1, <2>2
<1> QED
  BY <1>1, <1>2 DEF TInv, TypeOK, ContentInv, AimInv, Together, Of

\* A row is read, or an answer is lost.
LEMMA ServeTInv ==
  ASSUME ConstantsOK, TInv, NEW s \in Slots, Serve(s) \/ Lose(s)
  PROVE  TInv'
<1>1. UNCHANGED <<kind, rows, listed, dialog, form, aim>>
  BY DEF Serve, Lose
<1>2. PICK f \in Requests \cup {Idle} :
        /\ flight' = [flight EXCEPT ![s] = f]
        /\ f # Idle => f.id \in Ids /\ f.answer = rows[f.id]
  <2>1. CASE Serve(s)
    <3> DEFINE f == [flight[s] EXCEPT !.answer = rows[flight[s].id]]
    <3>1. flight[s] \in Requests
      BY <2>1 DEF Serve, TInv, TypeOK
    <3>2. rows[flight[s].id] \in Texts \cup {Gone}
      BY <3>1 DEF Requests, TInv, TypeOK
    <3>3. f \in Requests /\ f.id \in Ids /\ f.answer = rows[f.id]
      BY <3>1, <3>2 DEF Requests
    <3>4. flight' = [flight EXCEPT ![s] = f]
      BY <2>1 DEF Serve, TInv, TypeOK
    <3> QED  BY <3>3, <3>4
  <2>2. CASE Lose(s)
    BY <2>2 DEF Lose
  <2> QED
    BY <2>1, <2>2
<1>3. TypeOK'
  BY <1>1, <1>2 DEF TInv, TypeOK
<1>4. ContentInv'
  BY <1>1, <1>2 DEF TInv, TypeOK, ContentInv, Together, Of, Usable
<1> QED
  BY <1>1, <1>3, <1>4 DEF TInv, AimInv, Together

\* An answer fills the form.
LEMMA AnswerTInv ==
  ASSUME ConstantsOK, TInv, NEW s \in Slots, Answer(s)
  PROVE  TInv'
<1> DEFINE i == flight[s].id
           a == flight[s].answer
<1>1. i \in Ids /\ a \in Texts /\ Usable(a)
  BY DEF Answer, TInv, TypeOK, Requests, Usable
<1>2. /\ form' = Filled(i, a) /\ flight' = [flight EXCEPT ![s] = Idle]
      /\ UNCHANGED <<kind, rows, listed, dialog, aim>>
  BY DEF Answer
<1>3. /\ form' \in Forms /\ form'.text = a
      /\ form'.id = IF Together THEN i ELSE form.id
  BY <1>1, <1>2 DEF Filled, FillTask, FillQuartz, FillUser, FillStorage, Together, TInv, TypeOK,
                    Forms, ConstantsOK
<1>4. Together => Of(i, a)
  BY <1>1 DEF TInv, ContentInv, Answer
<1> HIDE DEF i, a
<1>5. TypeOK'
  BY <1>2, <1>3 DEF TInv, TypeOK
<1>6. ContentInv'
  BY <1>2, <1>3, <1>4 DEF TInv, TypeOK, ContentInv, Together, Of
<1> QED
  BY <1>2, <1>3, <1>5, <1>6 DEF TInv, AimInv, Together

\* Every action of the page and of other users keeps the invariant.
LEMMA NextTInv ==
  ASSUME ConstantsOK, TInv, [Next]_dialogVars
  PROVE  TInv'
<1>1. CASE UNCHANGED dialogVars
  BY <1>1 DEF dialogVars, TInv, TypeOK, ContentInv, AimInv, Together, Of, Usable
<1>2. CASE ClickAdd \/ Close
  BY <1>2 DEF ClickAdd, Close, TInv, TypeOK, ContentInv, AimInv, Together, Of, Usable
<1>3. CASE Reload
  <2>1. Together => \A i \in Ids : rows'[i] # Gone => Of(i, rows'[i])
    BY <1>3 DEF Reload, TInv, ContentInv
  <2> QED
    BY <1>3, <2>1, EmptiedTInv DEF Reload, Present, TInv, TypeOK
<1> QED
  BY <1>1, <1>2, <1>3, ClickTInv, TypeTInv, SubmitTInv, OthersTInv, ServeTInv, AnswerTInv DEF Next
-----------------------------------------------------------------------------
\* The invariant holds of every behaviour.
LEMMA Inductive == ASSUME ConstantsOK PROVE Spec => []TInv
  BY InitTInv, NextTInv, PTL DEF Spec

\* Every variable of Dialogs has its type.
THEOREM DialogsTypeCorrect == ASSUME ConstantsOK PROVE Spec => []TypeOK
<1>1. TInv => TypeOK
  BY DEF TInv
<1> QED
  BY <1>1, Inductive, PTL

\* On the pages of users and servers no row ever takes the content of another one,
\* with any number of rows, of requests under way and of edits.
THEOREM ContentStaysHolds == ASSUME ConstantsOK PROVE Spec => []ContentStays
<1>1. TInv => ContentStays
  BY DEF TInv, ContentInv, ContentStays, Present, Together, Of
<1> QED
  BY <1>1, Inductive, PTL

\* On the pages of tasks a submit changes the row of the last click only.
THEOREM AimKeptHolds == ASSUME ConstantsOK PROVE Spec => AimKept
<1>1. ASSUME TInv, [Next]_dialogVars, kind \in {"task", "quartz"}, Submit, NEW i \in Ids, i # aim
      PROVE  rows'[i] = rows[i]
  <2>1. form.id = aim /\ ~Together
    BY <1>1 DEF TInv, AimInv, Together
  <2> QED
    BY <1>1, <2>1, SavedRow
<1>2. TInv /\ [Next]_dialogVars =>
        [(kind \in {"task", "quartz"} /\ Submit) =>
            \A i \in Ids : i # aim => rows'[i] = rows[i]]_dialogVars
  BY <1>1
<1> QED
  BY <1>2, Inductive, PTL DEF Spec, AimKept
=============================================================================
