---------------------------- MODULE ResourcePagesProofs ----------------------------
(* Proofs about ResourcePages, for any catalogue of behaviours, any rows and contents and
   any number of requests and turns.                                                  *)
EXTENDS ResourcePages, FiniteSetTheorems, TLAPS

--------------------------------------------------------------------------------
(* The form instance. *)

Ids == Rows \cup {New}

\* The behaviours keep their record type.
HowType == how \in Behaviour

LEMMA HowIsBehaviour == how \in Behaviours => HowType
BY PageAssumption DEF HowType

\* A form mounted anew, or reset, is a form.
LEMMA FreshType ==
  ASSUME NEW row \in Ids, NEW seen \in Stored
  PROVE  Fresh(row, seen) \in Instances
BY PageAssumption DEF Fresh, Instances, Ids

LEMMA ResetType ==
  ASSUME NEW f \in Instances, NEW row \in Ids, NEW seen \in Stored
  PROVE  /\ Reset(f, row, seen) \in Instances
         /\ Reset(f, row, seen).sending = f.sending
         /\ Reset(f, row, seen).for = row
         /\ Reset(f, row, seen).base = seen /\ Reset(f, row, seen).shown = seen
         /\ Reset(f, row, seen).typed = FALSE
BY DEF Reset, Instances, Ids

\* An answer leaves a form a form: only its pending request changes.
LEMMA SettledType ==
  ASSUME NEW f \in Forms, NEW done
  PROVE  /\ Settled(f, done) \in Forms
         /\ f \in Instances => Settled(f, done) \in Instances
         /\ f \in Instances =>
              /\ Settled(f, done).for = f.for /\ Settled(f, done).base = f.base
              /\ Settled(f, done).shown = f.shown /\ Settled(f, done).typed = f.typed
              /\ f.sending \notin done => Settled(f, done).sending = f.sending
BY PageAssumption DEF Settled, Forms, Instances

LEMMA BlankStored == Blank \in Stored /\ Filled \in Stored /\ Values \subseteq Stored
BY DEF Stored

\* A closed sheet leaves a form, unless the page unmounts it.
LEMMA ClosedType ==
  ASSUME NEW f \in Forms
  PROVE  /\ Closed(f) \in Forms
         /\ f \in Instances /\ how.mount \notin {"whileOpen", "keyedOpen"} =>
              Closed(f) \in Instances
         /\ Closed(f) \in {NoForm, f, Fresh(New, Blank)}
         /\ Closed(f) = Fresh(New, Blank) \/ Closed(f) = f \/ Closed(f) = NoForm
<1>1. Fresh(New, Blank) \in Instances
  BY FreshType, BlankStored DEF Ids
<1>2. QED
  BY <1>1 DEF Closed, Forms

\* The form a sheet opens with.
LEMMA OpenedType ==
  ASSUME NEW row \in Ids, NEW seen \in Stored,
         how.mount \notin {"whileOpen", "keyedOpen"} => form \in Instances
  PROVE  Opened(row, seen) \in Instances
BY FreshType, ResetType DEF Opened

LEMMA MountedType ==
  /\ Mounted \in Forms
  /\ how.mount \notin {"whileOpen", "keyedOpen"} => Mounted \in Instances
<1>1. Fresh(New, Blank) \in Instances
  BY FreshType, BlankStored DEF Ids
<1>2. QED
  BY <1>1 DEF Mounted, Forms

\* The role form that follows its row stays a form, with its pending request.
LEMMA FollowedType ==
  ASSUME NEW new \in RowsType, NEW f \in Forms, sheet.row \in Ids, NEW g \in Followed(new, f)
  PROVE  /\ g \in Forms
         /\ f \in Instances => g \in Instances /\ g.sending = f.sending
         /\ how.mount # "followsRow" => g = f
         /\ g = f \/ (g \in Instances /\ g.shown = g.base /\ ~g.typed)
<1> DEFINE live == IF sheet.row \in Rows /\ new[sheet.row] # Absent THEN sheet.row ELSE New
           seen == IF live = New THEN Blank ELSE new[live]
<1>1. live \in Ids /\ seen \in Stored
  BY PageAssumption, BlankStored DEF RowsType, Ids
<1>2. g \in {f, Reset(f, live, seen)}
  BY DEF Followed
<1>3. f = NoForm \/ how.mount # "followsRow" => g = f
  BY DEF Followed
<1> HIDE DEF live, seen
<1>4. CASE g = f
  BY <1>4
<1>5. CASE g # f
  <2>1. f \in Instances /\ how.mount = "followsRow"
    BY <1>3, <1>5 DEF Forms
  <2>2. PICK row \in Ids, was \in Stored : g = Reset(f, row, was)
    BY <1>1, <1>2, <1>5
  <2>3. /\ g \in Instances /\ g.sending = f.sending
        /\ g.shown = was /\ g.base = was /\ g.typed = FALSE
    BY ONLY <2>1, <2>2, ResetType, ZenonT(60)
  <2>4. QED
    BY <2>1, <2>3 DEF Forms
<1>6. QED
  BY <1>4, <1>5

LEMMA SentType ==
  ASSUME NEW f \in Instances, NEW kind
  PROVE  Sent(f, kind) \in Stored \cup {Omitted}
BY BlankStored DEF Sent, Instances

--------------------------------------------------------------------------------
(* Type correctness.  Beside the types: a page on screen has the form its sheet shows, and
   the changes committed and still to come stay within their bound.                   *)

FormHere ==
  /\ here /\ how.mount \notin {"whileOpen", "keyedOpen"} => form \in Instances
  /\ sheet.open => here /\ form \in Instances

Unserved == {i \in Slots : saves[i].stage \in {"unsent", "sent", "read", "locked"}}
Counted == version + turns + Cardinality(Unserved) <= MaxVersion

TypeInv == TypeOK /\ FormHere /\ Counted

LEMMA SlotsCount == IsFiniteSet(Slots) /\ Cardinality(Slots) = MaxSaves
BY FS_Interval, PageAssumption DEF Slots

LEMMA UnservedCount == IsFiniteSet(Unserved) /\ Cardinality(Unserved) \in Nat
BY FS_Subset, FS_CardinalityType, SlotsCount DEF Unserved

\* A step that commits nothing keeps the count.
LEMMA CountKeeps ==
  ASSUME TypeInv, version' = version, turns' \in 0..turns, Unserved' \subseteq Unserved
  PROVE  Counted' /\ turns' \in 0..MaxTurns
<1>1. Cardinality(Unserved') <= Cardinality(Unserved) /\ Cardinality(Unserved') \in Nat
  BY FS_Subset, FS_CardinalityType, UnservedCount
<1>2. turns \in 0..MaxTurns /\ version \in Nat /\ MaxTurns \in Nat /\ MaxVersion \in Nat
  BY PageAssumption DEF TypeInv, TypeOK, MaxVersion
<1>3. QED
  BY <1>1, <1>2, UnservedCount DEF TypeInv, Counted, MaxVersion

LEMMA UnsentType == Unsent \in Requests /\ [Unsent EXCEPT !.stage = "over"] \in Requests
<1>1. 0 \in 0..MaxVersion
  BY PageAssumption DEF MaxVersion
<1>2. Unsent \in Requests
  BY <1>1, BlankStored DEF Unsent, Requests
<1>3. QED
  BY <1>2 DEF Requests

\* Requests may be over or orphaned by a step without a new one being sent.
LEMMA ContinueType ==
  ASSUME TypeInv, NEW done, Continue(done)
  PROVE  /\ saves' \in [Slots -> Requests] /\ Unserved' \subseteq Unserved
         /\ sheet' \in [open : BOOLEAN, row : Ids, listed : Stored]
         /\ dialog' \in Ids
         /\ sheet'.open => sheet.open
         /\ ContinuedForm(done) \in Forms
         /\ sheet'.open => ContinuedForm(done) = form
         /\ form \in Instances /\ how.mount \notin {"whileOpen", "keyedOpen"} =>
              ContinuedForm(done) \in Instances
<1>1. saves' \in [Slots -> Requests]
  BY UnsentType DEF Continue, TypeInv, TypeOK, Requests
<1>2. Unserved' \subseteq Unserved
  BY DEF Continue, Unserved, TypeInv, TypeOK, Unsent, Requests
<1>3. /\ sheet' \in [open : BOOLEAN, row : Ids, listed : Stored]
      /\ sheet'.open => sheet.open /\ ~Closes(done)
  BY DEF Continue, CloseSheet, TypeInv, TypeOK, Ids
<1>4. dialog' \in Ids
  BY DEF Continue, TypeInv, TypeOK, Ids
<1>5. form \in Forms
  BY DEF TypeInv, TypeOK
<1>6. /\ ContinuedForm(done) \in Forms
      /\ form \in Instances /\ how.mount \notin {"whileOpen", "keyedOpen"} =>
           ContinuedForm(done) \in Instances
  <2>1. /\ Settled(form, done) \in Forms
        /\ form \in Instances => Settled(form, done) \in Instances
    BY <1>5, SettledType
  <2>2. /\ Closed(Settled(form, done)) \in Forms
        /\ Settled(form, done) \in Instances /\ how.mount \notin {"whileOpen", "keyedOpen"} =>
             Closed(Settled(form, done)) \in Instances
    BY <2>1, ClosedType
  <2>3. QED
    BY <1>5, <2>1, <2>2 DEF ContinuedForm
<1>7. sheet'.open => ContinuedForm(done) = form
  BY <1>3 DEF ContinuedForm
<1>8. QED
  BY <1>1, <1>2, <1>3, <1>4, <1>6, <1>7

\* What a save asks of the server is a request.
LEMMA RequestType ==
  ASSUME TypeInv, NEW kind \in {"create", "update", "remove", "decide"}, NEW r \in Ids,
         NEW v \in Stored \cup {Omitted}, Request(kind, r, v)
  PROVE  saves' \in [Slots -> Requests] /\ Unserved' \subseteq Unserved
<1>1. PICK i \in Free : saves' = [saves EXCEPT ![i] =
        [Unsent EXCEPT !.stage = "sent", !.kind = kind, !.row = r, !.value = v]]
  BY DEF Request
<1>2. i \in Slots /\ saves[i].stage = "unsent"
  BY PageAssumption DEF Free, Slots
<1>3. [Unsent EXCEPT !.stage = "sent", !.kind = kind, !.row = r, !.value = v] \in Requests
  BY UnsentType DEF Requests, Ids
<1>4. QED
  BY <1>1, <1>2, <1>3 DEF TypeInv, TypeOK, Unserved

THEOREM TypeInit == Init => TypeInv
<1> SUFFICES ASSUME Init PROVE TypeInv
  OBVIOUS
<1>1. how \in Behaviours /\ rows \in RowsType /\ dialog \in Ids /\ here = TRUE
  BY PageAssumption, BlankStored DEF Init, RowsType, Stored, Ids
<1>2. /\ version = 0 /\ due = 0 /\ turns \in 0..MaxTurns
      /\ MaxVersion = MaxSaves + MaxTurns /\ MaxVersion \in Nat /\ 0 \in 0..MaxVersion
  BY PageAssumption DEF Init, MaxVersion
<1>3. list \in [rows : RowsType, at : 0..MaxVersion, loaded : BOOLEAN, stale : BOOLEAN, failed : BOOLEAN]
  BY <1>2 DEF Init, RowsType
<1>4. sheet \in [open : BOOLEAN, row : Rows \cup {New}, listed : Stored] /\ ~sheet.open
  BY BlankStored DEF Init
<1>5. saves \in [Slots -> Requests]
  BY UnsentType DEF Init
<1>6. TypeOK
  BY <1>1, <1>2, <1>3, <1>4, <1>5, MountedType DEF Init, TypeOK, Fetches, Ids
<1>7. FormHere
  BY <1>4, MountedType DEF Init, FormHere
<1>8. Counted
  <2>1. Cardinality(Unserved) <= MaxSaves
    BY FS_Subset, SlotsCount DEF Unserved
  <2>2. QED
    BY <1>2, <2>1, UnservedCount, PageAssumption DEF Counted
<1>9. QED
  BY <1>6, <1>7, <1>8 DEF TypeInv

\* The list and the requests that read it.
LEMMA ListSteps ==
  ASSUME TypeInv, FetchRead \/ FetchAnswer \/ FetchFails \/ Refetch
  PROVE  TypeInv'
<1>1. CASE FetchRead
  <2>1. TypeOK'
    BY <1>1 DEF FetchRead, TypeInv, TypeOK, Fetches
  <2>2. FormHere' /\ Unserved' = Unserved /\ turns' = turns /\ version' = version
    BY <1>1 DEF FetchRead, TypeInv, FormHere, Unserved
  <2>3. QED
    BY <2>1, <2>2 DEF TypeInv, Counted
<1>2. CASE FetchAnswer
  <2>1. fetch.rows \in RowsType /\ fetch.at \in 0..MaxVersion /\ sheet.row \in Ids
    BY <1>2 DEF FetchAnswer, TypeInv, TypeOK, Fetches, Ids
  <2>2. /\ saves' \in [Slots -> Requests] /\ Unserved' \subseteq Unserved
        /\ sheet' \in [open : BOOLEAN, row : Ids, listed : Stored]
        /\ dialog' \in Ids
        /\ sheet'.open => sheet.open
        /\ ContinuedForm(Settling) \in Forms
        /\ sheet'.open => ContinuedForm(Settling) = form
        /\ form \in Instances /\ how.mount \notin {"whileOpen", "keyedOpen"} =>
             ContinuedForm(Settling) \in Instances
    BY <1>2, ContinueType DEF FetchAnswer
  <2>3. /\ form' \in Forms
        /\ ContinuedForm(Settling) \in Instances => form' \in Instances
    BY <1>2, <2>1, <2>2, FollowedType DEF FetchAnswer
  <2>4. /\ UNCHANGED <<how, rows, version, due, here, turns>>
        /\ list' = [rows |-> fetch.rows, at |-> fetch.at,
                   loaded |-> TRUE, stale |-> FALSE, failed |-> FALSE]
        /\ fetch' \in {Idle, Asked}
    BY <1>2 DEF FetchAnswer, ContinuedFetch
  <2>5. TypeOK'
    BY <2>1, <2>2, <2>3, <2>4 DEF TypeInv, TypeOK, Fetches, Ids
  <2>6. FormHere'
    BY <2>2, <2>3, <2>4 DEF TypeInv, FormHere
  <2>7. Counted'
    BY <2>2, <2>4, CountKeeps DEF TypeInv, TypeOK
  <2>8. QED
    BY <2>5, <2>6, <2>7 DEF TypeInv
<1>3. CASE FetchFails
  <2>1. /\ saves' \in [Slots -> Requests] /\ Unserved' \subseteq Unserved
        /\ sheet' \in [open : BOOLEAN, row : Ids, listed : Stored]
        /\ dialog' \in Ids
        /\ sheet'.open => sheet.open
        /\ ContinuedForm(Settling) \in Forms
        /\ sheet'.open => ContinuedForm(Settling) = form
        /\ form \in Instances /\ how.mount \notin {"whileOpen", "keyedOpen"} =>
             ContinuedForm(Settling) \in Instances
    BY <1>3, ContinueType DEF FetchFails
  <2>2. /\ UNCHANGED <<how, rows, version, due, here>>
        /\ form' = ContinuedForm(Settling)
        /\ fetch' \in {Idle, Asked}
        /\ turns' \in 0..turns /\ turns' \in 0..MaxTurns
    BY <1>3, PageAssumption DEF FetchFails, ContinuedFetch, TypeInv, TypeOK
  <2>3. list' \in [rows : RowsType, at : 0..MaxVersion, loaded : BOOLEAN, stale : BOOLEAN,
                  failed : BOOLEAN]
    BY <1>3 DEF FetchFails, TypeInv, TypeOK
  <2>4. TypeOK'
    BY <2>1, <2>2, <2>3 DEF TypeInv, TypeOK, Fetches, Ids
  <2>5. FormHere'
    BY <2>1, <2>2 DEF TypeInv, FormHere
  <2>6. Counted'
    BY <2>1, <2>2, CountKeeps
  <2>7. QED
    BY <2>4, <2>5, <2>6 DEF TypeInv
<1>4. CASE Refetch
  <2>1. TypeOK'
    BY <1>4 DEF Refetch, TypeInv, TypeOK, Fetches
  <2>2. FormHere' /\ Unserved' = Unserved /\ turns' = turns /\ version' = version
    BY <1>4 DEF Refetch, TypeInv, FormHere, Unserved
  <2>3. QED
    BY <2>1, <2>2 DEF TypeInv, Counted
<1>5. QED
  BY <1>1, <1>2, <1>3, <1>4

\* The sheet and the form.
LEMMA SheetSteps ==
  ASSUME TypeInv,
         \/ \E r \in Ids : OpenSheet(r)
         \/ \E v \in Values \cup {Blank} : Type(v)
         \/ CancelSheet \/ Submit \/ NothingToSave
  PROVE  TypeInv'
<1>1. ASSUME NEW r \in Ids, OpenSheet(r) PROVE TypeInv'
  <2> DEFINE seen == IF r = New \/ how.field = "unsent" THEN Blank ELSE list.rows[r]
  <2>1. seen \in Stored
    <3>1. CASE r = New \/ how.field = "unsent"
      BY <3>1, BlankStored
    <3>2. CASE ~(r = New \/ how.field = "unsent")
      BY <1>1, <3>2 DEF OpenSheet, Listed, TypeInv, TypeOK, RowsType, Ids
    <3>3. QED
      BY <3>1, <3>2
  <2>2. /\ here /\ sheet' = [open |-> TRUE, row |-> r, listed |-> seen]
        /\ form' = Opened(r, seen)
        /\ UNCHANGED <<how, rows, version, list, fetch, due, here, dialog, saves, turns>>
    BY <1>1 DEF OpenSheet
  <2> HIDE DEF seen
  <2>3. form' \in Instances
    BY <2>1, <2>2, OpenedType DEF TypeInv, FormHere
  <2>4. TypeOK'
    BY <2>1, <2>2, <2>3 DEF TypeInv, TypeOK, Forms, Ids
  <2>5. FormHere' /\ Unserved' = Unserved
    BY <2>2, <2>3 DEF TypeInv, FormHere, Unserved
  <2>6. QED
    BY <2>2, <2>4, <2>5 DEF TypeInv, Counted
<1>2. ASSUME NEW v \in Values \cup {Blank}, Type(v) PROVE TypeInv'
  <2>1. form \in Instances /\ v \in Stored
    BY <1>2, BlankStored DEF Type, TypeInv, FormHere
  <2>2. form' \in Instances
    BY <1>2, <2>1 DEF Type, Instances
  <2>3. UNCHANGED <<how, rows, version, list, fetch, due, here, sheet, dialog, saves, turns>>
    BY <1>2 DEF Type
  <2>4. TypeOK' /\ FormHere' /\ Unserved' = Unserved
    BY <2>2, <2>3 DEF TypeInv, TypeOK, FormHere, Forms, Unserved
  <2>5. QED
    BY <2>3, <2>4 DEF TypeInv, Counted
<1>3. ASSUME CancelSheet PROVE TypeInv'
  <2>1. /\ UNCHANGED <<how, rows, version, list, due, here, dialog, turns>>
        /\ form' = Closed(form) /\ fetch' \in {fetch, Asked}
    BY <1>3 DEF CancelSheet
  <2>2. sheet' \in [open : BOOLEAN, row : Ids, listed : Stored] /\ ~sheet'.open
    BY <1>3 DEF CancelSheet, CloseSheet, TypeInv, TypeOK, Ids
  <2>3. saves' \in [Slots -> Requests] /\ Unserved' \subseteq Unserved
    BY <1>3 DEF CancelSheet, TypeInv, TypeOK, Requests, Unserved
  <2>4. form' \in Forms /\ (here /\ how.mount \notin {"whileOpen", "keyedOpen"} => form' \in Instances)
    BY <2>1, ClosedType DEF TypeInv, TypeOK, FormHere
  <2>5. TypeOK' /\ FormHere'
    BY <2>1, <2>2, <2>3, <2>4 DEF TypeInv, TypeOK, FormHere, Fetches, Ids
  <2>6. Counted'
    BY <2>1, <2>3, CountKeeps DEF TypeInv, TypeOK
  <2>7. QED
    BY <2>5, <2>6 DEF TypeInv
<1>4. ASSUME Submit PROVE TypeInv'
  <2> DEFINE kind == IF Target = New THEN "create" ELSE "update"
  <2>1. PICK i \in Free :
          /\ saves' = [saves EXCEPT ![i] =
               [Unsent EXCEPT !.stage = "sent", !.kind = kind, !.row = Target,
                  !.value = Sent(form, kind), !.shown = form.shown, !.typed = Touched(form)]]
          /\ form' = [form EXCEPT !.sending = i]
    BY <1>4 DEF Submit
  <2>2. i \in Slots /\ saves[i].stage = "unsent" /\ i \in 0..MaxSaves
    BY PageAssumption DEF Free, Slots
  <2>3. /\ form \in Instances
        /\ UNCHANGED <<how, rows, version, list, fetch, due, here, sheet, dialog, turns>>
    BY <1>4 DEF Submit, TypeInv, FormHere
  <2>4. /\ Target \in Ids /\ kind \in {"create", "update"} /\ Touched(form) \in BOOLEAN
        /\ Sent(form, kind) \in Stored \cup {Omitted}
    BY <2>3, SentType DEF Target, Touched, TypeInv, TypeOK, Instances, Ids
  <2> HIDE DEF kind
  <2>5. [Unsent EXCEPT !.stage = "sent", !.kind = kind, !.row = Target, !.value = Sent(form, kind),
                       !.shown = form.shown, !.typed = Touched(form)] \in Requests
    BY <2>3, <2>4, UnsentType DEF Requests, Instances, Ids
  <2>6. saves' \in [Slots -> Requests] /\ Unserved' \subseteq Unserved
    BY <2>1, <2>2, <2>5 DEF TypeInv, TypeOK, Unserved
  <2>7. form' \in Instances
    BY <2>1, <2>2, <2>3 DEF Instances
  <2>8. TypeOK' /\ FormHere'
    BY <2>3, <2>6, <2>7 DEF TypeInv, TypeOK, FormHere, Forms
  <2>9. Counted'
    BY <2>3, <2>6, CountKeeps DEF TypeInv, TypeOK
  <2>10. QED
    BY <2>8, <2>9 DEF TypeInv
<1>5. ASSUME NothingToSave PROVE TypeInv'
  <2>1. /\ UNCHANGED <<how, rows, version, list, due, here, dialog, saves, turns>>
        /\ form' = Closed(form) /\ fetch' \in {fetch, Asked}
    BY <1>5 DEF NothingToSave
  <2>2. sheet' \in [open : BOOLEAN, row : Ids, listed : Stored] /\ ~sheet'.open
    BY <1>5 DEF NothingToSave, CloseSheet, TypeInv, TypeOK, Ids
  <2>3. form' \in Forms /\ (here /\ how.mount \notin {"whileOpen", "keyedOpen"} => form' \in Instances)
    BY <2>1, ClosedType DEF TypeInv, TypeOK, FormHere
  <2>4. TypeOK' /\ FormHere' /\ Unserved' = Unserved
    BY <2>1, <2>2, <2>3 DEF TypeInv, TypeOK, FormHere, Fetches, Ids, Unserved
  <2>5. QED
    BY <2>1, <2>4 DEF TypeInv, Counted
<1>6. QED
  BY <1>1, <1>2, <1>3, <1>4, <1>5

\* The buttons of a row.
LEMMA ButtonSteps ==
  ASSUME TypeInv,
         \/ \E r \in Rows : OpenDialog(r) \/ \E v \in Verdicts : Decide(r, v)
         \/ CloseDialog \/ ConfirmDialog
  PROVE  TypeInv'
<1>1. ASSUME NEW r \in Rows, OpenDialog(r) PROVE TypeInv'
  <2>1. TypeOK' /\ FormHere' /\ Unserved' = Unserved /\ turns' = turns /\ version' = version
    BY <1>1 DEF OpenDialog, TypeInv, TypeOK, FormHere, Unserved
  <2>2. QED
    BY <2>1 DEF TypeInv, Counted
<1>2. ASSUME CloseDialog PROVE TypeInv'
  <2>1. TypeOK' /\ FormHere' /\ Unserved' = Unserved /\ turns' = turns /\ version' = version
    BY <1>2 DEF CloseDialog, TypeInv, TypeOK, FormHere, Unserved
  <2>2. QED
    BY <2>1 DEF TypeInv, Counted
<1>3. ASSUME NEW kind \in {"create", "update", "remove", "decide"}, NEW r \in Ids,
             NEW v \in Stored \cup {Omitted}, Request(kind, r, v),
             UNCHANGED <<how, rows, version, list, fetch, due, here, sheet, form, dialog, turns>>
      PROVE  TypeInv'
  <2>1. saves' \in [Slots -> Requests] /\ Unserved' \subseteq Unserved
    BY <1>3, RequestType
  <2>2. TypeOK' /\ FormHere'
    BY <1>3, <2>1 DEF TypeInv, TypeOK, FormHere
  <2>3. Counted'
    BY <1>3, <2>1, CountKeeps DEF TypeInv, TypeOK
  <2>4. QED
    BY <2>2, <2>3 DEF TypeInv
<1>4. ASSUME NEW r \in Rows, NEW v \in Verdicts, Decide(r, v) PROVE TypeInv'
  BY <1>3, <1>4 DEF Decide, Ids, Stored
<1>5. ASSUME ConfirmDialog PROVE TypeInv'
  BY <1>3, <1>5 DEF ConfirmDialog, TypeInv, TypeOK, Ids
<1>6. QED
  BY <1>1, <1>2, <1>4, <1>5

LEMMA AnsweredType ==
  ASSUME NEW s \in Requests
  PROVE  Answered(s) \in Requests
BY UnsentType, ZenonT(60) DEF Answered, Requests

\* A change of the store leaves room in the bound for what is still to come.
LEMMA CommitStep ==
  ASSUME TypeInv, NEW i \in Slots, Commit(i)
  PROVE  TypeInv'
<1>1. PICK r \in Rows :
        /\ IF saves[i].kind = "create" THEN rows[r] = Absent ELSE r = saves[i].row
        /\ rows' = [rows EXCEPT ![r] = Written(saves[i], r)]
  BY DEF Commit
<1>2. /\ version' = version + 1 /\ saves[i].stage \in {"sent", "read", "locked"}
      /\ saves' = [saves EXCEPT ![i] = [Answered(@) EXCEPT !.stage = "committed", !.at = version + 1]]
      /\ UNCHANGED <<how, list, fetch, due, here, sheet, form, dialog, turns>>
  BY DEF Commit
<1>3. Written(saves[i], r) \in Stored \cup {Absent}
  BY BlankStored DEF Written, TypeInv, TypeOK, Requests, RowsType
<1>4. rows' \in RowsType
  BY <1>1, <1>3 DEF TypeInv, TypeOK, RowsType
<1>5. /\ Unserved' \subseteq Unserved \ {i} /\ i \in Unserved
  BY <1>2 DEF Unserved, TypeInv, TypeOK, Requests, Answered, Unsent
<1>6. Cardinality(Unserved') <= Cardinality(Unserved) - 1 /\ Cardinality(Unserved') \in Nat
  BY <1>5, UnservedCount, FS_RemoveElement, FS_Subset, FS_CardinalityType
<1>7. version + 1 \in 0..MaxVersion /\ Counted'
  <2>1. version \in Nat /\ turns \in Nat /\ MaxVersion \in Nat
    BY PageAssumption DEF TypeInv, TypeOK, MaxVersion
  <2>2. QED
    BY <2>1, <1>2, <1>6, UnservedCount DEF TypeInv, Counted, MaxVersion
<1>8. saves' \in [Slots -> Requests]
  <2>1. Answered(saves[i]) \in Requests
    BY AnsweredType DEF TypeInv, TypeOK
  <2>2. [Answered(saves[i]) EXCEPT !.stage = "committed", !.at = version + 1] \in Requests
    BY <2>1, <1>7 DEF Requests
  <2>3. QED
    BY <2>2, <1>2 DEF TypeInv, TypeOK
<1>9. TypeOK' /\ FormHere'
  BY <1>2, <1>4, <1>7, <1>8 DEF TypeInv, TypeOK, FormHere
<1>10. QED
  BY <1>7, <1>9 DEF TypeInv

\* A verdict that has read its row is still to be written.
LEMMA ReadStep ==
  ASSUME TypeInv, NEW i \in Slots, ReadStatus(i)
  PROVE  TypeInv'
<1>1. /\ \E stage \in {"read", "locked"} : saves' = [saves EXCEPT ![i].stage = stage]
      /\ saves[i].stage = "sent"
      /\ UNCHANGED <<how, rows, version, list, fetch, due, here, sheet, form, dialog, turns>>
  BY DEF ReadStatus
<1>2. saves' \in [Slots -> Requests] /\ Unserved' \subseteq Unserved
  BY <1>1 DEF TypeInv, TypeOK, Requests, Unserved
<1>3. TypeOK' /\ FormHere'
  BY <1>1, <1>2 DEF TypeInv, TypeOK, FormHere
<1>4. Counted'
  BY <1>1, <1>2, CountKeeps DEF TypeInv, TypeOK
<1>5. QED
  BY <1>3, <1>4 DEF TypeInv

\* The server's refusals and other users.
LEMMA ServerSteps ==
  ASSUME TypeInv, Others \/ \E i \in Slots : ReadStatus(i) \/ Commit(i) \/ Refuse(i)
  PROVE  TypeInv'
<1>1. ASSUME NEW i \in Slots, Refuse(i) PROVE TypeInv'
  <2>1. /\ saves' = [saves EXCEPT ![i] = [Answered(@) EXCEPT !.stage = "refused"]]
        /\ UNCHANGED <<how, rows, version, list, fetch, due, here, sheet, form, dialog>>
        /\ turns' \in 0..turns
    BY <1>1, PageAssumption DEF Refuse, TypeInv, TypeOK
  <2>2. Answered(saves[i]) \in Requests
    BY AnsweredType DEF TypeInv, TypeOK
  <2>3. [Answered(saves[i]) EXCEPT !.stage = "refused"] \in Requests
    BY <2>2 DEF Requests
  <2>4. saves' \in [Slots -> Requests]
    BY <2>1, <2>3 DEF TypeInv, TypeOK
  <2>5. Unserved' \subseteq Unserved
    BY <2>1, <2>2 DEF Unserved, TypeInv, TypeOK, Requests
  <2>6. Counted' /\ turns' \in 0..MaxTurns
    BY <2>1, <2>5, CountKeeps
  <2>7. TypeOK' /\ FormHere'
    BY <2>1, <2>4, <2>6 DEF TypeInv, TypeOK, FormHere
  <2>8. QED
    BY <2>6, <2>7 DEF TypeInv
<1>2. ASSUME Others PROVE TypeInv'
  <2>1. PICK r \in Rows : \E v \in OthersWrite(r) : rows' = [rows EXCEPT ![r] = v]
    BY <1>2 DEF Others
  <2>2. OthersWrite(r) \subseteq Stored \cup {Absent}
    BY DEF OthersWrite, Offered, Stored
  <2>3. rows' \in RowsType
    BY <2>1, <2>2 DEF TypeInv, TypeOK, RowsType
  <2>4. /\ turns > 0 /\ turns' = turns - 1 /\ version' = version + 1
        /\ UNCHANGED <<how, list, fetch, due, here, sheet, form, dialog, saves>>
    BY <1>2 DEF Others
  <2>5. Unserved' = Unserved
    BY <2>4 DEF Unserved
  <2>6. turns' \in 0..MaxTurns /\ version' \in 0..MaxVersion /\ Counted'
    <3>1. version \in Nat /\ turns \in 0..MaxTurns /\ MaxVersion \in Nat /\ MaxTurns \in Nat
      BY PageAssumption DEF TypeInv, TypeOK, MaxVersion
    <3>2. QED
      BY <3>1, <2>4, <2>5, UnservedCount DEF TypeInv, Counted, MaxVersion
  <2>7. TypeOK' /\ FormHere'
    BY <2>3, <2>4, <2>6 DEF TypeInv, TypeOK, FormHere
  <2>8. QED
    BY <2>6, <2>7 DEF TypeInv
<1>3. QED
  BY <1>1, <1>2, CommitStep, ReadStep

LEMMA FailedType ==
  ASSUME TypeInv, NEW i \in Slots, Failed(i), turns' \in 0..turns
  PROVE  TypeInv'
<1>1. /\ saves' = [saves EXCEPT ![i] = [Unsent EXCEPT !.stage = "over"]]
      /\ form' = Settled(form, {i}) /\ dialog' \in {New, dialog}
      /\ UNCHANGED <<how, rows, version, list, fetch, due, here, sheet>>
  BY DEF Failed
<1>2. saves' \in [Slots -> Requests]
  BY <1>1, UnsentType DEF TypeInv, TypeOK
<1>3. Unserved' \subseteq Unserved
  BY <1>1 DEF Unserved, TypeInv, TypeOK, Unsent
<1>4. form' \in Forms /\ (form \in Instances => form' \in Instances)
  BY <1>1, SettledType DEF TypeInv, TypeOK
<1>5. Counted' /\ turns' \in 0..MaxTurns
  BY <1>1, <1>3, CountKeeps
<1>6. TypeOK' /\ FormHere'
  BY <1>1, <1>2, <1>4, <1>5 DEF TypeInv, TypeOK, FormHere
<1>7. QED
  BY <1>5, <1>6 DEF TypeInv

\* The answer to a request that was served.
LEMMA AnswerOkStep ==
  ASSUME TypeInv, NEW i \in Slots, AnswerOk(i)
  PROVE  TypeInv'
<1>1. /\ UNCHANGED <<how, rows, version, here, turns>>
      /\ list' \in {list, [list EXCEPT !.stale = TRUE]}
      /\ due' \in {due, Later(due, saves[i].at)}
      /\ saves[i].stage = "committed"
  BY DEF AnswerOk
<1>2. fetch' \in {fetch, Asked}
  BY DEF AnswerOk, InvalidatedFetch, ContinuedFetch
<1>3. list' \in [rows : RowsType, at : 0..MaxVersion, loaded : BOOLEAN, stale : BOOLEAN,
                failed : BOOLEAN]
  BY <1>1 DEF TypeInv, TypeOK
<1>4. due' \in 0..MaxVersion /\ fetch' \in Fetches
  BY <1>1, <1>2 DEF Later, TypeInv, TypeOK, Requests, Fetches
<1>5. CASE Continue({i}) /\ form' = ContinuedForm({i})
  <2>1. /\ saves' \in [Slots -> Requests] /\ Unserved' \subseteq Unserved
        /\ sheet' \in [open : BOOLEAN, row : Ids, listed : Stored]
        /\ dialog' \in Ids
        /\ sheet'.open => sheet.open
        /\ ContinuedForm({i}) \in Forms
        /\ sheet'.open => ContinuedForm({i}) = form
        /\ form \in Instances /\ how.mount \notin {"whileOpen", "keyedOpen"} =>
             ContinuedForm({i}) \in Instances
    BY <1>5, ContinueType
  <2>2. TypeOK' /\ FormHere'
    BY <1>1, <1>3, <1>4, <1>5, <2>1 DEF TypeInv, TypeOK, FormHere, Ids
  <2>3. Counted'
    BY <1>1, <2>1, CountKeeps DEF TypeInv, TypeOK
  <2>4. QED
    BY <2>2, <2>3 DEF TypeInv
<1>6. CASE saves' = [saves EXCEPT ![i].stage = "settling"] /\ UNCHANGED <<sheet, form, dialog>>
  <2>1. saves' \in [Slots -> Requests] /\ Unserved' \subseteq Unserved
    BY <1>6 DEF TypeInv, TypeOK, Requests, Unserved
  <2>2. TypeOK' /\ FormHere'
    BY <1>1, <1>3, <1>4, <1>6, <2>1 DEF TypeInv, TypeOK, FormHere
  <2>3. Counted'
    BY <1>1, <2>1, CountKeeps DEF TypeInv, TypeOK
  <2>4. QED
    BY <2>2, <2>3 DEF TypeInv
<1>7. QED
  BY <1>5, <1>6 DEF AnswerOk

\* Leaving the page and coming back.
LEMMA TravelSteps ==
  ASSUME TypeInv, Leave \/ Return
  PROVE  TypeInv'
<1>1. CASE Leave
  <2>1. /\ UNCHANGED <<how, rows, version, list, fetch, due>>
        /\ here' = FALSE /\ form' = NoForm /\ dialog' = New
        /\ sheet' = [open |-> FALSE, row |-> New, listed |-> Blank]
        /\ turns' \in 0..turns
    BY <1>1, PageAssumption DEF Leave, TypeInv, TypeOK
  <2>2. saves' \in [Slots -> Requests] /\ Unserved' \subseteq Unserved
    BY <1>1 DEF Leave, TypeInv, TypeOK, Requests, Unserved
  <2>3. Counted' /\ turns' \in 0..MaxTurns
    BY <2>1, <2>2, CountKeeps
  <2>4. TypeOK' /\ FormHere'
    BY <2>1, <2>2, <2>3, BlankStored DEF TypeInv, TypeOK, FormHere, Forms
  <2>5. QED
    BY <2>3, <2>4 DEF TypeInv
<1>2. CASE Return
  <2>1. /\ UNCHANGED <<how, rows, version, list, due, sheet, dialog, saves, turns>>
        /\ here' = TRUE /\ ~here /\ form' = Mounted /\ fetch' \in {fetch, Idle, Asked}
    BY <1>2 DEF Return
  <2>2. TypeOK' /\ FormHere' /\ Unserved' = Unserved
    BY <2>1, MountedType DEF TypeInv, TypeOK, FormHere, Fetches, Unserved
  <2>3. QED
    BY <2>1, <2>2 DEF TypeInv, Counted
<1>3. QED
  BY <1>1, <1>2

LEMMA TypeStep == TypeInv /\ [Next]_vars => TypeInv'
<1> SUFFICES ASSUME TypeInv, [Next]_vars PROVE TypeInv'
  OBVIOUS
<1>1. CASE UNCHANGED vars
  <2>1. TypeOK' /\ FormHere' /\ Unserved' = Unserved /\ turns' = turns /\ version' = version
    BY <1>1 DEF vars, TypeInv, TypeOK, FormHere, Unserved
  <2>2. QED
    BY <2>1 DEF TypeInv, Counted
<1>2. ASSUME NEW i \in Slots, AnswerRefused(i) \/ LoseAnswer(i) PROVE TypeInv'
  <2>1. Failed(i) /\ turns' \in 0..turns
    BY <1>2, PageAssumption DEF AnswerRefused, LoseAnswer, TypeInv, TypeOK
  <2>2. QED
    BY <2>1, FailedType
<1>3. QED
  BY <1>1, <1>2, ListSteps, SheetSteps, ButtonSteps, ServerSteps, AnswerOkStep, TravelSteps
     DEF Next, Ids

\* The type invariant of the pages, whatever the catalogue and the bounds.
THEOREM TypeCorrect == Spec => []TypeOK
<1>1. TypeInv => TypeOK
  BY DEF TypeInv
<1>2. QED
  BY <1>1, TypeInit, TypeStep, PTL DEF Spec

--------------------------------------------------------------------------------
(* The list.  An answer on its way is at least as new as every change the user was told of
   while the list was on screen, because being told starts the request over.         *)

\* Every save and every removal of the catalogue invalidates the list it is shown in.
RefreshesAll == \A b \in Behaviours : b.refreshes /\ b.removeRefreshes

FreshInv ==
  /\ \A i \in Slots : saves[i].at <= version
  /\ due <= version /\ list.at <= version
  /\ fetch \notin {Idle, Asked} =>
       list.at <= fetch.at /\ due <= fetch.at /\ fetch.at <= version
  /\ ~list.loaded => due = 0
  /\ list.loaded /\ ~list.stale => due <= list.at

\* No request is newer than the store.
LEMMA SavesAt ==
  ASSUME TypeInv, FreshInv, Next
  PROVE  \A i \in Slots : saves'[i].at <= version'
<1>1. /\ \A i \in Slots : saves[i].at <= version /\ saves[i].at \in Nat
      /\ version \in Nat /\ saves \in [Slots -> Requests]
  BY PageAssumption DEF FreshInv, TypeInv, TypeOK, Requests, MaxVersion
<1>2. ASSUME NEW done, Continue(done), version' = version
      PROVE  \A i \in Slots : saves'[i].at <= version'
  <2>1. Unsent.at = 0 /\ [Unsent EXCEPT !.stage = "over"].at = 0
    BY DEF Unsent
  <2>2. ASSUME NEW i \in Slots PROVE saves'[i].at \in {0, saves[i].at}
    BY <1>1, <1>2, <2>1 DEF Continue, Requests
  <2>3. QED
    BY <1>1, <1>2, <2>2
<1>3. ASSUME saves' = saves, version' \in {version, version + 1}
      PROVE  \A i \in Slots : saves'[i].at <= version'
  BY <1>1, <1>3
<1>4. CASE FetchRead \/ Refetch \/ Others \/ Return \/ CloseDialog \/ NothingToSave
           \/ (\E r \in Rows \cup {New} : OpenSheet(r))
           \/ (\E v \in Values \cup {Blank} : Type(v)) \/ (\E r \in Rows : OpenDialog(r))
  BY <1>3, <1>4 DEF FetchRead, Refetch, Others, Return, CloseDialog, NothingToSave, OpenSheet,
                    Type, OpenDialog
<1>5. CASE FetchAnswer \/ FetchFails
  BY <1>2, <1>5 DEF FetchAnswer, FetchFails
<1>6. CASE CancelSheet \/ Leave
  <2>1. version' = version /\ \A i \in Slots : saves'[i].at = saves[i].at
    BY <1>1, <1>6 DEF CancelSheet, Leave, Requests
  <2>2. QED
    BY <1>1, <2>1
<1>7. ASSUME NEW kind, NEW r, NEW v, Request(kind, r, v), version' = version
      PROVE  \A i \in Slots : saves'[i].at <= version'
  <2>1. \A i \in Slots : saves'[i].at \in {0, saves[i].at}
    BY <1>1, <1>7 DEF Request, Unsent
  <2>2. QED
    BY <1>1, <1>7, <2>1
<1>8. CASE Submit
  <2>1. version' = version /\ \A i \in Slots : saves'[i].at \in {0, saves[i].at}
    BY <1>1, <1>8 DEF Submit, Unsent
  <2>2. QED
    BY <1>1, <2>1
<1>9. ASSUME NEW i \in Slots, Commit(i) PROVE \A j \in Slots : saves'[j].at <= version'
  <2>1. version' = version + 1 /\ \A j \in Slots : saves'[j].at \in {version + 1, saves[j].at}
    BY <1>1, <1>9 DEF Commit, Answered, Unsent
  <2>2. QED
    BY <1>1, <2>1
<1>10. ASSUME NEW i \in Slots, Refuse(i) \/ AnswerRefused(i) \/ LoseAnswer(i)
       PROVE  \A j \in Slots : saves'[j].at <= version'
  <2>1. version' = version /\ \A j \in Slots : saves'[j].at \in {0, saves[j].at}
    BY <1>1, <1>10, ZenonT(60)
       DEF Refuse, AnswerRefused, LoseAnswer, Failed, Answered, Unsent
  <2>2. QED
    BY <1>1, <2>1
<1>11. ASSUME NEW i \in Slots, AnswerOk(i) PROVE \A j \in Slots : saves'[j].at <= version'
  <2>1. version' = version
    BY <1>11 DEF AnswerOk
  <2>2. CASE Continue({i})
    BY <1>2, <2>1, <2>2
  <2>3. CASE saves' = [saves EXCEPT ![i].stage = "settling"]
    <3>1. \A j \in Slots : saves'[j].at = saves[j].at
      BY <1>1, <2>3 DEF Requests
    <3>2. QED
      BY <1>1, <2>1, <3>1
  <2>4. QED
    BY <1>11, <2>2, <2>3 DEF AnswerOk
<1>12. CASE ConfirmDialog \/ \E r \in Rows, v \in Verdicts : Decide(r, v)
  BY <1>7, <1>12 DEF ConfirmDialog, Decide
<1>13. ASSUME NEW i \in Slots, ReadStatus(i) PROVE \A j \in Slots : saves'[j].at <= version'
  <2>1. version' = version /\ \A j \in Slots : saves'[j].at = saves[j].at
    BY <1>1, <1>13 DEF ReadStatus, Requests
  <2>2. QED
    BY <1>1, <2>1
<1>14. QED
  BY <1>4, <1>5, <1>6, <1>8, <1>9, <1>10, <1>11, <1>12, <1>13 DEF Next

\* What the other steps leave to the list.
LEMMA ListUntouched ==
  ASSUME TypeInv, Next, ~FetchRead, ~FetchAnswer, ~FetchFails, ~Others,
         ~\E i \in Slots : Commit(i) \/ AnswerOk(i)
  PROVE  UNCHANGED <<version, due, list>> /\ fetch' \in {fetch, Idle, Asked}
<1>1. CASE \/ \E r \in Rows \cup {New} : OpenSheet(r)
           \/ \E v \in Values \cup {Blank} : Type(v)
           \/ \E r \in Rows : OpenDialog(r) \/ \E v \in Verdicts : Decide(r, v)
           \/ Refetch \/ CloseDialog \/ ConfirmDialog
  BY <1>1 DEF OpenSheet, Type, OpenDialog, Decide, Refetch, CloseDialog, ConfirmDialog
<1>2. CASE CancelSheet \/ Submit \/ NothingToSave \/ Leave \/ Return
  BY <1>2 DEF CancelSheet, Submit, NothingToSave, Leave, Return
<1>3. CASE \E i \in Slots : ReadStatus(i) \/ Refuse(i) \/ AnswerRefused(i) \/ LoseAnswer(i)
  BY <1>3 DEF ReadStatus, Refuse, AnswerRefused, LoseAnswer, Failed
<1>4. QED
  BY <1>1, <1>2, <1>3 DEF Next

LEMMA FreshNumbers ==
  ASSUME TypeInv
  PROVE  /\ version \in Nat /\ due \in Nat /\ list.at \in Nat
         /\ fetch \notin {Idle, Asked} => fetch.at \in Nat
         /\ \A i \in Slots : saves[i].at \in Nat
BY PageAssumption DEF TypeInv, TypeOK, Fetches, Requests, MaxVersion

\* Every step keeps the list's books, and is a step of the promise or changes nothing the
\* promise sees.
LEMMA FreshStep ==
  ASSUME RefreshesAll, TypeInv, FreshInv, Next
  PROVE  FreshInv' /\ Promise!Next
<1>1. TypeInv'
  BY TypeStep
<1>2. \A i \in Slots : saves'[i].at <= version'
  BY SavesAt
<1>3. CASE FetchRead
  <2>1. FreshInv'
    BY <1>2, <1>3, FreshNumbers DEF FetchRead, FreshInv
  <2>2. Promise!Rest
    BY <1>3, <2>1 DEF FetchRead, Promise!Rest, AtRest, FreshInv
  <2>3. QED
    BY <2>1, <2>2 DEF Promise!Next
<1>4. CASE FetchAnswer
  <2>1. /\ fetch \notin {Idle, Asked} /\ UNCHANGED <<version, due>>
        /\ list'.at = fetch.at /\ list'.loaded /\ ~list'.stale
        /\ fetch' \in {Idle, Asked}
    BY <1>4 DEF FetchAnswer, ContinuedFetch
  <2>2. FreshInv'
    BY <1>2, <2>1, FreshNumbers DEF FreshInv
  <2>3. list'.at \in list.at..version /\ due <= list'.at
    BY <2>1, FreshNumbers DEF FreshInv
  <2>4. Promise!Show
    BY <2>1, <2>3 DEF Promise!Show, AtRest
  <2>5. QED
    BY <2>2, <2>4 DEF Promise!Next
<1>5. CASE FetchFails
  <2>1. /\ UNCHANGED <<version, due>> /\ fetch' \in {Idle, Asked}
        /\ list' = [list EXCEPT !.failed = TRUE]
    BY <1>5 DEF FetchFails, ContinuedFetch
  <2>2. list'.at = list.at /\ list'.loaded = list.loaded /\ list'.stale = list.stale
    BY <2>1 DEF TypeInv, TypeOK
  <2>3. FreshInv'
    BY <1>2, <2>1, <2>2 DEF FreshInv
  <2>4. Promise!Rest
    BY <2>1, <2>2, <2>3 DEF Promise!Rest, AtRest, FreshInv
  <2>5. QED
    BY <2>3, <2>4 DEF Promise!Next
<1>6. CASE Others \/ \E i \in Slots : Commit(i)
  <2>1. version' = version + 1 /\ UNCHANGED <<due, list, fetch>>
    BY <1>6 DEF Others, Commit
  <2>2. FreshInv'
    BY <1>2, <2>1, FreshNumbers DEF FreshInv
  <2>3. Promise!Change
    BY <2>1 DEF Promise!Change, AtRest
  <2>4. QED
    BY <2>2, <2>3 DEF Promise!Next
<1>7. ASSUME NEW i \in Slots, AnswerOk(i) PROVE FreshInv' /\ Promise!Next
  <2>1. how.refreshes /\ how.removeRefreshes
    BY DEF RefreshesAll, TypeInv, TypeOK
  <2>2. /\ UNCHANGED version /\ list' = [list EXCEPT !.stale = TRUE]
        /\ due' = IF here /\ list.loaded THEN Later(due, saves[i].at) ELSE due
        /\ fetch' \in {InvalidatedFetch, Asked}
    BY <1>7, <2>1 DEF AnswerOk, ContinuedFetch
  <2>3. list'.at = list.at /\ list'.loaded = list.loaded /\ list'.stale = TRUE
    BY <2>2 DEF TypeInv, TypeOK
  <2>4. due' \in due..version
    BY <2>2, FreshNumbers DEF FreshInv, Later
  <2>5. fetch' = Asked \/ (fetch' = fetch /\ due' = due)
    BY <2>2 DEF InvalidatedFetch
  <2>6. FreshInv'
    BY <1>2, <2>2, <2>3, <2>4, <2>5, FreshNumbers DEF FreshInv
  <2>7. Promise!Tell
    BY <2>2, <2>3, <2>4 DEF Promise!Tell, AtRest
  <2>8. QED
    BY <2>6, <2>7 DEF Promise!Next
<1>8. CASE UNCHANGED <<version, due, list>> /\ fetch' \in {fetch, Idle, Asked}
  <2>1. FreshInv'
    BY <1>2, <1>8 DEF FreshInv
  <2>2. Promise!Rest
    BY <1>8, <2>1 DEF Promise!Rest, AtRest, FreshInv
  <2>3. QED
    BY <2>1, <2>2 DEF Promise!Next
<1>9. QED
  BY <1>3, <1>4, <1>5, <1>6, <1>7, <1>8, ListUntouched

LEMMA FreshInit == Init => FreshInv /\ Promise!Init
<1> SUFFICES ASSUME Init PROVE FreshInv /\ Promise!Init
  OBVIOUS
<1>1. version = 0 /\ due = 0 /\ list.at = 0 /\ ~list.loaded /\ fetch = Asked
  BY DEF Init
<1>2. \A i \in Slots : saves[i].at = 0
  BY DEF Init, Unsent
<1>3. QED
  BY <1>1, <1>2 DEF FreshInv, Promise!Init, AtRest

\* A list at rest shows every change this browser was told of while it showed the list, in
\* every catalogue whose saves and removals invalidate it.
THEOREM ListSettlesFreshHolds ==
  ASSUME RefreshesAll
  PROVE  Spec => []ListSettlesFresh
<1>1. TypeInv /\ FreshInv /\ [Next]_vars => FreshInv'
  <2>1. ASSUME FreshInv, UNCHANGED vars PROVE FreshInv'
    BY <2>1 DEF FreshInv, vars
  <2>2. QED
    BY <2>1, FreshStep
<1>2. TypeInv /\ FreshInv => ListSettlesFresh
  BY FreshNumbers DEF FreshInv, ListSettlesFresh, AtRest
<1>3. QED
  BY <1>1, <1>2, FreshInit, TypeInit, TypeStep, PTL DEF Spec

\* Under the same condition the query cache with its invalidations and cancelled requests
\* implements the list of FreshList.
THEOREM ImplementsFreshListHolds ==
  ASSUME RefreshesAll
  PROVE  Spec => ImplementsFreshList
<1>1. TypeInv /\ FreshInv /\ [Next]_vars => FreshInv' /\ [Promise!Next]_(Promise!vars)
  <2>1. ASSUME FreshInv, UNCHANGED vars PROVE FreshInv' /\ UNCHANGED Promise!vars
    BY <2>1 DEF FreshInv, vars, Promise!vars, AtRest
  <2>2. QED
    BY <2>1, FreshStep
<1>2. QED
  BY <1>1, FreshInit, TypeInit, TypeStep, PTL DEF Spec, ImplementsFreshList, Promise!Spec

--------------------------------------------------------------------------------
(* The forms.  What a mounted form holds, and what it holds while its sheet is open. *)

Draft(f) ==
  f \in Instances =>
    /\ how.mount = "bare" => f.for = New
    /\ ~f.typed => f.shown = f.base
    /\ f.typed => how.field # "unsent"

StartsOver == how.mount \in {"whileOpen", "keyedOpen", "resetOnOpen"}

FormInv ==
  /\ Draft(form)
  /\ dialog # New => ~sheet.open
  /\ sheet.open /\ how.mount # "followsRow" => form.for = sheet.row
  /\ sheet.open /\ StartsOver /\ ~form.typed => form.shown = sheet.listed

LEMMA FreshDraft ==
  ASSUME NEW row \in Ids, NEW seen \in Stored, how.mount = "bare" => row = New
  PROVE  Draft(Fresh(row, seen))
BY DEF Draft, Fresh

LEMMA BlankDraft == Draft(Fresh(New, Blank)) /\ Draft(NoForm) /\ Draft(Mounted)
<1>1. Draft(Fresh(New, Blank))
  BY FreshDraft, BlankStored DEF Ids
<1>2. Draft(NoForm)
  BY PageAssumption DEF Draft
<1>3. QED
  BY <1>1, <1>2 DEF Mounted

LEMMA ClosedDraft ==
  ASSUME NEW f \in Forms, Draft(f)
  PROVE  Draft(Closed(f))
BY ClosedType, BlankDraft

LEMMA SettledDraft ==
  ASSUME NEW f \in Forms, Draft(f), NEW done
  PROVE  Draft(Settled(f, done))
<1>1. CASE f \in Instances
  <2>1. /\ Settled(f, done).for = f.for /\ Settled(f, done).base = f.base
        /\ Settled(f, done).shown = f.shown /\ Settled(f, done).typed = f.typed
    BY <1>1, SettledType
  <2>2. QED
    BY <1>1, <2>1 DEF Draft
<1>2. CASE f \notin Instances
  BY <1>2, BlankDraft DEF Settled, Forms
<1>3. QED
  BY <1>1, <1>2

LEMMA FollowedDraft ==
  ASSUME NEW new \in RowsType, NEW f \in Forms, Draft(f), sheet.row \in Ids,
         NEW g \in Followed(new, f)
  PROVE  Draft(g)
<1>1. /\ g \in Forms
      /\ f \in Instances => g \in Instances /\ g.sending = f.sending
      /\ how.mount # "followsRow" => g = f
      /\ g = f \/ (g \in Instances /\ g.shown = g.base /\ ~g.typed)
  BY FollowedType
<1>2. QED
  BY <1>1 DEF Draft

LEMMA ContinuedDraft ==
  ASSUME TypeInv, Draft(form), NEW done
  PROVE  Draft(ContinuedForm(done))
<1>1. Settled(form, done) \in Forms /\ Draft(Settled(form, done))
  BY SettledType, SettledDraft DEF TypeInv, TypeOK
<1>2. Draft(Closed(Settled(form, done)))
  BY <1>1, ClosedDraft
<1>3. QED
  BY <1>2 DEF ContinuedForm

\* The form a sheet opens with is for its record, and shows what the list shows where the
\* page starts the form over.
LEMMA OpenedDraft ==
  ASSUME TypeInv, Draft(form), here, NEW row \in Ids, NEW seen \in Stored,
         how.mount = "bare" => row = New
  PROVE  /\ Draft(Opened(row, seen))
         /\ how.mount # "followsRow" => Opened(row, seen).for = row
         /\ StartsOver => Opened(row, seen).shown = seen
<1>1. /\ Fresh(row, seen).for = row /\ Fresh(row, seen).shown = seen
      /\ Draft(Fresh(row, seen))
  BY FreshDraft DEF Fresh
<1>2. CASE how.mount \in {"whileOpen", "keyedOpen"}
  BY <1>1, <1>2 DEF Opened
<1>3. CASE how.mount \notin {"whileOpen", "keyedOpen"}
  <2>1. form \in Instances
    BY <1>3 DEF TypeInv, FormHere
  <2>2. /\ Reset(form, row, seen).for = row /\ Reset(form, row, seen).shown = seen
        /\ Reset(form, row, seen).base = seen /\ Reset(form, row, seen).typed = FALSE
    BY <2>1, ResetType, ZenonT(60)
  <2>3. how.mount # "bare" => Draft(Reset(form, row, seen))
    BY <2>2 DEF Draft
  <2>4. how.mount \in {"keyed", "resetOnOpen", "followsRow", "bare"}
    BY <1>3, HowIsBehaviour DEF TypeInv, TypeOK, HowType, Behaviour
  <2>5. CASE how.mount = "keyed"
    BY <1>1, <2>5 DEF Opened, StartsOver
  <2>6. CASE how.mount = "resetOnOpen"
    BY <2>2, <2>3, <2>6 DEF Opened
  <2>7. CASE how.mount = "followsRow"
    BY <2>3, <2>7 DEF Opened, StartsOver
  <2>8. CASE how.mount = "bare"
    BY <2>1, <2>8 DEF Opened, StartsOver, Draft
  <2>9. QED
    BY <2>4, <2>5, <2>6, <2>7, <2>8
<1>4. QED
  BY <1>2, <1>3

LEMMA FormInit == Init => FormInv
BY BlankDraft DEF Init, FormInv

\* A continuation closes the sheet or leaves it and its form as they are.
LEMMA ContinueSheet ==
  ASSUME TypeInv, NEW done, Continue(done)
  PROVE  /\ sheet'.open => sheet' = sheet /\ ContinuedForm(done) = form
         /\ dialog' \in {dialog, New}
BY DEF Continue, CloseSheet, ContinuedForm, TypeInv, TypeOK

LEMMA FormStep ==
  ASSUME TypeInv, FormInv, Next
  PROVE  FormInv'
<1>1. TypeInv' /\ how' = how /\ form \in Forms /\ Draft(form)
  BY TypeStep, ZenonT(60) DEF Next, FetchRead, FetchAnswer, FetchFails, Refetch, OpenSheet, Type, CancelSheet,
     Submit, NothingToSave, OpenDialog, Decide, CloseDialog, ConfirmDialog, ReadStatus, Commit, Refuse,
     AnswerOk, AnswerRefused, LoseAnswer, Failed, Others, Leave, Return, TypeInv, TypeOK, FormInv
<1>2. ASSUME UNCHANGED <<sheet, form>>, dialog' \in {dialog, New} PROVE FormInv'
  BY <1>1, <1>2 DEF FormInv, Draft, StartsOver
<1>3. ASSUME ~sheet'.open, Draft(form') PROVE FormInv'
  BY <1>1, <1>3 DEF FormInv, Draft
<1>4. CASE FetchRead \/ Refetch \/ Others \/ ConfirmDialog \/ CloseDialog
           \/ (\E r \in Rows, v \in Verdicts : Decide(r, v))
           \/ \E i \in Slots : ReadStatus(i) \/ Commit(i) \/ Refuse(i)
  BY <1>2, <1>4 DEF FetchRead, Refetch, Others, ConfirmDialog, CloseDialog, Decide, ReadStatus,
                    Commit, Refuse
<1>5. ASSUME NEW done, Continue(done), form' = ContinuedForm(done) PROVE FormInv'
  <2>1. /\ sheet'.open => sheet' = sheet /\ form' = form
        /\ dialog' \in {dialog, New}
    BY <1>5, ContinueSheet
  <2>2. Draft(form')
    BY <1>1, <1>5, ContinuedDraft
  <2>3. QED
    BY <1>2, <1>3, <2>1, <2>2
<1>6. CASE FetchAnswer
  <2>1. /\ Continue(Settling) /\ form' \in Followed(fetch.rows, ContinuedForm(Settling))
        /\ fetch.rows \in RowsType /\ sheet.row \in Ids
    BY <1>6 DEF FetchAnswer, TypeInv, TypeOK, Fetches, Ids
  <2>2. ContinuedForm(Settling) \in Forms /\ Draft(ContinuedForm(Settling))
    BY <1>1, <2>1, ContinuedDraft, ContinueType
  <2>3. Draft(form')
    BY <2>1, <2>2, FollowedDraft
  <2>4. /\ sheet'.open => sheet' = sheet /\ ContinuedForm(Settling) = form
        /\ dialog' \in {dialog, New}
    BY <2>1, ContinueSheet
  <2>5. how.mount # "followsRow" => form' = ContinuedForm(Settling)
    BY <2>1, <2>2, FollowedType
  <2>6. CASE how.mount = "followsRow"
    BY <1>1, <2>3, <2>4, <2>6 DEF FormInv, Draft, StartsOver
  <2>7. CASE how.mount # "followsRow"
    BY <1>2, <1>3, <2>3, <2>4, <2>5, <2>7
  <2>8. QED
    BY <2>6, <2>7
<1>7. CASE FetchFails
  BY <1>5, <1>7 DEF FetchFails
<1>8. ASSUME NEW i \in Slots, AnswerOk(i) PROVE FormInv'
  <2>1. CASE Continue({i}) /\ form' = ContinuedForm({i})
    BY <1>5, <2>1
  <2>2. CASE UNCHANGED <<sheet, form, dialog>>
    BY <1>2, <2>2
  <2>3. QED
    BY <1>8, <2>1, <2>2 DEF AnswerOk
<1>9. ASSUME NEW r \in Ids, OpenSheet(r) PROVE FormInv'
  <2> DEFINE seen == IF r = New \/ how.field = "unsent" THEN Blank ELSE list.rows[r]
  <2>1. /\ here /\ dialog' = New
        /\ sheet' = [open |-> TRUE, row |-> r, listed |-> seen] /\ form' = Opened(r, seen)
    BY <1>9 DEF OpenSheet
  <2>2. how.mount = "bare" => r = New
    BY <1>9, CatalogAssumption DEF OpenSheet, TypeInv, TypeOK
  <2>3. seen \in Stored
    BY <1>1, <2>1 DEF TypeInv, TypeOK
  <2> HIDE DEF seen
  <2>4. /\ Draft(form')
        /\ how.mount # "followsRow" => form'.for = r
        /\ StartsOver => form'.shown = seen
    BY <1>1, <2>1, <2>2, <2>3, OpenedDraft
  <2>5. QED
    BY <1>1, <2>1, <2>4 DEF FormInv, Draft, StartsOver
<1>10. ASSUME NEW v \in Values \cup {Blank}, Type(v) PROVE FormInv'
  <2>1. /\ form \in Instances /\ form' = [form EXCEPT !.shown = v, !.typed = TRUE]
        /\ how.field # "unsent" /\ UNCHANGED <<sheet, dialog>>
    BY <1>10 DEF Type, TypeInv, FormHere
  <2>2. form'.for = form.for /\ form'.typed = TRUE
    BY <2>1 DEF Instances
  <2>3. QED
    BY <1>1, <2>1, <2>2 DEF FormInv, Draft, StartsOver
<1>11. CASE CancelSheet \/ NothingToSave
  <2>1. ~sheet'.open /\ form' = Closed(form)
    BY <1>11 DEF CancelSheet, NothingToSave, CloseSheet, TypeInv, TypeOK
  <2>2. QED
    BY <1>1, <1>3, <2>1, ClosedDraft
<1>12. CASE Submit
  <2>1. /\ form \in Instances /\ UNCHANGED <<sheet, dialog>>
        /\ \E i \in Free : form' = [form EXCEPT !.sending = i]
    BY <1>12 DEF Submit, TypeInv, FormHere
  <2>2. /\ form'.for = form.for /\ form'.shown = form.shown /\ form'.typed = form.typed
        /\ form'.base = form.base
    BY <2>1 DEF Instances
  <2>3. QED
    BY <1>1, <2>1, <2>2 DEF FormInv, Draft, StartsOver
<1>13. ASSUME NEW r \in Rows, OpenDialog(r) PROVE FormInv'
  BY <1>1, <1>13 DEF OpenDialog, FormInv, Draft, StartsOver
<1>14. ASSUME NEW i \in Slots, Failed(i) PROVE FormInv'
  <2>1. UNCHANGED sheet /\ dialog' \in {dialog, New} /\ form' = Settled(form, {i})
    BY <1>14 DEF Failed
  <2>2. Draft(form')
    BY <1>1, <2>1, SettledDraft
  <2>3. form \in Instances =>
          form'.for = form.for /\ form'.shown = form.shown /\ form'.typed = form.typed
    BY <1>1, <2>1, SettledType
  <2>4. sheet.open => form \in Instances
    BY DEF TypeInv, FormHere
  <2>5. QED
    BY <1>1, <2>1, <2>2, <2>3, <2>4 DEF FormInv, Draft, StartsOver
<1>15. CASE Leave
  BY <1>3, <1>15, BlankDraft DEF Leave
<1>16. CASE Return
  <2>1. ~sheet'.open /\ form' = Mounted
    BY <1>16 DEF Return, TypeInv, FormHere
  <2>2. QED
    BY <1>3, <2>1, BlankDraft
<1>17. QED
  BY <1>4, <1>6, <1>7, <1>8, <1>9, <1>10, <1>11, <1>12, <1>13, <1>14, <1>15, <1>16
     DEF Next, AnswerRefused, LoseAnswer, Ids

--------------------------------------------------------------------------------
(* The requests.  Only the form and the buttons send, and only the server commits. *)

Unchanging(i) ==
  /\ saves'[i].stage = saves[i].stage /\ saves'[i].kind = saves[i].kind
  /\ saves'[i].row = saves[i].row /\ saves'[i].value = saves[i].value
  /\ saves'[i].shown = saves[i].shown /\ saves'[i].typed = saves[i].typed

SentByForm(i) ==
  /\ Submit /\ saves[i].stage = "unsent"
  /\ saves'[i].kind = IF Target = New THEN "create" ELSE "update"
  /\ saves'[i].row = Target
  /\ saves'[i].value = Sent(form, IF Target = New THEN "create" ELSE "update")
  /\ saves'[i].shown = form.shown /\ saves'[i].typed = Touched(form)

SentByButton(i) ==
  /\ ConfirmDialog \/ \E r \in Rows, v \in Verdicts : Decide(r, v)
  /\ saves[i].stage = "unsent" /\ saves'[i].kind \in {"remove", "decide"}

LEMMA Requested ==
  ASSUME TypeInv, NEW i \in Slots, NEW kind, NEW r, NEW v, Request(kind, r, v)
  PROVE  \/ Unchanging(i)
         \/ saves[i].stage = "unsent" /\ saves'[i].stage = "sent" /\ saves'[i].kind = kind
<1>1. PICK j \in Free : saves' = [saves EXCEPT ![j] =
        [Unsent EXCEPT !.stage = "sent", !.kind = kind, !.row = r, !.value = v]]
  BY DEF Request
<1>2. j \in Slots /\ saves[j].stage = "unsent"
  BY PageAssumption DEF Free, Slots
<1>3. QED
  BY <1>1, <1>2 DEF Unchanging, Unsent, TypeInv, TypeOK, Requests

LEMMA Submitting ==
  ASSUME TypeInv, NEW i \in Slots, Submit
  PROVE  Unchanging(i) \/ (SentByForm(i) /\ saves'[i].stage = "sent" /\ form'.sending = i)
<1> DEFINE kind == IF Target = New THEN "create" ELSE "update"
<1>1. PICK j \in Free :
        /\ saves' = [saves EXCEPT ![j] =
             [Unsent EXCEPT !.stage = "sent", !.kind = kind, !.row = Target,
                !.value = Sent(form, kind), !.shown = form.shown, !.typed = Touched(form)]]
        /\ form' = [form EXCEPT !.sending = j]
  BY DEF Submit
<1>2. /\ j \in Slots /\ saves[j].stage = "unsent" /\ form'.sending = j
  BY <1>1, PageAssumption DEF Free, Slots, Submit, TypeInv, FormHere, Instances
<1>3. CASE i = j
  <2>1. saves'[i] =
             [Unsent EXCEPT !.stage = "sent", !.kind = kind, !.row = Target,
                !.value = Sent(form, kind), !.shown = form.shown, !.typed = Touched(form)]
    BY <1>1, <1>2, <1>3 DEF TypeInv, TypeOK
  <2>2. QED
    BY <1>2, <1>3, <2>1 DEF SentByForm, Unsent
<1>4. CASE i # j
  BY <1>1, <1>2, <1>4 DEF Unchanging, TypeInv, TypeOK
<1>5. QED
  BY <1>3, <1>4

\* What a step may do to a request.
LEMMA RequestMoves ==
  ASSUME TypeInv, Next, NEW i \in Slots
  PROVE  \/ Unchanging(i)
         \/ SentByForm(i) /\ saves'[i].stage = "sent" /\ form'.sending = i
         \/ SentByButton(i) /\ saves'[i].stage = "sent"
         \/ ReadStatus(i) /\ saves'[i].stage \in {"read", "locked"}
         \/ Commit(i) /\ saves'[i].stage = "committed" /\ saves'[i].kind = saves[i].kind
         \/ saves[i].stage = "sent" /\ saves'[i].stage = "refused" /\ saves'[i].kind = saves[i].kind
         \/ saves[i].stage = "committed" /\ saves'[i].stage = "settling"
              /\ saves'[i].kind = saves[i].kind
         \/ saves'[i].stage = "over"
<1>1. saves \in [Slots -> Requests]
  BY DEF TypeInv, TypeOK
<1>2. ASSUME saves' = saves PROVE Unchanging(i)
  BY <1>2 DEF Unchanging
<1>3. CASE FetchRead \/ Refetch \/ Others \/ Return \/ CloseDialog \/ NothingToSave
           \/ (\E r \in Rows \cup {New} : OpenSheet(r))
           \/ (\E v \in Values \cup {Blank} : Type(v)) \/ (\E r \in Rows : OpenDialog(r))
  BY <1>2, <1>3 DEF FetchRead, Refetch, Others, Return, CloseDialog, NothingToSave, OpenSheet,
                    Type, OpenDialog
<1>4. ASSUME NEW done, Continue(done) PROVE Unchanging(i) \/ saves'[i].stage = "over"
  <2>1. \/ saves'[i] = saves[i]
        \/ saves'[i] = [saves[i] EXCEPT !.left = "sheet"]
        \/ saves'[i] = [Unsent EXCEPT !.stage = "over"]
    BY <1>4 DEF Continue
  <2>2. saves[i] \in Requests
    BY <1>1
  <2>3. CASE saves'[i] = [saves[i] EXCEPT !.left = "sheet"]
    BY <2>2, <2>3 DEF Unchanging, Requests
  <2>4. CASE saves'[i] = [Unsent EXCEPT !.stage = "over"]
    BY <2>4 DEF Unsent
  <2>5. QED
    BY <2>1, <2>3, <2>4 DEF Unchanging
<1>5. CASE FetchAnswer \/ FetchFails
  BY <1>4, <1>5 DEF FetchAnswer, FetchFails
<1>6. CASE CancelSheet \/ Leave
  BY <1>1, <1>6 DEF CancelSheet, Leave, Unchanging, Requests
<1>7. CASE Submit
  BY <1>7, Submitting
<1>8. CASE ConfirmDialog \/ \E r \in Rows, v \in Verdicts : Decide(r, v)
  <2>1. ASSUME ConfirmDialog
        PROVE  Unchanging(i) \/ (SentByButton(i) /\ saves'[i].stage = "sent")
    <3>1. Request("remove", dialog, Omitted)
      BY <2>1 DEF ConfirmDialog
    <3>2. Unchanging(i) \/ (saves[i].stage = "unsent" /\ saves'[i].stage = "sent" /\ saves'[i].kind = "remove")
      BY <3>1, Requested
    <3>3. QED
      BY <2>1, <3>2 DEF SentByButton
  <2>2. ASSUME NEW r \in Rows, NEW v \in Verdicts, Decide(r, v)
        PROVE  Unchanging(i) \/ (SentByButton(i) /\ saves'[i].stage = "sent")
    <3>1. Request("decide", r, v)
      BY <2>2 DEF Decide
    <3>2. Unchanging(i) \/ (saves[i].stage = "unsent" /\ saves'[i].stage = "sent" /\ saves'[i].kind = "decide")
      BY <3>1, Requested
    <3>3. QED
      BY <2>2, <3>2 DEF SentByButton
  <2>3. QED
    BY <1>8, <2>1, <2>2
<1>9. ASSUME NEW j \in Slots, Commit(j)
      PROVE  Unchanging(i) \/ (Commit(i) /\ saves'[i].stage = "committed" /\ saves'[i].kind = saves[i].kind)
  BY <1>1, <1>9, ZenonT(60) DEF Commit, Unchanging, Answered, Unsent
<1>10. ASSUME NEW j \in Slots, Refuse(j)
       PROVE  \/ Unchanging(i)
              \/ saves[i].stage = "sent" /\ saves'[i].stage = "refused" /\ saves'[i].kind = saves[i].kind
  BY <1>1, <1>10 DEF Refuse, Unchanging, Answered, Unsent
<1>11. ASSUME NEW j \in Slots, AnswerRefused(j) \/ LoseAnswer(j)
       PROVE  Unchanging(i) \/ saves'[i].stage = "over"
  BY <1>1, <1>11 DEF AnswerRefused, LoseAnswer, Failed, Unchanging, Unsent
<1>12. ASSUME NEW j \in Slots, AnswerOk(j)
       PROVE  \/ Unchanging(i)
              \/ saves[i].stage = "committed" /\ saves'[i].stage = "settling"
                   /\ saves'[i].kind = saves[i].kind
              \/ saves'[i].stage = "over"
  <2>1. CASE Continue({j})
    BY <1>4, <2>1
  <2>2. CASE saves' = [saves EXCEPT ![j].stage = "settling"] /\ saves[j].stage = "committed"
    BY <1>1, <2>2, SMTT(30) DEF Unchanging, Requests
  <2>3. QED
    BY <1>12, <2>1, <2>2 DEF AnswerOk
<1>13. ASSUME NEW j \in Slots, ReadStatus(j)
       PROVE  Unchanging(i) \/ (ReadStatus(i) /\ saves'[i].stage \in {"read", "locked"})
  BY <1>1, <1>13 DEF ReadStatus, Unchanging, Requests
<1>14. QED
  BY <1>3, <1>5, <1>6, <1>7, <1>8, <1>9, <1>10, <1>11, <1>12, <1>13 DEF Next

LEMMA HowStays ==
  ASSUME TypeInv, Next
  PROVE  how' = how /\ how \in Behaviours /\ HowType
BY HowIsBehaviour DEF Next, FetchRead, FetchAnswer, FetchFails, Refetch, OpenSheet, Type, CancelSheet,
   Submit, NothingToSave, OpenDialog, Decide, CloseDialog, ConfirmDialog, ReadStatus, Commit, Refuse,
   AnswerOk, AnswerRefused, LoseAnswer, Failed, Others, Leave, Return, TypeInv, TypeOK

\* A request on its way carries what its form showed; of a changed-only form, nothing for an
\* untouched field.
Carries(s) ==
  /\ s.kind \in {"create", "update"} /\ s.typed /\ (s.shown # Blank \/ how.field = "stored") =>
       s.value = s.shown
  /\ s.kind = "update" /\ how.sends = "changed" /\ ~s.typed => s.value = Omitted

SaveInv == \A i \in Slots : saves[i].stage = "sent" => Carries(saves[i])

LEMMA SentCarries ==
  ASSUME NEW f \in Instances, Draft(f), NEW kind
  PROVE  /\ Touched(f) /\ (f.shown # Blank \/ how.field = "stored") => Sent(f, kind) = f.shown
         /\ kind = "update" /\ how.sends = "changed" /\ ~Touched(f) => Sent(f, kind) = Omitted
BY DEF Draft, Touched, Sent

LEMMA SaveStep ==
  ASSUME TypeInv, FormInv, SaveInv, Next
  PROVE  SaveInv'
<1>1. how' = how
  BY HowStays
<1> SUFFICES ASSUME NEW i \in Slots, saves'[i].stage = "sent"
             PROVE  Carries(saves[i])'
  BY DEF SaveInv
<1>2. CASE Unchanging(i)
  BY <1>1, <1>2 DEF Unchanging, SaveInv, Carries
<1>3. CASE SentByForm(i)
  <2>1. form \in Instances /\ Draft(form)
    BY <1>3 DEF SentByForm, Submit, TypeInv, FormHere, FormInv
  <2> DEFINE kind == IF Target = New THEN "create" ELSE "update"
  <2>2. /\ saves'[i].kind = kind /\ saves'[i].value = Sent(form, kind)
        /\ saves'[i].shown = form.shown /\ saves'[i].typed = Touched(form)
    BY <1>3 DEF SentByForm
  <2>3. /\ Touched(form) /\ (form.shown # Blank \/ how.field = "stored") => Sent(form, kind) = form.shown
        /\ kind = "update" /\ how.sends = "changed" /\ ~Touched(form) => Sent(form, kind) = Omitted
    BY <2>1, SentCarries
  <2> HIDE DEF kind
  <2>4. QED
    BY <1>1, <2>2, <2>3 DEF Carries
<1>4. CASE SentByButton(i)
  BY <1>4 DEF SentByButton, Carries
<1>5. QED
  BY <1>2, <1>3, <1>4, RequestMoves

LEMMA SaveInit == Init => SaveInv
BY DEF Init, SaveInv, Unsent

\* Only the server's commit takes a request from sent to committed.
LEMMA CommittedByServer ==
  ASSUME TypeInv, [Next]_vars, NEW i \in Slots,
         saves[i].stage = "sent", saves'[i].stage = "committed"
  PROVE  Commit(i) /\ Next
<1>1. Next
  BY DEF vars
<1>2. QED
  BY <1>1, RequestMoves DEF Unchanging, SentByForm, SentByButton

\* Only a form sends while its sheet is open: the buttons of the rows lie under it.
LEMMA SubmittedByForm ==
  ASSUME TypeInv, FormInv, [Next]_vars, NEW i \in Slots, Submitted(i)
  PROVE  SentByForm(i)
<1>1. Next
  BY DEF vars, Submitted
<1>2. ~SentByButton(i)
  BY DEF SentByButton, ConfirmDialog, Decide, Submitted, FormInv
<1>3. QED
  BY <1>1, <1>2, RequestMoves DEF Submitted, Unchanging

\* What is written for a record was listed or typed for it: the form shown is the form of
\* the record of the sheet, by its key, its reset or its condition, on every page.
THEOREM SavesOwnRowHolds == Spec => SavesOwnRow
<1>1. TypeInv /\ FormInv /\ [Next]_vars =>
        FormInv' /\ [\A i \in Slots : Submitted(i) => saves'[i].row = form.for]_vars
  <2>1. ASSUME TypeInv, FormInv, [Next]_vars, NEW i \in Slots, Submitted(i)
        PROVE  saves'[i].row = form.for
    <3>1. SentByForm(i)
      BY <2>1, SubmittedByForm
    <3>2. QED
      BY <2>1, <3>1 DEF SentByForm, Target, Submitted, FormInv
  <2>2. ASSUME FormInv, UNCHANGED vars PROVE FormInv'
    BY <2>2 DEF FormInv, vars, Draft, StartsOver
  <2>3. QED
    BY <2>1, <2>2, FormStep
<1>2. QED
  BY <1>1, FormInit, TypeInit, TypeStep, PTL DEF Spec, SavesOwnRow

\* An untouched field is sent as the list showed it when its sheet opened, where the form
\* starts over at each opening.
THEOREM UntouchedAsListedHolds == Spec => UntouchedAsListed
<1> DEFINE Untouched(i) == how.mount \in {"whileOpen", "keyedOpen", "resetOnOpen"} /\ ~form.typed
<1>1. TypeInv /\ FormInv /\ [Next]_vars =>
        FormInv' /\ [\A i \in Slots : Submitted(i) /\ how.mount \in {"whileOpen", "keyedOpen", "resetOnOpen"}
                        /\ ~form.typed => form.shown = sheet.listed]_vars
  <2>1. ASSUME TypeInv, FormInv, [Next]_vars, NEW i \in Slots, Submitted(i), Untouched(i)
        PROVE  form.shown = sheet.listed
    BY <2>1 DEF FormInv, StartsOver, Submitted
  <2>2. ASSUME FormInv, UNCHANGED vars PROVE FormInv'
    BY <2>2 DEF FormInv, vars, Draft, StartsOver
  <2>3. QED
    BY <2>1, <2>2, FormStep
<1>2. QED
  BY <1>1, FormInit, TypeInit, TypeStep, PTL DEF Spec, UntouchedAsListed

LEMMA SaveBooks ==
  TypeInv /\ FormInv /\ SaveInv /\ [Next]_vars => TypeInv' /\ FormInv' /\ SaveInv'
<1>1. ASSUME FormInv, SaveInv, UNCHANGED vars PROVE FormInv' /\ SaveInv'
  BY <1>1 DEF FormInv, SaveInv, Carries, vars, Draft, StartsOver
<1>2. QED
  BY <1>1, TypeStep, FormStep, SaveStep

\* A save of a changed-only form leaves alone what its user did not touch.
THEOREM UntouchedKeptHolds == Spec => UntouchedKept
<1> DEFINE Kept(i) == saves[i].stage = "sent" /\ saves'[i].stage = "committed"
                        /\ saves[i].kind = "update" /\ how.sends = "changed" /\ ~saves[i].typed
<1>1. TypeInv /\ SaveInv /\ [Next]_vars =>
        [\A i \in Slots :
           saves[i].stage = "sent" /\ saves'[i].stage = "committed" /\ saves[i].kind = "update"
             /\ how.sends = "changed" /\ ~saves[i].typed => rows' = rows]_vars
  <2>1. ASSUME TypeInv, SaveInv, [Next]_vars, NEW i \in Slots, Kept(i)
        PROVE  rows' = rows
    <3>1. Commit(i)
      BY <2>1, CommittedByServer
    <3>2. saves[i].value = Omitted /\ saves[i].kind = "update"
      BY <2>1 DEF SaveInv, Carries
    <3>3. PICK r \in Rows : rows' = [rows EXCEPT ![r] = Written(saves[i], r)]
      BY <3>1 DEF Commit
    <3>4. Written(saves[i], r) = rows[r]
      BY <3>2 DEF Written
    <3>5. QED
      BY <2>1, <3>3, <3>4 DEF TypeInv, TypeOK, RowsType
  <2>2. QED
    BY <2>1
<1>2. QED
  BY <1>1, SaveBooks, SaveInit, FormInit, TypeInit, PTL DEF Spec, UntouchedKept

\* An accepted save stores what its form showed, with the exceptions the property names.
THEOREM StoredAsShownHolds == Spec => StoredAsShown
<1> DEFINE Typed(i) == saves[i].stage = "sent" /\ saves'[i].stage = "committed"
                        /\ saves[i].kind \in {"create", "update"} /\ saves[i].typed
                        /\ (saves[i].shown # Blank \/ how.field = "stored")
                        /\ ~(saves[i].kind = "update" /\ how.field \in Unknown)
<1>1. TypeInv /\ SaveInv /\ [Next]_vars =>
        [\A i \in Slots :
           saves[i].stage = "sent" /\ saves'[i].stage = "committed"
             /\ saves[i].kind \in {"create", "update"} /\ saves[i].typed
             /\ (saves[i].shown # Blank \/ how.field = "stored")
             /\ ~(saves[i].kind = "update" /\ how.field \in Unknown) =>
           \E r \in Rows : rows'[r] = saves[i].shown]_vars
  <2>1. ASSUME TypeInv, SaveInv, [Next]_vars, NEW i \in Slots, Typed(i)
        PROVE  \E r \in Rows : rows'[r] = saves[i].shown
    <3>1. Commit(i)
      BY <2>1, CommittedByServer
    <3>2. saves[i].value = saves[i].shown /\ saves[i].shown \in Stored
      BY <2>1 DEF SaveInv, Carries, TypeInv, TypeOK, Requests
    <3>3. PICK r \in Rows : rows' = [rows EXCEPT ![r] = Written(saves[i], r)]
      BY <3>1 DEF Commit
    <3>4. Written(saves[i], r) = saves[i].shown
      BY <2>1, <3>2, PageAssumption DEF Written
    <3>5. QED
      BY <2>1, <3>3, <3>4 DEF TypeInv, TypeOK, RowsType
  <2>2. QED
    BY <2>1
<1>2. QED
  BY <1>1, SaveBooks, SaveInit, FormInit, TypeInit, PTL DEF Spec, StoredAsShown

--------------------------------------------------------------------------------
(* Verdicts.  Leave has no form that edits its status and no dialog that deletes it; what
   approves it holds the lock of a row that nobody rejected or cancelled.              *)

VerdictInv ==
  /\ \A i \in Slots :
       /\ saves[i].stage = "locked" =>
            /\ how.decides = "leave" /\ saves[i].kind = "decide" /\ saves[i].value = Approved
            /\ \A r \in Rows : saves[i].row = r => rows[r] \notin {Absent, Rejected, Cancelled}
       /\ saves[i].stage = "read" =>
            saves[i].kind = "decide" /\ (how.decides = "leave" => saves[i].value # Approved)
  /\ how.decides = "leave" =>
       /\ sheet.row = New /\ dialog = New
       /\ \A i \in Slots : saves[i].stage = "sent" => saves[i].kind \notin {"update", "remove"}

LEMMA VerdictInit == Init => VerdictInv
BY DEF Init, VerdictInv, Unsent

LEMMA VerdictTypes ==
  ASSUME TypeInv
  PROVE  /\ saves \in [Slots -> Requests] /\ rows \in [Rows -> Stored \cup {Absent}]
         /\ sheet \in [open : BOOLEAN, row : Rows \cup {New}, listed : Stored]
BY DEF TypeInv, TypeOK, RowsType

LEMMA VerdictsApart ==
  /\ Approved # Blank /\ Approved # Absent /\ Approved # Rejected /\ Approved # Cancelled
  /\ Rejected # Blank /\ Rejected # Absent /\ Cancelled # Blank /\ Cancelled # Absent
  /\ Blank # Absent /\ Approved # Omitted
BY PageAssumption DEF Stored, Verdicts

\* Of leave, the sheet opens for new requests only and no dialog opens.
LEMMA LeaveSheet ==
  ASSUME TypeInv, VerdictInv, Next, how.decides = "leave"
  PROVE  sheet'.row = New /\ dialog' = New
<1>1. ~how.edits /\ ~how.removes /\ sheet.row = New /\ dialog = New
  BY CatalogAssumption DEF VerdictInv, TypeInv, TypeOK
<1>2. CloseSheet => sheet'.row = New
  BY <1>1, VerdictTypes DEF CloseSheet
<1>3. ASSUME NEW done, Continue(done) PROVE sheet'.row = New /\ dialog' = New
  BY <1>1, <1>2, <1>3 DEF Continue
<1>4. CASE FetchAnswer \/ FetchFails
  BY <1>3, <1>4 DEF FetchAnswer, FetchFails
<1>5. ASSUME NEW r \in Rows \cup {New}, OpenSheet(r) PROVE sheet'.row = New /\ dialog' = New
  BY <1>1, <1>5 DEF OpenSheet
<1>6. CASE CancelSheet \/ NothingToSave \/ Leave
  BY <1>1, <1>2, <1>6 DEF CancelSheet, NothingToSave, Leave
<1>7. ASSUME NEW i \in Slots, AnswerOk(i) PROVE sheet'.row = New /\ dialog' = New
  <2>1. CASE Continue({i})
    BY <1>3, <2>1
  <2>2. CASE UNCHANGED <<sheet, form, dialog>>
    BY <1>1, <2>2
  <2>3. QED
    BY <1>7, <2>1, <2>2, SMTT(30) DEF AnswerOk
<1>8. CASE FetchRead \/ Refetch \/ Others \/ Return \/ CloseDialog \/ Submit \/ ConfirmDialog
           \/ (\E v \in Values \cup {Blank} : Type(v)) \/ (\E r \in Rows : OpenDialog(r))
           \/ (\E r \in Rows, v \in Verdicts : Decide(r, v))
           \/ \E i \in Slots : \/ ReadStatus(i) \/ Commit(i) \/ Refuse(i)
                              \/ AnswerRefused(i) \/ LoseAnswer(i)
  BY <1>1, <1>8, ZenonT(60) DEF FetchRead, Refetch, Others, Return, CloseDialog, Submit, ConfirmDialog, Type,
     OpenDialog, Decide, ReadStatus, Commit, Refuse, AnswerRefused, LoseAnswer, Failed
<1>9. QED
  BY <1>4, <1>5, <1>6, <1>7, <1>8 DEF Next

\* What a step writes into a row that an approval has locked is that approval.
LEMMA LockHolds ==
  ASSUME TypeInv, VerdictInv, Next, NEW i \in Slots, saves[i].stage = "locked",
         NEW r \in Rows, saves[i].row = r
  PROVE  rows'[r] \notin {Absent, Rejected, Cancelled}
<1>1. rows[r] \notin {Absent, Rejected, Cancelled} /\ Locked(r)
  BY DEF VerdictInv, Locked
<1>2. ASSUME NEW j \in Slots, Commit(j) PROVE rows'[r] \notin {Absent, Rejected, Cancelled}
  <2>1. PICK q \in Rows :
          /\ IF saves[j].kind = "create" THEN rows[q] = Absent ELSE q = saves[j].row
          /\ rows' = [rows EXCEPT ![q] = Written(saves[j], q)]
    BY <1>2 DEF Commit
  <2>2. CASE q # r
    BY <1>1, <2>1, <2>2, VerdictTypes
  <2>3. CASE q = r
    <3>1. saves[j].kind # "create" /\ saves[j].row = r
      BY <1>1, <2>1, <2>3
    <3>2. CASE saves[j].stage = "locked"
      <4>1. Written(saves[j], q) = Approved
        BY <3>2, VerdictsApart DEF VerdictInv, Written
      <4>2. QED
        BY <2>1, <2>3, <4>1, VerdictTypes, VerdictsApart
    <3>3. CASE saves[j].stage = "sent" /\ ~Reads(saves[j])
      <4>1. how.decides = "leave"
        BY DEF VerdictInv
      <4>2. QED
        BY <3>1, <3>3, <4>1, VerdictTypes DEF VerdictInv, Reads, Requests
    <3>4. QED
      BY <1>1, <1>2, <3>1, <3>2, <3>3 DEF Commit
  <2>4. QED
    BY <2>2, <2>3
<1>3. CASE Others
  BY <1>1, <1>3, VerdictTypes DEF Others
<1>4. CASE rows' = rows
  BY <1>1, <1>4
<1>5. QED
  BY <1>2, <1>3, <1>4 DEF Next, FetchRead, FetchAnswer, FetchFails, Refetch, OpenSheet,
     Type, CancelSheet, Submit, NothingToSave, OpenDialog, Decide, CloseDialog, ConfirmDialog,
     ReadStatus, Refuse, AnswerOk, AnswerRefused, LoseAnswer, Failed, Leave, Return

LEMMA VerdictStep ==
  ASSUME TypeInv, VerdictInv, Next
  PROVE  VerdictInv'
<1>1. how' = how
  BY HowStays
<1>2. ASSUME NEW i \in Slots, ReadStatus(i)
      PROVE  /\ saves'[i].stage = "locked" =>
                  /\ how.decides = "leave" /\ saves'[i].kind = "decide" /\ saves'[i].value = Approved
                  /\ \A r \in Rows : saves'[i].row = r =>
                                      rows'[r] \notin {Absent, Rejected, Cancelled}
             /\ saves'[i].stage = "read" =>
                  saves'[i].kind = "decide" /\ (how.decides = "leave" => saves'[i].value # Approved)
  <2>1. /\ saves'[i].kind = saves[i].kind /\ saves'[i].value = saves[i].value
        /\ saves'[i].row = saves[i].row /\ rows' = rows /\ saves[i].kind = "decide"
        /\ saves'[i].stage = IF Locks(saves[i].value) THEN "locked" ELSE "read"
    BY <1>2, VerdictTypes, ZenonT(60) DEF ReadStatus, Reads, Requests
  <2>2. CASE Locks(saves[i].value)
    <3>1. how.decides = "leave" /\ saves[i].value = Approved
      BY <2>2 DEF Locks
    <3>2. ASSUME NEW r \in Rows, saves[i].row = r
          PROVE  rows[r] \notin {Absent, Rejected, Cancelled}
      <4>1. Allowed(rows[r], Approved)
        BY <1>2, <2>1, <3>1, <3>2 DEF ReadStatus, Acceptable
      <4>2. QED
        BY <3>1, <4>1, VerdictsApart DEF Allowed
    <3>3. QED
      BY <2>1, <2>2, <3>1, <3>2
  <2>3. CASE ~Locks(saves[i].value)
    BY <2>1, <2>3 DEF Locks
  <2>4. QED
    BY <2>2, <2>3
<1>3. ASSUME NEW i \in Slots
      PROVE  /\ saves'[i].stage = "locked" =>
                  /\ how.decides = "leave" /\ saves'[i].kind = "decide" /\ saves'[i].value = Approved
                  /\ \A r \in Rows : saves'[i].row = r =>
                                      rows'[r] \notin {Absent, Rejected, Cancelled}
             /\ saves'[i].stage = "read" =>
                  saves'[i].kind = "decide" /\ (how.decides = "leave" => saves'[i].value # Approved)
  <2>1. CASE Unchanging(i)
    <3>1. /\ saves'[i].stage = saves[i].stage /\ saves'[i].kind = saves[i].kind
          /\ saves'[i].value = saves[i].value /\ saves'[i].row = saves[i].row
      BY <2>1 DEF Unchanging
    <3>2. ASSUME saves[i].stage = "locked", NEW r \in Rows, saves[i].row = r
          PROVE  rows'[r] \notin {Absent, Rejected, Cancelled}
      BY <3>2, LockHolds
    <3>3. QED
      BY <3>1, <3>2 DEF VerdictInv
  <2>2. CASE ReadStatus(i)
    BY <1>2, <2>2
  <2>3. CASE saves'[i].stage \notin {"read", "locked"}
    BY <2>3
  <2>4. QED
    BY <2>1, <2>2, <2>3, RequestMoves
<1>4. ASSUME how.decides = "leave", NEW i \in Slots, saves'[i].stage = "sent"
      PROVE  saves'[i].kind \notin {"update", "remove"}
  <2>1. how.mount # "followsRow" /\ sheet.row = New /\ dialog = New
    BY <1>4, CatalogAssumption DEF VerdictInv, TypeInv, TypeOK
  <2>2. Target = New /\ ~ConfirmDialog
    BY <2>1 DEF Target, ConfirmDialog
  <2>3. CASE SentByButton(i)
    <3>1. PICK r \in Rows, v \in Verdicts : Request("decide", r, v)
      BY <2>2, <2>3 DEF SentByButton, Decide
    <3>2. QED
      BY <1>4, <2>3, <3>1, Requested DEF SentByButton, Unchanging
  <2>4. CASE ~SentByButton(i)
    BY <1>4, <2>2, <2>4, RequestMoves DEF Unchanging, SentByForm, VerdictInv
  <2>5. QED
    BY <2>3, <2>4
<1>5. QED
  BY <1>1, <1>3, <1>4, LeaveSheet DEF VerdictInv

\* A leave request that was rejected or cancelled is not approved after all, whatever was
\* read before: the approval looks at the status under the lock that keeps others off it.
THEOREM RefusalStandsHolds == Spec => RefusalStands
<1>1. TypeInv /\ VerdictInv /\ [Next]_vars =>
        VerdictInv' /\ [\A r \in Rows : how.decides = "leave" /\ rows[r] \in {Rejected, Cancelled} =>
                          rows'[r] # Approved]_vars
  <2>1. ASSUME TypeInv, VerdictInv, Next, NEW r \in Rows, how.decides = "leave",
               rows[r] \in {Rejected, Cancelled}
        PROVE  rows'[r] # Approved
    <3>1. /\ rows[r] # Absent /\ rows[r] # Approved /\ rows[r] # Blank
          /\ rows \in [Rows -> Stored \cup {Absent}] /\ saves \in [Slots -> Requests]
      BY <2>1, VerdictTypes, VerdictsApart
    <3>2. ASSUME NEW i \in Slots, Commit(i) PROVE rows'[r] # Approved
      <4>1. PICK q \in Rows :
              /\ IF saves[i].kind = "create" THEN rows[q] = Absent ELSE q = saves[i].row
              /\ rows' = [rows EXCEPT ![q] = Written(saves[i], q)]
        BY <3>2 DEF Commit
      <4>2. CASE q # r
        BY <3>1, <4>1, <4>2
      <4>3. CASE q = r
        <5>1. saves[i].kind # "create" /\ saves[i].row = r
          BY <3>1, <4>1, <4>3
        <5>2. saves[i].stage # "locked"
          BY <2>1, <5>1 DEF VerdictInv
        <5>3. saves[i].stage = "sent" => saves[i].kind = "decide"
          BY <2>1, <3>1, <5>1 DEF VerdictInv, Requests
        <5>4. saves[i].stage = "read"
          BY <2>1, <3>2, <5>2, <5>3 DEF Commit, Reads
        <5>5. saves[i].kind = "decide" /\ saves[i].value # Approved
          BY <2>1, <5>4 DEF VerdictInv
        <5>6. Written(saves[i], q) # Approved
          BY <5>5, VerdictsApart DEF Written
        <5>7. QED
          BY <3>1, <4>1, <4>3, <5>6
      <4>4. QED
        BY <4>2, <4>3
    <3>3. CASE Others
      <4>1. PICK q \in Rows : \E v \in OthersWrite(q) : rows' = [rows EXCEPT ![q] = v]
        BY <3>3 DEF Others
      <4>2. q = r => Approved \notin OthersWrite(q)
        BY <2>1, <3>1, VerdictsApart DEF OthersWrite, Locks, Allowed
      <4>3. QED
        BY <3>1, <4>1, <4>2
    <3>4. CASE rows' = rows
      BY <3>1, <3>4
    <3>5. QED
      BY <2>1, <3>2, <3>3, <3>4 DEF Next, FetchRead, FetchAnswer, FetchFails, Refetch, OpenSheet,
         Type, CancelSheet, Submit, NothingToSave, OpenDialog, Decide, CloseDialog, ConfirmDialog,
         ReadStatus, Refuse, AnswerOk, AnswerRefused, LoseAnswer, Failed, Leave, Return
  <2>2. ASSUME VerdictInv, UNCHANGED vars PROVE VerdictInv'
    BY <2>2 DEF VerdictInv, vars
  <2>3. QED
    BY <2>1, <2>2, VerdictStep, SMTT(30)
<1>2. QED
  BY <1>1, VerdictInit, TypeInit, TypeStep, PTL DEF Spec, RefusalStands

--------------------------------------------------------------------------------
(* Failures.  A pending save whose sheet nobody closed is the one its form shows as pending. *)

OfForm(s) ==
  /\ s.stage \in {"sent", "read", "locked", "committed", "refused", "settling"}
  /\ s.kind \in {"create", "update"} /\ s.left = "no"

ToldInv == \A i \in Slots : OfForm(saves[i]) => sheet.open /\ form.sending = i

LEMMA ToldInit == Init => ToldInv
BY DEF Init, ToldInv, OfForm, Unsent

\* The continuations of other requests close the sheet over a pending save or leave it.
LEMMA ContinueTold ==
  ASSUME TypeInv, ToldInv, NEW done, Continue(done), NEW i \in Slots, OfForm(saves'[i])
  PROVE  /\ UNCHANGED sheet /\ sheet.open /\ form.sending = i
         /\ ContinuedForm(done) = form
<1>1. saves \in [Slots -> Requests]
  BY DEF TypeInv, TypeOK
<1>2. i \notin done
  BY DEF Continue, OfForm, Unsent
<1>3. saves'[i] \in {saves[i], [saves[i] EXCEPT !.left = "sheet"]}
  BY <1>2 DEF Continue
<1>4. saves'[i] = saves[i]
  BY <1>1, <1>3 DEF OfForm, Requests
<1>5. sheet.open /\ form.sending = i
  BY <1>4 DEF ToldInv
<1>6. ~Closes(done)
  <2>1. ASSUME Closes(done) PROVE FALSE
    <3>1. saves'[i] = [saves[i] EXCEPT !.left = "sheet"]
      BY <1>2, <1>5, <2>1 DEF Continue
    <3>2. QED
      BY <1>1, <3>1 DEF OfForm, Requests
  <2>2. QED
    BY <2>1
<1>7. QED
  BY <1>5, <1>6 DEF Continue, ContinuedForm

LEMMA ToldStep ==
  ASSUME TypeInv, ToldInv, Next
  PROVE  ToldInv'
<1>1. /\ saves \in [Slots -> Requests] /\ \A i \in Slots : i # 0
      /\ sheet \in [open : BOOLEAN, row : Rows \cup {New}, listed : Stored]
      /\ sheet.open => form \in Instances
  BY DEF TypeInv, TypeOK, FormHere, Slots
<1> SUFFICES ASSUME NEW i \in Slots, OfForm(saves'[i])
             PROVE  sheet'.open /\ form'.sending = i
  BY DEF ToldInv, OfForm
<1>2. ASSUME OfForm(saves[i]), UNCHANGED <<sheet, form>> PROVE sheet'.open /\ form'.sending = i
  BY <1>2 DEF ToldInv
<1>3. CASE FetchRead \/ Refetch \/ Others \/ CloseDialog \/ (\E r \in Rows : OpenDialog(r))
  BY <1>2, <1>3 DEF FetchRead, Refetch, Others, CloseDialog, OpenDialog
<1>4. CASE FetchAnswer
  <2>1. UNCHANGED sheet /\ sheet.open /\ form.sending = i /\ ContinuedForm(Settling) = form
    BY <1>4, ContinueTold DEF FetchAnswer
  <2>2. form \in Forms /\ form \in Instances /\ sheet.row \in Ids /\ fetch.rows \in RowsType
    BY <1>1, <1>4, <2>1 DEF FetchAnswer, TypeInv, TypeOK, Forms, Fetches, Ids
  <2>3. form' \in Followed(fetch.rows, form)
    BY <1>4, <2>1 DEF FetchAnswer
  <2>4. form'.sending = form.sending
    BY <2>2, <2>3, FollowedType
  <2>5. QED
    BY <2>1, <2>4
<1>5. CASE FetchFails
  BY <1>5, ContinueTold DEF FetchFails
<1>6. ASSUME NEW r \in Rows \cup {New}, OpenSheet(r) PROVE FALSE
  BY <1>6 DEF OpenSheet, ToldInv
<1>7. ASSUME NEW v \in Values \cup {Blank}, Type(v) PROVE sheet'.open /\ form'.sending = i
  <2>1. OfForm(saves[i]) /\ UNCHANGED sheet /\ form' = [form EXCEPT !.shown = v, !.typed = TRUE]
        /\ form \in Instances
    BY <1>1, <1>7 DEF Type
  <2>2. form'.sending = form.sending
    BY <2>1 DEF Instances
  <2>3. QED
    BY <2>1, <2>2 DEF ToldInv
<1>8. CASE CancelSheet
  <2>1. saves'[i] = IF i = form.sending THEN [saves[i] EXCEPT !.left = "sheet"] ELSE saves[i]
    BY <1>8 DEF CancelSheet
  <2>2. i # form.sending
    BY <1>1, <2>1 DEF OfForm, Requests
  <2>3. QED
    BY <2>1, <2>2 DEF ToldInv
<1>9. CASE Submit
  <2>1. CASE Unchanging(i)
    <3>1. saves'[i] = saves[i]
      <4> DEFINE kind == IF Target = New THEN "create" ELSE "update"
      <4>1. PICK j \in Free : saves' = [saves EXCEPT ![j] =
              [Unsent EXCEPT !.stage = "sent", !.kind = kind, !.row = Target,
                 !.value = Sent(form, kind), !.shown = form.shown, !.typed = Touched(form)]]
        BY <1>9 DEF Submit
      <4> HIDE DEF kind
      <4>2. saves[j].stage = "unsent" /\ j \in Slots
        BY PageAssumption DEF Free, Slots
      <4>3. i = j => saves'[i].stage = "sent"
        BY <1>1, <4>1, <4>2 DEF Unsent
      <4>4. QED
        BY <1>1, <2>1, <4>1, <4>2, <4>3 DEF Unchanging
    <3>2. form.sending = i
      BY <3>1 DEF ToldInv
    <3>3. QED
      BY <1>1, <1>9, <3>2 DEF Submit
  <2>2. CASE SentByForm(i) /\ saves'[i].stage = "sent" /\ form'.sending = i
    BY <1>9, <2>2 DEF Submit
  <2>3. QED
    BY <1>9, <2>1, <2>2, Submitting
<1>10. CASE NothingToSave
  BY <1>1, <1>10 DEF NothingToSave, ToldInv
<1>11. ASSUME NEW kind \in {"remove", "decide"}, NEW r, NEW v, Request(kind, r, v),
              UNCHANGED <<sheet, form>>
       PROVE  sheet'.open /\ form'.sending = i
  <2>1. PICK j \in Free : saves' = [saves EXCEPT ![j] =
          [Unsent EXCEPT !.stage = "sent", !.kind = kind, !.row = r, !.value = v]]
    BY <1>11 DEF Request
  <2>2. i # j
    BY <1>1, <2>1 DEF OfForm, Unsent
  <2>3. QED
    BY <1>1, <1>2, <1>11, <2>1, <2>2
<1>12. CASE ConfirmDialog \/ \E r \in Rows, v \in Verdicts : Decide(r, v)
  BY <1>11, <1>12 DEF ConfirmDialog, Decide
<1>13. ASSUME NEW j \in Slots, ReadStatus(j) \/ Commit(j) \/ Refuse(j)
       PROVE  sheet'.open /\ form'.sending = i
  <2>1. UNCHANGED <<sheet, form>> /\ saves[j].stage \in {"sent", "read", "locked"}
    BY <1>13 DEF ReadStatus, Commit, Refuse
  <2>2. i # j => saves'[i] = saves[i]
    BY <1>1, <1>13 DEF ReadStatus, Commit, Refuse
  <2>3. saves'[j].kind = saves[j].kind /\ saves'[j].left = saves[j].left
    <3>1. CASE ReadStatus(j)
      BY <1>1, <3>1 DEF ReadStatus, Requests
    <3>2. CASE Commit(j) \/ Refuse(j)
      <4>1. \/ saves'[j] = [Answered(saves[j]) EXCEPT !.stage = "committed", !.at = version + 1]
            \/ saves'[j] = [Answered(saves[j]) EXCEPT !.stage = "refused"]
        BY <1>1, <3>2 DEF Commit, Refuse
      <4>2. QED
        BY <4>1 DEF Answered, Unsent
    <3>3. QED
      BY <1>13, <3>1, <3>2
  <2>4. QED
    BY <1>2, <2>1, <2>2, <2>3 DEF OfForm
<1>14. ASSUME NEW j \in Slots, Failed(j) PROVE sheet'.open /\ form'.sending = i
  <2>1. i # j /\ saves'[i] = saves[i] /\ UNCHANGED sheet /\ form' = Settled(form, {j})
    BY <1>1, <1>14 DEF Failed, OfForm, Unsent
  <2>2. sheet.open /\ form.sending = i /\ form \in Instances
    BY <1>1, <2>1 DEF ToldInv
  <2>3. QED
    BY <2>1, <2>2 DEF Settled
<1>15. ASSUME NEW j \in Slots, AnswerOk(j) PROVE sheet'.open /\ form'.sending = i
  <2>1. CASE Continue({j}) /\ form' = ContinuedForm({j})
    BY <2>1, ContinueTold
  <2>2. CASE saves' = [saves EXCEPT ![j].stage = "settling"] /\ UNCHANGED <<sheet, form>>
    <3>1. saves[j].stage = "committed"
      BY <1>15 DEF AnswerOk
    <3>2. OfForm(saves[i])
      BY <1>1, <2>2, <3>1 DEF OfForm, Requests
    <3>3. QED
      BY <1>2, <2>2, <3>2
  <2>3. QED
    BY <1>15, <2>1, <2>2 DEF AnswerOk
<1>16. CASE Leave
  <2>1. saves'[i] = IF saves[i].stage \in {"unsent", "over"} THEN saves[i]
                    ELSE [saves[i] EXCEPT !.left = "page"]
    BY <1>16 DEF Leave
  <2>2. QED
    BY <1>1, <2>1 DEF OfForm, Requests
<1>17. CASE Return
  BY <1>17 DEF Return, ToldInv, TypeInv, FormHere
<1>18. QED
  BY <1>3, <1>4, <1>5, <1>6, <1>7, <1>8, <1>9, <1>10, <1>12, <1>13, <1>14, <1>15, <1>16, <1>17
     DEF Next, AnswerRefused, LoseAnswer

\* Every save of the catalogue tells of its failure, by a toast or on its form.
TellsAll == \A b \in Behaviours : b.tells # "never"

\* A failed save is told to the user unless its sheet was closed over it or the page left:
\* its form is then still mounted and still waits for that very save.
THEOREM FailureToldHolds ==
  ASSUME TellsAll
  PROVE  Spec => FailureTold
<1>1. TypeInv /\ ToldInv /\ [Next]_vars =>
        ToldInv' /\ [\A i \in Slots :
          (AnswerRefused(i) \/ LoseAnswer(i)) /\ saves[i].left = "no" => Told(i)]_vars
  <2>1. ASSUME TypeInv, ToldInv, NEW i \in Slots, AnswerRefused(i) \/ LoseAnswer(i),
               saves[i].left = "no"
        PROVE  Told(i)
    <3>1. how.tells \in {"always", "onForm"}
      BY <2>1, HowIsBehaviour DEF TellsAll, TypeInv, TypeOK, HowType, Behaviour
    <3>2. saves[i].stage \in {"sent", "read", "locked", "committed", "refused"}
      BY <2>1 DEF AnswerRefused, LoseAnswer
    <3>3. CASE saves[i].kind \in {"create", "update"}
      <4>1. sheet.open /\ form.sending = i
        BY <2>1, <3>2, <3>3 DEF ToldInv, OfForm
      <4>2. form # NoForm
        BY <2>1, <4>1, PageAssumption DEF TypeInv, FormHere
      <4>3. QED
        BY <3>1, <4>1, <4>2 DEF Told
    <3>4. CASE saves[i].kind \notin {"create", "update"}
      BY <3>4 DEF Told
    <3>5. QED
      BY <3>3, <3>4
  <2>2. ASSUME ToldInv, UNCHANGED vars PROVE ToldInv'
    BY <2>2 DEF ToldInv, OfForm, vars
  <2>3. QED
    BY <2>1, <2>2, ToldStep
<1>2. QED
  BY <1>1, ToldInit, TypeInit, TypeStep, PTL DEF Spec, FailureTold

================================================================================
