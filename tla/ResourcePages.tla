------------------------------ MODULE ResourcePages ------------------------------
(* One list page of the browser client with its sheet, its form, its delete dialog
   and the query cache behind its list.  The page follows one field of its rows,
   the probe: rows(r) is what the server stores there.  Which page and which field
   it is comes from the catalogue (PageCatalog): a behaviour is what the page's
   files make of the field, and Behaviours is the set of the behaviours found there.

   The list is one query of TanStack Query, read over HTTP in two steps (the server
   reads its rows, the answer arrives), while saves of this browser, cancelled
   sheets, other users and page changes go on.                                     *)
EXTENDS Naturals, FiniteSets

CONSTANTS
  Rows,        \* ids of the records a list can hold
  Values,      \* contents a user can type
  Blank,       \* the empty input, '' or null in the row
  Filled,      \* what a form writes for an empty input when it substitutes a default
  Approved,    \* what the buttons of a row make of its status, Blank before
  Rejected,
  Cancelled,
  Absent,      \* no such row
  New,         \* the row a form without a record will create
  Omitted,     \* the field is not in the request body
  NoForm,      \* no form instance is mounted
  Idle, Asked, \* no list request; a list request the server has not read for
  Behaviours,  \* what the catalogue's pages do with their fields
  MaxSaves,    \* requests that change rows, in a story of row buttons
  FormSaves,   \* the same in a story of the form
  MaxTurns,    \* turns of events: a change by another user, a refused save, a lost
  FormTurns,   \* answer, a failed list request, the user leaving the page
  Start        \* the rows the story starts with

Verdicts == {Approved, Rejected, Cancelled}
Stored == Values \cup Verdicts \cup {Blank, Filled}
Slots == 1..MaxSaves
MaxVersion == MaxSaves + MaxTurns

Behaviour ==
  [story : {"form", "buttons"},
   mount : {"keyed", "whileOpen", "keyedOpen", "resetOnOpen", "followsRow", "bare"},
   forgets : BOOLEAN, refetches : BOOLEAN,
   adds : BOOLEAN, edits : BOOLEAN, removes : BOOLEAN, decides : {"no", "leave", "adjustment", "overtime"},
   sends : {"all", "changed"}, tells : {"always", "onForm", "never"},
   field : {"stored", "dropped", "filled", "seeded", "rate", "required", "refused", "fixed",
            "kept", "once", "unsent"},
   refreshes : BOOLEAN, awaits : BOOLEAN, removeRefreshes : BOOLEAN, removeAwaits : BOOLEAN,
   removeEnds : BOOLEAN, removesOnce : BOOLEAN]

\* A mounted form: the record it is for, its default and its content for the probe, and the
\* request its mutation has pending.
Instances ==
  [for : Rows \cup {New}, base : Stored, shown : Stored, typed : BOOLEAN, sending : 0..MaxSaves]

ASSUME PageAssumption ==
  /\ Behaviours \subseteq Behaviour
  /\ MaxSaves \in Nat /\ MaxTurns \in Nat /\ FormSaves \in 0..MaxSaves /\ FormTurns \in 0..MaxTurns
  /\ Start \in [Rows -> Values \cup {Absent}]
  /\ New \notin Rows
  /\ Absent \notin Stored /\ Omitted \notin Stored /\ Blank \notin Verdicts
  /\ Approved \notin {Rejected, Cancelled}
  /\ NoForm \notin Instances
  /\ Idle # Asked

\* A form that keeps its instance whatever its sheet is opened for serves a page that only
\* adds; a page whose verdicts look at the row's status has no other way to change its rows.
ASSUME CatalogAssumption ==
  \A b \in Behaviours :
    /\ b.mount = "bare" => ~b.edits
    /\ b.decides \in {"leave", "adjustment"} => ~b.edits /\ ~b.removes /\ b.mount # "followsRow"

VARIABLES
  how,      \* the behaviour of the page and field under study
  rows,     \* the server's rows
  version,  \* changes committed so far, this browser's and others'
  list,     \* the cached answer: its rows, their version, loaded, stale, failed
  fetch,    \* the list request in flight: Idle, Asked or the answer on its way
  due,      \* newest change whose answer reached this browser while it showed the list
  here,     \* the page is on screen
  sheet,    \* the sheet: open, its record (editing), what the list showed for it
  form,     \* the mounted form instance
  dialog,   \* the row the delete dialog is open for, or New
  saves,    \* the requests of this browser
  turns     \* turns of events still to come

vars == <<how, rows, version, list, fetch, due, here, sheet, form, dialog, saves, turns>>
listVars == <<list, fetch>>
pageVars == <<here, sheet, form, dialog>>

Unsent == [stage |-> "unsent", kind |-> "create", row |-> New, value |-> Omitted,
           shown |-> Blank, typed |-> FALSE, at |-> 0, left |-> "no"]

Later(a, b) == IF a >= b THEN a ELSE b

--------------------------------------------------------------------------------
(* The form instance. *)

Fresh(row, seen) ==
  [for |-> row, base |-> seen, shown |-> seen, typed |-> FALSE, sending |-> 0]

\* form.reset(defaults): new defaults and values, the pending mutation stays.
Reset(f, row, seen) ==
  [f EXCEPT !.for = row, !.base = seen, !.shown = seen, !.typed = FALSE]

Mounted == IF how.mount \in {"whileOpen", "keyedOpen"} THEN NoForm ELSE Fresh(New, Blank)

\* Slip: the form keeps its instance from one record to the next.
OpenedKeyless(row, seen) ==
  IF how.mount \in {"whileOpen", "keyedOpen"} THEN Fresh(row, seen)
  ELSE IF how.mount = "resetOnOpen" THEN Reset(form, row, seen)
  ELSE form

\* Slip: the reset runs only when the record changes.
OpenedOnChange(row, seen) ==
  IF how.mount \in {"whileOpen", "keyedOpen"} \/ (how.mount = "keyed" /\ form.for # row)
  THEN Fresh(row, seen)
  ELSE IF how.mount \in {"resetOnOpen", "followsRow"} /\ form.for # row
  THEN Reset(form, row, seen)
  ELSE form

\* The instance the sheet shows when it opens for row: a new key or a condition that
\* became true mounts a new one, an effect resets the old one, or it stays as it was.
Opened(row, seen) ==
  IF \/ how.mount \in {"whileOpen", "keyedOpen"}
     \/ how.mount = "keyed" /\ form.for # row
  THEN Fresh(row, seen)
  ELSE IF \/ how.mount = "resetOnOpen"
          \/ how.mount = "followsRow" /\ form.for # row
       THEN Reset(form, row, seen)
       ELSE form

\* The instance left when the sheet closes.
Closed(f) ==
  IF f = NoForm \/ how.mount \in {"whileOpen", "keyedOpen"} THEN NoForm
  ELSE IF how.forgets /\ how.mount = "keyed" /\ f.for # New THEN Fresh(New, Blank)
  ELSE f

Settled(f, done) ==
  IF f # NoForm /\ f.sending \in done THEN [f EXCEPT !.sending = 0] ELSE f

\* Slip: the record is cleared with the wrong nothing.
CloseSheetToNull == sheet' = [sheet EXCEPT !.open = FALSE, !.row = NoForm]

CloseSheet == sheet' = [sheet EXCEPT !.open = FALSE, !.row = IF how.forgets THEN New ELSE @]

\* Slip: every field is sent, changed or not.
SentWhole(f, kind) ==
  IF how.field = "unsent" \/ (how.field = "dropped" /\ f.shown = Blank) THEN Omitted
  ELSE IF f.shown = Blank /\ (how.field = "filled" \/ (how.field = "rate" /\ kind = "create"))
  THEN Filled
  ELSE f.shown

\* Slip: an empty text is left out of the request.
SentTruthy(f, kind) ==
  IF f.shown = Blank \/ (how.sends = "changed" /\ kind = "update" /\ f.shown = f.base)
  THEN Omitted ELSE f.shown

\* What the request carries for the probe: the changed-only forms leave out what equals
\* the defaults, the others send every field; an empty input goes by its field's kind.
Sent(f, kind) ==
  IF how.field = "unsent" \/ (how.sends = "changed" /\ kind = "update" /\ f.shown = f.base)
  THEN Omitted
  ELSE IF f.shown # Blank THEN f.shown
  ELSE IF how.field = "dropped" THEN Omitted
  ELSE IF how.field = "filled" \/ (how.field \in {"rate", "seeded"} /\ kind = "create") THEN Filled
  ELSE Blank

\* The user has changed the field; one typed back to its default counts as untouched where
\* only changes are sent.
Touched(f) == f.typed /\ (how.sends = "all" \/ f.shown # f.base)

\* The resolver lets the form through.
Valid(f) == ~(how.field \in {"required", "once"} /\ f.shown = Blank)

\* The server's own validation of the probe: an empty string is no id and no decimal.
Malformed(s) ==
  /\ s.value = Blank
  /\ \/ how.field = "refused"
     \/ how.field = "rate" /\ s.kind = "update"
     \/ how.field = "fixed" /\ s.kind = "create"

--------------------------------------------------------------------------------
(* The list query. *)

\* Slip: the request in flight is joined.
JoinedFetch == IF here /\ fetch = Idle THEN Asked ELSE fetch

\* invalidateQueries with an active list (cancelRefetch): a request in flight is replaced
\* once there is data, an initial one is left alone; without observers nothing is read.
InvalidatedFetch == IF here /\ (list.loaded \/ fetch = Idle) THEN Asked ELSE fetch

\* What is left when the requests in done have ended well: each continuation runs onClose,
\* whichever record the sheet or the dialog is open for by then; that of a page since left
\* sets the state of a component that is gone.
Closes(done) == \E i \in done : saves[i].kind \in {"create", "update"} /\ saves[i].left # "page"
Removed(done) == \E i \in done : saves[i].kind = "remove" /\ saves[i].left # "page"

Continue(done) ==
  /\ saves' = [i \in Slots |->
       IF i \in done THEN [Unsent EXCEPT !.stage = "over"]
       ELSE IF Closes(done) /\ sheet.open /\ i = form.sending
       THEN [saves[i] EXCEPT !.left = "sheet"] ELSE saves[i]]
  /\ IF Closes(done) THEN CloseSheet ELSE UNCHANGED sheet
  /\ dialog' = IF Removed(done) THEN New ELSE dialog

ContinuedForm(done) == IF Closes(done) THEN Closed(Settled(form, done)) ELSE form

\* The employee list is read again by onClose itself, as refetch() does.
ContinuedFetch(done, f) ==
  IF how.refetches /\ done # {} /\ (list.loaded \/ f = Idle)
  THEN Asked ELSE f

\* Slip: a save whose sheet was closed is not continued.
SettlingOpen == {i \in Slots : saves[i].stage = "settling" /\ saves[i].left = "no"}

Settling == {i \in Slots : saves[i].stage = "settling"}

\* A role form follows the live row of the list: a changed row resets it, one that moved
\* may, and one that vanished leaves a form for a new role.
Followed(new, f) ==
  LET live == IF sheet.row \in Rows /\ new[sheet.row] # Absent THEN sheet.row ELSE New
      seen == IF live = New THEN Blank ELSE new[live]
  IN  IF f = NoForm \/ how.mount # "followsRow" THEN {f}
      ELSE IF live # f.for \/ (live # New /\ new[live] # list.rows[live])
      THEN {Reset(f, live, seen)}
      ELSE IF live # New /\ new # list.rows THEN {f, Reset(f, live, seen)}
      ELSE {f}

Init ==
  /\ how \in Behaviours
  /\ rows = [r \in Rows |-> IF how.decides # "no" /\ Start[r] # Absent THEN Blank ELSE Start[r]]
  /\ version = 0
  /\ list = [rows |-> [r \in Rows |-> Absent], at |-> 0,
             loaded |-> FALSE, stale |-> FALSE, failed |-> FALSE]
  /\ fetch = Asked /\ due = 0 /\ here = TRUE
  /\ sheet = [open |-> FALSE, row |-> New, listed |-> Blank]
  /\ form = Mounted
  /\ dialog = New
  /\ saves = [i \in Slots |-> Unsent]
  /\ turns = IF how.story = "form" THEN FormTurns ELSE MaxTurns

FetchRead ==
  /\ fetch = Asked
  /\ fetch' = [rows |-> rows, at |-> version]
  /\ UNCHANGED <<how, rows, version, list, due, here, sheet, form, dialog, saves, turns>>

FetchAnswer ==
  /\ fetch \notin {Idle, Asked}
  /\ list' = [rows |-> fetch.rows, at |-> fetch.at,
              loaded |-> TRUE, stale |-> FALSE, failed |-> FALSE]
  /\ Continue(Settling)
  /\ form' \in Followed(fetch.rows, ContinuedForm(Settling))
  /\ fetch' = ContinuedFetch(Settling, Idle)
  /\ UNCHANGED <<how, rows, version, due, here, turns>>

\* The list request has failed with all its retries: "Failed to load" and "Try again".
FetchFails ==
  /\ fetch # Idle /\ turns > 0
  /\ turns' = turns - 1
  /\ list' = [list EXCEPT !.failed = TRUE]
  /\ Continue(Settling)
  /\ form' = ContinuedForm(Settling)
  /\ fetch' = ContinuedFetch(Settling, Idle)
  /\ UNCHANGED <<how, rows, version, due, here>>

\* Try again, or the window gets the focus back and the data is older than staleTime.
Refetch ==
  /\ here /\ fetch = Idle
  /\ fetch' = Asked
  /\ UNCHANGED <<how, rows, version, list, due, here, sheet, form, dialog, saves, turns>>

--------------------------------------------------------------------------------
(* The sheet and the form. *)

Listed(r) == list.loaded /\ list.rows[r] # Absent

OpenSheet(row) ==
  /\ here /\ ~sheet.open /\ dialog = New
  /\ IF row = New THEN how.adds ELSE how.edits /\ Listed(row)
  /\ LET seen == IF row = New \/ how.field = "unsent" THEN Blank ELSE list.rows[row]
     IN  /\ sheet' = [open |-> TRUE, row |-> row, listed |-> seen]
         /\ form' = Opened(row, seen)
  /\ UNCHANGED <<how, rows, version, list, fetch, due, here, dialog, saves, turns>>

\* The record the form saves: the page's record, or for a role the live one.
Target == IF how.mount = "followsRow" THEN form.for ELSE sheet.row

\* A field is on the form, or disabled once the record exists.
Type(v) ==
  /\ sheet.open /\ how.field # "unsent" /\ v # form.shown
  /\ how.field = "once" => Target = New
  /\ form' = [form EXCEPT !.shown = v, !.typed = TRUE]
  /\ UNCHANGED <<how, rows, version, list, fetch, due, here, sheet, dialog, saves, turns>>

\* Cancel, Escape or a click outside: nothing asks whether a save is pending.
CancelSheet ==
  /\ sheet.open
  /\ CloseSheet
  /\ form' = Closed(form)
  /\ saves' = [i \in Slots |->
       IF i = form.sending THEN [saves[i] EXCEPT !.left = "sheet"] ELSE saves[i]]
  /\ fetch' = IF how.refetches /\ (list.loaded \/ fetch = Idle) THEN Asked ELSE fetch
  /\ UNCHANGED <<how, rows, version, list, due, here, dialog, turns>>

\* Slots are taken in order.
Free == {i \in 1..(IF how.story = "form" THEN FormSaves ELSE MaxSaves) :
           saves[i].stage = "unsent" /\ \A j \in 1..(i - 1) : saves[j].stage # "unsent"}

Submit ==
  /\ sheet.open /\ form.sending = 0 /\ Valid(form)
  /\ LET kind == IF Target = New THEN "create" ELSE "update" IN
     \E i \in Free :
       /\ saves' = [saves EXCEPT ![i] =
            [Unsent EXCEPT !.stage = "sent", !.kind = kind, !.row = Target,
               !.value = Sent(form, kind), !.shown = form.shown, !.typed = Touched(form)]]
       /\ form' = [form EXCEPT !.sending = i]
  /\ UNCHANGED <<how, rows, version, list, fetch, due, here, sheet, dialog, turns>>

\* "No changes were made": a changed-only form with nothing to send closes.
NothingToSave ==
  /\ sheet.open /\ form.sending = 0 /\ Valid(form)
  /\ how.sends = "changed" /\ Target # New /\ form.shown = form.base
  /\ CloseSheet
  /\ form' = Closed(form)
  /\ fetch' = IF how.refetches /\ (list.loaded \/ fetch = Idle) THEN Asked ELSE fetch
  /\ UNCHANGED <<how, rows, version, list, due, here, dialog, saves, turns>>

--------------------------------------------------------------------------------
(* The buttons of a row. *)

\* The pending flag of a button's mutation, which a page mounted anew starts without.
Pending(kind, v) == \E i \in Slots :
  /\ saves[i].kind = kind /\ saves[i].value = v /\ saves[i].left = "no"
  /\ saves[i].stage \in {"sent", "read", "locked", "committed", "refused", "settling"}

Request(kind, r, v) ==
  \E i \in Free : saves' = [saves EXCEPT ![i] =
    [Unsent EXCEPT !.stage = "sent", !.kind = kind, !.row = r, !.value = v]]

OpenDialog(r) ==
  /\ here /\ how.removes /\ dialog = New /\ ~sheet.open /\ Listed(r)
  /\ dialog' = r
  /\ UNCHANGED <<how, rows, version, list, fetch, due, here, sheet, form, saves, turns>>

CloseDialog ==
  /\ dialog # New
  /\ dialog' = New
  /\ UNCHANGED <<how, rows, version, list, fetch, due, here, sheet, form, saves, turns>>

ConfirmDialog ==
  /\ dialog # New /\ (how.removesOnce => ~Pending("remove", Omitted))
  /\ Request("remove", dialog, Omitted)
  /\ UNCHANGED <<how, rows, version, list, fetch, due, here, sheet, form, dialog, turns>>

\* Approve and Reject on a row nobody has decided, and for leave Cancel there and on an
\* approved one.
Offered(status) ==
  {v \in Verdicts :
     /\ how.decides # "no" /\ (v = Cancelled => how.decides = "leave")
     /\ status = Blank \/ (status = Approved /\ v = Cancelled)}

\* Each button is a mutation of the page: it is disabled on all rows while it is pending,
\* and does not disable the others.
Decide(r, v) ==
  /\ here /\ ~sheet.open /\ dialog = New
  /\ Listed(r) /\ v \in Offered(list.rows[r]) /\ ~Pending("decide", v)
  /\ Request("decide", r, v)
  /\ UNCHANGED <<how, rows, version, list, fetch, due, here, sheet, form, dialog, turns>>

--------------------------------------------------------------------------------
(* The server. *)

\* Verdicts a row's status admits: an approved leave is approved again without effect, or
\* cancelled; a decided adjustment is refused; overtime is a flag that is overwritten.
Allowed(status, v) ==
  \/ status = Blank \/ how.decides = "overtime"
  \/ how.decides = "leave" /\ status = Approved /\ v # Rejected

Acceptable(s) ==
  /\ ~Malformed(s)
  /\ IF s.kind = "create" THEN \E r \in Rows : rows[r] = Absent
     ELSE rows[s.row] # Absent /\ (s.kind = "decide" => Allowed(rows[s.row], s.value))

\* Verdicts that read the row's status in one step and write theirs in another.
Reads(s) == s.kind = "decide" /\ how.decides # "overtime"

\* Slip: no verdict reads its row for update.
LocksNothing(v) == FALSE

\* The approval of leave reads its row for update, the other verdicts do not.
Locks(v) == how.decides = "leave" /\ v = Approved

Locked(r) == \E i \in Slots : saves[i].stage = "locked" /\ saves[i].row = r

\* Fields the schema of the update does not know.
Unknown == {"fixed", "kept", "once"}

\* What the row holds after the request; a field left out of a PATCH, or unknown to it, keeps
\* its value.
Written(s, r) ==
  IF s.kind = "remove" THEN Absent
  ELSE IF s.kind = "update" /\ (s.value = Omitted \/ how.field \in Unknown) THEN rows[r]
  ELSE IF s.value = Omitted THEN Blank ELSE s.value

\* Once served, a request is only its kind and what becomes of it.
Answered(s) == [Unsent EXCEPT !.kind = s.kind, !.left = s.left,
                  !.value = IF s.kind = "decide" THEN s.value ELSE Omitted]

ReadStatus(i) ==
  /\ saves[i].stage = "sent" /\ Reads(saves[i]) /\ Acceptable(saves[i])
  /\ Locks(saves[i].value) => ~Locked(saves[i].row)
  /\ saves' = [saves EXCEPT ![i].stage = IF Locks(saves[i].value) THEN "locked" ELSE "read"]
  /\ UNCHANGED <<how, rows, version, list, fetch, due, here, sheet, form, dialog, turns>>

\* A verdict is written whatever has become of the status it was read against.
Commit(i) ==
  /\ \/ saves[i].stage = "locked"
     \/ saves[i].stage = "read" /\ ~Locked(saves[i].row)
     \/ saves[i].stage = "sent" /\ ~Reads(saves[i]) /\ Acceptable(saves[i])
  /\ \E r \in Rows :
       /\ IF saves[i].kind = "create" THEN rows[r] = Absent ELSE r = saves[i].row
       /\ rows' = [rows EXCEPT ![r] = Written(saves[i], r)]
  /\ version' = version + 1
  /\ saves' = [saves EXCEPT ![i] = [Answered(@) EXCEPT !.stage = "committed", !.at = version + 1]]
  /\ UNCHANGED <<how, list, fetch, due, here, sheet, form, dialog, turns>>

\* A refusal for the record's sake (404, 422), or for another rule of the server (403, 409).
Refuse(i) ==
  /\ saves[i].stage = "sent"
  /\ \/ ~Acceptable(saves[i]) /\ UNCHANGED turns
     \/ Acceptable(saves[i]) /\ turns > 0 /\ turns' = turns - 1
  /\ saves' = [saves EXCEPT ![i] = [Answered(@) EXCEPT !.stage = "refused"]]
  /\ UNCHANGED <<how, rows, version, list, fetch, due, here, sheet, form, dialog>>

\* Another user's verdict, read against a status the row may have had long ago, unless it
\* locks the row; requests for leave and adjustments are never deleted.
OthersWrite(r) ==
  IF how.decides = "no" THEN Values \cup {Absent}
  ELSE {v \in Offered(Blank) : Locks(v) => Allowed(rows[r], v)}
         \cup (IF how.decides = "overtime" THEN {Absent} ELSE {})

\* Another user, or another browser of the same one.
Others ==
  /\ turns > 0
  /\ turns' = turns - 1
  /\ version' = version + 1
  /\ \E r \in Rows : /\ rows[r] # Absent /\ ~Locked(r)
                     /\ \E v \in OthersWrite(r) \ {rows[r]} : rows' = [rows EXCEPT ![r] = v]
  /\ UNCHANGED <<how, list, fetch, due, here, sheet, form, dialog, saves>>

--------------------------------------------------------------------------------
(* The answers. *)

\* onSuccess: invalidate; where it returns the promise the request stays pending until
\* the list is read again, elsewhere the continuation runs at once.
AnswerOk(i) ==
  LET removal == saves[i].kind = "remove"
      refreshes == IF removal THEN how.removeRefreshes ELSE how.refreshes
      awaits == IF removal THEN how.removeAwaits ELSE how.awaits
      waits == here /\ refreshes /\ awaits
      reads == IF refreshes THEN InvalidatedFetch ELSE fetch
  IN  /\ saves[i].stage = "committed"
      /\ list' = IF refreshes THEN [list EXCEPT !.stale = TRUE] ELSE list
      /\ due' = IF here /\ list.loaded THEN Later(due, saves[i].at) ELSE due
      /\ IF waits
         THEN /\ saves' = [saves EXCEPT ![i].stage = "settling"]
              /\ fetch' = reads
              /\ UNCHANGED <<sheet, form, dialog>>
         ELSE /\ Continue({i})
              /\ form' = ContinuedForm({i})
              /\ fetch' = ContinuedFetch({i}, reads)
      /\ UNCHANGED <<how, rows, version, here, turns>>

\* A failed save is told by a toast, or by the form that sent it if it is still mounted.
Told(i) ==
  \/ saves[i].kind \notin {"create", "update"}
  \/ how.tells = "always"
  \/ how.tells = "onForm" /\ form # NoForm /\ form.sending = i

\* Sheet and draft stay as they are.
Failed(i) ==
  /\ saves' = [saves EXCEPT ![i] = [Unsent EXCEPT !.stage = "over"]]
  /\ form' = Settled(form, {i})
  /\ dialog' = IF saves[i].kind = "remove" /\ how.removeEnds THEN New ELSE dialog
  /\ UNCHANGED <<how, rows, version, list, fetch, due, here, sheet>>

AnswerRefused(i) == saves[i].stage = "refused" /\ Failed(i) /\ UNCHANGED turns

\* No answer: the request or the answer to a committed one is lost, or the handler fails and
\* its transaction is rolled back.
LoseAnswer(i) ==
  /\ saves[i].stage \in {"sent", "read", "locked", "committed"} /\ turns > 0
  /\ turns' = turns - 1
  /\ Failed(i)

--------------------------------------------------------------------------------
(* Leaving the page unmounts it; the query cache and the requests stay. *)

Leave ==
  /\ here /\ turns > 0
  /\ turns' = turns - 1
  /\ here' = FALSE
  /\ sheet' = [open |-> FALSE, row |-> New, listed |-> Blank]
  /\ saves' = [i \in Slots |->
       IF saves[i].stage \in {"unsent", "over"} THEN saves[i] ELSE [saves[i] EXCEPT !.left = "page"]]
  /\ form' = NoForm /\ dialog' = New
  /\ UNCHANGED <<how, rows, version, list, fetch, due>>

\* Mounting reads the list again if it is stale, older than staleTime or never loaded.
Return ==
  /\ ~here /\ here' = TRUE
  /\ form' = Mounted
  /\ IF fetch # Idle THEN UNCHANGED fetch
     ELSE IF list.stale \/ list.failed \/ ~list.loaded THEN fetch' = Asked
     ELSE fetch' \in {Idle, Asked}
  /\ UNCHANGED <<how, rows, version, list, due, sheet, dialog, saves, turns>>

--------------------------------------------------------------------------------
Next ==
  \/ FetchRead \/ FetchAnswer \/ FetchFails \/ Refetch
  \/ \E r \in Rows \cup {New} : OpenSheet(r)
  \/ \E v \in Values \cup {Blank} : Type(v)
  \/ CancelSheet \/ Submit \/ NothingToSave
  \/ \E r \in Rows : OpenDialog(r) \/ \E v \in Verdicts : Decide(r, v)
  \/ CloseDialog \/ ConfirmDialog
  \/ \E i \in Slots : \/ ReadStatus(i) \/ Commit(i) \/ Refuse(i) \/ AnswerOk(i)
                     \/ AnswerRefused(i) \/ LoseAnswer(i)
  \/ Others \/ Leave \/ Return

\* The server serves what it is sent and its answers arrive, or are lost within turns; a list
\* request that closing the sheet starts over is answered in the end, as nobody opens and
\* closes a sheet forever in less time than a request takes.  Nobody has to press anything.
Fairness ==
  /\ WF_vars(FetchRead) /\ SF_vars(FetchAnswer)
  /\ \A i \in Slots : /\ WF_vars(ReadStatus(i) \/ Commit(i) \/ Refuse(i))
                      /\ WF_vars(AnswerOk(i) \/ AnswerRefused(i))

Spec == Init /\ [][Next]_vars /\ Fairness

--------------------------------------------------------------------------------
(* Properties. *)

RowsType == [Rows -> Stored \cup {Absent}]
Fetches == {Idle, Asked} \cup [rows : RowsType, at : 0..MaxVersion]
Forms == {NoForm} \cup Instances
Requests ==
  [stage : {"unsent", "sent", "read", "locked", "committed", "refused", "settling", "over"},
   kind : {"create", "update", "remove", "decide"}, row : Rows \cup {New},
   value : Stored \cup {Omitted}, shown : Stored, typed : BOOLEAN, at : 0..MaxVersion,
   left : {"no", "sheet", "page"}]

TypeOK ==
  /\ how \in Behaviours
  /\ rows \in RowsType /\ version \in 0..MaxVersion /\ due \in 0..MaxVersion
  /\ list \in [rows : RowsType, at : 0..MaxVersion, loaded : BOOLEAN, stale : BOOLEAN, failed : BOOLEAN]
  /\ fetch \in Fetches /\ here \in BOOLEAN
  /\ sheet \in [open : BOOLEAN, row : Rows \cup {New}, listed : Stored]
  /\ form \in Forms /\ dialog \in Rows \cup {New}
  /\ saves \in [Slots -> Requests]
  /\ turns \in 0..MaxTurns

\* A list at rest that nothing marks stale shows every change whose success this browser
\* was told of while the list was on screen (invalidateQueries in every save's onSuccess).
AtRest == list.loaded /\ ~list.stale /\ fetch = Idle
ListSettlesFresh == AtRest => list.at >= due

\* The query cache, its invalidations and its cancelled requests implement a list that only
\* moves forward and rests only once it shows what the user was told (FreshList).
Promise == INSTANCE FreshList WITH told <- due, shown <- list.at, resting <- AtRest
ImplementsFreshList == Promise!Spec

Submitted(i) == saves[i].stage = "unsent" /\ saves'[i].stage = "sent" /\ sheet.open

\* What a save writes for a record was listed or typed for that record, whichever records
\* the sheet showed before (the key of the form, or its reset when the sheet opens).
SavesOwnRow == [][\A i \in Slots : Submitted(i) => saves'[i].row = form.for]_vars

\* Where the form starts over at each opening, a field the user did not touch is sent as
\* the list showed it when the sheet opened, never as an abandoned draft left it.
UntouchedAsListed ==
  [][\A i \in Slots :
       Submitted(i) /\ how.mount \in {"whileOpen", "keyedOpen", "resetOnOpen"} /\ ~form.typed =>
         form.shown = sheet.listed]_vars

\* A failed save is told to the user, unless its sheet was closed over it, by the user or
\* by the late answer to an earlier save, or the page was left.
FailureTold ==
  [][\A i \in Slots :
       (AnswerRefused(i) \/ LoseAnswer(i)) /\ saves[i].left = "no" => Told(i)]_vars

\* A save of a changed-only form leaves alone a field its user did not touch, whatever
\* others have stored there since the list was read.
UntouchedKept ==
  [][\A i \in Slots :
       saves[i].stage = "sent" /\ saves'[i].stage = "committed" /\ saves[i].kind = "update"
         /\ how.sends = "changed" /\ ~saves[i].typed => rows' = rows]_vars

\* An accepted save stores what its form showed, except that an emptied field of some
\* kinds is dropped from the request or replaced by a default, and that the server's update
\* ignores fields it does not know: three resources have some that their forms edit.
StoredAsShown ==
  [][\A i \in Slots :
       saves[i].stage = "sent" /\ saves'[i].stage = "committed"
         /\ saves[i].kind \in {"create", "update"} /\ saves[i].typed
         /\ (saves[i].shown # Blank \/ how.field = "stored")
         /\ ~(saves[i].kind = "update" /\ how.field \in Unknown) =>
       \E r \in Rows : rows'[r] = saves[i].shown]_vars

\* A leave request that was rejected or cancelled is never approved after all, whichever
\* buttons this user and others press on lists and statuses read before.  Nothing more is
\* promised of verdicts: a rejection or cancellation overturns any that was given between
\* its read and its write, and so do both verdicts on an adjustment.
RefusalStands ==
  [][\A r \in Rows :
       how.decides = "leave" /\ rows[r] \in {Rejected, Cancelled} => rows'[r] # Approved]_vars

\* A save that succeeded while the list was on screen is shown by it, unless reading the
\* list fails or the page is left.
SavedThenShown == list.at < due ~> list.at >= due \/ list.failed \/ ~here

\* No request stays pending: the "Saving..." of a form and of a dialog ends.
Quiet == \A i \in Slots : saves[i].stage \in {"unsent", "over"}
SavesEnd == ~Quiet ~> Quiet

================================================================================
