-------------------------- MODULE AttendanceImport --------------------------
(***************************************************************************)
(* The attendance CSV wizard (attendance-csv-wizard.tsx) of one signed-in  *)
(* user, talking to the keyed create of KeyedPunches.                      *)
(*                                                                         *)
(* handleImport and handleReconcile are asynchronous: they work on the     *)
(* rows and results of the render that started them (job and check), while *)
(* the user goes on with what the wizard does not disable.  A FileReader   *)
(* delivers its text some time after the file was chosen.                  *)
(*                                                                         *)
(* A behaviour is one session of the page: a reload or a change of account *)
(* drops the slot and stops the handlers, and the batches of the next      *)
(* session have other keys.                                                *)
(***************************************************************************)
EXTENDS Integers, Sequences, FiniteSets

CONSTANTS
    Posts, NoPost, Payloads, Corrected, Blank, Staff, \* as in KeyedPunches
    Csvs,       \* sequences of payloads, Blank for a row that lacks a field
    None,       \* no results, no job, no slot
    Chunk,      \* RECONCILE_CHUNK_SIZE
    MaxBatches, \* bound: CSV texts parsed in a behaviour
    SlowReads,  \* a FileReader may finish after an import has begun
    Clears      \* the user removes a chosen file by its X button

ASSUME NoPostAssumption == NoPost \notin Posts
ASSUME PayloadAssumption == Corrected \notin Payloads /\ Blank \notin Payloads
ASSUME CsvAssumption == \A csv \in Csvs : csv \in Seq(Payloads \cup {Blank})
ASSUME BoundAssumption == Chunk \in Nat \ {0} /\ MaxBatches \in Nat

VARIABLES
    step, key, payload, answer, told, record, content, \* as in KeyedPunches
    open,      \* the dialog is mounted
    rows,      \* parsedRows
    batch,     \* batchId, 0 for ''
    results,   \* the batch whose keys they carry and a status for each row, or None
    file,      \* a file is shown as selected
    reading,   \* the text a FileReader is about to deliver, or None
    importing, \* isImporting
    job,       \* the running handleImport, or None
    check,     \* the running handleReconcile, or None
    slot,      \* recoverableSlot
    minted     \* how many batch ids were drawn

api == <<step, key, payload, answer, told, record, content>>
form == <<rows, batch, results>>
picker == <<file, reading>>
wizard == <<open, rows, batch, results, file, reading, importing, job, check, slot, minted>>
vars == <<api, wizard>>

\* The source_ref of a row: its batch and its place.
Keys == (1 .. MaxBatches) \X UNION {DOMAIN csv : csv \in Csvs}

API == INSTANCE KeyedPunches

\* What the wizard says of a row.  It shows the last five of them as "error",
\* with a message for each.
Status == {"pending", "success", "unknown", "rejected", "invalid", "freed", "retired", "discarded"}

Unknowns(r) == IF r = None THEN {} ELSE {i \in DOMAIN r.at : r.at[i] = "unknown"}

-----------------------------------------------------------------------------
(* The CSV *)

\* The text and file inputs are enabled, and editing is not blocked.
Editable == open /\ ~importing /\ Unknowns(results) = {}

\* Slip: an edit keeps the batch it edits.
ParseKeepBatch(csv) ==
    /\ minted < MaxBatches
    /\ minted' = minted + 1
    /\ rows' = csv
    /\ batch' = IF batch = 0 THEN minted + 1 ELSE batch
    /\ results' = None

\* A new CSV gets a new batch and no results.  Bound: MaxBatches of them.
Parse(csv) ==
    /\ minted < MaxBatches
    /\ minted' = minted + 1
    /\ rows' = csv
    /\ batch' = minted + 1
    /\ results' = None

Edit(csv) ==
    /\ Editable
    /\ Parse(csv)
    /\ file' = FALSE
    /\ UNCHANGED <<api, open, reading, importing, job, check, slot>>

\* The text is deleted.
EditAway ==
    /\ Editable
    /\ rows' = <<>> /\ batch' = 0 /\ results' = None
    /\ file' = FALSE
    /\ UNCHANGED <<api, open, reading, importing, job, check, slot, minted>>

\* One file is read at a time.
ChooseFile(csv) ==
    /\ Editable
    /\ reading = None
    /\ file' = TRUE
    /\ reading' = csv
    /\ UNCHANGED <<api, open, form, importing, job, check, slot, minted>>

\* reader.onload asks nothing of the state it finds.
FileLoaded ==
    /\ reading # None
    /\ Parse(reading)
    /\ reading' = None
    /\ UNCHANGED <<api, open, file, importing, job, check, slot>>

\* The X beside a chosen file is never disabled, and leaves the results.
ClearFile ==
    /\ Clears
    /\ open /\ file
    /\ file' = FALSE
    /\ rows' = <<>>
    /\ UNCHANGED <<api, open, batch, results, reading, importing, job, check, slot, minted>>

-----------------------------------------------------------------------------
(* handleImport *)

\* pendingIndices
Pending == {i \in DOMAIN rows :
    \/ results = None
    \/ i \notin DOMAIN results.at
    \/ results.at[i] # "success"}

\* Slip: a retry does not wait for the reconciliation.
ImportUnsettled ==
    /\ open /\ ~importing
    /\ rows # <<>> /\ Pending # {}
    /\ Cardinality({p \in Posts : step[p] = "unsent"}) >= Cardinality(Pending)
    /\ importing' = TRUE
    /\ job' = [rows |-> rows, todo |-> Pending, post |-> NoPost,
               batch |-> IF results = None THEN batch ELSE results.batch,
               at |-> IF results = None THEN [i \in DOMAIN rows |-> "pending"] ELSE results.at]
    /\ UNCHANGED <<api, open, form, picker, check, slot, minted>>

\* Every row first, then those that did not reach success, under the keys of the
\* results.  Bound: enough posts are left.
ImportBegin ==
    /\ open /\ ~importing /\ Unknowns(results) = {}
    /\ rows # <<>> /\ Pending # {}
    /\ SlowReads \/ reading = None
    /\ Cardinality({p \in Posts : step[p] = "unsent"}) >= Cardinality(Pending)
    /\ importing' = TRUE
    /\ job' = [rows |-> rows, todo |-> Pending, post |-> NoPost,
               batch |-> IF results = None THEN batch ELSE results.batch,
               at |-> IF results = None THEN [i \in DOMAIN rows |-> "pending"] ELSE results.at]
    /\ UNCHANGED <<api, open, form, picker, check, slot, minted>>

\* The loop is at row i, and waits for no answer.
Turn(i) == \A j \in job.todo : i <= j
AtRow(i) == job.post = NoPost /\ Turn(i)

\* The verdict on row i; the loop goes on with the next.
Settle(i, status) ==
    /\ job' = [job EXCEPT !.at[i] = status, !.todo = @ \ {i}, !.post = NoPost]
    /\ UNCHANGED <<open, form, picker, importing, check, slot, minted>>

\* validateRow: a row that lacks a field is not sent.
SkipRow ==
    /\ job # None
    /\ \E i \in job.todo :
          /\ AtRow(i)
          /\ i \in DOMAIN job.at /\ job.rows[i] = Blank
          /\ Settle(i, "invalid")
    /\ UNCHANGED api

PostRow ==
    /\ job # None
    /\ \E i \in job.todo, p \in Posts :
          /\ AtRow(i)
          /\ i \in DOMAIN job.at /\ job.rows[i] # Blank
          /\ API!Send(p, <<job.batch, i>>, job.rows[i])
          /\ job' = [job EXCEPT !.post = p]
    /\ UNCHANGED <<open, form, picker, importing, check, slot, minted>>

\* current[i].key of a row beyond the results: the handler dies, isImporting stays.
BreakOff ==
    /\ job # None
    /\ \E i \in job.todo : AtRow(i) /\ i \notin DOMAIN job.at
    /\ job' = None
    /\ UNCHANGED <<api, open, form, picker, importing, check, slot, minted>>

\* Slip: any answer is taken for a verdict.
TrustAnswer(a) == IF a \in {"created", "replayed", "failed"} THEN "success" ELSE "rejected"

\* 201 or 200; 4xx; 5xx.
Outcome(a) ==
    CASE a \in {"created", "replayed"} -> "success"
      [] a = "refused" -> "rejected"
      [] a = "failed" -> "unknown"

\* Slip: the answer itself becomes the status.
ReceiveRaw ==
    /\ job # None /\ job.post # NoPost
    /\ step[job.post] = "done"
    /\ \E i \in job.todo : Turn(i) /\ Settle(i, answer[job.post])
    /\ UNCHANGED api

Receive ==
    /\ job # None /\ job.post # NoPost
    /\ step[job.post] = "done"
    /\ \E i \in job.todo : Turn(i) /\ Settle(i, Outcome(answer[job.post]))
    /\ UNCHANGED api

\* No response; the API may still be at work on the request.
LoseAnswer ==
    /\ job # None /\ job.post # NoPost
    /\ \E i \in job.todo : Turn(i) /\ Settle(i, "unknown")
    /\ UNCHANGED api

\* Slip: only an import that went through re-enables the button.
ImportEndClean ==
    /\ job # None /\ job.todo = {}
    /\ results' = [batch |-> job.batch, at |-> job.at]
    /\ job' = None
    /\ importing' = (Unknowns(results') # {})
    /\ UNCHANGED <<api, open, rows, batch, picker, check, slot, minted>>

ImportEnd ==
    /\ job # None /\ job.todo = {}
    /\ results' = [batch |-> job.batch, at |-> job.at]
    /\ importing' = FALSE
    /\ job' = None
    /\ UNCHANGED <<api, open, rows, batch, picker, check, slot, minted>>

-----------------------------------------------------------------------------
(* handleReconcile and handleDiscard *)

ReconcileBegin ==
    /\ open /\ ~importing
    /\ check = None
    /\ Unknowns(results) # {}
    /\ check' = [batch |-> results.batch, at |-> results.at,
                 todo |-> Unknowns(results), heard |-> FALSE]
    /\ UNCHANGED <<api, open, form, picker, importing, job, slot, minted>>

\* reconcile_dtr_imports on one pair: committed, deleted or not_found.
Verdict(k) ==
    IF API!Active(k) # {} THEN "success"
    ELSE IF API!Deleted(k) # {} THEN "retired" ELSE "freed"

\* The next chunk is answered.  A pair outside the caller's scope is "unresolved"
\* and its row stays unknown.
ReconcileChunk ==
    /\ check # None /\ check.todo # {}
    /\ LET chunk == {i \in check.todo : Cardinality({j \in check.todo : j < i}) < Chunk} IN
       \E unresolved \in SUBSET chunk :
          check' = [check EXCEPT
                       !.at = [i \in DOMAIN @ |-> IF i \in chunk \ unresolved
                                                    THEN Verdict(<<check.batch, i>>) ELSE @[i]],
                       !.todo = @ \ chunk,
                       !.heard = TRUE]
    /\ UNCHANGED <<api, open, form, picker, importing, job, slot, minted>>

\* A chunk fails: the remaining ones are not sent.
ReconcileFails ==
    /\ check # None /\ check.todo # {}
    /\ check' = [check EXCEPT !.todo = {}]
    /\ UNCHANGED <<api, open, form, picker, importing, job, slot, minted>>

\* Slip: nothing settled is an early return that leaves isReconciling set.
ReconcileEndHeard ==
    /\ check # None /\ check.todo = {}
    /\ check.heard
    /\ results' = [batch |-> check.batch, at |-> check.at]
    /\ check' = None
    /\ UNCHANGED <<api, open, rows, batch, picker, importing, job, slot, minted>>

\* Whatever was answered is applied to the results the handler began with.
ReconcileEnd ==
    /\ check # None /\ check.todo = {}
    /\ results' = IF check.heard THEN [batch |-> check.batch, at |-> check.at] ELSE results
    /\ check' = None
    /\ UNCHANGED <<api, open, rows, batch, picker, importing, job, slot, minted>>

Discard ==
    /\ open /\ ~importing
    /\ check = None
    /\ Unknowns(results) # {}
    /\ results' = [results EXCEPT !.at =
                      [i \in DOMAIN @ |-> IF @[i] = "unknown" THEN "discarded" ELSE @[i]]]
    /\ UNCHANGED <<api, open, rows, batch, picker, importing, job, check, slot, minted>>

-----------------------------------------------------------------------------
(* The dialog *)

\* The page mounts the wizard only while it is open.
Unmount ==
    /\ open' = FALSE
    /\ rows' = <<>> /\ batch' = 0 /\ results' = None
    /\ file' = FALSE /\ reading' = None
    /\ importing' = FALSE
    /\ job' = None /\ check' = None

\* Slip: the dialog forgets its rows when it closes.
CloseBare == open /\ ~importing /\ Unmount /\ slot' = None /\ UNCHANGED <<api, minted>>

Close ==
    /\ open /\ ~importing
    /\ Unmount
    /\ slot' = IF Unknowns(results) # {} /\ rows # <<>>
                 THEN [rows |-> rows, batch |-> batch, results |-> results]
                 ELSE None
    /\ UNCHANGED <<api, minted>>

\* A batch in the slot is restored, and stays in the slot.
Reopen ==
    /\ ~open
    /\ open' = TRUE
    /\ rows' = IF slot = None THEN <<>> ELSE slot.rows
    /\ batch' = IF slot = None THEN 0 ELSE slot.batch
    /\ results' = IF slot = None THEN None ELSE slot.results
    /\ UNCHANGED <<api, picker, importing, job, check, slot, minted>>

-----------------------------------------------------------------------------

Init ==
    /\ API!Init
    /\ open = FALSE
    /\ rows = <<>> /\ batch = 0 /\ results = None
    /\ file = FALSE /\ reading = None
    /\ importing = FALSE
    /\ job = None /\ check = None
    /\ slot = None
    /\ minted = 0

\* The API and the other users.
Serve(p) == API!Serve(p) /\ UNCHANGED wizard
Staffed(p) == (API!Delete(p) \/ API!Correct(p)) /\ UNCHANGED wizard

Import == ImportBegin \/ SkipRow \/ PostRow \/ BreakOff \/ Receive \/ LoseAnswer \/ ImportEnd
Reconcile == ReconcileBegin \/ ReconcileChunk \/ ReconcileFails \/ ReconcileEnd

Next ==
    \/ \E csv \in Csvs : Edit(csv) \/ ChooseFile(csv)
    \/ EditAway \/ FileLoaded \/ ClearFile
    \/ Import \/ Reconcile \/ Discard
    \/ Close \/ Reopen
    \/ \E p \in Posts : Serve(p) \/ Staffed(p)

Spec == Init /\ [][Next]_vars

\* The API answers what it received and the handlers go on; the user need not.
Fairness ==
    /\ \A p \in Posts : WF_vars(Serve(p))
    /\ WF_vars(SkipRow \/ PostRow \/ Receive \/ ImportEnd)
    /\ WF_vars(ReconcileChunk \/ ReconcileFails \/ ReconcileEnd)

LiveSpec == Spec /\ Fairness

-----------------------------------------------------------------------------
(* Properties *)

Statuses == UNION {[DOMAIN csv -> Status] : csv \in Csvs}
RowSets == SUBSET UNION {DOMAIN csv : csv \in Csvs}
Batches == 1 .. MaxBatches
Result == [batch : Batches, at : Statuses]
Job == [rows : Csvs, todo : RowSets, post : Posts \cup {NoPost}, batch : Batches, at : Statuses]
Check == [batch : Batches, at : Statuses, todo : RowSets, heard : BOOLEAN]
Slot == [rows : Csvs, batch : Batches, results : Result]

ASSUME NoneAssumption == None \notin Slot

\* The type invariant: rows have a batch, and a job works on the rows of its CSV.
TypeOK ==
    /\ API!TypeOK
    /\ open \in BOOLEAN /\ file \in BOOLEAN /\ importing \in BOOLEAN
    /\ rows \in Csvs \cup {<<>>}
    /\ batch \in 0 .. MaxBatches /\ minted \in 0 .. MaxBatches
    /\ rows # <<>> => batch # 0
    /\ reading \in Csvs \cup {None}
    /\ results \in Result \cup {None}
    /\ job \in Job \cup {None}
    /\ job # None => job.todo \subseteq DOMAIN job.rows
    /\ check \in Check \cup {None}
    /\ slot \in Slot \cup {None}

\* The key of row i of the results shown.
KeyShown(i) == <<results.batch, i>>

\* A row shown as a success has a record under its key, whichever attempt committed
\* it and whatever was lost, retried or loaded meanwhile.
SuccessCommitted ==
    results # None => \A i \in DOMAIN results.at :
        results.at[i] = "success" => API!Active(KeyShown(i)) \cup API!Deleted(KeyShown(i)) # {}

\* Keys of the rows the user is told are unknown, or will be when the dialog opens.
Unresolved ==
    LET r == IF open THEN results ELSE IF slot = None THEN None ELSE slot.results
    IN  {<<r.batch, i>> : i \in Unknowns(r)}

\* No blind retry: no request leaves under a key whose row is shown as unknown.
NoBlindRetry ==
    [][\A p \in Posts : (step[p] = "unsent" /\ step'[p] = "sent") => key'[p] \notin Unresolved]_vars

\* A key belongs to one row of one CSV: two requests with the same key carry the
\* same punch.  Broken when a file is read slowly.
OneRowPerKey == \A p, q \in Posts :
    (key[p] = key[q] /\ key[p] # Blank) => payload[p] = payload[q]

\* An unknown row stays known as such, closed dialog or not, until a reconciliation
\* or the user's discard settles it.  Broken when a file is read slowly, and by the
\* X beside a chosen file.
UnknownsKept ==
    [][Unresolved \subseteq Unresolved' \/ ReconcileEnd \/ Discard]_vars

\* An import ends and gives the wizard back.
ImportEnds == importing ~> ~importing

\* A reconciliation ends.
ReconcileEnds == (check # None) ~> (check = None)

=============================================================================
