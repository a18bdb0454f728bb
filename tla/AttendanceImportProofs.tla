----------------------- MODULE AttendanceImportProofs -----------------------
(***************************************************************************)
(* Proofs about AttendanceImport.  A session of the wizard keeps every     *)
(* promise of the keyed create (KeyedPunchesProofs), and what the wizard   *)
(* shows as a success is recorded, whatever the network loses and however  *)
(* the handlers overlap with the user.                                     *)
(***************************************************************************)
EXTENDS AttendanceImport, TLAPS

P == INSTANCE KeyedPunchesProofs

-----------------------------------------------------------------------------
(* The steps of the API *)

LEMMA ApiInit == API!Init => P!Init
BY DEF API!Init, P!Init

LEMMA ApiType == (P!TypeOK <=> API!TypeOK) /\ (P!TypeOK' <=> API!TypeOK')
BY DEF API!TypeOK, P!TypeOK, API!PostStep, P!PostStep, API!Answer, P!Answer

LEMMA ServeStep == ASSUME NEW p \in Posts, API!Serve(p) PROVE P!Next
BY DEF API!Serve, API!Refuse, API!LookupActive, API!LookupDeleted, API!Insert, API!Reread,
       API!Commit, API!Fail, API!Reply, API!Goto, API!Settle, API!Active, API!Deleted,
       P!Next, P!Serve, P!Refuse, P!LookupActive, P!LookupDeleted, P!Insert, P!Reread,
       P!Commit, P!Fail, P!Reply, P!Goto, P!Settle, P!Active, P!Deleted

LEMMA StaffStep == ASSUME NEW p \in Posts, API!Delete(p) \/ API!Correct(p) PROVE P!Next
BY DEF API!Delete, API!Correct, P!Next, P!Delete, P!Correct

LEMMA SendStep ==
    ASSUME NEW p \in Posts, NEW k \in Keys, NEW d \in Payloads, API!Send(p, k, d)
    PROVE  P!Next
BY DEF API!Send, P!Next, P!Send

\* A post keeps its key once it is sent, and its record once that is committed.
LEMMA ApiKeeps ==
    ASSUME P!IInv, [P!Next]_api
    PROVE  \A p \in Posts :
              /\ step[p] # "unsent" => step'[p] # "unsent" /\ key'[p] = key[p]
              /\ record[p] # "none" => record'[p] # "none" /\ key'[p] = key[p]
<1>1. \A p \in Posts : record[p] # "none" => step[p] # "unsent"
  BY DEF P!IInv, P!HistoryInv
<1>2. CASE UNCHANGED api
  BY <1>2 DEF api
<1>3. ASSUME NEW p \in Posts, NEW k \in Keys, NEW d \in Payloads, P!Send(p, k, d)
      PROVE  \A q \in Posts :
                /\ step[q] # "unsent" => step'[q] # "unsent" /\ key'[q] = key[q]
                /\ record' = record
  BY <1>3 DEF P!Send, P!IInv, P!TypeOK
<1>4. ASSUME NEW p \in Posts, P!Delete(p) \/ P!Correct(p)
      PROVE  /\ UNCHANGED <<step, key>>
             /\ \A q \in Posts : record[q] # "none" => record'[q] # "none"
  BY <1>4 DEF P!Delete, P!Correct, P!IInv, P!TypeOK
<1>5. ASSUME NEW p \in Posts, P!Serve(p)
      PROVE  /\ UNCHANGED key
             /\ \A q \in Posts : /\ step[q] # "unsent" => step'[q] # "unsent"
                                 /\ record[q] # "none" => record'[q] # "none"
  <2>1. ASSUME NEW s \in P!PostStep, s # "unsent", P!Goto(p, s)
        PROVE  /\ UNCHANGED <<key, record>>
               /\ \A q \in Posts : step[q] # "unsent" => step'[q] # "unsent"
    BY <2>1 DEF P!Goto, P!IInv, P!TypeOK
  <2>2. ASSUME NEW a, NEW id, P!Reply(p, a, id)
        PROVE  /\ UNCHANGED <<key, record>>
               /\ \A q \in Posts : step[q] # "unsent" => step'[q] # "unsent"
    BY <2>2 DEF P!Reply, P!IInv, P!TypeOK
  <2>3. CASE P!Commit(p)
    BY <2>3 DEF P!Commit, P!IInv, P!TypeOK
  <2>4. CASE P!Refuse(p) \/ P!Fail(p)
    BY <2>2, <2>4 DEF P!Refuse, P!Fail
  <2>5. CASE P!LookupDeleted(p) \/ P!Insert(p)
    BY <2>1, <2>2, <2>5 DEF P!LookupDeleted, P!Insert, P!PostStep
  <2>6. CASE P!LookupActive(p) \/ P!Reread(p)
    <3>1. ASSUME NEW q, P!Settle(p, q)
          PROVE  /\ UNCHANGED <<key, record>>
                 /\ \A o \in Posts : step[o] # "unsent" => step'[o] # "unsent"
      BY <2>2, <3>1 DEF P!Settle
    <3>2. QED
      BY <2>1, <2>2, <2>6, <3>1 DEF P!LookupActive, P!Reread, P!PostStep
  <2>7. QED
    BY <1>5, <2>3, <2>4, <2>5, <2>6 DEF P!Serve
<1>6. QED
  BY <1>1, <1>2, <1>3, <1>4, <1>5 DEF P!Next

\* The API and the other users send nothing, and leave what was sent alone.
LEMMA ServeSendsNothing ==
    ASSUME API!TypeOK, NEW p \in Posts, Serve(p) \/ Staffed(p)
    PROVE  /\ UNCHANGED <<key, payload>>
           /\ \A q \in Posts : /\ step'[q] = "sent" => step[q] = "sent"
                               /\ step'[q] = "unsent" <=> step[q] = "unsent"
<1>1. CASE Staffed(p)
  BY <1>1 DEF Staffed, API!Delete, API!Correct
<1>2. ASSUME NEW s \in API!PostStep \ {"unsent", "sent"}, API!Goto(p, s), step[p] # "unsent"
      PROVE  /\ UNCHANGED <<key, payload>>
             /\ \A q \in Posts : /\ step'[q] = "sent" => step[q] = "sent"
                                 /\ step'[q] = "unsent" <=> step[q] = "unsent"
  BY <1>2 DEF API!Goto, API!TypeOK
<1>3. ASSUME NEW a, NEW id, API!Reply(p, a, id), step[p] # "unsent"
      PROVE  /\ UNCHANGED <<key, payload>>
             /\ \A q \in Posts : /\ step'[q] = "sent" => step[q] = "sent"
                                 /\ step'[q] = "unsent" <=> step[q] = "unsent"
  BY <1>3 DEF API!Reply, API!TypeOK
<1>4. ASSUME NEW q, API!Settle(p, q)
      PROVE  \E a, id : API!Reply(p, a, id)
  BY <1>4, Zenon DEF API!Settle
<1>5. CASE API!Refuse(p) \/ API!Fail(p)
  BY <1>3, <1>5 DEF API!Refuse, API!Fail
<1>6. CASE API!LookupActive(p) \/ API!Reread(p)
  BY <1>2, <1>3, <1>4, <1>6 DEF API!LookupActive, API!Reread, API!PostStep
<1>7. CASE API!LookupDeleted(p) \/ API!Insert(p)
  BY <1>2, <1>3, <1>7 DEF API!LookupDeleted, API!Insert, API!PostStep
<1>8. CASE API!Commit(p)
  BY <1>8 DEF API!Commit, API!TypeOK
<1>9. QED
  BY <1>1, <1>5, <1>6, <1>7, <1>8 DEF Serve, API!Serve

-----------------------------------------------------------------------------
(* Types *)

\* The wizard's part of the type invariant.
WizardType ==
    /\ open \in BOOLEAN /\ file \in BOOLEAN /\ importing \in BOOLEAN
    /\ rows \in Csvs \cup {<<>>}
    /\ batch \in 0 .. MaxBatches /\ minted \in 0 .. MaxBatches
    /\ rows # <<>> => batch # 0
    /\ reading \in Csvs \cup {None}
    /\ results \in Result \cup {None}
    /\ job \in Job \cup {None}
    /\ job # None => job.todo \subseteq DOMAIN job.rows
    /\ check \in Check \cup {None}
    /\ slot \in Slot \cup {None}

LEMMA TypeParts == TypeOK <=> API!TypeOK /\ WizardType
BY DEF TypeOK, WizardType

\* A handler that has returned has answered.
Answered == \A p \in Posts : step[p] = "done" => answer[p] # "none"

LEMMA RowsOfCsv == \A csv \in Csvs : \A i \in DOMAIN csv : csv[i] \in Payloads \cup {Blank}
BY CsvAssumption

LEMMA StatusSet ==
    ASSUME NEW at \in Statuses
    PROVE  at \in [DOMAIN at -> Status] /\ [DOMAIN at -> Status] \subseteq Statuses
BY DEF Statuses

\* The verdict on a row leaves a job a job.
LEMMA SettleType ==
    ASSUME WizardType, job # None, NEW i \in job.todo, NEW s \in Status, Settle(i, s)
    PROVE  WizardType'
<1>1. job \in Job
  BY DEF WizardType
<1>2. [job.at EXCEPT ![i] = s] \in Statuses
  BY <1>1, StatusSet DEF Job
<1>3. job' \in Job /\ job'.rows = job.rows /\ job'.todo = job.todo \ {i}
  BY <1>1, <1>2 DEF Settle, Job, RowSets
<1>4. QED
  BY <1>1, <1>3 DEF Settle, WizardType, form, picker

\* Batch numbers.
LEMMA NothingBatch == 0 \in 0 .. MaxBatches
BY BoundAssumption

LEMMA NextBatch ==
    ASSUME NEW n \in 0 .. MaxBatches, n < MaxBatches
    PROVE  n + 1 \in 0 .. MaxBatches /\ n + 1 # 0
BY BoundAssumption

LEMMA TypeInit == Init => TypeOK
<1>1. API!Init => API!TypeOK
  BY ApiInit, ApiType, P!TypeInit, NoPostAssumption, PayloadAssumption
<1>2. Init => WizardType
  BY NothingBatch, Zenon DEF Init, WizardType
<1>3. QED
  BY <1>1, <1>2, TypeParts DEF Init

\* What the user does to the CSV.
LEMMA EditType ==
    ASSUME WizardType, \/ \E csv \in Csvs : Edit(csv) \/ ChooseFile(csv)
                       \/ EditAway \/ FileLoaded \/ ClearFile
    PROVE  WizardType'
<1> USE NothingBatch
<1>1. ASSUME NEW csv \in Csvs, Edit(csv)
      PROVE  WizardType'
  BY <1>1, NextBatch, Zenon DEF Edit, Parse, WizardType
<1>2. ASSUME NEW csv \in Csvs, ChooseFile(csv)
      PROVE  WizardType'
  BY <1>2 DEF ChooseFile, WizardType, form
<1>3. CASE EditAway
  BY <1>3, Zenon DEF EditAway, WizardType
<1>4. CASE FileLoaded
  BY <1>4, NextBatch DEF FileLoaded, Parse, WizardType
<1>5. CASE ClearFile
  BY <1>5 DEF ClearFile, WizardType
<1>6. QED
  BY <1>1, <1>2, <1>3, <1>4, <1>5

LEMMA ImportType ==
    ASSUME WizardType, API!TypeOK, Answered, Import
    PROVE  WizardType'
<1>1. CASE ImportBegin
  <2>1. rows \in Csvs /\ batch \in Batches
    BY <1>1, BoundAssumption DEF ImportBegin, WizardType, Batches
  <2>2. [i \in DOMAIN rows |-> "pending"] \in Statuses
    BY <2>1 DEF Statuses, Status
  <2>3. Pending \subseteq DOMAIN rows /\ Pending \in RowSets
    BY <2>1 DEF Pending, RowSets
  <2>4. results # None => results.batch \in Batches /\ results.at \in Statuses
    BY DEF WizardType, Result
  <2>5. job' \in Job /\ job'.todo \subseteq DOMAIN job'.rows
    BY <1>1, <2>1, <2>2, <2>3, <2>4 DEF ImportBegin, Job
  <2>6. QED
    BY <1>1, <2>5 DEF ImportBegin, WizardType, form, picker
<1>2. CASE SkipRow
  BY <1>2, SettleType DEF SkipRow, Status
<1>3. CASE PostRow
  <2>1. PICK p \in Posts : job' = [job EXCEPT !.post = p]
    BY <1>3 DEF PostRow
  <2>2. job \in Job
    BY <1>3 DEF PostRow, WizardType
  <2>3. job' \in Job /\ job'.todo = job.todo /\ job'.rows = job.rows
    BY <2>1, <2>2 DEF Job
  <2>4. QED
    BY <1>3, <2>3 DEF PostRow, WizardType, form, picker
<1>4. CASE BreakOff
  BY <1>4 DEF BreakOff, WizardType, form, picker
<1>5. CASE Receive
  <2>1. Outcome(answer[job.post]) \in Status
    <3>1. job \in Job
      BY <1>5 DEF Receive, WizardType
    <3>2. job.post \in Posts /\ step[job.post] = "done"
      BY <1>5, <3>1 DEF Receive, Job
    <3>3. answer[job.post] \in API!Answer \ {"none"}
      BY <3>2 DEF API!TypeOK, Answered
    <3>4. QED
      BY <3>3 DEF Outcome, Status, API!Answer
  <2>2. QED
    BY <1>5, <2>1, SettleType DEF Receive
<1>6. CASE LoseAnswer
  BY <1>6, SettleType DEF LoseAnswer, Status
<1>7. CASE ImportEnd
  <2>1. job \in Job
    BY <1>7 DEF ImportEnd, WizardType
  <2>2. results' \in Result
    BY <1>7, <2>1 DEF ImportEnd, Job, Result
  <2>3. QED
    BY <1>7, <2>2 DEF ImportEnd, WizardType, picker
<1>8. QED
  BY <1>1, <1>2, <1>3, <1>4, <1>5, <1>6, <1>7 DEF Import

LEMMA ReconcileType ==
    ASSUME WizardType, Reconcile \/ Discard
    PROVE  WizardType'
<1>1. CASE ReconcileBegin
  <2>1. results \in Result /\ Unknowns(results) \in RowSets
    BY <1>1 DEF ReconcileBegin, WizardType, Unknowns, Result, Statuses, RowSets
  <2>2. check' \in Check
    BY <1>1, <2>1 DEF ReconcileBegin, Check, Result
  <2>3. QED
    BY <1>1, <2>2 DEF ReconcileBegin, WizardType, form, picker
<1>2. CASE ReconcileChunk
  <2>1. check \in Check
    BY <1>2 DEF ReconcileChunk, WizardType
  <2>2. \A k : Verdict(k) \in Status
    BY SMTT(30) DEF Verdict, Status
  <2>3. PICK chunk \in SUBSET check.todo, unresolved \in SUBSET check.todo :
          check' = [check EXCEPT
                       !.at = [i \in DOMAIN @ |-> IF i \in chunk \ unresolved
                                                    THEN Verdict(<<check.batch, i>>) ELSE @[i]],
                       !.todo = @ \ chunk,
                       !.heard = TRUE]
    BY <1>2 DEF ReconcileChunk
  <2>4. [i \in DOMAIN check.at |-> IF i \in chunk \ unresolved
            THEN Verdict(<<check.batch, i>>) ELSE check.at[i]] \in Statuses
    BY <2>1, <2>2, StatusSet DEF Check
  <2>5. check' \in Check
    BY <2>1, <2>3, <2>4 DEF Check, RowSets
  <2>6. QED
    BY <1>2, <2>5 DEF ReconcileChunk, WizardType, form, picker
<1>3. CASE ReconcileFails
  <2>1. check' \in Check
    BY <1>3 DEF ReconcileFails, WizardType, Check, RowSets
  <2>2. QED
    BY <1>3, <2>1 DEF ReconcileFails, WizardType, form, picker
<1>4. CASE ReconcileEnd
  <2>1. results' \in Result \cup {None}
    BY <1>4 DEF ReconcileEnd, WizardType, Check, Result
  <2>2. QED
    BY <1>4, <2>1 DEF ReconcileEnd, WizardType, picker
<1>5. CASE Discard
  <2>1. results \in Result
    BY <1>5 DEF Discard, WizardType, Unknowns
  <2>2. [i \in DOMAIN results.at |-> IF results.at[i] = "unknown" THEN "discarded"
            ELSE results.at[i]] \in Statuses
    BY <2>1, StatusSet DEF Result, Status
  <2>3. results' \in Result
    BY <1>5, <2>1, <2>2 DEF Discard, Result
  <2>4. QED
    BY <1>5, <2>3 DEF Discard, WizardType, picker
<1>6. QED
  BY <1>1, <1>2, <1>3, <1>4, <1>5 DEF Reconcile

LEMMA DialogType ==
    ASSUME WizardType, Close \/ Reopen
    PROVE  WizardType'
<1>1. CASE Close
  <2>1. slot' \in Slot \cup {None}
    <3>1. CASE Unknowns(results) # {} /\ rows # <<>>
      <4>1. results \in Result /\ rows \in Csvs /\ batch \in Batches
        BY <3>1, BoundAssumption DEF WizardType, Unknowns, Batches
      <4>2. QED
        BY <1>1, <3>1, <4>1 DEF Close, Slot
    <3>2. CASE ~(Unknowns(results) # {} /\ rows # <<>>)
      BY <1>1, <3>2 DEF Close
    <3>3. QED
      BY <3>1, <3>2
  <2>2. QED
    BY <1>1, <2>1, NothingBatch, Zenon DEF Close, Unmount, WizardType
<1>2. CASE Reopen
  <2>1. CASE slot = None
    BY <1>2, <2>1, BoundAssumption DEF Reopen, WizardType, picker
  <2>2. CASE slot # None
    <3>1. /\ rows' \in Csvs /\ batch' \in Batches /\ results' \in Result
      BY <1>2, <2>2 DEF Reopen, WizardType, Slot
    <3>2. batch' \in 0 .. MaxBatches /\ batch' # 0
      BY <3>1, BoundAssumption DEF Batches
    <3>3. QED
      BY <1>2, <3>1, <3>2 DEF Reopen, WizardType, picker
  <2>3. QED
    BY <2>1, <2>2
<1>3. QED
  BY <1>1, <1>2

-----------------------------------------------------------------------------
(* A session is a behaviour of the API *)

LEMMA SessionStep ==
    ASSUME TypeOK, [Next]_vars
    PROVE  [P!Next]_api
<1>1. ASSUME NEW p \in Posts, Serve(p) \/ Staffed(p)
      PROVE  P!Next
  BY <1>1, ServeStep, StaffStep DEF Serve, Staffed
<1>2. CASE PostRow
  <2>1. PICK i \in job.todo, p \in Posts :
          job.rows[i] # Blank /\ API!Send(p, <<job.batch, i>>, job.rows[i])
    BY <1>2 DEF PostRow
  <2>2. job \in Job /\ job.todo \subseteq DOMAIN job.rows
    BY <1>2 DEF PostRow, TypeOK
  <2>3. <<job.batch, i>> \in Keys
    BY <2>2 DEF Job, RowSets, Batches, Keys
  <2>4. job.rows[i] \in Payloads
    BY <2>1, <2>2, RowsOfCsv DEF Job
  <2>5. QED
    BY <2>1, <2>3, <2>4, SendStep
<1>3. CASE \/ \E csv \in Csvs : Edit(csv) \/ ChooseFile(csv)
           \/ EditAway \/ FileLoaded \/ ClearFile
  BY <1>3 DEF Edit, ChooseFile, EditAway, FileLoaded, ClearFile
<1>4. CASE ImportBegin \/ SkipRow \/ BreakOff \/ Receive \/ LoseAnswer \/ ImportEnd
  BY <1>4 DEF ImportBegin, SkipRow, BreakOff, Receive, LoseAnswer, ImportEnd
<1>5. CASE Reconcile \/ Discard
  BY <1>5 DEF Reconcile, ReconcileBegin, ReconcileChunk, ReconcileFails, ReconcileEnd, Discard
<1>6. CASE Close \/ Reopen
  BY <1>6 DEF Close, Reopen
<1>7. CASE UNCHANGED vars
  BY <1>7 DEF vars
<1>8. QED
  BY <1>1, <1>2, <1>3, <1>4, <1>5, <1>6, <1>7 DEF Next, Import

LEMMA WizardStep ==
    ASSUME TypeOK, Answered, [Next]_vars
    PROVE  WizardType'
<1>1. WizardType /\ API!TypeOK
  BY TypeParts
<1>2. ASSUME NEW p \in Posts, Serve(p) \/ Staffed(p)
      PROVE  WizardType'
  BY <1>1, <1>2 DEF Serve, Staffed, wizard, WizardType
<1>3. CASE UNCHANGED vars
  BY <1>1, <1>3 DEF vars, wizard, WizardType
<1>4. QED
  BY <1>1, <1>2, <1>3, EditType, ImportType, ReconcileType, DialogType DEF Next

\* The invariant of the API holds throughout a session, and so does the type invariant.
SessionInv == P!IInv /\ TypeOK

LEMMA SessionInit == Init => SessionInv
BY ApiInit, TypeInit, P!InvInit, NoPostAssumption, PayloadAssumption DEF Init, SessionInv

LEMMA SessionKept ==
    ASSUME SessionInv, [Next]_vars
    PROVE  SessionInv'
<1>1. [P!Next]_api
  BY SessionStep DEF SessionInv
<1>2. P!IInv'
  BY <1>1, P!InvStep, NoPostAssumption, PayloadAssumption DEF SessionInv, P!vars, api
<1>3. Answered
  BY DEF SessionInv, P!IInv, P!HistoryInv, Answered
<1>4. WizardType'
  BY <1>3, WizardStep DEF SessionInv
<1>5. API!TypeOK'
  BY <1>2, ApiType DEF P!IInv
<1>6. QED
  BY <1>2, <1>4, <1>5 DEF SessionInv, TypeOK, WizardType

\* Type correctness of the wizard, for any CSVs, chunk size and number of requests
\* (attendance-csv-wizard.tsx:116-497).
THEOREM TypeCorrect == Spec => []TypeOK
<1>1. SessionInv => TypeOK
  BY DEF SessionInv
<1>2. SessionInv /\ [Next]_vars => SessionInv'
  BY SessionKept
<1>3. QED
  BY <1>1, <1>2, SessionInit, PTL DEF Spec

\* Every session of the wizard is a behaviour of the keyed create: it sends whole
\* requests with keys of its own, and touches nothing else of the API
\* (attendance-csv-wizard.tsx:294-297).
THEOREM SessionIsApi == Spec => P!Spec
<1>1. Init => P!Init
  BY ApiInit DEF Init
<1>2. SessionInv /\ [Next]_vars => [P!Next]_(P!vars)
  BY SessionStep DEF SessionInv, P!vars, api
<1>3. SessionInv /\ [Next]_vars => SessionInv'
  BY SessionKept
<1>4. QED
  BY <1>1, <1>2, <1>3, SessionInit, PTL DEF Spec, P!Spec

\* So every session meets the promise of the keyed create to its clients: however the
\* wizard imports, gives up, retries and reconciles, each of its requests takes effect in
\* one step, and no key has two punches (attendance/services.py:156-231).
THEOREM SessionKeepsPromise == Spec => P!ImplementsStore /\ []P!OneActive /\ []P!AnswersTruthful
<1>1. P!Spec => P!ImplementsStore
  BY P!ImplementsStoreHolds, NoPostAssumption, PayloadAssumption
<1>2. P!Spec => []P!OneActive
  BY P!OneActiveHolds, NoPostAssumption, PayloadAssumption
<1>3. P!Spec => []P!AnswersTruthful
  BY P!AnswersTruthfulHolds, NoPostAssumption, PayloadAssumption
<1>4. QED
  BY <1>1, <1>2, <1>3, SessionIsApi, PTL

-----------------------------------------------------------------------------
(* Success *)

\* A record was committed under the key.
Committed(k) == \E p \in Posts : key[p] = k /\ record[p] # "none"

Honest(r) == \A i \in DOMAIN r.at : r.at[i] = "success" => Committed(<<r.batch, i>>)

\* Wherever the wizard keeps results, a success in them is recorded.
SuccessInv ==
    /\ results # None => Honest(results)
    /\ job # None => Honest(job)
    /\ check # None => Honest(check)
    /\ slot # None => Honest(slot.results)

\* The request an import waits for was sent under the key of the row it is at.
AwaitInv ==
    (job # None /\ job.post # NoPost) =>
        /\ step[job.post] # "unsent"
        /\ \A i \in job.todo : Turn(i) => key[job.post] = <<job.batch, i>>

IInv == SessionInv /\ SuccessInv /\ AwaitInv

\* After a step, a record is committed under the key k of before.
StillCommitted(k) == \E p \in Posts : key'[p] = k /\ record'[p] # "none"

LEMMA CommittedStays ==
    ASSUME SessionInv, [Next]_vars
    PROVE  \A k : Committed(k) => StillCommitted(k)
<1>1. \A p \in Posts : record[p] # "none" => record'[p] # "none" /\ key'[p] = key[p]
  BY SessionStep, ApiKeeps DEF SessionInv
<1>2. QED
  BY <1>1 DEF Committed, StillCommitted

\* The new copies of the results are honest when their successes still are committed.
HonestNext(r) == \A i \in DOMAIN r.at : r.at[i] = "success" => StillCommitted(<<r.batch, i>>)

LEMMA HonestStays ==
    ASSUME SessionInv, [Next]_vars
    PROVE  \A r : Honest(r) => HonestNext(r)
BY CommittedStays DEF Honest, HonestNext

LEMMA CopiesHonest ==
    ASSUME results' # None => HonestNext(results'),
           job' # None => HonestNext(job'),
           check' # None => HonestNext(check'),
           slot' # None => HonestNext(slot'.results)
    PROVE  SuccessInv'
BY DEF SuccessInv, Honest, HonestNext, Committed, StillCommitted

\* The verdict on a row, a success only with a record, keeps the job honest.
LEMMA SettleHonest ==
    ASSUME IInv, [Next]_vars, job # None, NEW i \in job.todo, NEW s \in Status, Settle(i, s),
           s = "success" => Committed(<<job.batch, i>>)
    PROVE  SuccessInv' /\ AwaitInv'
<1>1. SessionInv /\ job \in Job
  BY DEF IInv, SessionInv, TypeOK
<1>2. /\ job'.batch = job.batch /\ job'.post = NoPost
      /\ job'.at = [job.at EXCEPT ![i] = s]
      /\ UNCHANGED <<results, check, slot>>
  BY <1>1 DEF Settle, Job, form
<1>3. Honest(job')
  BY <1>1, <1>2, StatusSet DEF IInv, SuccessInv, Honest, Job
<1>4. SuccessInv'
  BY <1>1, <1>2, <1>3, HonestStays, CopiesHonest DEF IInv, SuccessInv
<1>5. QED
  BY <1>2, <1>4 DEF AwaitInv

\* A step that leaves every copy of the results alone.
LEMMA CopiesStay ==
    ASSUME IInv, [Next]_vars, UNCHANGED <<results, check, slot>>,
           job' = job \/ job' = None
    PROVE  SuccessInv'
<1>1. SessionInv
  BY DEF IInv
<1>2. QED
  BY <1>1, HonestStays, CopiesHonest DEF IInv, SuccessInv

\* The request that is waited for stays the one of the row.
LEMMA AwaitStays ==
    ASSUME IInv, [Next]_vars, job' = job \/ job' = None
    PROVE  AwaitInv'
<1>1. [P!Next]_api /\ P!IInv
  BY SessionStep DEF IInv, SessionInv
<1>2. CASE job # None /\ job' = job /\ job.post # NoPost
  <2>1. job.post \in Posts
    BY <1>2 DEF IInv, SessionInv, TypeOK, Job
  <2>2. step'[job.post] # "unsent" /\ key'[job.post] = key[job.post]
    BY <1>1, <1>2, <2>1, ApiKeeps DEF IInv, AwaitInv
  <2>3. QED
    BY <1>2, <2>2 DEF IInv, AwaitInv, Turn
<1>3. CASE ~(job # None /\ job' = job /\ job.post # NoPost)
  BY <1>3 DEF AwaitInv
<1>4. QED
  BY <1>2, <1>3

\* The first row that is left, if any, is one row.
LEMMA TurnUnique ==
    ASSUME TypeOK, job # None, NEW i \in job.todo, NEW j \in job.todo, Turn(i), Turn(j)
    PROVE  i = j
<1>1. job.todo \subseteq DOMAIN job.rows /\ job.rows \in Csvs
  BY DEF TypeOK, Job
<1>2. job.todo \subseteq Nat
  BY <1>1, CsvAssumption
<1>3. QED
  BY <1>2 DEF Turn

LEMMA ImportInv ==
    ASSUME IInv, [Next]_vars, Import
    PROVE  SuccessInv' /\ AwaitInv'
<1> SessionInv /\ TypeOK
  BY DEF IInv, SessionInv
<1>1. CASE ImportBegin
  <2>1. /\ UNCHANGED <<results, check, slot>>
        /\ job'.post = NoPost
    BY <1>1 DEF ImportBegin, form
  <2>2. Honest(job')
    <3>1. CASE results = None
      BY <1>1, <3>1 DEF ImportBegin, Honest
    <3>2. CASE results # None
      BY <1>1, <3>2 DEF ImportBegin, Honest, IInv, SuccessInv
    <3>3. QED
      BY <3>1, <3>2
  <2>3. SuccessInv'
    BY <2>1, <2>2, HonestStays, CopiesHonest DEF IInv, SuccessInv
  <2>4. QED
    BY <2>1, <2>3 DEF AwaitInv
<1>2. CASE SkipRow
  BY <1>2, SettleHonest DEF SkipRow, Status
<1>3. CASE PostRow
  <2>1. PICK i \in job.todo, p \in Posts :
          Turn(i) /\ API!Send(p, <<job.batch, i>>, job.rows[i]) /\ job' = [job EXCEPT !.post = p]
    BY <1>3 DEF PostRow, AtRow
  <2>2. job # None /\ job \in Job /\ UNCHANGED <<results, check, slot>>
    BY <1>3 DEF PostRow, TypeOK, form
  <2>3. /\ job'.batch = job.batch /\ job'.at = job.at /\ job'.todo = job.todo
        /\ job'.post = p
    BY <2>1, <2>2 DEF Job
  <2>4. step'[p] # "unsent" /\ key'[p] = <<job.batch, i>>
    BY <2>1 DEF API!Send, TypeOK, API!TypeOK
  <2>5. \A j \in job.todo : Turn(j) => j = i
    BY <2>1, <2>2, TurnUnique
  <2>6. AwaitInv'
    BY <2>3, <2>4, <2>5 DEF AwaitInv, Turn
  <2>7. Honest(job')
    BY <2>2, <2>3 DEF IInv, SuccessInv, Honest
  <2>8. QED
    BY <2>2, <2>6, <2>7, HonestStays, CopiesHonest DEF IInv, SuccessInv
<1>4. CASE BreakOff
  BY <1>4, CopiesStay, AwaitStays DEF BreakOff, form
<1>5. CASE Receive
  <2>1. PICK i \in job.todo : Turn(i) /\ Settle(i, Outcome(answer[job.post]))
    BY <1>5 DEF Receive
  <2>2. job # None /\ job.post \in Posts /\ step[job.post] = "done"
        /\ key[job.post] = <<job.batch, i>>
    BY <1>5, <2>1 DEF Receive, TypeOK, Job, IInv, AwaitInv
  <2>3. answer[job.post] \in {"created", "replayed", "refused", "failed"}
    BY <2>2 DEF TypeOK, API!TypeOK, API!Answer, SessionInv, P!IInv, P!HistoryInv
  <2>4. Outcome(answer[job.post]) \in Status
    BY <2>3 DEF Outcome, Status
  <2>5. CASE answer[job.post] \in {"created", "replayed"}
    <3>1. /\ told[job.post] \in Posts
          /\ key[told[job.post]] = key[job.post]
          /\ record[told[job.post]] # "none"
      BY <2>2, <2>5 DEF SessionInv, P!IInv, P!AnswersTruthful
    <3>2. Committed(<<job.batch, i>>)
      BY <2>2, <3>1 DEF Committed
    <3>3. QED
      BY <2>1, <2>2, <2>4, <3>2, SettleHonest
  <2>6. CASE answer[job.post] \in {"refused", "failed"}
    BY <2>1, <2>2, <2>4, <2>6, SettleHonest DEF Outcome
  <2>7. QED
    BY <2>3, <2>5, <2>6
<1>6. CASE LoseAnswer
  BY <1>6, SettleHonest DEF LoseAnswer, Status
<1>7. CASE ImportEnd
  <2>1. /\ results' = [batch |-> job.batch, at |-> job.at]
        /\ job' = None /\ job # None /\ UNCHANGED <<check, slot>>
    BY <1>7 DEF ImportEnd
  <2>2. Honest(results')
    BY <2>1 DEF IInv, SuccessInv, Honest
  <2>3. QED
    BY <2>1, <2>2, HonestStays, CopiesHonest DEF IInv, SuccessInv, AwaitInv
<1>8. QED
  BY <1>1, <1>2, <1>3, <1>4, <1>5, <1>6, <1>7 DEF Import

LEMMA ReconcileInv ==
    ASSUME IInv, [Next]_vars, Reconcile \/ Discard
    PROVE  SuccessInv' /\ AwaitInv'
<1> SessionInv /\ TypeOK
  BY DEF IInv, SessionInv
<1>1. job' = job /\ slot' = slot
  BY DEF Reconcile, ReconcileBegin, ReconcileChunk, ReconcileFails, ReconcileEnd, Discard
<1>2. AwaitInv'
  BY <1>1, AwaitStays
<1>3. CASE ReconcileBegin
  <2>1. /\ UNCHANGED results /\ results # None
        /\ check'.batch = results.batch /\ check'.at = results.at
    BY <1>3 DEF ReconcileBegin, form, Unknowns
  <2>2. Honest(check')
    BY <2>1 DEF IInv, SuccessInv, Honest
  <2>3. QED
    BY <1>1, <1>2, <2>1, <2>2, HonestStays, CopiesHonest DEF IInv, SuccessInv
<1>4. CASE ReconcileChunk
  <2>1. PICK settled \in SUBSET check.todo :
          /\ check'.at = [i \in DOMAIN check.at |-> IF i \in settled
                            THEN Verdict(<<check.batch, i>>) ELSE check.at[i]]
          /\ check'.batch = check.batch
    <3>1. check \in Check
      BY <1>4 DEF ReconcileChunk, TypeOK
    <3> DEFINE chunk == {i \in check.todo : Cardinality({j \in check.todo : j < i}) < Chunk}
    <3>2. PICK unresolved \in SUBSET chunk :
            check' = [check EXCEPT
                       !.at = [i \in DOMAIN @ |-> IF i \in chunk \ unresolved
                                                    THEN Verdict(<<check.batch, i>>) ELSE @[i]],
                       !.todo = @ \ chunk,
                       !.heard = TRUE]
      BY <1>4 DEF ReconcileChunk
    <3> HIDE DEF chunk
    <3>3. chunk \subseteq check.todo
      BY DEF chunk
    <3>4. /\ check'.at = [i \in DOMAIN check.at |-> IF i \in chunk \ unresolved
                            THEN Verdict(<<check.batch, i>>) ELSE check.at[i]]
          /\ check'.batch = check.batch
      BY <3>1, <3>2 DEF Check
    <3>5. QED
      BY <3>3, <3>4
  <2>2. check # None /\ UNCHANGED results
    BY <1>4 DEF ReconcileChunk, form
  <2>3. \A k : Verdict(k) = "success" => Committed(k)
    BY DEF Verdict, Committed, API!Active
  <2>4. Honest(check')
    BY <2>1, <2>2, <2>3 DEF IInv, SuccessInv, Honest
  <2>5. QED
    BY <1>1, <1>2, <2>2, <2>4, HonestStays, CopiesHonest DEF IInv, SuccessInv
<1>5. CASE ReconcileFails
  <2>1. /\ check # None /\ UNCHANGED results
        /\ check'.batch = check.batch /\ check'.at = check.at
    BY <1>5 DEF ReconcileFails, form, TypeOK, Check
  <2>2. Honest(check')
    BY <2>1 DEF IInv, SuccessInv, Honest
  <2>3. QED
    BY <1>1, <1>2, <2>1, <2>2, HonestStays, CopiesHonest DEF IInv, SuccessInv
<1>6. CASE ReconcileEnd
  <2>1. check # None /\ check' = None
    BY <1>6 DEF ReconcileEnd
  <2>2. results' # None => Honest(results')
    <3>1. results' = [batch |-> check.batch, at |-> check.at] \/ results' = results
      BY <1>6 DEF ReconcileEnd
    <3>2. QED
      BY <2>1, <3>1 DEF IInv, SuccessInv, Honest
  <2>3. QED
    BY <1>1, <1>2, <2>1, <2>2, HonestStays, CopiesHonest DEF IInv, SuccessInv
<1>7. CASE Discard
  <2>1. /\ results # None /\ UNCHANGED check
        /\ results'.batch = results.batch
        /\ results'.at = [i \in DOMAIN results.at |-> IF results.at[i] = "unknown"
                            THEN "discarded" ELSE results.at[i]]
    BY <1>7 DEF Discard, Unknowns, TypeOK, Result
  <2>2. Honest(results')
    BY <2>1 DEF IInv, SuccessInv, Honest
  <2>3. QED
    BY <1>1, <1>2, <2>1, <2>2, HonestStays, CopiesHonest DEF IInv, SuccessInv
<1>8. QED
  BY <1>3, <1>4, <1>5, <1>6, <1>7 DEF Reconcile

LEMMA OthersInv ==
    ASSUME IInv, [Next]_vars,
           \/ \E csv \in Csvs : Edit(csv) \/ ChooseFile(csv)
           \/ EditAway \/ FileLoaded \/ ClearFile
           \/ Close \/ Reopen
           \/ \E p \in Posts : Serve(p) \/ Staffed(p)
           \/ UNCHANGED vars
    PROVE  SuccessInv' /\ AwaitInv'
<1> SessionInv
  BY DEF IInv
<1>1. job' = job \/ job' = None
  BY DEF Edit, ChooseFile, EditAway, FileLoaded, ClearFile, Close, Unmount, Reopen, Serve,
         Staffed, wizard, vars
<1>2. check' = check \/ check' = None
  BY DEF Edit, ChooseFile, EditAway, FileLoaded, ClearFile, Close, Unmount, Reopen, Serve,
         Staffed, wizard, vars
<1>3. results' = results \/ results' = None \/ (slot # None /\ results' = slot.results)
  BY DEF Edit, ChooseFile, EditAway, FileLoaded, Parse, ClearFile, Close, Unmount, Reopen, Serve,
         Staffed, wizard, vars, form
<1>4. slot' = slot \/ slot' = None \/ (results # None /\ slot'.results = results)
  BY DEF Edit, ChooseFile, EditAway, FileLoaded, Parse, ClearFile, Close, Reopen, Serve,
         Staffed, wizard, vars, Unknowns
<1>5. SuccessInv'
  BY <1>1, <1>2, <1>3, <1>4, HonestStays, CopiesHonest DEF IInv, SuccessInv
<1>6. QED
  BY <1>1, <1>5, AwaitStays

LEMMA InvStep == IInv /\ [Next]_vars => IInv'
<1> SUFFICES ASSUME IInv, [Next]_vars
             PROVE  IInv'
    OBVIOUS
<1>1. SessionInv'
  BY SessionKept DEF IInv
<1>2. SuccessInv' /\ AwaitInv'
  BY ImportInv, ReconcileInv, OthersInv DEF Next
<1>3. QED
  BY <1>1, <1>2 DEF IInv

\* What the wizard shows as recorded is recorded under the key of its row, whichever
\* attempt committed it, and however requests are lost and files are read meanwhile
\* (attendance-csv-wizard.tsx:252-352).
THEOREM SuccessCommittedHolds == Spec => []SuccessCommitted
<1>1. Init => IInv
  BY SessionInit DEF Init, IInv, SuccessInv, AwaitInv
<1>2. IInv => SuccessCommitted
  <2> SUFFICES ASSUME IInv, results # None, NEW i \in DOMAIN results.at,
                      results.at[i] = "success"
               PROVE  API!Active(KeyShown(i)) \cup API!Deleted(KeyShown(i)) # {}
      BY DEF SuccessCommitted
  <2>1. PICK p \in Posts : key[p] = <<results.batch, i>> /\ record[p] # "none"
    BY DEF IInv, SuccessInv, Honest, Committed
  <2>2. record[p] \in {"active", "deleted"}
    BY <2>1 DEF IInv, SessionInv, TypeOK, API!TypeOK
  <2>3. QED
    BY <2>1, <2>2 DEF API!Active, API!Deleted, KeyShown
<1>3. QED
  BY <1>1, <1>2, InvStep, PTL DEF Spec

-----------------------------------------------------------------------------
(* The handlers while the user goes on *)

LEMMA ChunkStep ==
    ASSUME TypeOK, ReconcileChunk
    PROVE  /\ check # None /\ check'.batch = check.batch
           /\ UNCHANGED <<api, open, form, picker, importing, job, slot, minted>>
<1>1. check # None /\ UNCHANGED <<api, open, form, picker, importing, job, slot, minted>>
  BY Zenon DEF ReconcileChunk
<1>2. check \in Check
  BY <1>1 DEF TypeOK
<1>3. PICK at, todo : check' = [check EXCEPT !.at = at, !.todo = todo, !.heard = TRUE]
  BY Zenon DEF ReconcileChunk
<1>4. check'.batch = check.batch
  BY <1>2, <1>3 DEF Check
<1>5. QED
  BY <1>1, <1>4

LEMMA DiscardStep ==
    ASSUME TypeOK, Discard
    PROVE  /\ ~importing /\ check = None
           /\ results # None /\ results'.batch = results.batch
           /\ Unknowns(results') = {}
           /\ UNCHANGED <<api, open, rows, batch, picker, importing, job, check, slot, minted>>
<1>1. /\ ~importing /\ check = None
      /\ UNCHANGED <<api, open, rows, batch, picker, importing, job, check, slot, minted>>
  BY Zenon DEF Discard
<1>2. results # None
  BY Zenon DEF Discard, Unknowns
<1>3. results \in Result
  BY <1>2 DEF TypeOK
<1>4. /\ results'.batch = results.batch
      /\ results'.at = [i \in DOMAIN results.at |->
                          IF results.at[i] = "unknown" THEN "discarded" ELSE results.at[i]]
  BY <1>3 DEF Discard, Result
<1>5. Unknowns(results') = {}
  BY <1>4 DEF Unknowns
<1>6. QED
  BY <1>1, <1>2, <1>4, <1>5

\* The loop of an import keeps its rows and its batch.
LEMMA LoopStep ==
    ASSUME TypeOK, SkipRow \/ PostRow \/ Receive \/ LoseAnswer
    PROVE  /\ job # None
           /\ job'.rows = job.rows /\ job'.batch = job.batch
           /\ job'.todo \subseteq job.todo
           /\ UNCHANGED <<open, form, picker, importing, check, slot, minted>>
<1>1. job # None /\ job \in Job
  BY DEF SkipRow, PostRow, Receive, LoseAnswer, TypeOK
<1>2. CASE SkipRow \/ Receive \/ LoseAnswer
  <2>1. \E i \in job.todo : \E s : Settle(i, s)
    BY <1>2 DEF SkipRow, Receive, LoseAnswer
  <2>2. QED
    BY <1>1, <2>1 DEF Settle, Job
<1>3. CASE PostRow
  BY <1>1, <1>3 DEF PostRow, Job
<1>4. QED
  BY <1>2, <1>3

-----------------------------------------------------------------------------
(* No blind retry *)

\* Every batch in use was drawn.
BatchesDrawn ==
    /\ batch <= minted
    /\ results # None => results.batch <= minted
    /\ job # None => job.batch <= minted
    /\ check # None => check.batch <= minted
    /\ slot # None => slot.batch <= minted /\ slot.results.batch <= minted

\* Handlers run in an open dialog, an import with its buttons disabled.
HandlersMounted ==
    /\ job # None => importing /\ open
    /\ check # None => open

\* A reconciliation works on the results shown, which keep the import out, or on a
\* batch that a new CSV has replaced.
CheckedBatch == check # None =>
    \/ ~importing /\ Unknowns(results) # {} /\ results.batch = check.batch
    \/ /\ batch # check.batch
       /\ results # None => results.batch # check.batch
       /\ job # None => job.batch # check.batch

\* No row of the batch that is imported is shown as unknown.
ImportedSettled ==
    job # None => Unknowns(results) = {} \/ results.batch # job.batch

RetryInv == BatchesDrawn /\ HandlersMounted /\ CheckedBatch /\ ImportedSettled

\* The batches are numbers.
LEMMA BatchNumbers ==
    ASSUME TypeOK
    PROVE  /\ batch \in Nat /\ minted \in Nat
           /\ results # None => results.batch \in Nat \ {0}
           /\ job # None => job.batch \in Nat \ {0}
           /\ check # None => check.batch \in Nat \ {0}
           /\ slot # None => slot.batch \in Nat \ {0} /\ slot.results.batch \in Nat \ {0}
BY BoundAssumption DEF TypeOK, Result, Job, Check, Slot, Batches

LEMMA RetryInit == Init => RetryInv
BY DEF Init, RetryInv, BatchesDrawn, HandlersMounted, CheckedBatch, ImportedSettled

LEMMA RetryStep ==
    ASSUME TypeOK, RetryInv, [Next]_vars
    PROVE  RetryInv'
<1> USE DEF RetryInv, BatchesDrawn, HandlersMounted, CheckedBatch, ImportedSettled
<1>1. ASSUME NEW csv, Parse(csv), UNCHANGED <<open, importing, job, check, slot>>
      PROVE  RetryInv'
  <2>1. /\ minted' = minted + 1 /\ batch' = minted + 1
        /\ results' = None /\ Unknowns(results') = {}
    BY <1>1 DEF Parse, Unknowns
  <2>2. QED
    BY <1>1, <2>1, BatchNumbers
<1>2. CASE \E csv \in Csvs : Edit(csv)
  BY <1>1, <1>2 DEF Edit
<1>3. CASE EditAway
  <2>1. results' = None /\ Unknowns(results') = {}
    BY <1>3 DEF EditAway, Unknowns
  <2>2. QED
    BY <1>3, <2>1, BatchNumbers DEF EditAway
<1>4. CASE \E csv \in Csvs : ChooseFile(csv)
  BY <1>4 DEF ChooseFile, form, Unknowns
<1>5. CASE FileLoaded
  BY <1>1, <1>5 DEF FileLoaded
<1>6. CASE ClearFile
  BY <1>6 DEF ClearFile, Unknowns
<1>7. CASE ImportBegin
  <2>1. job' # None => job'.batch = IF results = None THEN batch ELSE results.batch
    BY <1>7 DEF ImportBegin
  <2>2. /\ open /\ Unknowns(results) = {} /\ importing'
        /\ UNCHANGED <<open, rows, batch, results, check, slot, minted>>
    BY <1>7 DEF ImportBegin, form
  <2>3. QED
    BY <2>1, <2>2 DEF Unknowns
<1>8. CASE SkipRow \/ PostRow \/ Receive \/ LoseAnswer
  BY <1>8, LoopStep DEF form, Unknowns
<1>9. CASE BreakOff
  BY <1>9 DEF BreakOff, form, Unknowns
<1>10. CASE ImportEnd
  BY <1>10 DEF ImportEnd
<1>11. CASE ReconcileBegin
  BY <1>11 DEF ReconcileBegin, form, Unknowns
<1>12. CASE ReconcileChunk
  BY <1>12, ChunkStep DEF form, Unknowns
<1>13. CASE ReconcileFails
  BY <1>13 DEF ReconcileFails, TypeOK, Check, form, Unknowns
<1>14. CASE ReconcileEnd
  BY <1>14 DEF ReconcileEnd, Unknowns
<1>15. CASE Discard
  BY <1>15, DiscardStep
<1>16. CASE Close
  BY <1>16, BatchNumbers DEF Close, Unmount, Unknowns
<1>17. CASE Reopen
  BY <1>17, BatchNumbers DEF Reopen, Unknowns
<1>18. CASE UNCHANGED vars \/ \E p \in Posts : Serve(p) \/ Staffed(p)
  BY <1>18 DEF vars, Serve, Staffed, wizard, Unknowns
<1>19. QED
  BY <1>2, <1>3, <1>4, <1>5, <1>6, <1>7, <1>8, <1>9, <1>10, <1>11, <1>12, <1>13, <1>14, <1>15,
     <1>16, <1>17, <1>18 DEF Next, Import, Reconcile

\* Nothing but the posting of a row and the work of the API touches the requests.
LEMMA QuietStep ==
    ASSUME TypeOK, [Next]_vars
    PROVE  \/ UNCHANGED api
           \/ PostRow
           \/ \E p \in Posts : Serve(p) \/ Staffed(p)
<1>1. CASE \/ \E csv \in Csvs : Edit(csv) \/ ChooseFile(csv)
           \/ EditAway \/ FileLoaded \/ ClearFile
  BY <1>1 DEF Edit, ChooseFile, EditAway, FileLoaded, ClearFile
<1>2. CASE ImportBegin \/ SkipRow \/ BreakOff \/ Receive \/ LoseAnswer \/ ImportEnd
  BY <1>2 DEF ImportBegin, SkipRow, BreakOff, Receive, LoseAnswer, ImportEnd
<1>3. CASE Reconcile \/ Discard
  BY <1>3, ChunkStep, DiscardStep DEF Reconcile, ReconcileBegin, ReconcileFails, ReconcileEnd
<1>4. CASE Close \/ Reopen
  BY <1>4 DEF Close, Reopen
<1>5. CASE UNCHANGED vars
  BY <1>5 DEF vars
<1>6. QED
  BY <1>1, <1>2, <1>3, <1>4, <1>5 DEF Next, Import

\* A request leaves under a key of the job, whose row is shown as settled.
LEMMA SentSettled ==
    ASSUME TypeOK, RetryInv, [Next]_vars, NEW p \in Posts, step[p] = "unsent", step'[p] = "sent"
    PROVE  key'[p] \notin Unresolved
<1>1. CASE PostRow
  <2>1. PICK i \in job.todo, q \in Posts :
          API!Send(q, <<job.batch, i>>, job.rows[i])
    BY <1>1 DEF PostRow
  <2>2. p = q /\ key'[p] = <<job.batch, i>>
    BY <2>1 DEF API!Send, TypeOK, API!TypeOK
  <2>3. job # None
    BY <1>1 DEF PostRow
  <2>4. open /\ (Unknowns(results) = {} \/ results.batch # job.batch)
    BY <2>3 DEF RetryInv, HandlersMounted, ImportedSettled
  <2>5. \A j \in Unknowns(results) : key'[p] # <<results.batch, j>>
    BY <2>2, <2>4
  <2>6. QED
    BY <2>4, <2>5 DEF Unresolved
<1>2. CASE \E q \in Posts : Serve(q) \/ Staffed(q)
  BY <1>2, ServeSendsNothing DEF TypeOK
<1>3. CASE UNCHANGED api
  BY <1>3 DEF api
<1>4. QED
  BY <1>1, <1>2, <1>3, QuietStep

\* No blind retry: an import sends nothing under the key of a row that the wizard shows
\* as unknown, even when a file that was read slowly or a reconciliation that was still
\* running replaces the rows and results meanwhile (attendance-csv-wizard.tsx:252-300).
THEOREM NoBlindRetryHolds == Spec => NoBlindRetry
<1>1. Init => RetryInv
  BY RetryInit
<1>2. TypeOK /\ RetryInv /\ [Next]_vars => RetryInv'
  BY RetryStep
<1>3. TypeOK /\ RetryInv /\ [Next]_vars =>
        [\A p \in Posts : (step[p] = "unsent" /\ step'[p] = "sent") => key'[p] \notin Unresolved]_vars
  BY SentSettled
<1>4. QED
  BY <1>1, <1>2, <1>3, TypeCorrect, PTL DEF Spec, NoBlindRetry

-----------------------------------------------------------------------------
(* Quick reads *)

\* When no file is read during an import, everything that replaces the results waits
\* for everything else: a text that is read, an import and a reconciliation exclude
\* each other, and only the reconciliation runs beside unknown rows.
OneAtATime ==
    /\ reading # None => open /\ Unknowns(results) = {}
    /\ importing => open /\ reading = None /\ Unknowns(results) = {}
    /\ job # None => importing
    /\ check # None => open /\ Unknowns(results) # {} /\ check.batch = results.batch

LEMMA OneAtATimeStep ==
    ASSUME ~SlowReads, TypeOK, OneAtATime, [Next]_vars
    PROVE  OneAtATime'
<1> USE DEF OneAtATime
<1>1. CASE \E csv \in Csvs : Edit(csv)
  <2>1. results' = None /\ Unknowns(results') = {}
    BY <1>1 DEF Edit, Parse, Unknowns
  <2>2. QED
    BY <1>1, <2>1 DEF Edit, Editable
<1>2. CASE EditAway
  <2>1. results' = None /\ Unknowns(results') = {}
    BY <1>2 DEF EditAway, Unknowns
  <2>2. QED
    BY <1>2, <2>1 DEF EditAway, Editable
<1>3. CASE \E csv \in Csvs : ChooseFile(csv)
  BY <1>3 DEF ChooseFile, Editable, form, Unknowns
<1>4. CASE FileLoaded
  <2>1. results' = None /\ Unknowns(results') = {}
    BY <1>4 DEF FileLoaded, Parse, Unknowns
  <2>2. QED
    BY <1>4, <2>1 DEF FileLoaded
<1>5. CASE ClearFile
  BY <1>5 DEF ClearFile, Unknowns
<1>6. CASE ImportBegin
  BY <1>6 DEF ImportBegin, form, picker, Unknowns
<1>7. CASE SkipRow \/ PostRow \/ Receive \/ LoseAnswer
  BY <1>7, LoopStep DEF form, picker, Unknowns
<1>8. CASE BreakOff
  BY <1>8 DEF BreakOff, form, picker, Unknowns
<1>9. CASE ImportEnd
  <2>1. job # None /\ job' = None /\ ~importing' /\ UNCHANGED <<open, picker, check>>
    BY <1>9 DEF ImportEnd
  <2>2. check = None /\ reading = None
    BY <2>1
  <2>3. QED
    BY <2>1, <2>2 DEF picker
<1>10. CASE ReconcileBegin
  BY <1>10 DEF ReconcileBegin, form, picker, Unknowns
<1>11. CASE ReconcileChunk
  BY <1>11, ChunkStep DEF form, picker, Unknowns
<1>12. CASE ReconcileFails
  BY <1>12 DEF ReconcileFails, TypeOK, Check, form, picker, Unknowns
<1>13. CASE ReconcileEnd
  <2>1. check # None /\ check' = None /\ UNCHANGED <<open, picker, importing, job>>
    BY <1>13 DEF ReconcileEnd
  <2>2. ~importing /\ reading = None
    BY <2>1
  <2>3. QED
    BY <2>1, <2>2 DEF picker
<1>14. CASE Discard
  BY <1>14, DiscardStep DEF picker
<1>15. CASE Close
  BY <1>15 DEF Close, Unmount
<1>16. CASE Reopen
  BY <1>16 DEF Reopen, picker
<1>17. CASE UNCHANGED vars \/ \E p \in Posts : Serve(p) \/ Staffed(p)
  BY <1>17 DEF vars, Serve, Staffed, wizard, Unknowns
<1>18. QED
  BY <1>1, <1>2, <1>3, <1>4, <1>5, <1>6, <1>7, <1>8, <1>9, <1>10, <1>11, <1>12, <1>13, <1>14,
     <1>15, <1>16, <1>17 DEF Next, Import, Reconcile

LEMMA OneAtATimeInit == Init => OneAtATime
BY DEF Init, OneAtATime

\* Results belong to rows, when no chosen file is removed.
RowsKept ==
    /\ results # None => rows # <<>>
    /\ job # None => rows # <<>>
    /\ slot # None => slot.rows # <<>>

LEMMA RowsKeptStep ==
    ASSUME ~SlowReads, ~Clears, TypeOK, OneAtATime, RowsKept, [Next]_vars
    PROVE  RowsKept'
<1> USE DEF RowsKept
<1>1. CASE \E csv \in Csvs : Edit(csv)
  BY <1>1 DEF Edit, Parse, Editable, OneAtATime
<1>2. CASE \/ \E csv \in Csvs : ChooseFile(csv)
           \/ EditAway \/ FileLoaded
  BY <1>2 DEF ChooseFile, Editable, EditAway, FileLoaded, Parse, form, OneAtATime
<1>3. CASE ClearFile
  BY <1>3 DEF ClearFile
<1>4. CASE ImportBegin \/ BreakOff \/ ImportEnd
  BY <1>4 DEF ImportBegin, BreakOff, ImportEnd, form
<1>5. CASE SkipRow \/ PostRow \/ Receive \/ LoseAnswer
  BY <1>5, LoopStep DEF form
<1>6. CASE ReconcileChunk
  BY <1>6, ChunkStep DEF form
<1>7. CASE Discard
  BY <1>7, DiscardStep
<1>8. CASE ReconcileBegin \/ ReconcileFails
  BY <1>8 DEF ReconcileBegin, ReconcileFails, form
<1>9. CASE ReconcileEnd
  <2>1. results # None
    BY <1>9 DEF ReconcileEnd, OneAtATime, Unknowns
  <2>2. QED
    BY <1>9, <2>1 DEF ReconcileEnd
<1>10. CASE Close
  BY <1>10 DEF Close, Unmount
<1>11. CASE Reopen
  BY <1>11 DEF Reopen, OneAtATime
<1>12. CASE UNCHANGED vars \/ \E p \in Posts : Serve(p) \/ Staffed(p)
  BY <1>12 DEF vars, Serve, Staffed, wizard
<1>13. QED
  BY <1>1, <1>2, <1>3, <1>4, <1>5, <1>6, <1>7, <1>8, <1>9, <1>10, <1>11, <1>12
     DEF Next, Import, Reconcile

\* What is unknown is kept by every step but a reconciliation's end and a discard.
LEMMA UnknownsStep ==
    ASSUME ~SlowReads, ~Clears, TypeOK, OneAtATime, RowsKept, [Next]_vars
    PROVE  Unresolved \subseteq Unresolved' \/ ReconcileEnd \/ Discard
<1>1. CASE UNCHANGED <<open, results, slot>>
  BY <1>1 DEF Unresolved, Unknowns
<1>2. CASE \/ \E csv \in Csvs : Edit(csv) \/ ChooseFile(csv)
           \/ EditAway \/ FileLoaded
  <2>1. open /\ Unknowns(results) = {}
    BY <1>2 DEF Edit, ChooseFile, EditAway, FileLoaded, Editable, OneAtATime
  <2>2. QED
    BY <2>1 DEF Unresolved
<1>3. CASE ImportEnd
  <2>1. open /\ Unknowns(results) = {}
    BY <1>3 DEF ImportEnd, OneAtATime
  <2>2. QED
    BY <2>1 DEF Unresolved
<1>4. CASE Close
  <2>1. CASE Unknowns(results) = {}
    BY <1>4, <2>1 DEF Close, Unresolved
  <2>2. CASE Unknowns(results) # {}
    <3>1. results # None /\ rows # <<>>
      BY <2>2 DEF Unknowns, RowsKept
    <3>2. slot' = [rows |-> rows, batch |-> batch, results |-> results] /\ ~open' /\ open
      BY <1>4, <2>2, <3>1 DEF Close, Unmount
    <3>3. slot' \in Slot
      BY <3>1, <3>2, BoundAssumption DEF TypeOK, Slot, Batches
    <3>4. slot' # None /\ slot'.results = results
      BY <3>2, <3>3, NoneAssumption
    <3>5. QED
      BY <3>2, <3>4 DEF Unresolved, Unknowns
  <2>3. QED
    BY <2>1, <2>2
<1>5. CASE Reopen
  BY <1>5 DEF Reopen, Unresolved, Unknowns
<1>6. CASE ClearFile
  BY <1>6 DEF ClearFile
<1>7. CASE ImportBegin \/ BreakOff \/ ReconcileBegin \/ ReconcileFails
  BY <1>1, <1>7 DEF ImportBegin, BreakOff, ReconcileBegin, ReconcileFails, form
<1>8. CASE SkipRow \/ PostRow \/ Receive \/ LoseAnswer \/ ReconcileChunk
  BY <1>1, <1>8, LoopStep, ChunkStep DEF form
<1>9. CASE UNCHANGED vars \/ \E p \in Posts : Serve(p) \/ Staffed(p)
  BY <1>1, <1>9 DEF vars, Serve, Staffed, wizard
<1>10. QED
  BY <1>2, <1>3, <1>4, <1>5, <1>6, <1>7, <1>8, <1>9 DEF Next, Import, Reconcile

\* A row that the user is told is unknown stays known as such, through closing and
\* reopening the dialog and through every import, until a reconciliation ends or the
\* user discards it, when files are read before an import begins and none is removed
\* by its X (attendance-csv-wizard.tsx:116-497).
THEOREM UnknownsKeptHolds ==
    ASSUME ~SlowReads, ~Clears
    PROVE  Spec => UnknownsKept
<1>1. Init => OneAtATime /\ RowsKept
  BY OneAtATimeInit DEF Init, RowsKept
<1>2. TypeOK /\ OneAtATime /\ RowsKept /\ [Next]_vars => OneAtATime' /\ RowsKept'
  BY OneAtATimeStep, RowsKeptStep
<1>3. TypeOK /\ OneAtATime /\ RowsKept /\ [Next]_vars =>
        [Unresolved \subseteq Unresolved' \/ ReconcileEnd \/ Discard]_vars
  BY UnknownsStep
<1>4. QED
  BY <1>1, <1>2, <1>3, TypeCorrect, PTL DEF Spec, UnknownsKept

-----------------------------------------------------------------------------
(* One row for each key *)

\* The CSV each batch was drawn for.
Origins == [Batches -> Csvs \cup {<<>>}]

\* The requests that were sent carry rows of the CSVs.
Carried(origin) == \A p \in Posts :
    IF step[p] = "unsent" THEN key[p] = Blank
    ELSE /\ key[p][1] <= minted
         /\ payload[p] = origin[key[p][1]][key[p][2]]

\* Whatever keeps rows or keys of a batch, the slot and the requests included, keeps
\* those of its CSV.
DrawnFor(origin) ==
    /\ rows # <<>> =>
          /\ rows = origin[batch]
          /\ results # None => results.batch = batch
          /\ job # None => job.batch = batch
    /\ job # None => job.rows = origin[job.batch]
    /\ slot # None => slot.rows = origin[slot.batch] /\ slot.results.batch = slot.batch
    /\ Carried(origin)

KeyInv == OneAtATime /\ RetryInv /\ \E origin \in Origins : DrawnFor(origin)

LEMMA CarriedStep ==
    ASSUME TypeOK, RetryInv, [Next]_vars, UNCHANGED minted,
           NEW origin \in Origins, DrawnFor(origin)
    PROVE  Carried(origin)'
<1>1. CASE UNCHANGED api
  BY <1>1 DEF api, DrawnFor, Carried
<1>2. CASE PostRow
  <2>1. PICK i \in job.todo, p \in Posts :
          API!Send(p, <<job.batch, i>>, job.rows[i])
    BY <1>2 DEF PostRow
  <2>2. job.rows = origin[job.batch] /\ job.batch <= minted
    BY <1>2 DEF PostRow, DrawnFor, RetryInv, BatchesDrawn
  <2>3. /\ step'[p] = "sent" /\ key'[p] = <<job.batch, i>> /\ payload'[p] = job.rows[i]
        /\ \A q \in Posts \ {p} : step'[q] = step[q] /\ key'[q] = key[q] /\ payload'[q] = payload[q]
    BY <2>1 DEF API!Send, TypeOK, API!TypeOK
  <2>4. QED
    BY <2>2, <2>3 DEF DrawnFor, Carried
<1>3. CASE \E p \in Posts : Serve(p) \/ Staffed(p)
  <2>1. /\ UNCHANGED <<key, payload>>
        /\ \A q \in Posts : step'[q] = "unsent" <=> step[q] = "unsent"
    BY <1>3, ServeSendsNothing DEF TypeOK
  <2>2. QED
    BY <2>1 DEF DrawnFor, Carried
<1>4. QED
  BY <1>1, <1>2, <1>3, QuietStep

\* A step that parses no text leaves the origins what they are.
LEMMA DrawnStep ==
    ASSUME ~SlowReads, TypeOK, OneAtATime, RetryInv, [Next]_vars, UNCHANGED minted,
           NEW origin \in Origins, DrawnFor(origin)
    PROVE  DrawnFor(origin)'
<1> USE CarriedStep DEF DrawnFor, Carried
<1>1. CASE EditAway
  BY <1>1 DEF EditAway, Editable, OneAtATime
<1>2. CASE \/ \E csv \in Csvs : ChooseFile(csv)
           \/ ClearFile \/ BreakOff \/ ReconcileBegin \/ ReconcileFails
  BY <1>2 DEF ChooseFile, ClearFile, BreakOff, ReconcileBegin, ReconcileFails, form
<1>3. CASE ImportBegin
  <2>1. job'.rows = rows /\ job'.batch = batch
    BY <1>3 DEF ImportBegin
  <2>2. QED
    BY <1>3, <2>1 DEF ImportBegin, form
<1>4. CASE SkipRow \/ PostRow \/ Receive \/ LoseAnswer
  BY <1>4, LoopStep DEF form
<1>5. CASE ImportEnd
  <2>1. job # None /\ job' = None /\ results'.batch = job.batch /\ UNCHANGED <<rows, batch, slot>>
    BY <1>5 DEF ImportEnd
  <2>2. QED
    BY <2>1
<1>6. CASE ReconcileChunk
  BY <1>6, ChunkStep DEF form
<1>7. CASE ReconcileEnd
  <2>1. results # None /\ check.batch = results.batch /\ UNCHANGED <<rows, batch, job, slot>>
    BY <1>7 DEF ReconcileEnd, OneAtATime, Unknowns
  <2>2. results'.batch = results.batch
    BY <1>7, <2>1 DEF ReconcileEnd
  <2>3. QED
    BY <2>1, <2>2
<1>8. CASE Discard
  BY <1>8, DiscardStep
<1>9. CASE Close
  <2>1. CASE Unknowns(results) # {} /\ rows # <<>>
    <3>1. results # None /\ slot' = [rows |-> rows, batch |-> batch, results |-> results]
      BY <1>9, <2>1 DEF Close, Unknowns
    <3>2. rows' = <<>> /\ job' = None
      BY <1>9 DEF Close, Unmount
    <3>3. QED
      BY <2>1, <3>1, <3>2
  <2>2. CASE ~(Unknowns(results) # {} /\ rows # <<>>)
    BY <1>9, <2>2 DEF Close, Unmount
  <2>3. QED
    BY <2>1, <2>2
<1>10. CASE Reopen
  BY <1>10 DEF Reopen, OneAtATime
<1>11. CASE UNCHANGED vars \/ \E p \in Posts : Serve(p) \/ Staffed(p)
  BY <1>11 DEF vars, Serve, Staffed, wizard
<1>12. CASE FileLoaded \/ \E csv \in Csvs : Edit(csv)
  <2>1. minted' = minted + 1
    BY <1>12 DEF FileLoaded, Edit, Parse
  <2>2. QED
    BY <2>1, BatchNumbers
<1>13. QED
  BY <1>1, <1>2, <1>3, <1>4, <1>5, <1>6, <1>7, <1>8, <1>9, <1>10, <1>11, <1>12
     DEF Next, Import, Reconcile

\* A batch that is drawn for a text is the first thing that bears its number.
LEMMA ParseDrawn ==
    ASSUME TypeOK, RetryInv, NEW csv \in Csvs, Parse(csv),
           UNCHANGED <<api, job, slot>>, job = None, NEW origin \in Origins, DrawnFor(origin)
    PROVE  \E o \in Origins : DrawnFor(o)'
<1>1. minted + 1 \in Batches /\ minted \in Nat
  BY BatchNumbers, BoundAssumption DEF Parse, Batches
<1>2. PICK o \in Origins : o = [origin EXCEPT ![minted + 1] = csv]
  BY DEF Origins
<1>3. o[minted + 1] = csv /\ \A b \in Batches : b <= minted => o[b] = origin[b]
  BY <1>1, <1>2 DEF Origins
<1>4. slot # None => slot.rows = o[slot.batch] /\ slot.results.batch = slot.batch
  <2> SUFFICES ASSUME slot # None
               PROVE  slot.rows = o[slot.batch] /\ slot.results.batch = slot.batch
      OBVIOUS
  <2>1. slot.batch \in Batches /\ slot.batch <= minted
    BY DEF TypeOK, Slot, RetryInv, BatchesDrawn
  <2>2. QED
    BY <1>3, <2>1 DEF DrawnFor
<1>5. \A p \in Posts : step[p] # "unsent" =>
         /\ key[p][1] <= minted + 1
         /\ payload[p] = o[key[p][1]][key[p][2]]
  <2> SUFFICES ASSUME NEW p \in Posts, step[p] # "unsent"
               PROVE  /\ key[p][1] <= minted + 1
                      /\ payload[p] = o[key[p][1]][key[p][2]]
      OBVIOUS
  <2>1. key[p] \in Keys /\ key[p][1] <= minted
    BY DEF TypeOK, API!TypeOK, DrawnFor, Carried
  <2>2. key[p][1] \in Batches /\ key[p][1] \in Int
    BY <2>1 DEF Keys, Batches
  <2>3. QED
    BY <1>1, <1>3, <2>1, <2>2 DEF DrawnFor, Carried
<1>6. /\ rows' = csv /\ batch' = minted + 1 /\ minted' = minted + 1
      /\ results' = None /\ job' = None /\ UNCHANGED <<slot, step, key, payload>>
  BY DEF Parse, api
<1>7. \A p \in Posts : step[p] = "unsent" => key[p] = Blank
  BY DEF DrawnFor, Carried
<1>8. DrawnFor(o)'
  <2>1. \A p \in Posts :
          IF step'[p] = "unsent" THEN key'[p] = Blank
          ELSE /\ key'[p][1] <= minted'
               /\ payload'[p] = o[key'[p][1]][key'[p][2]]
    BY <1>5, <1>6, <1>7
  <2>2. /\ rows' = o[batch'] /\ (results' # None => results'.batch = batch')
        /\ job' = None
        /\ slot' # None => slot'.rows = o[slot'.batch] /\ slot'.results.batch = slot'.batch
    BY <1>3, <1>4, <1>6
  <2>3. QED
    BY <2>1, <2>2 DEF DrawnFor, Carried
<1>9. QED
  BY <1>8

LEMMA KeyInit == Init => KeyInv
<1> SUFFICES ASSUME Init
             PROVE  KeyInv
    OBVIOUS
<1> DEFINE o == [b \in Batches |-> <<>>]
<1>1. o \in Origins
  BY DEF Origins
<1>2. DrawnFor(o)
  BY DEF Init, API!Init, DrawnFor, Carried
<1>3. QED
  BY <1>1, <1>2, OneAtATimeInit, RetryInit DEF KeyInv

LEMMA KeyStep ==
    ASSUME ~SlowReads, TypeOK, KeyInv, [Next]_vars
    PROVE  KeyInv'
<1>1. PICK origin \in Origins : DrawnFor(origin)
  BY DEF KeyInv
<1>2. OneAtATime' /\ RetryInv'
  BY OneAtATimeStep, RetryStep DEF KeyInv
<1>3. CASE UNCHANGED minted
  BY <1>1, <1>2, <1>3, DrawnStep DEF KeyInv
<1>4. ASSUME NEW csv \in Csvs, Parse(csv), UNCHANGED <<api, job, slot>>, job = None
      PROVE  KeyInv'
  BY <1>1, <1>2, <1>4, ParseDrawn DEF KeyInv
<1>5. CASE \E csv \in Csvs : Edit(csv)
  <2>1. PICK csv \in Csvs : Edit(csv)
    BY <1>5
  <2>2. job = None
    BY <2>1 DEF Edit, Editable, KeyInv, OneAtATime
  <2>3. QED
    BY <1>4, <2>1, <2>2 DEF Edit
<1>6. CASE FileLoaded
  <2>1. reading \in Csvs /\ job = None
    BY <1>6 DEF FileLoaded, TypeOK, KeyInv, OneAtATime
  <2>2. QED
    BY <1>4, <1>6, <2>1 DEF FileLoaded
<1>7. CASE \/ \E csv \in Csvs : ChooseFile(csv)
           \/ EditAway \/ ClearFile \/ Import \/ Reconcile \/ Discard \/ Close \/ Reopen
           \/ \E p \in Posts : Serve(p) \/ Staffed(p)
           \/ UNCHANGED vars
  <2>1. CASE SkipRow \/ PostRow \/ Receive \/ LoseAnswer \/ ReconcileChunk \/ Discard
    BY <1>3, <2>1, LoopStep, ChunkStep, DiscardStep
  <2>2. CASE \/ \E csv \in Csvs : ChooseFile(csv)
             \/ EditAway \/ ClearFile
             \/ ImportBegin \/ BreakOff \/ ImportEnd
             \/ ReconcileBegin \/ ReconcileFails \/ ReconcileEnd
             \/ Close \/ Reopen
    BY <1>3, <2>2 DEF ChooseFile, EditAway, ClearFile, ImportBegin, BreakOff, ImportEnd,
       ReconcileBegin, ReconcileFails, ReconcileEnd, Close, Reopen
  <2>3. CASE UNCHANGED vars \/ \E p \in Posts : Serve(p) \/ Staffed(p)
    BY <1>3, <2>3 DEF vars, Serve, Staffed, wizard
  <2>4. QED
    BY <1>7, <2>1, <2>2, <2>3 DEF Import, Reconcile
<1>8. QED
  BY <1>5, <1>6, <1>7 DEF Next

LEMMA KeyOneRow == KeyInv => OneRowPerKey
<1> SUFFICES ASSUME KeyInv, NEW p \in Posts, NEW q \in Posts, key[p] = key[q], key[p] # Blank
             PROVE  payload[p] = payload[q]
    BY DEF OneRowPerKey
<1>1. PICK origin \in Origins : DrawnFor(origin)
  BY DEF KeyInv
<1>2. QED
  BY <1>1 DEF DrawnFor, Carried

\* A key belongs to one row of one CSV: whatever is edited, retried, reconciled or
\* restored, two requests with the same key carry the same punch, when files are read
\* before an import begins (attendance-csv-wizard.tsx:143-300).
THEOREM OneRowPerKeyHolds ==
    ASSUME ~SlowReads
    PROVE  Spec => []OneRowPerKey
<1>1. TypeOK /\ KeyInv /\ [Next]_vars => KeyInv'
  BY KeyStep
<1>2. QED
  BY <1>1, KeyInit, KeyOneRow, TypeCorrect, PTL DEF Spec

\* A row shown as a success was recorded with its own times: what the record holds is
\* what the wizard shows in that row, but for a later correction.
SuccessIsTheRow ==
    (results # None /\ rows # <<>>) => \A i \in DOMAIN results.at :
        results.at[i] = "success" =>
            \E p \in Posts : /\ key[p] = KeyShown(i)
                             /\ record[p] # "none"
                             /\ content[p] \in {rows[i], Corrected}

\* The promises of the wizard and of the keyed create together: a success is the
\* record of the punch that the row shows, whichever attempt wrote it, when files are
\* read before an import begins (attendance-csv-wizard.tsx:252-352).
THEOREM SuccessIsTheRowHolds ==
    ASSUME ~SlowReads
    PROVE  Spec => []SuccessIsTheRow
<1>1. IInv /\ KeyInv => SuccessIsTheRow
  <2> SUFFICES ASSUME IInv, KeyInv, results # None, rows # <<>>, NEW i \in DOMAIN results.at,
                      results.at[i] = "success"
               PROVE  \E p \in Posts : /\ key[p] = KeyShown(i)
                                       /\ record[p] # "none"
                                       /\ content[p] \in {rows[i], Corrected}
      BY DEF SuccessIsTheRow
  <2>1. PICK p \in Posts : key[p] = <<results.batch, i>> /\ record[p] # "none"
    BY DEF IInv, SuccessInv, Honest, Committed
  <2>2. step[p] # "unsent" /\ content[p] \in {payload[p], Corrected}
    BY <2>1 DEF IInv, SessionInv, P!IInv, P!HistoryInv
  <2>3. payload[p] = rows[i]
    BY <2>1, <2>2 DEF KeyInv, DrawnFor, Carried
  <2>4. QED
    BY <2>1, <2>2, <2>3 DEF KeyShown
<1>2. TypeOK /\ KeyInv /\ [Next]_vars => KeyInv'
  BY KeyStep
<1>3. IInv /\ [Next]_vars => IInv'
  BY InvStep
<1>4. Init => IInv
  BY SessionInit DEF Init, IInv, SuccessInv, AwaitInv
<1>5. IInv => TypeOK
  BY DEF IInv, SessionInv
<1>6. QED
  BY <1>1, <1>2, <1>3, <1>4, <1>5, KeyInit, PTL DEF Spec

=============================================================================
