------------------------------ MODULE PayrollSession ------------------------------
(* The payroll page: preview a period, review and edit its entries, generate the run, approve
   or void it; and the routes behind it.  A Generate carries the identity of its run, drawn
   when the page opens and at each preview, so that a Generate whose answer is lost can be
   repeated.

   A payload is what a request is computed from: the inputs of the first step (period and
   filters) and the overtime of the entries, AsComputed until someone types over it.        *)
EXTENDS Naturals

CONSTANTS
  Inputs,      \* what can be chosen in the first step
  Overtimes,   \* what can be typed into an entry
  AsComputed,  \* the overtime a preview computes
  Nothing,     \* no review, no request, no run
  MaxIds,      \* identities drawn
  MaxPosts,    \* Generates sent
  MaxOthers,   \* decisions by other users of the payroll runs
  Tempers      \* whether the user goes on typing and clicking while a request is pending

Slots == 1..MaxPosts
Ids == 1..MaxIds
Kinds == {"approve", "void"}
Statuses == {"draft", "approved", "void"}

ASSUME PayrollAssumption ==
  /\ MaxPosts \in Nat \ {0} /\ MaxOthers \in Nat
  /\ MaxIds \in Nat \ {0}
  /\ AsComputed \notin Overtimes
  /\ Tempers \subseteq BOOLEAN

Payload == [inputs : Inputs, overtime : Overtimes \cup {AsComputed}]

\* A run on the server, a run as the page shows it, and a preview as it is requested.
StoredRuns == [payload : Payload, status : Statuses]
ShownRuns == [id : Ids, payload : Payload, status : Statuses]
Previews == [kind : {"preview", "recalculate"}, payload : Payload]

ASSUME NothingAssumption ==
  /\ Nothing \notin Payload \cup Slots \cup Ids
  /\ Nothing \notin StoredRuns /\ Nothing \notin ShownRuns /\ Nothing \notin Previews

VARIABLES
  hasty,      \* the temper of this user
  step,       \* preview, review or result
  inputs,     \* cutoff type, dates and filters on the page
  review,     \* the entries: the inputs they were computed for and their overtime
  dirty,      \* reviewDirty
  uncertain,  \* generationUncertain
  id,         \* generationId
  preview,    \* the preview or recalculation in flight
  posts,      \* the Generates sent
  awaited,    \* the Generate in flight as the page sees it
  run,        \* the run the result step shows
  decisions,  \* the Approve and the Void of the result step
  runs,       \* the server's payroll runs
  others,     \* decisions by others still to come
  disputed    \* history: the runs decided by others, or twice at a time from here

pageVars == <<hasty, step, inputs, review, dirty, uncertain, id, preview, awaited, run>>
vars == <<pageVars, posts, decisions, runs, others, disputed>>

Unsent == [stage |-> "unsent", id |-> Nothing, payload |-> Nothing, told |-> "draft"]
Undecided == [stage |-> "no", run |-> Nothing, awaited |-> FALSE]

\* What Generate sends: the inputs on the page now, the overtime of the entries.
Reviewed == [inputs |-> inputs, overtime |-> review.overtime]

Pending == preview # Nothing \/ awaited # Nothing

\* A patient user waits for the answer to a request.
Free == hasty \/ ~Pending

Init ==
  /\ hasty \in Tempers
  /\ step = "preview" /\ inputs \in Inputs /\ review = Nothing
  /\ dirty = FALSE /\ uncertain = FALSE
  /\ id = 1
  /\ preview = Nothing /\ awaited = Nothing /\ run = Nothing
  /\ posts = [i \in Slots |-> Unsent]
  /\ decisions = [k \in Kinds |-> Undecided]
  /\ runs = [n \in Ids |-> Nothing]
  /\ others = MaxOthers /\ disputed = {}

--------------------------------------------------------------------------------
(* The first step and the review. *)

ChangeInputs(v) ==
  /\ step = "preview" /\ Free /\ v # inputs
  /\ inputs' = v
  /\ UNCHANGED <<hasty, step, review, dirty, uncertain, id, preview, awaited, run,
                 posts, decisions, runs, others, disputed>>

Preview ==
  /\ step = "preview" /\ preview = Nothing /\ Free /\ id + 1 \in Ids
  /\ preview' = [kind |-> "preview",
                 payload |-> [inputs |-> inputs, overtime |-> AsComputed]]
  /\ UNCHANGED <<hasty, step, inputs, review, dirty, uncertain, id, awaited, run,
                 posts, decisions, runs, others, disputed>>

\* Recalculate Review keeps what was typed over the entries.
Recalculate ==
  /\ step = "review" /\ preview = Nothing /\ ~uncertain /\ Free
  /\ preview' = [kind |-> "recalculate", payload |-> Reviewed]
  /\ UNCHANGED <<hasty, step, inputs, review, dirty, uncertain, id, awaited, run,
                 posts, decisions, runs, others, disputed>>

\* The entries arrive, whatever the page has come to show: a preview draws a new identity
\* and opens the review.
PreviewAnswer ==
  /\ preview # Nothing
  /\ review' = preview.payload /\ dirty' = FALSE /\ preview' = Nothing
  /\ IF preview.kind = "preview"
     THEN id' = id + 1 /\ step' = "review"
     ELSE UNCHANGED <<id, step>>
  /\ UNCHANGED <<hasty, inputs, uncertain, awaited, run, posts, decisions, runs, others, disputed>>

\* Slip: a failed preview opens the review of the last one.
PreviewFailsOpen ==
  /\ preview # Nothing
  /\ preview' = Nothing
  /\ step' = IF review # Nothing THEN "review" ELSE step
  /\ UNCHANGED <<hasty, inputs, review, dirty, uncertain, id, awaited, run,
                 posts, decisions, runs, others, disputed>>

\* No salary is configured, or there is no answer.
PreviewFails ==
  /\ preview # Nothing
  /\ preview' = Nothing
  /\ UNCHANGED <<hasty, step, inputs, review, dirty, uncertain, id, awaited, run,
                 posts, decisions, runs, others, disputed>>

\* Slip: Back stays enabled while the outcome is unknown.
BackAnyway ==
  /\ step = "review" /\ Free
  /\ step' = "preview"
  /\ UNCHANGED <<hasty, inputs, review, dirty, uncertain, id, preview, awaited, run,
                 posts, decisions, runs, others, disputed>>

Back ==
  /\ step = "review" /\ ~uncertain /\ Free
  /\ step' = "preview"
  /\ UNCHANGED <<hasty, inputs, review, dirty, uncertain, id, preview, awaited, run,
                 posts, decisions, runs, others, disputed>>

EditOvertime(v) ==
  /\ step = "review" /\ ~uncertain /\ Free /\ v # review.overtime
  /\ review' = [review EXCEPT !.overtime = v]
  /\ dirty' = TRUE
  /\ UNCHANGED <<hasty, step, inputs, uncertain, id, preview, awaited, run,
                 posts, decisions, runs, others, disputed>>

--------------------------------------------------------------------------------
(* Generation. *)

CanGenerate ==
  step = "review" /\ awaited = Nothing /\ preview = Nothing /\ ~dirty

Unused(i) == posts[i].stage = "unsent" /\ \A j \in 1..(i - 1) : posts[j].stage # "unsent"

Generate ==
  /\ CanGenerate
  /\ \E i \in Slots :
       /\ Unused(i)
       /\ posts' = [posts EXCEPT ![i] =
            [stage |-> "sent", id |-> id, payload |-> Reviewed, told |-> "draft"]]
       /\ awaited' = i
  /\ UNCHANGED <<hasty, step, inputs, review, dirty, uncertain, id, preview, run,
                 decisions, runs, others, disputed>>

\* Slip: the fingerprint of the first request is not compared.
FitsAny(stored, payload) == TRUE

Fits(stored, payload) == stored.payload = payload

\* generate_payroll under the advisory lock of the identity: a run that exists is answered
\* if it was generated from the same payload, else a new one is stored.
Serve(i) ==
  /\ posts[i].stage = "sent"
  /\ LET n == posts[i].id
         p == posts[i].payload
     IN  IF runs[n] = Nothing
         THEN /\ runs' = [runs EXCEPT ![n] = [payload |-> p, status |-> "draft"]]
              /\ posts' = [posts EXCEPT ![i].stage = "served"]
         ELSE IF Fits(runs[n], p)
         THEN /\ posts' = [posts EXCEPT ![i].stage = "served", ![i].told = runs[n].status]
              /\ UNCHANGED runs
         ELSE /\ posts' = [posts EXCEPT ![i].stage = "refused"]
              /\ UNCHANGED runs
  /\ UNCHANGED <<pageVars, decisions, others, disputed>>

\* 4xx for another reason than the identity, whether the run is stored or not: a permission,
\* no salary on record.
Refuse(i) ==
  /\ posts[i].stage = "sent"
  /\ posts' = [posts EXCEPT ![i].stage = "refused"]
  /\ UNCHANGED <<pageVars, decisions, runs, others, disputed>>

GenerateOk ==
  /\ awaited # Nothing /\ posts[awaited].stage = "served"
  /\ run' = [id |-> posts[awaited].id, payload |-> posts[awaited].payload,
              status |-> posts[awaited].told]
  /\ uncertain' = FALSE /\ step' = "result" /\ awaited' = Nothing
  /\ posts' = [posts EXCEPT ![awaited].stage = "over"]
  /\ UNCHANGED <<hasty, inputs, review, dirty, id, preview, decisions, runs, others, disputed>>

GenerateRefused ==
  /\ awaited # Nothing /\ posts[awaited].stage = "refused"
  /\ uncertain' = FALSE /\ awaited' = Nothing
  /\ posts' = [posts EXCEPT ![awaited].stage = "over"]
  /\ UNCHANGED <<hasty, step, inputs, review, dirty, id, preview, run, decisions, runs, others, disputed>>

\* No answer, or a 5xx: the request may have been served, or may be served later.
GenerateLost ==
  /\ awaited # Nothing /\ posts[awaited].stage \in {"sent", "served"}
  /\ uncertain' = TRUE /\ awaited' = Nothing
  /\ UNCHANGED <<hasty, step, inputs, review, dirty, id, preview, run, posts,
                 decisions, runs, others, disputed>>

--------------------------------------------------------------------------------
(* Approval and voiding, from the result step and from the page of the run. *)

\* Slip: the name of the button for the name of the state.
OutcomeRaw(k) == k

Outcome(k) == IF k = "approve" THEN "approved" ELSE "void"

\* The states of a run in which the route does what it is asked.
Allows(k) == IF k = "approve" THEN {"draft"} ELSE {"draft", "approved"}

\* Approve and Void are two mutations: one does not disable the other.  The click keeps the
\* run it was made on.
Decide(k) ==
  /\ step = "result" /\ run.status = "draft" /\ decisions[k].stage = "no"
  /\ hasty \/ \A j \in Kinds : ~decisions[j].awaited
  /\ decisions' = [decisions EXCEPT ![k] = [stage |-> "sent", run |-> run, awaited |-> TRUE]]
  /\ disputed' = disputed \cup
       {n \in {run.id} : \E j \in Kinds : decisions[j].stage # "no" /\ decisions[j].run.id = n}
  /\ UNCHANGED <<pageVars, posts, runs, others>>

\* The server is done with a decision: its answer goes to a page that still waits for it.
Ended(k, stage) ==
  [decisions EXCEPT ![k] = IF @.awaited THEN [@ EXCEPT !.stage = stage] ELSE Undecided]

\* The route reads the run without a lock, and writes it later.
ReadRun(k) ==
  /\ decisions[k].stage = "sent"
  /\ decisions' = IF runs[decisions[k].run.id].status \in Allows(k)
                  THEN [decisions EXCEPT ![k].stage = "read"] ELSE Ended(k, "refused")
  /\ UNCHANGED <<pageVars, posts, runs, others, disputed>>

WriteRun(k) ==
  /\ decisions[k].stage = "read"
  /\ runs' = [runs EXCEPT ![decisions[k].run.id].status = Outcome(k)]
  /\ decisions' = Ended(k, "done")
  /\ UNCHANGED <<pageVars, posts, others, disputed>>

\* Slip: the answer is put on the run shown when it arrives.
DecideOkShown(k) ==
  /\ decisions[k].stage = "done"
  /\ run' = [run EXCEPT !.status = Outcome(k)]
  /\ decisions' = [decisions EXCEPT ![k] = Undecided]
  /\ UNCHANGED <<hasty, step, inputs, review, dirty, uncertain, id, preview, awaited,
                 posts, runs, others, disputed>>

\* The answer's body is not used: the page shows the run of the click again, with the status
\* that was asked for.
DecideOk(k) ==
  /\ decisions[k].stage = "done"
  /\ run' = [decisions[k].run EXCEPT !.status = Outcome(k)]
  /\ decisions' = [decisions EXCEPT ![k] = Undecided]
  /\ UNCHANGED <<hasty, step, inputs, review, dirty, uncertain, id, preview, awaited,
                 posts, runs, others, disputed>>

\* Refused, failed and rolled back, or the request or its answer is lost: a request without
\* an answer may still be served later.
DecideFails(k) ==
  /\ decisions[k].awaited
  /\ \/ decisions' = [decisions EXCEPT ![k] = Undecided]
     \/ decisions[k].stage \in {"sent", "read"}
          /\ decisions' = [decisions EXCEPT ![k].awaited = FALSE]
  /\ UNCHANGED <<pageVars, posts, runs, others, disputed>>

\* Another user on the page of the run.
OthersDecide(n, k) ==
  /\ others > 0 /\ runs[n] # Nothing /\ runs[n].status \in Allows(k)
  /\ runs' = [runs EXCEPT ![n].status = Outcome(k)]
  /\ others' = others - 1 /\ disputed' = disputed \cup {n}
  /\ UNCHANGED <<pageVars, posts, decisions>>

--------------------------------------------------------------------------------
Next ==
  \/ \E v \in Inputs : ChangeInputs(v)
  \/ Preview \/ Recalculate \/ PreviewAnswer \/ PreviewFails \/ Back
  \/ \E v \in Overtimes : EditOvertime(v)
  \/ Generate \/ GenerateOk \/ GenerateRefused \/ GenerateLost
  \/ \E i \in Slots : Serve(i) \/ Refuse(i)
  \/ \E k \in Kinds : Decide(k) \/ ReadRun(k) \/ WriteRun(k) \/ DecideOk(k) \/ DecideFails(k)
  \/ \E n \in Ids, k \in Kinds : OthersDecide(n, k)

Spec == Init /\ [][Next]_vars

--------------------------------------------------------------------------------
(* Properties. *)

Requests ==
  [stage : {"unsent", "sent", "served", "refused", "over"}, id : Ids \cup {Nothing},
   payload : Payload \cup {Nothing}, told : Statuses]

TypeOK ==
  /\ hasty \in BOOLEAN /\ dirty \in BOOLEAN /\ uncertain \in BOOLEAN
  /\ step \in {"preview", "review", "result"}
  /\ inputs \in Inputs /\ review \in Payload \cup {Nothing}
  /\ id \in Ids
  /\ preview \in {Nothing} \cup Previews
  /\ posts \in [Slots -> Requests] /\ awaited \in Slots \cup {Nothing}
  /\ run \in {Nothing} \cup ShownRuns
  /\ decisions \in [Kinds -> [stage : {"no", "sent", "read", "refused", "done"},
                             run : ShownRuns \cup {Nothing}, awaited : BOOLEAN]]
  /\ runs \in [Ids -> {Nothing} \cup StoredRuns]
  /\ others \in 0..MaxOthers /\ disputed \subseteq Ids

\* The run the page shows is stored, with the payload the page sent for it, and is approved
\* or void only if the server has decided it.  Which of the two is then right as well, unless
\* others decided the run too or this user pressed Approve and Void on it before the server
\* was done with the first: so it is for any user, whatever else is clicked meanwhile and
\* however late an answer comes.
ResultTruthful ==
  run # Nothing =>
    /\ runs[run.id] # Nothing /\ runs[run.id].payload = run.payload
    /\ run.status # "draft" => runs[run.id].status # "draft"
    /\ run.id \notin disputed => run.status \in {"draft", runs[run.id].status}

\* Generate sends exactly what the review shows ("so generation uses exactly what was
\* reviewed"), for a patient user: the inputs can be changed while a preview is on its way,
\* and then it does not.
GeneratedAsReviewed ==
  [][\A i \in Slots :
       posts[i].stage = "unsent" /\ posts'[i].stage = "sent" /\ ~hasty =>
         posts'[i].payload = review]_vars

Last(i) ==
  posts[i].stage # "unsent" /\ \A j \in Slots : j > i => posts[j].stage = "unsent"

\* While the outcome of a generation is unknown the page can repeat it, and what it repeats
\* has the identity and the payload of the one that is unknown.
RetrySafe ==
  uncertain /\ ~Pending =>
    /\ CanGenerate
    /\ \A i \in Slots : Last(i) => posts[i].id = id /\ posts[i].payload = Reviewed

\* So it is for a user who waits for answers: "Retry the same reviewed payroll to recover
\* its result safely".
PatientRetrySafe == ~hasty => RetrySafe

================================================================================
