--------------------------- MODULE PayrollSessionProofs ---------------------------
(* Proofs about PayrollSession, for any inputs and overtimes and any number of identities,
   Generates and decisions of others.                                                 *)
EXTENDS PayrollSession, TLAPS

--------------------------------------------------------------------------------
(* Type correctness.  Beside the types: each step of the page has what it shows, a Generate
   that was sent has an identity and a payload, what was answered is stored, and so is the
   draft a decision was asked for.                                                    *)

Stored(n, p) == n \in Ids /\ runs[n] # Nothing /\ runs[n].payload = p

Shape ==
  /\ step = "review" => review # Nothing
  /\ step = "result" => run # Nothing
  /\ preview # Nothing /\ preview.kind = "preview" => id + 1 \in Ids
  /\ \A i \in Slots : posts[i].stage # "unsent" => posts[i].id \in Ids /\ posts[i].payload \in Payload
  /\ \A i \in Slots : posts[i].stage = "served" => Stored(posts[i].id, posts[i].payload)
  /\ run # Nothing => Stored(run.id, run.payload)
  /\ \A k \in Kinds : decisions[k].stage # "no" =>
       /\ decisions[k].run \in ShownRuns /\ decisions[k].run.status = "draft"
       /\ Stored(decisions[k].run.id, decisions[k].run.payload)

TypeInv == TypeOK /\ Shape

LEMMA Absence ==
  /\ Nothing \notin Payload /\ Nothing \notin Slots /\ Nothing \notin Ids
  /\ Nothing \notin StoredRuns /\ Nothing \notin ShownRuns /\ Nothing \notin Previews
BY NothingAssumption

LEMMA InitType == Init => TypeInv
<1> SUFFICES ASSUME Init PROVE TypeInv
  OBVIOUS
<1>1. TypeOK
  <2>1. hasty \in BOOLEAN /\ 1 \in Ids /\ others \in 0..MaxOthers
    BY PayrollAssumption DEF Init, Ids
  <2>2. Unsent \in Requests
    BY DEF Unsent, Requests, Statuses
  <2>3. Undecided \in [stage : {"no", "sent", "read", "refused", "done"},
                        run : ShownRuns \cup {Nothing}, awaited : BOOLEAN]
    BY DEF Undecided
  <2>4. QED
    BY <2>1, <2>2, <2>3 DEF Init, TypeOK
<1>2. Shape
  BY DEF Init, Shape, Unsent, Undecided
<1>3. QED
  BY <1>1, <1>2 DEF TypeInv

\* What the page computes a request from is a payload.
LEMMA ReviewedType ==
  ASSUME TypeInv, step = "review"
  PROVE  Reviewed \in Payload /\ review \in Payload
BY DEF TypeInv, TypeOK, Shape, Reviewed, Payload

\* The steps of the page alone.
LEMMA PageType ==
  ASSUME TypeInv,
         \/ \E v \in Inputs : ChangeInputs(v)
         \/ Preview \/ Recalculate \/ PreviewAnswer \/ PreviewFails \/ Back
         \/ \E v \in Overtimes : EditOvertime(v)
  PROVE  TypeInv'
<1>1. UNCHANGED <<hasty, posts, awaited, run, decisions, runs, others, disputed, uncertain>>
  BY DEF ChangeInputs, Preview, Recalculate, PreviewAnswer, PreviewFails, Back, EditOvertime
<1>2. CASE \/ \E v \in Inputs : ChangeInputs(v)
           \/ PreviewFails \/ Back
  BY <1>1, <1>2 DEF TypeInv, TypeOK, Shape, Stored, ChangeInputs, PreviewFails, Back
<1>3. CASE Preview \/ Recalculate
  <2>1. preview' \in Previews /\ UNCHANGED <<step, inputs, review, dirty, id>>
        /\ (preview'.kind = "preview" => id + 1 \in Ids)
    BY <1>3, ReviewedType DEF Preview, Recalculate, Previews, Payload, TypeInv, TypeOK
  <2>2. QED
    BY <1>1, <2>1 DEF TypeInv, TypeOK, Shape, Stored
<1>4. CASE PreviewAnswer
  <2>1. preview.payload \in Payload /\ preview.payload # Nothing
    BY <1>4, Absence DEF PreviewAnswer, TypeInv, TypeOK, Previews
  <2>2. QED
    BY <1>1, <1>4, <2>1 DEF PreviewAnswer, TypeInv, TypeOK, Shape, Stored
<1>5. ASSUME NEW v \in Overtimes, EditOvertime(v) PROVE TypeInv'
  <2>1. review' \in Payload /\ review' # Nothing
    BY <1>5, ReviewedType, Absence DEF EditOvertime, Payload
  <2>2. QED
    BY <1>1, <1>5, <2>1 DEF EditOvertime, TypeInv, TypeOK, Shape, Stored
<1>6. QED
  BY <1>2, <1>3, <1>4, <1>5

\* A Generate, its answer and what the page makes of it.
LEMMA GenerateType ==
  ASSUME TypeInv, Generate \/ GenerateOk \/ GenerateRefused \/ GenerateLost
  PROVE  TypeInv'
<1>1. UNCHANGED <<hasty, inputs, review, dirty, id, preview, decisions, runs, others, disputed>>
      /\ posts \in [Slots -> Requests]
  BY DEF Generate, GenerateOk, GenerateRefused, GenerateLost, TypeInv, TypeOK
<1>2. CASE Generate
  <2>1. step = "review" /\ Reviewed \in Payload /\ id \in Ids
    BY <1>2, ReviewedType DEF Generate, CanGenerate, TypeInv, TypeOK
  <2>2. PICK i \in Slots : awaited' = i /\ posts' = [posts EXCEPT ![i] =
            [stage |-> "sent", id |-> id, payload |-> Reviewed, told |-> "draft"]]
    BY <1>2 DEF Generate
  <2>3. posts' \in [Slots -> Requests]
    BY <1>1, <2>1, <2>2 DEF Requests, Statuses
  <2>4. UNCHANGED <<step, uncertain, run>>
    BY <1>2 DEF Generate
  <2>5. \A j \in Slots : j # i => posts'[j] = posts[j]
    BY <1>1, <2>2
  <2>6. posts'[i].stage = "sent" /\ posts'[i].id \in Ids /\ posts'[i].payload \in Payload
    BY <1>1, <2>1, <2>2
  <2>7. TypeOK'
    BY <1>1, <2>2, <2>3, <2>4 DEF TypeInv, TypeOK
  <2>8. Shape'
    BY <1>1, <2>4, <2>5, <2>6 DEF TypeInv, Shape, Stored
  <2>9. QED
    BY <2>7, <2>8 DEF TypeInv
<1>3. CASE GenerateOk \/ GenerateRefused
  <2>1. awaited \in Slots /\ posts[awaited].stage \in {"served", "refused"}
        /\ awaited' = Nothing /\ uncertain' = FALSE
        /\ posts' = [posts EXCEPT ![awaited].stage = "over"]
    BY <1>3 DEF GenerateOk, GenerateRefused, TypeInv, TypeOK
  <2>2. /\ posts' \in [Slots -> Requests]
        /\ \A j \in Slots : j # awaited => posts'[j] = posts[j]
        /\ posts'[awaited].stage = "over" /\ posts'[awaited].id = posts[awaited].id
        /\ posts'[awaited].payload = posts[awaited].payload
    BY <1>1, <2>1 DEF Requests
  <2>3. CASE GenerateOk
    <3>1. run' \in ShownRuns /\ run' # Nothing /\ Stored(run'.id, run'.payload) /\ step' = "result"
      <4>1. Stored(posts[awaited].id, posts[awaited].payload) /\ posts[awaited].payload \in Payload
            /\ posts[awaited].told \in Statuses
        BY <1>1, <2>1, <2>3 DEF GenerateOk, TypeInv, Shape, Requests
      <4>2. run' = [id |-> posts[awaited].id, payload |-> posts[awaited].payload,
                    status |-> posts[awaited].told]
        BY <2>3 DEF GenerateOk
      <4>3. run' \in ShownRuns
        BY <4>1, <4>2 DEF ShownRuns, Stored
      <4>4. QED
        BY <2>3, <4>1, <4>2, <4>3, Absence DEF GenerateOk
    <3>2. TypeOK'
      BY <1>1, <2>1, <2>2, <3>1 DEF TypeInv, TypeOK
    <3>3. Shape'
      BY <1>1, <2>1, <2>2, <3>1 DEF TypeInv, Shape, Stored
    <3>4. QED
      BY <3>2, <3>3 DEF TypeInv
  <2>4. CASE GenerateRefused
    <3>1. UNCHANGED <<step, run>>
      BY <2>4 DEF GenerateRefused
    <3>2. TypeOK'
      BY <1>1, <2>1, <2>2, <3>1 DEF TypeInv, TypeOK
    <3>3. Shape'
      BY <1>1, <2>1, <2>2, <3>1 DEF TypeInv, Shape, Stored
    <3>4. QED
      BY <3>2, <3>3 DEF TypeInv
  <2>5. QED
    BY <1>3, <2>3, <2>4
<1>4. CASE GenerateLost
  BY <1>1, <1>4 DEF GenerateLost, TypeInv, TypeOK, Shape, Stored
<1>5. QED
  BY <1>2, <1>3, <1>4

\* A run that is stored stays stored, with its payload.
RunsKept == \A n \in Ids : runs[n] # Nothing => runs'[n] # Nothing /\ runs'[n].payload = runs[n].payload

\* The server marks a request and leaves what it asks for as it is.
LEMMA ServedPosts ==
  ASSUME TypeInv, NEW i \in Slots, Serve(i) \/ Refuse(i)
  PROVE  /\ posts' \in [Slots -> Requests]
         /\ \A j \in Slots : /\ posts'[j].id = posts[j].id /\ posts'[j].payload = posts[j].payload
                             /\ j # i => posts'[j] = posts[j]
                             /\ (posts'[j].stage = "unsent" <=> posts[j].stage = "unsent")
         /\ posts'[i].stage \in {"served", "refused"}
<1>1. posts \in [Slots -> Requests] /\ posts[i].stage = "sent"
      /\ runs \in [Ids -> {Nothing} \cup StoredRuns] /\ posts[i].id \in Ids
  BY DEF Serve, Refuse, TypeInv, TypeOK, Shape
<1>2. CASE \E stage \in {"served", "refused"} : posts' = [posts EXCEPT ![i].stage = stage]
  BY <1>1, <1>2 DEF Requests
<1>3. CASE \E told \in Statuses : posts' = [posts EXCEPT ![i].stage = "served", ![i].told = told]
  <2>1. PICK told \in Statuses :
          posts' = [posts EXCEPT ![i].stage = "served", ![i].told = told]
    BY <1>3
  <2>2. posts'[i] = [posts[i] EXCEPT !.stage = "served", !.told = told]
        /\ \A j \in Slots : j # i => posts'[j] = posts[j]
    BY <1>1, <2>1
  <2>3. posts[i] \in Requests
    BY <1>1
  <2>4. posts'[i] \in Requests /\ posts'[i].stage = "served"
        /\ posts'[i].id = posts[i].id /\ posts'[i].payload = posts[i].payload
    BY <2>2, <2>3 DEF Requests
  <2>5. posts' = [j \in Slots |-> posts'[j]]
    BY <1>1, <2>1
  <2>6. QED
    <3>1. \A j \in Slots : posts'[j] \in Requests
      BY <1>1, <2>2, <2>4
    <3>2. posts' \in [Slots -> Requests]
      BY <2>5, <3>1
    <3>3. \A j \in Slots : posts'[j].stage = "unsent" <=> posts[j].stage = "unsent"
      BY <1>1, <2>2, <2>4
    <3>4. QED
      BY <2>2, <2>4, <3>2, <3>3
<1>4. runs[posts[i].id] # Nothing => runs[posts[i].id].status \in Statuses
  BY <1>1 DEF StoredRuns
<1>5. QED
  BY <1>1, <1>2, <1>3, <1>4 DEF Serve, Refuse

LEMMA ServeType ==
  ASSUME TypeInv, NEW i \in Slots, Serve(i) \/ Refuse(i)
  PROVE  TypeInv' /\ RunsKept
<1>1. UNCHANGED <<pageVars, decisions, others, disputed>> /\ posts \in [Slots -> Requests]
      /\ runs \in [Ids -> {Nothing} \cup StoredRuns] /\ posts[i].stage = "sent"
      /\ posts[i].id \in Ids /\ posts[i].payload \in Payload
  BY DEF Serve, Refuse, TypeInv, TypeOK, Shape
<1>2. /\ runs' \in [Ids -> {Nothing} \cup StoredRuns] /\ RunsKept
  <2>1. CASE runs' = runs
    BY <1>1, <2>1 DEF RunsKept
  <2>2. CASE /\ runs[posts[i].id] = Nothing
             /\ runs' = [runs EXCEPT ![posts[i].id] = [payload |-> posts[i].payload, status |-> "draft"]]
    <3>1. [payload |-> posts[i].payload, status |-> "draft"] \in StoredRuns
      BY <1>1 DEF StoredRuns, Statuses
    <3>2. QED
      BY <1>1, <2>2, <3>1 DEF RunsKept
  <2>3. QED
    BY <2>1, <2>2 DEF Serve, Refuse
<1>3. /\ posts' \in [Slots -> Requests]
      /\ \A j \in Slots : /\ posts'[j].id = posts[j].id /\ posts'[j].payload = posts[j].payload
                          /\ j # i => posts'[j] = posts[j]
      /\ posts'[i].stage \in {"served", "refused"}
  BY ServedPosts
<1>4. posts'[i].stage = "served" => Stored(posts[i].id, posts[i].payload)'
  <2>1. CASE runs[posts[i].id] = Nothing
    <3>1. ASSUME Serve(i) PROVE runs'[posts[i].id] = [payload |-> posts[i].payload, status |-> "draft"]
      BY <1>1, <2>1, <3>1 DEF Serve
    <3>2. ASSUME Refuse(i) PROVE posts'[i].stage = "refused"
      BY <1>1, <3>2 DEF Refuse, Requests
    <3>3. [payload |-> posts[i].payload, status |-> "draft"] # Nothing
      BY <1>1, Absence DEF StoredRuns, Statuses
    <3>4. QED
      BY <1>1, <1>3, <3>1, <3>2, <3>3 DEF Stored
  <2>2. CASE runs[posts[i].id] # Nothing
    <3>1. ASSUME Refuse(i) PROVE posts'[i].stage = "refused"
      BY <1>1, <3>1 DEF Refuse, Requests
    <3>2. ASSUME Serve(i), ~Fits(runs[posts[i].id], posts[i].payload)
          PROVE  posts'[i].stage = "refused"
      BY <1>1, <2>2, <3>2 DEF Serve, Requests
    <3>3. QED
      BY <1>1, <1>2, <1>3, <2>2, <3>1, <3>2 DEF Fits, RunsKept, Stored
  <2>3. QED
    BY <2>1, <2>2
<1>5. TypeOK'
  BY <1>1, <1>2, <1>3 DEF TypeInv, TypeOK, pageVars
<1>6. Shape'
  BY <1>1, <1>2, <1>3, <1>4 DEF TypeInv, TypeOK, Shape, Stored, RunsKept, pageVars, ShownRuns
<1>7. QED
  BY <1>2, <1>5, <1>6 DEF TypeInv

Decisions ==
  [stage : {"no", "sent", "read", "refused", "done"}, run : ShownRuns \cup {Nothing},
   awaited : BOOLEAN]

\* A run whose status is set keeps its payload.
LEMMA StatusSet ==
  ASSUME TypeInv, NEW n \in Ids, runs[n] # Nothing, NEW s \in Statuses,
         runs' = [runs EXCEPT ![n].status = s]
  PROVE  /\ runs' \in [Ids -> {Nothing} \cup StoredRuns] /\ RunsKept
         /\ runs'[n].status = s /\ \A j \in Ids : j # n => runs'[j] = runs[j]
<1>1. runs \in [Ids -> {Nothing} \cup StoredRuns] /\ runs[n] \in StoredRuns
  BY DEF TypeInv, TypeOK
<1>2. runs'[n] = [runs[n] EXCEPT !.status = s] /\ \A j \in Ids : j # n => runs'[j] = runs[j]
  BY <1>1
<1>3. runs'[n] \in StoredRuns /\ runs'[n].payload = runs[n].payload /\ runs'[n].status = s
  BY <1>1, <1>2 DEF StoredRuns
<1>4. QED
  BY <1>1, <1>2, <1>3, Absence DEF RunsKept

\* Of a decision under way a step changes how far it is, never the run it is about.
LEMMA DecisionKept ==
  ASSUME TypeInv, NEW k \in Kinds, ReadRun(k) \/ WriteRun(k) \/ DecideOk(k) \/ DecideFails(k)
  PROVE  /\ decisions' \in [Kinds -> Decisions]
         /\ \A j \in Kinds : j # k => decisions'[j] = decisions[j]
         /\ decisions'[k].stage # "no" =>
              decisions[k].stage # "no" /\ decisions'[k].run = decisions[k].run
<1>1. decisions \in [Kinds -> Decisions] /\ decisions[k] \in Decisions
  BY DEF TypeInv, TypeOK, Decisions
<1>2. CASE decisions' = [decisions EXCEPT ![k] = Undecided]
  BY <1>1, <1>2 DEF Undecided, Decisions
<1>3. CASE /\ decisions[k].stage \in {"sent", "read"}
           /\ decisions' = [decisions EXCEPT ![k].awaited = FALSE]
  <2>1. /\ decisions'[k] = [decisions[k] EXCEPT !.awaited = FALSE]
        /\ \A j \in Kinds : j # k => decisions'[j] = decisions[j]
    BY <1>1, <1>3
  <2>2. decisions'[k].stage = decisions[k].stage /\ decisions'[k].run = decisions[k].run
        /\ decisions'[k] \in Decisions
    BY <1>1, <2>1 DEF Decisions
  <2>3. decisions' \in [Kinds -> Decisions]
    BY <1>1, <1>3, <2>1, <2>2
  <2>4. QED
    BY <1>3, <2>1, <2>2, <2>3
<1>4. ASSUME NEW stage \in {"read", "refused", "done"}, decisions[k].stage # "no",
             decisions' \in {[decisions EXCEPT ![k].stage = stage], Ended(k, stage)}
      PROVE  /\ decisions' \in [Kinds -> Decisions]
             /\ \A j \in Kinds : j # k => decisions'[j] = decisions[j]
             /\ decisions'[k].stage \in {"no", stage}
             /\ decisions'[k].stage # "no" => decisions'[k].run = decisions[k].run
  <2>1. /\ decisions'[k] \in {[decisions[k] EXCEPT !.stage = stage], Undecided}
        /\ \A j \in Kinds : j # k => decisions'[j] = decisions[j]
        /\ decisions' = [j \in Kinds |-> decisions'[j]]
    BY <1>1, <1>4 DEF Ended
  <2>2. /\ [decisions[k] EXCEPT !.stage = stage] \in Decisions
        /\ [decisions[k] EXCEPT !.stage = stage].stage = stage
        /\ [decisions[k] EXCEPT !.stage = stage].run = decisions[k].run
    BY <1>1, <1>4 DEF Decisions
  <2>3. Undecided \in Decisions /\ Undecided.stage = "no"
    BY DEF Undecided, Decisions
  <2>4. QED
    BY <1>1, <2>1, <2>2, <2>3
<1>5. CASE ReadRun(k)
  <2>1. CASE runs[decisions[k].run.id].status \in Allows(k)
    BY <1>4, <1>5, <2>1 DEF ReadRun
  <2>2. CASE runs[decisions[k].run.id].status \notin Allows(k)
    BY <1>4, <1>5, <2>2 DEF ReadRun
  <2>3. QED
    BY <2>1, <2>2
<1>6. CASE WriteRun(k)
  BY <1>4, <1>6 DEF WriteRun
<1>7. CASE DecideOk(k) \/ DecideFails(k)
  BY <1>2, <1>3, <1>7 DEF DecideOk, DecideFails
<1>8. QED
  BY <1>5, <1>6, <1>7

\* A step that writes nothing finishes no decision, and lets one read only what allows it.
LEMMA DecisionUnwritten ==
  ASSUME TypeInv, NEW k \in Kinds, ReadRun(k) \/ DecideOk(k) \/ DecideFails(k)
  PROVE  /\ decisions'[k].stage # "done"
         /\ decisions'[k].stage = "read" /\ decisions[k].stage # "read" =>
              runs[decisions[k].run.id].status \in Allows(k)
<1>1. decisions \in [Kinds -> Decisions] /\ decisions[k] \in Decisions
  BY DEF TypeInv, TypeOK, Decisions
<1>2. CASE ReadRun(k)
  <2>1. CASE runs[decisions[k].run.id].status \in Allows(k)
    <3>1. decisions'[k] = [decisions[k] EXCEPT !.stage = "read"]
      BY <1>1, <1>2, <2>1 DEF ReadRun
    <3>2. QED
      BY <1>1, <2>1, <3>1 DEF Decisions
  <2>2. CASE runs[decisions[k].run.id].status \notin Allows(k)
    <3>1. decisions'[k] \in {[decisions[k] EXCEPT !.stage = "refused"], Undecided}
      BY <1>1, <1>2, <2>2 DEF ReadRun, Ended
    <3>2. QED
      BY <1>1, <3>1 DEF Decisions, Undecided
  <2>3. QED
    BY <2>1, <2>2
<1>3. CASE decisions' = [decisions EXCEPT ![k] = Undecided]
  BY <1>1, <1>3 DEF Undecided
<1>4. CASE /\ decisions[k].stage \in {"sent", "read"}
           /\ decisions' = [decisions EXCEPT ![k].awaited = FALSE]
  <2>1. decisions'[k] = [decisions[k] EXCEPT !.awaited = FALSE]
    BY <1>1, <1>4
  <2>2. decisions'[k].stage = decisions[k].stage
    BY <1>1, <2>1 DEF Decisions
  <2>3. QED
    BY <1>4, <2>2
<1>5. QED
  BY <1>2, <1>3, <1>4 DEF DecideOk, DecideFails

LEMMA DecideType ==
  ASSUME TypeInv, NEW k \in Kinds,
         Decide(k) \/ ReadRun(k) \/ WriteRun(k) \/ DecideOk(k) \/ DecideFails(k)
  PROVE  TypeInv' /\ RunsKept
<1>1. /\ UNCHANGED <<hasty, step, inputs, review, dirty, uncertain, id, preview, awaited, posts, others>>
      /\ decisions \in [Kinds -> Decisions]
  BY SMTT(30) DEF Decide, ReadRun, WriteRun, DecideOk, DecideFails, pageVars, TypeInv, TypeOK, Decisions
<1>2. runs' \in [Ids -> {Nothing} \cup StoredRuns] /\ RunsKept
  <2>1. CASE WriteRun(k)
    <3>1. decisions[k].run.id \in Ids /\ runs[decisions[k].run.id] # Nothing
      BY <2>1 DEF WriteRun, TypeInv, Shape, Stored
    <3>2. QED
      BY <2>1, <3>1, StatusSet DEF WriteRun, Outcome, Statuses
  <2>2. CASE runs' = runs
    BY <2>2 DEF RunsKept, TypeInv, TypeOK
  <2>3. WriteRun(k) \/ runs' = runs
    BY ZenonT(30) DEF Decide, ReadRun, DecideOk, DecideFails
  <2>4. QED
    BY <2>1, <2>2, <2>3, Zenon
<1>3. /\ run' \in {Nothing} \cup ShownRuns
      /\ run' # Nothing => /\ run'.id \in Ids /\ runs[run'.id] # Nothing
                           /\ runs[run'.id].payload = run'.payload
      /\ run # Nothing => run' # Nothing
  <2>1. CASE DecideOk(k)
    <3>1. /\ decisions[k].run \in ShownRuns /\ Stored(decisions[k].run.id, decisions[k].run.payload)
          /\ run' = [decisions[k].run EXCEPT !.status = Outcome(k)] /\ Outcome(k) \in Statuses
      BY <2>1 DEF DecideOk, TypeInv, Shape, Outcome, Statuses
    <3>2. /\ run' \in ShownRuns /\ run'.id = decisions[k].run.id
          /\ run'.payload = decisions[k].run.payload
      BY <3>1 DEF ShownRuns
    <3>3. QED
      BY <3>1, <3>2, Absence DEF Stored
  <2>2. CASE run' = run
    BY <2>2 DEF TypeInv, TypeOK, Shape, Stored
  <2>3. QED
    BY <2>1, <2>2 DEF Decide, ReadRun, WriteRun, DecideFails, pageVars
<1>4. /\ decisions' \in [Kinds -> Decisions]
      /\ \A j \in Kinds : decisions'[j].stage # "no" =>
           /\ decisions'[j].run \in ShownRuns /\ decisions'[j].run.status = "draft"
           /\ decisions'[j].run.id \in Ids /\ runs[decisions'[j].run.id] # Nothing
           /\ runs[decisions'[j].run.id].payload = decisions'[j].run.payload
  <2>1. CASE Decide(k)
    <3>1. run \in ShownRuns /\ run.status = "draft" /\ Stored(run.id, run.payload)
      BY <2>1, Absence DEF Decide, TypeInv, TypeOK, Shape
    <3>2. decisions' = [decisions EXCEPT ![k] = [stage |-> "sent", run |-> run, awaited |-> TRUE]]
      BY <2>1 DEF Decide
    <3>3. [stage |-> "sent", run |-> run, awaited |-> TRUE] \in Decisions
      BY <3>1 DEF Decisions
    <3>4. QED
      BY <1>1, <3>1, <3>2, <3>3 DEF TypeInv, Shape, Stored
  <2>2. CASE ReadRun(k) \/ WriteRun(k) \/ DecideOk(k) \/ DecideFails(k)
    BY <2>2, DecisionKept DEF TypeInv, Shape, Stored
  <2>3. QED
    BY <2>1, <2>2
<1>5. disputed' \subseteq Ids
  <2>1. CASE Decide(k)
    <3>1. run.id \in Ids
      BY <2>1 DEF Decide, TypeInv, Shape, Stored
    <3>2. QED
      BY <2>1, <3>1 DEF Decide, TypeInv, TypeOK
  <2>2. CASE disputed' = disputed
    BY <2>2 DEF TypeInv, TypeOK
  <2>3. QED
    BY <2>1, <2>2 DEF ReadRun, WriteRun, DecideOk, DecideFails
<1>6. TypeOK'
  BY <1>1, <1>2, <1>3, <1>4, <1>5 DEF TypeInv, TypeOK, Decisions
<1>7. Shape'
  <2>1. \A i \in Slots :
          posts'[i].stage = "served" => (Stored(posts[i].id, posts[i].payload))'
    BY <1>1, <1>2 DEF TypeInv, Shape, Stored, RunsKept
  <2>2. run' # Nothing => (Stored(run.id, run.payload))'
    BY <1>2, <1>3 DEF Stored, RunsKept
  <2>3. \A j \in Kinds : decisions'[j].stage # "no" =>
          (Stored(decisions[j].run.id, decisions[j].run.payload))'
    BY <1>2, <1>4 DEF Stored, RunsKept
  <2>4. QED
    BY <1>1, <1>3, <1>4, <2>1, <2>2, <2>3 DEF TypeInv, Shape
<1>8. QED
  BY <1>2, <1>6, <1>7 DEF TypeInv

LEMMA OthersType ==
  ASSUME TypeInv, NEW n \in Ids, NEW k \in Kinds, OthersDecide(n, k)
  PROVE  TypeInv' /\ RunsKept
<1>1. /\ UNCHANGED <<pageVars, posts, decisions>> /\ others' \in 0..MaxOthers
      /\ disputed' \subseteq Ids
  BY PayrollAssumption DEF OthersDecide, TypeInv, TypeOK
<1>2. runs' \in [Ids -> {Nothing} \cup StoredRuns] /\ RunsKept
  BY StatusSet DEF OthersDecide, Outcome, Statuses
<1>3. TypeOK'
  BY <1>1, <1>2 DEF TypeInv, TypeOK, pageVars
<1>4. Shape'
  BY <1>1, <1>2 DEF TypeInv, TypeOK, Shape, Stored, RunsKept, pageVars
<1>5. QED
  BY <1>2, <1>3, <1>4 DEF TypeInv

LEMMA TypeStep == TypeInv /\ [Next]_vars => TypeInv'
<1> SUFFICES ASSUME TypeInv, [Next]_vars PROVE TypeInv'
  OBVIOUS
<1>1. CASE UNCHANGED vars
  BY <1>1 DEF vars, pageVars, TypeInv, TypeOK, Shape, Stored
<1>2. CASE Next
  BY <1>2, PageType, GenerateType, ServeType, DecideType, OthersType DEF Next
<1>3. QED
  BY <1>1, <1>2

\* The variables keep their types, whatever is chosen, typed, lost and decided.
THEOREM TypeCorrect == Spec => []TypeOK
<1>1. TypeInv => TypeOK
  BY DEF TypeInv
<1>2. QED
  BY <1>1, InitType, TypeStep, PTL DEF Spec

--------------------------------------------------------------------------------
(* Generation.  A patient user has one request under way, the review is of the inputs on the
   page, and from a Generate to its answer, or as long as the answer is unknown, the page
   stands still on the review that was sent.                                          *)

InOrder == \A i, j \in Slots : i < j /\ posts[i].stage = "unsent" => posts[j].stage = "unsent"

Asking ==
  /\ step = "review" => review.inputs = inputs
  /\ preview # Nothing =>
       /\ awaited = Nothing /\ preview.payload.inputs = inputs
       /\ step = IF preview.kind = "preview" THEN "preview" ELSE "review"

Waiting ==
  uncertain \/ awaited # Nothing =>
    /\ step = "review" /\ preview = Nothing /\ ~dirty
    /\ \A i \in Slots : Last(i) => posts[i].id = id /\ posts[i].payload = Reviewed

PatientInv == InOrder /\ (~hasty => Asking /\ Waiting)

LEMMA PatientInit == Init => PatientInv
BY DEF Init, PatientInv, InOrder, Asking, Waiting, Unsent

\* What Last says is untouched by what leaves the requests sent as they are.
LEMMA LastKept ==
  ASSUME TypeInv, \A i \in Slots : (posts'[i].stage = "unsent" <=> posts[i].stage = "unsent"),
         NEW i \in Slots
  PROVE  (Last(i))' <=> Last(i)
BY DEF Last

LEMMA PatientStep ==
  ASSUME TypeInv, PatientInv, Next
  PROVE  PatientInv'
<1>1. hasty' = hasty /\ posts \in [Slots -> Requests] /\ TypeInv'
  BY TypeStep, ZenonT(60) DEF Next, ChangeInputs, Preview, Recalculate, PreviewAnswer, PreviewFails, Back, EditOvertime,
     Generate, GenerateOk, GenerateRefused, GenerateLost, Serve, Refuse, Decide, ReadRun, WriteRun,
     DecideOk, DecideFails, OthersDecide, pageVars, TypeInv, TypeOK
<1>2. CASE \/ \E v \in Inputs : ChangeInputs(v)
           \/ Preview \/ Recalculate \/ PreviewAnswer \/ PreviewFails \/ Back
           \/ \E v \in Overtimes : EditOvertime(v)
  <2>1. UNCHANGED <<posts, awaited, uncertain>>
    BY <1>2 DEF ChangeInputs, Preview, Recalculate, PreviewAnswer, PreviewFails, Back, EditOvertime
  <2>2. InOrder'
    BY <2>1 DEF PatientInv, InOrder
  <2>3. ASSUME ~hasty PROVE ~uncertain /\ awaited = Nothing
    <3>1. ~(preview # Nothing /\ (uncertain \/ awaited # Nothing))
      BY <2>3 DEF PatientInv, Waiting
    <3>2. CASE PreviewAnswer \/ PreviewFails
      BY <3>1, <3>2 DEF PreviewAnswer, PreviewFails
    <3>3. CASE (\E v \in Inputs : ChangeInputs(v)) \/ Preview
      BY <2>3, <3>3 DEF ChangeInputs, Preview, PatientInv, Waiting
    <3>4. CASE Recalculate \/ Back \/ \E v \in Overtimes : EditOvertime(v)
      BY <2>3, <3>4 DEF Recalculate, Back, EditOvertime, Free, Pending
    <3>5. QED
      BY <1>2, <3>2, <3>3, <3>4
  <2>4. ~hasty => Waiting'
    BY <2>1, <2>3 DEF Waiting
  <2>5. ASSUME ~hasty PROVE Asking'
    <3>1. Asking /\ awaited' = Nothing
      BY <2>1, <2>3, <2>5 DEF PatientInv
    <3>2. CASE \E v \in Inputs : ChangeInputs(v)
      BY <2>5, <3>1, <3>2 DEF ChangeInputs, Asking, Free, Pending
    <3>3. CASE Preview
      BY <3>1, <3>3 DEF Preview, Asking
    <3>4. CASE Recalculate
      BY <3>1, <3>4 DEF Recalculate, Asking, Reviewed
    <3>5. CASE PreviewAnswer
      BY <3>1, <3>5 DEF PreviewAnswer, Asking
    <3>6. CASE PreviewFails \/ Back
      BY <2>5, <3>1, <3>6 DEF PreviewFails, Back, Asking, Free, Pending
    <3>7. ASSUME NEW v \in Overtimes, EditOvertime(v) PROVE Asking'
      <4>1. review \in Payload /\ review' = [review EXCEPT !.overtime = v]
        BY <3>7, ReviewedType DEF EditOvertime
      <4>2. review'.inputs = review.inputs
        BY <4>1 DEF Payload
      <4>3. QED
        BY <2>5, <3>1, <3>7, <4>2 DEF EditOvertime, Asking, Free, Pending
    <3>8. QED
      BY <1>2, <3>2, <3>3, <3>4, <3>5, <3>6, <3>7
  <2>6. QED
    BY <1>1, <2>2, <2>4, <2>5 DEF PatientInv
<1>3. CASE Generate
  <2>1. PICK i \in Slots :
          /\ Unused(i) /\ awaited' = i
          /\ posts' = [posts EXCEPT ![i] =
               [stage |-> "sent", id |-> id, payload |-> Reviewed, told |-> "draft"]]
    BY <1>3 DEF Generate
  <2>2. /\ posts'[i] = [stage |-> "sent", id |-> id, payload |-> Reviewed, told |-> "draft"]
        /\ \A j \in Slots : j # i => posts'[j] = posts[j]
    BY <1>1, <2>1
  <2>3. \A j \in Slots : j > i => posts[j].stage = "unsent"
    BY <2>1 DEF PatientInv, InOrder, Unused, Slots
  <2>4. \A j \in Slots : j < i => posts[j].stage # "unsent"
    BY <2>1 DEF Unused, Slots
  <2>5. InOrder'
    BY <2>2, <2>3, <2>4 DEF PatientInv, InOrder, Slots
  <2>6. ASSUME NEW j \in Slots, Last(j)' PROVE j = i
    BY <2>2, <2>3, <2>6 DEF Last, Slots
  <2>7. UNCHANGED <<step, inputs, review, dirty, uncertain, id, preview>>
        /\ step = "review" /\ preview = Nothing /\ ~dirty
    BY <1>3 DEF Generate, CanGenerate
  <2>8. Waiting'
    BY <2>2, <2>6, <2>7 DEF Waiting, Reviewed
  <2>9. ~hasty => Asking'
    BY <2>7 DEF PatientInv, Asking
  <2>10. QED
    BY <1>1, <2>5, <2>8, <2>9 DEF PatientInv
<1>4. CASE GenerateOk \/ GenerateRefused
  <2>1. awaited \in Slots /\ posts[awaited].stage \in {"served", "refused"}
        /\ awaited' = Nothing /\ ~uncertain'
        /\ posts' = [posts EXCEPT ![awaited].stage = "over"]
        /\ UNCHANGED <<inputs, review, preview>> /\ step' \in {step, "result"}
    BY <1>4 DEF GenerateOk, GenerateRefused, TypeInv, TypeOK
  <2>2. /\ \A j \in Slots : j # awaited => posts'[j] = posts[j]
        /\ posts'[awaited].stage = "over"
    BY <1>1, <2>1 DEF Requests
  <2>3. InOrder'
    BY <2>1, <2>2 DEF PatientInv, InOrder
  <2>4. ASSUME ~hasty PROVE preview = Nothing
    BY <2>1, <2>4, Absence DEF PatientInv, Waiting
  <2>5. ~hasty => Asking' /\ Waiting'
    BY <2>1, <2>4 DEF PatientInv, Asking, Waiting
  <2>6. QED
    BY <1>1, <2>3, <2>5 DEF PatientInv
<1>5. CASE GenerateLost
  BY <1>1, <1>5 DEF GenerateLost, PatientInv, InOrder, Asking, Waiting, Last, Reviewed
<1>6. ASSUME NEW i \in Slots, Serve(i) \/ Refuse(i) PROVE PatientInv'
  <2>1. UNCHANGED pageVars /\ posts[i].stage = "sent"
    BY <1>6 DEF Serve, Refuse
  <2>2. \A j \in Slots : /\ posts'[j].id = posts[j].id /\ posts'[j].payload = posts[j].payload
                         /\ (posts'[j].stage = "unsent" <=> posts[j].stage = "unsent")
    BY <1>6, ServedPosts
  <2>3. InOrder'
    BY <2>2 DEF PatientInv, InOrder
  <2>4. \A j \in Slots : Last(j)' <=> Last(j)
    BY <2>2, LastKept
  <2>5. QED
    BY <2>1, <2>2, <2>3, <2>4 DEF PatientInv, Asking, Waiting, Reviewed, pageVars
<1>7. CASE \/ \E k \in Kinds : Decide(k) \/ ReadRun(k) \/ WriteRun(k) \/ DecideOk(k) \/ DecideFails(k)
           \/ \E n \in Ids, k \in Kinds : OthersDecide(n, k)
  <2>1. UNCHANGED <<hasty, step, inputs, review, dirty, uncertain, id, preview, awaited, posts>>
    BY <1>7 DEF Decide, ReadRun, WriteRun, DecideOk, DecideFails, OthersDecide, pageVars
  <2>2. QED
    BY <2>1 DEF PatientInv, InOrder, Asking, Waiting, Last, Reviewed
<1>8. QED
  BY <1>2, <1>3, <1>4, <1>5, <1>6, <1>7 DEF Next

LEMMA PatientBooks == TypeInv /\ PatientInv /\ [Next]_vars => TypeInv' /\ PatientInv'
<1>1. ASSUME PatientInv, UNCHANGED vars PROVE PatientInv'
  BY <1>1 DEF vars, pageVars, PatientInv, InOrder, Asking, Waiting, Last, Reviewed
<1>2. QED
  BY <1>1, TypeStep, PatientStep

\* While the outcome of a generation is unknown to a patient user, the page can repeat it
\* with the identity and the payload of the one that is unknown.
THEOREM PatientRetrySafeHolds == Spec => []PatientRetrySafe
<1>1. PatientInv => PatientRetrySafe
  BY DEF PatientInv, Waiting, PatientRetrySafe, RetrySafe, Pending, CanGenerate
<1>2. QED
  BY <1>1, PatientBooks, InitType, PatientInit, PTL DEF Spec

\* Generate sends exactly what the review of a patient user shows.
THEOREM GeneratedAsReviewedHolds == Spec => GeneratedAsReviewed
<1>1. TypeInv /\ PatientInv /\ [Next]_vars =>
        [\A i \in Slots :
           posts[i].stage = "unsent" /\ posts'[i].stage = "sent" /\ ~hasty =>
             posts'[i].payload = review]_vars
  <2>1. ASSUME TypeInv, PatientInv, Next, NEW i \in Slots,
               posts[i].stage = "unsent", posts'[i].stage = "sent", ~hasty
        PROVE  posts'[i].payload = review
    <3>1. Generate
      <4>1. posts \in [Slots -> Requests] /\ posts' # posts
        BY <2>1 DEF TypeInv, TypeOK
      <4>2. ~\E j \in Slots : Serve(j) \/ Refuse(j)
        BY <2>1, ServedPosts DEF Serve, Refuse
      <4>3. ~GenerateOk /\ ~GenerateRefused
        BY <2>1, <4>1 DEF GenerateOk, GenerateRefused, Requests
      <4>4. QED
        BY <2>1, <4>1, <4>2, <4>3 DEF Next, ChangeInputs, Preview, Recalculate, PreviewAnswer,
           PreviewFails, Back, EditOvertime, GenerateLost, Decide, ReadRun, WriteRun, DecideOk,
           DecideFails, OthersDecide, pageVars
    <3>2. posts'[i].payload = Reviewed
      <4>1. PICK j \in Slots : posts' = [posts EXCEPT ![j] =
              [stage |-> "sent", id |-> id, payload |-> Reviewed, told |-> "draft"]]
        BY <3>1 DEF Generate
      <4>2. posts \in [Slots -> Requests]
        BY <2>1 DEF TypeInv, TypeOK
      <4>3. QED
        BY <2>1, <4>1, <4>2
    <3>3. step = "review" /\ review.inputs = inputs
      BY <2>1, <3>1 DEF Generate, CanGenerate, PatientInv, Asking
    <3>4. QED
      BY <2>1, <3>2, <3>3, ReviewedType DEF Reviewed, Payload
  <2>2. QED
    BY <2>1 DEF vars
<1>2. QED
  BY <1>1, PatientBooks, InitType, PatientInit, PTL DEF Spec, GeneratedAsReviewed

--------------------------------------------------------------------------------
(* The result.  A status shown is approved or void only if the server's has been one of the
   two, and then the server's never is draft again.                                    *)

\* No step takes a stored run back to draft.
NeverDraftAgain ==
  \A n \in Ids : runs[n] # Nothing /\ runs[n].status # "draft" => runs'[n].status # "draft"

LEMMA NeverDraftAgainStep == ASSUME TypeInv, Next PROVE NeverDraftAgain
<1>1. runs \in [Ids -> {Nothing} \cup StoredRuns]
  BY DEF TypeInv, TypeOK
<1>2. ASSUME NEW i \in Slots, Serve(i) \/ Refuse(i) PROVE NeverDraftAgain
  BY <1>1, <1>2 DEF Serve, Refuse, NeverDraftAgain
<1>3. ASSUME NEW k \in Kinds, WriteRun(k) PROVE NeverDraftAgain
  <2>1. decisions[k].run.id \in Ids /\ runs[decisions[k].run.id] # Nothing
        /\ Outcome(k) \in Statuses /\ Outcome(k) # "draft"
    BY <1>3 DEF WriteRun, TypeInv, Shape, Stored, Outcome, Statuses
  <2>2. runs' = [runs EXCEPT ![decisions[k].run.id].status = Outcome(k)]
    BY <1>3 DEF WriteRun
  <2>3. QED
    BY <2>1, <2>2, StatusSet DEF NeverDraftAgain
<1>4. ASSUME NEW n \in Ids, NEW k \in Kinds, OthersDecide(n, k) PROVE NeverDraftAgain
  <2>1. /\ runs[n] # Nothing /\ Outcome(k) \in Statuses /\ Outcome(k) # "draft"
        /\ runs' = [runs EXCEPT ![n].status = Outcome(k)]
    BY <1>4 DEF OthersDecide, Outcome, Statuses
  <2>2. QED
    BY <2>1, StatusSet DEF NeverDraftAgain
<1>5. CASE runs' = runs
  BY <1>5 DEF NeverDraftAgain
<1>6. QED
  BY <1>2, <1>3, <1>4, <1>5 DEF Next, ChangeInputs, Preview, Recalculate, PreviewAnswer,
     PreviewFails, Back, EditOvertime, Generate, GenerateOk, GenerateRefused, GenerateLost,
     Decide, ReadRun, DecideOk, DecideFails

\* What the page can still be told about a run: it has not been shown yet, for the page has
\* gone on from an identity, or shows its result, when it can no longer be generated from
\* here, but for a Generate that is awaited.
Unshown(n) ==
  n > id \/ (n = id /\ step # "result") \/ (awaited # Nothing /\ n = posts[awaited].id)

Flying(k) == decisions[k].stage # "no"

\* An answer, and the page, know of a decision only what was decided.
DecidedInv ==
  /\ \A i \in Slots : posts[i].stage # "unsent" /\ posts[i].told # "draft" =>
       runs[posts[i].id] # Nothing /\ runs[posts[i].id].status # "draft"
  /\ \A k \in Kinds : decisions[k].stage = "done" => runs[decisions[k].run.id].status # "draft"
  /\ run # Nothing /\ run.status # "draft" => runs[run.id].status # "draft"

AwaitedTrue ==
  awaited # Nothing =>
    /\ posts[awaited].stage # "unsent" /\ posts[awaited].id <= id
    /\ posts[awaited].id \notin disputed => posts[awaited].told = "draft"

ShownTrue ==
  run # Nothing =>
    /\ ~Unshown(run.id)
    /\ run.id \notin disputed => run.status \in {"draft", runs[run.id].status}

\* An undisputed run has one decision under way, and the page shows it as a draft.
FlyingTrue ==
  \A k \in Kinds : Flying(k) =>
    /\ ~Unshown(decisions[k].run.id)
    /\ decisions[k].run.id \notin disputed =>
         /\ \A j \in Kinds : j # k /\ Flying(j) => decisions[j].run.id # decisions[k].run.id
         /\ run # Nothing /\ run.id = decisions[k].run.id => run.status = "draft"
         /\ decisions[k].stage = "done" => runs[decisions[k].run.id].status = Outcome(k)

UnshownDraft ==
  \A n \in Ids \ disputed : Unshown(n) /\ runs[n] # Nothing => runs[n].status = "draft"

TruthInv == DecidedInv /\ AwaitedTrue /\ ShownTrue /\ FlyingTrue /\ UnshownDraft

LEMMA TruthInit == Init => TruthInv
BY DEF Init, TruthInv, DecidedInv, AwaitedTrue, ShownTrue, FlyingTrue, UnshownDraft, Flying,
   Unsent, Undecided

\* The steps of the page that neither show a run nor change what is decided.
LEMMA TruthQuiet ==
  ASSUME TypeInv, TruthInv, UNCHANGED <<run, decisions, runs, disputed>>,
         \/ awaited' = awaited /\ posts' = posts
         \/ /\ awaited' = Nothing
            /\ \A i \in Slots : posts'[i].stage # "unsent" =>
                 /\ posts[i].stage # "unsent"
                 /\ posts'[i].told = posts[i].told /\ posts'[i].id = posts[i].id,
         id' \in Nat, id <= id',
         \A n \in Ids : Unshown(n)' => Unshown(n)
  PROVE  TruthInv'
<1>1. id \in Nat /\ \A i \in Slots : posts[i].stage # "unsent" => posts[i].id \in Nat
  BY DEF TypeInv, TypeOK, Shape, Ids
<1>2. /\ run # Nothing => run.id \in Ids
      /\ \A k \in Kinds : Flying(k) => decisions[k].run.id \in Ids
  BY DEF TypeInv, Shape, Stored, Flying
<1>3. DecidedInv'
  BY DEF TruthInv, DecidedInv
<1>4. AwaitedTrue'
  <2>1. CASE awaited' = Nothing
    BY <2>1 DEF AwaitedTrue
  <2>2. CASE awaited' = awaited /\ posts' = posts /\ awaited # Nothing
    <3>1. awaited \in Slots
      BY <2>2 DEF TypeInv, TypeOK
    <3>2. posts[awaited].id <= id'
      BY <1>1, <2>2, <3>1 DEF TruthInv, AwaitedTrue
    <3>3. QED
      BY <2>2, <3>2 DEF TruthInv, AwaitedTrue
  <2>3. QED
    BY <2>1, <2>2
<1>5. ShownTrue'
  BY <1>2 DEF TruthInv, ShownTrue
<1>6. FlyingTrue'
  <2>1. \A k \in Kinds : Flying(k)' <=> Flying(k)
    BY DEF Flying
  <2>2. QED
    BY <1>2, <2>1 DEF TruthInv, FlyingTrue
<1>7. UnshownDraft'
  BY DEF TruthInv, UnshownDraft
<1>8. QED
  BY <1>3, <1>4, <1>5, <1>6, <1>7 DEF TruthInv

LEMMA TruthPage ==
  ASSUME TypeInv, TruthInv,
         \/ \E v \in Inputs : ChangeInputs(v)
         \/ Preview \/ Recalculate \/ PreviewAnswer \/ PreviewFails \/ Back
         \/ \E v \in Overtimes : EditOvertime(v)
         \/ GenerateRefused \/ GenerateLost
  PROVE  TruthInv'
<1>1. UNCHANGED <<run, decisions, runs, disputed>>
  BY DEF ChangeInputs, Preview, Recalculate, PreviewAnswer, PreviewFails, Back, EditOvertime,
     GenerateRefused, GenerateLost
<1>2. id \in Nat /\ posts \in [Slots -> Requests]
  BY DEF TypeInv, TypeOK, Ids
<1>3. \/ awaited' = awaited /\ posts' = posts
      \/ /\ awaited' = Nothing
         /\ \A i \in Slots : posts'[i].stage # "unsent" =>
              /\ posts[i].stage # "unsent"
              /\ posts'[i].told = posts[i].told /\ posts'[i].id = posts[i].id
  <2>1. CASE GenerateRefused
    <3>1. awaited \in Slots /\ posts[awaited].stage = "refused" /\ awaited' = Nothing
          /\ posts' = [posts EXCEPT ![awaited].stage = "over"]
      BY <2>1 DEF GenerateRefused, TypeInv, TypeOK
    <3>2. /\ \A j \in Slots : j # awaited => posts'[j] = posts[j]
          /\ posts'[awaited].told = posts[awaited].told /\ posts'[awaited].id = posts[awaited].id
      BY <1>2, <3>1 DEF Requests
    <3>3. QED
      BY <3>1, <3>2
  <2>2. CASE ~GenerateRefused
    BY <2>2 DEF ChangeInputs, Preview, Recalculate, PreviewAnswer, PreviewFails, Back,
       EditOvertime, GenerateLost
  <2>3. QED
    BY <2>1, <2>2
<1>4. \/ id' = id /\ (step' = step \/ step # "result")
      \/ id' = id + 1
  BY DEF ChangeInputs, Preview, Recalculate, PreviewAnswer, PreviewFails, Back, EditOvertime,
     GenerateRefused, GenerateLost
<1>5. id' \in Nat /\ id <= id' /\ \A n \in Ids : Unshown(n)' => Unshown(n)
  BY <1>2, <1>3, <1>4 DEF Unshown, Ids
<1>6. QED
  BY <1>1, <1>3, <1>5, TruthQuiet

LEMMA TruthGenerate ==
  ASSUME TypeInv, TruthInv, Generate
  PROVE  TruthInv'
<1>1. PICK i \in Slots : awaited' = i /\ posts' = [posts EXCEPT ![i] =
          [stage |-> "sent", id |-> id, payload |-> Reviewed, told |-> "draft"]]
  BY DEF Generate
<1>2. /\ posts'[i] = [stage |-> "sent", id |-> id, payload |-> Reviewed, told |-> "draft"]
      /\ \A j \in Slots : j # i => posts'[j] = posts[j]
  BY <1>1 DEF TypeInv, TypeOK
<1>3. UNCHANGED <<step, id, run, decisions, runs, disputed>> /\ step = "review" /\ id \in Nat
      /\ awaited = Nothing /\ i # Nothing
  BY Absence DEF Generate, CanGenerate, TypeInv, TypeOK, Ids
<1>4. \A n \in Ids : Unshown(n)' <=> Unshown(n)
  BY <1>1, <1>2, <1>3 DEF Unshown
<1>5. DecidedInv'
  BY <1>2, <1>3 DEF TruthInv, DecidedInv
<1>6. AwaitedTrue'
  BY <1>1, <1>2, <1>3 DEF AwaitedTrue
<1>7. /\ run # Nothing => run.id \in Ids
      /\ \A k \in Kinds : Flying(k) => decisions[k].run.id \in Ids
      /\ \A k \in Kinds : Flying(k)' <=> Flying(k)
  BY <1>3 DEF TypeInv, Shape, Stored, Flying
<1>8. ShownTrue' /\ FlyingTrue' /\ UnshownDraft'
  BY <1>3, <1>4, <1>7 DEF TruthInv, ShownTrue, FlyingTrue, UnshownDraft
<1>9. QED
  BY <1>5, <1>6, <1>8 DEF TruthInv

\* The answer shows the run of an identity that nothing here has decided.
LEMMA TruthGenerateOk ==
  ASSUME TypeInv, TruthInv, GenerateOk
  PROVE  TruthInv'
<1>1. /\ awaited \in Slots /\ awaited # Nothing /\ awaited' = Nothing /\ step' = "result"
      /\ posts[awaited].stage = "served"
      /\ posts' = [posts EXCEPT ![awaited].stage = "over"]
      /\ UNCHANGED <<id, decisions, runs, disputed>>
      /\ run' = [id |-> posts[awaited].id, payload |-> posts[awaited].payload,
                 status |-> posts[awaited].told]
  BY DEF GenerateOk, TypeInv, TypeOK
<1>2. /\ \A j \in Slots : posts'[j].told = posts[j].told /\ posts'[j].id = posts[j].id
      /\ \A j \in Slots : posts'[j].stage # "unsent" => posts[j].stage # "unsent"
  BY <1>1 DEF TypeInv, TypeOK, Requests
<1>3. id \in Nat /\ posts[awaited].id \in Ids /\ posts[awaited].id <= id
      /\ Unshown(posts[awaited].id)
  BY <1>1 DEF TypeInv, TypeOK, Shape, Ids, TruthInv, AwaitedTrue, Unshown
<1>4. \A n \in Ids : Unshown(n)' => Unshown(n)
  BY <1>1 DEF Unshown
<1>5. DecidedInv'
  BY <1>1, <1>2 DEF TruthInv, DecidedInv
<1>6. ShownTrue'
  <2>1. ~(Unshown(run.id))'
    BY <1>1, <1>2, <1>3 DEF Unshown, Ids
  <2>2. run'.id \notin disputed => run'.status = "draft"
    BY <1>1 DEF TruthInv, AwaitedTrue
  <2>3. QED
    BY <1>1, <2>1, <2>2 DEF ShownTrue
<1>7. FlyingTrue'
  <2>1. \A k \in Kinds : (Flying(k)' <=> Flying(k)) /\ (Flying(k) => decisions[k].run.id \in Ids)
    BY <1>1 DEF Flying, TypeInv, Shape, Stored
  <2>2. \A k \in Kinds : Flying(k) => decisions[k].run.id # run'.id
    BY <1>1, <1>3 DEF TruthInv, FlyingTrue
  <2>3. QED
    BY <1>1, <1>4, <2>1, <2>2 DEF TruthInv, FlyingTrue
<1>8. AwaitedTrue' /\ UnshownDraft'
  BY <1>1, <1>4 DEF AwaitedTrue, TruthInv, UnshownDraft
<1>9. QED
  BY <1>5, <1>6, <1>7, <1>8 DEF TruthInv

\* The server stores drafts, and answers a repeat with what it has.
LEMMA TruthServe ==
  ASSUME TypeInv, TruthInv, NEW i \in Slots, Serve(i) \/ Refuse(i)
  PROVE  TruthInv'
<1>1. /\ UNCHANGED <<pageVars, decisions, disputed>> /\ posts[i].stage = "sent"
      /\ posts[i].id \in Ids /\ posts \in [Slots -> Requests]
      /\ runs \in [Ids -> {Nothing} \cup StoredRuns]
  BY DEF Serve, Refuse, TypeInv, TypeOK, Shape
<1>2. /\ \A j \in Slots : /\ posts'[j].id = posts[j].id
                          /\ j # i => posts'[j] = posts[j]
                          /\ (posts'[j].stage = "unsent" <=> posts[j].stage = "unsent")
  BY ServedPosts
<1>3. \/ posts'[i].told = posts[i].told
      \/ runs[posts[i].id] # Nothing /\ posts'[i].told = runs[posts[i].id].status
  <2>1. CASE posts' = [posts EXCEPT ![i].stage = "served", ![i].told = runs[posts[i].id].status]
             /\ runs[posts[i].id] # Nothing
    <3>1. posts'[i] = [posts[i] EXCEPT !.stage = "served", !.told = runs[posts[i].id].status]
      BY <1>1, <2>1
    <3>2. QED
      BY <1>1, <2>1, <3>1 DEF Requests
  <2>2. CASE \/ posts' = [posts EXCEPT ![i].stage = "served"]
             \/ posts' = [posts EXCEPT ![i].stage = "refused"]
    BY <1>1, <2>2 DEF Requests
  <2>3. QED
    BY <2>1, <2>2 DEF Serve, Refuse
<1>4. \A n \in Ids : /\ runs[n] # Nothing => runs'[n] = runs[n]
                     /\ runs[n] = Nothing /\ runs'[n] # Nothing => runs'[n].status = "draft"
  BY <1>1 DEF Serve, Refuse
<1>5. /\ run # Nothing => run.id \in Ids /\ runs[run.id] # Nothing
      /\ \A k \in Kinds : (Flying(k)' <=> Flying(k))
           /\ (Flying(k) => decisions[k].run.id \in Ids /\ runs[decisions[k].run.id] # Nothing)
      /\ \A k \in Kinds : decisions[k].stage = "done" => Flying(k)
  BY <1>1 DEF TypeInv, Shape, Stored, Flying
<1>6. UNCHANGED <<step, id, awaited, run>>
  BY <1>1 DEF pageVars
<1>7. awaited # Nothing => awaited \in Slots
  BY DEF TypeInv, TypeOK
<1>8. \A n : Unshown(n)' <=> Unshown(n)
  BY <1>2, <1>6, <1>7 DEF Unshown
<1>9. DecidedInv'
  <2>1. ASSUME NEW j \in Slots, posts'[j].stage # "unsent", posts'[j].told # "draft"
        PROVE  runs'[posts'[j].id] # Nothing /\ runs'[posts'[j].id].status # "draft"
    <3>1. posts[j].id \in Ids
      BY <1>2, <2>1 DEF TypeInv, Shape
    <3>2. runs[posts[j].id] # Nothing /\ runs[posts[j].id].status # "draft"
      BY <1>1, <1>2, <1>3, <2>1 DEF TruthInv, DecidedInv
    <3>3. QED
      BY <1>2, <1>4, <3>1, <3>2
  <2>2. \A k \in Kinds : decisions'[k].stage = "done" => runs'[decisions'[k].run.id].status # "draft"
    BY <1>1, <1>4, <1>5 DEF TruthInv, DecidedInv
  <2>3. run' # Nothing /\ run'.status # "draft" => runs'[run'.id].status # "draft"
    BY <1>4, <1>5, <1>6 DEF TruthInv, DecidedInv
  <2>4. QED
    BY <2>1, <2>2, <2>3 DEF DecidedInv
<1>10. AwaitedTrue'
  <2>1. CASE awaited = i
    <3>1. Unshown(posts[i].id)
      BY <1>7, <2>1, Absence DEF Unshown
    <3>2. posts[i].id \notin disputed => posts'[i].told = "draft"
      BY <1>1, <1>3, <2>1, <3>1, Absence DEF TruthInv, AwaitedTrue, UnshownDraft
    <3>3. QED
      BY <1>1, <1>2, <1>6, <2>1, <3>2 DEF TruthInv, AwaitedTrue
  <2>2. CASE awaited # i
    BY <1>1, <1>2, <1>6, <1>7, <2>2 DEF TruthInv, AwaitedTrue
  <2>3. QED
    BY <2>1, <2>2
<1>11. ShownTrue'
  BY <1>1, <1>4, <1>5, <1>6, <1>8 DEF TruthInv, ShownTrue
<1>12. FlyingTrue'
  BY <1>1, <1>4, <1>5, <1>6, <1>8 DEF TruthInv, FlyingTrue
<1>13. UnshownDraft'
  BY <1>1, <1>4, <1>8 DEF TruthInv, UnshownDraft
<1>14. QED
  BY <1>9, <1>10, <1>11, <1>12, <1>13 DEF TruthInv

\* A second decision of a run makes it disputed.
LEMMA TruthDecide ==
  ASSUME TypeInv, TruthInv, NEW k \in Kinds, Decide(k)
  PROVE  TruthInv'
<1>1. /\ UNCHANGED <<step, id, awaited, run, posts, runs>>
      /\ decisions \in [Kinds -> Decisions]
      /\ run # Nothing /\ run.status = "draft" /\ decisions[k].stage = "no"
  BY Absence DEF Decide, pageVars, TypeInv, TypeOK, Shape, Decisions
<1>2. /\ decisions'[k] = [stage |-> "sent", run |-> run, awaited |-> TRUE]
      /\ \A j \in Kinds : j # k => decisions'[j] = decisions[j]
  BY <1>1 DEF Decide
<1>3. /\ disputed \subseteq disputed'
      /\ \A j \in Kinds : Flying(j) /\ decisions[j].run.id = run.id => run.id \in disputed'
  BY DEF Decide, Flying
<1>4. \A n : Unshown(n)' <=> Unshown(n)
  BY <1>1 DEF Unshown
<1>5. \A j \in Kinds : j # k => (Flying(j)' <=> Flying(j))
  BY <1>2 DEF Flying
<1>6. DecidedInv'
  BY <1>1, <1>2 DEF TruthInv, DecidedInv
<1>7. AwaitedTrue' /\ ShownTrue' /\ UnshownDraft'
  BY <1>1, <1>3, <1>4 DEF TruthInv, AwaitedTrue, ShownTrue, UnshownDraft
<1>8. FlyingTrue'
  <2>1. ASSUME NEW j \in Kinds, Flying(j)'
        PROVE  /\ ~Unshown(decisions'[j].run.id)
               /\ decisions'[j].run.id \notin disputed' =>
                    /\ \A l \in Kinds : l # j /\ Flying(l)' =>
                         decisions'[l].run.id # decisions'[j].run.id
                    /\ run.id = decisions'[j].run.id => run.status = "draft"
                    /\ decisions'[j].stage = "done" =>
                         runs[decisions'[j].run.id].status = Outcome(j)
    <3>1. CASE j = k
      BY <1>1, <1>2, <1>3, <1>5, <3>1 DEF TruthInv, ShownTrue
    <3>2. CASE j # k
      BY <1>1, <1>2, <1>3, <1>5, <2>1, <3>2 DEF TruthInv, FlyingTrue
    <3>3. QED
      BY <3>1, <3>2
  <2>2. QED
    BY <1>1, <1>4, <2>1 DEF FlyingTrue
<1>9. QED
  BY <1>6, <1>7, <1>8 DEF TruthInv

\* A decision read, failed or answered.
LEMMA TruthAnswer ==
  ASSUME TypeInv, TruthInv, NEW k \in Kinds, ReadRun(k) \/ DecideOk(k) \/ DecideFails(k)
  PROVE  TruthInv'
<1>1. UNCHANGED <<step, id, awaited, posts, runs, disputed>>
  BY DEF ReadRun, DecideOk, DecideFails, pageVars
<1>2. /\ \A j \in Kinds : j # k => decisions'[j] = decisions[j]
      /\ decisions'[k].stage # "no" =>
           decisions[k].stage # "no" /\ decisions'[k].run = decisions[k].run
      /\ decisions'[k].stage # "done"
  BY DecisionKept, DecisionUnwritten
<1>3. \A n : Unshown(n)' <=> Unshown(n)
  BY <1>1 DEF Unshown
<1>4. \A j \in Kinds : Flying(j)' => Flying(j) /\ decisions'[j].run = decisions[j].run
  BY <1>2 DEF Flying
<1>5. AwaitedTrue' /\ UnshownDraft'
  BY <1>1, <1>3 DEF TruthInv, AwaitedTrue, UnshownDraft
<1>6. CASE run' = run
  <2>1. DecidedInv'
    BY <1>1, <1>2, <1>6 DEF TruthInv, DecidedInv
  <2>2. ShownTrue'
    BY <1>1, <1>3, <1>6 DEF TruthInv, ShownTrue
  <2>3. FlyingTrue'
    BY <1>1, <1>2, <1>3, <1>4, <1>6 DEF TruthInv, FlyingTrue
  <2>4. QED
    BY <1>5, <2>1, <2>2, <2>3 DEF TruthInv
<1>7. CASE DecideOk(k)
  <2>1. /\ decisions[k].stage = "done" /\ Flying(k) /\ decisions[k].run \in ShownRuns
        /\ run' = [decisions[k].run EXCEPT !.status = Outcome(k)]
    BY <1>7 DEF DecideOk, Flying, TypeInv, Shape
  <2>2. run'.id = decisions[k].run.id /\ run'.status = Outcome(k)
    BY <2>1 DEF ShownRuns
  <2>3. DecidedInv'
    BY <1>1, <1>2, <2>1, <2>2 DEF TruthInv, DecidedInv
  <2>4. ShownTrue'
    BY <1>1, <1>3, <2>1, <2>2 DEF TruthInv, FlyingTrue, ShownTrue
  <2>5. decisions'[k].stage = "no"
    BY <1>7 DEF DecideOk, Undecided, TypeInv, TypeOK
  <2>6. FlyingTrue'
    <3>1. ASSUME NEW j \in Kinds, Flying(j)'
          PROVE  /\ ~Unshown(decisions'[j].run.id)
                 /\ decisions'[j].run.id \notin disputed =>
                      /\ \A l \in Kinds : l # j /\ Flying(l)' =>
                           decisions'[l].run.id # decisions'[j].run.id
                      /\ run'.id # decisions'[j].run.id
                      /\ decisions'[j].stage = "done" =>
                           runs[decisions'[j].run.id].status = Outcome(j)
      <4>1. j # k /\ Flying(j) /\ decisions'[j] = decisions[j]
        BY <1>2, <1>4, <2>5, <3>1 DEF Flying
      <4>2. QED
        BY <1>4, <2>1, <2>2, <4>1 DEF TruthInv, FlyingTrue
    <3>2. QED
      BY <1>1, <1>3, <3>1 DEF FlyingTrue
  <2>7. QED
    BY <1>5, <2>3, <2>4, <2>6 DEF TruthInv
<1>8. QED
  BY <1>6, <1>7 DEF ReadRun, DecideFails, pageVars

\* A run gets another status, by a decision from here or by others.
Redecides(n, k) ==
  /\ runs' = [runs EXCEPT ![n].status = Outcome(k)]
  /\ UNCHANGED <<pageVars, posts>> /\ disputed \subseteq disputed'
  /\ ~Unshown(n) \/ n \in disputed'
  /\ n \in disputed' \/ (run # Nothing /\ run.id = n => run.status = "draft")
  /\ \A j \in Kinds : Flying(j)' => Flying(j) /\ decisions'[j].run = decisions[j].run
  /\ \A j \in Kinds : decisions'[j].stage = "done" =>
       \/ decisions[j].stage = "done" /\ (decisions[j].run.id # n \/ n \in disputed')
       \/ decisions[j].run.id = n /\ (j = k \/ n \in disputed')

LEMMA TruthStatus ==
  ASSUME TypeInv, TruthInv, NEW n \in Ids, runs[n] # Nothing, NEW k \in Kinds,
         Redecides(n, k)
  PROVE  TruthInv'
<1>1. UNCHANGED <<step, id, awaited, run, posts>> /\ disputed \subseteq disputed'
  BY DEF Redecides, pageVars
<1>2. Outcome(k) \in Statuses /\ Outcome(k) # "draft"
  BY DEF Outcome, Statuses
<1>3. runs'[n].status = Outcome(k) /\ (\A j \in Ids : j # n => runs'[j] = runs[j]) /\ RunsKept
  BY <1>2, StatusSet DEF Redecides
<1>4. \A j : Unshown(j)' <=> Unshown(j)
  BY <1>1 DEF Unshown
<1>5. /\ run # Nothing => run.id \in Ids
      /\ \A j \in Kinds : Flying(j) => decisions[j].run.id \in Ids
      /\ \A j \in Kinds : decisions'[j].stage = "done" => Flying(j)'
      /\ \A i \in Slots : posts[i].stage # "unsent" => posts[i].id \in Ids
  BY DEF TypeInv, Shape, Stored, Flying, Redecides
<1>6. DecidedInv'
  <2>1. \A j \in Ids : runs[j] # Nothing /\ runs[j].status # "draft" =>
          runs'[j] # Nothing /\ runs'[j].status # "draft"
    BY <1>2, <1>3 DEF RunsKept
  <2>2. \A j \in Kinds : decisions'[j].stage = "done" => runs'[decisions'[j].run.id].status # "draft"
    BY <1>2, <1>3, <1>5 DEF TruthInv, DecidedInv, Redecides
  <2>3. run # Nothing => runs[run.id] # Nothing
    BY DEF TypeInv, Shape, Stored
  <2>4. QED
    BY <1>1, <1>5, <2>1, <2>2, <2>3 DEF TruthInv, DecidedInv, Redecides
<1>7. AwaitedTrue'
  BY <1>1 DEF TruthInv, AwaitedTrue
<1>8. ShownTrue'
  BY <1>1, <1>3, <1>4, <1>5 DEF TruthInv, ShownTrue, Redecides
<1>9. FlyingTrue'
  <2>1. ASSUME NEW j \in Kinds, Flying(j)', decisions'[j].run.id \notin disputed',
               decisions'[j].stage = "done"
        PROVE  runs'[decisions'[j].run.id].status = Outcome(j)
    BY <1>3, <1>5, <2>1 DEF TruthInv, FlyingTrue, Redecides
  <2>2. QED
    BY <1>1, <1>4, <2>1 DEF TruthInv, FlyingTrue, Redecides
<1>10. UnshownDraft'
  BY <1>3, <1>4 DEF TruthInv, UnshownDraft, Redecides
<1>11. QED
  BY <1>6, <1>7, <1>8, <1>9, <1>10 DEF TruthInv

LEMMA TruthWrite ==
  ASSUME TypeInv, TruthInv, NEW k \in Kinds, WriteRun(k)
  PROVE  TruthInv'
<1>1. /\ Flying(k) /\ decisions[k].run.id \in Ids /\ runs[decisions[k].run.id] # Nothing
      /\ runs' = [runs EXCEPT ![decisions[k].run.id].status = Outcome(k)]
      /\ UNCHANGED <<pageVars, posts, disputed>>
  BY DEF WriteRun, Flying, TypeInv, Shape, Stored
<1>2. /\ \A j \in Kinds : j # k => decisions'[j] = decisions[j]
      /\ decisions'[k].stage # "no" =>
           decisions[k].stage # "no" /\ decisions'[k].run = decisions[k].run
  BY DecisionKept
<1>3. ~Unshown(decisions[k].run.id)
  BY <1>1 DEF TruthInv, FlyingTrue
<1>4. decisions[k].run.id \in disputed
      \/ (run # Nothing /\ run.id = decisions[k].run.id => run.status = "draft")
  BY <1>1 DEF TruthInv, FlyingTrue
<1>5. \A j \in Kinds : Flying(j)' => Flying(j) /\ decisions'[j].run = decisions[j].run
  BY <1>2 DEF Flying
<1>6. \A j \in Kinds : decisions'[j].stage = "done" =>
        \/ decisions[j].stage = "done"
             /\ (decisions[j].run.id # decisions[k].run.id \/ decisions[k].run.id \in disputed)
        \/ decisions[j].run.id = decisions[k].run.id /\ (j = k \/ decisions[k].run.id \in disputed)
  BY <1>1, <1>2 DEF TruthInv, FlyingTrue, Flying
<1>7. Redecides(decisions[k].run.id, k)
  BY <1>1, <1>3, <1>4, <1>5, <1>6 DEF Redecides
<1>8. QED
  BY <1>1, <1>7, TruthStatus

LEMMA TruthOthers ==
  ASSUME TypeInv, TruthInv, NEW n \in Ids, NEW k \in Kinds, OthersDecide(n, k)
  PROVE  TruthInv'
<1>1. /\ runs[n] # Nothing /\ runs' = [runs EXCEPT ![n].status = Outcome(k)]
      /\ UNCHANGED <<pageVars, posts, decisions>> /\ disputed' = disputed \cup {n}
  BY DEF OthersDecide
<1>2. \A j \in Kinds : Flying(j)' => Flying(j) /\ decisions'[j].run = decisions[j].run
  BY <1>1 DEF Flying
<1>3. Redecides(n, k)
  BY <1>1, <1>2 DEF Redecides, Flying
<1>4. QED
  BY <1>1, <1>3, TruthStatus

LEMMA TruthStep == TypeInv /\ TruthInv /\ [Next]_vars => TruthInv'
<1> SUFFICES ASSUME TypeInv, TruthInv, [Next]_vars PROVE TruthInv'
  OBVIOUS
<1>1. CASE UNCHANGED vars
  BY <1>1 DEF vars, pageVars, TruthInv, DecidedInv, AwaitedTrue, ShownTrue, FlyingTrue,
     UnshownDraft, Unshown, Flying
<1>2. CASE Next
  BY <1>2, TruthPage, TruthGenerate, TruthGenerateOk, TruthServe, TruthDecide, TruthAnswer,
     TruthWrite, TruthOthers DEF Next
<1>3. QED
  BY <1>1, <1>2

\* The run the page shows is stored with the payload the page sent for it, is decided only
\* if the server has decided it, and as the server has unless it is disputed: for every user
\* and every order of clicks, answers and losses.
THEOREM ResultTruthfulHolds == Spec => []ResultTruthful
<1>1. TypeInv /\ TruthInv => ResultTruthful
  BY DEF TypeInv, Shape, Stored, TruthInv, DecidedInv, ShownTrue, ResultTruthful
<1>2. QED
  BY <1>1, InitType, TypeStep, TruthInit, TruthStep, PTL DEF Spec

--------------------------------------------------------------------------------
(* What the decisions leave on the server.  A run is never removed and never computed again.
   A decision reads the run without a lock and writes it later: what it read still stands
   when no other decision of the run is written in between.                             *)

\* In every step a stored run stays stored, with the payload it was generated from: nothing
\* a retry, a refusal or a decision does replaces it (generate_payroll).
THEOREM RunsKeptHolds == Spec => [][RunsKept]_vars
<1>1. ASSUME TypeInv, Next PROVE RunsKept
  <2>1. CASE \E i \in Slots : Serve(i) \/ Refuse(i)
    BY <1>1, <2>1, ServeType
  <2>2. CASE \E k \in Kinds : Decide(k) \/ ReadRun(k) \/ WriteRun(k) \/ DecideOk(k) \/ DecideFails(k)
    BY <1>1, <2>2, DecideType
  <2>3. CASE \E n \in Ids, k \in Kinds : OthersDecide(n, k)
    BY <1>1, <2>3, OthersType
  <2>4. CASE runs' = runs
    BY <2>4 DEF RunsKept
  <2>5. QED
    BY <1>1, <2>1, <2>2, <2>3, <2>4 DEF Next, ChangeInputs, Preview, Recalculate, PreviewAnswer,
       PreviewFails, Back, EditOvertime, Generate, GenerateOk, GenerateRefused, GenerateLost
<1>2. TypeInv /\ [Next]_vars => TypeInv' /\ [RunsKept]_vars
  BY <1>1, TypeStep
<1>3. QED
  BY <1>2, InitType, PTL DEF Spec

\* A decision of run n stands between its read and its write.
Reading(j, n) == decisions[j].stage = "read" /\ decisions[j].run.id = n

\* A decision is written only while no other decision of the run stands between its read
\* and its write, as a lock on the run from the read on would have it.
DecidedApart ==
  /\ \A k \in Kinds : WriteRun(k) => \A j \in Kinds \ {k} : ~Reading(j, decisions[k].run.id)
  /\ \A n \in Ids, k \in Kinds : OthersDecide(n, k) => \A j \in Kinds : ~Reading(j, n)

\* What a decision read still allows it.
ReadStands ==
  \A k \in Kinds : decisions[k].stage = "read" => runs[decisions[k].run.id].status \in Allows(k)

\* A run that changes was in a state that allows the change: draft to approved, or either to
\* void.
Forward ==
  \A n \in Ids : runs[n] # Nothing /\ runs'[n] # runs[n] =>
    \E k \in Kinds : /\ runs[n].status \in Allows(k)
                     /\ runs'[n].status = Outcome(k) /\ runs'[n].payload = runs[n].payload

\* The reading decisions a step leaves alone keep what they read.
LEMMA ReadsKept ==
  ASSUME TypeInv, ReadStands,
         \A k \in Kinds : decisions'[k].stage = "read" =>
           decisions[k] = decisions'[k] /\ runs'[decisions[k].run.id] = runs[decisions[k].run.id]
  PROVE  ReadStands'
BY DEF ReadStands, Allows

LEMMA ReadStandsStep ==
  ASSUME TypeInv, ReadStands, Next, DecidedApart
  PROVE  ReadStands' /\ Forward
<1>1. /\ decisions \in [Kinds -> Decisions] /\ runs \in [Ids -> {Nothing} \cup StoredRuns]
      /\ \A k \in Kinds : decisions[k].stage # "no" =>
           decisions[k].run.id \in Ids /\ runs[decisions[k].run.id] # Nothing
  BY DEF TypeInv, TypeOK, Shape, Stored, Decisions
<1>2. CASE UNCHANGED <<decisions, runs>>
  BY <1>2, ReadsKept DEF Forward
<1>3. ASSUME NEW i \in Slots, Serve(i) \/ Refuse(i) PROVE ReadStands' /\ Forward
  <2>1. decisions' = decisions /\ \A n \in Ids : runs[n] # Nothing => runs'[n] = runs[n]
    BY <1>1, <1>3 DEF Serve, Refuse
  <2>2. QED
    BY <1>1, <2>1, ReadsKept DEF Forward
<1>4. ASSUME NEW k \in Kinds, Decide(k) PROVE ReadStands' /\ Forward
  <2>1. /\ runs' = runs /\ decisions'[k].stage # "read"
        /\ \A j \in Kinds \ {k} : decisions'[j] = decisions[j]
    BY <1>1, <1>4 DEF Decide
  <2>2. QED
    BY <2>1, ReadsKept DEF Forward
<1>5. ASSUME NEW k \in Kinds, ReadRun(k) \/ DecideOk(k) \/ DecideFails(k)
      PROVE  ReadStands' /\ Forward
  <2>1. runs' = runs
    BY <1>5 DEF ReadRun, DecideOk, DecideFails
  <2>2. /\ \A j \in Kinds : j # k => decisions'[j] = decisions[j]
        /\ decisions'[k].stage # "no" => decisions'[k].run = decisions[k].run
        /\ decisions'[k].stage = "read" /\ decisions[k].stage # "read" =>
             runs[decisions[k].run.id].status \in Allows(k)
    BY <1>5, DecisionKept, DecisionUnwritten
  <2>3. QED
    BY <2>1, <2>2 DEF ReadStands, Forward, Allows
<1>6. ASSUME NEW k \in Kinds, WriteRun(k) PROVE ReadStands' /\ Forward
  <2>1. /\ decisions[k].run.id \in Ids /\ runs[decisions[k].run.id] # Nothing
        /\ runs[decisions[k].run.id].status \in Allows(k)
    BY <1>1, <1>6 DEF WriteRun, ReadStands
  <2>2. /\ Outcome(k) \in Statuses
        /\ runs' = [runs EXCEPT ![decisions[k].run.id].status = Outcome(k)]
    BY <1>6 DEF WriteRun, Outcome, Statuses
  <2>3. /\ RunsKept /\ runs'[decisions[k].run.id].status = Outcome(k)
        /\ \A n \in Ids : n # decisions[k].run.id => runs'[n] = runs[n]
    BY <2>1, <2>2, StatusSet
  <2>4. decisions'[k].stage # "read" /\ \A j \in Kinds \ {k} : decisions'[j] = decisions[j]
    BY <1>1, <1>6 DEF WriteRun, Ended, Undecided, Decisions
  <2>5. \A j \in Kinds \ {k} : decisions[j].stage = "read" =>
          decisions[j].run.id \in Ids /\ decisions[j].run.id # decisions[k].run.id
    BY <1>1, <1>6 DEF DecidedApart, Reading
  <2>6. ReadStands'
    BY <2>3, <2>4, <2>5, ReadsKept
  <2>7. Forward
    BY <2>1, <2>3 DEF Forward, RunsKept
  <2>8. QED
    BY <2>6, <2>7
<1>7. ASSUME NEW n \in Ids, NEW k \in Kinds, OthersDecide(n, k) PROVE ReadStands' /\ Forward
  <2>1. /\ runs[n] # Nothing /\ runs[n].status \in Allows(k) /\ decisions' = decisions
        /\ Outcome(k) \in Statuses /\ runs' = [runs EXCEPT ![n].status = Outcome(k)]
    BY <1>7 DEF OthersDecide, Outcome, Statuses
  <2>2. RunsKept /\ runs'[n].status = Outcome(k) /\ \A j \in Ids : j # n => runs'[j] = runs[j]
    BY <2>1, StatusSet
  <2>3. \A j \in Kinds : decisions[j].stage = "read" =>
          decisions[j].run.id \in Ids /\ decisions[j].run.id # n
    BY <1>1, <1>7 DEF DecidedApart, Reading
  <2>4. ReadStands'
    BY <2>1, <2>2, <2>3, ReadsKept
  <2>5. Forward
    BY <2>1, <2>2 DEF Forward, RunsKept
  <2>6. QED
    BY <2>4, <2>5
<1>8. QED
  BY <1>2, <1>3, <1>4, <1>5, <1>6, <1>7 DEF Next, ChangeInputs, Preview, Recalculate,
     PreviewAnswer, PreviewFails, Back, EditOvertime, Generate, GenerateOk, GenerateRefused,
     GenerateLost

\* If no decision of a run is written between another's read and write, a run only goes
\* forward, whatever the users of the page and of the run's own page press: only a draft is
\* approved, and a void run stays void (approve and void of payroll/routes.py, which read
\* the run without a lock).
THEOREM ForwardHolds == Spec /\ [][DecidedApart]_vars => [][Forward]_vars
<1>1. Init => ReadStands
  BY DEF Init, Undecided, ReadStands
<1>2. TypeInv /\ ReadStands /\ [Next]_vars /\ [DecidedApart]_vars =>
        TypeInv' /\ ReadStands' /\ [Forward]_vars
  <2>1. ASSUME ReadStands, UNCHANGED vars PROVE ReadStands'
    BY <2>1 DEF vars, ReadStands, Allows
  <2>2. QED
    BY <2>1, TypeStep, ReadStandsStep DEF vars
<1>3. QED
  BY <1>1, <1>2, InitType, PTL DEF Spec

\* So a void run is never approved.
COROLLARY VoidStays ==
  Spec /\ [][DecidedApart]_vars =>
    [][\A n \in Ids : runs[n] # Nothing /\ runs[n].status = "void" =>
         runs'[n].status = "void"]_vars
<1>1. [Forward]_vars =>
        [\A n \in Ids : runs[n] # Nothing /\ runs[n].status = "void" =>
           runs'[n].status = "void"]_vars
  BY DEF Forward, Allows
<1>2. QED
  BY <1>1, ForwardHolds, PTL

===================================================================================
