--------------------------- MODULE PropertyWizardProofs ---------------------------
(* Proofs about PropertyWizard, for any subdivisions, codes and phases and any number of
   goes and requests: the type invariant, and that what the wizard makes belongs together. *)
EXTENDS PropertyWizard, FiniteSetTheorems, TLAPS

--------------------------------------------------------------------------------
(* The invariant. *)

AskRecords ==
  [stage : {"unsent", "sent", "served", "refused", "over"},
   kind : {"project", "category", Nothing}, go : Goes \cup {Nothing},
   code : Codes \cup {Nothing}, project : Codes \cup {Nothing}, place : Places]

\* A lot lies in its block and a block in its phase.
Nested(where) ==
  where.block \in {Nothing, where.phase} /\ where.lot \in {Nothing, where.block}

Used(a) == asks[a].stage # "unsent"

\* The last step is reached with a category typed, and left while nothing is submitted; the
\* request a submission waits for is of this go, and for a project until one is made.
Steps ==
  /\ page = "project" => categoryCode # Nothing
  /\ submitted # Nothing => page = "project" /\ Nested(submitted)
  /\ Nested(place)
  /\ waiting # Nothing =>
       /\ asks[waiting].stage \in {"sent", "served", "refused"}
       /\ asks[waiting].go = go
       /\ asks[waiting].kind = "project" <=> created = Nothing

\* What a request says is so: its go has begun, its code is one, the project of a category
\* is made, and a request that was served has left its row.
Claim(a) ==
  /\ asks[a].kind \in {"project", "category"}
  /\ asks[a].go \in 1..go /\ asks[a].code \in Codes
  /\ asks[a].kind = "category" =>
       /\ [code |-> asks[a].project, go |-> asks[a].go] \in projects
       /\ Nested(asks[a].place)
  /\ asks[a].stage = "served" =>
       IF asks[a].kind = "project"
       THEN [code |-> asks[a].code, go |-> asks[a].go] \in projects
       ELSE \E c \in categories : c.go = asks[a].go

Asking == \A a \in Asks : Used(a) => Claim(a)

\* The rows: codes are unique, a category hangs from a project of its go, and each go that is
\* over has a category.
Tables ==
  /\ \A p \in projects : p.go \in 1..go
  /\ \A p, q \in projects : p.code = q.code => p = q
  /\ \A c \in categories :
       [code |-> c.project, go |-> c.go] \in projects /\ Nested(c.place)
  /\ created # Nothing => [code |-> created, go |-> go] \in projects
  /\ \A g \in 1..go : g < go => \E c \in categories : c.go = g

\* A project whose answer was lost.
Orphan(a, p) ==
  /\ asks[a].kind = "project" /\ asks[a].stage = "served" /\ a # waiting
  /\ asks[a].go = p.go /\ asks[a].code = p.code

Lone(p) == \A a \in Asks : ~Orphan(a, p)

\* The projects of a go are orphans but for one: the one the page remembers, or is about to.
OneEach ==
  /\ \A p, q \in projects : p.go = q.go /\ p.go < go /\ Lone(p) /\ Lone(q) => p = q
  /\ \A p \in projects : p.go = go /\ Lone(p) =>
       \/ p.code = created
       \/ /\ waiting # Nothing
          /\ asks[waiting].kind = "project" /\ asks[waiting].stage = "served"
          /\ p.code = asks[waiting].code

WInv == TypeOK /\ Steps /\ Asking /\ Tables /\ OneEach

--------------------------------------------------------------------------------
(* The steps. *)

LEMMA InvInit == ASSUME WizardConstants PROVE Init => WInv
<1> SUFFICES ASSUME Init PROVE WInv
  OBVIOUS
<1>1. Nowhere \in Places /\ Nested(Nowhere)
  BY DEF Nowhere, Places, Nested
<1>2. 1 \in Goes
  BY DEF WizardConstants, Goes
<1>3. Unasked \in AskRecords
  BY <1>1 DEF Unasked, AskRecords
<1>4. TypeOK
  BY <1>1, <1>2, <1>3 DEF Init, TypeOK, AskRecords
<1>5. \A a \in Asks : ~Used(a)
  BY DEF Init, Used, Unasked
<1>6. Asking
  BY <1>5 DEF Asking
<1>7. Steps /\ Tables /\ OneEach
  BY <1>1 DEF Init, Steps, Tables, OneEach, WizardConstants
<1>8. QED
  BY <1>4, <1>6, <1>7 DEF WInv

\* The fields and the buttons that lead from step to step.
LEMMA PageStep ==
  ASSUME WizardConstants, WInv, UNCHANGED <<created, submitted, waiting, go, asks, tables>>,
         \/ \E s \in Subdivisions : ChooseSubdivision(s)
         \/ SubdivisionNext \/ CategoryNext \/ BackToSubdivision \/ BackToCategory
         \/ \E c \in Codes : TypeCategory(c) \/ TypeProject(c)
         \/ \E p \in Phases : ChoosePhase(p)
         \/ ChooseBlock \/ ChooseLot
  PROVE  WInv'
<1>1. place' \in Places /\ Nested(place')
  <2>1. place \in Places /\ Nested(place)
    BY DEF WInv, TypeOK, Steps
  <2>2. CASE place' = place
    BY <2>1, <2>2
  <2>3. CASE \E p \in Phases : ChoosePhase(p)
    BY <2>1, <2>3 DEF ChoosePhase, Choose, Nested, Places
  <2>4. CASE ChooseBlock
    BY <2>1, <2>4 DEF ChooseBlock, Choose, Nested, Places
  <2>5. CASE ChooseLot
    BY <2>1, <2>5 DEF ChooseLot, Choose, Nested, Places
  <2>6. QED
    BY <2>2, <2>3, <2>4, <2>5 DEF ChooseSubdivision, SubdivisionNext, CategoryNext,
       BackToSubdivision, BackToCategory, TypeCategory, TypeProject, forms
<1>2. TypeOK'
  BY <1>1 DEF ChooseSubdivision, SubdivisionNext, CategoryNext, BackToSubdivision, BackToCategory,
     TypeCategory, TypeProject, ChoosePhase, ChooseBlock, ChooseLot, Choose, forms, tables, WInv,
     TypeOK
<1>3. page' = "project" => categoryCode' # Nothing
  BY DEF ChooseSubdivision, SubdivisionNext, CategoryNext, BackToSubdivision, BackToCategory,
     TypeCategory, TypeProject, ChoosePhase, ChooseBlock, ChooseLot, Choose, forms, WInv, Steps,
     WizardConstants
<1>4. submitted # Nothing => page' = "project"
  BY DEF ChooseSubdivision, SubdivisionNext, CategoryNext, BackToSubdivision, BackToCategory,
     TypeCategory, TypeProject, ChoosePhase, ChooseBlock, ChooseLot, Choose, forms, WInv, Steps
<1>5. Steps'
  BY <1>1, <1>3, <1>4 DEF WInv, Steps
<1>6. Asking' /\ Tables' /\ OneEach'
  BY DEF WInv, Asking, Claim, Used, Tables, OneEach, Lone, Orphan, tables
<1>7. QED
  BY <1>2, <1>5, <1>6 DEF WInv

\* What the last step sends: a project, or a category of a project that is made.
LEMMA ProjectAskType ==
  ASSUME WInv, projectCode # Nothing
  PROVE  ProjectAsk \in AskRecords /\ ProjectAsk.code \in Codes
BY DEF ProjectAsk, AskRecords, WInv, TypeOK, Nowhere, Places

LEMMA CategoryAskType ==
  ASSUME WInv, page = "project", NEW project \in Codes, NEW where \in Places
  PROVE  CategoryAsk(project, where) \in AskRecords /\ CategoryAsk(project, where).code \in Codes
BY DEF CategoryAsk, AskRecords, WInv, TypeOK, Steps

LEMMA SubmitStep == ASSUME WizardConstants, WInv, Submit PROVE WInv'
<1> DEFINE r == IF created = Nothing THEN ProjectAsk ELSE CategoryAsk(created, place)
<1>1. PICK a \in Asks : Unused(a) /\ asks' = [asks EXCEPT ![a] = r] /\ waiting' = a
  BY DEF Submit
<1>2. /\ page = "project" /\ submitted = Nothing /\ waiting = Nothing /\ submitted' = place
      /\ UNCHANGED <<page, forms, created, go, tables>>
  BY DEF Submit, WInv, TypeOK
<1>3. /\ asks \in [Asks -> AskRecords] /\ place \in Places /\ created \in Codes \cup {Nothing}
      /\ go \in Goes
  BY DEF WInv, TypeOK, AskRecords
<1>4. r \in AskRecords /\ r.code \in Codes
  BY <1>2, <1>3, ProjectAskType, CategoryAskType DEF Submit
<1>5. /\ r.stage = "sent" /\ r.go = go
      /\ r.kind = IF created = Nothing THEN "project" ELSE "category"
      /\ created # Nothing => r.project = created /\ r.place = place
  BY DEF ProjectAsk, CategoryAsk
<1> HIDE DEF r
<1>6. asks[a].stage = "unsent" /\ asks'[a] = r /\ \A b \in Asks : b # a => asks'[b] = asks[b]
  BY <1>1, <1>3 DEF Unused
<1>7. TypeOK'
  <2>1. asks' \in [Asks -> AskRecords]
    BY <1>1, <1>3, <1>4
  <2>2. QED
    BY <2>1, <1>1, <1>2, <1>3 DEF WInv, TypeOK, AskRecords, forms, tables, WizardConstants
<1>8. Nested(place)
  BY DEF WInv, Steps
<1>9. Steps'
  BY <1>1, <1>2, <1>3, <1>5, <1>6, <1>8 DEF WInv, Steps, forms
<1>10. Asking'
  <2> SUFFICES ASSUME NEW b \in Asks, Used(b)' PROVE Claim(b)'
    BY DEF Asking
  <2>1. CASE b = a
    <3>1. go \in 1..go
      BY <1>3 DEF Goes, WizardConstants
    <3>2. created # Nothing => [code |-> created, go |-> go] \in projects
      BY DEF WInv, Tables
    <3>3. QED
      BY <2>1, <1>2, <1>4, <1>5, <1>6, <1>8, <3>1, <3>2 DEF Claim, tables
  <2>2. CASE b # a
    BY <2>2, <1>2, <1>6 DEF WInv, Asking, Claim, Used, tables
  <2>3. QED
    BY <2>1, <2>2
<1>11. Tables'
  BY <1>2 DEF WInv, Tables, tables
<1>12. OneEach'
  <2>1. \A p : Lone(p)' <=> Lone(p)
    BY <1>1, <1>2, <1>5, <1>6 DEF Lone, Orphan, WizardConstants
  <2>2. QED
    BY <2>1, <1>2 DEF WInv, OneEach, tables
<1>13. QED
  BY <1>7, <1>9, <1>10, <1>11, <1>12 DEF WInv

LEMMA ProjectOkStep == ASSUME WizardConstants, WInv, ProjectOk PROVE WInv'
<1> DEFINE made == asks[waiting].code
           r == CategoryAsk(made, submitted)
<1>1. PICK a \in Asks :
        Unused(a) /\ asks' = [asks EXCEPT ![waiting].stage = "over", ![a] = r] /\ waiting' = a
  BY DEF ProjectOk
<1>2. /\ waiting \in Asks /\ asks[waiting].kind = "project" /\ asks[waiting].stage = "served"
      /\ created' = made /\ submitted # Nothing
      /\ UNCHANGED <<page, forms, submitted, go, tables>>
  BY DEF ProjectOk, Answered, ProjectMade, WInv, TypeOK
<1>3. asks \in [Asks -> AskRecords] /\ submitted \in Places /\ go \in Goes
  BY <1>2 DEF WInv, TypeOK, AskRecords
<1>4. page = "project" /\ Nested(submitted) /\ created = Nothing /\ asks[waiting].go = go
  BY <1>2 DEF WInv, Steps, WizardConstants
<1>5. made \in Codes /\ [code |-> made, go |-> go] \in projects
  BY <1>2, <1>4 DEF WInv, Asking, Claim, Used
<1>6. r \in AskRecords /\ r.code \in Codes
  BY <1>3, <1>4, <1>5, CategoryAskType
<1>7. /\ r.stage = "sent" /\ r.go = go /\ r.kind = "category"
      /\ r.project = made /\ r.place = submitted
  BY DEF CategoryAsk
<1>8. asks[a].stage = "unsent" /\ a # waiting
  BY <1>1, <1>2 DEF Unused
<1> HIDE DEF made, r
<1>9. /\ asks'[a] = r
      /\ asks'[waiting] = [asks[waiting] EXCEPT !.stage = "over"]
      /\ \A b \in Asks : b \notin {a, waiting} => asks'[b] = asks[b]
  BY <1>1, <1>2, <1>3, <1>8
<1>10. [asks[waiting] EXCEPT !.stage = "over"] \in AskRecords
  BY <1>2, <1>3 DEF AskRecords
<1>11. TypeOK'
  <2>1. asks' \in [Asks -> AskRecords]
    BY <1>1, <1>3, <1>6, <1>10
  <2>2. QED
    BY <2>1, <1>1, <1>2, <1>3, <1>5 DEF WInv, TypeOK, AskRecords, forms, tables, WizardConstants
<1>12. Steps'
  <2>1. asks'[waiting'].stage = "sent" /\ asks'[waiting'].go = go
        /\ asks'[waiting'].kind = "category" /\ created' # Nothing
    BY <1>1, <1>2, <1>5, <1>7, <1>9 DEF WizardConstants
  <2>2. UNCHANGED <<page, categoryCode, place, submitted, go>>
    BY <1>2 DEF forms
  <2>3. QED
    BY <2>1, <2>2 DEF WInv, Steps
<1>13. Asking'
  <2> SUFFICES ASSUME NEW b \in Asks, Used(b)' PROVE Claim(b)'
    BY DEF Asking
  <2>1. CASE b = a
    <3>1. go \in 1..go
      BY <1>3 DEF Goes, WizardConstants
    <3>2. QED
      BY <2>1, <1>2, <1>4, <1>5, <1>6, <1>7, <1>9, <3>1 DEF Claim, tables
  <2>2. CASE b = waiting
    <3>1. /\ asks'[b].kind = "project" /\ asks'[b].go = asks[b].go
          /\ asks'[b].code = asks[b].code /\ asks'[b].stage = "over"
      BY <2>2, <1>2, <1>3, <1>9 DEF AskRecords
    <3>2. QED
      BY <3>1, <2>2, <1>2 DEF WInv, Asking, Claim, Used, tables
  <2>3. CASE b \notin {a, waiting}
    BY <2>3, <1>2, <1>9 DEF WInv, Asking, Claim, Used, tables
  <2>4. QED
    BY <2>1, <2>2, <2>3
<1>14. Tables'
  BY <1>2, <1>5 DEF WInv, Tables, tables
<1>15. OneEach'
  <2>1. \A p : Lone(p)' <=> Lone(p)
    <3>1. asks'[waiting].stage = "over"
      BY <1>2, <1>3, <1>9 DEF AskRecords
    <3>2. ASSUME NEW p, NEW b \in Asks PROVE Orphan(b, p)' <=> Orphan(b, p)
      BY <3>1, <1>1, <1>2, <1>7, <1>8, <1>9 DEF Orphan
    <3>3. QED
      BY <3>2 DEF Lone
  <2>2. \A p \in projects : p.code \in Codes
    BY DEF WInv, TypeOK
  <2>3. QED
    BY <2>1, <2>2, <1>2, <1>4 DEF WInv, OneEach, tables, WizardConstants, made
<1>16. QED
  BY <1>11, <1>12, <1>13, <1>14, <1>15 DEF WInv

\* The other steps move one request from one stage to the next, and keep what it says.
LEMMA StageMoved ==
  ASSUME WInv, NEW a \in Asks, NEW stage \in {"served", "refused", "over"},
         asks' = [asks EXCEPT ![a].stage = stage]
  PROVE  /\ asks' \in [Asks -> AskRecords]
         /\ \A b \in Asks :
              /\ asks'[b].kind = asks[b].kind /\ asks'[b].go = asks[b].go
              /\ asks'[b].code = asks[b].code /\ asks'[b].project = asks[b].project
              /\ asks'[b].place = asks[b].place
              /\ asks'[b].stage = IF b = a THEN stage ELSE asks[b].stage
<1>1. asks \in [Asks -> AskRecords]
  BY DEF WInv, TypeOK, AskRecords
<1>2. [asks[a] EXCEPT !.stage = stage] \in AskRecords
  BY <1>1 DEF AskRecords
<1>3. asks' \in [Asks -> AskRecords]
  BY <1>1, <1>2
<1>4. ASSUME NEW b \in Asks
      PROVE  asks'[b] = IF b = a THEN [asks[b] EXCEPT !.stage = stage] ELSE asks[b]
  BY <1>1
<1>5. QED
  BY <1>1, <1>3, <1>4 DEF AskRecords

LEMMA CategoryOkStep == ASSUME WizardConstants, WInv, CategoryOk PROVE WInv'
<1>1. /\ waiting \in Asks /\ asks[waiting].kind = "category" /\ asks[waiting].stage = "served"
      /\ go + 1 \in Goes /\ go' = go + 1 /\ go \in Goes
      /\ asks' = [asks EXCEPT ![waiting].stage = "over"]
      /\ UNCHANGED tables
  BY DEF CategoryOk, Answered, WInv, TypeOK
<1>2. /\ page' = "subdivision"
      /\ subdivision' = Nothing /\ categoryCode' = Nothing /\ projectCode' = Nothing
      /\ place' = Nowhere /\ created' = Nothing /\ submitted' = Nothing /\ waiting' = Nothing
  BY DEF CategoryOk
<1>3. Nowhere \in Places /\ Nested(Nowhere)
  BY DEF Nowhere, Places, Nested
<1>4. TypeOK'
  BY <1>1, <1>2, <1>3, StageMoved DEF WInv, TypeOK, AskRecords, tables
<1>5. Steps'
  BY <1>2, <1>3 DEF Steps
<1>6. go \in Nat /\ \A g \in 1..go : g \in 1..(go + 1)
  BY <1>1 DEF Goes, WizardConstants
<1>7. Asking'
  <2> SUFFICES ASSUME NEW b \in Asks, Used(b)' PROVE Claim(b)'
    BY DEF Asking
  <2>1. /\ asks'[b].kind = asks[b].kind /\ asks'[b].go = asks[b].go
        /\ asks'[b].code = asks[b].code /\ asks'[b].project = asks[b].project
        /\ asks'[b].place = asks[b].place
        /\ asks'[b].stage = "served" => asks[b].stage = "served"
        /\ Used(b)
    BY <1>1, StageMoved DEF Used
  <2>2. Claim(b)
    BY <2>1 DEF WInv, Asking
  <2>3. QED
    BY <2>1, <2>2, <1>1, <1>6 DEF Claim, Nested, tables
<1>8. created # Nothing /\ asks[waiting].go = go
  BY <1>1 DEF WInv, Steps, WizardConstants
<1>9. Tables'
  <2>1. \E c \in categories : c.go = go
    BY <1>1, <1>8 DEF WInv, Asking, Claim, Used
  <2>2. \A g \in 1..(go + 1) : g < go + 1 => g = go \/ (g \in 1..go /\ g < go)
    BY <1>6
  <2>3. QED
    BY <2>1, <2>2, <1>1, <1>2, <1>6 DEF WInv, Tables, tables
<1>10. OneEach'
  <2>1. \A p : Lone(p)' <=> Lone(p)
    <3>1. ASSUME NEW p, NEW b \in Asks PROVE Orphan(b, p)' <=> Orphan(b, p)
      BY <1>1, <1>2, StageMoved DEF Orphan, WizardConstants
    <3>2. QED
      BY <3>1 DEF Lone
  <2>2. \A p \in projects : p.go \in Nat /\ p.go < go + 1 /\ (p.go < go \/ p.go = go)
    BY <1>6 DEF WInv, Tables
  <2>3. ASSUME NEW p \in projects, p.go = go, Lone(p) PROVE p.code = created
    BY <2>3, <1>1 DEF WInv, OneEach
  <2>4. ASSUME NEW p \in projects, NEW q \in projects, p.go = q.go, Lone(p), Lone(q)
        PROVE  p = q
    <3>1. CASE p.go < go
      BY <3>1, <2>4 DEF WInv, OneEach
    <3>2. CASE p.go = go
      BY <3>2, <2>3, <2>4 DEF WInv, Tables
    <3>3. QED
      BY <3>1, <3>2, <2>2
  <2>5. \A p \in projects : p.go # go + 1
    BY <2>2, <1>6
  <2>6. QED
    BY <2>1, <2>4, <2>5, <1>1 DEF OneEach, tables
<1>11. QED
  BY <1>4, <1>5, <1>7, <1>9, <1>10 DEF WInv

\* No answer, or a refusal: a project that was made stays behind as an orphan.
LEMMA StopStep == ASSUME WizardConstants, WInv, Refused \/ Lost PROVE WInv'
<1>1. /\ waiting \in Asks /\ submitted' = Nothing /\ waiting' = Nothing
      /\ UNCHANGED <<page, forms, created, go, tables>>
  BY DEF Refused, Lost, WInv, TypeOK
<1>2. \/ asks[waiting].stage = "refused" /\ asks' = [asks EXCEPT ![waiting].stage = "over"]
      \/ asks' = asks
  BY DEF Refused, Lost
<1>3. /\ asks' \in [Asks -> AskRecords]
      /\ \A b \in Asks :
           /\ asks'[b].kind = asks[b].kind /\ asks'[b].go = asks[b].go
           /\ asks'[b].code = asks[b].code /\ asks'[b].project = asks[b].project
           /\ asks'[b].place = asks[b].place
           /\ asks'[b].stage = "served" <=> asks[b].stage = "served"
           /\ Used(b)' => Used(b)
  <2>1. CASE asks[waiting].stage = "refused" /\ asks' = [asks EXCEPT ![waiting].stage = "over"]
    <3>1. asks' \in [Asks -> AskRecords] /\ \A b \in Asks :
            /\ asks'[b].kind = asks[b].kind /\ asks'[b].go = asks[b].go
            /\ asks'[b].code = asks[b].code /\ asks'[b].project = asks[b].project
            /\ asks'[b].place = asks[b].place
            /\ asks'[b].stage = IF b = waiting THEN "over" ELSE asks[b].stage
      BY <2>1, <1>1, StageMoved
    <3>2. QED
      BY <3>1, <2>1 DEF Used
  <2>2. CASE asks' = asks
    BY <2>2 DEF WInv, TypeOK, AskRecords, Used
  <2>3. QED
    BY <2>1, <2>2, <1>2
<1>4. TypeOK'
  BY <1>1, <1>3 DEF WInv, TypeOK, AskRecords, forms, tables
<1>5. Steps'
  BY <1>1 DEF WInv, Steps, forms
<1>6. Asking'
  <2> SUFFICES ASSUME NEW b \in Asks, Used(b)' PROVE Claim(b)'
    BY DEF Asking
  <2>1. Claim(b)
    BY <1>3 DEF WInv, Asking
  <2>2. QED
    BY <2>1, <1>1, <1>3 DEF Claim, Nested, tables
<1>7. Tables'
  BY <1>1 DEF WInv, Tables, tables
<1>8. OneEach'
  <2>1. \A p : Lone(p)' => Lone(p)
    BY <1>1, <1>3 DEF Lone, Orphan, WizardConstants
  <2>2. ASSUME NEW p \in projects, p.go = go, Lone(p)' PROVE p.code = created
    <3>1. SUFFICES ASSUME asks[waiting].kind = "project", asks[waiting].stage = "served",
                          p.code = asks[waiting].code
                   PROVE  FALSE
      BY <2>1, <2>2 DEF WInv, OneEach
    <3>2. PICK w \in Asks : w = waiting /\ asks[w].go = go
      BY <1>1 DEF WInv, Steps, WizardConstants
    <3>3. Orphan(w, p)'
      BY <3>1, <3>2, <2>2, <1>1, <1>3 DEF Orphan, WizardConstants
    <3>4. QED
      BY <3>3, <2>2, <1>1 DEF Lone
  <2>3. QED
    BY <2>1, <2>2, <1>1 DEF WInv, OneEach, tables
<1>9. QED
  BY <1>4, <1>5, <1>6, <1>7, <1>8 DEF WInv

\* The server refuses a request, which then has left no row.
LEMMA RefuseStep ==
  ASSUME WizardConstants, WInv, NEW a \in Asks, Refuse(a)
  PROVE  WInv'
<1>1. /\ asks[a].stage = "sent" /\ asks' = [asks EXCEPT ![a].stage = "refused"]
      /\ UNCHANGED <<page, forms, created, submitted, waiting, go, tables>>
  BY DEF Refuse
<1>2. /\ asks' \in [Asks -> AskRecords]
      /\ \A b \in Asks :
           /\ asks'[b].kind = asks[b].kind /\ asks'[b].go = asks[b].go
           /\ asks'[b].code = asks[b].code /\ asks'[b].project = asks[b].project
           /\ asks'[b].place = asks[b].place
           /\ asks'[b].stage = IF b = a THEN "refused" ELSE asks[b].stage
  BY <1>1, StageMoved
<1>3. TypeOK'
  BY <1>1, <1>2 DEF WInv, TypeOK, AskRecords, forms, tables
<1>4. Steps'
  BY <1>1, <1>2 DEF WInv, TypeOK, Steps, forms
<1>5. Asking'
  <2> SUFFICES ASSUME NEW b \in Asks, Used(b)' PROVE Claim(b)'
    BY DEF Asking
  <2>1. Claim(b)
    BY <1>1, <1>2 DEF WInv, Asking, Used
  <2>2. QED
    BY <2>1, <1>1, <1>2 DEF Claim, Nested, tables
<1>6. Tables'
  BY <1>1 DEF WInv, Tables, tables
<1>7. OneEach'
  <2>1. \A p : Lone(p)' <=> Lone(p)
    <3>1. ASSUME NEW p, NEW b \in Asks PROVE Orphan(b, p)' <=> Orphan(b, p)
      BY <1>1, <1>2 DEF Orphan
    <3>2. QED
      BY <3>1 DEF Lone
  <2>2. waiting # Nothing =>
          /\ asks'[waiting].kind = asks[waiting].kind /\ asks'[waiting].code = asks[waiting].code
          /\ asks[waiting].stage = "served" => asks'[waiting].stage = "served"
    BY <1>1, <1>2 DEF WInv, TypeOK
  <2>3. QED
    BY <2>1, <2>2, <1>1 DEF WInv, OneEach, tables
<1>8. QED
  BY <1>3, <1>4, <1>5, <1>6, <1>7 DEF WInv

\* The server makes a category: its project is one of its go.
LEMMA ServeCategoryStep ==
  ASSUME WizardConstants, WInv, NEW a \in Asks, ServeCategory(a)
  PROVE  WInv'
<1> DEFINE row == [code |-> asks[a].code, go |-> asks[a].go, project |-> asks[a].project,
                   place |-> asks[a].place]
<1>1. /\ asks[a].stage = "sent" /\ asks[a].kind = "category"
      /\ asks' = [asks EXCEPT ![a].stage = "served"] /\ categories' = categories \cup {row}
      /\ UNCHANGED <<page, forms, created, submitted, waiting, go, projects>>
  BY DEF ServeCategory
<1>2. /\ asks' \in [Asks -> AskRecords]
      /\ \A b \in Asks :
           /\ asks'[b].kind = asks[b].kind /\ asks'[b].go = asks[b].go
           /\ asks'[b].code = asks[b].code /\ asks'[b].project = asks[b].project
           /\ asks'[b].place = asks[b].place
           /\ asks'[b].stage = IF b = a THEN "served" ELSE asks[b].stage
  BY <1>1, StageMoved
<1>3. Claim(a)
  BY <1>1 DEF WInv, Asking, Used
<1>4. asks[a].go \in Goes /\ asks[a].project \in Codes /\ asks[a].place \in Places
  <2>1. asks[a] \in AskRecords /\ go \in Goes /\ projects \subseteq [code : Codes, go : Goes]
    BY DEF WInv, TypeOK, AskRecords
  <2>2. [code |-> asks[a].project, go |-> asks[a].go] \in [code : Codes, go : Goes]
    BY <2>1, <1>1, <1>3 DEF Claim
  <2>3. QED
    BY <2>1, <2>2 DEF AskRecords
<1>5. row \in [code : Codes, go : Goes, project : Codes, place : Places]
  BY <1>3, <1>4 DEF Claim
<1>6. row.go = asks[a].go /\ row.project = asks[a].project /\ row.place = asks[a].place
  OBVIOUS
<1> HIDE DEF row
<1>7. TypeOK'
  BY <1>1, <1>2, <1>5 DEF WInv, TypeOK, AskRecords, forms
<1>8. Steps'
  BY <1>1, <1>2 DEF WInv, TypeOK, Steps, forms
<1>9. Asking'
  <2> SUFFICES ASSUME NEW b \in Asks, Used(b)' PROVE Claim(b)'
    BY DEF Asking
  <2>1. Claim(b)
    BY <1>1, <1>2 DEF WInv, Asking, Used
  <2>2. asks'[b].stage = "served" /\ asks'[b].kind # "project" =>
          \E c \in categories' : c.go = asks'[b].go
    BY <2>1, <1>1, <1>2, <1>6 DEF Claim
  <2>3. asks'[b].stage = "served" /\ asks'[b].kind = "project" => asks[b].stage = "served"
    BY <1>1, <1>2
  <2>4. QED
    BY <2>1, <2>2, <2>3, <1>1, <1>2 DEF Claim, Nested
<1>10. Tables'
  <2>1. [code |-> row.project, go |-> row.go] \in projects /\ Nested(row.place)
    BY <1>1, <1>3, <1>6 DEF Claim, Nested
  <2>2. QED
    BY <2>1, <1>1 DEF WInv, Tables
<1>11. OneEach'
  <2>1. \A p : Lone(p)' <=> Lone(p)
    <3>1. ASSUME NEW p, NEW b \in Asks PROVE Orphan(b, p)' <=> Orphan(b, p)
      BY <1>1, <1>2 DEF Orphan
    <3>2. QED
      BY <3>1 DEF Lone
  <2>2. waiting # Nothing =>
          /\ asks'[waiting].kind = asks[waiting].kind /\ asks'[waiting].code = asks[waiting].code
          /\ asks[waiting].stage = "served" => asks'[waiting].stage = "served"
    BY <1>1, <1>2 DEF WInv, TypeOK
  <2>3. QED
    BY <2>1, <2>2, <1>1 DEF WInv, OneEach
<1>12. QED
  BY <1>7, <1>8, <1>9, <1>10, <1>11 DEF WInv

\* The server makes a project: the one the page waits for, or an orphan.
LEMMA ServeProjectStep ==
  ASSUME WizardConstants, WInv, NEW a \in Asks, ServeProject(a)
  PROVE  WInv'
<1>0. PICK row : row = [code |-> asks[a].code, go |-> asks[a].go]
  OBVIOUS
<1>1. /\ asks[a].stage = "sent" /\ asks[a].kind = "project" /\ ~Taken(projects, asks[a].code)
      /\ asks' = [asks EXCEPT ![a].stage = "served"] /\ projects' = projects \cup {row}
      /\ UNCHANGED <<page, forms, created, submitted, waiting, go, categories>>
  BY <1>0 DEF ServeProject
<1>2. /\ asks' \in [Asks -> AskRecords]
      /\ \A b \in Asks :
           /\ asks'[b].kind = asks[b].kind /\ asks'[b].go = asks[b].go
           /\ asks'[b].code = asks[b].code /\ asks'[b].project = asks[b].project
           /\ asks'[b].place = asks[b].place
           /\ asks'[b].stage = IF b = a THEN "served" ELSE asks[b].stage
  BY <1>1, StageMoved
<1>3. Claim(a)
  BY <1>1 DEF WInv, Asking, Used
<1>4. row \in [code : Codes, go : Goes] /\ row.go \in 1..go
  <2>1. go \in 1..MaxGoes /\ MaxGoes \in Nat
    BY DEF WInv, TypeOK, Goes, WizardConstants
  <2>2. QED
    BY <2>1, <1>0, <1>3 DEF Claim, Goes
<1>5. row.go = asks[a].go /\ row.code = asks[a].code
  BY <1>0
<1>6. \A p \in projects : p.code # row.code
  BY <1>1, <1>5 DEF Taken
<1>7. TypeOK'
  BY <1>1, <1>2, <1>4 DEF WInv, TypeOK, AskRecords, forms
<1>8. Steps'
  BY <1>1, <1>2 DEF WInv, TypeOK, Steps, forms
<1>9. Asking'
  <2> SUFFICES ASSUME NEW b \in Asks, Used(b)' PROVE Claim(b)'
    BY DEF Asking
  <2>1. Claim(b)
    BY <1>1, <1>2 DEF WInv, Asking, Used
  <2>2. CASE b = a
    <3>1. [code |-> asks'[b].code, go |-> asks'[b].go] \in projects'
      BY <2>2, <1>0, <1>1, <1>2
    <3>2. QED
      BY <3>1, <2>1, <2>2, <1>1, <1>2 DEF Claim, Nested
  <2>3. CASE b # a
    BY <2>1, <2>3, <1>1, <1>2 DEF Claim, Nested
  <2>4. QED
    BY <2>2, <2>3
<1>10. Tables'
  BY <1>1, <1>4, <1>6 DEF WInv, Tables
<1>11. OneEach'
  <2>1. ASSUME NEW p, Lone(p)' PROVE Lone(p)
    BY <2>1, <1>1, <1>2 DEF Lone, Orphan
  <2>2. waiting # Nothing =>
          /\ asks'[waiting].kind = asks[waiting].kind /\ asks'[waiting].code = asks[waiting].code
          /\ asks[waiting].stage = "served" => asks'[waiting].stage = "served"
    BY <1>1, <1>2 DEF WInv, TypeOK
  <2>3. Lone(row)' => a = waiting
    <3>1. a # waiting => Orphan(a, row)'
      BY <1>1, <1>2, <1>5 DEF Orphan
    <3>2. QED
      BY <3>1 DEF Lone
  <2>4. a = waiting =>
          /\ waiting # Nothing /\ row.go = go /\ row.code = asks'[waiting].code
          /\ asks'[waiting].kind = "project" /\ asks'[waiting].stage = "served"
    BY <1>1, <1>2, <1>5 DEF WInv, Steps, WizardConstants
  <2>5. ASSUME NEW p \in projects', p.go = go, Lone(p)'
        PROVE  \/ p.code = created
               \/ /\ waiting # Nothing
                  /\ asks'[waiting].kind = "project" /\ asks'[waiting].stage = "served"
                  /\ p.code = asks'[waiting].code
    <3>1. CASE p = row
      BY <3>1, <2>3, <2>4, <2>5
    <3>2. CASE p \in projects
      BY <3>2, <2>1, <2>2, <2>5 DEF WInv, OneEach
    <3>3. QED
      BY <3>1, <3>2, <1>1
  <2>6. ASSUME NEW p \in projects', NEW q \in projects', p.go = q.go, p.go < go,
               Lone(p)', Lone(q)'
        PROVE  p = q
    <3>1. go \in Nat
      BY DEF WInv, TypeOK, Goes, WizardConstants
    <3>2. p # row /\ q # row
      BY <3>1, <2>3, <2>4, <2>6
    <3>3. QED
      BY <3>2, <2>1, <2>6, <1>1 DEF WInv, OneEach
  <2>7. QED
    BY <2>5, <2>6, <1>1 DEF OneEach
<1>12. QED
  BY <1>7, <1>8, <1>9, <1>10, <1>11 DEF WInv

LEMMA InvStep == ASSUME WizardConstants, WInv, [Next]_vars PROVE WInv'
<1>1. CASE Next
  <2>1. CASE Submit \/ ProjectOk \/ CategoryOk \/ Refused \/ Lost
    BY <2>1, SubmitStep, ProjectOkStep, CategoryOkStep, StopStep
  <2>2. CASE \E a \in Asks : ServeProject(a) \/ ServeCategory(a) \/ Refuse(a)
    BY <2>2, ServeProjectStep, ServeCategoryStep, RefuseStep
  <2>3. CASE \/ \E s \in Subdivisions : ChooseSubdivision(s)
             \/ SubdivisionNext \/ CategoryNext \/ BackToSubdivision \/ BackToCategory
             \/ \E c \in Codes : TypeCategory(c) \/ TypeProject(c)
             \/ \E p \in Phases : ChoosePhase(p)
             \/ ChooseBlock \/ ChooseLot
    <3>1. UNCHANGED <<created, submitted, waiting, go, asks, tables>>
      BY <2>3 DEF ChooseSubdivision, SubdivisionNext, CategoryNext, BackToSubdivision,
         BackToCategory, TypeCategory, TypeProject, ChoosePhase, ChooseBlock, ChooseLot, Choose
    <3>2. QED
      BY <2>3, <3>1, PageStep
  <2>4. QED
    BY <1>1, <2>1, <2>2, <2>3 DEF Next
<1>2. CASE UNCHANGED vars
  BY <1>2 DEF vars, forms, tables, WInv, TypeOK, Steps, Asking, Claim, Used, Nested, Tables,
     OneEach, Lone, Orphan
<1>3. QED
  BY <1>1, <1>2

\* The projects of a go: one that no request left behind, and one for each request that did,
\* as no two projects share a code.
LEMMA ProjectsCounted ==
  ASSUME WizardConstants, WInv, NEW g \in 1..go
  PROVE  Cardinality({p \in projects : p.go = g}) <= 1 + Cardinality(LostProjects(g))
<1> DEFINE made == {p \in projects : p.go = g}
           lone == {p \in made : Lone(p)}
           left == {p \in made : ~Lone(p)}
           of == [p \in left |-> CHOOSE a \in Asks : Orphan(a, p)]
<1>1. IsFiniteSet(LostProjects(g)) /\ Cardinality(LostProjects(g)) \in Nat
  <2>1. IsFiniteSet(Asks)
    BY FS_Interval DEF Asks, WizardConstants
  <2>2. LostProjects(g) \in SUBSET Asks
    BY DEF LostProjects
  <2>3. IsFiniteSet(LostProjects(g))
    BY <2>1, <2>2, FS_Subset, SMTT(30)
  <2>4. QED
    BY <2>3, FS_CardinalityType
<1>2. ASSUME NEW p \in left PROVE of[p] \in LostProjects(g) /\ Orphan(of[p], p)
  <2>1. Orphan(of[p], p) /\ of[p] \in Asks
    BY DEF Lone
  <2>2. p.go = g
    OBVIOUS
  <2>3. QED
    BY <2>1, <2>2 DEF Orphan, LostProjects
<1>3. of \in [left -> LostProjects(g)]
  BY <1>2
<1>4. ASSUME NEW p \in left, NEW q \in left, of[p] = of[q] PROVE p = q
  <2>1. p \in projects /\ q \in projects /\ Orphan(of[p], p) /\ Orphan(of[p], q)
    BY <1>2, <1>4
  <2>2. p.code = q.code
    BY ONLY <2>1 DEF Orphan
  <2>3. QED
    BY ONLY <2>1, <2>2, WInv DEF WInv, Tables
<1>5. IsFiniteSet(left) /\ Cardinality(left) <= Cardinality(LostProjects(g))
  <2>1. of \in Injection(left, LostProjects(g))
    BY <1>3, <1>4 DEF Injection, IsInjective
  <2>2. QED
    BY <1>1, <2>1, FS_Injection
<1>6. ASSUME NEW p \in lone, NEW q \in lone PROVE p = q
  <2>1. p \in projects /\ q \in projects /\ p.go = g /\ q.go = g /\ Lone(p) /\ Lone(q)
    OBVIOUS
  <2>2. g < go \/ g = go
    BY DEF WInv, TypeOK, Goes, WizardConstants
  <2>3. CASE g < go
    BY <2>1, <2>3 DEF WInv, OneEach
  <2>4. CASE g = go
    <3>1. p.code \in Codes /\ q.code \in Codes
      BY <2>1 DEF WInv, TypeOK
    <3>2. p.code = q.code
      BY <2>1, <2>4, <3>1 DEF WInv, OneEach, Steps, WizardConstants
    <3>3. QED
      BY <2>1, <3>2 DEF WInv, Tables
  <2>5. QED
    BY <2>2, <2>3, <2>4
<1>7. made = left \/ \E p \in lone : made = left \cup {p}
  <2>1. made = left \cup lone
    OBVIOUS
  <2>2. CASE lone = {}
    BY <2>1, <2>2
  <2>3. CASE lone # {}
    <3>1. PICK p \in lone : TRUE
      BY <2>3
    <3>2. lone = {p}
      BY <1>6
    <3>3. QED
      BY <2>1, <3>2
  <2>4. QED
    BY <2>2, <2>3
<1> HIDE DEF made, lone, left, of
<1>8. Cardinality(left) \in Nat
  BY <1>5, FS_CardinalityType
<1>9. Cardinality(made) <= 1 + Cardinality(left)
  <2>1. CASE made = left
    BY <2>1, <1>8
  <2>2. CASE \E p \in lone : made = left \cup {p}
    <3>1. PICK p \in lone : made = left \cup {p}
      BY <2>2
    <3>2. Cardinality(left \cup {p}) =
            IF p \in left THEN Cardinality(left) ELSE Cardinality(left) + 1
      BY <1>5, FS_AddElement
    <3>3. QED
      BY <3>1, <3>2, <1>8
  <2>3. QED
    BY <1>7, <2>1, <2>2
<1>10. Cardinality(made) \in Nat
  <2>1. IsFiniteSet(made)
    BY <1>5, <1>7, FS_AddElement
  <2>2. QED
    BY <2>1, FS_CardinalityType
<1>11. Cardinality(made) <= 1 + Cardinality(LostProjects(g))
  BY <1>1, <1>5, <1>8, <1>9, <1>10
<1>12. QED
  BY <1>11 DEF made

LEMMA Belong == ASSUME WizardConstants, WInv PROVE WizardSound
<1> SUFFICES ASSUME NEW g \in 1..go
             PROVE  LET made == {p \in projects : p.go = g}
                        hung == {c \in categories : c.go = g}
                    IN  /\ Cardinality(made) <= 1 + Cardinality(LostProjects(g))
                        /\ \A c \in hung :
                             /\ \E p \in made : p.code = c.project
                             /\ c.place.block \in {Nothing, c.place.phase}
                             /\ c.place.lot \in {Nothing, c.place.block}
                        /\ g < go => hung # {}
  BY DEF WizardSound
<1>1. ASSUME NEW c \in categories, c.go = g
      PROVE  /\ \E p \in {p \in projects : p.go = g} : p.code = c.project
             /\ Nested(c.place)
  BY <1>1 DEF WInv, Tables
<1>2. g < go => {c \in categories : c.go = g} # {}
  BY DEF WInv, Tables
<1>3. QED
  BY <1>1, <1>2, ProjectsCounted DEF Nested

--------------------------------------------------------------------------------
\* The type invariant of the wizard and the two routes it calls, for any bounds.
THEOREM TypeCorrect == ASSUME WizardConstants PROVE Spec => []TypeOK
<1>1. WInv => TypeOK
  BY DEF WInv
<1>2. QED
  BY <1>1, InvInit, InvStep, PTL DEF Spec

\* In one go the wizard makes one project, and another only for one whose answer was lost;
\* its categories hang from a project of that go, their lot in their block in their phase;
\* and a go that ended in success has left both.
THEOREM WizardSoundHolds == ASSUME WizardConstants PROVE Spec => []WizardSound
BY InvInit, InvStep, Belong, PTL DEF Spec

================================================================================
