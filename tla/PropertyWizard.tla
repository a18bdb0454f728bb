------------------------------ MODULE PropertyWizard ------------------------------
(* The subdivision wizard: choose a subdivision, enter a category, enter its project, and
   save both with one button.  The page makes the project first and then its category, and
   remembers a project that is made so that only the category is repeated.

   A phase is a pair of its subdivision and a number; a phase has one block and a block one
   lot, so both are named by their phase.  A code identifies the project or the category
   that has it: the columns are unique.  A go is what lies between two resets of the page. *)
EXTENDS Naturals, FiniteSets

CONSTANTS
  Subdivisions,
  Codes,       \* what can be typed as a code
  Nothing,     \* an empty field
  PhasesEach,  \* phases of a subdivision
  MaxGoes,     \* goes
  MaxAsks      \* requests sent

VARIABLES
  page,          \* the step shown
  subdivision,   \* subdivisionId
  categoryCode,  \* the category form
  projectCode,   \* the project form, but for its place
  place,         \* phase, block and lot of the project form
  created,       \* createdProject
  submitted,     \* isSubmitting, with the place the submission has read from the form
  waiting,       \* the request the submission waits for
  go,
  asks,          \* the requests sent
  projects,      \* the server's tables
  categories

forms == <<subdivision, categoryCode, projectCode, place>>
tables == <<projects, categories>>
vars == <<page, forms, created, submitted, waiting, go, asks, tables>>

Goes == 1..MaxGoes
Asks == 1..MaxAsks
Phases == Subdivisions \X (1..PhasesEach)

Nowhere == [phase |-> Nothing, block |-> Nothing, lot |-> Nothing]
Unasked == [stage |-> "unsent", kind |-> Nothing, go |-> Nothing, code |-> Nothing,
            project |-> Nothing, place |-> Nowhere]

Places ==
  LET somewhere == Phases \cup {Nothing}
  IN  [phase : somewhere, block : somewhere, lot : somewhere]

\* The empty field is none of the values it stands in for.
WizardConstants ==
  /\ MaxAsks \in Nat /\ MaxGoes \in Nat \ {0} /\ PhasesEach \in Nat
  /\ Nothing \notin Codes /\ Nothing \notin Asks /\ Nothing \notin Places
  /\ Nothing \notin Subdivisions

Init ==
  /\ page = "subdivision"
  /\ subdivision = Nothing /\ categoryCode = Nothing /\ projectCode = Nothing
  /\ place = Nowhere
  /\ created = Nothing /\ submitted = Nothing /\ waiting = Nothing
  /\ go = 1
  /\ asks = [a \in Asks |-> Unasked]
  /\ projects = {} /\ categories = {}

--------------------------------------------------------------------------------
(* The steps and their fields.  A field of the last step stays enabled while the page
   submits; the buttons do not. *)

ChooseSubdivision(s) ==
  /\ page = "subdivision" /\ s # subdivision
  /\ subdivision' = s
  /\ UNCHANGED <<page, categoryCode, projectCode, place, created, submitted, waiting, go,
                 asks, tables>>

SubdivisionNext ==
  /\ page = "subdivision" /\ subdivision # Nothing
  /\ page' = "category"
  /\ UNCHANGED <<forms, created, submitted, waiting, go, asks, tables>>

TypeCategory(c) ==
  /\ page = "category" /\ c # categoryCode
  /\ categoryCode' = c
  /\ UNCHANGED <<page, subdivision, projectCode, place, created, submitted, waiting, go,
                 asks, tables>>

CategoryNext ==
  /\ page = "category" /\ categoryCode # Nothing
  /\ page' = "project"
  /\ UNCHANGED <<forms, created, submitted, waiting, go, asks, tables>>

BackToSubdivision ==
  /\ page = "category" /\ created = Nothing
  /\ page' = "subdivision"
  /\ UNCHANGED <<forms, created, submitted, waiting, go, asks, tables>>

BackToCategory ==
  /\ page = "project" /\ submitted = Nothing
  /\ page' = "category"
  /\ UNCHANGED <<forms, created, submitted, waiting, go, asks, tables>>

TypeProject(c) ==
  /\ page = "project" /\ created = Nothing /\ c # projectCode
  /\ projectCode' = c
  /\ UNCHANGED <<page, subdivision, categoryCode, place, created, submitted, waiting, go,
                 asks, tables>>

\* A choice clears the finer ones; the phases offered are those of the subdivision.
Choose(where) ==
  /\ page = "project" /\ where # place
  /\ place' = where
  /\ UNCHANGED <<page, subdivision, categoryCode, projectCode, created, submitted, waiting,
                 go, asks, tables>>

ChoosePhase(p) ==
  /\ p[1] = subdivision /\ p # place.phase
  /\ Choose([phase |-> p, block |-> Nothing, lot |-> Nothing])

ChooseBlock ==
  /\ place.phase # Nothing /\ place.block # place.phase
  /\ Choose([place EXCEPT !.block = place.phase, !.lot = Nothing])

ChooseLot ==
  /\ place.block # Nothing
  /\ Choose([place EXCEPT !.lot = place.block])

--------------------------------------------------------------------------------
(* The submission. *)

Unused(a) == asks[a].stage = "unsent" /\ \A b \in 1..(a - 1) : asks[b].stage # "unsent"

ProjectAsk ==
  [stage |-> "sent", kind |-> "project", go |-> go, code |-> projectCode,
   project |-> Nothing, place |-> Nowhere]

CategoryAsk(project, where) ==
  [stage |-> "sent", kind |-> "category", go |-> go, code |-> categoryCode,
   project |-> project, place |-> where]

\* Create Project & Category, or Retry Category: the same handler.
Submit ==
  /\ page = "project" /\ submitted = Nothing
  /\ projectCode # Nothing /\ place.phase # Nothing
  /\ \E a \in Asks :
       /\ Unused(a)
       /\ asks' = [asks EXCEPT ![a] =
            IF created = Nothing THEN ProjectAsk ELSE CategoryAsk(created, place)]
       /\ waiting' = a
  /\ submitted' = place
  /\ UNCHANGED <<page, forms, created, go, tables>>

Answered(kind, stage) ==
  waiting # Nothing /\ asks[waiting].kind = kind /\ asks[waiting].stage = stage

\* Slip: the project that is made is not remembered.
ProjectMadeForgotten(project) == created' = created

ProjectMade(project) == created' = project

\* The project is made: its category follows, in the place the submission has read.
ProjectOk ==
  /\ Answered("project", "served")
  /\ ProjectMade(asks[waiting].code)
  /\ \E a \in Asks :
       /\ Unused(a)
       /\ asks' = [asks EXCEPT ![waiting].stage = "over",
                               ![a] = CategoryAsk(asks[waiting].code, submitted)]
       /\ waiting' = a
  /\ UNCHANGED <<page, forms, submitted, go, tables>>

\* Both are made: the page starts anew, whatever has been typed meanwhile.
CategoryOk ==
  /\ Answered("category", "served") /\ go + 1 \in Goes
  /\ asks' = [asks EXCEPT ![waiting].stage = "over"]
  /\ page' = "subdivision"
  /\ subdivision' = Nothing /\ categoryCode' = Nothing /\ projectCode' = Nothing
  /\ place' = Nowhere
  /\ created' = Nothing /\ submitted' = Nothing /\ waiting' = Nothing
  /\ go' = go + 1
  /\ UNCHANGED tables

Refused ==
  /\ waiting # Nothing /\ asks[waiting].stage = "refused"
  /\ asks' = [asks EXCEPT ![waiting].stage = "over"]
  /\ submitted' = Nothing /\ waiting' = Nothing
  /\ UNCHANGED <<page, forms, created, go, tables>>

\* No answer: the request may have been served, or may be served later.
Lost ==
  /\ waiting # Nothing /\ asks[waiting].stage \in {"sent", "served"}
  /\ submitted' = Nothing /\ waiting' = Nothing
  /\ UNCHANGED <<page, forms, created, go, asks, tables>>

--------------------------------------------------------------------------------
(* The server. *)

Taken(table, code) == \E row \in table : row.code = code

ServeProject(a) ==
  /\ asks[a].stage = "sent" /\ asks[a].kind = "project"
  /\ ~Taken(projects, asks[a].code)
  /\ projects' = projects \cup {[code |-> asks[a].code, go |-> asks[a].go]}
  /\ asks' = [asks EXCEPT ![a].stage = "served"]
  /\ UNCHANGED <<page, forms, created, submitted, waiting, go, categories>>

ServeCategory(a) ==
  /\ asks[a].stage = "sent" /\ asks[a].kind = "category"
  /\ ~Taken(categories, asks[a].code)
  /\ categories' = categories \cup
       {[code |-> asks[a].code, go |-> asks[a].go, project |-> asks[a].project,
         place |-> asks[a].place]}
  /\ asks' = [asks EXCEPT ![a].stage = "served"]
  /\ UNCHANGED <<page, forms, created, submitted, waiting, go, projects>>

\* The code is taken, the lot has a category, or the user lacks a permission.
Refuse(a) ==
  /\ asks[a].stage = "sent"
  /\ asks' = [asks EXCEPT ![a].stage = "refused"]
  /\ UNCHANGED <<page, forms, created, submitted, waiting, go, tables>>

--------------------------------------------------------------------------------
Next ==
  \/ \E s \in Subdivisions : ChooseSubdivision(s)
  \/ SubdivisionNext \/ CategoryNext \/ BackToSubdivision \/ BackToCategory
  \/ \E c \in Codes : TypeCategory(c) \/ TypeProject(c)
  \/ \E p \in Phases : ChoosePhase(p)
  \/ ChooseBlock \/ ChooseLot
  \/ Submit \/ ProjectOk \/ CategoryOk \/ Refused \/ Lost
  \/ \E a \in Asks : ServeProject(a) \/ ServeCategory(a) \/ Refuse(a)

Spec == Init /\ [][Next]_vars

--------------------------------------------------------------------------------
(* Properties. *)

TypeOK ==
  /\ page \in {"subdivision", "category", "project"}
  /\ subdivision \in Subdivisions \cup {Nothing}
  /\ {categoryCode, projectCode, created} \subseteq Codes \cup {Nothing}
  /\ place \in Places /\ submitted \in Places \cup {Nothing}
  /\ waiting \in Asks \cup {Nothing} /\ (waiting = Nothing <=> submitted = Nothing)
  /\ go \in Goes
  /\ asks \in [Asks -> [stage : {"unsent", "sent", "served", "refused", "over"},
                        kind : {"project", "category", Nothing}, go : Goes \cup {Nothing},
                        code : Codes \cup {Nothing}, project : Codes \cup {Nothing},
                        place : Places]]
  /\ projects \subseteq [code : Codes, go : Goes]
  /\ categories \subseteq [code : Codes, go : Goes, project : Codes, place : Places]

LostProjects(g) ==
  {a \in Asks : asks[a].kind = "project" /\ asks[a].go = g /\ a # waiting
                /\ asks[a].stage \in {"sent", "served"}}

\* In one go the wizard makes one project, and another only for one whose answer was lost;
\* its categories hang from a project of that go, their lot in their block in their phase;
\* and a go that ended in success has left both.
WizardSound ==
  \A g \in 1..go :
    LET made == {p \in projects : p.go = g}
        hung == {c \in categories : c.go = g}
    IN  /\ Cardinality(made) <= 1 + Cardinality(LostProjects(g))
        /\ \A c \in hung :
             /\ \E p \in made : p.code = c.project
             /\ c.place.block \in {Nothing, c.place.phase}
             /\ c.place.lot \in {Nothing, c.place.block}
        /\ g < go => hung # {}

================================================================================
