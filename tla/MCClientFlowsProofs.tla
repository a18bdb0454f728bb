--------------------------- MODULE MCClientFlowsProofs ---------------------------
(* Proofs about the two pages side by side: a session of the client is a session of the
   payroll page and a session of the wizard, so what is proved of each page holds of it. *)
EXTENDS MCClientFlows, PayrollSessionProofs

W == INSTANCE PropertyWizardProofs

flowVars == <<vars, wizardVars, flow>>

--------------------------------------------------------------------------------
(* The wizard of the flows is the one the proofs are about. *)

LEMMA SameConstants == Wizard!WizardConstants <=> W!WizardConstants
BY DEF
   Wizard!WizardConstants, W!WizardConstants, Wizard!Asks, W!Asks, Wizard!Places, W!Places,
   Wizard!Phases, W!Phases

LEMMA SameCardinality == \A S : Wizard!Cardinality(S) = W!Cardinality(S)
BY Zenon DEF Wizard!Cardinality, W!Cardinality

LEMMA SameInit == Wizard!Init => W!Init
BY DEF
   Wizard!Init, W!Init, Wizard!Nowhere, W!Nowhere, Wizard!Unasked, W!Unasked, Wizard!Asks,
   W!Asks

LEMMA SameType == Wizard!TypeOK <=> W!TypeOK
BY DEF
   Wizard!TypeOK, W!TypeOK, Wizard!Goes, W!Goes, Wizard!Asks, W!Asks, Wizard!Phases,
   W!Phases, Wizard!Places, W!Places

LEMMA SameSound == Wizard!WizardSound <=> W!WizardSound
BY SameCardinality DEF
   Wizard!WizardSound, W!WizardSound, Wizard!LostProjects, W!LostProjects, Wizard!Asks,
   W!Asks

LEMMA SameFields ==
  ASSUME \/ \E s \in Subdivisions : Wizard!ChooseSubdivision(s)
         \/ Wizard!SubdivisionNext \/ Wizard!CategoryNext
         \/ Wizard!BackToSubdivision \/ Wizard!BackToCategory
         \/ \E c \in Codes : Wizard!TypeCategory(c) \/ Wizard!TypeProject(c)
         \/ \E p \in Wizard!Phases : Wizard!ChoosePhase(p)
         \/ Wizard!ChooseBlock \/ Wizard!ChooseLot
  PROVE  W!Next
BY Zenon DEF
   W!Next, Wizard!ChooseSubdivision, W!ChooseSubdivision, Wizard!SubdivisionNext,
   W!SubdivisionNext, Wizard!TypeCategory, W!TypeCategory, Wizard!CategoryNext,
   W!CategoryNext, Wizard!BackToSubdivision, W!BackToSubdivision, Wizard!BackToCategory,
   W!BackToCategory, Wizard!TypeProject, W!TypeProject, Wizard!Choose, W!Choose,
   Wizard!ChoosePhase, W!ChoosePhase, Wizard!ChooseBlock, W!ChooseBlock, Wizard!ChooseLot,
   W!ChooseLot, Wizard!forms, W!forms, Wizard!tables, W!tables, Wizard!Phases, W!Phases

LEMMA SameSubmission ==
  ASSUME Wizard!Submit \/ Wizard!ProjectOk \/ Wizard!CategoryOk \/ Wizard!Refused \/ Wizard!Lost
  PROVE  W!Next
BY Zenon DEF
   W!Next, Wizard!Submit, W!Submit, Wizard!ProjectOk, W!ProjectOk, Wizard!CategoryOk,
   W!CategoryOk, Wizard!Refused, W!Refused, Wizard!Lost, W!Lost, Wizard!Unused, W!Unused,
   Wizard!ProjectAsk, W!ProjectAsk, Wizard!CategoryAsk, W!CategoryAsk, Wizard!Answered,
   W!Answered, Wizard!ProjectMade, W!ProjectMade, Wizard!Asks, W!Asks, Wizard!Goes, W!Goes,
   Wizard!Nowhere, W!Nowhere, Wizard!forms, W!forms, Wizard!tables, W!tables

LEMMA SameServer ==
  ASSUME NEW a \in Wizard!Asks,
         Wizard!ServeProject(a) \/ Wizard!ServeCategory(a) \/ Wizard!Refuse(a)
  PROVE  W!Next
BY Zenon DEF
   W!Next, Wizard!ServeProject, W!ServeProject, Wizard!ServeCategory, W!ServeCategory,
   Wizard!Refuse, W!Refuse, Wizard!Taken, W!Taken, Wizard!Asks, W!Asks, Wizard!forms,
   W!forms, Wizard!tables, W!tables

LEMMA SameNext == Wizard!Next => W!Next
BY SameFields, SameSubmission, SameServer DEF Wizard!Next

--------------------------------------------------------------------------------
(* A session of the client. *)

LEMMA WizardFrame == UNCHANGED wizardVars => UNCHANGED Wizard!vars /\ UNCHANGED W!vars
BY DEF wizardVars, Wizard!vars, W!vars, Wizard!forms, W!forms, Wizard!tables, W!tables

LEMMA PayrollStep == [FlowNext]_flowVars => [Next]_vars
BY DEF FlowNext, PayrollMoves, WizardMoves, flowVars

LEMMA WizardFlowStep ==
  [FlowNext]_flowVars => [Wizard!Next]_(Wizard!vars) /\ [W!Next]_(W!vars)
BY WizardFrame, SameNext DEF FlowNext, PayrollMoves, WizardMoves, flowVars

\* The two pages do not disturb each other: what happens in the client is a behaviour of
\* the payroll page and a behaviour of the wizard (_authenticated/payroll, subdivisions).
THEOREM FlowsArePages == FlowSpec => Spec /\ Wizard!Spec
<1>1. FlowInit => Init /\ Wizard!Init
  BY DEF FlowInit
<1>2. QED
  BY <1>1, PayrollStep, WizardFlowStep, PTL DEF FlowSpec, Spec, Wizard!Spec, flowVars

LEMMA FlowIsW == FlowSpec => W!Spec
<1>1. FlowInit => W!Init
  BY SameInit DEF FlowInit
<1>2. QED
  BY <1>1, WizardFlowStep, PTL DEF FlowSpec, W!Spec, flowVars

LEMMA Constants == W!WizardConstants
BY FlowsAssumption, SameConstants

\* Both pages keep their types (subdivision-wizard.tsx, payroll page).
THEOREM FlowsTypeCorrect == FlowSpec => []FlowsTypeOK
<1>1. W!Spec => []W!TypeOK
  BY Constants, W!TypeCorrect
<1>2. TypeOK /\ W!TypeOK => FlowsTypeOK
  BY SameType DEF FlowsTypeOK
<1>3. QED
  BY <1>1, <1>2, FlowsArePages, FlowIsW, TypeCorrect, PTL

\* In the client as on its own page, the wizard makes one project in a go, and another only
\* for one whose answer was lost; its categories belong to a project of their go.
THEOREM FlowsWizardSound == FlowSpec => []WizardSound
<1>1. W!Spec => []W!WizardSound
  BY Constants, W!WizardSoundHolds
<1>2. W!WizardSound => WizardSound
  BY SameSound DEF WizardSound
<1>3. QED
  BY <1>1, <1>2, FlowIsW, PTL

\* What is proved of the payroll page holds in the client.
THEOREM FlowsPayrollSound ==
  FlowSpec => [](ResultTruthful /\ PatientRetrySafe) /\ GeneratedAsReviewed
BY FlowsArePages, ResultTruthfulHolds, PatientRetrySafeHolds, GeneratedAsReviewedHolds, PTL

================================================================================
