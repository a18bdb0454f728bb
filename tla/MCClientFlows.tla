------------------------------ MODULE MCClientFlows ------------------------------
(* The two pages of several requests each, checked side by side: a behaviour is a session
   of one of them.  They share no state. *)
EXTENDS PayrollSession, TLC

CONSTANTS Subdivisions, Codes, PhasesEach, MaxGoes, MaxAsks

VARIABLES page, subdivision, categoryCode, projectCode, place, created, submitted, waiting,
          go, asks, projects, categories,
          flow  \* the page in use

wizardVars == <<page, subdivision, categoryCode, projectCode, place, created, submitted, waiting,
                go, asks, projects, categories>>

Wizard == INSTANCE PropertyWizard

\* What the proofs about the wizard assume of its constants.
ASSUME FlowsAssumption == Wizard!WizardConstants

FlowInit ==
  /\ flow \in {"payroll", "wizard"}
  /\ Init /\ Wizard!Init
  /\ flow = "wizard" => ~hasty

\* Subdivisions, codes and inputs are told apart only by being different.
Symmetry == Permutations(Subdivisions) \cup Permutations(Codes) \cup Permutations(Inputs)

PayrollMoves == flow = "payroll" /\ Next /\ UNCHANGED <<wizardVars, flow>>
WizardMoves == flow = "wizard" /\ Wizard!Next /\ UNCHANGED <<vars, flow>>

FlowNext == PayrollMoves \/ WizardMoves

FlowSpec == FlowInit /\ [][FlowNext]_<<vars, wizardVars, flow>>

\* The variables of the payroll page and of the wizard keep their types, and what the
\* payroll page shows as the state of a run is one of the states of a run.
FlowsTypeOK == TypeOK /\ Wizard!TypeOK

\* The wizard's projects and categories belong together (subdivision-wizard.tsx): see
\* PropertyWizard.
WizardSound == Wizard!WizardSound

================================================================================
