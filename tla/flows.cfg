SPECIFICATION FlowSpec
CONSTANTS
  Inputs = {a, b}
  Overtimes = {x}
  AsComputed = computed
  Nothing = nothing
  MaxIds = 3
  MaxPosts = 2
  MaxOthers = 1
  Tempers = {TRUE, FALSE}
  Subdivisions = {s, t}
  Codes = {k, l}
  PhasesEach = 1
  MaxGoes = 2
  MaxAsks = 4
SYMMETRY Symmetry
INVARIANTS
  FlowsTypeOK
  ResultTruthful
  PatientRetrySafe
  WizardSound
PROPERTIES
  GeneratedAsReviewed
\* A session stops: a request is never answered, or the bounds are reached.
CHECK_DEADLOCK FALSE
