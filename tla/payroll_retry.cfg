SPECIFICATION FlowSpec
CONSTANTS
  Inputs = {a, b}
  Overtimes = {x}
  AsComputed = computed
  Nothing = nothing
  MaxIds = 2
  MaxPosts = 1
  MaxOthers = 0
  Tempers = {TRUE}
  Subdivisions = {s}
  Codes = {k}
  PhasesEach = 1
  MaxGoes = 1
  MaxAsks = 1
INVARIANT
  RetrySafe
CHECK_DEADLOCK FALSE
