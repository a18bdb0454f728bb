SPECIFICATION FairSpec
CONSTANTS
    ann = ann
    ben = ben
    vacation = vacation
    r1 = r1
    r2 = r2
    r3 = r3
    r4 = r4
    w1 = w1
    w2 = w2
    w3 = w3
    NoOne = NoOne
    NoHours = NoHours
    Workers = {w1, w2, w3}
    Requests = {r1, r2, r3}
    Employees = {ann}
    Policies = {vacation}
    Years <- MCYears
    Handles <- OneDecider
    EmployeeOf <- MCEmployeeOf
    PolicyOf <- MCPolicyOf
    DateStart <- MCDateStart
    DateEnd <- MCDateEnd
    RequestedHours <- MCRequestedHours
    Workdays <- MCWorkdays
    YearOf <- MCYearOf
    Eligible <- MCEligible
    Entitlement = 200
    Deltas <- MCDeltas
    BalanceBound = 200
PROPERTIES
    ImplementsLifecycle
    ApprovalCovered
    HandlersEnd
CHECK_DEADLOCK FALSE
