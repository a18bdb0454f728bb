--------------------------- MODULE MCLeaveRequests ---------------------------
(***************************************************************************)
(* Small instances of LeaveRequests for TLC.  Days 1..4 are the end of     *)
(* year 1 (4 is a Sunday), day 5 is the first of year 2.                   *)
(***************************************************************************)
EXTENDS LeaveRequests, TLC

CONSTANTS ann, ben, vacation, r1, r2, r3, r4, w1, w2, w3

MCYears == 1 .. 2
MCYearOf == [d \in 1 .. 5 |-> IF d <= 4 THEN 1 ELSE 2]
MCWorkdays == {1, 2, 3, 5}

\* r1 and r2 are ann's and share day 2; r3 is ann's half day on day 3; r4 is
\* ben's, over the same days as r1, and its dates are in the right order.
OnRequests(f) == [r \in Requests |-> f[r]]
MCEmployeeOf == [r \in Requests |-> IF r = r4 THEN ben ELSE ann]
MCPolicyOf == [r \in Requests |-> vacation]
MCDateStart == OnRequests(r1 :> 1 @@ r2 :> 2 @@ r3 :> 3 @@ r4 :> 1)
MCDateEnd == OnRequests(r1 :> 2 @@ r2 :> 2 @@ r3 :> 3 @@ r4 :> 2)
MCRequestedHours == OnRequests(r1 :> NoHours @@ r2 :> NoHours @@ r3 :> 4 @@ r4 :> NoHours)
MCEligible == {<<ann, vacation>>, <<ben, vacation>>}

MCDeltas == {-100}

EveryHandler == [w \in Workers |-> Handlers]

\* Sound where every worker has the same workload.
WorkerSymmetry == Permutations(Workers)

\* Only the four request handlers.
RequestHandlers == [w \in Workers |-> {"submit", "approve", "reject", "cancel"}]

\* w1 takes every decision; the other workers submit and administer.
OneDecider == [w \in Workers |->
    IF w = w1 THEN {"approve", "reject", "cancel"}
    ELSE {"submit", "deactivate", "update_policy", "delete_employee"}]
=============================================================================
