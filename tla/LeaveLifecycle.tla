--------------------------- MODULE LeaveLifecycle ---------------------------
(***************************************************************************)
(* What the leave request handlers promise: every decision is one atomic   *)
(* step of the state machine of validate_state_transition, and a request   *)
(* is charged to the ledger exactly while it is approved.                  *)
(***************************************************************************)
EXTENDS Integers

CONSTANTS Requests, EmployeeOf, DateStart, DateEnd

VARIABLES
    status,  \* status of each request, "absent" before it is submitted
    charged  \* debits less credits of each request in the ledger

vars == <<status, charged>>

IsLive(r) == status[r] \in {"pending", "approved"}

SameDays(q, r) == DateStart[q] <= DateEnd[r] /\ DateEnd[q] >= DateStart[r]

Move(r, from, to) ==
    /\ status[r] = from
    /\ status' = [status EXCEPT ![r] = to]

\* A new request, clear of the live requests of its employee.
Submit(r) ==
    /\ Move(r, "absent", "pending")
    /\ DateStart[r] <= DateEnd[r]
    /\ \A q \in Requests : (IsLive(q) /\ EmployeeOf[q] = EmployeeOf[r]) => ~SameDays(q, r)
    /\ UNCHANGED charged

Approve(r) ==
    /\ Move(r, "pending", "approved")
    /\ charged' = [charged EXCEPT ![r] = 1]

Reject(r) == Move(r, "pending", "rejected") /\ UNCHANGED charged

Withdraw(r) == Move(r, "pending", "cancelled") /\ UNCHANGED charged

Cancel(r) ==
    /\ Move(r, "approved", "cancelled")
    /\ charged' = [charged EXCEPT ![r] = 0]

Init ==
    /\ status = [r \in Requests |-> "absent"]
    /\ charged = [r \in Requests |-> 0]

Next == \E r \in Requests : Submit(r) \/ Approve(r) \/ Reject(r) \/ Withdraw(r) \/ Cancel(r)

Spec == Init /\ [][Next]_vars

=============================================================================
