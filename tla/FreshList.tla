-------------------------------- MODULE FreshList --------------------------------
(* What a page promises of its list: it shows the store as it was at some moment, moments
   only go forward, and whenever it is at rest it is at least as new as every change the
   page has told its user of.                                                      *)
EXTENDS Naturals

VARIABLES
  version,  \* changes made to the store
  told,     \* the newest of them the user has been told of
  shown,    \* the moment the list shows
  resting   \* the list is at rest: nothing is being read, nothing marks it stale

vars == <<version, told, shown, resting>>

Init == version = 0 /\ told = 0 /\ shown = 0 /\ resting = FALSE

Change ==
  /\ version' = version + 1
  /\ UNCHANGED <<told, shown, resting>>

Tell ==
  /\ told' \in told..version
  /\ resting' = FALSE
  /\ UNCHANGED <<version, shown>>

Show ==
  /\ shown' \in shown..version
  /\ resting' \in {b \in BOOLEAN : b => shown' >= told}
  /\ UNCHANGED <<version, told>>

\* Reading begins, or ends without an answer.
Rest ==
  /\ resting' \in {b \in BOOLEAN : b => shown >= told}
  /\ UNCHANGED <<version, told, shown>>

Next == Change \/ Tell \/ Show \/ Rest

Spec == Init /\ [][Next]_vars

================================================================================
