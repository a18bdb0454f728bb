----------------------------- MODULE KeyedStore -----------------------------
(***************************************************************************)
(* What the keyed create promises its clients: under each import key lies  *)
(* at most one punch, and every request is dealt with in one step, against *)
(* the punch that lies under its key at that step.                         *)
(***************************************************************************)
CONSTANTS Posts, Keys, Payloads, Corrected, Blank, Staff

VARIABLES
    key,     \* the import key of a request, Blank before it is sent
    payload, \* the punch it is about
    answer,  \* what became of it
    held     \* the punch under a key, as a set of at most one

vars == <<key, payload, answer, held>>

Send(p, k, d) ==
    /\ payload[p] = Blank
    /\ key' = [key EXCEPT ![p] = k]
    /\ payload' = [payload EXCEPT ![p] = d]
    /\ UNCHANGED <<answer, held>>

Open(p) == payload[p] # Blank /\ answer[p] = "none"

Answered(p, a) ==
    /\ answer' = [answer EXCEPT ![p] = a]
    /\ UNCHANGED <<key, payload>>

\* The punch is recorded; its sender may not learn of it.
Create(p) ==
    /\ Open(p)
    /\ held[key[p]] = {}
    /\ held' = [held EXCEPT ![key[p]] = {payload[p]}]
    /\ \E a \in {"created", "failed"} : Answered(p, a)

\* The very punch is there already.
Replay(p) ==
    /\ Open(p)
    /\ held[key[p]] = {payload[p]}
    /\ Answered(p, "replayed")
    /\ UNCHANGED held

\* Nothing is recorded.
Decline(p) ==
    /\ Open(p)
    /\ \E a \in {"refused", "failed"} : Answered(p, a)
    /\ UNCHANGED held

Delete(k) ==
    /\ "delete" \in Staff
    /\ held[k] # {}
    /\ held' = [held EXCEPT ![k] = {}]
    /\ UNCHANGED <<key, payload, answer>>

Correct(k) ==
    /\ "correct" \in Staff
    /\ held[k] # {}
    /\ held' = [held EXCEPT ![k] = {Corrected}]
    /\ UNCHANGED <<key, payload, answer>>

Init ==
    /\ key = [p \in Posts |-> Blank]
    /\ payload = [p \in Posts |-> Blank]
    /\ answer = [p \in Posts |-> "none"]
    /\ held = [k \in Keys |-> {}]

Next ==
    \/ \E p \in Posts : \/ \E k \in Keys, d \in Payloads : Send(p, k, d)
                        \/ Create(p) \/ Replay(p) \/ Decline(p)
    \/ \E k \in Keys : Delete(k) \/ Correct(k)

Spec == Init /\ [][Next]_vars

=============================================================================
