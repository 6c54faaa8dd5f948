---------------------------- MODULE MetricsStore ----------------------------
(***************************************************************************)
(* What the metrics cache promises its clients, seen from outside: batches *)
(* of scan results replace one another as wholes, and a scrape reports the *)
(* one batch that was current at some instant between its start and its    *)
(* end.  Cache implements it.  Batches are numbered in the order in which  *)
(* they are published; 0 stands for "nothing published yet".               *)
(***************************************************************************)
EXTENDS Integers

CONSTANTS Reader, MaxBatch

VARIABLES
    current,   \* the batch that is published
    stage,     \* stage[r]: what client r is doing
    view       \* view[r]: the batch that client r's last scrape reports, once taken

vars == <<current, stage, view>>

TypeOK ==
    /\ current \in 0..MaxBatch
    /\ stage \in [Reader -> {"away", "asking", "served"}]
    /\ view \in [Reader -> 0..MaxBatch]

Init ==
    /\ current = 0
    /\ stage = [r \in Reader |-> "away"]
    /\ view = [r \in Reader |-> 0]

Publish ==
    /\ current < MaxBatch
    /\ current' = current + 1
    /\ UNCHANGED <<stage, view>>

Ask(r) ==
    /\ stage[r] = "away"
    /\ stage' = [stage EXCEPT ![r] = "asking"]
    /\ view' = [view EXCEPT ![r] = 0]
    /\ UNCHANGED current

\* The instant at which the scrape takes place.
Take(r) ==
    /\ stage[r] = "asking"
    /\ stage' = [stage EXCEPT ![r] = "served"]
    /\ view' = [view EXCEPT ![r] = current]
    /\ UNCHANGED current

Leave(r) ==
    /\ stage[r] = "served"
    /\ stage' = [stage EXCEPT ![r] = "away"]
    /\ UNCHANGED <<current, view>>

Next == Publish \/ \E r \in Reader : Ask(r) \/ Take(r) \/ Leave(r)

Spec == Init /\ [][Next]_vars

\* A scrape that was asked for is served.
FairSpec == Spec /\ \A r \in Reader : WF_vars(Take(r)) /\ WF_vars(Leave(r))

=============================================================================
