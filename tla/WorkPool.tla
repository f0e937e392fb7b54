------------------------------ MODULE WorkPool ------------------------------
(***************************************************************************)
(* What a task farm promises, without messages, files or processes: every  *)
(* job is worked on once, by one worker, a worker has one job at a time,   *)
(* and a result is published once, when nothing is left to do, with the    *)
(* output of every job.                                                    *)
(***************************************************************************)
CONSTANTS Jobs, Workers, None

VARIABLES
    pending,   \* jobs nobody has got
    held,      \* held[w]: the job worker w has, or None
    result     \* the jobs whose output has been published, or None

vars == <<pending, held, result>>

Init ==
    /\ pending = Jobs
    /\ held = [w \in Workers |-> None]
    /\ result = None

Assign(j, w) ==
    /\ j \in pending /\ held[w] = None
    /\ pending' = pending \ {j}
    /\ held' = [held EXCEPT ![w] = j]
    /\ UNCHANGED result

Complete(w) ==
    /\ held[w] # None
    /\ held' = [held EXCEPT ![w] = None]
    /\ UNCHANGED <<pending, result>>

Publish ==
    /\ pending = {} /\ \A w \in Workers : held[w] = None
    /\ result = None
    /\ result' = Jobs
    /\ UNCHANGED <<pending, held>>

Next ==
    \/ \E j \in Jobs, w \in Workers : Assign(j, w)
    \/ \E w \in Workers : Complete(w)
    \/ Publish

SafeSpec == Init /\ [][Next]_vars

Live == WF_vars(Next)

Spec == SafeSpec /\ Live
=============================================================================
