-------------------------------- MODULE DagRun --------------------------------
(***************************************************************************)
(* What build() promises about one walk over the task graph: a task is     *)
(* attempted at most once, only after all it depends on is settled and     *)
(* well; what depends on a failure fails; a walk is complete only when     *)
(* every task is settled.                                                  *)
(***************************************************************************)
CONSTANTS Tasks, Deps

VARIABLES
    status,   \* status[t]: "waiting", "running", "done" or "failed".
    walk      \* "open", "complete" or "abandoned".

dag_vars == <<status, walk>>

Settled(t) == status[t] \in {"done", "failed"}

Init ==
    /\ status = [t \in Tasks |-> "waiting"]
    /\ walk = "complete"

Open ==
    /\ walk # "open"
    /\ walk' = "open"
    /\ status' = [t \in Tasks |-> "waiting"]

Becomes(t, from, to) ==
    /\ walk = "open" /\ status[t] = from
    /\ status' = [status EXCEPT ![t] = to]

Inherit(t) ==
    /\ Becomes(t, "waiting", "failed")
    /\ \A d \in Deps[t] : Settled(d)
    /\ \E d \in Deps[t] : status[d] = "failed"
    /\ UNCHANGED walk

Proceed(t, to) ==
    /\ Becomes(t, "waiting", to)
    /\ \A d \in Deps[t] : status[d] = "done"
    /\ UNCHANGED walk

Succeed(t) == Becomes(t, "running", "done") /\ UNCHANGED walk

Fail(t) == Becomes(t, "running", "failed") /\ walk' \in {"open", "abandoned"}

Close ==
    /\ walk = "open" /\ \A t \in Tasks : Settled(t)
    /\ walk' = "complete"
    /\ UNCHANGED status

Abandon == walk' = "abandoned" /\ UNCHANGED status

Next ==
    \/ Open \/ Close \/ Abandon
    \/ \E t \in Tasks :
           \/ Inherit(t) \/ Proceed(t, "running") \/ Proceed(t, "done")
           \/ Succeed(t) \/ Fail(t)

Spec == Init /\ [][Next]_dag_vars

=============================================================================
