----------------------------- MODULE Lifecycle -----------------------------
(***************************************************************************)
(* The scheduler-visible task and thread states of MTSS and the            *)
(* transitions it accepts (crates/mirage-mtss/src/lib.rs, module types).   *)
(***************************************************************************)
TaskStates == {"Created", "Runnable", "Running", "Blocked", "Exited"}
ThreadStates == {"New", "Ready", "Running", "Blocked", "Sleeping", "Zombie", "Dead"}

\* TaskState::may_schedule and ThreadState::may_schedule.
SchedulableTask == {"Runnable", "Running"}
SchedulableThread == {"Ready", "Running"}

valid_task_transition(from, to) ==
    \/ from = to
    \/ /\ from \in {"Created", "Running", "Blocked"} /\ to = "Runnable"
    \/ /\ from = "Runnable" /\ to = "Running"
    \/ /\ from \in {"Runnable", "Running"} /\ to = "Blocked"
    \/ to = "Exited"

valid_thread_transition(from, to) ==
    \/ from = to
    \/ /\ from \in {"New", "Running", "Blocked", "Sleeping"} /\ to = "Ready"
    \/ /\ from = "Ready" /\ to = "Running"
    \/ /\ from \in {"Ready", "Running"} /\ to \in {"Blocked", "Sleeping"}
    \/ /\ from \in {"Ready", "Running", "Blocked", "Sleeping"} /\ to = "Zombie"
    \/ to = "Dead"
=============================================================================
