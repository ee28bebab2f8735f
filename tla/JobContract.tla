------------------------------ MODULE JobContract ------------------------------
(***************************************************************************)
(* What the job queue promises to whoever creates a job, without leases,   *)
(* heartbeats, clocks or workers: the state machine of ALLOWED_TRANSITIONS *)
(* (app/workers/durable.py:18-24), the attempt budget, the one way out of  *)
(* `failed' that request_job_run adds, and that every job is finished.     *)
(***************************************************************************)
EXTENDS Naturals

CONSTANTS
  Jobs,         \* ids of jobs
  MaxAttempts   \* executions a job may use up before it fails for good

VARIABLES
  status,    \* status[j]
  attempts   \* attempts[j]: executions started since the last accepted re-run

vars == <<status, attempts>>

Init ==
  /\ status = [j \in Jobs |-> "absent"]
  /\ attempts = [j \in Jobs |-> 0]

\* Job j goes from one status to the other, and its attempt count to n.
Moves(j, from, to, n) ==
  /\ status[j] = from
  /\ status'[j] = to
  /\ attempts'[j] = n

Create(j)   == Moves(j, "absent", "queued", 0)
Start(j)    == attempts[j] < MaxAttempts
                 /\ Moves(j, "queued", "running", attempts[j] + 1)
Retry(j)    == attempts[j] < MaxAttempts
                 /\ Moves(j, "running", "queued", attempts[j])
Complete(j) == Moves(j, "running", "completed", attempts[j])
Fail(j)     == Moves(j, "running", "failed", attempts[j])
Rerun(j)    == Moves(j, "failed", "queued", 0)

Step(j) ==
  Create(j) \/ Start(j) \/ Retry(j) \/ Complete(j) \/ Fail(j) \/ Rerun(j)

\* Jobs are independent: one recovery pass may move several of them.
Next ==
  \A j \in Jobs : Step(j) \/ (status'[j] = status[j] /\ attempts'[j] = attempts[j])

Settles ==
  \A j \in Jobs : status[j] \in {"queued", "running"} ~>
                    status[j] \in {"completed", "failed"}

SafeSpec == Init /\ [][Next]_vars

Spec == SafeSpec /\ Settles

===============================================================================
