------------------------------- MODULE LocalJobs -------------------------------
(***************************************************************************)
(* The two services that run long local jobs one at a time: depth videos   *)
(* (control_assets/jobs/service.py) and video enhancement                  *)
(* (video_enhancement/service.py).  Their jobs have the same life: a saved *)
(* row, one asyncio task that waits for the only worker slot, claims the   *)
(* row, runs an engine and saves how it ended.  The locks of one job       *)
(* (_state_lock) order cancellations against the end of the task, not      *)
(* against the claim, which is a transaction of the store.                 *)
(*                                                                         *)
(* Progress, heartbeats, notifications and the engines' stages are left    *)
(* out: they write under the state lock and change no status.  retry() is  *)
(* submit() for the subject of a job that is over.                         *)
(*                                                                         *)
(* Every claim, commit, save and diagnostics file of a task may raise (a   *)
(* busy database, a full disk).  A save that raises in submit() or         *)
(* cancel() ends the request and leaves no trace; mishap remembers what    *)
(* the failures of a task, and a claim that overtakes a cancellation,      *)
(* leave behind.                                                           *)
(***************************************************************************)
EXTENDS Naturals, Sequences

CONSTANTS
    Services,    \* which of "depth", "enhancement" is looked at
    Subjects,    \* shots (depth) or video candidates (enhancement)
    Users,       \* requests in progress at the same time
    MaxJobs,     \* bound: jobs ever created
    MaxRestarts  \* bound: restarts in a behaviour

ASSUME LocalJobsAssumption ==
    /\ Services \subseteq {"depth", "enhancement"}
    /\ MaxJobs \in Nat /\ MaxRestarts \in Nat

VARIABLES
    service,    \* the service of this behaviour
    job,        \* the job rows in creation order
    task,       \* _tasks: how far the task of each job is
    stop,       \* _cancellations: jobs whose event is set
    request,    \* the submit or cancel request of each user
    delivered,  \* jobs whose result the project, or their row, offers
    mishap,     \* history: what went wrong with each job
    stopping,   \* shutdown() has begun
    restarts    \* restarts so far

vars == <<service, job, task, stop, request, delivered, mishap, stopping, restarts>>

JobIds == 1..MaxJobs

ACTIVE == {"queued", "running", "cancellation_requested"}
Terminal == {"succeeded", "failed", "cancelled", "interrupted"}

Job == [subject : Subjects, status : ACTIVE \cup Terminal]

\* Tasks that hold the worker slot.  "made": the engine has returned;
\* "committed": the project has the result, the row does not say so yet;
\* "told": the row does, the diagnostics are still to be written.
Busy == {"working", "made", "committed", "told", "failing"}

\* "overtaken": claimed between the read and the save of a cancellation;
\* "unrecorded": an error after the project had the result; "unsaved": the task
\* has ended without a row that says so, until the next restart.
Mishaps == {"overtaken", "unrecorded", "unsaved"}

Idle == [op |-> "idle", job |-> 0, seen |-> "queued"]

Init ==
    /\ service \in Services
    /\ job = <<>>
    /\ task = [j \in JobIds |-> "none"]
    /\ stop = {}
    /\ request = [u \in Users |-> Idle]
    /\ delivered = {}
    /\ mishap = [j \in JobIds |-> {}]
    /\ stopping = FALSE
    /\ restarts = 0

Active(x) == {j \in DOMAIN job : job[j].subject = x /\ job[j].status \in ACTIVE}
WithStatus(j, s) == [job EXCEPT ![j].status = s]
Goes(j, place) == task' = [task EXCEPT ![j] = place]

Marks(j, m) == mishap' = [mishap EXCEPT ![j] = @ \cup {m}]

\* The finally branch forgets the event.
Ends(j) == Goes(j, "none") /\ stop' = stop \ {j}

SlotFree == \A j \in JobIds : task[j] \notin Busy

\* _state_lock(j): held between the two halves of cancel(), and while the
\* result is committed and the row saved.
StateLockFree(j) ==
    /\ task[j] # "committed"
    /\ \A u \in Users : request[u].op = "cancel" => request[u].job # j
-------------------------------------------------------------------------------
(***************************************************************************)
(* submit(): under the lock of the subject, a job that is active is        *)
(* returned; else a row is saved and, a notification later, its task is    *)
(* created.                                                                *)
(***************************************************************************)
SubmissionLockFree(x) ==
    \A u \in Users : request[u].op = "submit" => job[request[u].job].subject # x

SubmitUnlocked(u, x) ==
    /\ ~stopping
    /\ request[u] = Idle
    /\ Active(x) = {} \/ \E v \in Users : request[v].op = "submit"
    /\ Len(job) < MaxJobs
    /\ job' = Append(job, [subject |-> x, status |-> "queued"])
    /\ request' = [request EXCEPT ![u] = [op |-> "submit", job |-> Len(job) + 1, seen |-> "queued"]]
    /\ UNCHANGED <<service, task, stop, delivered, mishap, stopping, restarts>>

Submit(u, x) ==
    /\ ~stopping
    /\ request[u] = Idle
    /\ SubmissionLockFree(x)
    /\ Active(x) = {}
    /\ Len(job) < MaxJobs
    /\ job' = Append(job, [subject |-> x, status |-> "queued"])
    /\ request' = [request EXCEPT ![u] = [op |-> "submit", job |-> Len(job) + 1, seen |-> "queued"]]
    /\ UNCHANGED <<service, task, stop, delivered, mishap, stopping, restarts>>

Schedule(u) ==
    /\ request[u].op = "submit"
    /\ Goes(request[u].job, "waiting")
    /\ request' = [request EXCEPT ![u] = Idle]
    /\ UNCHANGED <<service, job, stop, delivered, mishap, stopping, restarts>>
-------------------------------------------------------------------------------
(***************************************************************************)
(* _run(job_id).                                                           *)
(***************************************************************************)
\* A cancellation has seen the row queued and will save it as cancelled.
CancelUnderWay(j) ==
    \E u \in Users : request[u] = [op |-> "cancel", job |-> j, seen |-> "queued"]

\* The transaction knows nothing of the state lock.
Claim(j) ==
    /\ task[j] = "waiting"
    /\ SlotFree
    /\ job[j].status = "queued"
    /\ job' = WithStatus(j, "running")
    /\ Goes(j, IF service = "enhancement" /\ j \in stop THEN "failing" ELSE "working")
    /\ IF CancelUnderWay(j) THEN Marks(j, "overtaken") ELSE UNCHANGED mishap
    /\ UNCHANGED <<service, stop, request, delivered, stopping, restarts>>

\* The row is no longer queued, or the transaction raises before the try.
ClaimNothing(j) ==
    /\ task[j] = "waiting"
    /\ SlotFree
    /\ Goes(j, "none")
    /\ IF job[j].status = "queued" THEN Marks(j, "unsaved") ELSE UNCHANGED mishap
    /\ UNCHANGED <<service, job, stop, request, delivered, stopping, restarts>>

\* The engine returns, or fails, or is stopped by the event.  A task that has
\* left its last subprocess no longer looks at the event.
Generate(j) ==
    /\ task[j] = "working"
    /\ \E place \in {"made", "failing"} : Goes(j, place)
    /\ UNCHANGED <<service, job, stop, request, delivered, mishap, stopping, restarts>>

\* commit_depth_control_job refuses a source that has changed and takes its
\* changes back when it raises; an enhancement only takes its state lock.
CommitThenCheck(j) ==
    /\ task[j] = "made"
    /\ StateLockFree(j)
    /\ delivered' = delivered \cup {j}
    /\ Goes(j, "committed") \/ Goes(j, "failing")
    /\ UNCHANGED <<service, job, stop, request, mishap, stopping, restarts>>

Commit(j) ==
    /\ task[j] = "made"
    /\ StateLockFree(j)
    /\ \/ Goes(j, "committed") /\ delivered' = delivered \cup (IF service = "depth" THEN {j} ELSE {})
       \/ Goes(j, "failing") /\ UNCHANGED delivered
    /\ UNCHANGED <<service, job, stop, request, mishap, stopping, restarts>>

\* Whatever the row says by now.  An enhancement is delivered by its row.
Complete(j) ==
    /\ task[j] = "committed"
    /\ job' = WithStatus(j, "succeeded")
    /\ delivered' = delivered \cup {j}
    /\ Goes(j, "told")
    /\ UNCHANGED <<service, stop, request, mishap, stopping, restarts>>

Told(j) ==
    /\ task[j] = "told"
    /\ Ends(j)
    /\ UNCHANGED <<service, job, request, delivered, mishap, stopping, restarts>>

\* The completed row cannot be saved, or write_job_diagnostics of a depth job
\* raises after it was: both are inside the try, and the except branch goes on
\* to save a failure over a delivered depth video.
LateError(j) ==
    /\ task[j] = "committed" \/ (task[j] = "told" /\ service = "depth")
    /\ Goes(j, "failing")
    /\ IF service = "depth" THEN Marks(j, "unrecorded") ELSE UNCHANGED mishap
    /\ UNCHANGED <<service, job, stop, request, delivered, stopping, restarts>>

\* The except branch.
Fail(j) ==
    /\ task[j] = "failing"
    /\ StateLockFree(j)
    /\ job' = WithStatus(j, IF j \notin stop THEN "failed"
                            ELSE IF service = "enhancement" /\ stopping THEN "interrupted" ELSE "cancelled")
    /\ Ends(j)
    /\ UNCHANGED <<service, request, delivered, mishap, stopping, restarts>>

\* The save of the except branch raises in its turn.
FailUnsaved(j) ==
    /\ task[j] = "failing"
    /\ StateLockFree(j)
    /\ Ends(j)
    /\ Marks(j, "unsaved")
    /\ UNCHANGED <<service, job, request, delivered, stopping, restarts>>
-------------------------------------------------------------------------------
(***************************************************************************)
(* cancel(job_id): read and save under the state lock; the event is set    *)
(* after it, and only if the job was seen running.                         *)
(***************************************************************************)
CancelReadUnlocked(u, j) ==
    /\ ~stopping
    /\ request[u] = Idle
    /\ job[j].status \in ACTIVE
    /\ request' = [request EXCEPT ![u] = [op |-> "cancel", job |-> j, seen |-> job[j].status]]
    /\ UNCHANGED <<service, job, task, stop, delivered, mishap, stopping, restarts>>

CancelRead(u, j) ==
    /\ ~stopping
    /\ request[u] = Idle
    /\ StateLockFree(j)
    /\ job[j].status \in ACTIVE
    /\ request' = [request EXCEPT ![u] = [op |-> "cancel", job |-> j, seen |-> job[j].status]]
    /\ UNCHANGED <<service, job, task, stop, delivered, mishap, stopping, restarts>>

CancelSave(u) ==
    LET j == request[u].job IN
    /\ request[u].op = "cancel"
    /\ \/ /\ request[u].seen = "queued"
          /\ job' = WithStatus(j, "cancelled")
          /\ request' = [request EXCEPT ![u] = Idle]
       \/ /\ request[u].seen # "queued"
          /\ job' = WithStatus(j, "cancellation_requested")
          /\ request' = [request EXCEPT ![u].op = "signal"]
    /\ UNCHANGED <<service, task, stop, delivered, mishap, stopping, restarts>>

CancelSignalUnasked(u) ==
    /\ stop' = stop \cup {request[u].job}
    /\ request' = [request EXCEPT ![u] = Idle]
    /\ UNCHANGED <<service, job, task, delivered, mishap, stopping, restarts>>

CancelSignal(u) ==
    /\ request[u].op = "signal"
    /\ stop' = stop \cup {request[u].job}
    /\ request' = [request EXCEPT ![u] = Idle]
    /\ UNCHANGED <<service, job, task, delivered, mishap, stopping, restarts>>
-------------------------------------------------------------------------------
(***************************************************************************)
(* shutdown(), after the server has answered its requests: the events of   *)
(* the tasks at work (enhancement: of all tasks) are set and all tasks are *)
(* waited for.  A depth task still waiting for the slot runs its job.      *)
(***************************************************************************)
StopTheBusy ==
    /\ ~stopping
    /\ \A u \in Users : request[u] = Idle
    /\ stopping' = TRUE
    /\ stop' = stop \cup {j \in JobIds : task[j] \in Busy}
    /\ UNCHANGED <<service, job, task, request, delivered, mishap, restarts>>

Shutdown ==
    /\ ~stopping
    /\ \A u \in Users : request[u] = Idle
    /\ stopping' = TRUE
    /\ stop' = stop \cup {j \in JobIds : task[j] \in IF service = "depth" THEN Busy ELSE Busy \cup {"waiting"}}
    /\ UNCHANGED <<service, job, task, request, delivered, mishap, restarts>>

RecoveredQueue(s) == IF s = "running" THEN "interrupted" ELSE s

\* recover(): at any moment, after a crash or when shutdown() has waited.
Recovered(s) == IF s \in {"running", "cancellation_requested"} THEN "interrupted" ELSE s

Restart ==
    /\ restarts < MaxRestarts
    /\ restarts' = restarts + 1
    /\ job' = [j \in DOMAIN job |-> [job[j] EXCEPT !.status = Recovered(job[j].status)]]
    /\ task' = [j \in JobIds |-> IF j \in DOMAIN job /\ job[j].status = "queued" THEN "waiting" ELSE "none"]
    /\ stop' = {}
    /\ request' = [u \in Users |-> Idle]
    /\ stopping' = FALSE
    /\ mishap' = [j \in JobIds |-> mishap[j] \ {"unsaved"}]
    /\ UNCHANGED <<service, delivered>>
-------------------------------------------------------------------------------
TaskStep(j) ==
    \/ Claim(j) \/ ClaimNothing(j)
    \/ Generate(j) \/ Commit(j) \/ Complete(j) \/ Told(j)
    \/ LateError(j) \/ Fail(j) \/ FailUnsaved(j)

RequestStep(u) == Schedule(u) \/ CancelSave(u) \/ CancelSignal(u)

Next ==
    \/ \E u \in Users, x \in Subjects : Submit(u, x)
    \/ \E u \in Users, j \in DOMAIN job : CancelRead(u, j)
    \/ \E u \in Users : RequestStep(u)
    \/ \E j \in DOMAIN job : TaskStep(j)
    \/ Shutdown
    \/ Restart

Spec == Init /\ [][Next]_vars

\* Tasks and requests are scheduled, every engine call has a time-out, and the
\* locks and the worker slot are handed on in the order of their waiters: the
\* task is not kept from its state lock by requests that come again and again.
Fairness ==
    /\ \A j \in JobIds : SF_vars(j \in DOMAIN job /\ TaskStep(j))
    /\ \A u \in Users : WF_vars(RequestStep(u))

FairSpec == Spec /\ Fairness
-------------------------------------------------------------------------------
TypeOK ==
    /\ service \in Services
    /\ job \in Seq(Job) /\ Len(job) <= MaxJobs
    /\ task \in [JobIds -> {"none", "waiting"} \cup Busy]
    /\ \A j \in JobIds : task[j] # "none" => j \in DOMAIN job
    /\ stop \in SUBSET DOMAIN job
    /\ request \in [Users -> [op : {"idle", "submit", "cancel", "signal"},
                              job : {0} \cup DOMAIN job, seen : ACTIVE]]
    /\ delivered \in SUBSET DOMAIN job
    /\ mishap \in [JobIds -> SUBSET Mishaps]
    /\ stopping \in BOOLEAN
    /\ restarts \in 0..MaxRestarts

(***************************************************************************)
(* Concurrent submissions share one active job of a subject, also while a  *)
(* submission is still between its save and its task.                      *)
(***************************************************************************)
OneActiveJob == \A x \in Subjects : \A j, k \in Active(x) : j = k

\* The two ways in which the row of a job and what became of it may part.
Orderly(j) == mishap[j] \cap {"overtaken", "unrecorded"} = {}

(***************************************************************************)
(* A job keeps its terminal state: a cancelled job is not worked on to its *)
(* end, and a finished one is not cancelled afterwards.  The exceptions    *)
(* are a job claimed between the two halves of its cancellation and one    *)
(* with an error after its result was committed.                           *)
(***************************************************************************)
TerminalStays ==
    [][\A j \in DOMAIN job :
          Orderly(j) /\ job[j].status \in Terminal => job'[j].status = job[j].status]_vars

(***************************************************************************)
(* A job that says it was cancelled or has failed has left nothing in the  *)
(* project, with the same two exceptions.  (An interrupted one may have:   *)
(* the process can stop between the commit and the row.)                   *)
(***************************************************************************)
NothingLeftBehind ==
    \A j \in delivered : Orderly(j) => job[j].status \notin {"cancelled", "failed"}

(***************************************************************************)
(* Once an enhancement service is stopping it starts no engine: what waits *)
(* for the slot is saved as interrupted.                                   *)
(***************************************************************************)
StopStartsNothing ==
    [][service = "enhancement" /\ stopping
         => \A j \in JobIds : task'[j] = "working" => task[j] = "working"]_vars

(***************************************************************************)
(* Every job ends, whoever cancels it, although the process restarts and   *)
(* whatever its engine, its commit, its completion or its diagnostics do:  *)
(* "never stuck in generating".  The exception is a job whose claim, or    *)
(* whose except branch, could not write the row: it waits for a restart.   *)
(***************************************************************************)
JobEnds ==
    \A j \in JobIds :
        (j \in DOMAIN job /\ job[j].status \in ACTIVE)
            ~> (j \in DOMAIN job /\ (job[j].status \notin ACTIVE \/ "unsaved" \in mishap[j]))
===============================================================================
