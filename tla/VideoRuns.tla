------------------------------- MODULE VideoRuns -------------------------------
(***************************************************************************)
(* Remote video runs of one shot: ProductionService's queue (production.py)*)
(* over RemoteVideoOrchestrator (video_generation/orchestrator.py).  A run *)
(* asks a provider for one video per ordinal.  Each request has a durable  *)
(* row, saved before the provider is called and again when its id is       *)
(* known, so that a restart or a retry follows the job instead of paying   *)
(* for another one.                                                        *)
(*                                                                         *)
(* Prompts, prices, downloads and the text of errors are left out.  The    *)
(* cancel event is set only right before the task itself is cancelled, so  *)
(* the orchestrator's own tests of it never find it set.                   *)
(***************************************************************************)
EXTENDS Naturals, Sequences, FiniteSets

CONSTANTS
    N,           \* videos asked for by a run (candidate_count)
    Users,       \* cancel and retry requests in progress at the same time
    Hazards,     \* which of "crash", "crash_in_retry", "garbled", "cancel" may happen
    MaxRuns,     \* bound: runs ever created
    MaxRestarts  \* bound: restarts in a behaviour

ASSUME VideoAssumption ==
    /\ N \in Nat \ {0}
    /\ Hazards \subseteq {"crash", "crash_in_retry", "garbled", "cancel"}
    /\ MaxRuns \in Nat /\ MaxRestarts \in Nat

VARIABLES
    run,       \* generation_runs in creation order
    row,       \* video_provider_tasks of each run, by ordinal
    worker,    \* _generation_tasks: the asyncio task of each run
    lock,      \* the project lock: a run, a request or nobody
    request,   \* the cancel or retry request of each user
    job,       \* what the provider was asked to do, and what became of it
    misread,   \* history: jobs about which a reply of the provider was misread
    restarts   \* restarts so far

vars == <<run, row, worker, lock, request, job, misread, restarts>>

RunIds == 1..MaxRuns
Ordinals == 1..N
Jobs == 1..(MaxRuns * N)

ACTIVE == {"queued", "running", "cancellation_requested"}
Terminal == {"completed", "failed", "cancelled"}

\* "none" stands for no row; job 0 for no provider_task_id.
TaskStatus == {"none", "pending", "submitted", "running", "unknown",
               "succeeded", "failed", "cancelled"}
TaskDone == {"succeeded", "failed", "cancelled"}

Row(s, j) == [status |-> s, job |-> j]
Rows == [Ordinals -> [status : TaskStatus, job : {0} \cup Jobs]]
NoRows == [o \in Ordinals |-> Row("none", 0)]

\* A job is "sent" until the provider takes it ("working") or does not.
JobState == {"sent", "refused", "working", "won", "lost", "cancelled"}
MayBePaid == {"sent", "working", "won"}

NoWorker == [at |-> "none", ord |-> 0, seen |-> NoRows]
Idle == [op |-> "idle", run |-> 0, ord |-> 0, seen |-> NoRows]

Init ==
    /\ run = <<>>
    /\ row = [r \in RunIds |-> NoRows]
    /\ worker = [r \in RunIds |-> NoWorker]
    /\ lock = "free"
    /\ request = [u \in Users |-> Idle]
    /\ job = <<>>
    /\ misread = {}
    /\ restarts = 0

Live == {r \in DOMAIN run : run[r].status \in ACTIVE}
WithStatus(r, s) == [run EXCEPT ![r].status = s]
MarkTerminal(r, s) == IF run[r].status \in Terminal THEN run ELSE WithStatus(r, s)

SaveRow(r, o, entry) == row' = [row EXCEPT ![r][o] = entry]
At(r, place) == [worker EXCEPT ![r].at = place]

(***************************************************************************)
(* create_video_run: check and insert under the project lock, which a run  *)
(* of the project holds for as long as it generates.                       *)
(***************************************************************************)
Enqueue(source) == run' = Append(run, [status |-> "queued", of |-> source])

Scheduled(r) == [worker EXCEPT ![r] = [NoWorker EXCEPT !.at = "scheduled"]]

Generate ==
    /\ Len(run) < MaxRuns
    /\ lock = "free"
    /\ Live = {}
    /\ Enqueue(0)
    /\ worker' = Scheduled(Len(run) + 1)
    /\ UNCHANGED <<row, lock, request, job, misread, restarts>>

(***************************************************************************)
(* _run_queued_video up to the first ordinal: the claim is a transaction,  *)
(* then the task waits for the lock and reads the rows there are.          *)
(***************************************************************************)
Claim(r) ==
    /\ worker[r].at = "scheduled"
    /\ IF run[r].status = "queued"
       THEN run' = WithStatus(r, "running") /\ worker' = At(r, "claimed")
       ELSE worker' = At(r, "none") /\ UNCHANGED run
    /\ UNCHANGED <<row, lock, request, job, misread, restarts>>

Begin(r) ==
    /\ worker[r].at = "claimed"
    /\ lock = "free"
    /\ lock' = "run"
    /\ worker' = [worker EXCEPT ![r] = [at |-> "next", ord |-> 1, seen |-> row[r]]]
    /\ UNCHANGED <<run, row, request, job, misread, restarts>>
-------------------------------------------------------------------------------
(***************************************************************************)
(* One ordinal of generate().  "seen" is the orchestrator's own copy of    *)
(* the rows, read once; "saving" is the window between an answer of the    *)
(* provider and the row that records it.                                   *)
(***************************************************************************)
Task(r) == worker[r].seen[worker[r].ord]
Facing(r, place) == worker[r].at = place /\ worker[r].ord \in Ordinals

Seeing(r, entry, place) ==
    [worker EXCEPT ![r].seen[worker[r].ord] = entry, ![r].at = place]

\* The row is settled: on to the next ordinal.
Settled(r, entry) ==
    worker' = [worker EXCEPT ![r] = [at |-> "next", ord |-> worker[r].ord + 1,
                                     seen |-> [worker[r].seen EXCEPT ![worker[r].ord] = entry]]]

\* The row is saved as pending_submission, then the provider is called.
Submit(r) ==
    /\ Facing(r, "next")
    /\ Task(r).status = "none"
    /\ SaveRow(r, worker[r].ord, Row("pending", 0))
    /\ job' = Append(job, [run |-> r, ord |-> worker[r].ord, state |-> "sent"])
    /\ worker' = Seeing(r, Row("pending", 0), "submitting")
    /\ UNCHANGED <<run, lock, request, misread, restarts>>

Sent(r) == CHOOSE j \in DOMAIN job : job[j].run = r /\ job[j].ord = worker[r].ord
Answered(r) == job[Sent(r)].state \notin {"sent", "refused"}

HearAcceptedAsNext(r) ==
    /\ Facing(r, "submitting")
    /\ Answered(r)
    /\ worker' = Seeing(r, Row("submitted", Len(job) + 1), "saving")
    /\ UNCHANGED <<run, row, lock, request, job, misread, restarts>>

HearAccepted(r) ==
    /\ Facing(r, "submitting")
    /\ Answered(r)
    /\ worker' = Seeing(r, Row("submitted", Sent(r)), "saving")
    /\ UNCHANGED <<run, row, lock, request, job, misread, restarts>>

\* The exception branch: a refusal is final, a failed call is not known.
SubmitFails(r, s) ==
    /\ SaveRow(r, worker[r].ord, Row(s, 0))
    /\ Settled(r, Row(s, 0))
    /\ UNCHANGED <<run, lock, request, job, restarts>>

HearRefused(r) ==
    /\ Facing(r, "submitting")
    /\ job[Sent(r)].state = "refused"
    /\ SubmitFails(r, "failed")
    /\ UNCHANGED misread

NothingIsRefusal(r) == Facing(r, "submitting") /\ SubmitFails(r, "failed") /\ UNCHANGED misread

HearNothing(r) == Facing(r, "submitting") /\ SubmitFails(r, "unknown") /\ UNCHANGED misread

\* A reply that is not JSON, or that has no id and no error status.
HearGarbled(r) ==
    /\ "garbled" \in Hazards
    /\ Facing(r, "submitting")
    /\ Answered(r)
    /\ SubmitFails(r, "failed")
    /\ misread' = misread \cup {Sent(r)}

(***************************************************************************)
(* A row of an earlier attempt: with an id it is polled (a succeeded one   *)
(* again, for its file), without one it fails or is passed over.           *)
(***************************************************************************)
Follow(r) ==
    /\ Facing(r, "next")
    /\ Task(r).job # 0
    /\ Task(r).status \notin {"failed", "cancelled"}
    /\ worker' = Seeing(r, IF Task(r).status = "succeeded" THEN Row("running", Task(r).job) ELSE Task(r),
                        "polling")
    /\ UNCHANGED <<run, row, lock, request, job, misread, restarts>>

PassOver(r) ==
    /\ Facing(r, "next")
    /\ Task(r).status \in {"failed", "cancelled"} \/ Task(r) = Row("unknown", 0)
    /\ Settled(r, Task(r))
    /\ UNCHANGED <<run, row, lock, request, job, misread, restarts>>

(***************************************************************************)
(* _poll_until_terminal.  Polls that tell nothing new are left out.        *)
(***************************************************************************)
PollAnswer(j) ==
    CASE job[j].state = "won" -> "succeeded"
      [] job[j].state \in {"lost", "cancelled"} -> "failed"
      [] OTHER -> "running"

Poll(r) ==
    LET answer == Row(PollAnswer(Task(r).job), Task(r).job) IN
    /\ Facing(r, "polling")
    /\ answer # Task(r)
    /\ worker' = Seeing(r, answer, "saving")
    /\ UNCHANGED <<run, row, lock, request, job, misread, restarts>>

Save(r) ==
    /\ Facing(r, "saving")
    /\ SaveRow(r, worker[r].ord, Task(r))
    /\ IF Task(r).status \in TaskDone THEN Settled(r, Task(r)) ELSE worker' = At(r, "polling")
    /\ UNCHANGED <<run, lock, request, job, misread, restarts>>

Timeout(r) ==
    /\ Facing(r, "polling")
    /\ SaveRow(r, worker[r].ord, Row("unknown", Task(r).job))
    /\ Settled(r, Row("unknown", Task(r).job))
    /\ UNCHANGED <<run, lock, request, job, misread, restarts>>

(***************************************************************************)
(* The end of the run: an error outside an ordinal's own handling (a poll  *)
(* that fails, inputs that changed, a row left pending without an id), or  *)
(* the last ordinal.                                                       *)
(***************************************************************************)
EndWork(r) ==
    /\ worker' = [worker EXCEPT ![r] = NoWorker]
    /\ lock' = "free"

Fails(r) ==
    /\ worker[r].at \in {"next", "polling"}
    /\ run' = MarkTerminal(r, "failed")
    /\ EndWork(r)
    /\ UNCHANGED <<row, request, job, misread, restarts>>

Finish(r) ==
    /\ worker[r].at = "next" /\ worker[r].ord > N
    /\ run' = IF \E o \in Ordinals : worker[r].seen[o].status = "succeeded"
              THEN WithStatus(r, "completed") ELSE MarkTerminal(r, "failed")
    /\ EndWork(r)
    /\ UNCHANGED <<row, request, job, misread, restarts>>
-------------------------------------------------------------------------------
(***************************************************************************)
(* The provider.                                                           *)
(***************************************************************************)
Becomes(j, s) == job' = [job EXCEPT ![j].state = s]

Provide(j) ==
    /\ \/ job[j].state = "sent" /\ \E s \in {"refused", "working"} : Becomes(j, s)
       \/ job[j].state = "working" /\ \E s \in {"won", "lost"} : Becomes(j, s)
    /\ UNCHANGED <<run, row, worker, lock, request, misread, restarts>>
-------------------------------------------------------------------------------
(***************************************************************************)
(* cancel_generation_run: the status is read and saved with no lock held,  *)
(* then cancel_run goes through a list of the rows it read once, asking    *)
(* the provider and saving its own copy of the row; then the task is       *)
(* cancelled.                                                              *)
(***************************************************************************)
CancelRead(u, r) ==
    /\ "cancel" \in Hazards
    /\ request[u] = Idle
    /\ run[r].status \in ACTIVE
    /\ request' = [request EXCEPT ![u] = [Idle EXCEPT !.op = "cancel", !.run = r]]
    /\ UNCHANGED <<run, row, worker, lock, job, misread, restarts>>

CancelSave(u) ==
    LET r == request[u].run IN
    /\ request[u].op = "cancel"
    /\ run' = WithStatus(r, "cancellation_requested")
    /\ request' = [request EXCEPT ![u] = [op |-> "tasks", run |-> r, ord |-> 1, seen |-> row[r]]]
    /\ UNCHANGED <<row, worker, lock, job, misread, restarts>>

Onward(u) == request' = [request EXCEPT ![u].ord = @ + 1]

\* Three of the four adapters take 404 and 409 for a cancellation too, whatever
\* has become of the job.
CancelTask(u) ==
    LET o == request[u].ord
        task == request[u].seen[o]
    IN
    /\ request[u].op = "tasks" /\ o \in Ordinals
    /\ IF task.job = 0 \/ task.status \in TaskDone
       THEN UNCHANGED <<row, job, misread>>
       ELSE \/ SaveRow(request[u].run, o, task) /\ UNCHANGED <<job, misread>>
            \/ /\ job[task.job].state \in {"working", "cancelled"}
               /\ Becomes(task.job, "cancelled")
               /\ SaveRow(request[u].run, o, Row("cancelled", task.job))
               /\ UNCHANGED misread
            \/ /\ misread' = misread \cup {task.job}
               /\ SaveRow(request[u].run, o, Row("cancelled", task.job))
               /\ UNCHANGED job
    /\ Onward(u)
    /\ UNCHANGED <<run, worker, lock, restarts>>

\* A save the task was waiting for may still reach the database.
Killed(r) ==
    /\ worker' = [worker EXCEPT ![r] = NoWorker]
    /\ lock' = IF worker[r].at \notin {"none", "scheduled", "claimed"} THEN "free" ELSE lock
    /\ \/ UNCHANGED row
       \/ Facing(r, "saving") /\ SaveRow(r, worker[r].ord, Task(r))

CancelFinishTaskLeft(u) ==
    /\ request[u].op = "tasks" /\ request[u].ord > N
    /\ run' = MarkTerminal(request[u].run, "cancelled")
    /\ request' = [request EXCEPT ![u] = Idle]
    /\ UNCHANGED <<row, worker, lock, job, misread, restarts>>

CancelFinish(u) ==
    /\ request[u].op = "tasks" /\ request[u].ord > N
    /\ Killed(request[u].run)
    /\ run' = MarkTerminal(request[u].run, "cancelled")
    /\ request' = [request EXCEPT ![u] = Idle]
    /\ UNCHANGED <<job, misread, restarts>>

(***************************************************************************)
(* retry_generation_run: refused while a request of the source may have    *)
(* been accepted without an id; then, under the project lock, the new run  *)
(* is saved and the source's rows are copied to it one by one, except      *)
(* those that bought nothing; then the run is scheduled.                   *)
(***************************************************************************)
AmbiguityIgnored(r) == \E o \in Ordinals : row[r][o] = Row("pending", 0)

Ambiguous(r) == \E o \in Ordinals : row[r][o] \in {Row("pending", 0), Row("unknown", 0)}

RetrySave(u, r) ==
    /\ Len(run) < MaxRuns
    /\ request[u] = Idle
    /\ run[r].status \in {"failed", "cancelled"}
    /\ ~Ambiguous(r)
    /\ lock = "free"
    /\ Live = {}
    /\ Enqueue(r)
    /\ lock' = "request"
    /\ request' = [request EXCEPT ![u] = [op |-> "retry", run |-> Len(run) + 1, ord |-> 1, seen |-> row[r]]]
    /\ UNCHANGED <<row, worker, job, misread, restarts>>

RetryCopy(u) ==
    LET o == request[u].ord
        task == request[u].seen[o]
    IN
    /\ request[u].op = "retry" /\ o \in Ordinals
    /\ IF task.job = 0 \/ task.status \in {"failed", "cancelled"}
       THEN UNCHANGED row ELSE SaveRow(request[u].run, o, task)
    /\ Onward(u)
    /\ UNCHANGED <<run, worker, lock, job, misread, restarts>>

RetryDone(u) ==
    /\ request[u].op = "retry" /\ request[u].ord > N
    /\ worker' = Scheduled(request[u].run)
    /\ lock' = "free"
    /\ request' = [request EXCEPT ![u] = Idle]
    /\ UNCHANGED <<run, row, job, misread, restarts>>

(***************************************************************************)
(* The process stops, by a crash or by shutdown_generation_runs, which     *)
(* cancels the tasks first, and starts again (recover_generation_runs): a  *)
(* run that was generating goes on if every row it has is identified or    *)
(* bought nothing.                                                         *)
(***************************************************************************)
Resumable(r) ==
    /\ \E o \in Ordinals : row[r][o].status # "none"
    /\ \A o \in Ordinals : row[r][o].status # "none"
         => row[r][o].job # 0 \/ row[r][o].status \in {"failed", "cancelled"}

Recovered(r, s) ==
    CASE s = "cancellation_requested" -> "cancelled"
      [] s = "running" -> IF Resumable(r) THEN "queued" ELSE "failed"
      [] OTHER -> s

Shut(r) == IF worker[r].at # "none" /\ run[r].status \notin Terminal THEN "cancelled" ELSE run[r].status

RestartUnscheduled(after) ==
    /\ "crash" \in Hazards
    /\ restarts < MaxRestarts
    /\ restarts' = restarts + 1
    /\ \A u \in Users : request[u].op = "retry" => "crash_in_retry" \in Hazards
    /\ run' = [r \in DOMAIN run |-> [run[r] EXCEPT !.status = after[r]]]
    /\ worker' = [r \in RunIds |-> NoWorker]
    /\ lock' = "free"
    /\ request' = [u \in Users |-> Idle]
    /\ UNCHANGED <<row, job, misread>>

RestartWith(after) ==
    /\ "crash" \in Hazards
    /\ restarts < MaxRestarts
    /\ restarts' = restarts + 1
    /\ \A u \in Users : request[u].op = "retry" => "crash_in_retry" \in Hazards
    /\ run' = [r \in DOMAIN run |-> [run[r] EXCEPT !.status = after[r]]]
    /\ worker' = [r \in RunIds |-> IF r \in DOMAIN run /\ after[r] = "queued"
                                   THEN [NoWorker EXCEPT !.at = "scheduled"] ELSE NoWorker]
    /\ lock' = "free"
    /\ request' = [u \in Users |-> Idle]
    /\ UNCHANGED <<row, job, misread>>

Crash == RestartWith([r \in DOMAIN run |-> Recovered(r, run[r].status)])
Shutdown == RestartWith([r \in DOMAIN run |-> Recovered(r, Shut(r))])
-------------------------------------------------------------------------------
WorkStep(r) ==
    \/ Claim(r) \/ Begin(r) \/ Submit(r) \/ HearAccepted(r) \/ HearRefused(r) \/ HearNothing(r)
    \/ Follow(r) \/ PassOver(r) \/ Poll(r) \/ Save(r) \/ Timeout(r) \/ Finish(r)

RequestStep(u) ==
    CancelSave(u) \/ CancelTask(u) \/ CancelFinish(u) \/ RetryCopy(u) \/ RetryDone(u)

Next ==
    \/ Generate
    \/ \E r \in DOMAIN run : WorkStep(r) \/ Fails(r) \/ HearGarbled(r)
    \/ \E j \in DOMAIN job : Provide(j)
    \/ \E u \in Users : RequestStep(u) \/ \E r \in DOMAIN run : CancelRead(u, r) \/ RetrySave(u, r)
    \/ Crash \/ Shutdown

Spec == Init /\ [][Next]_vars

(***************************************************************************)
(* Tasks and requests are scheduled, and every call to a provider ends:    *)
(* the HTTP clients have a timeout and the poll loop a deadline.  Nothing  *)
(* is assumed of the provider or of the users.                             *)
(***************************************************************************)
Fairness ==
    /\ \A r \in RunIds : WF_vars(r \in DOMAIN run /\ WorkStep(r))
    /\ \A u \in Users : WF_vars(RequestStep(u))

FairSpec == Spec /\ Fairness
-------------------------------------------------------------------------------
TypeOK ==
    /\ run \in Seq([status : ACTIVE \cup Terminal, of : {0} \cup RunIds]) /\ Len(run) <= MaxRuns
    /\ row \in [RunIds -> Rows]
    /\ worker \in [RunIds -> [at : {"none", "scheduled", "claimed", "next", "submitting", "saving", "polling"},
                              ord : 0..(N + 1), seen : Rows]]
    /\ lock \in {"free", "run", "request"}
    /\ request \in [Users -> [op : {"idle", "cancel", "tasks", "retry"},
                              run : {0} \cup RunIds, ord : 0..(N + 1), seen : Rows]]
    /\ job \in Seq([run : RunIds, ord : Ordinals, state : JobState]) /\ Len(job) <= MaxRuns * N
    /\ \A r \in RunIds, o \in Ordinals : row[r][o].job \in {0} \cup DOMAIN job
    /\ misread \in SUBSET DOMAIN job
    /\ restarts \in 0..MaxRestarts

(***************************************************************************)
(* "Recover the tasks there are and go on polling, never submit and pay    *)
(* twice": over a run and the runs it retries, at most one job per ordinal *)
(* is on its way to the provider, being worked on or delivered.  The       *)
(* exceptions are jobs whose garbled acceptance was taken for a refusal,   *)
(* or whose 404 or 409 was taken for a cancellation: the retry pays again. *)
(***************************************************************************)
WithAncestors(S) == \A s \in S : run[s].of # 0 => run[s].of \in S
Lineage(r) == {s \in DOMAIN run : \A S \in SUBSET DOMAIN run : r \in S /\ WithAncestors(S) => s \in S}

PaidOnce ==
    \A r \in DOMAIN run, o \in Ordinals :
        Cardinality({j \in DOMAIN job : /\ job[j].run \in Lineage(r) /\ job[j].ord = o
                                        /\ job[j].state \in MayBePaid /\ j \notin misread}) <= 1

(***************************************************************************)
(* A job that may be paid for is never forgotten: its row names it, or     *)
(* says that the submission is not known, which refuses a retry until a    *)
(* person has looked; unless a reply about it was misread.                 *)
(***************************************************************************)
JobsKept ==
    \A j \in DOMAIN job :
        job[j].state \in MayBePaid /\ j \notin misread
          => row[job[j].run][job[j].ord] \in
                 {Row("pending", 0), Row("unknown", 0)} \cup [status : {"submitted", "running", "unknown", "succeeded"}, job : {j}]

(***************************************************************************)
(* A run that is over has no task at work: cancelling, failing and         *)
(* completing never leave one that goes on calling the provider.           *)
(***************************************************************************)
OverIsOver ==
    \A r \in DOMAIN run :
        worker[r].at \notin {"none", "scheduled"} => run[r].status \in ACTIVE

(***************************************************************************)
(* A run that was started ends, whatever the provider does and although    *)
(* the process restarts.                                                   *)
(***************************************************************************)
RunEnds ==
    \A r \in RunIds : r \in Live ~> r \notin Live
===============================================================================
