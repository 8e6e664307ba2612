---------------------------- MODULE GenerationRuns ----------------------------
(***************************************************************************)
(* The image generation runs of one production project                     *)
(* (viral_dna_api/production.py): the durable rows, the asyncio task that  *)
(* works on each of them, and the HTTP requests that cancel, retry or      *)
(* recover them.  A run is submitted to a paid provider by the task that   *)
(* claims it.  What the pictures are is left out; what is kept of an error *)
(* is whether its code is in image_batches.UNSAFE, that is, whether the    *)
(* provider may have done (and charged for) the work.                      *)
(***************************************************************************)
EXTENDS Naturals, Sequences, FiniteSets

CONSTANTS
    Beats,      \* the pictures ("visual beats") of the project
    Batches,    \* ids of image batches a run can be tagged with
    NoBatch,    \* the tag of a run started outside any batch
    Users,      \* requests that can be in progress at the same time
    MaxRuns     \* bound: rows ever created in generation_runs

ASSUME RunsAssumption ==
    /\ IsFiniteSet(Beats) /\ IsFiniteSet(Batches) /\ IsFiniteSet(Users)
    /\ MaxRuns \in Nat
    /\ NoBatch \notin Batches

VARIABLES
    run,        \* generation_runs, in creation order
    worker,     \* _generation_tasks: the asyncio task of each run
    request,    \* the cancel, retry or trash request of each user
    trashed     \* ProductionProject.trashed_at is set

runVars == <<run, worker, request, trashed>>

(***************************************************************************)
(* FAILED is split in two: "failed" carries a code outside UNSAFE (nothing *)
(* was bought), "uncertain" one inside it.  CANCELLED always carries       *)
(* generation_cancelled, which is in UNSAFE.                               *)
(***************************************************************************)
ACTIVE == {"queued", "running", "cancellation_requested"}
UNSAFE == {"uncertain", "cancelled"}
Terminal == UNSAFE \cup {"completed", "failed"}

RunIds == 1..MaxRuns

\* "bought" is not a column: it records what the provider really did, which
\* the status may not tell (a cancellation can overwrite a result).
RunRow == [beat : Beats, batch : Batches \cup {NoBatch}, by : {"batch", "user"},
           status : ACTIVE \cup Terminal, bought : {"no", "maybe", "yes"}]

Idle == [op |-> "idle", run |-> 0]

RunsInit ==
    /\ run = <<>>
    /\ worker = [r \in RunIds |-> "none"]
    /\ request = [u \in Users |-> Idle]
    /\ trashed = FALSE

Of(p) == {r \in DOMAIN run : run[r].beat = p}
Live(p) == {r \in Of(p) : run[r].status \in ACTIVE}
First(S) == CHOOSE r \in S : \A q \in S : r <= q
Last(S) == CHOOSE r \in S : \A q \in S : r >= q

WithStatus(r, s) == [run EXCEPT ![r].status = s]

(***************************************************************************)
(* A run that failed bought nothing.  Simplification: an answer without    *)
(* pictures and metadata that cannot be read again fail a run after its    *)
(* provider has answered, with codes outside UNSAFE, and may cost.         *)
(***************************************************************************)
WithResult(r, s) ==
    [run EXCEPT ![r].status = s,
                ![r].bought = CASE s = "completed" -> "yes" [] s = "failed" -> "no" [] OTHER -> "maybe"]

(***************************************************************************)
(* _enqueue_image_run after its checks, and _schedule_image_run.           *)
(***************************************************************************)
Enqueue(p, b, who) ==
    run' = Append(run, [beat |-> p, batch |-> b, by |-> who,
                         status |-> "queued", bought |-> "no"])

Scheduled(r) == [worker EXCEPT ![r] = IF @ = "none" THEN "scheduled" ELSE @]

(***************************************************************************)
(* create_image_run: check and insert under the project lock.              *)
(***************************************************************************)
Generate(p) ==
    /\ ~trashed
    /\ Live(p) = {}
    /\ Enqueue(p, NoBatch, "user")
    /\ worker' = Scheduled(Len(run) + 1)
    /\ UNCHANGED <<request, trashed>>

(***************************************************************************)
(* _run_queued_image.  Claiming is one SQLite transaction; a row that is   *)
(* no longer QUEUED ends the task.                                         *)
(***************************************************************************)
Claim(r) ==
    /\ worker[r] = "scheduled"
    /\ IF run[r].status = "queued"
       THEN /\ run' = WithResult(r, "running")
            /\ worker' = [worker EXCEPT ![r] = "working"]
       ELSE /\ worker' = [worker EXCEPT ![r] = "none"]
            /\ UNCHANGED run
    /\ UNCHANGED <<request, trashed>>

(***************************************************************************)
(* _execute_image_run_request: the provider answered and the result is     *)
(* saved, without reading the row's status again: pictures, a refusal, or  *)
(* an outcome nobody knows.  In a trashed project it fails before the      *)
(* provider is called.                                                     *)
(***************************************************************************)
Answers == IF trashed THEN {"failed"} ELSE {"completed", "failed", "uncertain"}

Finish(r) ==
    /\ worker[r] = "working"
    /\ \E s \in Answers : run' = WithResult(r, s)
    /\ worker' = [worker EXCEPT ![r] = "none"]
    /\ UNCHANGED <<request, trashed>>

(***************************************************************************)
(* cancel_generation_run: the status is read, then CANCELLATION_REQUESTED  *)
(* is saved with no lock held in between and the task is told to stop;     *)
(* when the task is gone the row becomes CANCELLED unless it is terminal.  *)
(***************************************************************************)
Ask(u, op, r) == request' = [request EXCEPT ![u] = [op |-> op, run |-> r]]

CancelRead(u, r) ==
    /\ request[u] = Idle
    /\ run[r].status \in ACTIVE
    /\ Ask(u, "cancel", r)
    /\ UNCHANGED <<run, worker, trashed>>

CancelSave(u) ==
    LET r == request[u].run IN
    /\ request[u].op = "cancel"
    /\ run' = WithStatus(r, "cancellation_requested")
    /\ worker' = [worker EXCEPT ![r] = "none"]
    /\ Ask(u, "cancelled", r)
    /\ UNCHANGED trashed

MarkTerminal(r, s) == IF run[r].status \in Terminal THEN run ELSE WithStatus(r, s)

CancelFinish(u) ==
    /\ request[u].op = "cancelled"
    /\ run' = MarkTerminal(request[u].run, "cancelled")
    /\ request' = [request EXCEPT ![u] = Idle]
    /\ UNCHANGED <<worker, trashed>>

(***************************************************************************)
(* retry_generation_run for an image: unlike create_image_run it does not  *)
(* hold the project lock, so other requests can run between the check for  *)
(* an active run and the insert.                                           *)
(***************************************************************************)
RetryCheck(u, r) ==
    /\ ~trashed
    /\ request[u] = Idle
    /\ run[r].status \in UNSAFE \cup {"failed"}
    /\ Live(run[r].beat) = {}
    /\ Ask(u, "retry", r)
    /\ UNCHANGED <<run, worker, trashed>>

RetrySave(u) ==
    /\ request[u].op = "retry"
    /\ Enqueue(run[request[u].run].beat, run[request[u].run].batch, "user")
    /\ worker' = Scheduled(Len(run) + 1)
    /\ request' = [request EXCEPT ![u] = Idle]
    /\ UNCHANGED trashed

(***************************************************************************)
(* recover_image_generation_output: pictures a local tool left behind are  *)
(* adopted.  The errors a local tool's run ends with after it has started  *)
(* are all in UNSAFE.                                                      *)
(***************************************************************************)
RecoverOutput(r) ==
    /\ ~trashed
    /\ run[r].status = "uncertain"
    /\ run' = WithResult(r, "completed")
    /\ UNCHANGED <<worker, request, trashed>>

(***************************************************************************)
(* The second half of trash_project, under the project lock, and           *)
(* restore_project.                                                        *)
(***************************************************************************)
Cancelled(row) == IF row.status \in ACTIVE THEN [row EXCEPT !.status = "cancelled"] ELSE row

TrashRuns(u) ==
    /\ request[u].op = "trash"
    /\ request' = [request EXCEPT ![u] = Idle]
    /\ trashed' = TRUE
    /\ run' = IF trashed THEN run ELSE [r \in DOMAIN run |-> Cancelled(run[r])]
    /\ worker' = IF trashed THEN worker ELSE [r \in RunIds |-> "none"]

Restore ==
    /\ trashed
    /\ trashed' = FALSE
    /\ UNCHANGED <<run, worker, request>>

(***************************************************************************)
(* The process stops and starts again: tasks and requests are gone, and    *)
(* recover_generation_runs goes through the rows.  A queued run of a batch *)
(* is left to its batch.                                                   *)
(***************************************************************************)
Recovered(s) ==
    CASE s = "cancellation_requested" -> "cancelled"
      [] s = "running" -> "uncertain"
      [] OTHER -> s

RestartRuns ==
    /\ run' = IF trashed THEN run
              ELSE [r \in DOMAIN run |-> [run[r] EXCEPT !.status = Recovered(@)]]
    /\ worker' = [r \in RunIds |->
                    IF ~trashed /\ r \in DOMAIN run /\ run[r].status = "queued" /\ run[r].batch = NoBatch
                    THEN "scheduled" ELSE "none"]
    /\ request' = [u \in Users |-> Idle]
    /\ UNCHANGED trashed

RunsTypeOK ==
    /\ run \in Seq(RunRow) /\ Len(run) <= MaxRuns
    /\ worker \in [RunIds -> {"none", "scheduled", "working"}]
    /\ \A r \in RunIds : worker[r] # "none" => r \in DOMAIN run
    /\ request \in [Users -> [op : {"idle", "cancel", "cancelled", "retry", "trash"},
                              run : {0} \cup RunIds]]
    /\ \A u \in Users : request[u].op \in {"cancel", "cancelled", "retry"}
                          => request[u].run \in DOMAIN run
    /\ trashed \in BOOLEAN
===============================================================================
