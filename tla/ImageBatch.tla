------------------------------ MODULE ImageBatch ------------------------------
(***************************************************************************)
(* ImageBatchService (viral_dna_api/image_batches.py): a batch is a saved  *)
(* list of items, one for each picture, executed by one asyncio task with  *)
(* a child task per item over the generation runs of the project.  The run *)
(* of an item and its membership in the batch are saved one after the      *)
(* other, under the batch lock.                                            *)
(*                                                                         *)
(* Heartbeats, costs, candidate ids and the text of errors are left out.   *)
(* The semaphores bound how many children run: here a waiting child starts *)
(* at any time, which covers every bound.                                  *)
(***************************************************************************)
EXTENDS GenerationRuns

CONSTANTS
    Hazards,     \* which of "crash", "fault", "trash", "cancel", "retry", "generate" may happen
    MaxUserRuns, \* bound: runs users start outside the batches (generate, retry)
    MaxTroubles  \* bound: crashes, faults and trashings in a behaviour

ASSUME BatchAssumption ==
    /\ Hazards \subseteq {"crash", "fault", "trash", "cancel", "retry", "generate"}
    /\ MaxUserRuns \in Nat /\ MaxTroubles \in Nat

VARIABLES
    batch,      \* image_batches: status and items of each batch
    made,       \* the batches in creation order
    task,       \* ImageBatchService.tasks: the task of each batch
    child,      \* where the child of each item is, and the run it knows of
    troubles    \* crashes, faults and trashings so far

batchVars == <<batch, made, task, child, troubles>>
vars == <<runVars, batchVars>>

OPEN == {"running", "stopping"}
BatchStatus == OPEN \cup {"none", "completed", "partial", "cancelled", "interrupted"}
ItemStatus == {"pending", "running", "completed", "skipped", "failed", "cancelled", "unknown"}

Item(s, r) == [status |-> s, run |-> r]
NoChild == [at |-> "none", run |-> 0]
NoItem == Item("skipped", 0)

Init ==
    /\ RunsInit
    /\ batch = [b \in Batches |-> [status |-> "none", item |-> [p \in Beats |-> NoItem]]]
    /\ made = <<>>
    /\ task = [b \in Batches |-> "none"]
    /\ child = [b \in Batches |-> [p \in Beats |-> NoChild]]
    /\ troubles = 0

It(b, p) == batch[b].item[p]
Pending(b) == {p \in Beats : It(b, p).status = "pending"}

(***************************************************************************)
(* MaxRuns bounds what users ask for, never what a batch has promised.     *)
(***************************************************************************)
Promised == {x \in Batches \X Beats : batch[x[1]].status \in OPEN
                                      /\ It(x[1], x[2]).status = "pending"}
Retrying == {u \in Users : request[u].op = "retry"}

Room(n) == Len(run) + Cardinality(Promised) + Cardinality(Retrying) + n <= MaxRuns

UserRoom ==
    /\ Room(1)
    /\ Cardinality({r \in DOMAIN run : run[r].by = "user"}) + Cardinality(Retrying) < MaxUserRuns

Trouble(kind) ==
    /\ kind \in Hazards
    /\ troubles < MaxTroubles
    /\ troubles' = troubles + 1

(***************************************************************************)
(* The batch lock is held from dispatch's look at the batch, over the wait *)
(* for the project lock and the insertion of the run, to the saving of the *)
(* membership; every other section under it is one step here.              *)
(***************************************************************************)
LockFree(b) == \A p \in Beats : child[b][p].at \notin {"checked", "enqueued"}

SetItem(b, p, i) == batch' = [batch EXCEPT ![b].item[p] = i]
SetChild(b, p, c) == child' = [child EXCEPT ![b][p] = c]

(***************************************************************************)
(* What preview says of one picture.  want is what the beat asks for once  *)
(* no run stands in the way: "pending", "failed" (an invalid prompt or     *)
(* reference) or "skipped" (only the missing pictures are asked for and    *)
(* this one is there).                                                     *)
(***************************************************************************)
Fresh(p, want) ==
    IF Live(p) # {} THEN Item("running", First(Live(p)))
    ELSE IF Of(p) # {} /\ run[Last(Of(p))].status \in UNSAFE THEN Item("unknown", Last(Of(p)))
    ELSE Item(want, 0)

Pictured(p) == \E r \in Of(p) : run[r].status = "completed"

Wants == {w \in [Beats -> {"pending", "failed", "skipped", "gone"}] :
            \A p \in Beats : w[p] = "skipped" => Pictured(p)}

Latest == made[Len(made)]

Create(b, want) ==
    LET items == [p \in Beats |-> Fresh(p, want[p])] IN
    /\ ~trashed
    /\ batch[b].status = "none"
    /\ made # <<>> => batch[Latest].status \notin OPEN
    /\ \A p \in Beats : items[p].status \in {"pending", "skipped"}
    /\ Room(Cardinality({p \in Beats : items[p].status = "pending"}))
    /\ batch' = [batch EXCEPT ![b] = [status |-> "running", item |-> items]]
    /\ made' = Append(made, b)
    /\ task' = [task EXCEPT ![b] = "scheduled"]
    /\ UNCHANGED <<runVars, child, troubles>>

(***************************************************************************)
(* The first step of run(batch_id): one child for every unfinished item.   *)
(***************************************************************************)
TaskStart(b) ==
    /\ task[b] = "scheduled"
    /\ task' = [task EXCEPT ![b] = "running"]
    /\ child' = [child EXCEPT ![b] =
                   [p \in Beats |-> IF It(b, p).status \in {"pending", "running"}
                                    THEN [at |-> "waiting", run |-> It(b, p).run] ELSE NoChild]]
    /\ UNCHANGED <<runVars, batch, made, troubles>>

(***************************************************************************)
(* execute_item after a slot is free.  An item with a run is followed, and *)
(* its run scheduled if it is still queued.                                *)
(***************************************************************************)
FollowUnscheduled(b, p) ==
    /\ child[b][p].at = "waiting"
    /\ It(b, p).status = "running"
    /\ SetChild(b, p, [at |-> "polling", run |-> It(b, p).run])
    /\ UNCHANGED <<runVars, batch, made, task, troubles>>

Follow(b, p) ==
    LET r == It(b, p).run IN
    /\ child[b][p].at = "waiting"
    /\ It(b, p).status = "running"
    /\ SetChild(b, p, [at |-> "polling", run |-> r])
    /\ worker' = IF run[r].status = "queued" THEN Scheduled(r) ELSE worker
    /\ UNCHANGED <<run, request, trashed, batch, made, task, troubles>>

(***************************************************************************)
(* dispatch, under the batch lock: an item no longer pending, or a batch   *)
(* no longer running, is left alone.  Then, under the project lock too: an *)
(* input edited since, a trashed project or an active run of the beat      *)
(* refuses the item; else its run is inserted.                             *)
(***************************************************************************)
MayDispatch(b, p) == batch[b].status = "running" /\ It(b, p).status = "pending"

DispatchTurn(b, p) ==
    /\ child[b][p].at = "waiting"
    /\ It(b, p).status # "running"
    /\ LockFree(b)

LeaveAlone(b, p) ==
    /\ DispatchTurn(b, p)
    /\ ~MayDispatch(b, p)
    /\ SetChild(b, p, NoChild)
    /\ UNCHANGED <<runVars, batch, made, task, troubles>>

DispatchCheck(b, p) ==
    /\ DispatchTurn(b, p)
    /\ MayDispatch(b, p)
    /\ SetChild(b, p, [at |-> "checked", run |-> 0])
    /\ UNCHANGED <<runVars, batch, made, task, troubles>>

DispatchUnsaved(b, p) ==
    /\ child[b][p].at = "checked"
    /\ ~trashed
    /\ Live(p) = {}
    /\ SetChild(b, p, [at |-> "enqueued", run |-> Len(run) + 1])
    /\ UNCHANGED <<runVars, batch, made, task, troubles>>

DispatchUnchecked(b, p) ==
    /\ child[b][p].at = "checked"
    /\ ~trashed
    /\ Enqueue(p, b, "batch")
    /\ SetChild(b, p, [at |-> "enqueued", run |-> Len(run) + 1])
    /\ UNCHANGED <<worker, request, trashed, batch, made, task, troubles>>

Dispatch(b, p) ==
    /\ child[b][p].at = "checked"
    /\ ~trashed
    /\ Live(p) = {}
    /\ Enqueue(p, b, "batch")
    /\ SetChild(b, p, [at |-> "enqueued", run |-> Len(run) + 1])
    /\ UNCHANGED <<worker, request, trashed, batch, made, task, troubles>>

SaveMembership(b, p) ==
    LET r == child[b][p].run IN
    /\ child[b][p].at = "enqueued"
    /\ SetItem(b, p, Item("running", r))
    /\ SetChild(b, p, [at |-> "polling", run |-> r])
    /\ worker' = Scheduled(r)
    /\ UNCHANGED <<run, request, trashed, made, task, troubles>>

(***************************************************************************)
(* The poll loop of execute_item sees a run that is no longer active.      *)
(***************************************************************************)
Outcome(s) ==
    CASE s = "completed" -> "completed"
      [] s \in UNSAFE -> "unknown"
      [] OTHER -> "failed"

Settle(b, p) ==
    LET r == child[b][p].run IN
    /\ child[b][p].at = "polling"
    /\ run[r].status \in Terminal
    /\ LockFree(b)
    /\ SetItem(b, p, Item(Outcome(run[r].status), r))
    /\ SetChild(b, p, NoChild)
    /\ UNCHANGED <<runVars, made, task, troubles>>

(***************************************************************************)
(* The except branch of execute_item: the first active run tagged with     *)
(* this batch and beat is retained.  It is reached when dispatch is        *)
(* refused, and by a failing read or write of the database.                *)
(***************************************************************************)
Tagged(b, p) == {r \in Of(p) : run[r].batch = b}

Excepted(b, p, known) ==
    LET linked == Tagged(b, p) \cap Live(p) IN
    /\ SetItem(b, p, IF linked # {} THEN Item("unknown", First(linked)) ELSE Item("failed", known))
    /\ SetChild(b, p, NoChild)
    /\ UNCHANGED <<runVars, made, task>>

DispatchRefused(b, p) ==
    /\ child[b][p].at = "checked"
    /\ Excepted(b, p, 0)
    /\ UNCHANGED troubles

StoreFault(b, p) ==
    /\ Trouble("fault")
    /\ \/ child[b][p].at = "enqueued" /\ Excepted(b, p, 0)
       \/ child[b][p].at = "polling" /\ LockFree(b) /\ Excepted(b, p, child[b][p].run)

(***************************************************************************)
(* The end of run(batch_id): when every child is done; after a             *)
(* cancellation (the children are cancelled first, and a second            *)
(* cancellation meanwhile skips the save); or on an exception.             *)
(***************************************************************************)
FinalStatus(items) ==
    LET seen == {items[p].status : p \in Beats} IN
    IF seen \cap {"failed", "unknown"} # {} THEN "partial"
    ELSE IF "cancelled" \in seen THEN "cancelled" ELSE "completed"

Childless(b) == \A p \in Beats : child[b][p] = NoChild

EndTask(b, s, items) ==
    /\ batch' = [batch EXCEPT ![b] = [status |-> s, item |-> items]]
    /\ task' = [task EXCEPT ![b] = "none"]

TaskFinish(b) ==
    /\ task[b] = "running"
    /\ Childless(b)
    /\ EndTask(b, FinalStatus(batch[b].item), batch[b].item)
    /\ UNCHANGED <<runVars, made, child, troubles>>

TaskInterrupted(b) ==
    /\ task[b] = "cancelling"
    /\ EndTask(b, "interrupted", batch[b].item)
    /\ UNCHANGED <<runVars, made, child, troubles>>

BrokenToPending(i) == IF i.status \notin {"pending", "running"} THEN i ELSE Item("pending", i.run)

Broken(i) ==
    IF i.status \notin {"pending", "running"} THEN i
    ELSE Item(IF i.run # 0 THEN "unknown" ELSE "failed", i.run)

TaskFails(b) ==
    /\ task[b] = "running"
    /\ Trouble("fault")
    /\ EndTask(b, "interrupted", [p \in Beats |-> Broken(It(b, p))])
    /\ child' = [child EXCEPT ![b] = [p \in Beats |-> NoChild]]
    /\ UNCHANGED <<runVars, made>>

(***************************************************************************)
(* stop(project_id, batch_id), under the batch lock.                       *)
(***************************************************************************)
StopUnlocked(b) ==
    /\ ~trashed
    /\ batch[b].status = "running"
    /\ batch' = [batch EXCEPT ![b] =
                   [status |-> "stopping",
                    item |-> [p \in Beats |-> IF p \in Pending(b) THEN Item("cancelled", It(b, p).run)
                                                                  ELSE It(b, p)]]]
    /\ UNCHANGED <<runVars, made, task, child, troubles>>

StopStatusOnly(b) ==
    /\ ~trashed
    /\ LockFree(b)
    /\ batch[b].status = "running"
    /\ batch' = [batch EXCEPT ![b].status = "stopping"]
    /\ UNCHANGED <<runVars, made, task, child, troubles>>

Stop(b) ==
    /\ ~trashed
    /\ LockFree(b)
    /\ batch[b].status = "running"
    /\ batch' = [batch EXCEPT ![b] =
                   [status |-> "stopping",
                    item |-> [p \in Beats |-> IF p \in Pending(b) THEN Item("cancelled", It(b, p).run)
                                                                  ELSE It(b, p)]]]
    /\ UNCHANGED <<runVars, made, task, child, troubles>>

(***************************************************************************)
(* resume(project_id, batch_id), under the lock of the project's batches   *)
(* only.  Its call of recover_local_output is a RecoverOutput step before. *)
(***************************************************************************)
ResumeUnknown(b, p, want) ==
    LET i == It(b, p) IN
    IF i.status \in {"completed", "skipped"} THEN i
    ELSE IF i.run # 0 /\ run[i.run].status = "completed" THEN Item("completed", i.run)
    ELSE IF i.run # 0 /\ run[i.run].status \in ACTIVE THEN Item("running", i.run)
    ELSE IF want = "gone" THEN Item("skipped", i.run) ELSE Item(want, 0)

ResumedItem(b, p, want) ==
    LET i == It(b, p)
        RunIn(S) == i.run # 0 /\ run[i.run].status \in S
    IN  IF i.status \in {"completed", "skipped"} THEN i
        ELSE IF RunIn({"completed"}) THEN Item("completed", i.run)
        ELSE IF RunIn(ACTIVE) THEN Item("running", i.run)
        ELSE IF RunIn(UNSAFE) \/ (i.run # 0 /\ i.status = "unknown") THEN Item("unknown", i.run)
        ELSE IF want = "gone" THEN Item("skipped", i.run) ELSE Fresh(p, want)

Resume(b, want) ==
    LET items == [p \in Beats |-> ResumedItem(b, p, want[p])] IN
    /\ ~trashed
    /\ batch[b].status \notin OPEN \cup {"none"}
    /\ Latest = b \/ batch[Latest].status \notin OPEN
    /\ Room(Cardinality({p \in Beats : items[p].status = "pending"}))
    /\ batch' = [batch EXCEPT ![b] = [status |-> "running", item |-> items]]
    /\ task' = [task EXCEPT ![b] = IF @ = "none" THEN "scheduled" ELSE @]
    /\ UNCHANGED <<runVars, made, child, troubles>>

(***************************************************************************)
(* trash_project: pause_project cancels the tasks of the project's         *)
(* batches and waits for them.  A second cancellation reaches a task in    *)
(* the handler of the first one and ends it before it has saved anything.  *)
(* (A task takes its first step in the next turn of the event loop; that a *)
(* cancellation falls into the same turn is left out.)                     *)
(***************************************************************************)
Paused(t) == IF t = "running" THEN "cancelling" ELSE "none"

TrashBegin(u) ==
    /\ request[u] = Idle
    /\ ~trashed
    /\ \A b \in Batches : task[b] # "scheduled"
    /\ Trouble("trash")
    /\ Ask(u, "trash", 0)
    /\ task' = [b \in Batches |-> Paused(task[b])]
    /\ child' = [b \in Batches |-> [p \in Beats |-> NoChild]]
    /\ UNCHANGED <<run, worker, trashed, batch, made>>

TrashFinish(u) ==
    /\ \A b \in Batches : task[b] # "cancelling"
    /\ TrashRuns(u)
    /\ UNCHANGED batchVars

(***************************************************************************)
(* The process stops and starts: recover() after recover_generation_runs.  *)
(***************************************************************************)
LinkedRun(b, p) == IF Tagged(b, p) = {} THEN 0 ELSE First(Tagged(b, p))

RecoverToPending(b, p) ==
    LET i == It(b, p) IN
    IF i.status \in {"running", "unknown"} THEN Item("pending", 0) ELSE i

RecoveredItem(b, p) ==
    LET i == It(b, p)
        r == IF i.run = 0 THEN LinkedRun(b, p) ELSE i.run
    IN  Item(IF r # 0 /\ i.status \notin {"completed", "skipped"} THEN "unknown" ELSE i.status, r)

Restart ==
    /\ Trouble("crash")
    /\ RestartRuns
    /\ batch' = [b \in Batches |->
                   IF batch[b].status \in OPEN \cup {"interrupted"}
                   THEN [status |-> "interrupted", item |-> [p \in Beats |-> RecoveredItem(b, p)]]
                   ELSE batch[b]]
    /\ task' = [b \in Batches |-> "none"]
    /\ child' = [b \in Batches |-> [p \in Beats |-> NoChild]]
    /\ UNCHANGED made
-------------------------------------------------------------------------------
ChildStep(b, p) ==
    \/ Follow(b, p) \/ LeaveAlone(b, p)
    \/ DispatchCheck(b, p) \/ Dispatch(b, p) \/ DispatchRefused(b, p)
    \/ SaveMembership(b, p) \/ Settle(b, p) \/ StoreFault(b, p)

TaskStep(b) == TaskStart(b) \/ TaskFinish(b) \/ TaskInterrupted(b) \/ TaskFails(b)

BatchRequest(b) ==
    \/ Stop(b)
    \/ \E want \in Wants : Create(b, want) \/ Resume(b, want)

RunStep ==
    \/ \E r \in DOMAIN run : Claim(r) \/ Finish(r) \/ RecoverOutput(r)
    \/ "generate" \in Hazards /\ UserRoom /\ \E p \in Beats : Generate(p)
    \/ "cancel" \in Hazards /\ \E u \in Users, r \in DOMAIN run : CancelRead(u, r)
    \/ \E u \in Users : CancelSave(u) \/ CancelFinish(u) \/ RetrySave(u)
    \/ "retry" \in Hazards /\ UserRoom /\ \E u \in Users, r \in DOMAIN run : RetryCheck(u, r)
    \/ Restore

Next ==
    \/ \E b \in Batches : TaskStep(b) \/ BatchRequest(b) \/ \E p \in Beats : ChildStep(b, p)
    \/ RunStep /\ UNCHANGED batchVars
    \/ \E u \in Users : TrashBegin(u) \/ TrashFinish(u)
    \/ Restart

Spec == Init /\ [][Next]_vars

(***************************************************************************)
(* Tasks run when they can, and every call of a provider ends (they all    *)
(* have a timeout).  A user need not do anything.                          *)
(***************************************************************************)
Fairness ==
    /\ \A b \in Batches :
         /\ WF_vars(TaskStart(b)) /\ WF_vars(TaskFinish(b)) /\ WF_vars(TaskInterrupted(b))
         /\ \A p \in Beats :
              /\ WF_vars(Follow(b, p) \/ LeaveAlone(b, p) \/ DispatchCheck(b, p))
              /\ WF_vars(Dispatch(b, p) \/ DispatchRefused(b, p))
              /\ WF_vars(SaveMembership(b, p))
              /\ WF_vars(Settle(b, p))
    /\ \A r \in RunIds : WF_vars(r \in DOMAIN run /\ (Claim(r) \/ Finish(r)) /\ UNCHANGED batchVars)
    /\ \A u \in Users : WF_vars((CancelSave(u) \/ CancelFinish(u) \/ RetrySave(u)) /\ UNCHANGED batchVars)
    /\ \A u \in Users : WF_vars(TrashFinish(u))

FairSpec == Spec /\ Fairness
-------------------------------------------------------------------------------
(***************************************************************************)
(* Properties.                                                             *)
(***************************************************************************)
TypeOK ==
    /\ RunsTypeOK
    /\ batch \in [Batches -> [status : BatchStatus,
                              item : [Beats -> [status : ItemStatus, run : {0} \cup DOMAIN run]]]]
    /\ made \in Seq(Batches)
    /\ task \in [Batches -> {"none", "scheduled", "running", "cancelling"}]
    /\ child \in [Batches -> [Beats -> [at : {"none", "waiting", "checked", "enqueued", "polling"},
                                       run : {0} \cup DOMAIN run]]]
    /\ troubles \in 0..MaxTroubles

(***************************************************************************)
(* "Unknown remote outcomes are never resubmitted automatically": for each *)
(* picture of each batch, the runs its dispatches created implement        *)
(* PaidSubmission, across stop, resume, faults and restarts.               *)
(***************************************************************************)
Sent(k) == {r \in Of(k[2]) : run[r].batch = k[1] /\ run[r].by = "batch"}
StatusesOf(k) == {run[r].status : r \in Sent(k)}
BoughtOf(k) == {run[r].bought : r \in Sent(k)}

Submission == INSTANCE PaidSubmission WITH
    Keys <- Batches \X Beats,
    outcome <- [k \in Batches \X Beats |->
                  IF StatusesOf(k) \cap ACTIVE # {} THEN "out"
                  ELSE IF "yes" \in BoughtOf(k) THEN "won"
                  ELSE IF "maybe" \in BoughtOf(k) THEN "unknown" ELSE "open"],
    sent <- [k \in Batches \X Beats |-> Cardinality(Sent(k))]

PaysOnce == Submission!Spec

(***************************************************************************)
(* An item never lets go of a run whose work may have been bought: it goes *)
(* on naming a run and never becomes pending again (resume, the except     *)
(* branch of execute_item, run, recover).                                  *)
(***************************************************************************)
UnresolvedKept ==
    [][\A b \in Batches, p \in Beats :
         LET r == It(b, p).run IN
         r # 0 /\ run'[r].bought # "no"
           => batch'[b].item[p].run # 0 /\ batch'[b].item[p].status # "pending"]_vars

(***************************************************************************)
(* A batch that says it has ended leaves nothing to do, and "completed"    *)
(* means every picture was made or was not asked for.                      *)
(***************************************************************************)
EndedIsSettled ==
    \A b \in Batches :
      /\ batch[b].status \in {"completed", "partial", "cancelled"}
           => \A p \in Beats : It(b, p).status \notin {"pending", "running"}
      /\ batch[b].status = "completed"
           => \A p \in Beats : It(b, p).status \in {"completed", "skipped"}

(***************************************************************************)
(* "Stop and dispatch serialize": once a batch is stopping, interrupted or *)
(* ended, its children insert no run, also not the child that had found    *)
(* the batch running and was waiting for the project lock: stop() waits    *)
(* for the batch lock, and what ends a batch otherwise ends its children.  *)
(***************************************************************************)
StopIsFinal ==
    [][\A b \in Batches : batch[b].status # "running"
         => \A p \in Beats : Len(run') > Len(run) /\ run'[Len(run')].by = "batch"
              => run'[Len(run')].batch # b]_vars

(***************************************************************************)
(* At most one run of a picture is queued or with the provider: what       *)
(* generation_already_running refuses.  Dispatches of several batches and  *)
(* single generations keep it; retries do not, see the README.             *)
(***************************************************************************)
OneLiveRun == \A p \in Beats : Cardinality(Live(p)) <= 1

(***************************************************************************)
(* The module's first words, for every run of a picture: a batch submits   *)
(* no picture whose latest run has an unknown outcome.                     *)
(***************************************************************************)
UnknownNotResubmitted ==
    [][\A b \in Batches, p \in Beats :
         Dispatch(b, p) /\ Of(p) # {} => run[Last(Of(p))].bought # "maybe"]_vars

(***************************************************************************)
(* A running or stopping batch ends, as the refusal of create() promises   *)
(* ("wait for it to finish or stop it").                                   *)
(***************************************************************************)
BatchEnds ==
    \A b \in Batches : batch[b].status \in OPEN ~> batch[b].status \notin OPEN
===============================================================================
