--------------------------- MODULE LocalJobs_proofs ---------------------------
(***************************************************************************)
(* For any number of subjects, users, jobs and restarts: one active job    *)
(* per subject and a shutdown that starts nothing; nothing left behind and *)
(* final terminal states for every job that was not claimed between the    *)
(* halves of its cancellation and had no error after its commit.           *)
(***************************************************************************)
EXTENDS LocalJobs, SequenceTheorems, TLAPS

USE LocalJobsAssumption DEF LocalJobsAssumption

\* Requests name jobs that exist; two submissions, or two cancellations
\* between their halves, never name the same one; a service that is stopping
\* has answered them all.
RequestsApart ==
    /\ \A u \in Users : request[u].op # "idle" => request[u].job \in DOMAIN job
    /\ \A u, v \in Users :
          u # v /\ request[u].op \in {"submit", "cancel"} /\ request[v].op = request[u].op
            => request[u].job # request[v].job
    /\ stopping => \A u \in Users : request[u] = Idle

\* A job gets its task from the request that saved its row.
NotYetScheduled == \A u \in Users : request[u].op = "submit" => task[request[u].job] = "none"

\* What a cancellation has read is still so when it saves: the job has not
\* ended, nor gone back into the queue, nor left it unless a claim overtook.
CancelSeesTruth ==
    \A u \in Users : request[u].op = "cancel" =>
        /\ job[request[u].job].status \in ACTIVE
        /\ task[request[u].job] # "committed"
        /\ request[u].seen # "queued" => job[request[u].job].status # "queued"
        /\ Orderly(request[u].job) /\ request[u].seen = "queued" => job[request[u].job].status = "queued"

\* The row of an orderly job follows its task.
RowFollowsTask ==
    \A j \in DOMAIN job : Orderly(j) =>
        /\ task[j] \in {"working", "made", "committed", "failing"}
              => job[j].status \in {"running", "cancellation_requested"}
        /\ task[j] = "told" => job[j].status = "succeeded"

DeliveredAccounted ==
    \A j \in delivered :
        Orderly(j) => \/ service = "depth" /\ task[j] = "committed"
                      \/ job[j].status \in {"succeeded", "interrupted"}

WaitingAreStopped ==
    service = "enhancement" /\ stopping => \A j \in JobIds : task[j] = "waiting" => j \in stop

Inv ==
    /\ TypeOK
    /\ OneActiveJob
    /\ RequestsApart
    /\ NotYetScheduled
    /\ CancelSeesTruth
    /\ RowFollowsTask
    /\ DeliveredAccounted
    /\ WaitingAreStopped
-------------------------------------------------------------------------------
(* Type correctness *)

\* A row changes its status and nothing else.
LEMMA StatusSet ==
    ASSUME job \in Seq(Job), NEW j \in DOMAIN job, NEW s \in ACTIVE \cup Terminal
    PROVE  /\ WithStatus(j, s) \in Seq(Job)
           /\ Len(WithStatus(j, s)) = Len(job)
           /\ DOMAIN WithStatus(j, s) = DOMAIN job
           /\ \A k \in DOMAIN job :
                 /\ WithStatus(j, s)[k].subject = job[k].subject
                 /\ WithStatus(j, s)[k].status = IF k = j THEN s ELSE job[k].status
<1> DEFINE row == [job[j] EXCEPT !.status = s]
<1>1. j \in 1..Len(job) /\ DOMAIN job = 1..Len(job)
  BY LenProperties
<1>2. job[j] \in Job
  BY <1>1, ElementOfSeq
<1>3. row \in Job /\ row.subject = job[j].subject /\ row.status = s
  BY <1>2 DEF Job
<1>4. WithStatus(j, s) = [job EXCEPT ![j] = row]
  BY DEF WithStatus
<1> HIDE DEF row
<1>5. /\ [job EXCEPT ![j] = row] \in Seq(Job)
      /\ Len([job EXCEPT ![j] = row]) = Len(job)
      /\ \A k \in 1..Len(job) : [job EXCEPT ![j] = row][k] = IF k = j THEN row ELSE job[k]
  BY <1>1, <1>3, ExceptSeq
<1>6. DOMAIN [job EXCEPT ![j] = row] = DOMAIN job
  BY <1>1, <1>5, LenProperties
<1> QED
  BY <1>1, <1>3, <1>4, <1>5, <1>6

\* A submission appends a queued row.
LEMMA RowAppended ==
    ASSUME job \in Seq(Job), NEW x \in Subjects,
           job' = Append(job, [subject |-> x, status |-> "queued"])
    PROVE  /\ job' \in Seq(Job)
           /\ Len(job') = Len(job) + 1
           /\ DOMAIN job = 1..Len(job) /\ DOMAIN job' = 1..(Len(job) + 1)
           /\ \A k \in DOMAIN job : job'[k] = job[k]
           /\ job'[Len(job) + 1] = [subject |-> x, status |-> "queued"]
<1>1. [subject |-> x, status |-> "queued"] \in Job
  BY DEF Job, ACTIVE
<1> QED
  BY <1>1, LenProperties, AppendProperties

\* Recovery interrupts what was running and keeps the rest.
LEMMA RowsRecovered ==
    ASSUME job \in Seq(Job),
           job' = [j \in DOMAIN job |-> [job[j] EXCEPT !.status = Recovered(job[j].status)]]
    PROVE  /\ job' \in Seq(Job)
           /\ Len(job') = Len(job)
           /\ DOMAIN job' = DOMAIN job
           /\ \A k \in DOMAIN job : /\ job'[k].subject = job[k].subject
                                    /\ job'[k].status = Recovered(job[k].status)
<1>1. Len(job) \in Nat /\ DOMAIN job = 1..Len(job)
  BY LenProperties
<1>2. ASSUME NEW k \in DOMAIN job
      PROVE  /\ job'[k] \in Job
             /\ job'[k].subject = job[k].subject
             /\ job'[k].status = Recovered(job[k].status)
  <2>1. job[k] \in Job
    BY <1>1, ElementOfSeq
  <2> QED
    BY <2>1 DEF Job, Recovered, ACTIVE, Terminal
<1>3. job' \in [1..Len(job) -> Job]
  BY <1>1, <1>2
<1>4. job' \in Seq(Job)
  BY <1>1, <1>3, SeqDef
<1>5. Len(job') = Len(job)
  BY <1>1, <1>3, <1>4, LenProperties
<1> QED
  BY <1>1, <1>2, <1>4, <1>5
-------------------------------------------------------------------------------
(* Each step preserves the invariant *)

\* The facts about types that most steps use.
LEMMA Shape ==
    ASSUME TypeOK
    PROVE  /\ Len(job) \in Nat /\ DOMAIN job = 1..Len(job) /\ DOMAIN job \subseteq JobIds
           /\ \A j \in DOMAIN job : job[j].subject \in Subjects /\ job[j].status \in ACTIVE \cup Terminal
           /\ \A j \in JobIds : task[j] # "none" => j \in DOMAIN job
<1>1. Len(job) \in Nat /\ DOMAIN job = 1..Len(job) /\ Len(job) <= MaxJobs
  BY LenProperties DEF TypeOK
<1>2. \A j \in DOMAIN job : job[j] \in Job
  BY <1>1, ElementOfSeq DEF TypeOK
<1> QED
  BY <1>1, <1>2 DEF TypeOK, JobIds, Job

\* A submission inserts a row only when its subject has no active job.
LEMMA SubmitStep ==
    ASSUME Inv, NEW u \in Users, NEW x \in Subjects, Submit(u, x)
    PROVE  Inv'
<1> DEFINE new == Len(job) + 1
<1>0. TypeOK
  BY DEF Inv
<1>1. /\ Len(job) \in Nat /\ DOMAIN job = 1..Len(job) /\ DOMAIN job \subseteq JobIds
      /\ \A j \in JobIds : task[j] # "none" => j \in DOMAIN job
  BY <1>0, Shape
<1>2. /\ job' \in Seq(Job) /\ Len(job') = new /\ DOMAIN job' = 1..new
      /\ \A k \in DOMAIN job : job'[k] = job[k]
      /\ job'[new] = [subject |-> x, status |-> "queued"]
  BY RowAppended DEF Submit, Inv, TypeOK
<1>3. /\ ~stopping /\ request[u] = Idle /\ Active(x) = {} /\ Len(job) < MaxJobs
      /\ request' = [request EXCEPT ![u] = [op |-> "submit", job |-> new, seen |-> "queued"]]
      /\ UNCHANGED <<service, task, stop, delivered, mishap, stopping, restarts>>
  BY DEF Submit
<1>4. new \in DOMAIN job' /\ new \notin DOMAIN job /\ DOMAIN job \subseteq DOMAIN job' /\ new \in JobIds
  BY <1>1, <1>2, <1>3 DEF JobIds
<1>5. TypeOK'
  BY <1>0, <1>1, <1>2, <1>3, <1>4 DEF TypeOK, ACTIVE, JobIds
<1>6. OneActiveJob'
  BY <1>1, <1>2, <1>3, <1>4 DEF Inv, OneActiveJob, Active
<1>7. RequestsApart'
  BY <1>0, <1>2, <1>3, <1>4 DEF Inv, RequestsApart, TypeOK
<1>8. NotYetScheduled'
  BY <1>0, <1>1, <1>3, <1>4 DEF Inv, NotYetScheduled, TypeOK
<1>9. CancelSeesTruth'
  BY <1>0, <1>2, <1>3, <1>4 DEF Inv, Orderly, CancelSeesTruth, RequestsApart, TypeOK
<1>10. RowFollowsTask'
  BY <1>0, <1>1, <1>2, <1>3, <1>4 DEF Inv, Orderly, RowFollowsTask, TypeOK
<1>11. DeliveredAccounted' /\ WaitingAreStopped'
  BY <1>0, <1>2, <1>3, <1>4 DEF Inv, Orderly, DeliveredAccounted, WaitingAreStopped, TypeOK
<1> QED
  BY <1>5, <1>6, <1>7, <1>8, <1>9, <1>10, <1>11 DEF Inv

\* The task of a new job is created for a row nobody else schedules.
LEMMA ScheduleStep ==
    ASSUME Inv, NEW u \in Users, Schedule(u)
    PROVE  Inv'
<1> DEFINE j == request[u].job
<1>0. TypeOK /\ RequestsApart /\ NotYetScheduled
  BY DEF Inv
<1>1. DOMAIN job \subseteq JobIds
  BY <1>0, Shape
<1>2. /\ request[u].op = "submit" /\ task' = [task EXCEPT ![j] = "waiting"]
      /\ request' = [request EXCEPT ![u] = Idle]
      /\ UNCHANGED <<service, job, stop, delivered, mishap, stopping, restarts>>
  BY DEF Schedule, Goes
<1>3. j \in DOMAIN job /\ task[j] = "none" /\ ~stopping
  BY <1>0, <1>2 DEF RequestsApart, NotYetScheduled, Idle
<1>4. \A v \in Users : v # u /\ request[v].op = "submit" => request[v].job # j
  BY <1>0, <1>2 DEF RequestsApart
<1> HIDE DEF j
<1>5. TypeOK'
  BY <1>0, <1>1, <1>2, <1>3 DEF TypeOK, Idle, ACTIVE
<1>6. OneActiveJob' /\ RequestsApart' /\ NotYetScheduled'
  BY <1>0, <1>1, <1>2, <1>3, <1>4 DEF Inv, OneActiveJob, Active, RequestsApart, NotYetScheduled, Idle, TypeOK
<1>7. CancelSeesTruth'
  BY <1>0, <1>1, <1>2, <1>3 DEF Inv, Orderly, CancelSeesTruth, RequestsApart, Idle, TypeOK
<1>8. RowFollowsTask' /\ DeliveredAccounted' /\ WaitingAreStopped'
  BY <1>0, <1>1, <1>2, <1>3 DEF Inv, Orderly, RowFollowsTask, DeliveredAccounted, WaitingAreStopped, TypeOK
<1> QED
  BY <1>5, <1>6, <1>7, <1>8 DEF Inv

\* What a step may do to one row: statuses of other jobs stay.
LEMMA OneRowActive ==
    ASSUME TypeOK, OneActiveJob, NEW j \in DOMAIN job, NEW s \in ACTIVE \cup Terminal,
           s \in ACTIVE => job[j].status \in ACTIVE, job' = WithStatus(j, s)
    PROVE  OneActiveJob'
<1>1. /\ DOMAIN job' = DOMAIN job
      /\ \A k \in DOMAIN job : /\ job'[k].subject = job[k].subject
                               /\ job'[k].status = IF k = j THEN s ELSE job[k].status
  BY StatusSet DEF TypeOK
<1>2. \A x \in Subjects : Active(x)' \subseteq Active(x)
  BY <1>1 DEF Active
<1> QED
  BY <1>2 DEF OneActiveJob

\* A claim moves a queued row and its task together.
LEMMA ClaimStep ==
    ASSUME Inv, NEW j \in DOMAIN job, Claim(j) \/ ClaimNothing(j)
    PROVE  Inv'
<1>0. TypeOK /\ RequestsApart
  BY DEF Inv
<1>1. DOMAIN job \subseteq JobIds
  BY <1>0, Shape
<1>2. /\ task[j] = "waiting"
      /\ UNCHANGED <<service, stop, request, delivered, stopping, restarts>>
  BY DEF Claim, ClaimNothing
<1>m. PICK m \in SUBSET Mishaps : mishap' = [mishap EXCEPT ![j] = @ \cup m]
  <2>1. CASE mishap' = mishap
    <3>1. mishap' = [mishap EXCEPT ![j] = @ \cup {}]
      BY <1>0, <2>1 DEF TypeOK
    <3> QED
      BY <3>1
  <2>2. CASE mishap' # mishap
    BY <2>2 DEF Claim, ClaimNothing, Marks, Mishaps
  <2> QED
    BY <2>1, <2>2
<1>o. /\ mishap' \in [JobIds -> SUBSET Mishaps]
      /\ \A k \in JobIds : mishap[k] \subseteq mishap'[k]
      /\ \A k \in JobIds : Orderly(k)' => Orderly(k)
  BY <1>0, <1>m DEF TypeOK, Orderly
<1>3. \A u \in Users : request[u].op = "submit" => request[u].job # j
  BY <1>2 DEF Inv, NotYetScheduled
<1>4. CASE Claim(j)
  <2>1. job' = WithStatus(j, "running") /\ job[j].status = "queued"
    BY <1>4 DEF Claim
  <2>2. PICK place \in {"working", "failing"} : task' = [task EXCEPT ![j] = place]
    BY <1>4 DEF Claim, Goes
  <2>a. Orderly(j)' => \A u \in Users : ~(request[u].op = "cancel" /\ request[u].seen = "queued" /\ request[u].job = j)
    <3>1. SUFFICES ASSUME NEW u \in Users, request[u].op = "cancel", request[u].seen = "queued", request[u].job = j
                   PROVE  ~Orderly(j)'
      OBVIOUS
    <3>2. request[u] = [op |-> "cancel", job |-> j, seen |-> "queued"]
      BY <1>0, <3>1 DEF TypeOK
    <3>3. CancelUnderWay(j)
      BY <3>2 DEF CancelUnderWay
    <3>4. "overtaken" \in mishap'[j]
      BY <1>0, <1>1, <1>4, <3>3 DEF Claim, Marks, TypeOK
    <3> QED
      BY <3>4 DEF Orderly
  <2>3. /\ job' \in Seq(Job) /\ Len(job') = Len(job) /\ DOMAIN job' = DOMAIN job
        /\ \A k \in DOMAIN job : job'[k].status = IF k = j THEN "running" ELSE job[k].status
    BY <1>0, <2>1, StatusSet DEF TypeOK, ACTIVE
  <2>4. TypeOK'
    BY <1>0, <1>1, <1>2, <1>o, <2>2, <2>3 DEF TypeOK, Busy
  <2>5. OneActiveJob'
    BY <1>0, <2>1, OneRowActive DEF Inv, ACTIVE
  <2>6. RequestsApart' /\ NotYetScheduled'
    BY <1>0, <1>1, <1>2, <1>3, <2>2, <2>3 DEF Inv, RequestsApart, NotYetScheduled, Idle, TypeOK
  <2>7. CancelSeesTruth'
    BY <1>0, <1>1, <1>2, <1>o, <2>a, <2>1, <2>2, <2>3 DEF Inv, CancelSeesTruth, RequestsApart, TypeOK, ACTIVE
  <2>8. RowFollowsTask'
    BY <1>0, <1>1, <1>o, <2>2, <2>3 DEF Inv, RowFollowsTask, TypeOK
  <2>9. DeliveredAccounted' /\ WaitingAreStopped'
    BY <1>0, <1>1, <1>2, <1>o, <2>1, <2>2, <2>3 DEF Inv, DeliveredAccounted, WaitingAreStopped, TypeOK
  <2> QED
    BY <2>4, <2>5, <2>6, <2>7, <2>8, <2>9 DEF Inv
<1>5. CASE ClaimNothing(j)
  <2>1. job' = job /\ task' = [task EXCEPT ![j] = "none"]
    BY <1>5 DEF ClaimNothing, Goes
  <2>2. TypeOK'
    BY <1>0, <1>1, <1>2, <1>o, <2>1 DEF TypeOK
  <2>3. OneActiveJob' /\ RequestsApart' /\ NotYetScheduled'
    BY <1>0, <1>1, <1>2, <2>1 DEF Inv, OneActiveJob, Active, RequestsApart, NotYetScheduled, Idle, TypeOK
  <2>4. CancelSeesTruth' /\ RowFollowsTask'
    BY <1>0, <1>1, <1>2, <1>o, <2>1 DEF Inv, CancelSeesTruth, RowFollowsTask, RequestsApart, TypeOK
  <2>5. DeliveredAccounted' /\ WaitingAreStopped'
    BY <1>0, <1>1, <1>2, <1>o, <2>1 DEF Inv, DeliveredAccounted, WaitingAreStopped, TypeOK
  <2> QED
    BY <2>2, <2>3, <2>4, <2>5 DEF Inv
<1> QED
  BY <1>4, <1>5

\* The engine's answer and the commit move the task and keep the rows.
LEMMA WorkStep ==
    ASSUME Inv, NEW j \in DOMAIN job, Generate(j) \/ Commit(j)
    PROVE  Inv'
<1>0. TypeOK /\ RequestsApart
  BY DEF Inv
<1>1. DOMAIN job \subseteq JobIds
  BY <1>0, Shape
<1>2. PICK place \in {"made", "committed", "failing"} :
        /\ task' = [task EXCEPT ![j] = place]
        /\ delivered' = IF place = "committed" /\ service = "depth" THEN delivered \cup {j} ELSE delivered
        /\ place = "committed" => StateLockFree(j)
  BY DEF Generate, Commit, Goes
<1>3. UNCHANGED <<service, job, stop, request, mishap, stopping, restarts>> /\ task[j] \in {"working", "made"}
  BY DEF Generate, Commit
<1>4. TypeOK'
  BY <1>0, <1>1, <1>2, <1>3 DEF TypeOK, Busy
<1>5. OneActiveJob' /\ RequestsApart' /\ NotYetScheduled'
  BY <1>0, <1>1, <1>2, <1>3 DEF Inv, OneActiveJob, Active, RequestsApart, NotYetScheduled, Idle, TypeOK
<1>6. CancelSeesTruth'
  BY <1>0, <1>1, <1>2, <1>3 DEF Inv, CancelSeesTruth, RequestsApart, StateLockFree, Orderly, TypeOK
<1>7. RowFollowsTask'
  BY <1>0, <1>1, <1>2, <1>3 DEF Inv, RowFollowsTask, Orderly, TypeOK
<1>8. DeliveredAccounted' /\ WaitingAreStopped'
  BY <1>0, <1>1, <1>2, <1>3 DEF Inv, DeliveredAccounted, WaitingAreStopped, Orderly, TypeOK
<1> QED
  BY <1>4, <1>5, <1>6, <1>7, <1>8 DEF Inv

\* How a job ends: its row is saved while nobody else holds its lock.
LEMMA EndStep ==
    ASSUME Inv, NEW j \in DOMAIN job, Complete(j) \/ Fail(j)
    PROVE  Inv'
<1>0. TypeOK /\ RequestsApart
  BY DEF Inv
<1>1. DOMAIN job \subseteq JobIds
  BY <1>0, Shape
<1>2. PICK s \in Terminal, place \in {"told", "none"} :
        /\ job' = WithStatus(j, s) /\ task' = [task EXCEPT ![j] = place]
        /\ task[j] = IF place = "told" THEN "committed" ELSE "failing"
        /\ place = "told" => s = "succeeded"
        /\ stop' = IF place = "told" THEN stop ELSE stop \ {j}
  <2>1. CASE Complete(j)
    BY <2>1 DEF Complete, Goes, Terminal
  <2>2. CASE Fail(j)
    BY <2>2 DEF Fail, Ends, Goes, Terminal
  <2> QED
    BY <2>1, <2>2
<1>3. /\ UNCHANGED <<service, request, mishap, stopping, restarts>>
      /\ delivered' = IF place = "told" THEN delivered \cup {j} ELSE delivered
  <2>1. CASE Complete(j)
    BY <1>0, <1>1, <1>2, <2>1 DEF Complete, Goes, TypeOK
  <2>2. CASE Fail(j)
    BY <1>0, <1>1, <1>2, <2>2 DEF Fail, Ends, Goes, TypeOK
  <2> QED
    BY <2>1, <2>2
<1>4. \A u \in Users : request[u].op = "cancel" => request[u].job # j
  BY <1>2 DEF Complete, Fail, StateLockFree, Inv, CancelSeesTruth
<1>5. /\ job' \in Seq(Job) /\ Len(job') = Len(job) /\ DOMAIN job' = DOMAIN job
      /\ \A k \in DOMAIN job : job'[k].status = IF k = j THEN s ELSE job[k].status
  BY <1>0, <1>2, StatusSet DEF TypeOK
<1>6. TypeOK'
  BY <1>0, <1>1, <1>2, <1>3, <1>5 DEF TypeOK, Busy
<1>7. OneActiveJob'
  BY <1>0, <1>2, OneRowActive DEF Inv, ACTIVE, Terminal
<1>8. RequestsApart' /\ NotYetScheduled'
  BY <1>0, <1>1, <1>2, <1>3, <1>5 DEF Inv, RequestsApart, NotYetScheduled, Idle, TypeOK
<1>9. CancelSeesTruth'
  BY <1>0, <1>1, <1>2, <1>3, <1>4, <1>5 DEF Inv, CancelSeesTruth, RequestsApart, Orderly, TypeOK
<1>10. RowFollowsTask'
  BY <1>0, <1>1, <1>2, <1>3, <1>5 DEF Inv, RowFollowsTask, Orderly, TypeOK
<1>11. Orderly(j) => job[j].status \in {"running", "cancellation_requested"}
  BY <1>2 DEF Inv, RowFollowsTask
<1>12. DeliveredAccounted' /\ WaitingAreStopped'
  BY <1>0, <1>1, <1>2, <1>3, <1>5, <1>11 DEF Inv, DeliveredAccounted, WaitingAreStopped, Orderly, TypeOK
<1> QED
  BY <1>6, <1>7, <1>8, <1>9, <1>10, <1>12 DEF Inv

\* A task that ends after its row, or breaks off, changes no row: what the row
\* no longer tells is marked.
LEMMA ToldStep ==
    ASSUME Inv, NEW j \in DOMAIN job, Told(j) \/ LateError(j) \/ FailUnsaved(j)
    PROVE  Inv'
<1>0. TypeOK /\ RequestsApart
  BY DEF Inv
<1>1. DOMAIN job \subseteq JobIds
  BY <1>0, Shape
<1>2. PICK place \in {"none", "failing"}, gone \in {{}, {j}} :
        /\ task[j] \in {"committed", "told", "failing"}
        /\ task' = [task EXCEPT ![j] = place] /\ stop' = stop \ gone
        /\ place = "none" => task[j] # "committed"
        /\ UNCHANGED <<service, job, request, delivered, stopping, restarts>>
  <2>1. CASE Told(j) \/ FailUnsaved(j)
    BY <2>1 DEF Told, FailUnsaved, Ends, Goes
  <2>2. CASE LateError(j)
    BY <1>0, <2>2 DEF LateError, Goes, TypeOK
  <2> QED
    BY <2>1, <2>2
<1>o. /\ mishap' \in [JobIds -> SUBSET Mishaps]
      /\ \A k \in JobIds : Orderly(k)' => Orderly(k)
  <2>1. CASE mishap' = mishap
    BY <1>0, <2>1 DEF TypeOK, Orderly
  <2>2. CASE mishap' # mishap
    <3>1. PICK m \in Mishaps : mishap' = [mishap EXCEPT ![j] = @ \cup {m}]
      BY <2>2 DEF Told, LateError, FailUnsaved, Marks, Mishaps
    <3> QED
      BY <1>0, <1>1, <3>1 DEF TypeOK, Orderly
  <2> QED
    BY <2>1, <2>2
<1>p. Orderly(j)' /\ place = "failing" => service = "enhancement" /\ task[j] = "committed"
  <2>1. CASE LateError(j)
    <3>1. service = "depth" => "unrecorded" \in mishap'[j]
      BY <1>0, <1>1, <2>1 DEF LateError, Marks, TypeOK
    <3>2. service \in {"depth", "enhancement"}
      BY <1>0 DEF TypeOK
    <3> QED
      BY <2>1, <3>1, <3>2 DEF LateError, Orderly
  <2>2. CASE Told(j) \/ FailUnsaved(j)
    BY <1>0, <1>1, <1>2, <2>2 DEF Told, FailUnsaved, Ends, Goes, TypeOK
  <2> QED
    BY <2>1, <2>2
<1>3. TypeOK'
  BY <1>0, <1>1, <1>2, <1>o DEF TypeOK, Busy
<1>4. OneActiveJob' /\ RequestsApart' /\ NotYetScheduled'
  BY <1>0, <1>1, <1>2 DEF Inv, OneActiveJob, Active, RequestsApart, NotYetScheduled, Idle, TypeOK
<1>5. CancelSeesTruth' /\ RowFollowsTask'
  BY <1>0, <1>1, <1>2, <1>o, <1>p DEF Inv, CancelSeesTruth, RowFollowsTask, RequestsApart, TypeOK
<1>6. DeliveredAccounted' /\ WaitingAreStopped'
  <2>1. ASSUME NEW k \in delivered, Orderly(k)'
        PROVE  (service = "depth" /\ task'[k] = "committed") \/ job[k].status \in {"succeeded", "interrupted"}
    <3>1. k \in JobIds /\ Orderly(k)
      BY <1>0, <1>1, <1>o, <2>1 DEF TypeOK
    <3>2. (service = "depth" /\ task[k] = "committed") \/ job[k].status \in {"succeeded", "interrupted"}
      BY <2>1, <3>1 DEF Inv, DeliveredAccounted
    <3> QED
      BY <1>0, <1>2, <1>p, <2>1, <3>1, <3>2 DEF TypeOK
  <2>2. DeliveredAccounted'
    BY <1>2, <2>1 DEF DeliveredAccounted
  <2> QED
    BY <1>0, <1>1, <1>2, <2>2 DEF Inv, WaitingAreStopped, TypeOK
<1> QED
  BY <1>3, <1>4, <1>5, <1>6 DEF Inv

\* A cancellation that begins has the state lock.
LEMMA CancelReadStep ==
    ASSUME Inv, NEW u \in Users, NEW j \in DOMAIN job, CancelRead(u, j)
    PROVE  Inv'
<1>0. TypeOK /\ RequestsApart
  BY DEF Inv
<1>1. DOMAIN job \subseteq JobIds /\ DOMAIN job = 1..Len(job)
  BY <1>0, Shape
<1>2. /\ ~stopping /\ request[u] = Idle /\ StateLockFree(j) /\ job[j].status \in ACTIVE
      /\ request' = [request EXCEPT ![u] = [op |-> "cancel", job |-> j, seen |-> job[j].status]]
      /\ UNCHANGED <<service, job, task, stop, delivered, mishap, stopping, restarts>>
  BY DEF CancelRead
<1>3. TypeOK'
  BY <1>0, <1>2 DEF TypeOK
<1>4. RequestsApart'
  BY <1>0, <1>1, <1>2 DEF RequestsApart, StateLockFree, TypeOK
<1>5. OneActiveJob' /\ NotYetScheduled'
  BY <1>0, <1>2 DEF Inv, OneActiveJob, Active, NotYetScheduled, TypeOK
<1>6. CancelSeesTruth'
  BY <1>0, <1>2 DEF Inv, CancelSeesTruth, StateLockFree, Orderly, TypeOK
<1>7. RowFollowsTask' /\ DeliveredAccounted' /\ WaitingAreStopped'
  BY <1>2 DEF Inv, RowFollowsTask, DeliveredAccounted, WaitingAreStopped, Orderly
<1> QED
  BY <1>3, <1>4, <1>5, <1>6, <1>7 DEF Inv

\* The second half of a cancellation saves over the status its first half saw.
LEMMA CancelSaveStep ==
    ASSUME Inv, NEW u \in Users, CancelSave(u)
    PROVE  Inv'
<1> DEFINE j == request[u].job
<1>0. TypeOK /\ RequestsApart
  BY DEF Inv
<1>1. DOMAIN job \subseteq JobIds
  BY <1>0, Shape
<1>2. /\ request[u].op = "cancel" /\ j \in DOMAIN job
      /\ job[j].status \in ACTIVE /\ task[j] # "committed"
      /\ request[u].seen # "queued" => job[j].status # "queued"
      /\ Orderly(j) /\ request[u].seen = "queued" => job[j].status = "queued"
      /\ ~stopping
  BY <1>0 DEF Inv, CancelSave, CancelSeesTruth, RequestsApart, Idle
<1>3. \A v \in Users : v # u /\ request[v].op = "cancel" => request[v].job # j
  BY <1>0, <1>2 DEF RequestsApart
<1>4. PICK s \in {"cancelled", "cancellation_requested"},
           next \in [op : {"idle", "signal"}, job : {0} \cup DOMAIN job, seen : ACTIVE] :
        /\ job' = WithStatus(j, s) /\ request' = [request EXCEPT ![u] = next]
        /\ next.op = "signal" => next.job = j
        /\ next.op = "idle" => next = Idle
        /\ s = "cancellation_requested" => job[j].status # "queued"
        /\ Orderly(j) /\ s = "cancelled" => job[j].status = "queued"
  <2>1. CASE request[u].seen = "queued"
    <3>1. job' = WithStatus(j, "cancelled") /\ request' = [request EXCEPT ![u] = Idle]
      BY <2>1 DEF CancelSave
    <3> QED
      BY <1>2, <2>1, <3>1 DEF Idle, ACTIVE
  <2>2. CASE request[u].seen # "queued"
    <3> DEFINE next == [request[u] EXCEPT !.op = "signal"]
    <3>1. job' = WithStatus(j, "cancellation_requested") /\ request' = [request EXCEPT ![u] = next]
      BY <2>2 DEF CancelSave
    <3>2. /\ next \in [op : {"idle", "signal"}, job : {0} \cup DOMAIN job, seen : ACTIVE]
          /\ next.op = "signal" /\ next.job = j
      BY <1>0 DEF TypeOK
    <3> HIDE DEF next
    <3> QED
      BY <1>2, <2>2, <3>1, <3>2
  <2> QED
    BY <2>1, <2>2
<1>5. UNCHANGED <<service, task, stop, delivered, mishap, stopping, restarts>>
  BY DEF CancelSave
<1> HIDE DEF j
<1>6. /\ job' \in Seq(Job) /\ Len(job') = Len(job) /\ DOMAIN job' = DOMAIN job
      /\ \A k \in DOMAIN job : job'[k].status = IF k = j THEN s ELSE job[k].status
  BY <1>0, <1>2, <1>4, StatusSet DEF TypeOK, ACTIVE, Terminal
<1>7. TypeOK'
  BY <1>0, <1>4, <1>5, <1>6 DEF TypeOK
<1>8. OneActiveJob'
  BY <1>0, <1>2, <1>4, OneRowActive DEF Inv, ACTIVE, Terminal
<1>9. RequestsApart' /\ NotYetScheduled'
  <2>1. \A v \in Users : v # u => request'[v] = request[v]
    BY <1>0, <1>4 DEF TypeOK
  <2>2. request'[u] = next
    BY <1>0, <1>4 DEF TypeOK
  <2> QED
    BY <1>0, <1>2, <1>4, <1>5, <1>6, <2>1, <2>2 DEF Inv, RequestsApart, NotYetScheduled
<1>10. CancelSeesTruth'
  BY <1>0, <1>3, <1>4, <1>5, <1>6 DEF Inv, CancelSeesTruth, RequestsApart, Orderly, TypeOK
<1>11. RowFollowsTask'
  BY <1>0, <1>1, <1>2, <1>4, <1>5, <1>6 DEF Inv, RowFollowsTask, Orderly, ACTIVE
<1>12. DeliveredAccounted' /\ WaitingAreStopped'
  BY <1>0, <1>2, <1>4, <1>5, <1>6 DEF Inv, DeliveredAccounted, WaitingAreStopped, Orderly, ACTIVE, TypeOK
<1> QED
  BY <1>7, <1>8, <1>9, <1>10, <1>11, <1>12 DEF Inv

\* Events and the shutdown change no row.
LEMMA SignalAndShutdownStep ==
    ASSUME Inv, (\E u \in Users : CancelSignal(u)) \/ Shutdown
    PROVE  Inv'
<1>0. TypeOK /\ RequestsApart
  BY DEF Inv
<1>1. UNCHANGED <<service, job, task, delivered, mishap, restarts>>
  BY DEF CancelSignal, Shutdown
<1>2. ASSUME NEW u \in Users, CancelSignal(u) PROVE Inv'
  <2>1. /\ request[u].op = "signal" /\ request[u].job \in DOMAIN job /\ ~stopping
        /\ stop' = stop \cup {request[u].job} /\ request' = [request EXCEPT ![u] = Idle]
        /\ stopping' = stopping
    BY <1>0, <1>2 DEF CancelSignal, RequestsApart, Idle
  <2>2. TypeOK'
    BY <1>0, <1>1, <2>1 DEF TypeOK, Idle, ACTIVE
  <2>3. OneActiveJob' /\ RequestsApart' /\ NotYetScheduled' /\ CancelSeesTruth'
    BY <1>0, <1>1, <2>1
    DEF Inv, OneActiveJob, Active, RequestsApart, NotYetScheduled, CancelSeesTruth, Orderly, Idle, TypeOK
  <2>4. RowFollowsTask' /\ DeliveredAccounted' /\ WaitingAreStopped'
    BY <1>1, <2>1 DEF Inv, RowFollowsTask, DeliveredAccounted, WaitingAreStopped, Orderly
  <2> QED
    BY <2>2, <2>3, <2>4 DEF Inv
<1>3. CASE Shutdown
  <2>1. /\ \A u \in Users : request[u] = Idle
        /\ request' = request /\ stopping' = TRUE
        /\ stop' \subseteq stop \cup {j \in JobIds : task[j] # "none"}
        /\ service = "enhancement" => \A j \in JobIds : task[j] = "waiting" => j \in stop'
    BY <1>3 DEF Shutdown, Busy
  <2>2. TypeOK'
    BY <1>0, <1>1, <2>1 DEF TypeOK
  <2>3. OneActiveJob' /\ RequestsApart' /\ NotYetScheduled' /\ CancelSeesTruth'
    BY <1>0, <1>1, <2>1
    DEF Inv, OneActiveJob, Active, RequestsApart, NotYetScheduled, CancelSeesTruth, Orderly
  <2>4. RowFollowsTask' /\ DeliveredAccounted' /\ WaitingAreStopped'
    BY <1>1, <2>1 DEF Inv, RowFollowsTask, DeliveredAccounted, WaitingAreStopped, Orderly
  <2> QED
    BY <2>2, <2>3, <2>4 DEF Inv
<1> QED
  BY <1>2, <1>3

\* A restart interrupts what ran, queues the rest again and forgets every request.
LEMMA RestartStep ==
    ASSUME Inv, Restart
    PROVE  Inv'
<1>0. TypeOK
  BY DEF Inv
<1>1. /\ DOMAIN job \subseteq JobIds
      /\ \A j \in DOMAIN job : job[j].status \in ACTIVE \cup Terminal
  BY <1>0, Shape
<1>2. /\ job' \in Seq(Job) /\ Len(job') = Len(job) /\ DOMAIN job' = DOMAIN job
      /\ \A k \in DOMAIN job : /\ job'[k].subject = job[k].subject
                               /\ job'[k].status = Recovered(job[k].status)
  BY <1>0, RowsRecovered DEF Restart, TypeOK
<1>3. /\ task' = [j \in JobIds |-> IF j \in DOMAIN job /\ job[j].status = "queued"
                                   THEN "waiting" ELSE "none"]
      /\ stop' = {} /\ request' = [u \in Users |-> Idle] /\ stopping' = FALSE
      /\ restarts < MaxRestarts /\ restarts' = restarts + 1
      /\ UNCHANGED <<service, delivered>>
  BY DEF Restart
<1>o. /\ mishap' \in [JobIds -> SUBSET Mishaps]
      /\ \A k \in JobIds : Orderly(k)' => Orderly(k)
  <2>1. mishap' = [j \in JobIds |-> mishap[j] \ {"unsaved"}]
    BY DEF Restart
  <2> QED
    BY <1>0, <2>1 DEF TypeOK, Orderly
<1>4. TypeOK'
  <2>1. task' \in [JobIds -> {"none", "waiting"} \cup Busy]
    BY <1>3
  <2>2. \A j \in JobIds : task'[j] # "none" => j \in DOMAIN job'
    BY <1>2, <1>3
  <2>3. request' \in [Users -> [op : {"idle", "submit", "cancel", "signal"},
                               job : {0} \cup DOMAIN job', seen : ACTIVE]]
    BY <1>3 DEF Idle, ACTIVE
  <2>4. stop' \in SUBSET DOMAIN job' /\ delivered' \in SUBSET DOMAIN job'
    BY <1>0, <1>2, <1>3 DEF TypeOK
  <2>5. stopping' \in BOOLEAN /\ mishap' \in [JobIds -> SUBSET Mishaps]
    BY <1>3, <1>o
  <2>6. restarts' \in 0..MaxRestarts
    BY <1>0, <1>3 DEF TypeOK
  <2>7. service' \in Services /\ job' \in Seq(Job) /\ Len(job') <= MaxJobs
    BY <1>0, <1>2, <1>3 DEF TypeOK
  <2> QED
    BY <2>1, <2>2, <2>3, <2>4, <2>5, <2>6, <2>7 DEF TypeOK
<1>5. OneActiveJob'
  <2>1. \A x \in Subjects : Active(x)' \subseteq Active(x)
    BY <1>1, <1>2 DEF Active, Recovered, ACTIVE, Terminal
  <2> QED
    BY <2>1 DEF Inv, OneActiveJob
<1>6. RequestsApart' /\ NotYetScheduled' /\ CancelSeesTruth'
  BY <1>3 DEF RequestsApart, NotYetScheduled, CancelSeesTruth, Idle
<1>7. RowFollowsTask' /\ WaitingAreStopped'
  BY <1>1, <1>2, <1>3 DEF RowFollowsTask, WaitingAreStopped
<1>8. DeliveredAccounted'
  <2>1. ASSUME NEW j \in delivered, Orderly(j)'
        PROVE  job'[j].status \in {"succeeded", "interrupted"}
    <3>1. j \in DOMAIN job /\ Orderly(j)
      BY <1>0, <1>1, <1>o, <2>1 DEF TypeOK
    <3>2. CASE job[j].status \in {"succeeded", "interrupted"}
      BY <1>2, <3>1, <3>2 DEF Recovered
    <3>3. CASE task[j] = "committed"
      BY <1>2, <2>1, <3>1, <3>3 DEF Recovered, Inv, RowFollowsTask
    <3> QED
      BY <2>1, <3>1, <3>2, <3>3 DEF Inv, DeliveredAccounted
  <2> QED
    BY <1>3, <2>1 DEF DeliveredAccounted
<1> QED
  BY <1>4, <1>5, <1>6, <1>7, <1>8 DEF Inv
-------------------------------------------------------------------------------
(* The theorems *)

\* A new service has no jobs.
LEMMA Initially ==
    ASSUME Init
    PROVE  Inv
<1>1. <<>> \in Seq(Job) /\ Len(<<>>) = 0 /\ DOMAIN <<>> = {}
  BY EmptySeq, LenProperties
<1>2. TypeOK
  <2>1. task \in [JobIds -> {"none", "waiting"} \cup Busy] /\ \A j \in JobIds : task[j] = "none"
    BY DEF Init
  <2>2. request \in [Users -> [op : {"idle", "submit", "cancel", "signal"},
                              job : {0} \cup DOMAIN job, seen : ACTIVE]]
    BY DEF Init, Idle, ACTIVE
  <2>3. stop \in SUBSET DOMAIN job /\ delivered \in SUBSET DOMAIN job
    BY DEF Init
  <2>4. stopping \in BOOLEAN /\ mishap \in [JobIds -> SUBSET Mishaps]
    BY DEF Init
  <2>5. restarts \in 0..MaxRestarts
    BY DEF Init
  <2>6. service \in Services /\ job \in Seq(Job) /\ Len(job) <= MaxJobs
    BY <1>1 DEF Init
  <2> QED
    BY <2>1, <2>2, <2>3, <2>4, <2>5, <2>6 DEF TypeOK
<1> QED
  BY <1>1, <1>2
  DEF Init, Inv, OneActiveJob, Active, RequestsApart, NotYetScheduled, CancelSeesTruth,
      RowFollowsTask, DeliveredAccounted, WaitingAreStopped, Idle

\* Every step keeps the invariant.
LEMMA Inductive ==
    ASSUME Inv, [Next]_vars
    PROVE  Inv'
<1>1. ASSUME NEW j \in DOMAIN job, TaskStep(j) PROVE Inv'
  BY <1>1, ClaimStep, WorkStep, EndStep, ToldStep DEF TaskStep
<1>2. ASSUME NEW u \in Users, RequestStep(u) PROVE Inv'
  BY <1>2, ScheduleStep, CancelSaveStep, SignalAndShutdownStep DEF RequestStep
<1>3. CASE UNCHANGED vars
  BY <1>3 DEF vars, Inv, TypeOK, OneActiveJob, Active, RequestsApart, NotYetScheduled,
              CancelSeesTruth, RowFollowsTask, DeliveredAccounted, WaitingAreStopped, Orderly
<1> QED
  BY <1>1, <1>2, <1>3, SubmitStep, CancelReadStep, SignalAndShutdownStep, RestartStep DEF Next

\* The invariant holds in every behaviour.
LEMMA Invariant == Spec => []Inv
BY Initially, Inductive, PTL DEF Spec

(***************************************************************************)
(* The variables keep their types.                                         *)
(***************************************************************************)
THEOREM TypeCorrect == Spec => []TypeOK
<1>1. Inv => TypeOK
  BY DEF Inv
<1> QED
  BY <1>1, Invariant, PTL

(***************************************************************************)
(* Concurrent submissions share one active job of a subject, also when a   *)
(* claim overtakes a cancellation: a row that is over is never active.     *)
(***************************************************************************)
THEOREM SharedJob == Spec => []OneActiveJob
<1>1. Inv => OneActiveJob
  BY DEF Inv
<1> QED
  BY <1>1, Invariant, PTL

(***************************************************************************)
(* A job that says it was cancelled or has failed has left nothing in the  *)
(* project, unless it was claimed between the halves of its cancellation   *)
(* or had an error after its commit.                                       *)
(***************************************************************************)
THEOREM CleanFailures == Spec => []NothingLeftBehind
<1>1. Inv => NothingLeftBehind
  BY DEF Inv, DeliveredAccounted, RowFollowsTask, NothingLeftBehind, TypeOK
<1> QED
  BY <1>1, Invariant, PTL

(***************************************************************************)
(* A job keeps its terminal state, with the same two exceptions: whoever   *)
(* saves its row has seen it active under the lock it still holds.         *)
(***************************************************************************)
THEOREM TerminalIsFinal == Spec => TerminalStays
<1> DEFINE Stays == \A j \in DOMAIN job :
                        Orderly(j) /\ job[j].status \in Terminal => job'[j].status = job[j].status
<1>1. ASSUME Inv, [Next]_vars PROVE Stays
  <2>0. TypeOK
    BY <1>1 DEF Inv
  <2>1. job' = job => Stays
    OBVIOUS
  <2>2. ASSUME NEW j \in DOMAIN job, NEW s \in ACTIVE \cup Terminal,
               job' = WithStatus(j, s), Orderly(j) => job[j].status \in ACTIVE
        PROVE  Stays
    <3>1. \A k \in DOMAIN job : job'[k].status = IF k = j THEN s ELSE job[k].status
      BY <2>0, <2>2, StatusSet DEF TypeOK
    <3> QED
      BY <2>2, <3>1 DEF ACTIVE, Terminal
  <2>3. ASSUME NEW u \in Users, NEW x \in Subjects, Submit(u, x) PROVE Stays
    BY <2>0, <2>3, RowAppended DEF Submit, TypeOK
  <2>4. ASSUME NEW u \in Users, CancelSave(u) PROVE Stays
    <3>1. request[u].job \in DOMAIN job /\ job[request[u].job].status \in ACTIVE
      BY <1>1, <2>4 DEF CancelSave, Inv, RequestsApart, CancelSeesTruth
    <3> QED
      BY <2>2, <2>4, <3>1 DEF CancelSave, ACTIVE, Terminal
  <2>5. ASSUME NEW j \in DOMAIN job, Claim(j) PROVE Stays
    BY <2>1, <2>2, <2>5 DEF Claim, ACTIVE
  <2>6. ASSUME NEW j \in DOMAIN job, Complete(j) \/ Fail(j) PROVE Stays
    <3>1. Orderly(j) => job[j].status \in ACTIVE
      BY <1>1, <2>6 DEF Complete, Fail, Inv, RowFollowsTask, ACTIVE
    <3> QED
      BY <2>2, <2>6, <3>1 DEF Complete, Fail, Terminal
  <2>7. CASE Restart
    BY <2>0, <2>7, RowsRecovered DEF Restart, TypeOK, Recovered, Terminal
  <2> QED
    BY <1>1, <2>1, <2>3, <2>4, <2>5, <2>6, <2>7
    DEF Next, TaskStep, RequestStep, Schedule, CancelRead, CancelSignal, ClaimNothing, Generate, Commit,
        Told, LateError, FailUnsaved, Shutdown, vars
<1>2. Inv /\ [Next]_vars => [Stays]_vars
  BY <1>1
<1> QED
  BY <1>2, Invariant, PTL DEF Spec, TerminalStays

(***************************************************************************)
(* Once an enhancement service is stopping it starts no engine.            *)
(***************************************************************************)
THEOREM ShutdownStartsNothing == Spec => StopStartsNothing
<1> DEFINE Starts == service = "enhancement" /\ stopping
                       => \A j \in JobIds : task'[j] = "working" => task[j] = "working"
<1>1. ASSUME Inv, [Next]_vars PROVE Starts
  <2>0. task \in [JobIds -> {"none", "waiting"} \cup Busy] /\ DOMAIN job \subseteq JobIds
    BY <1>1, Shape DEF Inv, TypeOK
  <2>1. ASSUME NEW j \in DOMAIN job, Claim(j), service = "enhancement", stopping
        PROVE  task' \in {[task EXCEPT ![j] = "failing"], [task EXCEPT ![j] = "none"]}
    BY <1>1, <2>0, <2>1 DEF Claim, Goes, Inv, WaitingAreStopped
  <2>2. ASSUME NEW j \in DOMAIN job, NEW place \in {"none", "waiting", "made", "committed", "told", "failing"},
               task' = [task EXCEPT ![j] = place]
        PROVE  Starts
    BY <2>0, <2>2
  <2>3. ASSUME NEW j \in DOMAIN job, TaskStep(j) PROVE Starts
    <3>1. CASE Claim(j)
      BY <2>1, <2>2, <3>1
    <3>2. CASE \/ ClaimNothing(j) \/ Generate(j) \/ Commit(j) \/ Complete(j) \/ Told(j)
               \/ LateError(j) \/ Fail(j) \/ FailUnsaved(j)
      BY <2>2, <3>2
      DEF ClaimNothing, Generate, Commit, Complete, Told, LateError, Fail, FailUnsaved, Ends, Goes
    <3> QED
      BY <2>3, <3>1, <3>2 DEF TaskStep
  <2>4. ASSUME NEW u \in Users, RequestStep(u) PROVE Starts
    <3>1. request[u].op # "idle" => request[u].job \in DOMAIN job
      BY <1>1 DEF Inv, RequestsApart
    <3> QED
      BY <2>2, <2>4, <3>1 DEF RequestStep, Schedule, CancelSave, CancelSignal, Goes
  <2>5. CASE Restart
    BY <2>5 DEF Restart
  <2> QED
    BY <1>1, <2>3, <2>4, <2>5 DEF Next, Submit, CancelRead, Shutdown, vars
<1>2. Inv /\ [Next]_vars => [Starts]_vars
  BY <1>1
<1> QED
  BY <1>2, Invariant, PTL DEF Spec, StopStartsNothing
===============================================================================
