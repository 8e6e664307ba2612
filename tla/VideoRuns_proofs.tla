---------------------------- MODULE VideoRuns_proofs ----------------------------
(***************************************************************************)
(* For any number of videos, users, runs and restarts: the state is well   *)
(* typed and a run that is over has no task at work, always; no job that   *)
(* may be paid for is forgotten unless a reply about it was misread; and   *)
(* no other job is paid for twice, if no restart falls into the copying of *)
(* a retry.                                                                *)
(***************************************************************************)
EXTENDS VideoRuns, SequenceTheorems, FiniteSetTheorems, TLAPS

USE VideoAssumption DEF VideoAssumption

Busy(r) == worker[r].at \notin {"none", "scheduled"}
Holding(r) == worker[r].at \in {"next", "submitting", "saving", "polling"}
Retrying(u) == request[u].op = "retry"

\* The runs whose jobs the rows of a run account for: its ancestors, if a
\* retry cannot be scheduled half copied.
Kin(r) == IF "crash_in_retry" \in Hazards THEN {r} ELSE Lineage(r)

\* A row without an id says that nothing is known or nothing was bought; one
\* with an id is given up only when that job is, or a reply about it was misread.
SoundEntry(e) ==
    /\ e.job = 0 => e.status \in {"none", "pending", "unknown", "failed"}
    /\ e.job # 0 => /\ e.job \in DOMAIN job
                    /\ e.status \notin {"none", "pending"}
                    /\ e.status \in {"failed", "cancelled"}
                         => job[e.job].state \in {"lost", "cancelled"} \/ e.job \in misread

SoundRows ==
    /\ \A r \in RunIds, o \in Ordinals : SoundEntry(row[r][o])
    /\ \A r \in RunIds : Holding(r) => \A o \in Ordinals : SoundEntry(worker[r].seen[o])
    /\ \A u \in Users : request[u].op \in {"tasks", "retry"}
                          => \A o \in Ordinals : SoundEntry(request[u].seen[o])

\* Only the newest run generates or will; a run retries an older one.
RunsInOrder ==
    /\ \A r \in DOMAIN run : /\ run[r].of < r
                             /\ run[r].status \in {"queued", "running"} \/ Busy(r) => r = Len(run)
    /\ \A r \in RunIds \ DOMAIN run : worker[r] = NoWorker /\ row[r] = NoRows
    /\ \A u \in Users : request[u].op # "idle" => request[u].run \in DOMAIN run

\* The project lock has one holder: the generating task or one retry.
LockKept ==
    /\ \A r \in RunIds : Holding(r) => lock = "run"
    /\ \A u \in Users : Retrying(u) => lock = "request"
    /\ \A u, v \in Users : Retrying(u) /\ Retrying(v) => u = v

\* The task's copy of the rows is behind the rows only in what a
\* cancellation saved, and ahead of them only in an id not yet saved.
SeesRows(r) ==
    /\ worker[r].ord >= 1 /\ (worker[r].at # "next" => worker[r].ord \in Ordinals)
    /\ \A o \in Ordinals :
          /\ worker[r].seen[o].status = "none" <=> row[r][o].status = "none"
          /\ row[r][o].job # 0 => worker[r].seen[o].job = row[r][o].job
          /\ worker[r].seen[o].job # 0 /\ row[r][o].job = 0
                => /\ worker[r].at = "saving" /\ o = worker[r].ord /\ row[r][o] = Row("pending", 0)
                   /\ job[worker[r].seen[o].job].run = r /\ job[worker[r].seen[o].job].ord = o
    /\ worker[r].at \in {"saving", "polling"} => Task(r).job # 0
    /\ worker[r].at = "submitting" =>
          /\ Task(r) = Row("pending", 0) /\ row[r][worker[r].ord] = Row("pending", 0)
          /\ \E j \in DOMAIN job : job[j].run = r /\ job[j].ord = worker[r].ord

WorkerSees == \A r \in RunIds : Holding(r) => SeesRows(r)

\* The id a cancellation has read is still that of the row.
CancelSees ==
    \A u \in Users : request[u].op = "tasks" =>
        \A o \in Ordinals : request[u].seen[o].job # 0
                              => row[request[u].run][o].job = request[u].seen[o].job

\* A run whose rows are being copied has not begun.
CopyWaits ==
    \A u \in Users : Retrying(u) =>
        /\ worker[request[u].run].at = "none"
        /\ \A o \in Ordinals : o >= request[u].ord => row[request[u].run][o] = Row("none", 0)
        /\ \A j \in DOMAIN job : job[j].run # request[u].run

\* An ordinal of a run is submitted once, and has a row from then on.
JobsApart ==
    /\ \A j \in DOMAIN job : /\ job[j].run \in DOMAIN run
                             /\ row[job[j].run][job[j].ord].status # "none"
    /\ \A i, j \in DOMAIN job : job[i].run = job[j].run /\ job[i].ord = job[j].ord => i = j

\* An entry of run r accounts for job j: by its id, or, in the run that
\* submitted it, as a submission whose outcome is not known.
Names(e, r, j) ==
    \/ e.job = j /\ e.status \notin {"failed", "cancelled"}
    \/ e.job = 0 /\ e.status \in {"pending", "unknown"} /\ job[j].run = r

Copied(u, r, j) ==
    /\ Retrying(u) /\ request[u].run = r /\ request[u].ord <= job[j].ord
    /\ Names(request[u].seen[job[j].ord], r, j)

\* A job that may be paid for is accounted for in every run of its kin, by
\* the row or by what is still to be copied into it.
Kept ==
    \A r \in DOMAIN run, j \in DOMAIN job :
        job[j].run \in Kin(r) /\ job[j].state \in MayBePaid /\ j \notin misread
          => Names(row[r][job[j].ord], r, j) \/ \E u \in Users : Copied(u, r, j)

Inv ==
    /\ TypeOK
    /\ SoundRows
    /\ RunsInOrder
    /\ OverIsOver
    /\ LockKept
    /\ WorkerSees
    /\ CancelSees
    /\ CopyWaits
    /\ JobsApart
    /\ Kept
-------------------------------------------------------------------------------
(* Facts about the state *)

Entries == [status : TaskStatus, job : {0} \cup Jobs]
RunRows == [status : ACTIVE \cup Terminal, of : {0} \cup RunIds]
JobRows == [run : RunIds, ord : Ordinals, state : JobState]
Workers == [at : {"none", "scheduled", "claimed", "next", "submitting", "saving", "polling"},
            ord : 0..(N + 1), seen : Rows]
Requests == [op : {"idle", "cancel", "tasks", "retry"}, run : {0} \cup RunIds, ord : 0..(N + 1), seen : Rows]

\* The parts of the type invariant, with the domains of the two sequences.
LEMMA Shape ==
    ASSUME TypeOK
    PROVE  /\ run \in Seq(RunRows) /\ Len(run) \in Nat /\ Len(run) <= MaxRuns
           /\ DOMAIN run = 1..Len(run) /\ DOMAIN run \subseteq RunIds
           /\ \A r \in DOMAIN run : run[r] \in RunRows
           /\ job \in Seq(JobRows) /\ Len(job) \in Nat /\ Len(job) <= MaxRuns * N
           /\ DOMAIN job = 1..Len(job) /\ DOMAIN job \subseteq Jobs
           /\ \A j \in DOMAIN job : job[j] \in JobRows
           /\ row \in [RunIds -> [Ordinals -> Entries]]
           /\ worker \in [RunIds -> Workers]
           /\ request \in [Users -> Requests]
           /\ Rows = [Ordinals -> Entries]
<1>1. /\ run \in Seq(RunRows) /\ Len(run) <= MaxRuns
      /\ job \in Seq(JobRows) /\ Len(job) <= MaxRuns * N
  BY DEF TypeOK, RunRows, JobRows
<1>2. Len(run) \in Nat /\ DOMAIN run = 1..Len(run) /\ Len(job) \in Nat /\ DOMAIN job = 1..Len(job)
  BY <1>1, LenProperties
<1>3. /\ \A r \in DOMAIN run : run[r] \in RunRows
      /\ \A j \in DOMAIN job : job[j] \in JobRows
  BY <1>1, <1>2, ElementOfSeq
<1>4. DOMAIN run \subseteq RunIds /\ DOMAIN job \subseteq Jobs
  <2>1. MaxRuns * N \in Nat
    OBVIOUS
  <2>2. 1..Len(job) \subseteq 1..(MaxRuns * N)
    BY <1>1, <1>2, <2>1
  <2> QED
    BY <1>1, <1>2, <2>2 DEF RunIds, Jobs
<1> QED
  BY <1>1, <1>2, <1>3, <1>4 DEF TypeOK, Rows, Entries, Workers, Requests

\* A run changes its status and nothing else.
LEMMA StatusSet ==
    ASSUME TypeOK, NEW r \in DOMAIN run, NEW s \in ACTIVE \cup Terminal, run' = WithStatus(r, s)
    PROVE  /\ run' \in Seq(RunRows) /\ Len(run') = Len(run) /\ DOMAIN run' = DOMAIN run
           /\ \A q \in DOMAIN run : /\ run'[q].of = run[q].of
                                    /\ run'[q].status = IF q = r THEN s ELSE run[q].status
<1> DEFINE new == [run[r] EXCEPT !.status = s]
<1>1. run \in Seq(RunRows) /\ DOMAIN run = 1..Len(run) /\ run[r] \in RunRows
  BY Shape
<1>2. new \in RunRows /\ new.of = run[r].of /\ new.status = s
  BY <1>1 DEF RunRows
<1>3. run' = [run EXCEPT ![r] = new]
  BY DEF WithStatus
<1> HIDE DEF new
<1>4. /\ run' \in Seq(RunRows) /\ Len(run') = Len(run)
      /\ \A q \in 1..Len(run) : run'[q] = IF q = r THEN new ELSE run[q]
  BY <1>1, <1>2, <1>3, ExceptSeq
<1>5. DOMAIN run' = DOMAIN run
  BY <1>1, <1>4, LenProperties
<1> QED
  BY <1>1, <1>2, <1>4, <1>5

\* A new run comes last and is queued.
LEMMA RunAppended ==
    ASSUME TypeOK, Len(run) < MaxRuns, NEW s \in {0} \cup RunIds, Enqueue(s)
    PROVE  /\ run' \in Seq(RunRows) /\ Len(run') = Len(run) + 1
           /\ DOMAIN run' = 1..(Len(run) + 1) /\ DOMAIN run' \subseteq RunIds
           /\ \A q \in DOMAIN run : run'[q] = run[q]
           /\ run'[Len(run) + 1] = [status |-> "queued", of |-> s]
<1>1. run \in Seq(RunRows) /\ Len(run) \in Nat /\ DOMAIN run = 1..Len(run) /\ run' = Append(run, [status |-> "queued", of |-> s])
  BY Shape DEF Enqueue
<1>2. [status |-> "queued", of |-> s] \in RunRows
  BY DEF RunRows, ACTIVE
<1> QED
  BY <1>1, <1>2, LenProperties, AppendProperties DEF RunIds

\* What becomes of a job changes its state and nothing else.
LEMMA JobSet ==
    ASSUME TypeOK, NEW j \in DOMAIN job, NEW s \in JobState, Becomes(j, s)
    PROVE  /\ job' \in Seq(JobRows) /\ Len(job') = Len(job) /\ DOMAIN job' = DOMAIN job
           /\ \A k \in DOMAIN job : /\ job'[k].run = job[k].run /\ job'[k].ord = job[k].ord
                                    /\ job'[k].state = IF k = j THEN s ELSE job[k].state
<1> DEFINE new == [job[j] EXCEPT !.state = s]
<1>1. job \in Seq(JobRows) /\ DOMAIN job = 1..Len(job) /\ job[j] \in JobRows
  BY Shape
<1>2. new \in JobRows /\ new.run = job[j].run /\ new.ord = job[j].ord /\ new.state = s
  BY <1>1 DEF JobRows
<1>3. job' = [job EXCEPT ![j] = new]
  BY DEF Becomes
<1> HIDE DEF new
<1>4. /\ job' \in Seq(JobRows) /\ Len(job') = Len(job)
      /\ \A k \in 1..Len(job) : job'[k] = IF k = j THEN new ELSE job[k]
  BY <1>1, <1>2, <1>3, ExceptSeq
<1>5. DOMAIN job' = DOMAIN job
  BY <1>1, <1>4, LenProperties
<1> QED
  BY <1>1, <1>2, <1>4, <1>5

\* Saving a row changes that row.
LEMMA RowSaved ==
    ASSUME TypeOK, NEW r \in RunIds, NEW o \in Ordinals, NEW e \in Entries, SaveRow(r, o, e)
    PROVE  /\ row' \in [RunIds -> Rows]
           /\ \A q \in RunIds, p \in Ordinals : row'[q][p] = IF q = r /\ p = o THEN e ELSE row[q][p]
<1>1. row \in [RunIds -> [Ordinals -> Entries]]
  BY Shape
<1> QED
  BY <1>1 DEF SaveRow, Rows, Entries
-------------------------------------------------------------------------------
(* Ancestors *)

\* A run is its own ancestor, and ancestors are older.
LEMMA OwnLineage ==
    ASSUME TypeOK, NEW r \in DOMAIN run
    PROVE  r \in Lineage(r)
BY DEF Lineage

LEMMA LineageIsOlder ==
    ASSUME TypeOK, RunsInOrder, NEW r \in DOMAIN run, NEW s \in Lineage(r)
    PROVE  s <= r
<1> DEFINE S == {q \in DOMAIN run : q <= r}
<1>1. Len(run) \in Nat /\ DOMAIN run = 1..Len(run) /\ \A q \in DOMAIN run : run[q] \in RunRows
  BY Shape
<1>2. \A q \in S : run[q].of # 0 => run[q].of \in S
  BY <1>1 DEF RunsInOrder, RunRows, RunIds
<1>3. S \in SUBSET DOMAIN run /\ r \in S /\ WithAncestors(S)
  BY <1>1, <1>2 DEF WithAncestors
<1>4. s \in S
  BY <1>3 DEF Lineage
<1> QED
  BY <1>4

\* Ancestors are closed under being retried.
LEMMA LineageClosed ==
    ASSUME TypeOK, RunsInOrder, NEW r \in DOMAIN run
    PROVE  Lineage(r) \in SUBSET DOMAIN run /\ WithAncestors(Lineage(r))
<1>1. ASSUME NEW s \in Lineage(r), run[s].of # 0
      PROVE  run[s].of \in Lineage(r)
  <2>1. ASSUME NEW S \in SUBSET DOMAIN run, r \in S, WithAncestors(S)
        PROVE  run[s].of \in S
    BY <1>1, <2>1 DEF Lineage, WithAncestors
  <2>2. run[s].of \in DOMAIN run
    <3>1. Len(run) \in Nat /\ DOMAIN run = 1..Len(run) /\ \A q \in DOMAIN run : run[q] \in RunRows
      BY Shape
    <3>2. s \in DOMAIN run
      BY <1>1 DEF Lineage
    <3>3. run[s].of < s /\ run[s].of \in {0} \cup RunIds
      BY <3>1, <3>2 DEF RunsInOrder, RunRows
    <3> QED
      BY <1>1, <3>1, <3>2, <3>3 DEF RunIds
  <2> QED
    BY <2>1, <2>2 DEF Lineage
<1> QED
  BY <1>1 DEF Lineage, WithAncestors
\* The lineage of a run depends on what runs retry, and on nothing newer.
LEMMA LineageKept ==
    ASSUME TypeOK, RunsInOrder, NEW r \in DOMAIN run,
           DOMAIN run \subseteq DOMAIN run', \A q \in DOMAIN run : run'[q].of = run[q].of
    PROVE  Lineage(r)' \subseteq Lineage(r)
<1>1. Lineage(r) \in SUBSET DOMAIN run' /\ \A s \in Lineage(r) : run[s].of # 0 => run[s].of \in Lineage(r)
  BY LineageClosed DEF WithAncestors
<1>2. \A s \in Lineage(r) : run'[s].of # 0 => run'[s].of \in Lineage(r)
  BY <1>1 DEF Lineage
<1>3. r \in Lineage(r)
  BY OwnLineage
<1>5. ASSUME NEW s \in Lineage(r)'
      PROVE  s \in Lineage(r)
  BY <1>1, <1>2, <1>3, <1>5 DEF Lineage, WithAncestors
<1> QED
  BY <1>5

LEMMA KinKept ==
    ASSUME TypeOK, RunsInOrder, NEW r \in DOMAIN run,
           DOMAIN run \subseteq DOMAIN run', \A q \in DOMAIN run : run'[q].of = run[q].of
    PROVE  Kin(r)' \subseteq Kin(r)
BY LineageKept DEF Kin

LEMMA OwnKin ==
    ASSUME TypeOK, NEW r \in DOMAIN run
    PROVE  r \in Kin(r)
BY OwnLineage DEF Kin

\* A retry adds itself to the lineage of its source.
LEMMA LineageGrows ==
    ASSUME TypeOK, RunsInOrder, Len(run) < MaxRuns, NEW s \in DOMAIN run, Enqueue(s),
           NEW new, new = Len(run) + 1
    PROVE  Lineage(new)' \subseteq {new} \cup Lineage(s)
<1>1. DOMAIN run = 1..Len(run) /\ DOMAIN run \subseteq RunIds /\ Len(run) \in Nat
  BY Shape
<1>2. /\ DOMAIN run' = 1..new
      /\ \A q \in DOMAIN run : run'[q] = run[q]
      /\ run'[new].of = s
  <2>1. s \in {0} \cup RunIds
    BY <1>1
  <2>2. /\ DOMAIN run' = 1..(Len(run) + 1)
        /\ \A q \in DOMAIN run : run'[q] = run[q]
        /\ run'[Len(run) + 1] = [status |-> "queued", of |-> s]
    BY <2>1, RunAppended
  <2> QED
    BY <2>2
<1>3. Lineage(s) \in SUBSET DOMAIN run /\ \A q \in Lineage(s) : run[q].of # 0 => run[q].of \in Lineage(s)
  BY LineageClosed DEF WithAncestors
<1>4. s \in Lineage(s)
  BY OwnLineage
<1> DEFINE S == {new} \cup Lineage(s)
<1>5. S \in SUBSET DOMAIN run' /\ new \in S
  BY <1>1, <1>2, <1>3
<1>6. \A q \in S : run'[q].of # 0 => run'[q].of \in S
  BY <1>1, <1>2, <1>3, <1>4
<1> HIDE DEF S
<1>7. ASSUME NEW q \in Lineage(new)'
      PROVE  q \in S
  BY <1>5, <1>6, <1>7 DEF Lineage, WithAncestors
<1> QED
  BY <1>7 DEF S
-------------------------------------------------------------------------------
(* Steps that save rows *)

\* A saved entry keeps the id, and accounts for the jobs the entry before it
\* accounted for.
RowGoesOn(r, o, e) ==
    /\ e.status # "none"
    /\ row[r][o].job # 0 => e.job = row[r][o].job
    /\ \A j \in DOMAIN job :
          /\ job[j].ord = o /\ job'[j].state \in MayBePaid /\ j \notin misread'
          /\ Names(row[r][o], r, j)
          => Names(e, r, j)

RowsGoOn ==
    /\ row' \in [RunIds -> Rows]
    /\ \A r \in RunIds, o \in Ordinals :
          row'[r][o] = row[r][o] \/ (r \in DOMAIN run /\ RowGoesOn(r, o, row'[r][o]))

JobsGoOn ==
    /\ job' \in Seq(JobRows) /\ Len(job') = Len(job) /\ DOMAIN job' = DOMAIN job
    /\ \A j \in DOMAIN job :
          /\ job'[j].run = job[j].run /\ job'[j].ord = job[j].ord
          /\ job'[j].state \in MayBePaid => job[j].state \in MayBePaid
          /\ job[j].state \in {"lost", "cancelled"} => job'[j].state \in {"lost", "cancelled"}
    /\ misread \subseteq misread' /\ misread' \in SUBSET DOMAIN job

RunsGoOn ==
    /\ run' \in Seq(RunRows) /\ Len(run') = Len(run) /\ DOMAIN run' = DOMAIN run
    /\ \A r \in DOMAIN run : run'[r].of = run[r].of

\* A retry goes on, has copied everything, or may be lost half copied.
RetriesGoOn ==
    \A u \in Users : Retrying(u) =>
        request'[u] = request[u] \/ request[u].ord > N \/ "crash_in_retry" \in Hazards

\* No new job and no new run: every job stays apart and accounted for.
LEMMA RowsFrame ==
    ASSUME Inv, RunsGoOn, JobsGoOn, RowsGoOn, RetriesGoOn
    PROVE  JobsApart' /\ Kept'
<1>0. TypeOK /\ RunsInOrder
  BY DEF Inv
<1>1. DOMAIN run \subseteq RunIds /\ \A j \in DOMAIN job : job[j] \in JobRows
  BY <1>0, Shape
<1>2. \A j \in DOMAIN job : job[j].run \in RunIds /\ job[j].ord \in Ordinals
  BY <1>1 DEF JobRows
<1>3. JobsApart'
  <2>1. \A r \in RunIds, o \in Ordinals : row[r][o].status # "none" => row'[r][o].status # "none"
    BY DEF RowsGoOn, RowGoesOn
  <2> QED
    BY <1>2, <2>1 DEF Inv, JobsApart, RunsGoOn, JobsGoOn
<1>4. ASSUME NEW r \in DOMAIN run, NEW j \in DOMAIN job,
             job'[j].run \in Kin(r)', job'[j].state \in MayBePaid, j \notin misread'
      PROVE  /\ job[j].run \in Kin(r)
             /\ Names(row'[r][job[j].ord], r, j) \/ \E u \in Users : Copied(u, r, j)
  <2> DEFINE o == job[j].ord
  <2>1. r \in RunIds /\ o \in Ordinals
    BY <1>1, <1>2
  <2>2. job[j].run \in Kin(r) /\ job[j].state \in MayBePaid
    BY <1>0, <1>4, KinKept DEF RunsGoOn, JobsGoOn
  <2>3. j \notin misread
    BY <1>4 DEF JobsGoOn
  <2>4. Names(row[r][o], r, j) \/ \E u \in Users : Copied(u, r, j)
    BY <2>2, <2>3 DEF Inv, Kept
  <2> QED
    BY <1>4, <2>1, <2>2, <2>4 DEF RowsGoOn, RowGoesOn
<1>5. \A r \in DOMAIN run, j \in DOMAIN job : Names(row'[r][job[j].ord], r, j) => Names(row[r][job[j].ord], r, j)'
  BY DEF Names, JobsGoOn
<1>6. ASSUME NEW u \in Users, NEW r \in DOMAIN run, NEW j \in DOMAIN job,
             Copied(u, r, j), job[j].run \in Kin(r)
      PROVE  Copied(u, r, j)'
  <2>1. Retrying(u) /\ request[u].run = r /\ request[u].ord <= job[j].ord /\ job[j].run # r
    BY <1>6 DEF Inv, CopyWaits, Copied
  <2>2. "crash_in_retry" \notin Hazards
    BY <1>6, <2>1 DEF Kin
  <2>3. request[u].ord \in 0..(N + 1) /\ job[j].ord \in 1..N
    BY <1>0, <1>2, Shape DEF Requests, Ordinals
  <2>4. request'[u] = request[u]
    BY <2>1, <2>2, <2>3 DEF RetriesGoOn
  <2> QED
    BY <1>6, <2>4 DEF Copied, Names, Retrying, JobsGoOn
<1> QED
  BY <1>3, <1>4, <1>5, <1>6 DEF Kept, RunsGoOn, JobsGoOn

\* Saved rows are sound if what was saved is.
LEMMA SoundKept ==
    ASSUME Inv, JobsGoOn, NEW e, SoundEntry(e)
    PROVE  SoundEntry(e)'
BY DEF SoundEntry, JobsGoOn

\* Jobs whose replies were misread exist.
LEMMA MisreadSame ==
    ASSUME Inv, misread' = misread
    PROVE  misread \in SUBSET DOMAIN job /\ misread \subseteq misread' /\ misread' \in SUBSET DOMAIN job
BY DEF Inv, TypeOK

\* The generating task is alone, and nobody copies rows.
LEMMA Alone ==
    ASSUME Inv, NEW r \in RunIds, Holding(r)
    PROVE  /\ r \in DOMAIN run /\ r = Len(run)
           /\ \A q \in RunIds : Busy(q) \/ Holding(q) => q = r
           /\ \A u \in Users : ~Retrying(u)
           /\ lock = "run" /\ Busy(r) /\ SeesRows(r) /\ run[r].status \in ACTIVE
<1>1. \A q \in RunIds : Busy(q) \/ Holding(q) => q \in DOMAIN run /\ q = Len(run)
  BY DEF Inv, RunsInOrder, Busy, Holding, NoWorker
<1> QED
  BY <1>1 DEF Inv, LockKept, WorkerSees, OverIsOver, Busy, Holding
\* A step of the generating task that goes on: what is left to show is what
\* the task then sees and that what it saves is sound.
LEMMA HoldingStep ==
    ASSUME Inv, NEW r \in RunIds, Holding(r),
           worker' \in [RunIds -> Workers], \A q \in RunIds : q # r => worker'[q] = worker[q],
           Holding(r)', SeesRows(r)', \A o \in Ordinals : SoundEntry(worker'[r].seen[o]),
           RowsGoOn, \A q \in RunIds, o \in Ordinals : SoundEntry(row'[q][o]),
           misread \subseteq misread', misread' \in SUBSET DOMAIN job,
           UNCHANGED <<run, lock, request, job, restarts>>
    PROVE  Inv'
<1>0. TypeOK
  BY DEF Inv
<1>1. /\ r \in DOMAIN run /\ r = Len(run) /\ Busy(r) /\ lock = "run" /\ run[r].status \in ACTIVE
      /\ \A q \in RunIds : Busy(q) \/ Holding(q) => q = r
      /\ \A u \in Users : ~Retrying(u)
  BY Alone
<1>2. DOMAIN run \subseteq RunIds /\ job \in Seq(JobRows) /\ Rows = [Ordinals -> Entries]
      /\ run \in Seq(RunRows)
  BY <1>0, Shape
<1>3. \A e : SoundEntry(e) => SoundEntry(e)'
  BY DEF SoundEntry
<1>4. TypeOK'
  <2>1. \A q \in RunIds, o \in Ordinals : row'[q][o].job \in {0} \cup DOMAIN job
    BY DEF SoundEntry
  <2> QED
    BY <1>0, <2>1 DEF TypeOK, Workers, RowsGoOn
<1>5. SoundRows'
  <2>1. \A q \in RunIds : q # r => ~Holding(q)'
    BY <1>1 DEF Holding
  <2>2. \A u \in Users : request[u].op \in {"tasks", "retry"}
                          => \A o \in Ordinals : SoundEntry(request[u].seen[o])
    BY DEF Inv, SoundRows
  <2> QED
    BY <1>3, <2>1, <2>2 DEF SoundRows
<1>6. RunsInOrder'
  <2>1. \A q \in RunIds \ DOMAIN run : row'[q] = NoRows
    <3>1. ASSUME NEW q \in RunIds \ DOMAIN run
          PROVE  row'[q] = row[q]
      <4>1. row[q] \in [Ordinals -> Entries] /\ row'[q] \in [Ordinals -> Entries]
        BY <1>0, <1>2, Shape DEF RowsGoOn
      <4>2. \A o \in Ordinals : row'[q][o] = row[q][o]
        BY <3>1 DEF RowsGoOn
      <4> QED
        BY <4>1, <4>2
    <3> QED
      BY <3>1 DEF Inv, RunsInOrder
  <2> QED
    BY <1>1, <1>2, <2>1 DEF Inv, RunsInOrder, Busy
<1>7. OverIsOver'
  BY <1>1, <1>2 DEF Inv, OverIsOver, Busy
<1>8. LockKept' /\ CopyWaits'
  BY <1>1, <1>2 DEF Inv, LockKept, CopyWaits, Retrying, Holding
<1>9. WorkerSees'
  BY <1>1 DEF WorkerSees, Holding
<1>10. CancelSees'
  <2>1. \A q \in RunIds, o \in Ordinals : row[q][o].job # 0 => row'[q][o].job = row[q][o].job
    BY DEF RowsGoOn, RowGoesOn
  <2> QED
    BY <1>2, <2>1 DEF Inv, CancelSees, RunsInOrder
<1>11. JobsApart' /\ Kept'
  <2>1. JobsGoOn /\ RunsGoOn /\ RetriesGoOn
    BY <1>1, <1>2 DEF JobsGoOn, RunsGoOn, RetriesGoOn
  <2> QED
    BY <2>1, RowsFrame
<1> QED
  BY <1>4, <1>5, <1>6, <1>7, <1>8, <1>9, <1>10, <1>11 DEF Inv
\* What an update of the task's place, and of one entry it sees, comes to.
LEMMA TaskSaw ==
    ASSUME TypeOK, NEW r \in RunIds, worker[r].ord \in Ordinals, NEW e \in Entries,
           NEW place \in {"submitting", "saving", "polling"}, worker' = Seeing(r, e, place)
    PROVE  /\ worker' \in [RunIds -> Workers] /\ \A q \in RunIds : q # r => worker'[q] = worker[q]
           /\ worker'[r].at = place /\ worker'[r].ord = worker[r].ord
           /\ \A o \in Ordinals : worker'[r].seen[o] = IF o = worker[r].ord THEN e ELSE worker[r].seen[o]
           /\ Holding(r)'
<1>1. worker \in [RunIds -> Workers] /\ Rows = [Ordinals -> Entries] /\ worker[r] \in Workers
  BY Shape
<1>2. worker' = [worker EXCEPT ![r].seen[worker[r].ord] = e, ![r].at = place]
  BY DEF Seeing
<1>3. worker' = [worker EXCEPT ![r] = [at |-> place, ord |-> worker[r].ord,
                                      seen |-> [worker[r].seen EXCEPT ![worker[r].ord] = e]]]
  BY <1>1, <1>2 DEF Workers
<1> QED
  BY <1>1, <1>3 DEF Workers, Holding

LEMMA TaskMovedOn ==
    ASSUME TypeOK, NEW r \in RunIds, worker[r].ord \in Ordinals, NEW e \in Entries, Settled(r, e)
    PROVE  /\ worker' \in [RunIds -> Workers] /\ \A q \in RunIds : q # r => worker'[q] = worker[q]
           /\ worker'[r].at = "next" /\ worker'[r].ord = worker[r].ord + 1
           /\ \A o \in Ordinals : worker'[r].seen[o] = IF o = worker[r].ord THEN e ELSE worker[r].seen[o]
           /\ Holding(r)'
<1>1. worker \in [RunIds -> Workers] /\ Rows = [Ordinals -> Entries] /\ worker[r] \in Workers
  BY Shape
<1>2. worker[r].ord + 1 \in 0..(N + 1)
  BY DEF Ordinals
<1> QED
  BY <1>1, <1>2 DEF Settled, Workers, Holding

\* The task learns something of the ordinal it is at and saves nothing yet.
LEMMA SeeStep ==
    ASSUME Inv, NEW r \in DOMAIN run, Holding(r), worker[r].ord \in Ordinals,
           NEW e \in Entries, NEW place \in {"saving", "polling"}, worker' = Seeing(r, e, place),
           SoundEntry(e), e.job # 0, Task(r).status # "none",
           LET known == row[r][worker[r].ord]
           IN  IF known.job # 0 THEN e.job = known.job
               ELSE /\ place = "saving" /\ known = Row("pending", 0)
                    /\ job[e.job].run = r /\ job[e.job].ord = worker[r].ord,
           UNCHANGED <<run, row, lock, request, job, misread, restarts>>
    PROVE  Inv'
<1>0. TypeOK /\ SeesRows(r)
  <2>1. DOMAIN run \subseteq RunIds
    BY Shape DEF Inv
  <2> QED
    BY <2>1 DEF Inv, WorkerSees
<1>1. r \in RunIds
  BY <1>0, Shape
<1>2. /\ worker' \in [RunIds -> Workers] /\ \A q \in RunIds : q # r => worker'[q] = worker[q]
      /\ worker'[r].at = place /\ worker'[r].ord = worker[r].ord
      /\ \A o \in Ordinals : worker'[r].seen[o] = IF o = worker[r].ord THEN e ELSE worker[r].seen[o]
      /\ Holding(r)'
  BY <1>0, <1>1, TaskSaw
<1>3. SeesRows(r)'
  <2>1. e.status # "none" /\ row[r][worker[r].ord].status # "none"
    BY <1>0 DEF SoundEntry, SeesRows, Task
  <2> QED
    BY <1>0, <1>2, <2>1 DEF SeesRows, Task
<1>4. \A o \in Ordinals : SoundEntry(worker'[r].seen[o])
  BY <1>1, <1>2 DEF Inv, SoundRows
<1>5. RowsGoOn /\ \A q \in RunIds, o \in Ordinals : SoundEntry(row'[q][o])
  BY <1>0 DEF Inv, SoundRows, RowsGoOn, TypeOK
<1> QED
  BY <1>1, <1>2, <1>3, <1>4, <1>5, HoldingStep, MisreadSame, MisreadSame

LEMMA HearAcceptedStep ==
    ASSUME Inv, NEW r \in DOMAIN run, HearAccepted(r)
    PROVE  Inv'
<1> DEFINE o == worker[r].ord  j == Sent(r)
<1>0. TypeOK /\ DOMAIN run \subseteq RunIds /\ DOMAIN job \subseteq Jobs /\ DOMAIN job = 1..Len(job)
  BY Shape DEF Inv
<1>1. /\ worker[r].at = "submitting" /\ o \in Ordinals /\ job[j].state \notin {"sent", "refused"}
      /\ worker' = Seeing(r, Row("submitted", j), "saving")
      /\ UNCHANGED <<run, row, lock, request, job, misread, restarts>>
  BY DEF HearAccepted, Facing, Answered
<1>2. Holding(r) /\ SeesRows(r)
  BY <1>0, <1>1 DEF Inv, WorkerSees, Holding
<1>3. Task(r) = Row("pending", 0) /\ row[r][o] = Row("pending", 0) /\ \E k \in DOMAIN job : job[k].run = r /\ job[k].ord = o
  BY <1>1, <1>2 DEF SeesRows
<1>4. j \in DOMAIN job /\ job[j].run = r /\ job[j].ord = o
  BY <1>3 DEF Sent
<1> HIDE DEF j
<1>5. j # 0 /\ Row("submitted", j) \in Entries /\ SoundEntry(Row("submitted", j))
  BY <1>0, <1>4 DEF Row, Entries, TaskStatus, SoundEntry
<1>6. Row("submitted", j).job = j /\ Task(r).status # "none" /\ row[r][o].job = 0
  BY <1>3 DEF Row
<1> QED
  BY <1>1, <1>2, <1>3, <1>4, <1>5, <1>6, SeeStep

LEMMA FollowStep ==
    ASSUME Inv, NEW r \in DOMAIN run, Follow(r)
    PROVE  Inv'
<1> DEFINE o == worker[r].ord
           e == IF Task(r).status = "succeeded" THEN Row("running", Task(r).job) ELSE Task(r)
<1>0. TypeOK /\ DOMAIN run \subseteq RunIds /\ worker[r] \in Workers /\ Rows = [Ordinals -> Entries]
  BY Shape DEF Inv
<1>1. /\ worker[r].at = "next" /\ o \in Ordinals /\ Task(r).job # 0 /\ Task(r).status \notin {"failed", "cancelled"}
      /\ worker' = Seeing(r, e, "polling")
      /\ UNCHANGED <<run, row, lock, request, job, misread, restarts>>
  BY DEF Follow, Facing
<1>2. Holding(r) /\ SeesRows(r) /\ SoundEntry(Task(r)) /\ Task(r) \in Entries
  BY <1>0, <1>1 DEF Inv, WorkerSees, SoundRows, Holding, Task, Workers
<1>3. e \in Entries /\ SoundEntry(e) /\ e.job = Task(r).job
  BY <1>1, <1>2 DEF Entries, SoundEntry, Row, TaskStatus
<1>4. row[r][o].job # 0 /\ row[r][o].job = e.job
  BY <1>1, <1>2, <1>3 DEF SeesRows, Task
<1>5. Task(r).status # "none"
  BY <1>1, <1>2 DEF SoundEntry
<1> HIDE DEF e
<1> QED
  BY <1>1, <1>2, <1>3, <1>4, <1>5, SeeStep

LEMMA PollStep ==
    ASSUME Inv, NEW r \in DOMAIN run, Poll(r)
    PROVE  Inv'
<1> DEFINE o == worker[r].ord
           e == Row(PollAnswer(Task(r).job), Task(r).job)
<1>0. TypeOK /\ DOMAIN run \subseteq RunIds /\ worker[r] \in Workers /\ Rows = [Ordinals -> Entries]
  BY Shape DEF Inv
<1>1. /\ worker[r].at = "polling" /\ o \in Ordinals
      /\ worker' = Seeing(r, e, "saving")
      /\ UNCHANGED <<run, row, lock, request, job, misread, restarts>>
  BY DEF Poll, Facing
<1>2. Holding(r) /\ SeesRows(r) /\ SoundEntry(Task(r)) /\ Task(r) \in Entries /\ Task(r).job # 0
  BY <1>0, <1>1 DEF Inv, WorkerSees, SeesRows, SoundRows, Holding, Task, Workers
<1>3. e.job = Task(r).job /\ e.status = PollAnswer(Task(r).job)
  BY DEF Row
<1>4. /\ PollAnswer(Task(r).job) \in {"succeeded", "failed", "running"}
      /\ PollAnswer(Task(r).job) = "failed" => job[Task(r).job].state \in {"lost", "cancelled"}
  BY DEF PollAnswer
<1>5. e \in Entries /\ SoundEntry(e)
  BY <1>2, <1>3, <1>4 DEF Entries, SoundEntry, Row, TaskStatus
<1>6. row[r][o].job # 0 /\ row[r][o].job = e.job
  BY <1>1, <1>2, <1>3 DEF SeesRows, Task
<1>7. Task(r).status # "none"
  BY <1>2 DEF SoundEntry
<1> HIDE DEF e
<1> QED
  BY <1>1, <1>2, <1>3, <1>5, <1>6, <1>7, SeeStep
\* The task passes over an ordinal whose row is settled.
LEMMA PassOverStep ==
    ASSUME Inv, NEW r \in DOMAIN run, PassOver(r)
    PROVE  Inv'
<1> DEFINE o == worker[r].ord
<1>0. TypeOK /\ r \in RunIds /\ worker[r] \in Workers /\ Rows = [Ordinals -> Entries]
  BY Shape DEF Inv
<1>1. /\ worker[r].at = "next" /\ o \in Ordinals /\ Settled(r, Task(r))
      /\ UNCHANGED <<run, row, lock, request, job, misread, restarts>>
  BY DEF PassOver, Facing
<1>2. Holding(r) /\ SeesRows(r) /\ Task(r) \in Entries /\ Task(r) = worker[r].seen[o]
  BY <1>0, <1>1 DEF Inv, WorkerSees, Holding, Task, Workers
<1>3. /\ worker' \in [RunIds -> Workers] /\ \A q \in RunIds : q # r => worker'[q] = worker[q]
      /\ worker'[r].at = "next" /\ worker'[r].ord = o + 1
      /\ \A p \in Ordinals : worker'[r].seen[p] = worker[r].seen[p]
      /\ Holding(r)'
  BY <1>0, <1>1, <1>2, TaskMovedOn
<1>4. SeesRows(r)'
  BY <1>1, <1>2, <1>3 DEF SeesRows, Ordinals
<1>5. \A p \in Ordinals : SoundEntry(worker'[r].seen[p])
  BY <1>0, <1>2, <1>3 DEF Inv, SoundRows
<1>6. RowsGoOn /\ \A q \in RunIds, p \in Ordinals : SoundEntry(row'[q][p])
  BY <1>0, <1>1 DEF Inv, SoundRows, RowsGoOn, TypeOK
<1> QED
  BY <1>0, <1>1, <1>2, <1>3, <1>4, <1>5, <1>6, HoldingStep, MisreadSame, MisreadSame

\* A save of one entry is a step of the rows.
LEMMA OneRowGoesOn ==
    ASSUME Inv, NEW r \in DOMAIN run, NEW o \in Ordinals, NEW e \in Entries, SaveRow(r, o, e),
           RowGoesOn(r, o, e)
    PROVE  RowsGoOn
<1>1. row' \in [RunIds -> Rows] /\ r \in RunIds
      /\ \A q \in RunIds, p \in Ordinals : row'[q][p] = IF q = r /\ p = o THEN e ELSE row[q][p]
  BY Shape, RowSaved DEF Inv
<1> QED
  BY <1>1 DEF RowsGoOn

\* The task saves what becomes of its ordinal and goes on to the next.
LEMMA SettleStep ==
    ASSUME Inv, NEW r \in DOMAIN run, Holding(r), worker[r].ord \in Ordinals, NEW e \in Entries,
           SaveRow(r, worker[r].ord, e), Settled(r, e), SoundEntry(e), RowGoesOn(r, worker[r].ord, e),
           misread \subseteq misread', misread' \in SUBSET DOMAIN job,
           UNCHANGED <<run, lock, request, job, restarts>>
    PROVE  Inv'
<1> DEFINE o == worker[r].ord
<1>0. TypeOK /\ r \in RunIds
  BY Shape DEF Inv
<1>1. SeesRows(r)
  BY <1>0 DEF Inv, WorkerSees
<1>2. /\ worker' \in [RunIds -> Workers] /\ \A q \in RunIds : q # r => worker'[q] = worker[q]
      /\ worker'[r].at = "next" /\ worker'[r].ord = o + 1
      /\ \A p \in Ordinals : worker'[r].seen[p] = IF p = o THEN e ELSE worker[r].seen[p]
      /\ Holding(r)'
  BY <1>0, TaskMovedOn
<1>3. \A q \in RunIds, p \in Ordinals : row'[q][p] = IF q = r /\ p = o THEN e ELSE row[q][p]
  BY <1>0, RowSaved
<1>4. SeesRows(r)'
  BY <1>0, <1>1, <1>2, <1>3 DEF SeesRows, Ordinals
<1>5. /\ \A p \in Ordinals : SoundEntry(worker'[r].seen[p])
      /\ \A q \in RunIds, p \in Ordinals : SoundEntry(row'[q][p])
  BY <1>0, <1>2, <1>3 DEF Inv, SoundRows
<1>6. RowsGoOn
  BY OneRowGoesOn
<1> QED
  BY <1>0, <1>2, <1>4, <1>5, <1>6, HoldingStep

\* The call failed.  If that is taken for a refusal it was one, or the
\* acceptance was misread; otherwise the outcome is not known.
LEMMA SubmitFailsStep ==
    ASSUME Inv, NEW r \in DOMAIN run, HearRefused(r) \/ HearNothing(r) \/ HearGarbled(r)
    PROVE  Inv'
<1> DEFINE o == worker[r].ord
<1>0. TypeOK /\ r \in RunIds /\ DOMAIN job \subseteq Jobs /\ \A j \in DOMAIN job : job[j] \in JobRows
  BY Shape DEF Inv
<1>1. PICK s \in {"failed", "unknown"} :
        /\ SubmitFails(r, s)
        /\ misread' \in {misread, misread \cup {Sent(r)}}
        /\ s = "failed" => job[Sent(r)].state = "refused" \/ Sent(r) \in misread'
  BY DEF HearRefused, HearNothing, HearGarbled
<1>2. /\ worker[r].at = "submitting" /\ o \in Ordinals
      /\ SaveRow(r, o, Row(s, 0)) /\ Settled(r, Row(s, 0))
      /\ UNCHANGED <<run, lock, request, job, restarts>>
  BY <1>1 DEF HearRefused, HearNothing, HearGarbled, Facing, SubmitFails
<1>3. Holding(r) /\ SeesRows(r)
  BY <1>0, <1>2 DEF Inv, WorkerSees, Holding
<1>4. row[r][o] = Row("pending", 0) /\ \E k \in DOMAIN job : job[k].run = r /\ job[k].ord = o
  BY <1>2, <1>3 DEF SeesRows
<1>5. Sent(r) \in DOMAIN job /\ job[Sent(r)].run = r /\ job[Sent(r)].ord = o
  BY <1>4 DEF Sent
<1>6. \A j \in DOMAIN job : job[j].run = r /\ job[j].ord = o => j = Sent(r)
  BY <1>5 DEF Inv, JobsApart
<1>7. Row(s, 0) \in Entries /\ SoundEntry(Row(s, 0)) /\ Row(s, 0).job = 0 /\ Row(s, 0).status = s
  BY DEF Row, Entries, TaskStatus, SoundEntry
<1>8. RowGoesOn(r, o, Row(s, 0))
  <2>1. row[r][o].job = 0
    BY <1>4 DEF Row
  <2>2. ASSUME NEW j \in DOMAIN job, job[j].ord = o, job[j].state \in MayBePaid, Names(row[r][o], r, j),
               j \notin misread'
        PROVE  Names(Row(s, 0), r, j)
    <3>1. j # 0 /\ job[j].run = r
      BY <1>0, <2>1, <2>2 DEF Names, Jobs
    <3>2. j = Sent(r)
      BY <1>6, <2>2, <3>1
    <3>3. s # "failed"
      BY <1>1, <2>2, <3>1, <3>2 DEF MayBePaid
    <3> QED
      BY <1>7, <3>1, <3>3 DEF Names
  <2> QED
    BY <1>2, <1>7, <2>1, <2>2 DEF RowGoesOn
<1>9. misread \subseteq misread' /\ misread' \in SUBSET DOMAIN job
  BY <1>0, <1>1, <1>5 DEF TypeOK
<1> QED
  BY <1>2, <1>3, <1>7, <1>8, <1>9, SettleStep
\* An entry with the id the task knows continues the row: the id is the
\* row's, or that of the one job this ordinal was submitted as.
LEMMA KnownIdGoesOn ==
    ASSUME Inv, NEW r \in DOMAIN run, worker[r].at \in {"saving", "polling"}, worker[r].ord \in Ordinals,
           NEW e \in Entries, SoundEntry(e), e.job = Task(r).job, job' = job, misread' = misread
    PROVE  RowGoesOn(r, worker[r].ord, e)
<1> DEFINE o == worker[r].ord
<1>0. TypeOK /\ r \in RunIds /\ DOMAIN job \subseteq Jobs
  BY Shape DEF Inv
<1>1. SeesRows(r) /\ Task(r).job # 0 /\ Task(r) = worker[r].seen[o]
  BY <1>0 DEF Inv, WorkerSees, Holding, SeesRows, Task
<1>2. e.status \notin {"none", "pending"} /\ e.job \in DOMAIN job
  BY <1>1 DEF SoundEntry
<1>3. row[r][o].job # 0 => e.job = row[r][o].job
  BY <1>1 DEF SeesRows
<1>4. row[r][o].job = 0 => row[r][o] = Row("pending", 0) /\ job[e.job].run = r /\ job[e.job].ord = o
  BY <1>1 DEF SeesRows
<1>6. ASSUME NEW j \in DOMAIN job, job[j].ord = o, job[j].state \in MayBePaid, j \notin misread',
             Names(row[r][o], r, j)
      PROVE  Names(e, r, j)
  <2>1. j # 0
    BY <1>0 DEF Jobs
  <2>2. e.job = j
    <3>1. CASE row[r][o].job # 0
      BY <1>3, <1>6, <3>1 DEF Names
    <3>2. CASE row[r][o].job = 0
      <4>1. job[j].run = r
        BY <1>6, <2>1, <3>2 DEF Names
      <4> QED
        BY <1>2, <1>4, <1>6, <3>2, <4>1 DEF Inv, JobsApart
    <3> QED
      BY <3>1, <3>2
  <2>3. e.status \notin {"failed", "cancelled"}
    BY <1>6, <2>1, <2>2 DEF SoundEntry, MayBePaid
  <2> QED
    BY <2>2, <2>3 DEF Names
<1> QED
  BY <1>2, <1>3, <1>6 DEF RowGoesOn

\* The entry of the ordinal the task is at, when it has an id.
LEMMA KnownId ==
    ASSUME Inv, NEW r \in DOMAIN run, worker[r].at \in {"saving", "polling"}, worker[r].ord \in Ordinals
    PROVE  /\ Task(r) \in Entries /\ Task(r).job # 0 /\ SoundEntry(Task(r)) /\ Holding(r)
           /\ Row("unknown", Task(r).job) \in Entries /\ SoundEntry(Row("unknown", Task(r).job))
           /\ Row("unknown", Task(r).job).job = Task(r).job
<1>1. r \in RunIds /\ worker[r] \in Workers /\ Rows = [Ordinals -> Entries]
  BY Shape DEF Inv
<1>2. Holding(r) /\ Task(r) = worker[r].seen[worker[r].ord] /\ Task(r) \in Entries
  BY <1>1 DEF Holding, Task, Workers
<1>3. Task(r).job # 0 /\ SoundEntry(Task(r))
  BY <1>1, <1>2 DEF Inv, WorkerSees, SeesRows, SoundRows
<1> QED
  BY <1>2, <1>3 DEF Entries, Row, TaskStatus, SoundEntry

LEMMA TimeoutStep ==
    ASSUME Inv, NEW r \in DOMAIN run, Timeout(r)
    PROVE  Inv'
<1> DEFINE e == Row("unknown", Task(r).job)
<1>1. /\ worker[r].at = "polling" /\ worker[r].ord \in Ordinals
      /\ SaveRow(r, worker[r].ord, e) /\ Settled(r, e)
      /\ UNCHANGED <<run, lock, request, job, misread, restarts>>
  BY DEF Timeout, Facing
<1>2. Holding(r) /\ e \in Entries /\ SoundEntry(e) /\ e.job = Task(r).job
  BY <1>1, KnownId
<1> HIDE DEF e
<1>3. RowGoesOn(r, worker[r].ord, e)
  BY <1>1, <1>2, KnownIdGoesOn
<1> QED
  BY <1>1, <1>2, <1>3, SettleStep, MisreadSame, MisreadSame

\* What the provider answered reaches the row; a job that is not done is
\* polled again.
LEMMA SaveStep ==
    ASSUME Inv, NEW r \in DOMAIN run, Save(r)
    PROVE  Inv'
<1> DEFINE o == worker[r].ord
           e == Task(r)
<1>0. TypeOK /\ r \in RunIds /\ worker \in [RunIds -> Workers]
  BY Shape DEF Inv
<1>1. /\ worker[r].at = "saving" /\ o \in Ordinals /\ SaveRow(r, o, e)
      /\ UNCHANGED <<run, lock, request, job, misread, restarts>>
  BY DEF Save, Facing
<1>2. Holding(r) /\ e \in Entries /\ SoundEntry(e) /\ e.job # 0 /\ e = worker[r].seen[o]
  BY <1>1, KnownId DEF Task
<1>3. RowGoesOn(r, o, e)
  BY <1>1, <1>2, KnownIdGoesOn
<1>4. CASE Task(r).status \in TaskDone
  <2>1. Settled(r, e)
    BY <1>4 DEF Save
  <2> QED
    BY <1>1, <1>2, <1>3, <2>1, SettleStep, MisreadSame, MisreadSame
<1>5. CASE Task(r).status \notin TaskDone
  <2>1. worker' = [worker EXCEPT ![r].at = "polling"]
    BY <1>5 DEF Save, At
  <2> HIDE DEF e
  <2>2. /\ worker' \in [RunIds -> Workers] /\ \A q \in RunIds : q # r => worker'[q] = worker[q]
        /\ worker'[r].at = "polling" /\ worker'[r].ord = o /\ worker'[r].seen = worker[r].seen
        /\ Holding(r)'
    BY <1>0, <2>1 DEF Workers, Holding
  <2>3. \A q \in RunIds, p \in Ordinals : row'[q][p] = IF q = r /\ p = o THEN e ELSE row[q][p]
    BY <1>0, <1>1, <1>2, RowSaved
  <2>4. SeesRows(r)'
    <3>1. SeesRows(r)
      BY <1>0, <1>2 DEF Inv, WorkerSees
    <3> QED
      BY <1>0, <1>1, <1>2, <2>2, <2>3, <3>1 DEF SeesRows, Task
  <2>5. /\ \A p \in Ordinals : SoundEntry(worker'[r].seen[p])
        /\ \A q \in RunIds, p \in Ordinals : SoundEntry(row'[q][p])
    BY <1>0, <1>2, <2>2, <2>3 DEF Inv, SoundRows
  <2>6. RowsGoOn
    BY <1>1, <1>2, <1>3, OneRowGoesOn
  <2> QED
    BY <1>0, <1>1, <1>2, <2>2, <2>4, <2>5, <2>6, HoldingStep, MisreadSame, MisreadSame
<1> QED
  BY <1>4, <1>5
\* There are at most as many jobs as runs times ordinals.
LEMMA JobsBounded ==
    ASSUME NEW jobs \in Seq(JobRows),
           \A i, j \in DOMAIN jobs : jobs[i].run = jobs[j].run /\ jobs[i].ord = jobs[j].ord => i = j
    PROVE  Len(jobs) <= MaxRuns * N
<1> DEFINE D == 1..Len(jobs)
           place == [j \in D |-> <<jobs[j].run, jobs[j].ord>>]
<1>1. Len(jobs) \in Nat /\ DOMAIN jobs = D /\ \A j \in D : jobs[j] \in JobRows
  BY LenProperties, ElementOfSeq
<1>2. place \in [D -> RunIds \X Ordinals]
  BY <1>1 DEF JobRows
<1>3. \A i, j \in D : place[i] = place[j] => i = j
  BY <1>1
<1>4. place \in Injection(D, RunIds \X Ordinals)
  BY <1>2, <1>3 DEF Injection, IsInjective
<1>5. /\ IsFiniteSet(RunIds) /\ Cardinality(RunIds) = MaxRuns
      /\ IsFiniteSet(Ordinals) /\ Cardinality(Ordinals) = N
      /\ Cardinality(D) = Len(jobs)
  <2>1. \A n \in Nat : IsFiniteSet(1..n) /\ Cardinality(1..n) = n
    BY FS_Interval
  <2> QED
    BY <1>1, <2>1 DEF RunIds, Ordinals
<1>6. IsFiniteSet(RunIds \X Ordinals) /\ Cardinality(RunIds \X Ordinals) = MaxRuns * N
  BY <1>5, FS_Product
<1> HIDE DEF place, D
<1>7. Cardinality(D) <= Cardinality(RunIds \X Ordinals)
  BY <1>4, <1>6, FS_Injection
<1> QED
  BY <1>5, <1>6, <1>7

\* An ordinal without a row has not been submitted in any of the runs whose
\* jobs its run accounts for, and is submitted now.
LEMMA SubmitStep ==
    ASSUME Inv, NEW r \in DOMAIN run, Submit(r)
    PROVE  Inv'
<1>a. PICK o, new : o = worker[r].ord /\ new = Len(job) + 1
  OBVIOUS
<1> DEFINE e == Row("pending", 0)
           sent == [run |-> r, ord |-> o, state |-> "sent"]
<1>0. /\ TypeOK /\ r \in RunIds /\ DOMAIN run \subseteq RunIds /\ run \in Seq(RunRows)
      /\ job \in Seq(JobRows) /\ Len(job) \in Nat /\ DOMAIN job = 1..Len(job)
      /\ \A j \in DOMAIN job : job[j] \in JobRows
      /\ worker[r] \in Workers /\ Rows = [Ordinals -> Entries]
  BY Shape DEF Inv
<1>1. /\ worker[r].at = "next" /\ o \in Ordinals /\ Task(r).status = "none"
      /\ SaveRow(r, o, e) /\ job' = Append(job, sent) /\ worker' = Seeing(r, e, "submitting")
      /\ UNCHANGED <<run, lock, request, misread, restarts>>
  BY <1>a DEF Submit, Facing
<1>2. Holding(r)
  BY <1>1 DEF Holding
<1>3. /\ r = Len(run) /\ SeesRows(r) /\ lock = "run" /\ Busy(r) /\ run[r].status \in ACTIVE
      /\ \A q \in RunIds : Busy(q) \/ Holding(q) => q = r
      /\ \A u \in Users : ~Retrying(u)
  BY <1>0, <1>2, Alone
<1>4. row[r][o].status = "none" /\ row[r][o].job = 0
  <2>1. SoundEntry(row[r][o]) /\ row[r][o].status = "none"
    BY <1>a, <1>0, <1>1, <1>3 DEF Inv, SoundRows, SeesRows, Task
  <2> QED
    BY <2>1 DEF SoundEntry
<1>5. \A j \in DOMAIN job : ~(job[j].run = r /\ job[j].ord = o)
  BY <1>4 DEF Inv, JobsApart
<1>6. e \in Entries /\ e.status = "pending" /\ e.job = 0
  BY DEF Row, Entries, TaskStatus
<1>7. sent \in JobRows
  BY <1>0, <1>1 DEF JobRows, JobState
<1>8. /\ job' \in Seq(JobRows) /\ Len(job') = new /\ DOMAIN job' = 1..new
      /\ \A j \in DOMAIN job : job'[j] = job[j]
      /\ job'[new].run = r /\ job'[new].ord = o
  BY <1>a, <1>0, <1>1, <1>7, LenProperties, AppendProperties
<1>9. /\ row' \in [RunIds -> Rows]
      /\ \A q \in RunIds, p \in Ordinals : row'[q][p] = IF q = r /\ p = o THEN e ELSE row[q][p]
  BY <1>0, <1>1, <1>6, RowSaved
<1>10. /\ worker' \in [RunIds -> Workers] /\ \A q \in RunIds : q # r => worker'[q] = worker[q]
       /\ worker'[r].at = "submitting" /\ worker'[r].ord = o
       /\ \A p \in Ordinals : worker'[r].seen[p] = IF p = o THEN e ELSE worker[r].seen[p]
       /\ Holding(r)'
  BY <1>a, <1>0, <1>1, <1>6, TaskSaw
<1> HIDE DEF sent
<1>11. DOMAIN job' = DOMAIN job \cup {new} /\ new \notin DOMAIN job /\ new # 0
  BY <1>a, <1>0, <1>8
<1>12. JobsApart'
  <2>1. \A i, j \in DOMAIN job' : job'[i].run = job'[j].run /\ job'[i].ord = job'[j].ord => i = j
    BY <1>5, <1>8, <1>11 DEF Inv, JobsApart
  <2>2. \A j \in DOMAIN job' : job'[j].run \in DOMAIN run' /\ row'[job'[j].run][job'[j].ord].status # "none"
    <3>1. \A j \in DOMAIN job : job[j].ord \in Ordinals /\ job[j].run \in RunIds
      BY <1>0 DEF JobRows
    <3> QED
      BY <1>0, <1>1, <1>5, <1>6, <1>8, <1>9, <1>11, <3>1 DEF Inv, JobsApart
  <2> QED
    BY <2>1, <2>2 DEF JobsApart
<1>13. \A x : SoundEntry(x) => SoundEntry(x)'
  BY <1>1, <1>8, <1>11 DEF SoundEntry
<1>14. SoundRows'
  <2>1. SoundEntry(e)'
    BY <1>6 DEF SoundEntry
  <2>3. \A q \in RunIds, p \in Ordinals : SoundEntry(row'[q][p]) \/ row'[q][p] = e
    BY <1>9 DEF Inv, SoundRows
  <2>4. \A p \in Ordinals : SoundEntry(worker'[r].seen[p]) \/ worker'[r].seen[p] = e
    BY <1>0, <1>2, <1>10 DEF Inv, SoundRows
  <2>5. \A q \in RunIds : Holding(q)' => q = r
    BY <1>3, <1>10 DEF Holding
  <2>6. \A u \in Users : request[u].op \in {"tasks", "retry"}
                          => \A p \in Ordinals : SoundEntry(request[u].seen[p])
    BY DEF Inv, SoundRows
  <2> QED
    BY <1>1, <1>13, <2>1, <2>3, <2>4, <2>5, <2>6 DEF SoundRows
<1>15. TypeOK'
  <2>1. Len(job') <= MaxRuns * N
    BY <1>8, <1>12, JobsBounded DEF JobsApart
  <2>2. \A q \in RunIds, p \in Ordinals : row'[q][p].job \in {0} \cup DOMAIN job'
    BY <1>14 DEF SoundRows, SoundEntry
  <2> QED
    BY <1>0, <1>1, <1>8, <1>9, <1>10, <2>1, <2>2 DEF TypeOK, Workers, JobRows
<1>16. RunsInOrder'
  <2>1. \A q \in RunIds : q # r => row'[q] = row[q]
    BY <1>0, <1>1 DEF TypeOK, SaveRow
  <2>2. UNCHANGED <<run, request>> /\ DOMAIN run \subseteq RunIds
    BY <1>0, <1>1
  <2>3. \A q \in DOMAIN run : Busy(q)' => Busy(q)
    BY <1>3, <1>10, <2>2 DEF Busy
  <2>4. \A q \in RunIds \ DOMAIN run : worker'[q] = worker[q] /\ row'[q] = row[q]
    BY <1>10, <2>1
  <2> QED
    BY <2>2, <2>3, <2>4 DEF Inv, RunsInOrder
<1>17. OverIsOver'
  BY <1>0, <1>1, <1>3, <1>10 DEF Inv, OverIsOver, Busy
<1>18. LockKept' /\ CopyWaits'
  BY <1>0, <1>1, <1>3, <1>10 DEF Inv, LockKept, CopyWaits, Retrying, Holding
<1>19. WorkerSees'
  <2>1. /\ o >= 1 /\ worker'[r].seen[o] = e /\ row'[r][o] = e
        /\ \A p \in Ordinals : p # o => worker'[r].seen[p] = worker[r].seen[p] /\ row'[r][p] = row[r][p]
    BY <1>0, <1>1, <1>9, <1>10 DEF Ordinals
  <2>2. \A p \in Ordinals :
          /\ worker[r].seen[p].status = "none" <=> row[r][p].status = "none"
          /\ row[r][p].job # 0 => worker[r].seen[p].job = row[r][p].job
          /\ ~(worker[r].seen[p].job # 0 /\ row[r][p].job = 0)
    BY <1>1, <1>3 DEF SeesRows
  <2>3. \A p \in Ordinals :
          /\ worker'[r].seen[p].status = "none" <=> row'[r][p].status = "none"
          /\ row'[r][p].job # 0 => worker'[r].seen[p].job = row'[r][p].job
          /\ ~(worker'[r].seen[p].job # 0 /\ row'[r][p].job = 0)
    BY <1>6, <2>1, <2>2
  <2>4. \E j \in DOMAIN job' : job'[j].run = r /\ job'[j].ord = o
    BY <1>8, <1>11
  <2>5. SeesRows(r)'
    BY <1>1, <1>10, <2>1, <2>3, <2>4 DEF SeesRows, Task
  <2> QED
    BY <1>3, <1>10, <2>5 DEF WorkerSees, Holding
<1>20. CancelSees'
  <2>1. \A q \in RunIds, p \in Ordinals : row[q][p].job # 0 => row'[q][p] = row[q][p]
    BY <1>4, <1>9
  <2>2. UNCHANGED request /\ \A u \in Users : request[u].op = "tasks" => request[u].run \in RunIds
    BY <1>0, <1>1 DEF Inv, RunsInOrder
  <2> QED
    BY <2>1, <2>2 DEF Inv, CancelSees
<1>21. Kept'
  <2>1. ASSUME NEW q \in DOMAIN run, r \in Kin(q)
        PROVE  q = r
    <3>1. r <= q
      BY <1>0, <2>1, LineageIsOlder DEF Inv, Kin
    <3> QED
      BY <1>0, <1>3, <3>1, Shape DEF Inv
  <2>2. \A q \in DOMAIN run : Kin(q)' \subseteq Kin(q)
    BY <1>0, <1>1, KinKept DEF Inv
  <2>3. job'[new].ord \in Ordinals /\ Names(row[r][job[new].ord], r, new)'
    BY <1>0, <1>1, <1>6, <1>8, <1>9 DEF Names
  <2>4. ASSUME NEW q \in DOMAIN run, NEW j \in DOMAIN job,
               job[j].run \in Kin(q), job[j].state \in MayBePaid, j \notin misread'
        PROVE  Names(row[q][job[j].ord], q, j)'
    <3>1. job[j].ord \in Ordinals /\ job[j].run \in RunIds /\ q \in RunIds /\ j # 0
      BY <1>0 DEF JobRows
    <3>2. j \notin misread
      BY <1>1, <2>4
    <3>3. Names(row[q][job[j].ord], q, j)
      BY <1>3, <2>4, <3>2 DEF Inv, Kept, Copied
    <3>4. ~(q = r /\ job[j].ord = o)
      BY <1>4, <3>1, <3>3 DEF Names
    <3> QED
      BY <1>8, <1>9, <3>1, <3>3, <3>4 DEF Names
  <2> QED
    BY <1>1, <1>8, <1>11, <2>1, <2>2, <2>3, <2>4 DEF Kept
<1> QED
  BY <1>12, <1>14, <1>15, <1>16, <1>17, <1>18, <1>19, <1>20, <1>21 DEF Inv-------------------------------------------------------------------------------
(* Steps that change the status of a run *)

\* A status changes and at most one worker; rows, jobs and requests stay.
LEMMA StatusFrame ==
    ASSUME Inv, RunsGoOn, NEW r \in RunIds,
           worker' \in [RunIds -> Workers], \A q \in RunIds : q # r => worker'[q] = worker[q],
           UNCHANGED <<row, job, request, misread, restarts>>
    PROVE  /\ JobsApart' /\ Kept' /\ CancelSees'
           /\ \A e : SoundEntry(e) <=> SoundEntry(e)'
           /\ lock' \in {"free", "run", "request"} => TypeOK'
<1>0. /\ TypeOK /\ Rows = [Ordinals -> Entries] /\ job \in Seq(JobRows)
      /\ Len(run) <= MaxRuns
  BY Shape DEF Inv
<1>1. JobsGoOn /\ RowsGoOn /\ RetriesGoOn
  BY <1>0 DEF JobsGoOn, RowsGoOn, RetriesGoOn, TypeOK
<1>2. JobsApart' /\ Kept'
  BY <1>1, RowsFrame
<1>3. CancelSees'
  BY DEF Inv, CancelSees
<1>4. TypeOK' \/ lock' \notin {"free", "run", "request"}
  BY <1>0 DEF TypeOK, RunsGoOn, Workers, RunRows
<1>5. \A e : SoundEntry(e) <=> SoundEntry(e)'
  BY DEF SoundEntry
<1> QED
  BY <1>2, <1>3, <1>4, <1>5

\* The claim of a scheduled run.
LEMMA ClaimStep ==
    ASSUME Inv, NEW r \in DOMAIN run, Claim(r)
    PROVE  Inv'
<1>0. TypeOK /\ r \in RunIds /\ DOMAIN run \subseteq RunIds /\ worker \in [RunIds -> Workers] /\ run \in Seq(RunRows)
  BY Shape DEF Inv
<1>1. PICK s \in ACTIVE \cup Terminal, place \in {"claimed", "none"} :
        /\ worker[r].at = "scheduled"
        /\ worker' = [worker EXCEPT ![r].at = place]
        /\ run' \in Seq(RunRows) /\ Len(run') = Len(run) /\ DOMAIN run' = DOMAIN run
        /\ \A q \in DOMAIN run : /\ run'[q].of = run[q].of
                                 /\ run'[q].status = IF q = r THEN s ELSE run[q].status
        /\ IF run[r].status = "queued" THEN s = "running" ELSE s = run[r].status /\ place = "none"
        /\ UNCHANGED <<row, lock, request, job, misread, restarts>>
  <2>1. CASE run[r].status = "queued"
    <3>1. run' = WithStatus(r, "running") /\ worker' = [worker EXCEPT ![r].at = "claimed"]
      BY <2>1 DEF Claim, At
    <3>2. "running" \in ACTIVE \cup Terminal
      BY DEF ACTIVE
    <3> QED
      BY <1>0, <2>1, <3>1, <3>2, StatusSet DEF Claim
  <2>2. CASE run[r].status # "queued"
    <3>1. run' = run /\ worker' = [worker EXCEPT ![r].at = "none"]
      BY <2>2 DEF Claim, At
    <3>2. run[r].status \in ACTIVE \cup Terminal
      BY <1>0, Shape DEF RunRows
    <3> QED
      BY <1>0, <2>2, <3>1, <3>2 DEF Claim
  <2> QED
    BY <2>1, <2>2
<1>2. /\ worker' \in [RunIds -> Workers] /\ \A q \in RunIds : q # r => worker'[q] = worker[q]
      /\ worker'[r].at = place
  BY <1>0, <1>1 DEF Workers
<1>3. RunsGoOn
  BY <1>1 DEF RunsGoOn
<1>4. /\ JobsApart' /\ Kept' /\ CancelSees' /\ TypeOK'
      /\ \A e : SoundEntry(e) <=> SoundEntry(e)'
  BY <1>0, <1>1, <1>2, <1>3, StatusFrame DEF TypeOK
<1>5. \A q \in RunIds : Holding(q)' => Holding(q) /\ q # r
  BY <1>1, <1>2 DEF Holding
<1>6. SoundRows'
  BY <1>1, <1>2, <1>4, <1>5 DEF Inv, SoundRows
<1>7. RunsInOrder'
  <2>1. \A q \in DOMAIN run : run'[q].status \in {"queued", "running"} \/ Busy(q)' => q = Len(run)
    BY <1>0, <1>1, <1>2 DEF Inv, RunsInOrder, Busy
  <2>2. \A q \in RunIds \ DOMAIN run : worker'[q] = worker[q]
    BY <1>2
  <2> QED
    BY <1>1, <2>1, <2>2 DEF Inv, RunsInOrder
<1>8. OverIsOver'
  BY <1>0, <1>1, <1>2 DEF Inv, OverIsOver, ACTIVE
<1>9. LockKept' /\ CopyWaits'
  <2>1. \A u \in Users : Retrying(u) => request[u].run # r /\ request[u].run \in RunIds
    BY <1>0, <1>1 DEF Inv, CopyWaits, RunsInOrder, Retrying
  <2> QED
    BY <1>1, <1>2, <1>5, <2>1 DEF Inv, LockKept, CopyWaits, Retrying
<1>10. WorkerSees'
  <2>1. \A q \in RunIds : q # r /\ SeesRows(q) => SeesRows(q)'
    BY <1>1, <1>2 DEF SeesRows, Task
  <2> QED
    BY <1>5, <2>1 DEF Inv, WorkerSees
<1> QED
  BY <1>4, <1>6, <1>7, <1>8, <1>9, <1>10 DEF Inv

\* The task takes the project lock and reads the rows there are.
LEMMA BeginStep ==
    ASSUME Inv, NEW r \in DOMAIN run, Begin(r)
    PROVE  Inv'
<1>0. /\ TypeOK /\ r \in RunIds /\ DOMAIN run \subseteq RunIds /\ worker \in [RunIds -> Workers]
      /\ run \in Seq(RunRows) /\ Rows = [Ordinals -> Entries] /\ row[r] \in Rows
  BY Shape DEF Inv
<1>1. /\ worker[r].at = "claimed" /\ lock = "free" /\ lock' = "run"
      /\ worker' = [worker EXCEPT ![r] = [at |-> "next", ord |-> 1, seen |-> row[r]]]
      /\ UNCHANGED <<run, row, request, job, misread, restarts>>
  BY DEF Begin
<1>2. /\ worker' \in [RunIds -> Workers] /\ \A q \in RunIds : q # r => worker'[q] = worker[q]
      /\ worker'[r].at = "next" /\ worker'[r].ord = 1 /\ worker'[r].seen = row[r]
  BY <1>0, <1>1 DEF Workers
<1>3. RunsGoOn
  BY <1>0, <1>1 DEF RunsGoOn
<1>4. /\ JobsApart' /\ Kept' /\ CancelSees' /\ TypeOK'
      /\ \A e : SoundEntry(e) <=> SoundEntry(e)'
  BY <1>0, <1>1, <1>2, <1>3, StatusFrame
<1>5. \A q \in RunIds : Holding(q)' => q = r
  BY <1>1, <1>2 DEF Inv, LockKept, Holding
<1>6. SoundRows'
  BY <1>0, <1>1, <1>2, <1>4, <1>5 DEF Inv, SoundRows
<1>7. RunsInOrder'
  <2>1. \A q \in DOMAIN run : Busy(q)' => Busy(q)
    BY <1>0, <1>1, <1>2 DEF Busy
  <2>2. \A q \in RunIds \ DOMAIN run : worker'[q] = worker[q]
    BY <1>2
  <2> QED
    BY <1>1, <2>1, <2>2 DEF Inv, RunsInOrder
<1>8. OverIsOver'
  BY <1>0, <1>1, <1>2 DEF Inv, OverIsOver
<1>9. LockKept' /\ CopyWaits'
  <2>1. \A u \in Users : ~Retrying(u)
    BY <1>1 DEF Inv, LockKept
  <2> QED
    BY <1>1, <1>5, <2>1 DEF LockKept, CopyWaits, Retrying
<1>10. WorkerSees'
  <2>1. SeesRows(r)'
    BY <1>1, <1>2 DEF SeesRows
  <2> QED
    BY <1>5, <2>1 DEF WorkerSees
<1> QED
  BY <1>4, <1>6, <1>7, <1>8, <1>9, <1>10 DEF Inv
\* A run ends with its task: the task is gone, the lock it held is free, what
\* it was saving may still be saved.
LEMMA EndStep ==
    ASSUME Inv, NEW r \in DOMAIN run, RunsGoOn,
           \A q \in DOMAIN run : q # r => run'[q].status = run[q].status,
           run'[r].status \notin {"queued", "running"},
           worker' = [worker EXCEPT ![r] = NoWorker], lock' = IF Holding(r) THEN "free" ELSE lock,
           RowsGoOn, \A q \in RunIds, o \in Ordinals : SoundEntry(row'[q][o]),
           \A q \in RunIds, o \in Ordinals : q # r => row'[q][o] = row[q][o],
           ~Holding(r) => row' = row,
           request' \in [Users -> Requests],
           \A u \in Users : request'[u] = request[u] \/ (request'[u] = Idle /\ ~Retrying(u)),
           UNCHANGED <<job, misread, restarts>>
    PROVE  Inv'
<1>0. /\ TypeOK /\ r \in RunIds /\ DOMAIN run \subseteq RunIds /\ worker \in [RunIds -> Workers]
      /\ run \in Seq(RunRows) /\ job \in Seq(JobRows) /\ Rows = [Ordinals -> Entries]
  BY Shape DEF Inv
<1>1. /\ worker' \in [RunIds -> Workers] /\ \A q \in RunIds : q # r => worker'[q] = worker[q]
      /\ worker'[r].at = "none"
  <2>1. NoWorker \in Workers
    <3>1. NoRows \in Rows
      BY <1>0 DEF NoRows, Row, Entries, TaskStatus
    <3> QED
      BY <3>1 DEF NoWorker, Workers
  <2> QED
    BY <1>0, <2>1 DEF NoWorker
<1>2. /\ JobsGoOn /\ RetriesGoOn
      /\ \A e : SoundEntry(e) <=> SoundEntry(e)'
  BY <1>0, MisreadSame DEF JobsGoOn, RetriesGoOn, SoundEntry
<1>3. JobsApart' /\ Kept'
  BY <1>2, RowsFrame
<1>4. \A q \in RunIds : Holding(q)' => Holding(q) /\ q # r
  BY <1>1 DEF Holding
<1>5. Holding(r) => \A q \in RunIds : ~Holding(q)'
  BY <1>0, <1>4, Alone
<1>6. \A u \in Users : request'[u].op # "idle" => request'[u] = request[u]
  BY DEF Idle
<1>7. TypeOK'
  <2>1. \A q \in RunIds, o \in Ordinals : row'[q][o].job \in {0} \cup DOMAIN job
    BY DEF SoundEntry
  <2>2. lock' \in {"free", "run", "request"}
    BY <1>0 DEF TypeOK
  <2> QED
    BY <1>0, <1>1, <2>1, <2>2 DEF TypeOK, Workers, Requests, RunRows, RunsGoOn, RowsGoOn
<1>8. SoundRows'
  BY <1>1, <1>2, <1>4, <1>6 DEF Inv, SoundRows
<1>9. RunsInOrder'
  <2>1. \A q \in DOMAIN run : run'[q].status \in {"queued", "running"} \/ Busy(q)' => q = Len(run)
    BY <1>0, <1>1 DEF Inv, RunsInOrder, Busy
  <2>2. \A q \in RunIds \ DOMAIN run : worker'[q] = worker[q] /\ row'[q] = row[q]
    <3>1. ASSUME NEW q \in RunIds \ DOMAIN run
          PROVE  row'[q] = row[q]
      <4>1. row[q] \in [Ordinals -> Entries] /\ row'[q] \in [Ordinals -> Entries]
        BY <1>0, Shape DEF RowsGoOn
      <4>2. \A o \in Ordinals : row'[q][o] = row[q][o]
        BY <3>1
      <4> QED
        BY <4>1, <4>2
    <3> QED
      BY <1>1, <3>1
  <2> QED
    BY <1>6, <2>1, <2>2 DEF Inv, RunsInOrder, RunsGoOn
<1>10. OverIsOver'
  BY <1>0, <1>1 DEF Inv, OverIsOver, RunsGoOn
<1>11. LockKept'
  <2>1. \A u \in Users : Retrying(u)' => Retrying(u)
    BY DEF Retrying, Idle
  <2>2. \A u \in Users : Retrying(u) => ~Holding(r)
    BY <1>0, Alone
  <2> QED
    BY <1>4, <1>5, <2>1, <2>2 DEF Inv, LockKept
<1>12. CopyWaits'
  <2>1. ASSUME NEW u \in Users, Retrying(u)'
        PROVE  /\ Retrying(u) /\ request'[u] = request[u] /\ request[u].run \in RunIds
               /\ row' = row
    <3>1. Retrying(u) /\ request'[u] = request[u]
      BY <2>1 DEF Retrying, Idle
    <3>2. row' = row
      BY <1>0, <3>1, Alone
    <3> QED
      BY <1>0, <3>1, <3>2 DEF Inv, RunsInOrder, Retrying
  <2> QED
    BY <1>1, <2>1 DEF Inv, CopyWaits
<1>13. WorkerSees'
  <2>1. ASSUME NEW q \in RunIds, Holding(q)'
        PROVE  worker'[q] = worker[q] /\ row' = row /\ SeesRows(q)
    BY <1>1, <1>4, <1>5, <2>1 DEF Inv, WorkerSees
  <2>2. ASSUME NEW q \in RunIds, Holding(q)'
        PROVE  SeesRows(q)'
    BY <2>1, <2>2 DEF SeesRows, Task
  <2> QED
    BY <2>2 DEF WorkerSees
<1>14. CancelSees'
  <2>1. \A q \in RunIds, o \in Ordinals : row[q][o].job # 0 => row'[q][o].job = row[q][o].job
    BY DEF RowsGoOn, RowGoesOn
  <2> QED
    BY <1>0, <1>6, <2>1 DEF Inv, CancelSees, RunsInOrder
<1> QED
  BY <1>3, <1>7, <1>8, <1>9, <1>10, <1>11, <1>12, <1>13, <1>14 DEF Inv

\* A run that is over keeps its status, any other gets the given one.
LEMMA MarkedTerminal ==
    ASSUME TypeOK, NEW r \in DOMAIN run, NEW s \in Terminal, run' = MarkTerminal(r, s) \/ run' = WithStatus(r, s)
    PROVE  /\ RunsGoOn
           /\ \A q \in DOMAIN run : q # r => run'[q].status = run[q].status
           /\ run'[r].status \in Terminal
<1>1. CASE run' = run /\ run[r].status \in Terminal
  BY <1>1, Shape DEF RunsGoOn
<1>2. CASE run' = WithStatus(r, s)
  <2>1. s \in ACTIVE \cup Terminal
    OBVIOUS
  <2> QED
    BY <1>2, <2>1, StatusSet DEF RunsGoOn
<1> QED
  BY <1>1, <1>2 DEF MarkTerminal

LEMMA FinishStep ==
    ASSUME Inv, NEW r \in DOMAIN run, Fails(r) \/ Finish(r)
    PROVE  Inv'
<1>0. TypeOK /\ r \in RunIds /\ request \in [Users -> Requests]
  BY Shape DEF Inv
<1>1. PICK s \in Terminal : run' = MarkTerminal(r, s) \/ run' = WithStatus(r, s)
  BY DEF Fails, Finish, Terminal
<1>2. /\ worker[r].at \in {"next", "polling"} /\ worker' = [worker EXCEPT ![r] = NoWorker] /\ lock' = "free"
      /\ UNCHANGED <<row, request, job, misread, restarts>>
  BY DEF Fails, Finish, EndWork
<1>3. Holding(r) /\ run'[r].status \notin {"queued", "running"}
      /\ RunsGoOn /\ \A q \in DOMAIN run : q # r => run'[q].status = run[q].status
  BY <1>0, <1>1, <1>2, MarkedTerminal DEF Holding, Terminal
<1>4. RowsGoOn /\ \A q \in RunIds, o \in Ordinals : SoundEntry(row'[q][o])
  BY <1>0, <1>2 DEF Inv, SoundRows, RowsGoOn, TypeOK
<1> QED
  BY <1>0, <1>2, <1>3, <1>4, EndStep

\* The end of a cancellation: the run is over and its task stopped, with or
\* without the save it was waiting for.
LEMMA CancelFinishStep ==
    ASSUME Inv, NEW u \in Users, CancelFinish(u)
    PROVE  Inv'
<1> DEFINE r == request[u].run
<1>0. TypeOK /\ DOMAIN run \subseteq RunIds /\ request \in [Users -> Requests] /\ worker \in [RunIds -> Workers] /\ Rows = [Ordinals -> Entries]
  BY Shape DEF Inv
<1>1. /\ request[u].op = "tasks" /\ Killed(r) /\ run' = MarkTerminal(r, "cancelled")
      /\ request' = [request EXCEPT ![u] = Idle] /\ UNCHANGED <<job, misread, restarts>>
  BY DEF CancelFinish
<1>2. r \in DOMAIN run /\ r \in RunIds
  BY <1>0, <1>1 DEF Inv, RunsInOrder
<1> HIDE DEF r
<1>3. run'[r].status \notin {"queued", "running"}
      /\ RunsGoOn /\ \A q \in DOMAIN run : q # r => run'[q].status = run[q].status
  <2>1. "cancelled" \in Terminal
    BY DEF Terminal
  <2> QED
    BY <1>0, <1>1, <1>2, <2>1, MarkedTerminal DEF Terminal
<1>4. worker' = [worker EXCEPT ![r] = NoWorker] /\ lock' = IF Holding(r) THEN "free" ELSE lock
  BY <1>0, <1>1, <1>2 DEF Killed, Holding, Workers
<1>5. /\ request' \in [Users -> Requests]
      /\ \A v \in Users : request'[v] = request[v] \/ (request'[v] = Idle /\ ~Retrying(v))
  <2>1. Idle \in Requests
    <3>1. NoRows \in Rows
      BY <1>0 DEF NoRows, Row, Entries, TaskStatus
    <3> QED
      BY <3>1 DEF Idle, Requests
  <2> QED
    BY <1>0, <1>1, <2>1 DEF Retrying
<1>6. CASE row' = row
  <2>1. RowsGoOn /\ \A q \in RunIds, o \in Ordinals : SoundEntry(row'[q][o])
    BY <1>0, <1>6 DEF Inv, SoundRows, RowsGoOn, TypeOK
  <2> QED
    BY <1>1, <1>2, <1>3, <1>4, <1>5, <1>6, <2>1, EndStep
<1>7. CASE Facing(r, "saving") /\ SaveRow(r, worker[r].ord, Task(r))
  <2>1. worker[r].at = "saving" /\ worker[r].ord \in Ordinals
    BY <1>7 DEF Facing
  <2>2. Task(r) \in Entries /\ SoundEntry(Task(r)) /\ Holding(r)
    BY <1>2, <2>1, KnownId
  <2>3. RowGoesOn(r, worker[r].ord, Task(r))
    BY <1>1, <1>2, <2>1, <2>2, KnownIdGoesOn
  <2>4. RowsGoOn
    BY <1>2, <1>7, <2>1, <2>2, <2>3, OneRowGoesOn
  <2>5. \A q \in RunIds, o \in Ordinals : row'[q][o] = IF q = r /\ o = worker[r].ord THEN Task(r) ELSE row[q][o]
    BY <1>0, <1>2, <1>7, <2>1, <2>2, RowSaved
  <2>6. /\ \A q \in RunIds, o \in Ordinals : SoundEntry(row'[q][o])
        /\ \A q \in RunIds, o \in Ordinals : q # r => row'[q][o] = row[q][o]
    BY <2>2, <2>5 DEF Inv, SoundRows
  <2> QED
    BY <1>1, <1>2, <1>3, <1>4, <1>5, <2>2, <2>4, <2>6, EndStep
<1> QED
  BY <1>1, <1>6, <1>7 DEF Killed-------------------------------------------------------------------------------
(* Requests and the provider *)

\* Runs, rows and jobs go on while tasks and retries stay as they are; the
\* rows that change have an id.
LEMMA RequestFrame ==
    ASSUME Inv, RunsGoOn, JobsGoOn, RowsGoOn, UNCHANGED <<worker, lock, restarts>>,
           \A r \in DOMAIN run : /\ run'[r].status \in {"queued", "running"} => run[r].status \in {"queued", "running"}
                                 /\ run[r].status \in ACTIVE => run'[r].status \in ACTIVE,
           \A r \in RunIds, o \in Ordinals : /\ SoundEntry(row[r][o])'
                                             /\ row'[r][o] = row[r][o] \/ row[r][o].job # 0,
           request' \in [Users -> Requests],
           \A u \in Users : \/ request'[u] = request[u]
                            \/ ~Retrying(u) /\ ~Retrying(u)' /\ request'[u].run \in DOMAIN run,
           \A u \in Users : request'[u].op \in {"tasks", "retry"}
                              => \A o \in Ordinals : SoundEntry(request'[u].seen[o]),
           CancelSees'
    PROVE  Inv'
<1>0. /\ TypeOK /\ DOMAIN run \subseteq RunIds /\ worker \in [RunIds -> Workers]
      /\ run \in Seq(RunRows) /\ Rows = [Ordinals -> Entries]
  BY Shape DEF Inv
<1>1. RetriesGoOn
  BY DEF RetriesGoOn
<1>2. JobsApart' /\ Kept'
  BY <1>1, RowsFrame
<1>3. \A e : SoundEntry(e) => SoundEntry(e)'
  BY SoundKept
<1>4. TypeOK'
  <2>1. \A r \in RunIds, o \in Ordinals : row'[r][o].job \in {0} \cup DOMAIN job'
    BY DEF SoundEntry
  <2> QED
    BY <1>0, <2>1 DEF TypeOK, Requests, RunRows, JobRows, RunsGoOn, JobsGoOn, RowsGoOn
<1>5. SoundRows'
  BY <1>3 DEF Inv, SoundRows, Holding
<1>6. \A r \in RunIds \ DOMAIN run : row'[r] = row[r]
  <2>1. ASSUME NEW r \in RunIds \ DOMAIN run
        PROVE  row'[r] = row[r]
    <3>1. row[r] \in [Ordinals -> Entries] /\ row'[r] \in [Ordinals -> Entries]
      BY <1>0, Shape DEF RowsGoOn
    <3>2. \A o \in Ordinals : row'[r][o] = row[r][o]
      BY <2>1 DEF RowsGoOn
    <3> QED
      BY <3>1, <3>2
  <2> QED
    BY <2>1
<1>7. RunsInOrder'
  <2>1. \A u \in Users : request'[u].op # "idle" => request'[u].run \in DOMAIN run
    BY DEF Inv, RunsInOrder
  <2> QED
    BY <1>6, <2>1 DEF Inv, RunsInOrder, RunsGoOn, Busy
<1>8. OverIsOver'
  BY DEF Inv, OverIsOver, RunsGoOn
<1>9. \A u \in Users : Retrying(u)' => Retrying(u) /\ request'[u] = request[u]
  BY DEF Retrying
<1>10. LockKept'
  BY <1>9 DEF Inv, LockKept, Holding
<1>11. CopyWaits'
  <2>1. \A r \in RunIds, o \in Ordinals : row[r][o] = Row("none", 0) => row'[r][o] = row[r][o]
    BY DEF Row
  <2>2. \A u \in Users : Retrying(u) => request[u].run \in RunIds
    BY <1>0 DEF Inv, RunsInOrder, Retrying
  <2> QED
    BY <1>9, <2>1, <2>2 DEF Inv, CopyWaits, JobsGoOn
<1>12. WorkerSees'
  <2>1. ASSUME NEW r \in RunIds, Holding(r)
        PROVE  SeesRows(r)'
    <3>1. SeesRows(r) /\ worker' = worker
      BY <2>1 DEF Inv, WorkerSees
    <3>2. \A o \in Ordinals :
            /\ row[r][o].status = "none" <=> row'[r][o].status = "none"
            /\ row'[r][o].job = row[r][o].job
            /\ row[r][o].job = 0 => row'[r][o] = row[r][o]
      <4>1. \A o \in Ordinals : SoundEntry(row[r][o])
        BY DEF Inv, SoundRows
      <4> QED
        BY <4>1 DEF RowsGoOn, RowGoesOn, SoundEntry
    <3>3. \A o \in Ordinals : worker[r].seen[o].job # 0 => worker[r].seen[o].job \in DOMAIN job
      BY <2>1 DEF Inv, SoundRows, SoundEntry
    <3>4. Row("pending", 0).job = 0
      BY DEF Row
    <3> QED
      BY <3>1, <3>2, <3>3, <3>4 DEF SeesRows, Task, JobsGoOn
  <2> QED
    BY <2>1 DEF WorkerSees, Holding
<1> QED
  BY <1>2, <1>4, <1>5, <1>7, <1>8, <1>10, <1>11, <1>12 DEF Inv

LEMMA ProvideStep ==
    ASSUME Inv, NEW j \in DOMAIN job, Provide(j)
    PROVE  Inv'
<1>0. TypeOK /\ run \in Seq(RunRows) /\ job[j] \in JobRows /\ request \in [Users -> Requests]
  BY Shape DEF Inv
<1>1. PICK s \in JobState :
        /\ Becomes(j, s)
        /\ \/ job[j].state = "sent" /\ s \in {"refused", "working"}
           \/ job[j].state = "working" /\ s \in {"won", "lost"}
        /\ UNCHANGED <<run, row, worker, lock, request, misread, restarts>>
  BY DEF Provide, JobState
<1>2. JobsGoOn
  <2>1. misread \subseteq misread' /\ misread' \in SUBSET DOMAIN job
    BY <1>1, MisreadSame
  <2> QED
    BY <1>0, <1>1, <2>1, JobSet DEF JobsGoOn, MayBePaid
<1>3. RunsGoOn /\ RowsGoOn
  BY <1>0, <1>1 DEF RunsGoOn, RowsGoOn, TypeOK
<1>4. \A r \in RunIds, o \in Ordinals : SoundEntry(row[r][o])'
  <2>1. \A e : SoundEntry(e) => SoundEntry(e)'
    BY <1>2, SoundKept
  <2> QED
    BY <1>1, <2>1 DEF Inv, SoundRows
<1>5. CancelSees'
  BY <1>1 DEF Inv, CancelSees
<1>6. \A u \in Users : request'[u].op \in {"tasks", "retry"}
                         => \A o \in Ordinals : SoundEntry(request'[u].seen[o])
  BY <1>1 DEF Inv, SoundRows
<1> QED
  BY <1>0, <1>1, <1>2, <1>3, <1>4, <1>5, <1>6, RequestFrame
LEMMA CancelReadStep ==
    ASSUME Inv, NEW u \in Users, NEW r \in DOMAIN run, CancelRead(u, r)
    PROVE  Inv'
<1>0. /\ TypeOK /\ r \in RunIds /\ run \in Seq(RunRows) /\ job \in Seq(JobRows)
      /\ request \in [Users -> Requests] /\ Rows = [Ordinals -> Entries]
  BY Shape DEF Inv
<1>1. /\ request[u] = Idle
      /\ request' = [request EXCEPT ![u] = [Idle EXCEPT !.op = "cancel", !.run = r]]
      /\ UNCHANGED <<run, row, worker, lock, job, misread, restarts>>
  BY DEF CancelRead
<1>2. /\ request' \in [Users -> Requests] /\ \A v \in Users : v # u => request'[v] = request[v]
      /\ request'[u].op = "cancel" /\ request'[u].run = r
  <2>1. Idle \in Requests
    BY <1>0, <1>1
  <2> DEFINE new == [Idle EXCEPT !.op = "cancel", !.run = r]
  <2>2. new \in Requests /\ new.op = "cancel" /\ new.run = r
    BY <1>0, <2>1 DEF Requests
  <2> HIDE DEF new
  <2>3. request' = [request EXCEPT ![u] = new]
    BY <1>1 DEF new
  <2> QED
    BY <1>0, <2>2, <2>3
<1>3. RunsGoOn /\ JobsGoOn /\ RowsGoOn
  BY <1>0, <1>1 DEF RunsGoOn, JobsGoOn, RowsGoOn, TypeOK
<1>4. \A q \in RunIds, o \in Ordinals : SoundEntry(row[q][o])'
  BY <1>1 DEF Inv, SoundRows, SoundEntry
<1>5. CancelSees'
  BY <1>1, <1>2 DEF Inv, CancelSees
<1>6. \A v \in Users : request'[v].op \in {"tasks", "retry"}
                         => \A o \in Ordinals : SoundEntry(request'[v].seen[o])
  BY <1>2 DEF Inv, SoundRows
<1>7. \A v \in Users : \/ request'[v] = request[v]
                       \/ ~Retrying(v) /\ ~Retrying(v)' /\ request'[v].run \in DOMAIN run
  BY <1>1, <1>2 DEF Retrying, Idle
<1> QED
  BY <1>1, <1>2, <1>3, <1>4, <1>5, <1>6, <1>7, RequestFrame

\* The rows are listed when the request is saved.
LEMMA CancelSaveStep ==
    ASSUME Inv, NEW u \in Users, CancelSave(u)
    PROVE  Inv'
<1>a. PICK r : r = request[u].run
  OBVIOUS
<1>0. /\ TypeOK /\ DOMAIN run \subseteq RunIds /\ job \in Seq(JobRows)
      /\ request \in [Users -> Requests] /\ row \in [RunIds -> Rows]
  BY Shape DEF Inv
<1>1. /\ request[u].op = "cancel" /\ run' = WithStatus(r, "cancellation_requested")
      /\ request' = [request EXCEPT ![u] = [op |-> "tasks", run |-> r, ord |-> 1, seen |-> row[r]]]
      /\ UNCHANGED <<row, worker, lock, job, misread, restarts>>
  BY <1>a DEF CancelSave
<1>2. r \in DOMAIN run /\ r \in RunIds
  BY <1>a, <1>0, <1>1 DEF Inv, RunsInOrder
<1>3. /\ request' \in [Users -> Requests] /\ \A v \in Users : v # u => request'[v] = request[v]
      /\ request'[u].op = "tasks" /\ request'[u].run = r /\ request'[u].seen = row[r]
  BY <1>0, <1>1, <1>2 DEF Requests
<1>4. /\ RunsGoOn
      /\ \A q \in DOMAIN run : /\ run'[q].status \in {"queued", "running"} => run[q].status \in {"queued", "running"}
                               /\ run[q].status \in ACTIVE => run'[q].status \in ACTIVE
  <2>1. "cancellation_requested" \in ACTIVE /\ "cancellation_requested" \in ACTIVE \cup Terminal
    BY DEF ACTIVE
  <2> QED
    BY <1>0, <1>1, <1>2, <2>1, StatusSet DEF RunsGoOn
<1>5. JobsGoOn /\ RowsGoOn
  BY <1>0, <1>1, MisreadSame DEF JobsGoOn, RowsGoOn
<1>6. \A q \in RunIds, o \in Ordinals : SoundEntry(row[q][o])'
  BY <1>1 DEF Inv, SoundRows, SoundEntry
<1>7. CancelSees'
  BY <1>1, <1>3 DEF Inv, CancelSees
<1>8. \A v \in Users : request'[v].op \in {"tasks", "retry"}
                         => \A o \in Ordinals : SoundEntry(request'[v].seen[o])
  BY <1>2, <1>3 DEF Inv, SoundRows
<1>9. \A v \in Users : \/ request'[v] = request[v]
                       \/ ~Retrying(v) /\ ~Retrying(v)' /\ request'[v].run \in DOMAIN run
  BY <1>1, <1>2, <1>3 DEF Retrying
<1> QED
  BY <1>1, <1>3, <1>4, <1>5, <1>6, <1>7, <1>8, <1>9, RequestFrame

\* One row of a cancellation: nothing to do, not cancelled, or cancelled.
LEMMA CancelTaskStep ==
    ASSUME Inv, NEW u \in Users, CancelTask(u)
    PROVE  Inv'
<1>a. PICK r, o, task : r = request[u].run /\ o = request[u].ord /\ task = request[u].seen[o]
  OBVIOUS
<1>0. /\ TypeOK /\ DOMAIN run \subseteq RunIds /\ run \in Seq(RunRows) /\ job \in Seq(JobRows)
      /\ DOMAIN job \subseteq Jobs /\ \A j \in DOMAIN job : job[j] \in JobRows
      /\ request \in [Users -> Requests] /\ Rows = [Ordinals -> Entries] /\ row \in [RunIds -> Rows]
  BY Shape DEF Inv
<1>1. /\ request[u].op = "tasks" /\ o \in Ordinals /\ request' = [request EXCEPT ![u].ord = o + 1]
      /\ UNCHANGED <<run, worker, lock, restarts>> /\ misread \in SUBSET DOMAIN job
  BY <1>a, <1>0 DEF CancelTask, Onward, TypeOK
<1>2. r \in DOMAIN run /\ r \in RunIds
  BY <1>a, <1>0, <1>1 DEF Inv, RunsInOrder
<1>3. task \in Entries /\ SoundEntry(task) /\ (task.job # 0 => row[r][o].job = task.job)
  BY <1>a, <1>0, <1>1 DEF Requests, Inv, SoundRows, CancelSees
<1>4. /\ request' \in [Users -> Requests] /\ \A v \in Users : v # u => request'[v] = request[v]
      /\ request'[u].op = "tasks" /\ request'[u].run = r /\ request'[u].seen = request[u].seen
  <2>1. o + 1 \in 0..(N + 1)
    BY <1>1 DEF Ordinals
  <2> QED
    BY <1>a, <1>0, <1>1, <2>1 DEF Requests
<1>5. RunsGoOn
  BY <1>0, <1>1 DEF RunsGoOn
<1>6. ASSUME JobsGoOn, RowsGoOn,
             \A q \in RunIds, p \in Ordinals : /\ SoundEntry(row[q][p])'
                                               /\ row'[q][p] = row[q][p] \/ row[q][p].job # 0
      PROVE  Inv'
  <2>1. CancelSees'
    <3>1. \A q \in RunIds, p \in Ordinals : row[q][p].job # 0 => row'[q][p].job = row[q][p].job
      BY <1>6 DEF RowsGoOn, RowGoesOn
    <3>2. \A v \in Users : request'[v].op = "tasks" =>
            /\ request[v].op = "tasks" /\ request'[v].run = request[v].run /\ request'[v].seen = request[v].seen
            /\ request[v].run \in RunIds
      BY <1>a, <1>0, <1>1, <1>4 DEF Inv, RunsInOrder
    <3> QED
      BY <3>1, <3>2 DEF Inv, CancelSees
  <2>2. \A v \in Users : request'[v].op \in {"tasks", "retry"}
                           => \A p \in Ordinals : SoundEntry(request'[v].seen[p])
    BY <1>1, <1>4 DEF Inv, SoundRows
  <2>3. \A v \in Users : \/ request'[v] = request[v]
                         \/ ~Retrying(v) /\ ~Retrying(v)' /\ request'[v].run \in DOMAIN run
    BY <1>1, <1>2, <1>4 DEF Retrying
  <2> QED
    BY <1>1, <1>4, <1>5, <1>6, <2>1, <2>2, <2>3, RequestFrame
<1>7. CASE UNCHANGED <<row, job, misread>>
  <2>1. JobsGoOn /\ RowsGoOn
    BY <1>0, <1>1, <1>7 DEF JobsGoOn, RowsGoOn
  <2>2. \A q \in RunIds, p \in Ordinals : SoundEntry(row[q][p])'
    BY <1>7 DEF Inv, SoundRows, SoundEntry
  <2> QED
    BY <1>6, <1>7, <2>1, <2>2
<1>8. CASE task.job # 0 /\ task.status \notin TaskDone /\ SaveRow(r, o, task)
           /\ UNCHANGED <<job, misread>>
  <2>1. JobsGoOn
    BY <1>0, <1>1, <1>8 DEF JobsGoOn
  <2>2. RowGoesOn(r, o, task)
    BY <1>3, <1>8 DEF RowGoesOn, SoundEntry, Names, TaskDone
  <2>3. RowsGoOn
    BY <1>1, <1>2, <1>3, <1>8, <2>2, OneRowGoesOn
  <2>4. \A q \in RunIds, p \in Ordinals : row'[q][p] = IF q = r /\ p = o THEN task ELSE row[q][p]
    BY <1>0, <1>1, <1>2, <1>3, <1>8, RowSaved
  <2>5. \A e : SoundEntry(e) => SoundEntry(e)'
    BY <2>1, SoundKept
  <2>6. \A q \in RunIds, p \in Ordinals : SoundEntry(row[q][p])'
    BY <1>3, <2>4, <2>5 DEF Inv, SoundRows
  <2> QED
    BY <1>3, <1>6, <1>8, <2>1, <2>3, <2>4, <2>6
<1>9. CASE /\ task.job # 0 /\ SaveRow(r, o, Row("cancelled", task.job))
           /\ \/ Becomes(task.job, "cancelled") /\ UNCHANGED misread
              \/ misread' = misread \cup {task.job} /\ UNCHANGED job
  <2> DEFINE e == Row("cancelled", task.job)
  <2>0. task.job \in DOMAIN job
    BY <1>3, <1>9 DEF SoundEntry
  <2>1. /\ job' \in Seq(JobRows) /\ Len(job') = Len(job) /\ DOMAIN job' = DOMAIN job
        /\ \A k \in DOMAIN job : /\ job'[k].run = job[k].run /\ job'[k].ord = job[k].ord
                                 /\ job'[k].state \in {job[k].state, "cancelled"}
        /\ misread \subseteq misread' /\ misread' \in SUBSET DOMAIN job
        /\ job'[task.job].state = "cancelled" \/ task.job \in misread'
    <3>1. CASE Becomes(task.job, "cancelled") /\ UNCHANGED misread
      BY <1>0, <1>1, <2>0, <3>1, JobSet DEF JobState
    <3>2. CASE misread' = misread \cup {task.job} /\ UNCHANGED job
      BY <1>0, <1>1, <2>0, <3>2
    <3> QED
      BY <1>9, <3>1, <3>2
  <2>2. JobsGoOn
    BY <2>1 DEF JobsGoOn, MayBePaid
  <2>3. e \in Entries /\ e.job = task.job /\ e.status = "cancelled" /\ SoundEntry(e)'
    BY <1>0, <1>9, <2>0, <2>1 DEF Row, Entries, TaskStatus, SoundEntry
  <2> HIDE DEF e
  <2>4. RowGoesOn(r, o, e)
    <3>2. ASSUME NEW j \in DOMAIN job, job'[j].state \in MayBePaid, j \notin misread', Names(row[r][o], r, j)
          PROVE  FALSE
      BY <1>3, <1>9, <2>1, <3>2 DEF Names, MayBePaid
    <3>3. e.status # "none" /\ (row[r][o].job # 0 => e.job = row[r][o].job)
      BY <1>3, <1>9, <2>3
    <3> QED
      BY <3>2, <3>3 DEF RowGoesOn
  <2>5. RowsGoOn
    BY <1>1, <1>2, <1>9, <2>3, <2>4, OneRowGoesOn DEF e
  <2>6. \A q \in RunIds, p \in Ordinals : row'[q][p] = IF q = r /\ p = o THEN e ELSE row[q][p]
    BY <1>0, <1>1, <1>2, <1>9, <2>3, RowSaved DEF e
  <2>7. \A x : SoundEntry(x) => SoundEntry(x)'
    BY <2>2, SoundKept
  <2>8. \A q \in RunIds, p \in Ordinals : SoundEntry(row[q][p])'
    BY <2>3, <2>6, <2>7 DEF Inv, SoundRows
  <2> QED
    BY <1>3, <1>6, <1>9, <2>2, <2>5, <2>6, <2>8
<1> QED
  BY <1>a, <1>7, <1>8, <1>9 DEF CancelTask-------------------------------------------------------------------------------
(* New runs and retries *)

LEMMA Blank ==
    /\ Rows = [Ordinals -> Entries] /\ NoRows \in Rows
    /\ NoWorker \in Workers /\ NoWorker.at = "none"
    /\ [NoWorker EXCEPT !.at = "scheduled"] \in Workers /\ [NoWorker EXCEPT !.at = "scheduled"].at = "scheduled"
    /\ Idle \in Requests /\ Idle.op = "idle"
    /\ \A o \in Ordinals : NoRows[o] = Row("none", 0)
    /\ Row("none", 0).job = 0 /\ Row("none", 0).status = "none"
<1>1. Rows = [Ordinals -> Entries]
  BY DEF Rows, Entries
<1>2. Row("none", 0) \in Entries /\ Row("none", 0).job = 0 /\ Row("none", 0).status = "none"
  BY DEF Row, Entries, TaskStatus
<1>3. NoRows \in Rows /\ \A o \in Ordinals : NoRows[o] = Row("none", 0)
  BY <1>1, <1>2 DEF NoRows
<1>4. NoWorker \in Workers /\ NoWorker.at = "none" /\ Idle \in Requests /\ Idle.op = "idle"
  BY <1>3 DEF NoWorker, Workers, Idle, Requests
<1>5. [NoWorker EXCEPT !.at = "scheduled"] \in Workers /\ [NoWorker EXCEPT !.at = "scheduled"].at = "scheduled"
  BY <1>4 DEF Workers
<1> QED
  BY <1>1, <1>2, <1>3, <1>4, <1>5

\* A run is added when all others are over; what they account for stays.
LEMMA NewRun ==
    ASSUME Inv, Len(run) < MaxRuns, lock = "free", Live = {}, NEW s \in {0} \cup RunIds, Enqueue(s),
           UNCHANGED <<row, job, misread>>, NEW new, new = Len(run) + 1
    PROVE  /\ run' \in Seq(RunRows) /\ Len(run') = new
           /\ DOMAIN run' = DOMAIN run \cup {new} /\ new \in RunIds \ DOMAIN run
           /\ run'[new] = [status |-> "queued", of |-> s]
           /\ \A q \in DOMAIN run : /\ run'[q] = run[q] /\ run[q].status \in Terminal /\ ~Busy(q)
                                    /\ q < new
           /\ \A q \in RunIds : ~Holding(q)
           /\ \A u \in Users : ~Retrying(u)
           /\ row[new] = NoRows /\ worker[new] = NoWorker
           /\ JobsApart'
           /\ \A j \in DOMAIN job : job[j].run \in DOMAIN run
           /\ \A e : SoundEntry(e) <=> SoundEntry(e)'
           /\ \A q \in DOMAIN run, j \in DOMAIN job :
                 job[j].run \in Kin(q) /\ job[j].state \in MayBePaid /\ j \notin misread
                   => Names(row[q][job[j].ord], q, j)
           /\ \A q \in DOMAIN run : Kin(q)' \subseteq Kin(q)
<1>0. /\ TypeOK /\ DOMAIN run \subseteq RunIds /\ DOMAIN run = 1..Len(run) /\ Len(run) \in Nat
      /\ \A q \in DOMAIN run : run[q] \in RunRows
  BY Shape DEF Inv
<1>1. /\ run' \in Seq(RunRows) /\ Len(run') = Len(run) + 1
      /\ DOMAIN run' = 1..(Len(run) + 1) /\ DOMAIN run' \subseteq RunIds
      /\ \A q \in DOMAIN run : run'[q] = run[q]
      /\ run'[Len(run) + 1] = [status |-> "queued", of |-> s]
  BY <1>0, RunAppended
<1>2. DOMAIN run' = DOMAIN run \cup {new} /\ new \in RunIds \ DOMAIN run
  BY <1>0, <1>1
<1>3. \A q \in DOMAIN run : run[q].status \in Terminal /\ run[q].status \notin ACTIVE /\ ~Busy(q) /\ q < new
  BY <1>0 DEF Live, RunRows, Inv, OverIsOver, Busy
<1>4. (\A q \in RunIds : ~Holding(q)) /\ (\A u \in Users : ~Retrying(u))
  BY DEF Inv, LockKept
<1>5. row[new] = NoRows /\ worker[new] = NoWorker
  BY <1>2 DEF Inv, RunsInOrder
<1>6. JobsApart' /\ \A j \in DOMAIN job : job[j].run \in DOMAIN run
  BY <1>2 DEF Inv, JobsApart
<1>7. \A q \in DOMAIN run, j \in DOMAIN job :
        job[j].run \in Kin(q) /\ job[j].state \in MayBePaid /\ j \notin misread
          => Names(row[q][job[j].ord], q, j)
  BY <1>4 DEF Inv, Kept, Copied
<1>8. \A q \in DOMAIN run : Kin(q)' \subseteq Kin(q)
  BY <1>0, <1>1, <1>2, KinKept DEF Inv
<1>9. \A e : SoundEntry(e) <=> SoundEntry(e)'
  BY DEF SoundEntry
<1> QED
  BY <1>0, <1>1, <1>2, <1>3, <1>4, <1>5, <1>6, <1>7, <1>8, <1>9

\* A new run of no source has no ancestors.
LEMMA LineageStarts ==
    ASSUME TypeOK, Len(run) < MaxRuns, Enqueue(0), NEW new, new = Len(run) + 1
    PROVE  Lineage(new)' \subseteq {new}
<1>1. DOMAIN run' = 1..(Len(run) + 1) /\ run'[Len(run) + 1] = [status |-> "queued", of |-> 0] /\ Len(run) \in Nat
  BY RunAppended, Shape
<1>2. {new} \in SUBSET DOMAIN run' /\ \A q \in {new} : run'[q].of = 0
  BY <1>1
<1>3. ASSUME NEW q \in Lineage(new)'
      PROVE  q \in {new}
  <2> DEFINE S == {new}
  <2>1. S \in SUBSET DOMAIN run' /\ new \in S /\ \A p \in S : run'[p].of # 0 => run'[p].of \in S
    BY <1>2
  <2> HIDE DEF S
  <2>2. q \in S
    BY <1>3, <2>1 DEF Lineage, WithAncestors
  <2> QED
    BY <2>2 DEF S
<1> QED
  BY <1>3

LEMMA GenerateStep ==
    ASSUME Inv, Generate
    PROVE  Inv'
<1>a. PICK new : new = Len(run) + 1
  OBVIOUS
<1>0. TypeOK /\ DOMAIN run \subseteq RunIds /\ worker \in [RunIds -> Workers]
  BY Shape DEF Inv
<1>1. /\ Len(run) < MaxRuns /\ lock = "free" /\ Live = {} /\ Enqueue(0)
      /\ worker' = [worker EXCEPT ![new] = [NoWorker EXCEPT !.at = "scheduled"]]
      /\ UNCHANGED <<row, lock, request, job, misread, restarts>>
  BY <1>a DEF Generate, Scheduled
<1>2. /\ run' \in Seq(RunRows) /\ Len(run') = new
      /\ DOMAIN run' = DOMAIN run \cup {new} /\ new \in RunIds \ DOMAIN run
      /\ run'[new] = [status |-> "queued", of |-> 0]
      /\ \A q \in DOMAIN run : /\ run'[q] = run[q] /\ run[q].status \in Terminal /\ ~Busy(q)
                               /\ q < new
      /\ \A q \in RunIds : ~Holding(q)
      /\ \A u \in Users : ~Retrying(u)
      /\ row[new] = NoRows /\ worker[new] = NoWorker
      /\ JobsApart'
      /\ \A j \in DOMAIN job : job[j].run \in DOMAIN run
      /\ \A e : SoundEntry(e) <=> SoundEntry(e)'
      /\ \A q \in DOMAIN run, j \in DOMAIN job :
            job[j].run \in Kin(q) /\ job[j].state \in MayBePaid /\ j \notin misread
              => Names(row[q][job[j].ord], q, j)
      /\ \A q \in DOMAIN run : Kin(q)' \subseteq Kin(q)
  BY <1>a, <1>1, NewRun
<1>3. /\ worker' \in [RunIds -> Workers] /\ \A q \in RunIds : q # new => worker'[q] = worker[q]
      /\ worker'[new].at = "scheduled"
  BY <1>0, <1>1, <1>2, Blank
<1>4. \A q \in RunIds : ~Holding(q)' /\ (Busy(q)' => Busy(q))
  BY <1>2, <1>3 DEF Holding, Busy
<1>5. TypeOK'
  BY <1>a, <1>0, <1>1, <1>2, <1>3 DEF TypeOK, Workers, RunRows
<1>6. SoundRows'
  BY <1>1, <1>2, <1>4 DEF Inv, SoundRows
<1>7. RunsInOrder'
  <2>1. \A q \in DOMAIN run' : run'[q].of < q
    <3>1. new \in RunIds
      BY <1>2
    <3> QED
      BY <1>2, <3>1 DEF Inv, RunsInOrder, RunIds
  <2>2. \A q \in DOMAIN run' : run'[q].status \in {"queued", "running"} \/ Busy(q)' => q = new
    BY <1>0, <1>2, <1>4 DEF Terminal
  <2>3. \A q \in RunIds \ DOMAIN run' : worker'[q] = NoWorker /\ row'[q] = NoRows
    BY <1>1, <1>2, <1>3 DEF Inv, RunsInOrder
  <2>4. \A u \in Users : request'[u].op # "idle" => request'[u].run \in DOMAIN run'
    BY <1>1, <1>2 DEF Inv, RunsInOrder
  <2> QED
    BY <1>2, <2>1, <2>2, <2>3, <2>4 DEF RunsInOrder
<1>8. OverIsOver'
  BY <1>0, <1>2, <1>3 DEF OverIsOver, Busy
<1>9. LockKept' /\ CopyWaits' /\ WorkerSees'
  BY <1>1, <1>2, <1>4 DEF LockKept, CopyWaits, WorkerSees, Retrying
<1>10. CancelSees'
  BY <1>1 DEF Inv, CancelSees
<1>11. Kept'
  <2>1. \A j \in DOMAIN job : job[j].run \notin Kin(new)'
    BY <1>a, <1>0, <1>1, <1>2, LineageStarts DEF Kin
  <2>2. misread' = misread
    BY <1>1
  <2>3. \A q \in DOMAIN run, j \in DOMAIN job :
          Names(row[q][job[j].ord], q, j) => Names(row[q][job[j].ord], q, j)'
    BY <1>1 DEF Names
  <2> QED
    BY <1>1, <1>2, <2>1, <2>2, <2>3 DEF Kept
<1> QED
  BY <1>2, <1>5, <1>6, <1>7, <1>8, <1>9, <1>10, <1>11 DEF Inv
\* A retry accounts for what its source accounts for: nothing of it is
\* ambiguous, and all of it is still to be copied.
LEMMA RetrySaveStep ==
    ASSUME Inv, NEW u \in Users, NEW s \in DOMAIN run, RetrySave(u, s)
    PROVE  Inv'
<1>a. PICK new : new = Len(run) + 1
  OBVIOUS
<1>0. /\ TypeOK /\ DOMAIN run \subseteq RunIds /\ s \in RunIds /\ row \in [RunIds -> Rows] /\ request \in [Users -> Requests]
      /\ DOMAIN job \subseteq Jobs /\ \A j \in DOMAIN job : job[j] \in JobRows
      /\ worker \in [RunIds -> Workers] /\ Rows = [Ordinals -> Entries]
  BY Shape DEF Inv
<1>1. /\ Len(run) < MaxRuns /\ lock = "free" /\ Live = {} /\ Enqueue(s) /\ ~Ambiguous(s)
      /\ lock' = "request"
      /\ request' = [request EXCEPT ![u] = [op |-> "retry", run |-> new, ord |-> 1, seen |-> row[s]]]
      /\ UNCHANGED <<row, worker, job, misread, restarts>>
  BY <1>a DEF RetrySave
<1>2. /\ run' \in Seq(RunRows) /\ Len(run') = new
      /\ DOMAIN run' = DOMAIN run \cup {new} /\ new \in RunIds \ DOMAIN run
      /\ run'[new] = [status |-> "queued", of |-> s]
      /\ \A q \in DOMAIN run : /\ run'[q] = run[q] /\ run[q].status \in Terminal /\ ~Busy(q)
                               /\ q < new
      /\ \A q \in RunIds : ~Holding(q)
      /\ \A v \in Users : ~Retrying(v)
      /\ row[new] = NoRows /\ worker[new] = NoWorker
      /\ JobsApart'
      /\ \A j \in DOMAIN job : job[j].run \in DOMAIN run
      /\ \A e : SoundEntry(e) <=> SoundEntry(e)'
      /\ \A q \in DOMAIN run, j \in DOMAIN job :
            job[j].run \in Kin(q) /\ job[j].state \in MayBePaid /\ j \notin misread
              => Names(row[q][job[j].ord], q, j)
      /\ \A q \in DOMAIN run : Kin(q)' \subseteq Kin(q)
  BY <1>a, <1>0, <1>1, NewRun
<1>3. /\ request' \in [Users -> Requests] /\ \A v \in Users : v # u => request'[v] = request[v]
      /\ request'[u].op = "retry" /\ request'[u].run = new /\ request'[u].ord = 1 /\ request'[u].seen = row[s]
  BY <1>0, <1>1, <1>2 DEF Requests
<1>4. \A q \in RunIds : ~Holding(q)' /\ (Busy(q)' => Busy(q))
  BY <1>1, <1>2 DEF Holding, Busy
<1>5. TypeOK'
  BY <1>a, <1>0, <1>1, <1>2, <1>3 DEF TypeOK, Requests, RunRows
<1>6. SoundRows'
  BY <1>0, <1>1, <1>2, <1>3, <1>4 DEF Inv, SoundRows
<1>7. RunsInOrder'
  <2>1. \A q \in DOMAIN run' : run'[q].of < q
    BY <1>2 DEF Inv, RunsInOrder
  <2>2. \A q \in DOMAIN run' : run'[q].status \in {"queued", "running"} \/ Busy(q)' => q = new
    BY <1>0, <1>2, <1>4 DEF Terminal
  <2>3. \A q \in RunIds \ DOMAIN run' : worker'[q] = NoWorker /\ row'[q] = NoRows
    BY <1>1, <1>2 DEF Inv, RunsInOrder
  <2>4. \A v \in Users : request'[v].op # "idle" => request'[v].run \in DOMAIN run'
    BY <1>1, <1>2, <1>3 DEF Inv, RunsInOrder
  <2> QED
    BY <1>2, <2>1, <2>2, <2>3, <2>4 DEF RunsInOrder
<1>8. OverIsOver'
  BY <1>0, <1>1, <1>2 DEF OverIsOver, Busy, NoWorker
<1>9. LockKept' /\ WorkerSees'
  BY <1>1, <1>2, <1>3, <1>4 DEF LockKept, WorkerSees, Retrying
<1>10. CopyWaits'
  <2>1. \A o \in Ordinals : row[new][o] = Row("none", 0)
    BY <1>2, Blank
  <2>2. worker[new].at = "none"
    BY <1>2, Blank
  <2>3. \A j \in DOMAIN job : job[j].run # new
    BY <1>2
  <2> QED
    BY <1>1, <1>2, <1>3, <2>1, <2>2, <2>3 DEF CopyWaits, Retrying
<1>11. CancelSees'
  BY <1>1, <1>3 DEF Inv, CancelSees
<1>12. Kept'
  <2>1. misread' = misread
    BY <1>1
  <2>2. \A q \in DOMAIN run, j \in DOMAIN job :
          Names(row[q][job[j].ord], q, j) => Names(row[q][job[j].ord], q, j)'
    BY <1>1 DEF Names
  <2>3. ASSUME NEW j \in DOMAIN job, job[j].run \in Kin(new)', job[j].state \in MayBePaid, j \notin misread
        PROVE  Copied(u, new, j)'
    <3>1. job[j].run \in Kin(s)
      BY <1>a, <1>0, <1>1, <1>2, <2>3, LineageGrows DEF Kin, Inv
    <3>2. Names(row[s][job[j].ord], s, j)
      BY <1>2, <2>3, <3>1
    <3>3. job[j].ord \in Ordinals /\ 1 <= job[j].ord
      BY <1>0 DEF JobRows, Ordinals
    <3>4. row[s][job[j].ord] \in Entries /\ row[s][job[j].ord] \notin {Row("pending", 0), Row("unknown", 0)}
      BY <1>0, <1>1, <3>3 DEF Ambiguous
    <3>5. row[s][job[j].ord].job = j /\ row[s][job[j].ord].status \notin {"failed", "cancelled"}
      BY <3>2, <3>4 DEF Names, Entries, Row
    <3> QED
      BY <1>1, <1>3, <3>3, <3>5 DEF Copied, Names, Retrying
  <2> QED
    BY <1>1, <1>2, <2>1, <2>2, <2>3 DEF Kept
<1> QED
  BY <1>2, <1>5, <1>6, <1>7, <1>8, <1>9, <1>10, <1>11, <1>12 DEF Inv

\* One row is copied, unless it bought nothing: it then accounts for what
\* the source's entry accounted for.
LEMMA RetryCopyStep ==
    ASSUME Inv, NEW u \in Users, RetryCopy(u)
    PROVE  Inv'
<1>a. PICK r, o, task : r = request[u].run /\ o = request[u].ord /\ task = request[u].seen[o]
  OBVIOUS
<1>0. /\ TypeOK /\ DOMAIN run \subseteq RunIds /\ run \in Seq(RunRows) /\ job \in Seq(JobRows)
      /\ DOMAIN job \subseteq Jobs /\ \A j \in DOMAIN job : job[j] \in JobRows
      /\ request \in [Users -> Requests] /\ Rows = [Ordinals -> Entries] /\ row \in [RunIds -> Rows]
  BY Shape DEF Inv
<1>1. /\ request[u].op = "retry" /\ o \in Ordinals /\ request' = [request EXCEPT ![u].ord = o + 1]
      /\ IF task.job = 0 \/ task.status \in {"failed", "cancelled"} THEN row' = row ELSE SaveRow(r, o, task)
      /\ UNCHANGED <<run, worker, lock, job, misread, restarts>>
  BY <1>a DEF RetryCopy, Onward
<1>2. r \in DOMAIN run /\ r \in RunIds
  BY <1>a, <1>0, <1>1 DEF Inv, RunsInOrder
<1>3. task \in Entries /\ SoundEntry(task)
  BY <1>a, <1>0, <1>1 DEF Requests, Inv, SoundRows
<1>4. /\ lock = "request" /\ \A q \in RunIds : ~Holding(q)
      /\ \A v \in Users : Retrying(v) => v = u
  BY <1>1 DEF Inv, LockKept, Retrying
<1>5. /\ worker[r].at = "none" /\ \A j \in DOMAIN job : job[j].run # r
      /\ \A p \in Ordinals : p >= o => row[r][p] = Row("none", 0)
  BY <1>a, <1>1 DEF Inv, CopyWaits, Retrying
<1>6. /\ row[r][o].job = 0 /\ row[r][o].status = "none"
  BY <1>1, <1>5, Blank DEF Ordinals
<1>7. /\ request' \in [Users -> Requests] /\ \A v \in Users : v # u => request'[v] = request[v]
      /\ request'[u].op = "retry" /\ request'[u].run = r /\ request'[u].ord = o + 1
      /\ request'[u].seen = request[u].seen
  <2>1. o + 1 \in 0..(N + 1)
    BY <1>1 DEF Ordinals
  <2> QED
    BY <1>a, <1>0, <1>1, <2>1 DEF Requests
<1>8. PICK e \in Entries :
        /\ row' \in [RunIds -> Rows] /\ SoundEntry(e)
        /\ \A q \in RunIds, p \in Ordinals : row'[q][p] = IF q = r /\ p = o THEN e ELSE row[q][p]
        /\ IF task.job = 0 \/ task.status \in {"failed", "cancelled"} THEN e = row[r][o] ELSE e = task
  <2>1. CASE task.job = 0 \/ task.status \in {"failed", "cancelled"}
    <3>1. row[r][o] \in Entries /\ SoundEntry(row[r][o])
      BY <1>0, <1>1, <1>2 DEF Inv, SoundRows
    <3> QED
      BY <1>0, <1>1, <2>1, <3>1
  <2>2. CASE ~(task.job = 0 \/ task.status \in {"failed", "cancelled"})
    BY <1>0, <1>1, <1>2, <1>3, <2>2, RowSaved
  <2> QED
    BY <2>1, <2>2
<1>9. \A q \in RunIds : q # r => row'[q] = row[q]
  BY <1>0, <1>1, <1>2 DEF SaveRow
<1>10. \A x : SoundEntry(x) <=> SoundEntry(x)'
  BY <1>1 DEF SoundEntry
<1>11. TypeOK'
  <2>1. \A q \in RunIds, p \in Ordinals : row'[q][p].job \in {0} \cup DOMAIN job
    <3>1. e.job \in {0} \cup DOMAIN job
      BY <1>8 DEF SoundEntry
    <3> QED
      BY <1>0, <1>8, <3>1 DEF TypeOK
  <2> QED
    BY <1>0, <1>1, <1>7, <1>8, <2>1 DEF TypeOK, Requests
<1>12. SoundRows'
  <2>1. \A q \in RunIds, p \in Ordinals : SoundEntry(row'[q][p])
    BY <1>8 DEF Inv, SoundRows
  <2>2. \A v \in Users : request'[v].op \in {"tasks", "retry"}
                          => \A p \in Ordinals : SoundEntry(request'[v].seen[p])
    BY <1>1, <1>7 DEF Inv, SoundRows
  <2> QED
    BY <1>1, <1>4, <1>10, <2>1, <2>2 DEF SoundRows, Holding
<1>13. RunsInOrder'
  <2>1. \A v \in Users : request'[v].op # "idle" => request'[v].run \in DOMAIN run
    BY <1>2, <1>7 DEF Inv, RunsInOrder
  <2> QED
    BY <1>1, <1>2, <1>9, <2>1 DEF Inv, RunsInOrder, Busy
<1>14. OverIsOver'
  BY <1>1 DEF Inv, OverIsOver
<1>15. LockKept' /\ WorkerSees'
  BY <1>1, <1>4, <1>7 DEF LockKept, WorkerSees, Retrying, Holding
<1>16. CopyWaits'
  <2>1. \A p \in Ordinals : p >= o + 1 => row'[r][p] = Row("none", 0)
    BY <1>1, <1>2, <1>5, <1>8 DEF Ordinals
  <2>2. \A v \in Users : Retrying(v)' => v = u
    BY <1>4, <1>7 DEF Retrying
  <2> QED
    BY <1>1, <1>5, <1>7, <2>1, <2>2 DEF CopyWaits
<1>17. CancelSees'
  <2>1. \A q \in RunIds, p \in Ordinals : row[q][p].job # 0 => row'[q][p] = row[q][p]
    BY <1>6, <1>8
  <2>2. \A v \in Users : request'[v].op = "tasks" =>
          request'[v] = request[v] /\ request[v].run \in RunIds
    BY <1>0, <1>7 DEF Inv, RunsInOrder
  <2> QED
    BY <2>1, <2>2 DEF Inv, CancelSees
<1>18. JobsApart'
  <2>1. \A j \in DOMAIN job : job[j].run \in RunIds /\ job[j].ord \in Ordinals
    BY <1>0 DEF JobRows
  <2>2. \A j \in DOMAIN job : row'[job[j].run][job[j].ord] = row[job[j].run][job[j].ord]
    BY <1>5, <1>8, <2>1
  <2> QED
    BY <1>1, <2>2 DEF Inv, JobsApart
<1>19. Kept'
  <2>1. \A j \in DOMAIN job : job[j].run \in RunIds /\ job[j].ord \in Ordinals /\ j # 0
    BY <1>0 DEF JobRows, Jobs
  <2>2. misread' = misread
    BY <1>1
  <2>3. \A q \in DOMAIN run : Kin(q)' \subseteq Kin(q)
    BY <1>0, <1>1, KinKept DEF Inv
  <2>4. ASSUME NEW q \in DOMAIN run, NEW j \in DOMAIN job,
               job[j].run \in Kin(q), job[j].state \in MayBePaid, j \notin misread
        PROVE  Names(row[q][job[j].ord], q, j)' \/ Copied(u, q, j)'
    <3>1. CASE ~(q = r /\ job[j].ord = o) /\ Names(row[q][job[j].ord], q, j)
      <4>1. row'[q][job[j].ord] = row[q][job[j].ord]
        BY <1>0, <1>8, <2>1, <3>1
      <4> QED
        BY <1>1, <3>1, <4>1 DEF Names
    <3>2. CASE q = r /\ job[j].ord # o /\ Copied(u, r, j)
      <4>1. o + 1 <= job[j].ord
        <5>1. o \in Nat /\ job[j].ord \in Nat
          BY <1>1, <2>1 DEF Ordinals
        <5> QED
          BY <1>a, <3>2, <5>1 DEF Copied
      <4> QED
        BY <1>1, <1>7, <3>2, <4>1 DEF Copied, Names, Retrying
    <3>3. CASE q = r /\ job[j].ord = o /\ Copied(u, r, j)
      <4>1. Names(task, r, j) /\ job[j].run # r
        BY <1>a, <1>5, <3>3 DEF Copied
      <4>2. task.job = j /\ task.status \notin {"failed", "cancelled"} /\ task.job # 0
        BY <2>1, <4>1 DEF Names
      <4>3. row'[r][o] = task
        BY <1>1, <1>2, <1>8, <4>2
      <4> QED
        BY <1>1, <3>3, <4>2, <4>3 DEF Names
    <3>4. ~(q = r /\ job[j].ord = o /\ Names(row[q][job[j].ord], q, j))
      BY <1>6, <2>1 DEF Names
    <3>5. \A v \in Users : Copied(v, q, j) => v = u /\ q = r
      BY <1>a, <1>4 DEF Copied
    <3>6. Names(row[q][job[j].ord], q, j) \/ \E v \in Users : Copied(v, q, j)
      BY <2>4 DEF Inv, Kept
    <3> QED
      BY <3>1, <3>2, <3>3, <3>4, <3>5, <3>6
  <2> QED
    BY <1>1, <2>2, <2>3, <2>4 DEF Kept
<1> QED
  BY <1>11, <1>12, <1>13, <1>14, <1>15, <1>16, <1>17, <1>18, <1>19 DEF Inv
\* The copied run is scheduled and the lock is free.
LEMMA RetryDoneStep ==
    ASSUME Inv, NEW u \in Users, RetryDone(u)
    PROVE  Inv'
<1>a. PICK r : r = request[u].run
  OBVIOUS
<1>0. /\ TypeOK /\ DOMAIN run \subseteq RunIds /\ run \in Seq(RunRows) /\ job \in Seq(JobRows)
      /\ worker \in [RunIds -> Workers] /\ request \in [Users -> Requests]
  BY Shape DEF Inv
<1>1. /\ request[u].op = "retry" /\ request[u].ord > N
      /\ worker' = [worker EXCEPT ![r] = [NoWorker EXCEPT !.at = "scheduled"]]
      /\ lock' = "free" /\ request' = [request EXCEPT ![u] = Idle]
      /\ UNCHANGED <<run, row, job, misread, restarts>>
  BY <1>a DEF RetryDone, Scheduled
<1>2. r \in DOMAIN run /\ r \in RunIds
  BY <1>a, <1>0, <1>1 DEF Inv, RunsInOrder
<1>3. /\ worker' \in [RunIds -> Workers] /\ \A q \in RunIds : q # r => worker'[q] = worker[q]
      /\ worker'[r].at = "scheduled"
  BY <1>0, <1>1, <1>2, Blank
<1>4. /\ request' \in [Users -> Requests] /\ \A v \in Users : v # u => request'[v] = request[v]
      /\ request'[u].op = "idle"
  BY <1>0, <1>1, Blank
<1>5. /\ \A q \in RunIds : ~Holding(q) /\ ~Holding(q)' /\ (Busy(q)' => Busy(q))
      /\ \A v \in Users : ~Retrying(v)'
  <2>1. \A q \in RunIds : ~Holding(q)
    BY <1>1 DEF Inv, LockKept, Retrying
  <2>2. \A v \in Users : Retrying(v) => v = u
    BY <1>1 DEF Inv, LockKept, Retrying
  <2> QED
    BY <1>3, <1>4, <2>1, <2>2 DEF Holding, Busy, Retrying
<1>6. JobsApart' /\ Kept'
  <2>1. RunsGoOn /\ JobsGoOn /\ RowsGoOn
    BY <1>0, <1>1 DEF RunsGoOn, JobsGoOn, RowsGoOn, TypeOK
  <2>2. \A v \in Users : Retrying(v) => v = u
    BY <1>1 DEF Inv, LockKept, Retrying
  <2>3. RetriesGoOn
    BY <1>1, <2>2 DEF RetriesGoOn
  <2> QED
    BY <2>1, <2>3, RowsFrame
<1>7. TypeOK'
  BY <1>0, <1>1, <1>3, <1>4 DEF TypeOK, Workers, Requests
<1>8. SoundRows'
  <2>1. \A e : SoundEntry(e) <=> SoundEntry(e)'
    BY <1>1 DEF SoundEntry
  <2> QED
    BY <1>1, <1>4, <1>5, <2>1 DEF Inv, SoundRows
<1>9. RunsInOrder'
  <2>1. \A v \in Users : request'[v].op # "idle" => request'[v].run \in DOMAIN run
    BY <1>4 DEF Inv, RunsInOrder
  <2>2. \A q \in RunIds \ DOMAIN run : worker'[q] = worker[q]
    BY <1>2, <1>3
  <2>3. \A q \in DOMAIN run : Busy(q)' => Busy(q)
    BY <1>0, <1>5
  <2> QED
    BY <1>1, <2>1, <2>2, <2>3 DEF Inv, RunsInOrder
<1>10. OverIsOver'
  BY <1>0, <1>1, <1>2, <1>3 DEF Inv, OverIsOver
<1>11. LockKept' /\ CopyWaits' /\ WorkerSees'
  BY <1>5 DEF LockKept, CopyWaits, WorkerSees
<1>12. CancelSees'
  BY <1>1, <1>4 DEF Inv, CancelSees
<1> QED
  BY <1>6, <1>7, <1>8, <1>9, <1>10, <1>11, <1>12 DEF Inv

\* The runs after a restart: none comes back from the dead.
LEMMA RunsRecovered ==
    ASSUME TypeOK, NEW after, \A r \in DOMAIN run : after[r] \in ACTIVE \cup Terminal,
           run' = [r \in DOMAIN run |-> [run[r] EXCEPT !.status = after[r]]]
    PROVE  RunsGoOn /\ \A r \in DOMAIN run : run'[r].status = after[r]
<1>1. Len(run) \in Nat /\ DOMAIN run = 1..Len(run) /\ \A r \in DOMAIN run : run[r] \in RunRows
  BY Shape
<1>2. \A r \in DOMAIN run : /\ run'[r] \in RunRows
                            /\ run'[r].of = run[r].of /\ run'[r].status = after[r]
  BY <1>1 DEF RunRows
<1>3. run' \in [1..Len(run) -> RunRows]
  BY <1>1, <1>2
<1>4. run' \in Seq(RunRows)
  BY <1>1, <1>3, SeqDef
<1>5. Len(run') = Len(run) /\ DOMAIN run' = DOMAIN run
  BY <1>1, <1>3, <1>4, LenProperties
<1> QED
  BY <1>2, <1>4, <1>5 DEF RunsGoOn

LEMMA RestartStep ==
    ASSUME Inv, NEW after, RestartWith(after),
           \A r \in DOMAIN run : /\ after[r] \in ACTIVE \cup Terminal
                                 /\ after[r] \in {"queued", "running"} => run[r].status \in {"queued", "running"}
    PROVE  Inv'
<1>0. /\ TypeOK /\ DOMAIN run \subseteq RunIds /\ job \in Seq(JobRows)
      /\ worker \in [RunIds -> Workers]
  BY Shape DEF Inv
<1>1. /\ restarts < MaxRestarts /\ restarts' = restarts + 1
      /\ \A u \in Users : request[u].op = "retry" => "crash_in_retry" \in Hazards
      /\ run' = [r \in DOMAIN run |-> [run[r] EXCEPT !.status = after[r]]]
      /\ worker' = [r \in RunIds |-> IF r \in DOMAIN run /\ after[r] = "queued"
                                     THEN [NoWorker EXCEPT !.at = "scheduled"] ELSE NoWorker]
      /\ lock' = "free" /\ request' = [u \in Users |-> Idle]
      /\ UNCHANGED <<row, job, misread>>
  BY DEF RestartWith
<1>2. RunsGoOn /\ \A r \in DOMAIN run : run'[r].status = after[r]
  BY <1>0, <1>1, RunsRecovered
<1>3. /\ worker' \in [RunIds -> Workers] /\ \A r \in RunIds : worker'[r].at \in {"none", "scheduled"}
      /\ \A r \in RunIds \ DOMAIN run : worker'[r] = NoWorker
  BY <1>1, Blank
<1>4. request' \in [Users -> Requests] /\ \A u \in Users : request'[u].op = "idle"
  BY <1>1, Blank
<1>5. \A r \in RunIds : ~Holding(r)' /\ ~Busy(r)'
  BY <1>3 DEF Holding, Busy
<1>6. JobsApart' /\ Kept'
  <2>1. JobsGoOn /\ RowsGoOn /\ RetriesGoOn
    BY <1>0, <1>1, MisreadSame DEF JobsGoOn, RowsGoOn, RetriesGoOn, Retrying, TypeOK
  <2> QED
    BY <1>2, <2>1, RowsFrame
<1>7. TypeOK'
  <2>1. restarts' \in 0..MaxRestarts /\ lock' = "free" /\ row' = row /\ job' = job /\ misread' = misread
    BY <1>0, <1>1 DEF TypeOK
  <2> QED
    BY <1>0, <1>2, <1>3, <1>4, <2>1 DEF TypeOK, Workers, Requests, RunRows, RunsGoOn
<1>8. SoundRows'
  <2>1. \A e : SoundEntry(e) <=> SoundEntry(e)'
    BY <1>1 DEF SoundEntry
  <2> QED
    BY <1>1, <1>4, <1>5, <2>1 DEF Inv, SoundRows
<1>9. RunsInOrder'
  <2>1. \A r \in DOMAIN run : ~Busy(r)'
    BY <1>0, <1>5
  <2>2. \A r \in RunIds \ DOMAIN run : worker'[r] = NoWorker
    BY <1>3
  <2> QED
    BY <1>1, <1>2, <1>4, <2>1, <2>2 DEF Inv, RunsInOrder, RunsGoOn
<1>10. OverIsOver'
  BY <1>0, <1>2, <1>3 DEF OverIsOver, RunsGoOn
<1>11. LockKept' /\ CopyWaits' /\ WorkerSees' /\ CancelSees'
  BY <1>4, <1>5 DEF LockKept, CopyWaits, WorkerSees, CancelSees, Retrying
<1> QED
  BY <1>6, <1>7, <1>8, <1>9, <1>10, <1>11 DEF Inv

LEMMA CrashStep ==
    ASSUME Inv, Crash \/ Shutdown
    PROVE  Inv'
<1>1. \A r \in DOMAIN run : run[r].status \in ACTIVE \cup Terminal
  BY Shape DEF Inv, RunRows
<1>2. \A r \in DOMAIN run, s \in ACTIVE \cup Terminal :
        /\ Recovered(r, s) \in ACTIVE \cup Terminal
        /\ Recovered(r, s) \in {"queued", "running"} => s \in {"queued", "running"}
  BY DEF Recovered, ACTIVE, Terminal
<1>3. \A r \in DOMAIN run : /\ Shut(r) \in ACTIVE \cup Terminal
                            /\ Shut(r) \in {"queued", "running"} => run[r].status \in {"queued", "running"}
  BY <1>1 DEF Shut, Terminal
<1>4. CASE Crash
  <2> DEFINE after == [r \in DOMAIN run |-> Recovered(r, run[r].status)]
  <2>1. RestartWith(after)
    BY <1>4 DEF Crash
  <2>2. \A r \in DOMAIN run : /\ after[r] \in ACTIVE \cup Terminal
                              /\ after[r] \in {"queued", "running"} => run[r].status \in {"queued", "running"}
    BY <1>1, <1>2
  <2> HIDE DEF after
  <2> QED
    BY <2>1, <2>2, RestartStep
<1>5. CASE Shutdown
  <2> DEFINE after == [r \in DOMAIN run |-> Recovered(r, Shut(r))]
  <2>1. RestartWith(after)
    BY <1>5 DEF Shutdown
  <2>2. \A r \in DOMAIN run : /\ after[r] \in ACTIVE \cup Terminal
                              /\ after[r] \in {"queued", "running"} => run[r].status \in {"queued", "running"}
    BY <1>2, <1>3
  <2> HIDE DEF after
  <2> QED
    BY <2>1, <2>2, RestartStep
<1> QED
  BY <1>4, <1>5
-------------------------------------------------------------------------------
(* The theorems *)

LEMMA InvInit ==
    Init => Inv
<1> SUFFICES ASSUME Init PROVE Inv
  OBVIOUS
<1>1. /\ run = <<>> /\ job = <<>> /\ DOMAIN run = {} /\ DOMAIN job = {} /\ Len(run) = 0 /\ Len(job) = 0
      /\ \A r \in RunIds : row[r] = NoRows /\ worker[r] = NoWorker
      /\ \A u \in Users : request[u] = Idle
      /\ row \in [RunIds -> Rows] /\ worker \in [RunIds -> Workers] /\ request \in [Users -> Requests]
      /\ lock = "free" /\ restarts = 0 /\ misread = {}
  BY Blank DEF Init
<1>2. \A r \in RunIds, o \in Ordinals : row[r][o].job = 0 /\ row[r][o].status = "none"
  BY <1>1, Blank
<1>3. \A r \in RunIds : ~Holding(r) /\ ~Busy(r)
  BY <1>1, Blank DEF Holding, Busy
<1>4. \A u \in Users : request[u].op = "idle"
  BY <1>1, Blank
<1>5. TypeOK
  <2>1. MaxRuns * N \in Nat /\ 0 <= MaxRuns /\ 0 <= MaxRuns * N
    OBVIOUS
  <2> QED
    BY <1>1, <1>2, <2>1, EmptySeq DEF TypeOK, Workers, Requests
<1>6. SoundRows /\ WorkerSees
  BY <1>2, <1>3, <1>4 DEF SoundRows, SoundEntry, WorkerSees
<1>7. RunsInOrder /\ OverIsOver /\ JobsApart /\ Kept
  BY <1>1, <1>4 DEF RunsInOrder, OverIsOver, JobsApart, Kept
<1>8. LockKept /\ CopyWaits /\ CancelSees
  BY <1>3, <1>4 DEF LockKept, CopyWaits, CancelSees, Retrying
<1> QED
  BY <1>5, <1>6, <1>7, <1>8 DEF Inv

LEMMA InvNext ==
    Inv /\ [Next]_vars => Inv'
<1> SUFFICES ASSUME Inv, [Next]_vars PROVE Inv'
  OBVIOUS
<1>1. CASE Generate
  BY <1>1, GenerateStep
<1>2. ASSUME NEW r \in DOMAIN run, WorkStep(r) \/ Fails(r) \/ HearGarbled(r)
      PROVE  Inv'
  <2>1. CASE Claim(r) \/ Begin(r) \/ Submit(r)
    BY <2>1, ClaimStep, BeginStep, SubmitStep
  <2>2. CASE HearAccepted(r) \/ Follow(r) \/ Poll(r) \/ PassOver(r)
    BY <2>2, HearAcceptedStep, FollowStep, PollStep, PassOverStep
  <2>3. CASE HearRefused(r) \/ HearNothing(r) \/ HearGarbled(r)
    BY <2>3, SubmitFailsStep
  <2>4. CASE Save(r) \/ Timeout(r)
    BY <2>4, SaveStep, TimeoutStep
  <2>5. CASE Finish(r) \/ Fails(r)
    BY <2>5, FinishStep
  <2> QED
    BY <1>2, <2>1, <2>2, <2>3, <2>4, <2>5 DEF WorkStep
<1>3. ASSUME NEW j \in DOMAIN job, Provide(j)
      PROVE  Inv'
  BY <1>3, ProvideStep
<1>4. ASSUME NEW u \in Users, RequestStep(u)
      PROVE  Inv'
  BY <1>4, CancelSaveStep, CancelTaskStep, CancelFinishStep, RetryCopyStep, RetryDoneStep DEF RequestStep
<1>5. ASSUME NEW u \in Users, NEW r \in DOMAIN run, CancelRead(u, r) \/ RetrySave(u, r)
      PROVE  Inv'
  BY <1>5, CancelReadStep, RetrySaveStep
<1>6. CASE Crash \/ Shutdown
  BY <1>6, CrashStep
<1>7. CASE UNCHANGED vars
  <2>1. UNCHANGED <<run, row, worker, lock, request, job, misread, restarts>>
    BY <1>7 DEF vars
  <2>2. TypeOK' /\ SoundRows' /\ RunsInOrder' /\ OverIsOver' /\ LockKept'
    BY <2>1 DEF Inv, TypeOK, SoundRows, SoundEntry, RunsInOrder, Busy, OverIsOver, LockKept, Holding, Retrying
  <2>3. WorkerSees'
    <3>1. \A r \in RunIds : SeesRows(r) => SeesRows(r)'
      BY <2>1 DEF SeesRows, Task
    <3> QED
      BY <2>1, <3>1 DEF Inv, WorkerSees, Holding
  <2>4. CancelSees' /\ CopyWaits' /\ JobsApart'
    BY <2>1 DEF Inv, CancelSees, CopyWaits, Retrying, JobsApart
  <2>5. Kept'
    <3>1. RunsGoOn /\ JobsGoOn /\ RowsGoOn /\ RetriesGoOn
      <4>1. TypeOK /\ run \in Seq(RunRows) /\ job \in Seq(JobRows)
        BY Shape DEF Inv
      <4> QED
        BY <2>1, <4>1 DEF RunsGoOn, JobsGoOn, RowsGoOn, RetriesGoOn, TypeOK
    <3> QED
      BY <3>1, RowsFrame
  <2> QED
    BY <2>2, <2>3, <2>4, <2>5 DEF Inv
<1> QED
  BY <1>1, <1>2, <1>3, <1>4, <1>5, <1>6, <1>7 DEF Next

LEMMA InvHolds ==
    Spec => []Inv
BY InvInit, InvNext, PTL DEF Spec

(* The queue, the rows, the tasks, the requests and the provider's jobs are  *)
(* well typed, whatever is asked of the provider and however often the      *)
(* process restarts.                                                         *)
THEOREM TypeCorrect ==
    Spec => []TypeOK
<1>1. Inv => TypeOK
  BY DEF Inv
<1> QED
  BY <1>1, InvHolds, PTL

(* A run that is over has no task at work: cancel_generation_run and         *)
(* _run_queued_video end a run and its task together.                        *)
THEOREM OverForGood ==
    Spec => []OverIsOver
<1>1. Inv => OverIsOver
  BY DEF Inv
<1> QED
  BY <1>1, InvHolds, PTL

(* A job that may be paid for is never forgotten, unless a reply about it    *)
(* was misread: its row names it or says the outcome is not known.           *)
THEOREM NothingForgotten ==
    Spec => []JobsKept
<1>1. Inv => JobsKept
  <2> SUFFICES ASSUME Inv, NEW j \in DOMAIN job, job[j].state \in MayBePaid, j \notin misread
               PROVE  row[job[j].run][job[j].ord] \in
                        {Row("pending", 0), Row("unknown", 0)}
                          \cup [status : {"submitted", "running", "unknown", "succeeded"}, job : {j}]
    BY DEF JobsKept
  <2> DEFINE r == job[j].run
             e == row[r][job[j].ord]
  <2>1. r \in DOMAIN run /\ r \in RunIds /\ job[j].ord \in Ordinals /\ e \in Entries /\ j # 0
    <3>1. TypeOK /\ DOMAIN run \subseteq RunIds /\ job[j] \in JobRows /\ DOMAIN job \subseteq Jobs
          /\ row \in [RunIds -> [Ordinals -> Entries]]
      BY Shape DEF Inv
    <3>2. r \in DOMAIN run
      BY DEF Inv, JobsApart
    <3> QED
      BY <3>1, <3>2 DEF JobRows, Jobs
  <2>2. job[j].run \in Kin(r)
    BY <2>1, OwnKin DEF Inv
  <2>3. \A u \in Users : ~Copied(u, r, j)
    BY DEF Inv, CopyWaits, Copied
  <2>4. Names(e, r, j) /\ SoundEntry(e)
    BY <2>1, <2>2, <2>3 DEF Inv, Kept, SoundRows
  <2>5. CASE e.job = 0
    BY <2>1, <2>4, <2>5 DEF Names, Entries, Row
  <2>6. CASE e.job # 0
    <3>1. e.job = j /\ e.status \in {"submitted", "running", "unknown", "succeeded"}
      BY <2>1, <2>4, <2>6 DEF Names, SoundEntry, Entries, TaskStatus
    <3> QED
      BY <2>1, <3>1 DEF Entries
  <2> QED
    BY <2>5, <2>6
<1> QED
  BY <1>1, InvHolds, PTL

(* If no restart falls between the insertion of a retry and the copying of   *)
(* its source's rows, nothing is paid for twice: over a run and the runs it  *)
(* retries, one job per ordinal may be paid for (misread replies aside).     *)
THEOREM NothingPaidTwice ==
    ASSUME "crash_in_retry" \notin Hazards
    PROVE  Spec => []PaidOnce
<1>1. Inv => PaidOnce
  <2> SUFFICES ASSUME Inv, NEW r \in DOMAIN run, NEW o \in Ordinals
               PROVE  Cardinality({j \in DOMAIN job : /\ job[j].run \in Lineage(r) /\ job[j].ord = o
                                                      /\ job[j].state \in MayBePaid /\ j \notin misread}) <= 1
    BY DEF PaidOnce
  <2> DEFINE Payable == {j \in DOMAIN job : /\ job[j].run \in Lineage(r) /\ job[j].ord = o
                                            /\ job[j].state \in MayBePaid /\ j \notin misread}
  <2>1. ASSUME NEW i \in Payable, NEW j \in Payable
        PROVE  i = j
    <3>1. /\ Names(row[r][o], r, i) \/ \E u \in Users : Copied(u, r, i)
          /\ Names(row[r][o], r, j) \/ \E u \in Users : Copied(u, r, j)
      BY DEF Inv, Kept, Kin
    <3>2. i # 0 /\ j # 0 /\ i \in DOMAIN job /\ j \in DOMAIN job
      BY Shape DEF Inv, Jobs
    <3>3. ASSUME NEW e, Names(e, r, i), Names(e, r, j)
          PROVE  i = j
      BY <3>2, <3>3 DEF Names, Inv, JobsApart
    <3>4. ASSUME NEW u \in Users, NEW k \in Payable, Copied(u, r, k)
          PROVE  \A m \in DOMAIN job : m # 0 => ~Names(row[r][o], r, m)
      <4>1. row[r][o] = Row("none", 0)
        BY <3>4 DEF Copied, Inv, CopyWaits
      <4> QED
        BY <4>1, Blank DEF Names
    <3>5. \A u, v \in Users : Copied(u, r, i) /\ Copied(v, r, j) => u = v
      BY DEF Copied, Inv, LockKept
    <3>6. \A u \in Users : Copied(u, r, i) /\ Copied(u, r, j) => i = j
      BY <3>3 DEF Copied
    <3> QED
      BY <3>1, <3>2, <3>3, <3>4, <3>5, <3>6
  <2> HIDE DEF Payable
  <2>2. Payable = {} \/ \E j : Payable = {j}
    <3>1. CASE Payable # {}
      <4>1. PICK j : j \in Payable
        BY <3>1
      <4>2. Payable = {j}
        BY <2>1, <4>1
      <4> QED
        BY <4>2
    <3> QED
      BY <3>1
  <2>3. Cardinality(Payable) <= 1
    <3>1. CASE Payable = {}
      BY <3>1, FS_EmptySet
    <3>2. ASSUME NEW j, Payable = {j}
          PROVE  Cardinality(Payable) <= 1
      <4>1. Cardinality({j}) = 1
        BY FS_Singleton
      <4> QED
        BY <3>2, <4>1
    <3> QED
      BY <2>2, <3>1, <3>2
  <2> QED
    BY <2>3 DEF Payable
<1> QED
  BY <1>1, InvHolds, PTL
===============================================================================
