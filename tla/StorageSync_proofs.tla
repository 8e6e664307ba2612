-------------------------- MODULE StorageSync_proofs --------------------------
(***************************************************************************)
(* For any number of entries, files, servers, versions, batches and        *)
(* troubles: types; an entry is in one unfinished batch; nothing purged or *)
(* trashed on a server comes back by itself; and a version counts as       *)
(* synced only if the server has it -- unless the task is started again    *)
(* while disconnect() waits.                                               *)
(***************************************************************************)
EXTENDS StorageSync, SequenceTheorems, TLAPS

USE SyncAssumption DEF SyncAssumption

NoLateStart == "late_start" \notin Hazards

\* The task is at work for a confirmed connection only, on an unfinished batch,
\* and sends it to the server that the receipts are of.
WorkerConnected ==
    /\ conn.confirmed => conn.to # NoTarget /\ conn.to = lastTarget
    /\ conn.leaving => conn.confirmed
    /\ worker.at # "none" => conn.confirmed /\ ~conn.leaving
    /\ worker.at \in Calling => worker.job \in Open
    /\ worker.at \in Calling /\ worker.to # NoTarget => worker.to = lastTarget

\* A commit writes entries of its batch, and those it has written are there;
\* so are those of a completed batch.
CommitsWrite ==
    \A t \in Targets :
        /\ \A c \in commits[t] : \A k \in Sent(c.job) \ c.todo : remote[t][k] # "none"
        /\ \A j \in DOMAIN jobs : inbox[t][j].status = "completed" =>
              \A k \in Sent(j) : remote[t][k] # "none"
        /\ \A j \in JobIds \ DOMAIN jobs : inbox[t][j].status # "completed"

\* An entry whose files are being kept may get another version.
Capturing == \A k \in capturing : entry[k].version < MaxVersion

Receipts ==
    \A k \in Keys : entry[k].synced > 0 => lastTarget # NoTarget

IInv == TypeOK /\ Capturing /\ WorkerConnected /\ OneBatchPerEntry /\ CommitsWrite /\ Receipts /\ SyncedIsOnServer
-------------------------------------------------------------------------------
(* Types *)

Job == [status : Unfinished \cup {"completed", "cancelled"}, man : Manifests]
EntryRow == [version : 0..MaxVersion, synced : 0..MaxVersion, at : {"none", "live", "trash", "removed"}]
ConnRow == [to : Targets \cup {NoTarget}, confirmed : BOOLEAN, auto : BOOLEAN,
            fresh : SUBSET Keys, leaving : BOOLEAN]
WorkerRow(n) == [at : {"none", "pick"} \cup Calling, job : 0..n,
                 to : Targets \cup {NoTarget}, todo : SUBSET Digests, sent : SUBSET Digests]
InboxRow == [status : {"none", "open", "completed"}, rows : [Digests -> {"none", "empty", "full", "taken"}]]
CommitRow(n) == [job : 1..n, todo : SUBSET Keys]

\* What TypeOK says of the rows.
LEMMA Rows ==
  ASSUME TypeOK
  PROVE  /\ Len(jobs) \in 0..MaxJobs /\ DOMAIN jobs = 1..Len(jobs) /\ jobs \in Seq(Job)
         /\ \A j \in DOMAIN jobs : /\ jobs[j] \in Job /\ j \in JobIds
                                   /\ Sent(j) \in SUBSET Keys
                                   /\ jobs[j].man \in [Sent(j) -> Versions]
         /\ entry \in [Keys -> EntryRow] /\ conn \in ConnRow /\ worker \in WorkerRow(Len(jobs))
         /\ inbox \in [Targets -> [JobIds -> InboxRow]]
         /\ commits \in [Targets -> SUBSET CommitRow(Len(jobs))]
<1>1. jobs \in Seq(Job) /\ Len(jobs) <= MaxJobs
  BY DEF TypeOK, Job
<1>2. Len(jobs) \in Nat /\ DOMAIN jobs = 1..Len(jobs) /\ \A j \in 1..Len(jobs) : jobs[j] \in Job
  BY <1>1, LenProperties, ElementOfSeq
<1>3. ASSUME NEW j \in DOMAIN jobs
      PROVE  Sent(j) \in SUBSET Keys /\ jobs[j].man \in [Sent(j) -> Versions]
  <2>1. PICK S \in (SUBSET Keys) \ {{}} : jobs[j].man \in [S -> Versions]
    BY <1>2, <1>3 DEF Job, Manifests
  <2> QED
    BY <2>1 DEF Sent
<1> QED
  BY <1>1, <1>2, <1>3 DEF TypeOK, EntryRow, ConnRow, WorkerRow, InboxRow, CommitRow, JobIds

\* Jobs that change their status, and never what they send.
SameJobs == jobs' \in Seq(Job) /\ Len(jobs') = Len(jobs) /\ \A j \in DOMAIN jobs : jobs'[j].man = jobs[j].man

\* One job gets a status.
LEMMA SavedJob ==
  ASSUME TypeOK, NEW j \in DOMAIN jobs, NEW s \in Unfinished \cup {"completed", "cancelled"}, SaveJob(j, s)
  PROVE  /\ SameJobs /\ jobs'[j].status = s
         /\ \A i \in DOMAIN jobs : i # j => jobs'[i] = jobs[i]
<1> DEFINE x == [jobs[j] EXCEPT !.status = s]
<1>1. jobs \in Seq(Job) /\ j \in 1..Len(jobs) /\ jobs[j] \in Job /\ DOMAIN jobs = 1..Len(jobs)
  BY Rows
<1>2. x \in Job /\ x.status = s /\ x.man = jobs[j].man
  BY <1>1 DEF Job
<1>3. jobs' = [jobs EXCEPT ![j] = x]
  BY DEF SaveJob
<1> HIDE DEF x
<1>4. /\ jobs' \in Seq(Job) /\ Len(jobs') = Len(jobs)
      /\ \A i \in 1..Len(jobs) : jobs'[i] = IF i = j THEN x ELSE jobs[i]
  BY <1>1, <1>2, <1>3, ExceptSeq
<1> QED
  BY <1>1, <1>2, <1>4 DEF SameJobs

\* A function on the numbers of the jobs is a sequence as long as theirs.
LEMMA FunctionIsSeq ==
  ASSUME NEW T, NEW n \in Nat, NEW f \in [1..n -> T]
  PROVE  f \in Seq(T) /\ Len(f) = n
<1>1. f \in Seq(T)
  BY SeqDef
<1>2. Len(f) \in Nat /\ 1..Len(f) = 1..n
  BY <1>1, LenProperties
<1> QED
  BY <1>1, <1>2

Restate(old, s) == [j \in DOMAIN jobs |-> [jobs[j] EXCEPT !.status = IF @ \in old THEN s ELSE @]]
Restated(old, s) ==
    /\ SameJobs
    /\ \A j \in DOMAIN jobs : jobs'[j].status = IF jobs[j].status \in old THEN s ELSE jobs[j].status

\* All jobs of some statuses get another.
LEMMA RestatedJobs ==
  ASSUME TypeOK, NEW old, NEW s \in Unfinished \cup {"completed", "cancelled"}, jobs' = Restate(old, s)
  PROVE  Restated(old, s)
<1>1. Len(jobs) \in Nat /\ DOMAIN jobs = 1..Len(jobs) /\ \A j \in DOMAIN jobs : jobs[j] \in Job
  BY Rows
<1>2. \A j \in DOMAIN jobs : /\ jobs'[j] \in Job /\ jobs'[j].man = jobs[j].man
                             /\ jobs'[j].status = IF jobs[j].status \in old THEN s ELSE jobs[j].status
  BY <1>1 DEF Job, Restate
<1>3. jobs' \in [1..Len(jobs) -> Job]
  BY <1>1, <1>2 DEF Restate
<1>4. jobs' \in Seq(Job) /\ Len(jobs') = Len(jobs)
  BY <1>1, <1>3, FunctionIsSeq
<1> QED
  BY <1>2, <1>4 DEF SameJobs, Restated

\* A new job comes after the others.
LEMMA BuiltJob ==
  ASSUME TypeOK, BuildJob
  PROVE  /\ jobs' \in Seq(Job) /\ Len(jobs') = Len(jobs) + 1 /\ Len(jobs') <= MaxJobs
         /\ \A j \in DOMAIN jobs : jobs'[j] = jobs[j]
         /\ jobs'[Len(jobs) + 1].status = "queued" /\ DOMAIN jobs'[Len(jobs) + 1].man = Pending
         /\ Pending \in SUBSET Keys
<1> DEFINE x == [status |-> "queued", man |-> [k \in Pending |-> entry[k].version]]
<1>1. jobs \in Seq(Job) /\ DOMAIN jobs = 1..Len(jobs) /\ Len(jobs) \in Nat /\ Len(jobs) < MaxJobs
  BY Rows DEF BuildJob
<1>2. Pending # {} /\ Pending \in SUBSET Keys /\ \A k \in Pending : entry[k].version \in Versions
  <2>1. \A k \in Keys : entry[k].version \in 0..MaxVersion /\ entry[k].synced \in 0..MaxVersion
    BY Rows DEF EntryRow
  <2> QED
    BY <2>1 DEF BuildJob, Pending, Wanted, Versions
<1>3. x \in Job
  BY <1>2 DEF Job, Manifests, Unfinished
<1>4. jobs' = Append(jobs, x)
  BY DEF BuildJob
<1>5. x.status = "queued" /\ DOMAIN x.man = Pending
  OBVIOUS
<1> HIDE DEF x
<1>6. /\ jobs' \in Seq(Job) /\ Len(jobs') = Len(jobs) + 1
      /\ \A i \in 1..Len(jobs) : jobs'[i] = jobs[i]
      /\ jobs'[Len(jobs) + 1] = x
  BY <1>1, <1>3, <1>4, AppendProperties
<1> QED
  BY <1>1, <1>2, <1>5, <1>6

\* Types from the changed rows.
LEMMA TypedAgain ==
  ASSUME TypeOK, jobs' \in Seq(Job), Len(jobs') \in Len(jobs)..MaxJobs,
         entry' \in [Keys -> EntryRow], capturing' \subseteq Keys, blobs' \subseteq Digests,
         conn' \in ConnRow, lastTarget' \in Targets \cup {NoTarget},
         worker' \in WorkerRow(Len(jobs')), remote' \in [Targets -> [Keys -> {"none", "live", "trash", "removed"}]],
         stored' \in [Targets -> SUBSET Digests], inbox' \in [Targets -> [JobIds -> InboxRow]],
         commits' \in [Targets -> SUBSET CommitRow(Len(jobs'))], troubles' \in 0..MaxTroubles
  PROVE  TypeOK'
<1>1. Len(jobs) \in 0..MaxJobs
  BY Rows
<1> QED
  BY <1>1 DEF TypeOK, Job, EntryRow, ConnRow, WorkerRow, InboxRow, CommitRow

LEMMA WorkerRows ==
  ASSUME TypeOK, NEW n \in Nat, Len(jobs) <= n
  PROVE  /\ NoWorker \in WorkerRow(n) /\ Between \in WorkerRow(n) /\ worker \in WorkerRow(n)
         /\ \A j \in 1..n : Sending(j) \in WorkerRow(n)
<1>1. worker \in WorkerRow(Len(jobs)) /\ conn.to \in Targets \cup {NoTarget} /\ Len(jobs) \in Nat
  BY Rows DEF ConnRow
<1> QED
  BY <1>1 DEF NoWorker, Between, Sending, WorkerRow, Calling

LEMMA ArchiveTyped ==
  ASSUME TypeOK, Capturing, NEW k \in Keys, ArchiveStep(k)
  PROVE  /\ TypeOK' /\ Capturing'
         /\ jobs' = jobs /\ worker' = worker /\ lastTarget' = lastTarget /\ UNCHANGED server
         /\ \A o \in Keys : entry'[o].synced = entry[o].synced
         /\ conn'.to = conn.to /\ conn'.confirmed = conn.confirmed /\ conn'.leaving = conn.leaving
<1>1. /\ jobs' = jobs /\ worker' = worker /\ lastTarget' = lastTarget /\ UNCHANGED server /\ troubles' = troubles
      /\ conn' = conn \/ conn' = [conn EXCEPT !.fresh = @ \cup {k}]
  BY DEF ArchiveStep, CaptureFile, CaptureEntry, Trash, Restore, Purge
<1>2. entry[k] \in EntryRow /\ conn \in ConnRow /\ Len(jobs) \in 0..MaxJobs /\ entry \in [Keys -> EntryRow]
  BY Rows
<1>3. conn' \in ConnRow /\ conn'.to = conn.to /\ conn'.confirmed = conn.confirmed /\ conn'.leaving = conn.leaving
  BY <1>1, <1>2 DEF ConnRow
<1>4. /\ capturing' \subseteq Keys /\ blobs' \subseteq Digests
  BY DEF ArchiveStep, CaptureFile, CaptureEntry, Trash, Restore, Purge, TypeOK
<1>5. PICK x \in EntryRow :
        /\ entry' = [entry EXCEPT ![k] = x] /\ x.synced = entry[k].synced
        /\ x.version = entry[k].version \/ (k \notin capturing' /\ capturing' \subseteq capturing)
  <2>1. CASE CaptureFile(k)
    <3>1. entry' = [entry EXCEPT ![k] = entry[k]]
      BY <1>2, <2>1 DEF CaptureFile
    <3> QED
      BY <1>2, <3>1
  <2>2. CASE CaptureEntry(k)
    <3> DEFINE x == [entry[k] EXCEPT !.version = @ + 1, !.at = IF entry[k].at = "none" THEN "live" ELSE @]
    <3>1. entry[k].version < MaxVersion /\ k \notin capturing' /\ capturing' \subseteq capturing
      BY <2>2 DEF CaptureEntry, Capturing
    <3>2. CASE entry[k].at = "removed"
      <4>1. entry' = [entry EXCEPT ![k] = entry[k]]
        BY <1>2, <2>2, <3>2 DEF CaptureEntry
      <4> QED
        BY <1>2, <4>1
    <3>3. CASE entry[k].at # "removed"
      <4>1. entry' = [entry EXCEPT ![k] = x]
        BY <1>2, <2>2, <3>3 DEF CaptureEntry
      <4>2. entry[k].version + 1 \in 0..MaxVersion
        BY <1>2, <3>1 DEF EntryRow
      <4>3. x \in EntryRow /\ x.synced = entry[k].synced
        BY <1>2, <4>2 DEF EntryRow
      <4> HIDE DEF x
      <4> QED
        BY <3>1, <4>1, <4>3
    <3> QED
      BY <3>2, <3>3
  <2>3. ASSUME NEW place \in {"live", "trash", "removed"}, entry' = [entry EXCEPT ![k].at = place]
        PROVE  \E x \in EntryRow :
                 /\ entry' = [entry EXCEPT ![k] = x] /\ x.synced = entry[k].synced
                 /\ x.version = entry[k].version
    <3> DEFINE x == [entry[k] EXCEPT !.at = place]
    <3>1. x \in EntryRow /\ x.synced = entry[k].synced /\ x.version = entry[k].version
      BY <1>2 DEF EntryRow
    <3>2. entry' = [entry EXCEPT ![k] = x]
      BY <2>3
    <3> HIDE DEF x
    <3> QED
      BY <3>1, <3>2
  <2>4. CASE Trash(k) \/ Restore(k) \/ Purge(k)
    <3>1. \E place \in {"live", "trash", "removed"} : entry' = [entry EXCEPT ![k].at = place]
      BY <2>4 DEF Trash, Restore, Purge
    <3> QED
      BY <2>3, <3>1
  <2> QED
    BY <2>1, <2>2, <2>4 DEF ArchiveStep
<1>6. entry' \in [Keys -> EntryRow] /\ \A o \in Keys : entry'[o].synced = entry[o].synced
  BY <1>2, <1>5
<1>7. Capturing'
  <2>1. capturing' \subseteq capturing \cup {k} /\ (k \in capturing' => entry[k].version < MaxVersion)
    BY DEF ArchiveStep, CaptureFile, CaptureEntry, Trash, Restore, Purge, Capturing
  <2> QED
    BY <1>2, <1>4, <1>5, <2>1 DEF Capturing
<1> QED
  BY <1>1, <1>2, <1>3, <1>4, <1>6, <1>7, TypedAgain, Rows DEF TypeOK, server

LEMMA SameJobsKept ==
  ASSUME TypeOK, jobs' = jobs
  PROVE  SameJobs /\ Open' = Open
<1> QED
  BY Rows DEF SameJobs, Open

\* What becomes of the jobs when one is saved that is open.
LEMMA OpenJobSaved ==
  ASSUME TypeOK, NEW j \in Open, NEW s \in Unfinished \cup {"completed"}, SaveJob(j, s)
  PROVE  /\ SameJobs /\ Open' \subseteq Open /\ Len(jobs') \in Len(jobs)..MaxJobs
         /\ (s \in Unfinished => Open' = Open)
<1>1. j \in DOMAIN jobs /\ Len(jobs) \in 0..MaxJobs /\ DOMAIN jobs = 1..Len(jobs)
  BY Rows DEF Open
<1>2. /\ SameJobs /\ jobs'[j].status = s
      /\ \A i \in DOMAIN jobs : i # j => jobs'[i] = jobs[i]
  BY <1>1, SavedJob
<1>3. DOMAIN jobs' = 1..Len(jobs)
  BY <1>2, LenProperties DEF SameJobs
<1> QED
  BY <1>1, <1>2, <1>3 DEF SameJobs, Open

LEMMA PairingMoves ==
  ASSUME NoLateStart, TypeOK, Capturing, WorkerConnected, Pairing \/ Disconnected \/ EnsureWorker
  PROVE  /\ TypeOK' /\ Capturing' /\ WorkerConnected'
         /\ SameJobs /\ Open' \subseteq Open /\ UNCHANGED server
         /\ (entry' = entry /\ lastTarget' = lastTarget) \/ SelectSyncTarget(conn.to)
<1>1. /\ conn \in ConnRow /\ Len(jobs) \in 0..MaxJobs /\ DOMAIN jobs = 1..Len(jobs) /\ entry \in [Keys -> EntryRow]
      /\ jobs \in Seq(Job) /\ worker \in WorkerRow(Len(jobs))
  BY Rows
<1>2. /\ NoWorker.at = "none" /\ Between.at = "pick" /\ "pick" \notin Calling /\ "none" \notin Calling
      /\ Started \in {worker, Between} /\ (Started = worker => worker.at # "none")
  BY DEF NoWorker, Between, Calling, Started
<1>3. /\ NoWorker \in WorkerRow(Len(jobs)) /\ Between \in WorkerRow(Len(jobs)) /\ worker \in WorkerRow(Len(jobs))
      /\ Started \in WorkerRow(Len(jobs))
  BY <1>1, <1>2, WorkerRows
<1>4. \A t \in Targets \cup {NoTarget} :
         [to |-> t, confirmed |-> FALSE, auto |-> FALSE, fresh |-> {}, leaving |-> FALSE] \in ConnRow
  BY DEF ConnRow
<1>5. UNCHANGED server /\ capturing' = capturing /\ blobs' = blobs
  BY DEF Pairing, Prepare, Confirm, Start, Disconnect, Disconnected, EnsureWorker, local
<1>6. troubles' \in 0..MaxTroubles
  BY DEF Pairing, Prepare, Confirm, Start, Disconnect, Disconnected, EnsureWorker, Trouble, TypeOK
<1>7. ASSUME jobs' = jobs
      PROVE  SameJobs /\ Open' = Open /\ jobs' \in Seq(Job) /\ Len(jobs') = Len(jobs)
  BY <1>1, <1>7, SameJobsKept
<1>8. ASSUME NEW t \in Targets, Prepare(t)
      PROVE  entry' = entry /\ lastTarget' = lastTarget /\ jobs' = jobs /\ conn' \in ConnRow
             /\ worker' \in WorkerRow(Len(jobs)) /\ WorkerConnected'
  BY <1>2, <1>3, <1>4, <1>7, <1>8 DEF Prepare, WorkerConnected, local
<1>9. ASSUME Disconnected
      PROVE  entry' = entry /\ lastTarget' = lastTarget /\ jobs' = jobs /\ conn' \in ConnRow
             /\ worker' \in WorkerRow(Len(jobs)) /\ WorkerConnected'
  <2>1. worker.at = "none" /\ worker'.at = "none" /\ worker' \in WorkerRow(Len(jobs))
    BY <1>1, <1>9 DEF Disconnected, WorkerConnected, WorkerRow
  <2> QED
    BY <1>2, <1>4, <1>7, <1>9, <2>1 DEF Disconnected, WorkerConnected, local
<1>10. ASSUME EnsureWorker
       PROVE  entry' = entry /\ lastTarget' = lastTarget /\ jobs' = jobs /\ conn' \in ConnRow
              /\ worker' \in WorkerRow(Len(jobs)) /\ WorkerConnected'
  BY <1>1, <1>2, <1>3, <1>7, <1>10 DEF EnsureWorker, Startable, NoLateStart, WorkerConnected, local
<1>11. ASSUME Disconnect
       PROVE  entry' = entry /\ lastTarget' = lastTarget /\ jobs' = jobs /\ conn' \in ConnRow
              /\ worker' \in WorkerRow(Len(jobs)) /\ WorkerConnected'
  <2>1. conn' \in ConnRow /\ conn'.to = conn.to /\ conn'.confirmed /\ conn.confirmed
    BY <1>1, <1>11 DEF Disconnect, ConnRow
  <2> QED
    BY <1>2, <1>3, <1>7, <1>11, <2>1 DEF Disconnect, WorkerConnected, local
<1>12. ASSUME Start
       PROVE  /\ entry' = entry /\ lastTarget' = lastTarget /\ conn' \in ConnRow
              /\ SameJobs /\ Open' = Open /\ worker' \in WorkerRow(Len(jobs)) /\ WorkerConnected'
  <2>1. /\ conn' \in ConnRow /\ conn'.to = conn.to /\ conn'.confirmed = conn.confirmed /\ conn'.leaving = conn.leaving
        /\ conn.confirmed /\ ~conn.leaving
    BY <1>1, <1>12 DEF Start, Startable, NoLateStart, ConnRow
  <2>2. jobs' = Restate({"failed"}, "queued")
    BY <1>12 DEF Start, Restate
  <2>5. Restated({"failed"}, "queued")
    BY <2>2, RestatedJobs DEF Unfinished
  <2>3. /\ SameJobs
        /\ \A j \in DOMAIN jobs : jobs'[j].status = IF jobs[j].status \in {"failed"} THEN "queued" ELSE jobs[j].status
    BY <2>5 DEF Restated
  <2>4. Open' = Open
    BY <2>2, <2>3 DEF Open, Unfinished, Restate
  <2> QED
    BY <1>2, <1>3, <1>12, <2>1, <2>3, <2>4 DEF Start, WorkerConnected, local
<1>13. ASSUME Confirm
       PROVE  /\ entry' \in [Keys -> EntryRow] /\ lastTarget' \in Targets /\ conn' \in ConnRow
              /\ SameJobs /\ Open' \subseteq Open /\ worker' \in WorkerRow(Len(jobs)) /\ WorkerConnected'
              /\ SelectSyncTarget(conn.to) /\ Capturing'
  <2>1. conn.to \in Targets /\ ~conn.confirmed /\ worker.at = "none" /\ ~conn.leaving
    BY <1>1, <1>13 DEF Confirm, ConnRow, WorkerConnected
  <2>2. conn' \in ConnRow /\ conn'.to = conn.to /\ conn'.confirmed /\ ~conn'.leaving /\ lastTarget' = conn.to
    BY <1>1, <1>13, <2>1 DEF Confirm, ConnRow, SelectSyncTarget
  <2>3. SameJobs /\ Open' \subseteq Open
    <3>1. CASE jobs' = jobs
      BY <1>7, <3>1
    <3>2. CASE jobs' = Restate(Unfinished, "cancelled")
      <4>1. Restated(Unfinished, "cancelled")
        BY <3>2, RestatedJobs
      <4>2. DOMAIN jobs' = DOMAIN jobs
        BY <3>2 DEF Restate
      <4> QED
        BY <4>1, <4>2 DEF Open, Unfinished, Restated
    <3> QED
      BY <1>13, <3>1, <3>2 DEF Confirm, SelectSyncTarget, Restate
  <2>4. entry' \in [Keys -> EntryRow] /\ \A k \in Keys : entry'[k].version = entry[k].version
    <3>1. ASSUME NEW k \in Keys
          PROVE  [entry[k] EXCEPT !.synced = 0] \in EntryRow /\ [entry[k] EXCEPT !.synced = 0].version = entry[k].version
      <4>1. entry[k] \in EntryRow /\ 0 \in 0..MaxVersion
        BY <1>1, <3>1
      <4> QED
        BY <4>1 DEF EntryRow
    <3> QED
      BY <1>1, <1>13, <3>1 DEF Confirm, SelectSyncTarget
  <2>5. worker' = Between
    BY <1>13, <2>1 DEF Confirm, Started
  <2>6. Capturing'
    BY <1>5, <2>4 DEF Capturing, TypeOK
  <2> QED
    BY <1>2, <1>3, <1>13, <2>1, <2>2, <2>3, <2>4, <2>5, <2>6 DEF Confirm, WorkerConnected
<1>14. /\ WorkerConnected' /\ SameJobs /\ Open' \subseteq Open /\ Capturing'
       /\ (entry' = entry /\ lastTarget' = lastTarget) \/ SelectSyncTarget(conn.to)
       /\ entry' \in [Keys -> EntryRow] /\ lastTarget' \in Targets \cup {NoTarget} /\ conn' \in ConnRow
       /\ worker' \in WorkerRow(Len(jobs))
  <2>1. ASSUME entry' = entry PROVE Capturing'
    BY <1>5, <2>1 DEF Capturing
  <2>2. lastTarget \in Targets \cup {NoTarget}
    BY DEF TypeOK
  <2> QED
    BY <1>1, <1>7, <1>8, <1>9, <1>10, <1>11, <1>12, <1>13, <2>1, <2>2 DEF Pairing
<1>15. jobs' \in Seq(Job) /\ Len(jobs') = Len(jobs)
  BY <1>14 DEF SameJobs
<1>16. TypeOK'
  BY <1>1, <1>5, <1>6, <1>14, <1>15, TypedAgain, Rows DEF TypeOK, server
<1> QED
  BY <1>5, <1>14, <1>16
-------------------------------------------------------------------------------
(* The task and its calls *)

\* What a step of the task does to jobs and itself.
WorkerGood ==
    /\ SameJobs /\ Open' \subseteq Open /\ Len(jobs') \in Len(jobs)..MaxJobs
    /\ worker' \in WorkerRow(Len(jobs')) /\ WorkerConnected'

\* Work ends: the job is saved, and the task is between two jobs or gone.
LEMMA WorkEnds ==
  ASSUME TypeOK, WorkerConnected, worker.at \in Calling, UNCHANGED <<conn, lastTarget>>,
         worker' \in {Between, NoWorker},
         jobs' = jobs \/ \E s \in Unfinished \cup {"completed"} : SaveJob(worker.job, s)
  PROVE  WorkerGood
<1>1. /\ Between.at = "pick" /\ NoWorker.at = "none" /\ "pick" \notin Calling /\ "none" \notin Calling
      /\ worker.at # "none" /\ worker.job \in Open
  BY DEF NoWorker, Between, Calling, WorkerConnected
<1>2. SameJobs /\ Open' \subseteq Open /\ Len(jobs') \in Len(jobs)..MaxJobs
  <2>1. CASE jobs' = jobs
    BY <2>1, SameJobsKept, Rows
  <2>2. ASSUME NEW s \in Unfinished \cup {"completed"}, SaveJob(worker.job, s)
        PROVE  SameJobs /\ Open' \subseteq Open /\ Len(jobs') \in Len(jobs)..MaxJobs
    BY <1>1, <2>2, OpenJobSaved
  <2> QED
    BY <2>1, <2>2
<1>3. NoWorker \in WorkerRow(Len(jobs')) /\ Between \in WorkerRow(Len(jobs'))
  BY <1>2, WorkerRows, Rows DEF SameJobs
<1> QED
  BY <1>1, <1>2, <1>3 DEF WorkerGood, WorkerConnected

LEMMA Fails ==
  ASSUME TypeOK, WorkerConnected, worker.at \in Calling, UNCHANGED <<conn, lastTarget>>, Failed
  PROVE  WorkerGood
<1>1. "failed" \in Unfinished \cup {"completed"}
  BY DEF Unfinished
<1> QED
  BY <1>1, WorkEnds DEF Failed

\* Work goes on, on the same job and to the same server.
LEMMA WorkGoesOn ==
  ASSUME TypeOK, WorkerConnected, worker.at \in Calling, UNCHANGED <<conn, lastTarget>>,
         NEW at \in Calling, NEW todo \in SUBSET Digests, NEW sent \in SUBSET Digests,
         worker' = [worker EXCEPT !.at = at, !.todo = todo, !.sent = sent],
         jobs' = jobs \/ SaveJob(worker.job, "uploading")
  PROVE  WorkerGood
<1>1. worker.at # "none" /\ worker.job \in Open /\ worker \in WorkerRow(Len(jobs)) /\ at # "none"
  BY Rows DEF Calling, WorkerConnected
<1>2. SameJobs /\ Open' = Open /\ Len(jobs') \in Len(jobs)..MaxJobs /\ Len(jobs') = Len(jobs)
  <2>1. CASE jobs' = jobs
    BY <2>1, SameJobsKept, Rows
  <2>2. CASE SaveJob(worker.job, "uploading")
    BY <1>1, <2>2, OpenJobSaved DEF Unfinished, SameJobs
  <2> QED
    BY <2>1, <2>2
<1>3. worker' \in WorkerRow(Len(jobs)) /\ worker'.at = at /\ worker'.job = worker.job /\ worker'.to = worker.to
  BY <1>1 DEF WorkerRow
<1> QED
  BY <1>1, <1>2, <1>3 DEF WorkerGood, WorkerConnected

\* The receiver's row of a batch gets another value.
BoxIs(t, j, row) ==
    /\ inbox' \in [Targets -> [JobIds -> InboxRow]] /\ inbox'[t][j] = row
    /\ \A u \in Targets, i \in JobIds : u # t \/ i # j => inbox'[u][i] = inbox[u][i]

LEMMA BoxSet ==
  ASSUME TypeOK, NEW t \in Targets, NEW j \in JobIds, NEW row \in InboxRow,
         inbox' = [inbox EXCEPT ![t][j] = row]
  PROVE  BoxIs(t, j, row)
<1>1. inbox \in [Targets -> [JobIds -> InboxRow]]
  BY Rows
<1>2. [inbox[t] EXCEPT ![j] = row] \in [JobIds -> InboxRow]
  BY <1>1
<1> QED
  BY <1>1, <1>2 DEF BoxIs

\* What the server has of batches that are completed.
SameCompleted ==
    \A t \in Targets, j \in JobIds : inbox'[t][j].status = "completed" <=> inbox[t][j].status = "completed"

\* One row of a batch's uploads changes.
LEMMA RowSet ==
  ASSUME TypeOK, worker.to \in Targets, worker.job \in JobIds, NEW d \in Digests,
         NEW state \in {"none", "empty", "full", "taken"}, inbox' = WithRow(d, state)
  PROVE  inbox' \in [Targets -> [JobIds -> InboxRow]] /\ SameCompleted
<1> DEFINE row == [box EXCEPT !.rows[d] = state]
<1>1. box \in InboxRow
  BY Rows DEF box, t0
<1>2. row \in InboxRow /\ row.status = box.status
  BY <1>1 DEF InboxRow
<1>3. inbox' = [inbox EXCEPT ![worker.to][worker.job] = row]
  BY Rows DEF WithRow, t0, box
<1> HIDE DEF row
<1>4. BoxIs(worker.to, worker.job, row)
  BY <1>2, <1>3, BoxSet
<1> QED
  BY <1>2, <1>4 DEF SameCompleted, box, t0, BoxIs

\* An announcement is not a completion.
LEMMA AnnouncedRow ==
  ASSUME TypeOK, NEW t \in Targets, NEW j \in JobIds
  PROVE  /\ Announced(t, j) \in InboxRow
         /\ Announced(t, j).status = "completed" <=> inbox[t][j].status = "completed"
<1>1. inbox[t][j] \in InboxRow
  BY Rows
<1> QED
  BY <1>1 DEF Announced, InboxRow
\* What a step may do to what the servers have.
PlacesKept == \A t \in Targets, k \in Keys : remote[t][k] # "none" => remote'[t][k] # "none"

Completions ==
    \A t \in Targets, j \in JobIds :
         /\ inbox[t][j].status = "completed" => inbox'[t][j].status = "completed"
         /\ inbox'[t][j].status = "completed" =>
              inbox[t][j].status = "completed" \/ \E c \in commits[t] : c.job = j /\ c.todo = {}

CommitsGood ==
    \A t \in Targets : \A c \in commits'[t] :
         \/ c \in commits[t]
         \/ c.job \in DOMAIN jobs /\ c.todo = Sent(c.job)
         \/ \E d \in commits[t], k \in Keys : c.job = d.job /\ c.todo = d.todo \ {k} /\ remote'[t][k] # "none"

ServersGood == PlacesKept /\ Completions /\ CommitsGood

LEMMA ServersSame ==
  ASSUME UNCHANGED <<remote, commits>>, inbox' = inbox \/ SameCompleted
  PROVE  ServersGood
<1> QED
  BY DEF ServersGood, PlacesKept, Completions, CommitsGood, SameCompleted

StepGood ==
    /\ TypeOK' /\ Capturing' /\ WorkerConnected' /\ ServersGood
    /\ Len(jobs) <= Len(jobs') /\ \A j \in DOMAIN jobs : jobs'[j].man = jobs[j].man
    /\ (Open' \subseteq Open /\ Len(jobs') = Len(jobs)) \/ BuildJob

\* A step of the task that only changes rows of the device's job table, of
\* uploads and of files on the server.
LEMMA WorkerGoodSteps ==
  ASSUME TypeOK, Capturing, WorkerGood, UNCHANGED <<local, conn, lastTarget, remote, commits>>,
         inbox' = inbox \/ (inbox' \in [Targets -> [JobIds -> InboxRow]] /\ SameCompleted),
         stored' \in [Targets -> SUBSET Digests],
         troubles' = troubles \/ Trouble
  PROVE  StepGood
<1>1. /\ Len(jobs) \in 0..MaxJobs /\ entry \in [Keys -> EntryRow] /\ conn \in ConnRow
      /\ inbox \in [Targets -> [JobIds -> InboxRow]] /\ commits \in [Targets -> SUBSET CommitRow(Len(jobs))]
  BY Rows
<1>2. jobs' \in Seq(Job) /\ Len(jobs') = Len(jobs) /\ worker' \in WorkerRow(Len(jobs'))
  BY DEF WorkerGood, SameJobs
<1>3. inbox' \in [Targets -> [JobIds -> InboxRow]]
  BY <1>1
<1>4. troubles' \in 0..MaxTroubles
  BY DEF Trouble, TypeOK
<1>5. TypeOK'
  BY <1>1, <1>2, <1>3, <1>4, TypedAgain DEF TypeOK, local
<1>6. Capturing'
  BY DEF Capturing, local
<1> QED
  BY <1>1, <1>2, <1>5, <1>6, ServersSame DEF StepGood, WorkerGood, SameJobs

LEMMA TakeGood ==
  ASSUME TypeOK, Capturing, WorkerConnected, \E j \in DOMAIN jobs : TakeJob(j)
  PROVE  StepGood
<1>1. PICK j \in DOMAIN jobs : TakeJob(j)
  OBVIOUS
<1>2. /\ worker.at = "pick" /\ j \in Open /\ worker' = Sending(j) /\ jobs' = jobs
      /\ UNCHANGED <<local, conn, lastTarget, remote, stored, inbox, commits, troubles>>
  BY <1>1 DEF TakeJob, server
<1>3. Len(jobs) \in 0..MaxJobs /\ DOMAIN jobs = 1..Len(jobs) /\ stored \in [Targets -> SUBSET Digests]
  BY Rows DEF TypeOK
<1>4. SameJobs /\ Open' = Open
  BY <1>2, SameJobsKept
<1>5. Sending(j) \in WorkerRow(Len(jobs))
  BY <1>3, WorkerRows
<1>6. Sending(j).at = "begin" /\ Sending(j).job = j /\ Sending(j).to \in {conn.to, NoTarget}
  BY DEF Sending
<1>7. WorkerConnected'
  BY <1>2, <1>4, <1>6 DEF WorkerConnected, Calling
<1>8. WorkerGood
  BY <1>2, <1>3, <1>4, <1>5, <1>7 DEF WorkerGood
<1> QED
  BY <1>2, <1>3, <1>8, WorkerGoodSteps

LEMMA BuildGood ==
  ASSUME TypeOK, Capturing, WorkerConnected, BuildJob
  PROVE  StepGood
<1>1. /\ jobs' \in Seq(Job) /\ Len(jobs') = Len(jobs) + 1 /\ Len(jobs') <= MaxJobs
      /\ \A j \in DOMAIN jobs : jobs'[j] = jobs[j]
      /\ jobs'[Len(jobs) + 1].status = "queued"
  BY BuiltJob
<1>2. /\ worker.at = "pick" /\ worker' = Sending(Len(jobs) + 1)
      /\ UNCHANGED <<local, conn, lastTarget, remote, stored, inbox, commits, troubles>>
  BY DEF BuildJob, server
<1>3. Len(jobs) \in 0..MaxJobs /\ DOMAIN jobs = 1..Len(jobs) /\ DOMAIN jobs' = 1..Len(jobs')
  BY <1>1, Rows, LenProperties
<1>4. Sending(Len(jobs) + 1) \in WorkerRow(Len(jobs'))
  <2>1. Len(jobs) + 1 \in 1..Len(jobs') /\ Len(jobs') \in Nat /\ Len(jobs) <= Len(jobs')
    BY <1>1, <1>3
  <2> QED
    BY <2>1, WorkerRows
<1>5. /\ Sending(Len(jobs) + 1).at = "begin" /\ Sending(Len(jobs) + 1).job = Len(jobs) + 1
      /\ Sending(Len(jobs) + 1).to \in {conn.to, NoTarget}
  BY DEF Sending
<1>6. Len(jobs) + 1 \in Open'
  BY <1>1, <1>3 DEF Open, Unfinished
<1>7. WorkerConnected'
  BY <1>2, <1>5, <1>6 DEF WorkerConnected, Calling
<1>8. TypeOK'
  <2>1. commits' \in [Targets -> SUBSET CommitRow(Len(jobs'))]
    <3>1. CommitRow(Len(jobs)) \subseteq CommitRow(Len(jobs'))
      BY <1>1, <1>3 DEF CommitRow
    <3> QED
      BY <1>2, <3>1, Rows
  <2> QED
    BY <1>1, <1>2, <1>3, <1>4, <2>1, TypedAgain, Rows DEF TypeOK, local
<1>9. Capturing'
  BY <1>2 DEF Capturing, local
<1> QED
  BY <1>1, <1>2, <1>3, <1>7, <1>8, <1>9, ServersSame DEF StepGood

LEMMA FailingGood ==
  ASSUME TypeOK, Capturing, WorkerConnected,
         \/ CallFails \/ CommitRefused \/ NoReceipt
         \/ \E d \in Digests : UploadMissing(d) \/ FileGone(d)
  PROVE  StepGood
<1>1. /\ worker.at \in Calling /\ UNCHANGED <<local, conn, lastTarget, remote, stored, inbox, commits>>
      /\ troubles' = troubles \/ Trouble
      /\ Failed \/ (worker' = NoWorker /\ jobs' = jobs)
  BY DEF CallFails, CommitRefused, NoReceipt, UploadMissing, FileGone, server, Calling
<1>2. WorkerGood
  BY <1>1, Fails, WorkEnds
<1> QED
  BY <1>1, <1>2, WorkerGoodSteps DEF TypeOK

\* Whom the task is calling.
LEMMA Callee ==
  ASSUME TypeOK, WorkerConnected, worker.at \in Calling, t0 # NoTarget
  PROVE  /\ worker.to \in Targets /\ worker.job \in JobIds /\ worker.job \in DOMAIN jobs
         /\ worker.todo \in SUBSET Digests /\ worker.sent \in SUBSET Digests /\ worker.to = lastTarget
<1>1. worker \in WorkerRow(Len(jobs)) /\ worker.job \in Open /\ worker.to # NoTarget
  BY Rows DEF WorkerConnected, t0
<1> QED
  BY <1>1, Rows DEF WorkerRow, Open, WorkerConnected

LEMMA BeginGood ==
  ASSUME TypeOK, Capturing, WorkerConnected, Begin
  PROVE  StepGood
<1>1. /\ worker.at \in Calling /\ t0 # NoTarget
      /\ UNCHANGED <<local, conn, lastTarget, remote, stored, commits>>
      /\ inbox' = [inbox EXCEPT ![worker.to][worker.job] = Announced(worker.to, worker.job)]
  BY DEF Begin, Calling, t0
<1>2. worker.to \in Targets /\ worker.job \in JobIds /\ worker.sent \in SUBSET Digests
  BY <1>1, Callee
<1>3. inbox' \in [Targets -> [JobIds -> InboxRow]] /\ SameCompleted
  <2>1. Announced(worker.to, worker.job) \in InboxRow
    BY <1>2, AnnouncedRow
  <2>2. BoxIs(worker.to, worker.job, Announced(worker.to, worker.job))
    BY <1>1, <1>2, <2>1, BoxSet
  <2>3. Announced(worker.to, worker.job).status = "completed" <=> inbox[worker.to][worker.job].status = "completed"
    BY <1>2, AnnouncedRow
  <2> QED
    BY <2>2, <2>3 DEF BoxIs, SameCompleted
<1>4. WorkerGood /\ (troubles' = troubles \/ Trouble)
  <2> DEFINE rows == {d \in Digests : inbox'[t0][worker.job].rows[d] # "none"}
  <2>1. CASE worker' = [worker EXCEPT !.at = "upload", !.todo = rows] /\ UNCHANGED <<jobs, troubles>>
    <3>1. rows \in SUBSET Digests /\ "upload" \in Calling
      BY DEF Calling
    <3> HIDE DEF rows
    <3>2. worker' = [worker EXCEPT !.at = "upload", !.todo = rows, !.sent = worker.sent]
      BY <2>1, Rows DEF WorkerRow
    <3> QED
      BY <1>1, <1>2, <2>1, <3>1, <3>2, WorkGoesOn
  <2>2. CASE Unanswered
    BY <1>1, <2>2, Fails DEF Unanswered
  <2> QED
    BY <2>1, <2>2 DEF Begin
<1> QED
  BY <1>1, <1>3, <1>4, WorkerGoodSteps DEF TypeOK

LEMMA UploadGood ==
  ASSUME TypeOK, Capturing, WorkerConnected, NEW d \in Digests, SendChunk(d) \/ Finish(d)
  PROVE  StepGood
<1>1. /\ worker.at \in Calling /\ worker.at = "upload" /\ t0 # NoTarget
      /\ UNCHANGED <<local, conn, lastTarget, remote, commits>>
      /\ inbox' = inbox \/ \E state \in {"full", "taken"} : inbox' = WithRow(d, state)
  BY DEF SendChunk, Finish, Calling
<1>2. /\ worker.to \in Targets /\ worker.job \in JobIds
      /\ worker.todo \in SUBSET Digests /\ worker.sent \in SUBSET Digests
  BY <1>1, Callee
<1>3. inbox' = inbox \/ (inbox' \in [Targets -> [JobIds -> InboxRow]] /\ SameCompleted)
  BY <1>1, <1>2, RowSet
<1>4. stored' \in [Targets -> SUBSET Digests]
  <2>1. stored' = stored \/ stored' = [stored EXCEPT ![worker.to] = @ \cup {d}]
    BY DEF SendChunk, Finish, t0
  <2>2. stored \in [Targets -> SUBSET Digests]
    BY DEF TypeOK
  <2> QED
    BY <1>2, <2>1, <2>2
<1>5. \/ Unanswered
      \/ \E todo \in SUBSET Digests, sent \in SUBSET Digests :
           /\ worker' = [worker EXCEPT !.at = "upload", !.todo = todo, !.sent = sent]
           /\ troubles' = troubles
           /\ jobs' = jobs \/ SaveJob(worker.job, "uploading")
  <2>1. CASE SendChunk(d)
    <3>1. worker' = [worker EXCEPT !.todo = worker.todo \ {d}, !.sent = worker.sent \cup {d}] =>
          worker' = [worker EXCEPT !.at = "upload", !.todo = worker.todo \ {d}, !.sent = worker.sent \cup {d}]
      BY <1>1, Rows DEF WorkerRow
    <3>2. worker.todo \ {d} \in SUBSET Digests /\ worker.sent \cup {d} \in SUBSET Digests
      BY <1>2
    <3>3. \/ Unanswered
          \/ /\ worker' = [worker EXCEPT !.todo = worker.todo \ {d}, !.sent = worker.sent \cup {d}]
             /\ UNCHANGED <<jobs, troubles>>
      BY <2>1 DEF SendChunk
    <3> QED
      BY <3>1, <3>2, <3>3
  <2>2. CASE Finish(d)
    <3>1. worker' = [worker EXCEPT !.sent = worker.sent \ {d}] =>
          worker' = [worker EXCEPT !.at = "upload", !.todo = worker.todo, !.sent = worker.sent \ {d}]
      BY <1>1, Rows DEF WorkerRow
    <3> QED
      BY <1>2, <2>2, <3>1 DEF Finish
  <2> QED
    BY <2>1, <2>2
<1>6. WorkerGood /\ (troubles' = troubles \/ Trouble)
  <2>1. CASE Unanswered
    BY <1>1, <2>1, Fails DEF Unanswered
  <2>2. ASSUME NEW todo \in SUBSET Digests, NEW sent \in SUBSET Digests,
               worker' = [worker EXCEPT !.at = "upload", !.todo = todo, !.sent = sent],
               jobs' = jobs \/ SaveJob(worker.job, "uploading")
        PROVE  WorkerGood
    BY <1>1, <2>2, WorkGoesOn
  <2> QED
    BY <1>5, <2>1, <2>2
<1> QED
  BY <1>1, <1>3, <1>4, <1>6, WorkerGoodSteps

LEMMA UploadedGood ==
  ASSUME TypeOK, Capturing, WorkerConnected, Uploaded
  PROVE  StepGood
<1>1. /\ worker.at \in Calling /\ jobs' = jobs
      /\ UNCHANGED <<local, conn, lastTarget, remote, stored, inbox, commits, troubles>>
      /\ "commit" \in Calling
  BY DEF Uploaded, Calling, server
<1>2. worker.todo \in SUBSET Digests /\ worker.sent \in SUBSET Digests
  BY Rows DEF WorkerRow
<1>3. worker' = [worker EXCEPT !.at = "commit", !.todo = worker.todo, !.sent = worker.sent]
  BY Rows DEF Uploaded, WorkerRow
<1>4. WorkerGood
  BY <1>1, <1>2, <1>3, WorkGoesOn
<1> QED
  BY <1>1, <1>4, WorkerGoodSteps DEF TypeOK
\* The calls at work on one server get another one, or lose one.
CommitsAre(t, S) ==
    commits' \in [Targets -> SUBSET CommitRow(Len(jobs))] /\ commits'[t] = S
    /\ \A u \in Targets : u # t => commits'[u] = commits[u]

LEMMA CommitsSet ==
  ASSUME TypeOK, NEW t \in Targets, NEW S \in SUBSET CommitRow(Len(jobs)), commits' = [commits EXCEPT ![t] = S]
  PROVE  CommitsAre(t, S)
<1> QED
  BY Rows DEF CommitsAre

LEMMA CommitStartGood ==
  ASSUME TypeOK, Capturing, WorkerConnected, CommitStart
  PROVE  StepGood
<1> DEFINE c == [job |-> worker.job, todo |-> Sent(worker.job)]
<1>1. /\ worker.at \in Calling /\ t0 # NoTarget /\ "answer" \in Calling
      /\ UNCHANGED <<local, conn, lastTarget, remote, stored, inbox>>
  BY DEF CommitStart, Calling
<1>2. /\ worker.to \in Targets /\ worker.job \in JobIds /\ worker.job \in DOMAIN jobs
      /\ worker.todo \in SUBSET Digests /\ worker.sent \in SUBSET Digests
  BY <1>1, Callee
<1>3. commits \in [Targets -> SUBSET CommitRow(Len(jobs))] /\ Len(jobs) \in 0..MaxJobs /\ DOMAIN jobs = 1..Len(jobs)
  BY Rows
<1>4. Sent(worker.job) \in SUBSET Keys
  BY <1>2, Rows
<1>5. c \in CommitRow(Len(jobs)) /\ c.job = worker.job /\ c.todo = Sent(worker.job)
  BY <1>2, <1>3, <1>4 DEF CommitRow
<1>6. commits' = commits \/ commits' = [commits EXCEPT ![worker.to] = commits[worker.to] \cup {c}]
  BY DEF CommitStart, t0
<1> HIDE DEF c
<1>7. /\ commits' \in [Targets -> SUBSET CommitRow(Len(jobs))]
      /\ \A t \in Targets : commits'[t] \subseteq commits[t] \cup {c}
  <2>1. CASE commits' = commits
    BY <1>3, <2>1
  <2>2. CASE commits' = [commits EXCEPT ![worker.to] = commits[worker.to] \cup {c}]
    <3>1. commits[worker.to] \cup {c} \in SUBSET CommitRow(Len(jobs))
      BY <1>2, <1>3, <1>5
    <3>2. CommitsAre(worker.to, commits[worker.to] \cup {c})
      BY <1>2, <2>2, <3>1, CommitsSet
    <3> QED
      BY <3>2 DEF CommitsAre
  <2> QED
    BY <1>6, <2>1, <2>2
<1>8. WorkerGood /\ troubles' \in 0..MaxTroubles
  <2>1. CASE Unanswered
    BY <1>1, <2>1, Fails DEF Unanswered, Trouble, TypeOK
  <2>2. CASE worker' = [worker EXCEPT !.at = "answer"] /\ UNCHANGED <<jobs, troubles>>
    <3>1. worker' = [worker EXCEPT !.at = "answer", !.todo = worker.todo, !.sent = worker.sent]
      BY <2>2, Rows DEF WorkerRow
    <3>2. WorkerGood
      BY <1>1, <1>2, <2>2, <3>1, WorkGoesOn
    <3> QED
      BY <2>2, <3>2 DEF TypeOK
  <2> QED
    BY <2>1, <2>2 DEF CommitStart
<1>9. jobs' \in Seq(Job) /\ Len(jobs') = Len(jobs) /\ worker' \in WorkerRow(Len(jobs'))
  BY <1>8 DEF WorkerGood, SameJobs
<1>10. TypeOK'
  BY <1>1, <1>3, <1>7, <1>8, <1>9, TypedAgain, Rows DEF TypeOK, local
<1>11. Capturing'
  BY <1>1 DEF Capturing, local
<1>12. ServersGood
  BY <1>1, <1>2, <1>5, <1>7 DEF ServersGood, PlacesKept, Completions, CommitsGood
<1> QED
  BY <1>8, <1>9, <1>10, <1>11, <1>12 DEF StepGood, WorkerGood, SameJobs

\* The larger of two numbers.
LEMMA MaxOfTwo ==
  ASSUME NEW a \in Nat, NEW b \in Nat
  PROVE  Max({a, b}) \in {a, b}
<1>1. \E x \in {a, b} : \A y \in {a, b} : x >= y
  OBVIOUS
<1> QED
  BY <1>1 DEF Max

\* What a receipt does to the entries: a version of the batch is synced, or
\* what was.
LEMMA Marked ==
  ASSUME TypeOK, NEW j \in DOMAIN jobs, MarkSynced(j)
  PROVE  /\ entry' \in [Keys -> EntryRow]
         /\ \A k \in Keys : /\ entry'[k].version = entry[k].version
                            /\ \/ entry'[k].synced = entry[k].synced
                               \/ k \in Sent(j) /\ entry'[k].synced = jobs[j].man[k]
<1>1. entry \in [Keys -> EntryRow] /\ jobs[j].man \in [Sent(j) -> Versions]
  BY Rows
<1>2. ASSUME NEW k \in Keys
      PROVE  /\ entry'[k] \in EntryRow /\ entry'[k].version = entry[k].version
             /\ \/ entry'[k].synced = entry[k].synced
                \/ k \in Sent(j) /\ entry'[k].synced = jobs[j].man[k]
  <2>1. CASE k \in Sent(j) /\ entry[k].at \in Present
    <3>1. entry'[k] = [entry[k] EXCEPT !.synced = Max({entry[k].synced, jobs[j].man[k]})]
      BY <2>1 DEF MarkSynced
    <3>2. jobs[j].man[k] \in 0..MaxVersion /\ entry[k] \in EntryRow /\ entry[k].synced \in 0..MaxVersion
      BY <1>1, <2>1 DEF EntryRow, Versions
    <3>3. Max({entry[k].synced, jobs[j].man[k]}) \in {entry[k].synced, jobs[j].man[k]}
      BY <3>2, MaxOfTwo
    <3> QED
      BY <2>1, <3>1, <3>2, <3>3 DEF EntryRow
  <2>2. CASE ~(k \in Sent(j) /\ entry[k].at \in Present)
    BY <1>1, <2>2 DEF MarkSynced
  <2> QED
    BY <2>1, <2>2
<1>3. entry' \in [Keys -> EntryRow]
  BY <1>2 DEF MarkSynced
<1> QED
  BY <1>2, <1>3

LEMMA ReceiptGood ==
  ASSUME TypeOK, Capturing, WorkerConnected, Receipt
  PROVE  StepGood
<1>1. /\ worker.at \in Calling /\ t0 # NoTarget /\ worker' \in {Between, NoWorker}
      /\ UNCHANGED <<capturing, blobs, conn, lastTarget, server, troubles>>
      /\ MarkSynced(worker.job) /\ SaveJob(worker.job, "completed")
  BY DEF Receipt, Calling
<1>2. worker.job \in DOMAIN jobs
  BY <1>1, Callee
<1>3. /\ entry' \in [Keys -> EntryRow]
      /\ \A k \in Keys : entry'[k].version = entry[k].version
  BY <1>1, <1>2, Marked
<1>4. WorkerGood
  BY <1>1, WorkEnds
<1>5. jobs' \in Seq(Job) /\ Len(jobs') = Len(jobs) /\ worker' \in WorkerRow(Len(jobs'))
  BY <1>4 DEF WorkerGood, SameJobs
<1>6. Len(jobs) \in 0..MaxJobs
  BY Rows
<1>7. TypeOK'
  BY <1>1, <1>3, <1>5, <1>6, TypedAgain, Rows DEF TypeOK, server
<1>8. Capturing'
  BY <1>1, <1>3 DEF Capturing, TypeOK
<1>9. ServersGood
  BY <1>1, ServersSame DEF server
<1> QED
  BY <1>4, <1>5, <1>7, <1>8, <1>9 DEF StepGood, WorkerGood, SameJobs

LEMMA WorkerStepGood ==
  ASSUME TypeOK, Capturing, WorkerConnected, WorkerStep
  PROVE  StepGood
<1> QED
  BY TakeGood, BuildGood, FailingGood, BeginGood, UploadGood, UploadedGood, CommitStartGood, ReceiptGood
     DEF WorkerStep
-------------------------------------------------------------------------------
(* The servers, and restarts *)

\* The device does not notice.
LEMMA ElsewhereGood ==
  ASSUME TypeOK, Capturing, WorkerConnected, ServersGood,
         UNCHANGED <<local, conn, lastTarget, jobs, worker>>,
         remote' \in [Targets -> [Keys -> {"none", "live", "trash", "removed"}]],
         stored' \in [Targets -> SUBSET Digests], inbox' \in [Targets -> [JobIds -> InboxRow]],
         commits' \in [Targets -> SUBSET CommitRow(Len(jobs))], troubles' = troubles \/ Trouble
  PROVE  StepGood
<1>1. /\ Len(jobs) \in 0..MaxJobs /\ entry \in [Keys -> EntryRow] /\ conn \in ConnRow
      /\ worker \in WorkerRow(Len(jobs)) /\ jobs \in Seq(Job)
  BY Rows
<1>2. SameJobs /\ Open' = Open
  BY SameJobsKept
<1>3. troubles' \in 0..MaxTroubles
  BY DEF Trouble, TypeOK
<1>4. TypeOK'
  BY <1>1, <1>3, TypedAgain DEF TypeOK, local
<1>5. Capturing' /\ WorkerConnected'
  BY <1>2 DEF Capturing, WorkerConnected, local
<1> QED
  BY <1>1, <1>2, <1>4, <1>5 DEF StepGood, SameJobs

\* One place of an entry changes.
PlaceIs(t, k, place) ==
    /\ remote' \in [Targets -> [Keys -> {"none", "live", "trash", "removed"}]]
    /\ remote'[t][k] = place
    /\ \A u \in Targets, o \in Keys : u # t \/ o # k => remote'[u][o] = remote[u][o]

LEMMA PlaceSet ==
  ASSUME TypeOK, NEW t \in Targets, NEW k \in Keys, NEW place \in {"none", "live", "trash", "removed"},
         remote' = [remote EXCEPT ![t][k] = place]
  PROVE  PlaceIs(t, k, place)
<1>1. remote \in [Targets -> [Keys -> {"none", "live", "trash", "removed"}]]
  BY DEF TypeOK
<1>2. [remote[t] EXCEPT ![k] = place] \in [Keys -> {"none", "live", "trash", "removed"}]
  BY <1>1
<1> QED
  BY <1>1, <1>2 DEF PlaceIs

LEMMA CommitEntryGood ==
  ASSUME TypeOK, Capturing, WorkerConnected, NEW t \in Targets, NEW c \in commits[t], NEW k \in Keys,
         CommitEntry(t, c, k)
  PROVE  StepGood /\ PlaceIs(t, k, PutEntry(remote[t][k]))
<1> DEFINE d == [c EXCEPT !.todo = @ \ {k}]
           S == (commits[t] \ {c}) \cup {d}
<1>1. c \in CommitRow(Len(jobs)) /\ commits[t] \in SUBSET CommitRow(Len(jobs))
  BY Rows
<1>2. d \in CommitRow(Len(jobs)) /\ d.job = c.job /\ d.todo = c.todo \ {k}
  BY <1>1 DEF CommitRow
<1> HIDE DEF d
<1>3. S \in SUBSET CommitRow(Len(jobs))
  BY <1>1, <1>2
<1>4. commits' = [commits EXCEPT ![t] = S]
  BY DEF CommitEntry, d
<1>5. CommitsAre(t, S)
  BY <1>3, <1>4, CommitsSet
<1>6. PutEntry(remote[t][k]) \in {"live", "trash", "removed"}
  BY DEF PutEntry, TypeOK
<1>7. PlaceIs(t, k, PutEntry(remote[t][k]))
  <2>1. remote' = [remote EXCEPT ![t][k] = PutEntry(remote[t][k])]
    BY DEF CommitEntry
  <2> QED
    BY <1>6, <2>1, PlaceSet
<1>8. ServersGood
  <2>1. \A u \in Targets, o \in Keys : remote[u][o] # "none" => remote'[u][o] # "none"
    BY <1>6, <1>7 DEF PlaceIs
  <2>2. inbox' = inbox
    BY DEF CommitEntry
  <2>3. ASSUME NEW u \in Targets, NEW e \in commits'[u]
        PROVE  \/ e \in commits[u]
               \/ \E f \in commits[u], o \in Keys : e.job = f.job /\ e.todo = f.todo \ {o} /\ remote'[u][o] # "none"
    BY <1>2, <1>5, <1>6, <1>7, <2>3 DEF CommitsAre, PlaceIs
  <2> QED
    BY <2>1, <2>2, <2>3 DEF ServersGood, PlacesKept, Completions, CommitsGood
<1>9. StepGood
  BY <1>5, <1>7, <1>8, ElsewhereGood DEF CommitEntry, CommitsAre, PlaceIs, TypeOK, InboxRow
<1> QED
  BY <1>7, <1>9

LEMMA CommitEndGood ==
  ASSUME TypeOK, Capturing, WorkerConnected, NEW t \in Targets, NEW c \in commits[t], CommitEnd(t, c)
  PROVE  StepGood
<1> DEFINE row == [inbox[t][c.job] EXCEPT !.status = "completed"]
<1>1. c \in CommitRow(Len(jobs)) /\ commits[t] \in SUBSET CommitRow(Len(jobs)) /\ Len(jobs) \in 0..MaxJobs
  BY Rows
<1>2. c.job \in JobIds
  BY <1>1 DEF CommitRow, JobIds
<1>3. inbox[t][c.job] \in InboxRow
  BY <1>2, Rows
<1>4. row \in InboxRow
  BY <1>3 DEF InboxRow
<1>5. inbox' = [inbox EXCEPT ![t][c.job] = row]
  BY <1>2, <1>3, Rows DEF CommitEnd, InboxRow
<1> HIDE DEF row
<1>6. BoxIs(t, c.job, row)
  BY <1>2, <1>4, <1>5, BoxSet
<1>7. CommitsAre(t, commits[t] \ {c})
  <2>1. commits[t] \ {c} \in SUBSET CommitRow(Len(jobs))
    BY <1>1
  <2> QED
    BY <2>1, CommitsSet DEF CommitEnd
<1>8. c.todo = {} /\ row.status = "completed" /\ UNCHANGED <<local, conn, lastTarget, jobs, worker, remote, stored, troubles>>
  BY <1>3 DEF CommitEnd, row, InboxRow
<1>9. ServersGood
  BY <1>6, <1>7, <1>8 DEF ServersGood, PlacesKept, Completions, CommitsGood, BoxIs, CommitsAre
<1> QED
  BY <1>6, <1>7, <1>8, <1>9, ElsewhereGood DEF BoxIs, CommitsAre, TypeOK

LEMMA PeopleGood ==
  ASSUME TypeOK, Capturing, WorkerConnected, NEW t \in Targets, NEW k \in Keys,
         ServerTrash(t, k) \/ ServerRestore(t, k) \/ ServerPurge(t, k)
  PROVE  StepGood
<1>1. \E place \in {"live", "trash", "removed"} : remote' = [remote EXCEPT ![t][k] = place]
  BY DEF ServerTrash, ServerRestore, ServerPurge, ServerMove
<1>2. PICK place \in {"live", "trash", "removed"} : PlaceIs(t, k, place)
  BY <1>1, PlaceSet
<1>3. UNCHANGED <<local, conn, lastTarget, jobs, worker, inbox, commits, troubles>>
  BY DEF ServerTrash, ServerRestore, ServerPurge, ServerMove
<1>4. stored' \in [Targets -> SUBSET Digests]
  <2>1. stored \in [Targets -> SUBSET Digests]
    BY DEF TypeOK
  <2>2. stored' = stored \/ stored' = [stored EXCEPT ![t] = stored[t] \ OnlyOf(k, remote[t])]
    BY DEF ServerTrash, ServerRestore, ServerPurge
  <2>3. stored[t] \ OnlyOf(k, remote[t]) \in SUBSET Digests
    BY <2>1
  <2> QED
    BY <2>1, <2>2, <2>3
<1>5. ServersGood
  BY <1>2, <1>3 DEF ServersGood, PlacesKept, Completions, CommitsGood, PlaceIs
<1> QED
  BY <1>2, <1>3, <1>4, <1>5, ElsewhereGood, Rows DEF PlaceIs

LEMMA ExpireGood ==
  ASSUME TypeOK, Capturing, WorkerConnected, NEW t \in Targets, NEW j \in JobIds,
         CleanUp(t, j) \/ CleanUpMidway(t, j)
  PROVE  StepGood
<1>1. /\ inbox[t][j].status = "open" /\ inbox' = [inbox EXCEPT ![t][j] = NoInbox]
      /\ UNCHANGED <<local, conn, lastTarget, jobs, worker, remote, stored, commits>>
      /\ troubles' = troubles \/ Trouble
  BY DEF CleanUp, CleanUpMidway, Expire
<1>2. NoInbox \in InboxRow /\ NoInbox.status = "none"
  BY DEF NoInbox, NoRows, InboxRow
<1>3. BoxIs(t, j, NoInbox)
  BY <1>1, <1>2, BoxSet
<1>4. SameCompleted
  BY <1>1, <1>2, <1>3 DEF SameCompleted, BoxIs
<1>5. ServersGood
  BY <1>1, <1>4, ServersSame
<1> QED
  BY <1>1, <1>3, <1>5, ElsewhereGood, Rows DEF BoxIs, TypeOK

LEMMA RestartServerGood ==
  ASSUME TypeOK, Capturing, WorkerConnected, RestartServer
  PROVE  StepGood
<1>1. PICK t \in Targets : commits' = [commits EXCEPT ![t] = {}]
  BY DEF RestartServer
<1>2. CommitsAre(t, {})
  BY <1>1, CommitsSet
<1>3. ServersGood
  BY <1>2 DEF RestartServer, CommitsAre, ServersGood, PlacesKept, Completions, CommitsGood
<1> QED
  BY <1>2, <1>3, ElsewhereGood, Rows DEF RestartServer, CommitsAre, TypeOK

LEMMA RestartDeviceGood ==
  ASSUME TypeOK, Capturing, WorkerConnected, RestartDevice
  PROVE  StepGood
<1>1. /\ capturing' = {} /\ worker' = NoWorker /\ UNCHANGED <<entry, blobs, lastTarget, jobs, server>>
      /\ conn' = [conn EXCEPT !.leaving = FALSE] /\ troubles' \in 0..MaxTroubles
  BY DEF RestartDevice, Trouble, TypeOK
<1>2. Len(jobs) \in 0..MaxJobs /\ conn \in ConnRow /\ NoWorker \in WorkerRow(Len(jobs)) /\ jobs \in Seq(Job)
  BY Rows, WorkerRows
<1>3. /\ conn' \in ConnRow /\ conn'.to = conn.to /\ conn'.confirmed = conn.confirmed /\ conn'.leaving = FALSE
      /\ NoWorker.at = "none" /\ "none" \notin Calling
  BY <1>1, <1>2 DEF ConnRow, NoWorker, Calling
<1>4. SameJobs /\ Open' = Open
  BY <1>1, SameJobsKept
<1>5. TypeOK'
  <2>1. /\ entry \in [Keys -> EntryRow] /\ inbox \in [Targets -> [JobIds -> InboxRow]]
        /\ commits \in [Targets -> SUBSET CommitRow(Len(jobs))]
        /\ blobs \subseteq Digests /\ lastTarget \in Targets \cup {NoTarget}
        /\ remote \in [Targets -> [Keys -> {"none", "live", "trash", "removed"}]]
        /\ stored \in [Targets -> SUBSET Digests]
    BY Rows DEF TypeOK
  <2>2. jobs' = jobs /\ capturing' \subseteq Keys /\ Len(jobs') \in Len(jobs)..MaxJobs
    BY <1>1, <1>2
  <2> QED
    BY <1>1, <1>2, <1>3, <2>1, <2>2, TypedAgain DEF server
<1>6. Capturing' /\ WorkerConnected'
  BY <1>1, <1>3 DEF Capturing, WorkerConnected
<1>7. ServersGood
  BY <1>1, ServersSame DEF server
<1> QED
  BY <1>1, <1>2, <1>4, <1>5, <1>6, <1>7 DEF StepGood

LEMMA ServerStepGood ==
  ASSUME TypeOK, Capturing, WorkerConnected, NEW t \in Targets, ServerStep(t)
  PROVE  StepGood
<1>1. DOMAIN jobs \subseteq JobIds
  BY Rows
<1>2. CASE CommitStep(t)
  BY <1>2, CommitEntryGood, CommitEndGood DEF CommitStep
<1>3. CASE \E k \in Keys : ServerTrash(t, k) \/ ServerRestore(t, k) \/ ServerPurge(t, k)
  BY <1>3, PeopleGood
<1>4. CASE \E j \in DOMAIN jobs : CleanUp(t, j) \/ CleanUpMidway(t, j)
  BY <1>1, <1>4, ExpireGood
<1> QED
  BY <1>2, <1>3, <1>4 DEF ServerStep

\* Every step is good, and one other than a receipt's and that of choosing a
\* server leaves the receipts alone.
ReceiptsStand ==
    \/ (\A k \in Keys : entry'[k].synced = entry[k].synced) /\ lastTarget' = lastTarget
    \/ SelectSyncTarget(conn.to)
    \/ Receipt

LEMMA EveryStepGood ==
  ASSUME NoLateStart, TypeOK, Capturing, WorkerConnected, [Next]_vars
  PROVE  StepGood /\ ReceiptsStand
<1>1. CASE \E k \in Keys : ArchiveStep(k)
  <2>1. PICK k \in Keys : ArchiveStep(k)
    BY <1>1
  <2>2. /\ TypeOK' /\ Capturing'
        /\ jobs' = jobs /\ worker' = worker /\ lastTarget' = lastTarget /\ UNCHANGED server
        /\ \A o \in Keys : entry'[o].synced = entry[o].synced
        /\ conn'.to = conn.to /\ conn'.confirmed = conn.confirmed /\ conn'.leaving = conn.leaving
    BY <2>1, ArchiveTyped
  <2>3. SameJobs /\ Open' = Open
    BY <2>2, SameJobsKept
  <2>4. ServersGood
    BY <2>2, ServersSame DEF server
  <2>5. WorkerConnected'
    BY <2>2, <2>3 DEF WorkerConnected
  <2>6. Len(jobs) \in 0..MaxJobs
    BY Rows
  <2> QED
    BY <2>2, <2>3, <2>4, <2>5, <2>6 DEF StepGood, ReceiptsStand
<1>2. CASE Pairing \/ Disconnected \/ EnsureWorker
  <2>1. /\ TypeOK' /\ Capturing' /\ WorkerConnected'
        /\ SameJobs /\ Open' \subseteq Open /\ UNCHANGED server
        /\ (entry' = entry /\ lastTarget' = lastTarget) \/ SelectSyncTarget(conn.to)
    BY <1>2, PairingMoves
  <2>2. ServersGood
    BY <2>1, ServersSame DEF server
  <2>3. Len(jobs) \in 0..MaxJobs
    BY Rows
  <2> QED
    BY <2>1, <2>2, <2>3 DEF StepGood, ReceiptsStand, SameJobs
<1>3. CASE WorkerStep
  <2>1. StepGood
    BY <1>3, WorkerStepGood
  <2>2. (entry' = entry /\ lastTarget' = lastTarget) \/ Receipt
    BY <1>3 DEF WorkerStep, BuildJob, CallFails, Begin, Uploaded, CommitStart, CommitRefused, NoReceipt,
                TakeJob, SendChunk, FileGone, Finish, UploadMissing, local
  <2> QED
    BY <2>1, <2>2 DEF ReceiptsStand
<1>4. ASSUME NEW t \in Targets, ServerStep(t)
      PROVE  StepGood /\ ReceiptsStand
  <2>1. StepGood
    BY <1>4, ServerStepGood
  <2>2. entry' = entry /\ lastTarget' = lastTarget
    BY <1>4 DEF ServerStep, CommitStep, CommitEntry, CommitEnd, ServerTrash, ServerRestore, ServerPurge,
                ServerMove, CleanUp, CleanUpMidway, Expire, local
  <2> QED
    BY <2>1, <2>2 DEF ReceiptsStand
<1>5. CASE RestartServer \/ RestartDevice
  <2>1. StepGood
    BY <1>5, RestartServerGood, RestartDeviceGood
  <2>2. entry' = entry /\ lastTarget' = lastTarget
    BY <1>5 DEF RestartServer, RestartDevice, local
  <2> QED
    BY <2>1, <2>2 DEF ReceiptsStand
<1>6. CASE UNCHANGED vars
  <2>1. SameJobs /\ Open' = Open /\ Len(jobs) \in 0..MaxJobs
    BY <1>6, SameJobsKept, Rows DEF vars
  <2>2. ServersGood
    BY <1>6, ServersSame DEF vars
  <2>3. TypeOK'
    BY <1>6 DEF vars, TypeOK
  <2>4. Capturing' /\ WorkerConnected'
    BY <1>6, <2>1 DEF vars, Capturing, WorkerConnected
  <2> QED
    BY <1>6, <2>1, <2>2, <2>3, <2>4 DEF StepGood, ReceiptsStand, SameJobs, vars
<1> QED
  BY <1>1, <1>2, <1>3, <1>4, <1>5, <1>6 DEF Next
-------------------------------------------------------------------------------
(* The invariant *)

\* Batches keep what they send.
LEMMA SentKept ==
  ASSUME TypeOK, StepGood
  PROVE  /\ Len(jobs) \in Nat /\ DOMAIN jobs = 1..Len(jobs) /\ DOMAIN jobs' = 1..Len(jobs')
         /\ DOMAIN jobs \subseteq DOMAIN jobs'
         /\ \A j \in DOMAIN jobs : Sent(j)' = Sent(j)
<1>1. jobs' \in Seq(Job) /\ Len(jobs') \in Nat
  BY LenProperties DEF StepGood, TypeOK, Job
<1>2. Len(jobs) \in Nat /\ DOMAIN jobs = 1..Len(jobs) /\ DOMAIN jobs' = 1..Len(jobs')
  BY <1>1, Rows, LenProperties
<1>3. Len(jobs) <= Len(jobs') /\ \A j \in DOMAIN jobs : jobs'[j].man = jobs[j].man
  BY DEF StepGood
<1>4. DOMAIN jobs \subseteq DOMAIN jobs'
  BY <1>1, <1>2, <1>3
<1>5. \A j \in DOMAIN jobs : Sent(j)' = Sent(j)
  BY <1>3 DEF Sent
<1> QED
  BY <1>2, <1>4, <1>5

LEMMA OneBatchKept ==
  ASSUME TypeOK, StepGood, OneBatchPerEntry
  PROVE  OneBatchPerEntry'
<1>1. \A j \in DOMAIN jobs : Sent(j)' = Sent(j)
  BY SentKept
<1>2. CASE Open' \subseteq Open
  BY <1>1, <1>2 DEF OneBatchPerEntry, Open
<1>3. CASE BuildJob
  <2>0. PICK n \in Nat : n = Len(jobs) + 1
    BY SentKept
  <2>1. /\ \A j \in DOMAIN jobs : jobs'[j] = jobs[j]
        /\ DOMAIN jobs'[n].man = Pending /\ Len(jobs') = n
    BY <1>3, <2>0, BuiltJob
  <2>2. DOMAIN jobs' = DOMAIN jobs \cup {n} /\ n \notin DOMAIN jobs
    BY <2>0, <2>1, SentKept
  <2>3. Open' \subseteq Open \cup {n}
    BY <2>1, <2>2 DEF Open
  <2>4. Sent(n)' = Pending
    BY <2>1 DEF Sent
  <2>5. ASSUME NEW j \in Open
        PROVE  Pending \cap Sent(j) = {} /\ j # n /\ Sent(j)' = Sent(j)
    BY <1>1, <2>2, <2>5 DEF Pending, Open
  <2>6. ASSUME NEW i \in Open', NEW j \in Open', i # j
        PROVE  Sent(i)' \cap Sent(j)' = {}
    <3>1. CASE i = n
      <4>1. j \in Open
        BY <2>3, <2>6, <3>1
      <4> QED
        BY <2>4, <2>5, <3>1, <4>1
    <3>2. CASE j = n
      <4>1. i \in Open
        BY <2>3, <2>6, <3>2
      <4> QED
        BY <2>4, <2>5, <3>2, <4>1
    <3>3. CASE i # n /\ j # n
      <4>1. i \in Open /\ j \in Open
        BY <2>3, <2>6, <3>3
      <4> QED
        BY <2>6, <2>5, <4>1 DEF OneBatchPerEntry
    <3> QED
      BY <3>1, <3>2, <3>3
  <2> QED
    BY <2>6 DEF OneBatchPerEntry
<1> QED
  BY <1>2, <1>3 DEF StepGood

\* A batch is completed that was, or that a commit completes.
LEMMA CompletedBy ==
  ASSUME ServersGood, NEW t \in Targets, NEW j \in JobIds, inbox'[t][j].status = "completed"
  PROVE  inbox[t][j].status = "completed" \/ \E c \in commits[t] : c.job = j /\ c.todo = {}
<1>1. ASSUME NEW u \in Targets, NEW i \in JobIds
      PROVE  inbox'[u][i].status = "completed" =>
               inbox[u][i].status = "completed" \/ \E c \in commits[u] : c.job = i /\ c.todo = {}
  BY DEF ServersGood, Completions
<1> QED
  BY <1>1

LEMMA CommitsWriteKept ==
  ASSUME TypeOK, StepGood, CommitsWrite
  PROVE  CommitsWrite'
<1>1. /\ DOMAIN jobs \subseteq DOMAIN jobs' /\ DOMAIN jobs = 1..Len(jobs)
      /\ \A j \in DOMAIN jobs : Sent(j)' = Sent(j) /\ Sent(j) \in SUBSET Keys
  BY SentKept, Rows
<1>2. ASSUME NEW t \in Targets
      PROVE  \A k \in Keys : remote[t][k] # "none" => remote'[t][k] # "none"
  BY DEF StepGood, ServersGood, PlacesKept
<1>3. ASSUME NEW t \in Targets, NEW c \in commits[t]
      PROVE  c.job \in DOMAIN jobs /\ \A k \in Sent(c.job) \ c.todo : remote[t][k] # "none"
  <2>1. c \in CommitRow(Len(jobs))
    BY Rows
  <2> QED
    BY <1>1, <2>1 DEF CommitRow, CommitsWrite
<1>4. ASSUME NEW t \in Targets, NEW c \in commits'[t], NEW k \in Sent(c.job)' \ c.todo
      PROVE  remote'[t][k] # "none"
  <2>1. CASE c \in commits[t]
    BY <1>1, <1>2, <1>3, <1>4, <2>1
  <2>2. CASE c.job \in DOMAIN jobs /\ c.todo = Sent(c.job)
    BY <1>1, <1>4, <2>2
  <2>3. CASE \E d \in commits[t], o \in Keys : c.job = d.job /\ c.todo = d.todo \ {o} /\ remote'[t][o] # "none"
    <3>1. PICK d \in commits[t], o \in Keys : c.job = d.job /\ c.todo = d.todo \ {o} /\ remote'[t][o] # "none"
      BY <2>3
    <3>2. d.job \in DOMAIN jobs /\ \A x \in Sent(d.job) \ d.todo : remote[t][x] # "none"
      BY <1>3
    <3>3. k \in Sent(d.job) /\ k \in Keys
      BY <1>1, <1>4, <3>1, <3>2
    <3> QED
      BY <1>2, <1>4, <3>1, <3>2, <3>3
  <2> QED
    BY <2>1, <2>2, <2>3 DEF StepGood, ServersGood, PlacesKept, Completions, CommitsGood
<1>5. ASSUME NEW t \in Targets, NEW j \in JobIds, inbox'[t][j].status = "completed"
      PROVE  j \in DOMAIN jobs /\ \A k \in Sent(j)' : remote'[t][k] # "none"
  <2>1. CASE inbox[t][j].status = "completed"
    BY <1>1, <1>2, <2>1 DEF CommitsWrite
  <2>2. CASE \E c \in commits[t] : c.job = j /\ c.todo = {}
    BY <1>1, <1>2, <1>3, <2>2
  <2>3. inbox[t][j].status = "completed" \/ \E c \in commits[t] : c.job = j /\ c.todo = {}
    BY <1>5, CompletedBy DEF StepGood
  <2> QED
    BY <2>1, <2>2, <2>3
<1>6. DOMAIN jobs' \subseteq JobIds
  BY SentKept DEF StepGood, TypeOK, JobIds
<1> QED
  BY <1>1, <1>4, <1>5, <1>6 DEF CommitsWrite

LEMMA SyncedKept ==
  ASSUME TypeOK, WorkerConnected, StepGood, ReceiptsStand, CommitsWrite, Receipts, SyncedIsOnServer
  PROVE  Receipts' /\ SyncedIsOnServer'
<1>1. /\ DOMAIN jobs \subseteq DOMAIN jobs' /\ DOMAIN jobs \subseteq JobIds
      /\ \A j \in DOMAIN jobs : Sent(j)' = Sent(j) /\ Sent(j) \in SUBSET Keys /\ jobs'[j].man = jobs[j].man
  BY SentKept, Rows DEF StepGood
<1>2. ASSUME NEW t \in Targets
      PROVE  /\ \A k \in Keys : remote[t][k] # "none" => remote'[t][k] # "none"
             /\ \A j \in JobIds : inbox[t][j].status = "completed" => inbox'[t][j].status = "completed"
  BY DEF StepGood, ServersGood, PlacesKept, Completions
<1>3. lastTarget \in Targets \cup {NoTarget} /\ \A k \in Keys : entry[k].synced \in Nat
  BY Rows DEF TypeOK, EntryRow
<1> DEFINE Proof(k, v, t) ==
             /\ t # NoTarget /\ t \in Targets /\ remote'[t][k] # "none"
             /\ \E j \in DOMAIN jobs' :
                   k \in Sent(j)' /\ jobs'[j].man[k] = v /\ inbox'[t][j].status = "completed"
<1>4. ASSUME NEW k \in Keys, entry[k].synced > 0
      PROVE  Proof(k, entry[k].synced, lastTarget)
  <2>1. lastTarget # NoTarget /\ lastTarget \in Targets
    BY <1>3, <1>4 DEF Receipts
  <2>2. PICK j \in DOMAIN jobs :
          k \in Sent(j) /\ jobs[j].man[k] = entry[k].synced /\ inbox[lastTarget][j].status = "completed"
    BY <1>4 DEF SyncedIsOnServer
  <2>3. remote[lastTarget][k] # "none"
    BY <1>4 DEF SyncedIsOnServer
  <2> QED
    BY <1>1, <1>2, <2>1, <2>2, <2>3
<1>5. ASSUME NEW k \in Keys, entry'[k].synced > 0
      PROVE  Proof(k, entry'[k].synced, lastTarget')
  <2>1. CASE (\A o \in Keys : entry'[o].synced = entry[o].synced) /\ lastTarget' = lastTarget
    BY <1>4, <1>5, <2>1
  <2>2. CASE SelectSyncTarget(conn.to)
    <3>1. entry' = entry /\ lastTarget \in {NoTarget, conn.to} /\ lastTarget' = conn.to
      <4>1. CASE lastTarget \notin {NoTarget, conn.to}
        <5>1. entry'[k].synced = 0
          BY <2>2, <4>1, Rows DEF SelectSyncTarget, EntryRow
        <5> QED
          BY <1>5, <5>1
      <4> QED
        BY <2>2, <4>1 DEF SelectSyncTarget
    <3>2. lastTarget' = lastTarget
      BY <1>5, <3>1 DEF Receipts
    <3> QED
      BY <1>4, <1>5, <3>1, <3>2
  <2>3. CASE Receipt
    <3>0. PICK w \in JobIds : w = worker.job
      BY <2>3, Callee DEF Receipt, Calling
    <3>1. /\ worker.at \in Calling /\ worker.to # NoTarget /\ inbox[worker.to][w].status = "completed"
          /\ lastTarget' = lastTarget /\ MarkSynced(w) /\ t0 # NoTarget
      BY <2>3, <3>0 DEF Receipt, Calling, box, t0
    <3>2. worker.to \in Targets /\ w \in DOMAIN jobs /\ w \in JobIds /\ worker.to = lastTarget
      BY <3>0, <3>1, Callee
    <3>3. entry'[k].synced = entry[k].synced \/ (k \in Sent(w) /\ entry'[k].synced = jobs[w].man[k])
      BY <3>1, <3>2, Marked
    <3>4. \A o \in Sent(w) : remote[lastTarget][o] # "none"
      BY <3>1, <3>2 DEF CommitsWrite
    <3>5. CASE k \in Sent(w) /\ entry'[k].synced = jobs[w].man[k]
      <4>1. remote'[lastTarget][k] # "none" /\ inbox'[lastTarget][w].status = "completed"
        BY <1>2, <3>1, <3>2, <3>4, <3>5
      <4>2. w \in DOMAIN jobs' /\ k \in Sent(w)' /\ jobs'[w].man[k] = entry'[k].synced
        BY <1>1, <3>2, <3>5
      <4> QED
        BY <3>1, <3>2, <4>1, <4>2
    <3> QED
      BY <1>4, <1>5, <3>1, <3>3, <3>5
  <2> QED
    BY <2>1, <2>2, <2>3 DEF ReceiptsStand
<1> QED
  BY <1>5 DEF Receipts, SyncedIsOnServer

LEMMA InitInv == Init => IInv
<1> SUFFICES ASSUME Init
             PROVE  IInv
  OBVIOUS
<1>1. jobs = <<>> /\ <<>> \in Seq(Job) /\ Len(jobs) = 0 /\ DOMAIN jobs = {}
  BY DEF Init
<1>2. NoWorker.at = "none" /\ NoWorker.to = NoTarget /\ "none" \notin Calling
  BY DEF NoWorker, Calling
<1>3. TypeOK
  <2>1. inbox \in [Targets -> [JobIds -> InboxRow]]
    BY DEF Init, NoInbox, NoRows, InboxRow
  <2>2. NoWorker \in WorkerRow(0)
    BY DEF NoWorker, WorkerRow
  <2> QED
    BY <1>1, <2>1, <2>2 DEF Init, TypeOK, Job, WorkerRow, InboxRow
<1>4. Capturing /\ WorkerConnected /\ Receipts /\ SyncedIsOnServer
  BY <1>1, <1>2 DEF Init, Capturing, WorkerConnected, Receipts, SyncedIsOnServer
<1>5. OneBatchPerEntry
  BY <1>1 DEF OneBatchPerEntry, Open
<1>6. CommitsWrite
  BY <1>1 DEF Init, CommitsWrite, NoInbox, JobIds
<1> QED
  BY <1>3, <1>4, <1>5, <1>6 DEF IInv

LEMMA NextKeepsInv ==
  ASSUME NoLateStart
  PROVE  IInv /\ [Next]_vars => IInv'
<1> SUFFICES ASSUME IInv, [Next]_vars
             PROVE  IInv'
  OBVIOUS
<1>1. TypeOK /\ Capturing /\ WorkerConnected /\ OneBatchPerEntry /\ CommitsWrite /\ Receipts /\ SyncedIsOnServer
  BY DEF IInv
<1>2. StepGood /\ ReceiptsStand
  BY <1>1, EveryStepGood
<1>3. TypeOK' /\ Capturing' /\ WorkerConnected'
  BY <1>2 DEF StepGood
<1>4. OneBatchPerEntry' /\ CommitsWrite'
  BY <1>1, <1>2, OneBatchKept, CommitsWriteKept
<1>5. Receipts' /\ SyncedIsOnServer'
  BY <1>1, <1>2, SyncedKept
<1> QED
  BY <1>3, <1>4, <1>5 DEF IInv

\* The rows of both sides keep their types (catalog.py, sync.py, transfer.py).
THEOREM TypeCorrect ==
  ASSUME NoLateStart
  PROVE  Spec => []TypeOK
<1>1. Init => IInv
  BY InitInv
<1>2. IInv /\ [Next]_vars => IInv'
  BY NextKeepsInv
<1>3. IInv => TypeOK
  BY DEF IInv
<1> QED
  BY <1>1, <1>2, <1>3, PTL DEF Spec

\* mark_synced counts a version only after the server that is connected
\* completed a batch with it, and has an entry for it: because a task lives
\* no longer than its connection (disconnect), selecting another server
\* forgets the receipts (select_sync_target), and a commit writes all entries
\* before it completes the job (transfer.py, commit).
THEOREM SyncedReceipts ==
  ASSUME NoLateStart
  PROVE  Spec => []SyncedIsOnServer
<1>1. Init => IInv
  BY InitInv
<1>2. IInv /\ [Next]_vars => IInv'
  BY NextKeepsInv
<1>3. IInv => SyncedIsOnServer
  BY DEF IInv
<1> QED
  BY <1>1, <1>2, <1>3, PTL DEF Spec

\* pending_candidates leaves out what an unfinished batch has, also when
\* failed batches are queued again by hand or after another pairing.
THEOREM OneBatch ==
  ASSUME NoLateStart
  PROVE  Spec => []OneBatchPerEntry
<1>1. Init => IInv
  BY InitInv
<1>2. IInv /\ [Next]_vars => IInv'
  BY NextKeepsInv
<1>3. IInv => OneBatchPerEntry
  BY DEF IInv
<1> QED
  BY <1>1, <1>2, <1>3, PTL DEF Spec

\* Who changes the places of entries on a server.
LEMMA PlacesStand ==
  ASSUME TypeOK, Capturing, WorkerConnected, [Next]_vars, NEW t \in Targets, NEW k \in Keys
  PROVE  /\ remote[t][k] = "removed" => remote'[t][k] = "removed"
         /\ remote[t][k] = "trash" /\ remote'[t][k] = "live" => UNCHANGED commits
<1>1. CASE UNCHANGED remote
  BY <1>1
<1>2. CASE \E u \in Targets, o \in Keys : ServerTrash(u, o) \/ ServerRestore(u, o) \/ ServerPurge(u, o)
  <2>1. PICK u \in Targets, o \in Keys, from \in {"live", "trash"}, to \in {"live", "trash", "removed"} :
          ServerMove(u, o, from, to)
    BY <1>2 DEF ServerTrash, ServerRestore, ServerPurge
  <2>2. PlaceIs(u, o, to)
    BY <2>1, PlaceSet DEF ServerMove
  <2> QED
    BY <2>1, <2>2 DEF ServerMove, PlaceIs
<1>3. CASE \E u \in Targets : \E c \in commits[u], o \in Keys : CommitEntry(u, c, o)
  <2>0. PICK u \in Targets : \E c \in commits[u], o \in Keys : CommitEntry(u, c, o)
    BY <1>3
  <2>1. PICK c \in commits[u], o \in Keys : CommitEntry(u, c, o)
    BY <2>0
  <2>2. PlaceIs(u, o, PutEntry(remote[u][o]))
    BY <2>1, CommitEntryGood
  <2> QED
    BY <2>2 DEF PlaceIs, PutEntry
<1>4. \/ UNCHANGED remote
      \/ \E u \in Targets, o \in Keys : ServerTrash(u, o) \/ ServerRestore(u, o) \/ ServerPurge(u, o)
      \/ \E u \in Targets : \E c \in commits[u], o \in Keys : CommitEntry(u, c, o)
  <2>1. CASE \E o \in Keys : ArchiveStep(o)
    BY <2>1 DEF ArchiveStep, CaptureFile, CaptureEntry, Trash, Restore, Purge, server
  <2>2. CASE Pairing \/ Disconnected \/ EnsureWorker
    BY <2>2 DEF Pairing, Prepare, Confirm, Start, Disconnect, Disconnected, EnsureWorker, server
  <2>3. CASE WorkerStep
    BY <2>3 DEF WorkerStep, BuildJob, CallFails, Begin, Uploaded, CommitStart, CommitRefused, Receipt, NoReceipt,
                TakeJob, SendChunk, FileGone, Finish, UploadMissing, server
  <2>4. CASE \E u \in Targets : ServerStep(u)
    BY <2>4 DEF ServerStep, CommitStep, CommitEnd, CleanUp, CleanUpMidway, Expire
  <2>5. CASE RestartServer \/ RestartDevice \/ UNCHANGED vars
    BY <2>5 DEF RestartServer, RestartDevice, server, vars
  <2> QED
    BY <2>1, <2>2, <2>3, <2>4, <2>5 DEF Next
<1> QED
  BY <1>1, <1>2, <1>3, <1>4

\* No batch, repeated or late, brings back what a person has trashed or
\* purged on the server: put_entry looks at removed_entries and leaves
\* deleted_at alone.
THEOREM NothingResurrected ==
  ASSUME NoLateStart
  PROVE  Spec => NoResurrection
<1>1. Init => IInv
  BY InitInv
<1>2. IInv /\ [Next]_vars => IInv'
  BY NextKeepsInv
<1>3. IInv /\ [Next]_vars =>
        \A t \in Targets, k \in Keys :
          /\ remote[t][k] = "removed" => remote'[t][k] = "removed"
          /\ remote[t][k] = "trash" /\ remote'[t][k] = "live" => UNCHANGED commits
  BY PlacesStand DEF IInv
<1> QED
  BY <1>1, <1>2, <1>3, PTL DEF Spec, NoResurrection
===============================================================================
