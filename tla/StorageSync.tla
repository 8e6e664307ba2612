----------------------------- MODULE StorageSync -----------------------------
(***************************************************************************)
(* Copying an account's archive to a server: the device's catalog          *)
(* (account_storage/catalog.py), its background worker (sync.py) and the   *)
(* receiver of the server (transfer.py).  The worker bundles entries into  *)
(* batches, which are rows of the device's job table; a batch is announced,*)
(* its missing files are uploaded, and it is committed.  Either side may   *)
(* stop, calls and answers get lost, people trash and purge on both sides, *)
(* and the account may be disconnected and paired again.                   *)
(*                                                                         *)
(* An entry is generation history: its files never change, its metadata    *)
(* do, and a version stands for updated_at.  A file is sent in one chunk.  *)
(* Bytes and quotas are left out: a refusal is one more way for a call to  *)
(* fail.                                                                   *)
(***************************************************************************)
EXTENDS Naturals, Sequences, FiniteSets, FiniteSetsExt

CONSTANTS
    Keys,         \* entries
    Digests,      \* contents of files
    Files,        \* the original and the thumbnail of each entry
    Targets,      \* servers
    NoTarget,
    Hazards,      \* which of HazardKinds may happen
    MaxVersion,   \* bound: versions of an entry
    MaxJobs,      \* bound: batches ever built
    MaxTroubles   \* bound: lost calls, restarts and disconnections

\* "late_start": the task is started again while disconnect() waits.
HazardKinds == {"purge_local", "purge_server", "disconnect", "late_start"}

ASSUME SyncAssumption ==
    /\ Files \in [Keys -> SUBSET Digests]
    /\ NoTarget \notin Targets
    /\ Hazards \subseteq HazardKinds
    /\ MaxVersion \in Nat /\ MaxJobs \in Nat /\ MaxTroubles \in Nat

VARIABLES
    entry,      \* entries of the device: version, synced_version, and where it is
    capturing,  \* entries whose files are kept and whose row is not yet written
    blobs,      \* files of the device
    conn,       \* the connection and connected-since entries
    lastTarget, \* last_sync_target
    jobs,       \* send jobs in creation order, with their manifests
    worker,     \* the account's sync task and the calls it makes
    remote,     \* entries of each server
    stored,     \* files of each server
    inbox,      \* receive jobs and their upload rows, per server
    commits,    \* commit() calls at work on each server
    troubles    \* troubles so far

local == <<entry, capturing, blobs>>
server == <<remote, stored, inbox, commits>>
vars == <<entry, capturing, blobs, conn, lastTarget, jobs, worker,
          remote, stored, inbox, commits, troubles>>

JobIds == 1..MaxJobs
Versions == 1..MaxVersion
Unfinished == {"queued", "uploading", "failed"}
Present == {"live", "trash"}          \* rows of the entries table
Manifests == UNION {[S -> Versions] : S \in (SUBSET Keys) \ {{}}}
NoRows == [d \in Digests |-> "none"]
NoInbox == [status |-> "none", rows |-> NoRows]

FilesOf(S) == UNION {Files[k] : k \in S}
Sent(j) == DOMAIN jobs[j].man

NoWorker == [at |-> "none", job |-> 0, to |-> NoTarget, todo |-> {}, sent |-> {}]
Between == [NoWorker EXCEPT !.at = "pick"]

Init ==
    /\ entry = [k \in Keys |-> [version |-> 0, synced |-> 0, at |-> "none"]]
    /\ capturing = {}
    /\ blobs = {}
    /\ conn = [to |-> NoTarget, confirmed |-> FALSE, auto |-> FALSE, fresh |-> {}, leaving |-> FALSE]
    /\ lastTarget = NoTarget
    /\ jobs = <<>>
    /\ worker = NoWorker
    /\ remote = [t \in Targets |-> [k \in Keys |-> "none"]]
    /\ stored = [t \in Targets |-> {}]
    /\ inbox = [t \in Targets |-> [j \in JobIds |-> NoInbox]]
    /\ commits = [t \in Targets |-> {}]
    /\ troubles = 0

Trouble == troubles < MaxTroubles /\ troubles' = troubles + 1
-------------------------------------------------------------------------------
(***************************************************************************)
(* The device's archive.  capture_candidate keeps the files, then writes   *)
(* the row, without the account's mutation gate that purge holds.          *)
(***************************************************************************)
CaptureFile(k) ==
    /\ entry[k].at # "removed"
    /\ entry[k].version < MaxVersion
    /\ k \notin capturing
    /\ capturing' = capturing \cup {k}
    /\ blobs' = blobs \cup Files[k]
    /\ UNCHANGED <<entry, conn, lastTarget, jobs, worker, server, troubles>>

CaptureEntry(k) ==
    /\ k \in capturing
    /\ capturing' = capturing \ {k}
    /\ IF entry[k].at = "removed"
       THEN UNCHANGED <<entry, conn>>
       ELSE LET new == entry[k].at = "none" IN
            /\ entry' = [entry EXCEPT ![k].version = @ + 1, ![k].at = IF new THEN "live" ELSE @]
            /\ conn' = IF new THEN [conn EXCEPT !.fresh = @ \cup {k}] ELSE conn
    /\ UNCHANGED <<blobs, lastTarget, jobs, worker, server, troubles>>

Trash(k) ==
    /\ entry[k].at = "live"
    /\ entry' = [entry EXCEPT ![k].at = "trash"]
    /\ UNCHANGED <<capturing, blobs, conn, lastTarget, jobs, worker, server, troubles>>

Restore(k) ==
    /\ entry[k].at = "trash"
    /\ entry' = [entry EXCEPT ![k].at = "live"]
    /\ UNCHANGED <<capturing, blobs, conn, lastTarget, jobs, worker, server, troubles>>

\* The files that no other row of the table names.
OnlyOf(k, place) == Files[k] \ FilesOf({o \in Keys \ {k} : place[o] \in Present})

Purge(k) ==
    /\ "purge_local" \in Hazards
    /\ entry[k].at = "trash"
    /\ entry' = [entry EXCEPT ![k].at = "removed"]
    /\ blobs' = blobs \ OnlyOf(k, [o \in Keys |-> entry[o].at])
    /\ UNCHANGED <<capturing, conn, lastTarget, jobs, worker, server, troubles>>
-------------------------------------------------------------------------------
(***************************************************************************)
(* Pairing.  prepare() logs in and stores a device token; confirm() resets *)
(* the receipts when the server is not the last one; disconnect() stops    *)
(* the task, then waits for the server, then forgets the connection.       *)
(***************************************************************************)
Started == IF worker.at = "none" THEN Between ELSE worker
Startable == conn.confirmed /\ (conn.leaving => "late_start" \in Hazards)

Prepare(t) ==
    /\ ~conn.confirmed
    /\ conn' = [to |-> t, confirmed |-> FALSE, auto |-> FALSE, fresh |-> {}, leaving |-> FALSE]
    /\ conn' # conn
    /\ UNCHANGED <<local, lastTarget, jobs, worker, server, troubles>>

SelectSyncTarget(t) ==
    /\ lastTarget' = t
    /\ IF lastTarget \in {NoTarget, t}
       THEN UNCHANGED <<entry, jobs>>
       ELSE /\ entry' = [k \in Keys |-> [entry[k] EXCEPT !.synced = 0]]
            /\ jobs' = [j \in DOMAIN jobs |->
                          [jobs[j] EXCEPT !.status = IF @ \in Unfinished THEN "cancelled" ELSE @]]

Confirm ==
    /\ conn.to # NoTarget /\ ~conn.confirmed
    /\ SelectSyncTarget(conn.to)
    /\ conn' = [conn EXCEPT !.confirmed = TRUE]
    /\ worker' = Started
    /\ UNCHANGED <<capturing, blobs, server, troubles>>

\* start(): the user's "sync now"; failed jobs need not wait.
Start ==
    /\ Startable
    /\ conn' = [conn EXCEPT !.auto = TRUE]
    /\ jobs' = [j \in DOMAIN jobs |-> [jobs[j] EXCEPT !.status = IF @ = "failed" THEN "queued" ELSE @]]
    /\ worker' = Started
    /\ <<conn, jobs, worker>>' # <<conn, jobs, worker>>
    /\ UNCHANGED <<local, lastTarget, server, troubles>>

\* ensure_worker(), at start and with every admitted generation.
EnsureWorker ==
    /\ Startable
    /\ worker.at = "none"
    /\ worker' = Between
    /\ UNCHANGED <<local, conn, lastTarget, jobs, server, troubles>>

Disconnect ==
    /\ "disconnect" \in Hazards
    /\ conn.confirmed /\ ~conn.leaving
    /\ Trouble
    /\ conn' = [conn EXCEPT !.leaving = TRUE]
    /\ worker' = NoWorker
    /\ UNCHANGED <<local, lastTarget, jobs, server>>

\* The token is revoked, unless the server cannot be reached.
Disconnected ==
    /\ conn.leaving
    /\ conn' = [to |-> NoTarget, confirmed |-> FALSE, auto |-> FALSE, fresh |-> {}, leaving |-> FALSE]
    /\ worker' \in {worker, [worker EXCEPT !.to = NoTarget]}
    /\ UNCHANGED <<local, lastTarget, jobs, server, troubles>>
-------------------------------------------------------------------------------
(***************************************************************************)
(* worker(): the oldest job that is ready, a failed one after a minute,    *)
(* else a new job of the entries that are pending and in no other.         *)
(***************************************************************************)
Open == {j \in DOMAIN jobs : jobs[j].status \in Unfinished}

Wanted(k) ==
    /\ entry[k].at = "live" /\ entry[k].version > entry[k].synced
    /\ conn.auto \/ k \in conn.fresh
PendingAll == {k \in Keys : Wanted(k)}

Pending == {k \in Keys : Wanted(k)} \ UNION {Sent(j) : j \in Open}

\* send() reads the credentials; without them its calls are refused.
Sending(j) == [at |-> "begin", job |-> j, to |-> IF conn.confirmed THEN conn.to ELSE NoTarget,
               todo |-> {}, sent |-> {}]

TakeJobNoRetry(j) ==
    /\ worker.at = "pick"
    /\ j \in Open /\ jobs[j].status # "failed"
    /\ worker' = Sending(j)
    /\ UNCHANGED <<local, conn, lastTarget, jobs, server, troubles>>

TakeJob(j) ==
    /\ worker.at = "pick"
    /\ j \in Open
    /\ \A i \in Open : i < j => jobs[i].status = "failed"
    /\ worker' = Sending(j)
    /\ UNCHANGED <<local, conn, lastTarget, jobs, server, troubles>>

BuildJobUnsaved ==
    /\ worker.at = "pick"
    /\ \A j \in Open : jobs[j].status = "failed"
    /\ Len(jobs) < MaxJobs
    /\ Pending # {} /\ FilesOf(Pending) \subseteq blobs
    /\ worker' = Sending(Len(jobs) + 1)
    /\ UNCHANGED <<local, conn, lastTarget, jobs, server, troubles>>

BuildJob ==
    /\ worker.at = "pick"
    /\ \A j \in Open : jobs[j].status = "failed"
    /\ Len(jobs) < MaxJobs
    /\ Pending # {} /\ FilesOf(Pending) \subseteq blobs
    /\ jobs' = Append(jobs, [status |-> "queued", man |-> [k \in Pending |-> entry[k].version]])
    /\ worker' = Sending(Len(jobs) + 1)
    /\ UNCHANGED <<local, conn, lastTarget, server, troubles>>

SaveJob(j, s) == jobs' = [jobs EXCEPT ![j].status = s]
Failed == SaveJob(worker.job, "failed") /\ worker' = Between

\* A call or its answer is lost, or the server is full.
Unanswered == Trouble /\ Failed

Calling == {"begin", "upload", "commit", "answer"}
t0 == worker.to
box == inbox[t0][worker.job]

\* A call that is lost or refused.
CallFails ==
    /\ worker.at \in Calling
    /\ IF t0 = NoTarget THEN UNCHANGED troubles ELSE Trouble
    /\ Failed
    /\ UNCHANGED <<local, conn, lastTarget, server>>
-------------------------------------------------------------------------------
(***************************************************************************)
(* The receiver.  An entry that was trashed or purged on the server is     *)
(* retained there as it is: its files are not asked for again.             *)
(***************************************************************************)
Retained(t, k) == remote[t][k] \in {"trash", "removed"}
Needed(t, S) == FilesOf({k \in S : ~Retained(t, k)})

\* begin(): the first announcement admits the batch, a repetition finds it.
Announced(t, j) ==
    IF inbox[t][j].status # "none" THEN inbox[t][j]
    ELSE [status |-> "open",
          rows |-> [d \in Digests |-> IF d \in Needed(t, Sent(j)) \ stored[t] THEN "empty" ELSE "none"]]

Begin ==
    /\ worker.at = "begin" /\ t0 # NoTarget
    /\ inbox' = [inbox EXCEPT ![t0][worker.job] = Announced(t0, worker.job)]
    /\ LET rows == {d \in Digests : inbox'[t0][worker.job].rows[d] # "none"} IN
       \/ /\ worker' = [worker EXCEPT !.at = "upload", !.todo = rows]
          /\ UNCHANGED <<jobs, troubles>>
       \/ Unanswered
    /\ UNCHANGED <<local, conn, lastTarget, remote, stored, commits>>

WithRow(d, state) == [inbox EXCEPT ![t0][worker.job].rows[d] = state]

\* upload(): open the file, read the progress, send what is missing.
SendChunk(d) ==
    /\ worker.at = "upload" /\ t0 # NoTarget
    /\ d \in worker.todo \cap blobs
    /\ box.rows[d] # "none"
    /\ inbox' = IF box.rows[d] = "empty" THEN WithRow(d, "full") ELSE inbox
    /\ \/ /\ worker' = [worker EXCEPT !.todo = @ \ {d}, !.sent = @ \cup {d}]
          /\ UNCHANGED <<jobs, troubles>>
       \/ Unanswered
    /\ UNCHANGED <<local, conn, lastTarget, remote, stored, commits>>

\* The file is gone: subscripting None is an error that worker() does not
\* catch, so the task ends and leaves the job as it is.
FileGone(d) ==
    /\ worker.at = "upload"
    /\ d \in worker.todo \ blobs
    /\ worker' = NoWorker
    /\ UNCHANGED <<local, conn, lastTarget, jobs, server, troubles>>

\* finish(): a verified file becomes a blob and its part file goes; a part
\* file that has gone before is an error.
Finish(d) ==
    /\ worker.at = "upload" /\ t0 # NoTarget
    /\ d \in worker.sent
    /\ box.rows[d] # "none"
    /\ d \in stored[t0] \/ box.rows[d] = "full"
    /\ stored' = [stored EXCEPT ![t0] = @ \cup {d}]
    /\ inbox' = IF d \in stored[t0] THEN inbox ELSE WithRow(d, "taken")
    /\ \/ /\ worker' = [worker EXCEPT !.sent = @ \ {d}]
          /\ SaveJob(worker.job, "uploading")
          /\ UNCHANGED troubles
       \/ Unanswered
    /\ UNCHANGED <<local, conn, lastTarget, remote, commits>>

\* The upload's row was cleaned up, or its part file was.
UploadMissing(d) ==
    /\ worker.at = "upload" /\ t0 # NoTarget
    /\ \/ d \in (worker.todo \cap blobs) \cup worker.sent /\ box.rows[d] = "none"
       \/ d \in worker.sent \ stored[t0] /\ box.rows[d] = "taken"
    /\ Failed
    /\ UNCHANGED <<local, conn, lastTarget, server, troubles>>

Uploaded ==
    /\ worker.at = "upload"
    /\ worker.todo = {} /\ worker.sent = {}
    /\ worker' = [worker EXCEPT !.at = "commit"]
    /\ UNCHANGED <<local, conn, lastTarget, jobs, server, troubles>>

(***************************************************************************)
(* commit(): check that every file is there, then write the entries one by *)
(* one, then complete the job.  It goes on when its caller gives up.       *)
(***************************************************************************)
Complete(t, S) == Needed(t, S) \subseteq stored[t]

CommitStart ==
    /\ worker.at = "commit" /\ t0 # NoTarget
    /\ box.status = "completed" \/ (box.status = "open" /\ Complete(t0, Sent(worker.job)))
    /\ commits' = IF box.status = "completed" THEN commits
                  ELSE [commits EXCEPT ![t0] = @ \cup {[job |-> worker.job, todo |-> Sent(worker.job)]}]
    /\ \/ /\ worker' = [worker EXCEPT !.at = "answer"]
          /\ UNCHANGED <<jobs, troubles>>
       \/ Unanswered
    /\ UNCHANGED <<local, conn, lastTarget, remote, stored, inbox>>

CommitRefused ==
    /\ worker.at = "commit" /\ t0 # NoTarget
    /\ box.status = "none" \/ (box.status = "open" /\ ~Complete(t0, Sent(worker.job)))
    /\ Failed
    /\ UNCHANGED <<local, conn, lastTarget, server, troubles>>

PutEntryAnew(place) == "live"

\* put_entry looks at removed_entries in its own transaction, and leaves
\* deleted_at alone.
PutEntry(place) == IF place = "none" THEN "live" ELSE place

CommitEntry(t, c, k) ==
    /\ c \in commits[t] /\ k \in c.todo
    /\ remote' = [remote EXCEPT ![t][k] = PutEntry(@)]
    /\ commits' = [commits EXCEPT ![t] = (@ \ {c}) \cup {[c EXCEPT !.todo = @ \ {k}]}]
    /\ UNCHANGED <<local, conn, lastTarget, jobs, worker, stored, inbox, troubles>>

\* save_job is an upsert: a job cleaned up meanwhile is there again.
CommitEnd(t, c) ==
    /\ c \in commits[t] /\ c.todo = {}
    /\ inbox' = [inbox EXCEPT ![t][c.job].status = "completed"]
    /\ commits' = [commits EXCEPT ![t] = @ \ {c}]
    /\ UNCHANGED <<local, conn, lastTarget, jobs, worker, remote, stored, troubles>>

MarkSyncedNow(j) ==
    entry' = [k \in Keys |-> IF k \in Sent(j) /\ entry[k].at \in Present
                             THEN [entry[k] EXCEPT !.synced = entry[k].version]
                             ELSE entry[k]]

\* The versions that were sent are marked, whatever the entries are by now.
MarkSynced(j) ==
    entry' = [k \in Keys |-> IF k \in Sent(j) /\ entry[k].at \in Present
                             THEN [entry[k] EXCEPT !.synced = Max({@, jobs[j].man[k]})]
                             ELSE entry[k]]

Receipt ==
    /\ worker.at = "answer" /\ t0 # NoTarget
    /\ box.status = "completed"
    /\ MarkSynced(worker.job)
    /\ SaveJob(worker.job, "completed")
    /\ worker' = Between
    /\ UNCHANGED <<capturing, blobs, conn, lastTarget, server, troubles>>
\* The commit that was waited for stopped with its server: the client's
\* time-out.
NoReceipt ==
    /\ worker.at = "answer" /\ t0 # NoTarget
    /\ box.status # "completed" /\ \A c \in commits[t0] : c.job # worker.job
    /\ Failed
    /\ UNCHANGED <<local, conn, lastTarget, server, troubles>>
-------------------------------------------------------------------------------
(***************************************************************************)
(* People at the server's archive.                                         *)
(***************************************************************************)
ServerMove(t, k, from, to) ==
    /\ remote[t][k] = from
    /\ remote' = [remote EXCEPT ![t][k] = to]
    /\ UNCHANGED <<local, conn, lastTarget, jobs, worker, inbox, commits, troubles>>

ServerTrash(t, k) == ServerMove(t, k, "live", "trash") /\ UNCHANGED stored
ServerRestore(t, k) == ServerMove(t, k, "trash", "live") /\ UNCHANGED stored

ServerPurge(t, k) ==
    /\ "purge_server" \in Hazards
    /\ ServerMove(t, k, "trash", "removed")
    /\ stored' = [stored EXCEPT ![t] = @ \ OnlyOf(k, remote[t])]

(***************************************************************************)
(* cleanup_incomplete() forgets a batch that got no chunk for seven days,  *)
(* while the device sleeps between two attempts or in the middle of one.   *)
(***************************************************************************)
Expire(t, j) ==
    /\ inbox[t][j].status = "open"
    /\ inbox' = [inbox EXCEPT ![t][j] = NoInbox]
    /\ UNCHANGED <<local, conn, lastTarget, jobs, worker, remote, stored, commits>>

Midway(t, j) == worker.at \in Calling /\ worker.to = t /\ worker.job = j

CleanUp(t, j) == ~Midway(t, j) /\ Expire(t, j) /\ UNCHANGED troubles
CleanUpMidway(t, j) == Midway(t, j) /\ Expire(t, j) /\ Trouble

RestartServer ==
    /\ Trouble
    /\ \E t \in Targets : commits[t] # {} /\ commits' = [commits EXCEPT ![t] = {}]
    /\ UNCHANGED <<local, conn, lastTarget, jobs, worker, remote, stored, inbox>>

\* disconnect() of a stopped process is simply over.
RestartDevice ==
    /\ Trouble
    /\ capturing' = {}
    /\ worker' = NoWorker
    /\ conn' = [conn EXCEPT !.leaving = FALSE]
    /\ UNCHANGED <<entry, blobs, lastTarget, jobs, server>>
-------------------------------------------------------------------------------
ArchiveStep(k) == CaptureFile(k) \/ CaptureEntry(k) \/ Trash(k) \/ Restore(k) \/ Purge(k)

Pairing == (\E t \in Targets : Prepare(t)) \/ Confirm \/ Start \/ Disconnect

WorkerStep ==
    \/ BuildJob \/ CallFails \/ Begin \/ Uploaded \/ CommitStart \/ CommitRefused \/ Receipt \/ NoReceipt
    \/ \E j \in DOMAIN jobs : TakeJob(j)
    \/ \E d \in Digests : SendChunk(d) \/ FileGone(d) \/ Finish(d) \/ UploadMissing(d)

CommitStep(t) == \E c \in commits[t] : CommitEnd(t, c) \/ \E k \in Keys : CommitEntry(t, c, k)

ServerStep(t) ==
    \/ CommitStep(t)
    \/ \E k \in Keys : ServerTrash(t, k) \/ ServerRestore(t, k) \/ ServerPurge(t, k)
    \/ \E j \in DOMAIN jobs : CleanUp(t, j) \/ CleanUpMidway(t, j)

Next ==
    \/ \E k \in Keys : ArchiveStep(k)
    \/ Pairing \/ Disconnected \/ EnsureWorker
    \/ WorkerStep
    \/ \E t \in Targets : ServerStep(t)
    \/ RestartServer \/ RestartDevice

Spec == Init /\ [][Next]_vars

(***************************************************************************)
(* The task is scheduled and its calls end (the client times out after a   *)
(* minute); a commit runs; the runtime starts the task again; and a batch  *)
(* that stays without chunks is past its seven days some time.  Lost calls *)
(* are bounded by MaxTroubles.                                             *)
(***************************************************************************)
Fairness ==
    /\ WF_vars(WorkerStep) /\ WF_vars(EnsureWorker) /\ WF_vars(Disconnected)
    /\ \A t \in Targets : WF_vars(CommitStep(t)) /\ \A j \in JobIds : SF_vars(CleanUp(t, j))

FairSpec == Spec /\ Fairness
-------------------------------------------------------------------------------
TypeOK ==
    /\ entry \in [Keys -> [version : 0..MaxVersion, synced : 0..MaxVersion,
                           at : {"none", "live", "trash", "removed"}]]
    /\ capturing \subseteq Keys /\ blobs \subseteq Digests
    /\ conn \in [to : Targets \cup {NoTarget}, confirmed : BOOLEAN, auto : BOOLEAN,
                 fresh : SUBSET Keys, leaving : BOOLEAN]
    /\ lastTarget \in Targets \cup {NoTarget}
    /\ jobs \in Seq([status : Unfinished \cup {"completed", "cancelled"}, man : Manifests])
    /\ Len(jobs) <= MaxJobs
    /\ worker \in [at : {"none", "pick"} \cup Calling, job : 0..Len(jobs),
                   to : Targets \cup {NoTarget}, todo : SUBSET Digests, sent : SUBSET Digests]
    /\ remote \in [Targets -> [Keys -> {"none", "live", "trash", "removed"}]]
    /\ stored \in [Targets -> SUBSET Digests]
    /\ inbox \in [Targets -> [JobIds -> [status : {"none", "open", "completed"},
                                         rows : [Digests -> {"none", "empty", "full", "taken"}]]]]
    /\ commits \in [Targets -> SUBSET [job : 1..Len(jobs), todo : SUBSET Keys]]
    /\ troubles \in 0..MaxTroubles

(***************************************************************************)
(* A receipt is the server's: a version counts as synced only after the    *)
(* server that is connected completed a batch with that very version, and  *)
(* it has an entry for it, which a person may since have trashed.          *)
(***************************************************************************)
SyncedIsOnServer ==
    \A k \in Keys : entry[k].synced > 0 =>
        /\ remote[lastTarget][k] # "none"
        /\ \E j \in DOMAIN jobs :
              k \in Sent(j) /\ jobs[j].man[k] = entry[k].synced /\ inbox[lastTarget][j].status = "completed"

(***************************************************************************)
(* An entry is in one unfinished batch at most, so that a failed batch     *)
(* which is sent again cannot overtake a newer one.                        *)
(***************************************************************************)
OneBatchPerEntry == \A i, j \in Open : i # j => Sent(i) \cap Sent(j) = {}

(***************************************************************************)
(* What was purged on the server stays purged, and what was trashed is     *)
(* brought back by a person alone: no batch, repeated or late, does.       *)
(***************************************************************************)
NoResurrection ==
    [][\A t \in Targets, k \in Keys :
         /\ remote[t][k] = "removed" => remote'[t][k] = "removed"
         /\ remote[t][k] = "trash" /\ remote'[t][k] = "live" => UNCHANGED commits]_vars

(***************************************************************************)
(* What a person wants on the server gets there, in spite of lost calls,   *)
(* refusals and restarts, of time-outs that leave a commit at work and of  *)
(* batches that expire -- when people at the server stop trashing and      *)
(* restoring some time, and unless a file it takes was purged: on the      *)
(* device, or on the server when the batch had been completed there, the   *)
(* part file was gone and the receipt was still to come.                   *)
(***************************************************************************)
Due(k) == conn.confirmed /\ Wanted(k)

Purged ==
    \/ ~(FilesOf(Pending \cup UNION {Sent(j) : j \in Open}) \subseteq blobs)
    \/ \E j \in Open, d \in Digests :
          inbox[conn.to][j].status = "completed" /\ inbox[conn.to][j].rows[d] = "taken" /\ d \notin stored[conn.to]

PeopleRest == <>[][\A t \in Targets, k \in Keys : ~ServerTrash(t, k) /\ ~ServerRestore(t, k)]_vars

DueIsSynced == PeopleRest => \A k \in Keys : Due(k) ~> (~Due(k) \/ Purged)
===============================================================================
