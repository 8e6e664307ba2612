------------------------------ MODULE Storyboard ------------------------------
(***************************************************************************)
(* Writing the storyboard of a skill project (skill_workflow/service.py):  *)
(* a background task asks a paid model once, saves its answer as a         *)
(* checkpoint, compiles it shot by shot and saves a revision of the shot   *)
(* manifest.  It may fail, be cancelled or stop with its process; it is    *)
(* then continued from the checkpoint.  Meanwhile the client asks for the  *)
(* workspace, which cleans up a step whose task is gone, and people edit   *)
(* the manifest.                                                           *)
(*                                                                         *)
(* One run of one project.  A revision of the manifest is its place in the *)
(* sequence: reading the last number and saving the next is one step here, *)
(* and only one recovery is under way at a time.  Outlines are saved       *)
(* before the first shot and are left out, as are gates, costs, the run's  *)
(* own status and the rewriting of single shots.                           *)
(***************************************************************************)
EXTENDS Naturals, Sequences

CONSTANTS
    Inputs,       \* digests of brief, style, skill and assets
    Shots,        \* shots of a storyboard
    Hazards,      \* which of HazardKinds may happen
    MaxSteps,     \* bound: attempts
    MaxEdits,     \* bound: revisions of the manifest
    MaxTroubles   \* bound: crashes and cancellations

\* "peek": the workspace is read between the saving of a step and the
\* registration of its task.  The run leaves it out: the step of a task at work
\* is then called failed, also when it has succeeded meanwhile.
HazardKinds == {"crash", "cancel", "peek"}

ASSUME StoryboardAssumption ==
    /\ Inputs # {}
    /\ Hazards \subseteq HazardKinds
    /\ Shots \in Nat \ {0} /\ MaxSteps \in Nat /\ MaxEdits \in Nat /\ MaxTroubles \in Nat

VARIABLES
    input,      \* the digest of the inputs as they are now
    steps,      \* compile_storyboard steps: attempt number -> row
    ckpt,       \* checkpoint artifacts, by the attempt that got the answer
    manifest,   \* who wrote each revision of the shot manifest
    worker,     \* the registered task, and a recovery by a reader
    troubles

vars == <<input, steps, ckpt, manifest, worker, troubles>>

Workers == {"task", "reader"}
StepIds == 1..MaxSteps
Authors == {"job", "prompts", "whole"}

\* Attempt i's checkpoint is the artifact made from the answer it got.
NoCkpt == [saved |-> FALSE, base |-> 0, shots |-> 0, completed |-> FALSE]

\* A worker's "copy" is its own copy of checkpoint "ck", "own" the revision it
\* has written, "since" the latest revision when it began, "invalid" how the
\* step ends if it does not succeed.
Away == [at |-> "none", step |-> 0, ck |-> 0, copy |-> NoCkpt, own |-> 0, since |-> 0,
         invalid |-> FALSE]

Init ==
    /\ input \in Inputs
    /\ steps = <<>>
    /\ ckpt = [i \in StepIds |-> NoCkpt]
    /\ manifest = <<>>
    /\ worker = [w \in Workers |-> Away]
    /\ troubles = 0

Task == worker["task"]
Running == {i \in DOMAIN steps : steps[i].status = "running"}
OfHash(h) == {i \in DOMAIN steps : steps[i].hash = h}

\* The last attempt of a set, 0 if there is none.
Latest(S) ==
    LET last == {i \in S : \A j \in S : j <= i}
    IN  IF last = {} THEN 0 ELSE CHOOSE i \in last : TRUE

\* The latest revision is the one the checkpoint knows of.
UnchangedAny(copy) == TRUE
Unchanged(copy) == copy.base = Len(manifest)

\* A worker that begins, with checkpoint "c" or none.
AtWork(place, i, c) ==
    [at |-> place, step |-> i, ck |-> c, copy |-> IF c = 0 THEN NoCkpt ELSE ckpt[c], own |-> 0,
     since |-> Len(manifest), invalid |-> FALSE]
Moves(w, place) == worker' = [worker EXCEPT ![w].at = place]
Trouble(kind) == kind \in Hazards /\ troubles < MaxTroubles /\ troubles' = troubles + 1
-------------------------------------------------------------------------------
(***************************************************************************)
(* compile_storyboard, under the project lock: the checkpoint to continue  *)
(* from, then _begin_step, then the task.  A step left running by a task   *)
(* that is gone is recovered first (Recover, below).                       *)
(***************************************************************************)
CheckpointRecorded(h) ==
    Latest({i \in OfHash(h) : ckpt[i].saved /\ ~ckpt[i].completed
                              /\ \E j \in DOMAIN steps : steps[j].ck = i})
Checkpoint(h) == Latest({i \in OfHash(h) : ckpt[i].saved /\ ~ckpt[i].completed})

\* What _begin_step refuses: done already, or asked and not known how it ended.
Begins(h, reconciled) ==
    /\ \A i \in OfHash(h) : steps[i].status # "succeeded"
    /\ reconciled \/ \A i \in OfHash(h) : ~steps[i].request
    /\ Running = {}

Compile ==
    LET c == Checkpoint(input)
        answered == \E i \in OfHash(input) : steps[i].answered
    IN  /\ Task.at = "none"
        /\ Len(steps) < MaxSteps
        /\ c # 0 => Unchanged(ckpt[c])
        /\ Begins(input, c # 0 \/ answered)
        /\ steps' = Append(steps, [hash |-> input, status |-> "running",
                                   request |-> FALSE, answered |-> FALSE, ck |-> 0])
        /\ worker' = [worker EXCEPT !["task"] =
                        AtWork("starting", Len(steps) + 1, c)]
        /\ UNCHANGED <<input, ckpt, manifest, troubles>>

\* create_task, and the entry in _storyboard_tasks.
Register ==
    /\ Task.at = "starting"
    /\ Moves("task", "created")
    /\ UNCHANGED <<input, steps, ckpt, manifest, troubles>>

Start ==
    /\ Task.at = "created"
    /\ Moves("task", IF Task.ck = 0 THEN "asking" ELSE "answered")
    /\ UNCHANGED <<input, steps, ckpt, manifest, troubles>>
-------------------------------------------------------------------------------
(***************************************************************************)
(* The writes of _run_storyboard_compilation and _stop_storyboard, one at  *)
(* each place.  Every one runs in a thread: a cancellation that meets it   *)
(* may come before or after, and then the task does not see its result.    *)
(***************************************************************************)
SaveCkpt(i, c) == ckpt' = [ckpt EXCEPT ![i] = c] /\ UNCHANGED <<steps, manifest>>
SaveStep(i, row) == steps' = [steps EXCEPT ![i] = row] /\ UNCHANGED <<ckpt, manifest>>
SaveDraft == manifest' = Append(manifest, "job") /\ UNCHANGED <<steps, ckpt>>

\* The revision a worker is about to write.
OwnNext == Len(manifest) + 2
Own == Len(manifest) + 1

FromAnswer == [saved |-> TRUE, base |-> Len(manifest), shots |-> 0, completed |-> FALSE]
OneMoreShot == [Task.copy EXCEPT !.shots = @ + 1]
Compiled == Task.copy.shots = Shots
Rebased(w) == [worker[w].copy EXCEPT !.base = worker[w].own]
Recorded == [steps[Task.step] EXCEPT !.request = TRUE, !.ck = Task.ck]

Ended(w) ==
    LET v == worker[w] IN
    [steps[v.step] EXCEPT !.status = "failed", !.answered = v.invalid,
                          !.ck = IF v.ck = 0 THEN @ ELSE v.ck]

Write(w) ==
    LET v == worker[w] IN
    CASE v.at = "asking" -> SaveCkpt(v.step, FromAnswer)
      [] v.at = "answered" -> SaveStep(v.step, Recorded)
      [] v.at = "shots" /\ ~Compiled -> SaveCkpt(v.ck, OneMoreShot)
      [] v.at = "shots" /\ Compiled -> SaveDraft
      [] v.at \in {"saved", "basing"} -> SaveCkpt(v.ck, Rebased(w))
      [] v.at = "based" -> SaveStep(v.step, [steps[v.step] EXCEPT !.status = "succeeded"])
      [] v.at = "finished" -> SaveCkpt(v.ck, [v.copy EXCEPT !.completed = TRUE])
      [] v.at = "drafting" -> SaveDraft
      [] v.at = "ending" -> SaveStep(v.step, Ended(w))
      [] OTHER -> UNCHANGED <<steps, ckpt, manifest>>

\* The write of its place, and on to the next one.
Advance(w, place, next) ==
    /\ worker[w].at = place
    /\ Write(w)
    /\ worker' = [worker EXCEPT ![w] = next]
    /\ UNCHANGED <<input, troubles>>
On(w, place) == [worker[w] EXCEPT !.at = place]

\* The whole answer is saved before anything is made of it.
Answer == Advance("task", "asking", [On("task", "answered") EXCEPT !.ck = Task.step, !.copy = FromAnswer])
Record == Advance("task", "answered", On("task", "shots"))

CompileShot ==
    /\ ~Compiled
    /\ Advance("task", "shots", [Task EXCEPT !.copy = OneMoreShot])
SaveManifest ==
    /\ Compiled
    /\ Advance("task", "shots", [On("task", "saved") EXCEPT !.own = Own])
SaveBase == Advance("task", "saved", [On("task", "based") EXCEPT !.copy = Rebased("task")])
Finish == Advance("task", "based", On("task", "finished"))
Complete == Advance("task", "finished", Away)

\* The author fails: the id of its request may be known, and the answer may
\* be there without being of use.
AskFails ==
    /\ Task.at = "asking"
    /\ \E request \in BOOLEAN, invalid \in BOOLEAN :
        /\ steps' = [steps EXCEPT ![Task.step].request = request \/ @]
        /\ worker' = [worker EXCEPT !["task"] = [On("task", "stopping") EXCEPT !.invalid = invalid]]
    /\ UNCHANGED <<input, ckpt, manifest, troubles>>

\* prompt_quality_failed, after the last rewriting.
QualityFails ==
    /\ Task.at = "shots"
    /\ ~Compiled
    /\ Moves("task", "stopping")
    /\ UNCHANGED <<input, steps, ckpt, manifest, troubles>>
-------------------------------------------------------------------------------
(***************************************************************************)
(* _stop_storyboard, in the task that fails or is cancelled, or by whoever *)
(* finds a running step without a task.  What has been compiled is saved   *)
(* as a draft, unless somebody has edited the manifest.                    *)
(***************************************************************************)
Stop(w) ==
    LET v == worker[w] IN
    /\ v.at = "stopping"
    /\ worker' = [worker EXCEPT ![w] =
                    IF steps[v.step].status = "succeeded" THEN Away
                    ELSE IF v.ck # 0 /\ Unchanged(v.copy) /\ v.copy.shots > 0 THEN On(w, "drafting")
                    ELSE On(w, "ending")]
    /\ UNCHANGED <<input, steps, ckpt, manifest, troubles>>

Draft(w) == Advance(w, "drafting", [On(w, "basing") EXCEPT !.own = Own])
Base(w) == Advance(w, "basing", [On(w, "ending") EXCEPT !.copy = Rebased(w)])
End(w) == Advance(w, "ending", Away)

\* _recover_interrupted_storyboard: at the start of the process, of a
\* compilation, and whenever the workspace is read.
NoTask == Task.at = "none" \/ (Task.at = "starting" /\ "peek" \in Hazards)

InterruptedRecorded == Latest({i \in Running : steps[i].ck # 0})
Interrupted == Latest(Running)

Recover ==
    LET i == Interrupted IN
    /\ worker["reader"].at = "none"
    /\ NoTask
    /\ i # 0
    /\ worker' = [worker EXCEPT !["reader"] = AtWork("stopping", i, steps[i].ck)]
    /\ UNCHANGED <<input, steps, ckpt, manifest, troubles>>
-------------------------------------------------------------------------------
(***************************************************************************)
(* cancel_storyboard: a task that has not begun never runs its body, and   *)
(* one that is cancelled twice does not finish its stopping.               *)
(***************************************************************************)
Stopping == {"stopping", "drafting", "basing", "ending"}

CancelStoryboard ==
    /\ Task.at \notin {"none", "starting"}
    /\ Trouble("cancel")
    /\ Write("task") \/ UNCHANGED <<steps, ckpt, manifest>>
    /\ worker' = [worker EXCEPT !["task"] =
                    IF @.at \in Stopping \cup {"created"} THEN Away ELSE On("task", "stopping")]
    /\ UNCHANGED input

Crash ==
    /\ \E w \in Workers : worker[w].at # "none"
    /\ Trouble("crash")
    /\ worker' = [w \in Workers |-> Away]
    /\ UNCHANGED <<input, steps, ckpt, manifest>>

(***************************************************************************)
(* People.  put_storyboard_prompt_draft takes the project lock, wants the  *)
(* latest revision and is refused while a task is at work; put_shot_-      *)
(* manifest does none of this.                                             *)
(***************************************************************************)
EditPrompts ==
    /\ manifest # <<>> /\ Len(manifest) < MaxEdits
    /\ Task.at = "none"
    /\ manifest' = Append(manifest, "prompts")
    /\ UNCHANGED <<input, steps, ckpt, worker, troubles>>

\* An outline exists as soon as shots are compiled.
EditWhole ==
    /\ Len(manifest) < MaxEdits
    /\ manifest # <<>> \/ \E i \in StepIds : ckpt[i].shots > 0
    /\ manifest' = Append(manifest, "whole")
    /\ UNCHANGED <<input, steps, ckpt, worker, troubles>>

ChangeInput ==
    /\ input' \in Inputs \ {input}
    /\ UNCHANGED <<steps, ckpt, manifest, worker, troubles>>
-------------------------------------------------------------------------------
TaskStep ==
    \/ Start \/ Answer \/ AskFails \/ Record \/ CompileShot \/ QualityFails
    \/ SaveManifest \/ SaveBase \/ Finish \/ Complete
StopStep(w) == Stop(w) \/ Draft(w) \/ Base(w) \/ End(w)
People == Compile \/ CancelStoryboard \/ EditPrompts \/ EditWhole \/ ChangeInput

Next ==
    \/ Register \/ TaskStep \/ Recover \/ People \/ Crash
    \/ \E w \in Workers : StopStep(w)

Spec == Init /\ [][Next]_vars

\* The event loop runs a request and a task to their ends, the author has a
\* time limit, and the client asks for the workspace while a step is running.
FairSpec ==
    /\ Spec
    /\ WF_vars(Register \/ TaskStep)
    /\ WF_vars(Recover)
    /\ \A w \in Workers : WF_vars(StopStep(w))
-------------------------------------------------------------------------------
Places == {"none", "starting", "created", "asking", "answered", "shots", "saved",
           "based", "finished"} \cup Stopping
CkptType == [saved : BOOLEAN, base : 0..Len(manifest), shots : 0..Shots, completed : BOOLEAN]

StepRow == [hash : Inputs, status : {"running", "succeeded", "failed"},
            request : BOOLEAN, answered : BOOLEAN, ck : 0..MaxSteps]
WorkerType == [at : Places, step : 0..Len(steps), ck : 0..MaxSteps, copy : CkptType,
               own : 0..Len(manifest), since : 0..Len(manifest), invalid : BOOLEAN]

\* Types; a worker has an attempt, and nobody knows of a revision that is not
\* there.
TypeOK ==
    /\ input \in Inputs
    /\ steps \in Seq(StepRow) /\ Len(steps) <= MaxSteps
    /\ ckpt \in [StepIds -> CkptType]
    /\ manifest \in Seq(Authors)
    /\ worker \in [Workers -> WorkerType]
    /\ \A w \in Workers : worker[w].at # "none" => worker[w].step # 0
    /\ troubles \in 0..MaxTroubles

\* The model is not paid for an answer that has been saved: when a task asks,
\* there is no checkpoint for these inputs, wherever the attempt that saved
\* one was stopped.
SavedAnswerReused ==
    Task.at = "asking" => \A i \in OfHash(steps[Task.step].hash) : ~ckpt[i].saved

\* A worker that saves a manifest of its own does not put it over somebody's
\* edit that was there when it began, nor over an edit of prompts made while a
\* task was at work.
EditStands ==
    [][\A w \in Workers :
        (worker[w].at \in {"shots", "drafting"} /\ manifest' = Append(manifest, "job")) =>
            \A i \in (worker[w].copy.base + 1)..Len(manifest) :
                i > worker[w].since /\ (w = "task" => manifest[i] = "whole")]_vars

\* No attempt keeps running for ever: a stopped process, a task cancelled
\* before it began or cancelled twice leave a row that is cleaned up.
StepEnds ==
    \A i \in StepIds :
        (i \in DOMAIN steps /\ steps[i].status = "running")
            ~> (i \in DOMAIN steps /\ steps[i].status # "running")
===============================================================================
