--------------------------- MODULE Storyboard_proofs ---------------------------
(***************************************************************************)
(* For any number of inputs, shots, attempts, edits, restarts and          *)
(* cancellations: types always; and, when the workspace is not read while  *)
(* a task is about to be registered, a saved answer is never asked for     *)
(* again and nobody's earlier edit is covered.                             *)
(***************************************************************************)
EXTENDS Storyboard, SequenceTheorems, TLAPS

USE StoryboardAssumption DEF StoryboardAssumption

NoPeek == "peek" \notin Hazards

WithCkpt == {"answered", "shots", "saved", "based", "finished", "drafting", "basing"}

\* Only the last attempt can be running, and one worker at most is at it.
OneAttempt ==
    /\ \A i \in DOMAIN steps : steps[i].status = "running" => i = Len(steps)
    /\ Task.at # "none" => worker["reader"].at = "none"
    /\ worker["reader"].at \in {"none"} \cup Stopping
    /\ \A w \in Workers : worker[w].at # "none" =>
        /\ worker[w].step = Len(steps) /\ Len(steps) # 0
        /\ \/ worker[w].at # "finished" /\ steps[worker[w].step].status = "running"
           \/ /\ w = "task" /\ worker[w].at \in {"finished", "stopping"}
              /\ steps[worker[w].step].status = "succeeded"

\* A checkpoint that a row or a worker names is there, for the same inputs.
Known(c, i) == c \in DOMAIN steps /\ ckpt[c].saved /\ steps[c].hash = steps[i].hash

CkptKnown ==
    /\ \A i \in StepIds : ckpt[i].saved => i \in DOMAIN steps
    /\ \A i \in DOMAIN steps : steps[i].ck # 0 => Known(steps[i].ck, i)
    /\ \A w \in Workers : worker[w].ck # 0 =>
        worker[w].at # "none" /\ worker[w].copy.saved /\ Known(worker[w].ck, worker[w].step)
    /\ \A w \in Workers : worker[w].at \in WithCkpt => worker[w].ck # 0

Done(h) == \E j \in OfHash(h) : steps[j].status = "succeeded"
NotAnswered(h) == \A i \in OfHash(h) : ~ckpt[i].saved

\* The same inputs are answered once, a checkpoint is completed after a
\* success, and whoever asks or will ask has none.
OneAnswer ==
    /\ \A i, j \in DOMAIN steps :
        ckpt[i].saved /\ ckpt[j].saved /\ steps[i].hash = steps[j].hash => i = j
    /\ \A i \in DOMAIN steps : ckpt[i].saved /\ ckpt[i].completed => Done(steps[i].hash)
    /\ \A w \in Workers :
        worker[w].ck # 0 /\ worker[w].copy.completed => Done(steps[worker[w].step].hash)
    /\ Task.at \in {"starting", "created"} /\ Task.ck = 0 => NotAnswered(steps[Task.step].hash)
    /\ SavedAnswerReused

\* A worker knows of every revision there was when it began; since then, while
\* a task has written none itself, only whole edits have been made.
WholeOnly(from) == \A i \in DOMAIN manifest : i > from => manifest[i] = "whole"

EditsSeen ==
    /\ \A w \in Workers :
        worker[w].at \in {"starting", "created", "answered", "shots", "drafting"} /\ worker[w].ck # 0
            => worker[w].since <= worker[w].copy.base
    /\ Task.at \in {"starting", "created", "asking", "answered", "shots"} => WholeOnly(Task.since)
    /\ Task.at = "drafting" => WholeOnly(Task.copy.base)

Inv == TypeOK /\ OneAttempt /\ CkptKnown /\ OneAnswer /\ EditsSeen
-------------------------------------------------------------------------------
(* Types *)

\* The latest of a set is one of it, or there is none.
LEMMA LatestIsOne ==
  ASSUME NEW S
  PROVE  Latest(S) \in {0} \cup S
BY DEF Latest

\* The latest of one attempt is that attempt.
LEMMA LatestOfOne ==
  ASSUME NEW S \in SUBSET Nat, NEW x \in S, \A y \in S : y = x
  PROVE  Latest(S) = x
<1>1. x \in Nat /\ x <= x
  OBVIOUS
<1>2. S = {x}
  OBVIOUS
<1>3. {i \in S : \A j \in S : j <= i} = {x}
  BY <1>1, <1>2
<1> QED
  BY <1>3 DEF Latest

\* A list that grows keeps the types of what refers to it.
LEMMA TypesGrow ==
  ASSUME TypeOK, steps' \in Seq(StepRow), manifest' \in Seq(Authors),
         Len(steps) <= Len(steps'), Len(manifest) <= Len(manifest')
  PROVE  CkptType \subseteq CkptType' /\ WorkerType \subseteq WorkerType'
<1>1. CkptType \subseteq CkptType'
  BY DEF TypeOK, CkptType
<1>2. 0..Len(steps) \subseteq 0..Len(steps') /\ 0..Len(manifest) \subseteq 0..Len(manifest')
  BY DEF TypeOK
<1>3. WorkerType \subseteq WorkerType'
  BY <1>1, <1>2 DEF WorkerType
<1> QED
  BY <1>1, <1>3

\* What there is of attempts, workers and checkpoints.
LEMMA Rows ==
  ASSUME TypeOK
  PROVE  /\ Len(steps) \in Nat /\ Len(manifest) \in Nat /\ DOMAIN steps = 1..Len(steps)
         /\ \A i \in DOMAIN steps : i \in Nat \ {0} /\ i \in StepIds /\ steps[i] \in StepRow
         /\ \A w \in Workers : worker[w] \in WorkerType /\ worker[w].copy \in CkptType
         /\ \A w \in Workers : worker[w].at # "none" => worker[w].step \in DOMAIN steps
         /\ Task = worker["task"] /\ Task \in WorkerType
<1>1. Len(steps) \in Nat /\ Len(manifest) \in Nat /\ DOMAIN steps = 1..Len(steps)
  BY DEF TypeOK
<1>2. ASSUME NEW i \in DOMAIN steps
      PROVE  i \in Nat \ {0} /\ i \in StepIds /\ steps[i] \in StepRow
  <2>1. i \in 1..Len(steps)
    BY <1>1
  <2>2. steps[i] \in StepRow
    BY <2>1, ElementOfSeq DEF TypeOK
  <2> QED
    BY <2>1, <2>2 DEF TypeOK, StepIds
<1>3. \A w \in Workers : worker[w] \in WorkerType /\ worker[w].copy \in CkptType
  BY DEF TypeOK, WorkerType
<1>4. \A w \in Workers : worker[w].at # "none" => worker[w].step \in DOMAIN steps
  BY <1>1, <1>3 DEF TypeOK, WorkerType
<1> QED
  BY <1>1, <1>2, <1>3, <1>4 DEF Task, Workers

\* The rows and checkpoints that are written are well typed.
LEMMA WrittenTyped ==
  ASSUME TypeOK, NEW w \in Workers
  PROVE  /\ FromAnswer \in CkptType
         /\ Rebased(w) \in CkptType
         /\ [worker[w].copy EXCEPT !.completed = TRUE] \in CkptType
         /\ ~Compiled => OneMoreShot \in CkptType
<1>1. worker[w].copy \in CkptType /\ Task.copy \in CkptType
  BY Rows DEF WorkerType
<1>2. Len(manifest) \in Nat /\ worker[w].own \in 0..Len(manifest)
  BY Rows DEF WorkerType
<1>3. FromAnswer \in CkptType
  BY <1>2 DEF FromAnswer, CkptType
<1>4. Rebased(w) \in CkptType
  BY <1>1, <1>2 DEF Rebased, CkptType
<1>5. [worker[w].copy EXCEPT !.completed = TRUE] \in CkptType
  BY <1>1 DEF CkptType
<1>6. ~Compiled => OneMoreShot \in CkptType
  BY <1>1 DEF OneMoreShot, Compiled, CkptType
<1> QED
  BY <1>3, <1>4, <1>5, <1>6

\* So are the rows of an attempt, however it is written.
LEMMA StepRowsTyped ==
  ASSUME TypeOK, NEW w \in Workers, worker[w].at # "none"
  PROVE  /\ Ended(w) \in StepRow
         /\ w = "task" => Recorded \in StepRow
         /\ [steps[worker[w].step] EXCEPT !.status = "succeeded"] \in StepRow
         /\ \A b \in BOOLEAN : [steps[worker[w].step] EXCEPT !.request = b] \in StepRow
<1>1. steps[worker[w].step] \in StepRow
  BY Rows
<1>2. worker[w].ck \in 0..MaxSteps /\ worker[w].invalid \in BOOLEAN
  BY Rows DEF WorkerType
<1>3. w = "task" => Recorded = [steps[worker[w].step] EXCEPT !.request = TRUE, !.ck = worker[w].ck]
  BY Rows DEF Recorded
<1>4. w = "task" => Recorded \in StepRow
  BY <1>1, <1>2, <1>3 DEF StepRow
<1>5. Ended(w) = [steps[worker[w].step] EXCEPT !.status = "failed", !.answered = worker[w].invalid,
                    !.ck = IF worker[w].ck = 0 THEN steps[worker[w].step].ck ELSE worker[w].ck]
  BY <1>1 DEF Ended, StepRow
<1>6. Ended(w) \in StepRow
  BY <1>1, <1>2, <1>5 DEF StepRow
<1>7. [steps[worker[w].step] EXCEPT !.status = "succeeded"] \in StepRow
  BY <1>1 DEF StepRow
<1>8. \A b \in BOOLEAN : [steps[worker[w].step] EXCEPT !.request = b] \in StepRow
  BY <1>1 DEF StepRow
<1> QED
  BY <1>4, <1>6, <1>7, <1>8

\* A row that is replaced leaves the others.
LEMMA RowReplaced ==
  ASSUME TypeOK, NEW i \in DOMAIN steps, NEW row \in StepRow,
         steps' = [steps EXCEPT ![i] = row]
  PROVE  /\ steps' \in Seq(StepRow) /\ Len(steps') = Len(steps)
         /\ DOMAIN steps' = DOMAIN steps
         /\ \A j \in DOMAIN steps : steps'[j] = IF j = i THEN row ELSE steps[j]
<1>1. steps \in Seq(StepRow) /\ i \in 1..Len(steps)
  BY Rows DEF TypeOK
<1> QED
  BY <1>1, ExceptSeq

\* A revision that is saved comes after all the others.
LEMMA DraftSaved ==
  ASSUME TypeOK, NEW a \in Authors, manifest' = Append(manifest, a)
  PROVE  /\ manifest' \in Seq(Authors) /\ Len(manifest') = Len(manifest) + 1
         /\ \A i \in 1..Len(manifest) : manifest'[i] = manifest[i]
         /\ manifest'[Len(manifest) + 1] = a
BY AppendProperties DEF TypeOK

\* Whatever a worker writes is well typed, and nothing becomes shorter.
LEMMA WriteTyped ==
  ASSUME TypeOK, NEW w \in Workers, Write(w), w = "reader" => worker[w].at \in {"none"} \cup Stopping
  PROVE  /\ steps' \in Seq(StepRow) /\ Len(steps') = Len(steps)
         /\ manifest' \in Seq(Authors) /\ Len(manifest) <= Len(manifest')
         /\ ckpt' \in [StepIds -> CkptType']
<1> DEFINE v == worker[w]
<1>1. steps' \in Seq(StepRow) /\ Len(steps') = Len(steps)
  <2>1. CASE steps' = steps
    BY <2>1 DEF TypeOK
  <2>2. CASE v.at \in {"answered", "based", "ending"}
    <3>1. w = "task" => Task = v
      BY Rows
    <3>2. v.step \in DOMAIN steps
      BY <2>2, Rows
    <3>3. CASE v.at = "answered"
      <4>1. SaveStep(v.step, Recorded) /\ w = "task"
        BY <3>3 DEF Write, Stopping, Workers
      <4> QED
        BY <3>2, <3>3, <4>1, StepRowsTyped, RowReplaced DEF SaveStep
    <3>4. CASE v.at = "based"
      <4>1. SaveStep(v.step, [steps[v.step] EXCEPT !.status = "succeeded"])
        BY <3>4 DEF Write
      <4> QED
        BY <3>2, <3>4, <4>1, StepRowsTyped, RowReplaced DEF SaveStep
    <3>5. CASE v.at = "ending"
      <4>1. SaveStep(v.step, Ended(w))
        BY <3>5 DEF Write
      <4> QED
        BY <3>2, <3>5, <4>1, StepRowsTyped, RowReplaced DEF SaveStep
    <3> QED
      BY <2>2, <3>3, <3>4, <3>5
  <2>3. v.at \notin {"answered", "based", "ending"} => steps' = steps
    BY DEF Write, SaveCkpt, SaveDraft
  <2> QED
    BY <2>1, <2>2, <2>3
<1>2. manifest' \in Seq(Authors) /\ Len(manifest) <= Len(manifest')
  <2>1. manifest' = manifest \/ manifest' = Append(manifest, "job")
    BY DEF Write, SaveCkpt, SaveDraft, SaveStep
  <2> QED
    BY <2>1, DraftSaved, Rows DEF TypeOK, Authors
<1>3. CkptType \subseteq CkptType'
  BY <1>1, <1>2, TypesGrow, Rows
<1>4. ckpt' = ckpt \/ \E i, c : c \in CkptType /\ ckpt' = [ckpt EXCEPT ![i] = c]
  <2>1. FromAnswer \in CkptType /\ Rebased(w) \in CkptType /\ [v.copy EXCEPT !.completed = TRUE] \in CkptType
        /\ (~Compiled => OneMoreShot \in CkptType)
    BY WrittenTyped
  <2>2. CASE v.at = "asking"
    BY <2>1, <2>2 DEF Write, SaveCkpt
  <2>3. CASE v.at = "shots" /\ ~Compiled
    BY <2>1, <2>3 DEF Write, SaveCkpt
  <2>4. CASE v.at \in {"saved", "basing"}
    BY <2>1, <2>4 DEF Write, SaveCkpt
  <2>5. CASE v.at = "finished"
    BY <2>1, <2>5 DEF Write, SaveCkpt
  <2>6. CASE v.at \notin {"asking", "saved", "basing", "finished"} /\ ~(v.at = "shots" /\ ~Compiled)
    BY <2>6 DEF Write, SaveStep, SaveDraft
  <2> QED
    BY <2>2, <2>3, <2>4, <2>5, <2>6
<1>5. ckpt' \in [StepIds -> CkptType']
  BY <1>3, <1>4 DEF TypeOK
<1> QED
  BY <1>1, <1>2, <1>5

\* A worker that moves on keeps what it has.
LEMMA OnTyped ==
  ASSUME TypeOK, NEW w \in Workers, NEW place \in Places
  PROVE  /\ On(w, place) \in WorkerType
         /\ On(w, place).at = place
         /\ On(w, place).step = worker[w].step /\ On(w, place).ck = worker[w].ck
         /\ On(w, place).copy = worker[w].copy /\ On(w, place).own = worker[w].own
         /\ On(w, place).since = worker[w].since /\ On(w, place).invalid = worker[w].invalid
<1>1. worker[w] \in WorkerType
  BY Rows
<1>2. On(w, place) = [worker[w] EXCEPT !.at = place]
  BY DEF On
<1> QED
  BY <1>1, <1>2 DEF WorkerType

\* A worker that is away has no attempt and no checkpoint.
LEMMA AwayTyped ==
  ASSUME TypeOK
  PROVE  Away \in WorkerType /\ Away.at = "none" /\ Away.ck = 0 /\ Away.step = 0
<1>1. NoCkpt \in CkptType
  BY Rows DEF NoCkpt, CkptType
<1> QED
  BY <1>1, Rows DEF Away, WorkerType, Places

\* A step that moves one worker and saves what is well typed.
LEMMA MoveTyped ==
  ASSUME TypeOK, NEW w \in Workers, NEW rec \in WorkerType',
         rec.at # "none" => rec.step # 0,
         worker' = [worker EXCEPT ![w] = rec],
         steps' \in Seq(StepRow), Len(steps) <= Len(steps'), Len(steps') <= MaxSteps,
         manifest' \in Seq(Authors), Len(manifest) <= Len(manifest'),
         ckpt' \in [StepIds -> CkptType'],
         input' \in Inputs, troubles' \in 0..MaxTroubles
  PROVE  TypeOK'
<1>1. CkptType \subseteq CkptType' /\ WorkerType \subseteq WorkerType'
  BY TypesGrow
<1>2. worker \in [Workers -> WorkerType]
  BY DEF TypeOK
<1>3. worker' \in [Workers -> WorkerType']
  BY <1>1, <1>2
<1>4. \A u \in Workers : worker'[u].at # "none" => worker'[u].step # 0
  BY <1>2 DEF TypeOK
<1> QED
  BY <1>3, <1>4 DEF TypeOK

\* A step that leaves rows, checkpoints and manifest alone.
LEMMA QuietTyped ==
  ASSUME TypeOK, NEW w \in Workers, NEW rec \in WorkerType,
         rec.at # "none" => rec.step # 0,
         worker' = [worker EXCEPT ![w] = rec],
         UNCHANGED <<input, steps, ckpt, manifest, troubles>>
  PROVE  TypeOK'
<1>1. Len(steps) <= Len(steps') /\ Len(manifest) <= Len(manifest')
  BY Rows
<1>2. CkptType \subseteq CkptType' /\ WorkerType \subseteq WorkerType'
  BY <1>1, TypesGrow DEF TypeOK
<1>3. ckpt' \in [StepIds -> CkptType']
  BY <1>2 DEF TypeOK
<1>4. rec \in WorkerType'
  BY <1>2
<1>5. /\ steps' \in Seq(StepRow) /\ Len(steps') <= MaxSteps /\ manifest' \in Seq(Authors)
      /\ input' \in Inputs /\ troubles' \in 0..MaxTroubles
  BY DEF TypeOK
<1> QED
  BY <1>1, <1>3, <1>4, <1>5, MoveTyped

\* A write and the move that follows it.
LEMMA AdvanceTyped ==
  ASSUME TypeOK, NEW w \in Workers, NEW place, NEW next \in WorkerType',
         next.at # "none" => next.step # 0,
         Advance(w, place, next), w = "reader" => place \in Stopping
  PROVE  TypeOK'
<1>1. /\ steps' \in Seq(StepRow) /\ Len(steps') = Len(steps)
      /\ manifest' \in Seq(Authors) /\ Len(manifest) <= Len(manifest')
      /\ ckpt' \in [StepIds -> CkptType']
  BY WriteTyped DEF Advance
<1>2. worker' = [worker EXCEPT ![w] = next] /\ input' = input /\ troubles' = troubles
  BY DEF Advance
<1>3. Len(steps) <= Len(steps') /\ Len(steps') <= MaxSteps
  BY <1>1, Rows DEF TypeOK
<1>4. input' \in Inputs /\ troubles' \in 0..MaxTroubles
  BY <1>2 DEF TypeOK
<1> QED
  BY <1>1, <1>2, <1>3, <1>4, MoveTyped

\* The task's own writes keep the types.
LEMMA TaskWritesTyped ==
  ASSUME TypeOK,
         Answer \/ Record \/ CompileShot \/ SaveManifest \/ SaveBase \/ Finish \/ Complete
  PROVE  TypeOK'
<1> USE DEF Workers, Places
<1>1. Task = worker["task"] /\ Task \in WorkerType /\ "task" \in Workers
  BY Rows
<1>2. Task.at # "none" => Task.step # 0 /\ Task.step \in DOMAIN steps
  BY <1>1, Rows DEF TypeOK
<1>3. ASSUME Write("task")
      PROVE  WorkerType \subseteq WorkerType' /\ CkptType \subseteq CkptType'
  BY <1>3, WriteTyped, TypesGrow, Rows
<1>4. CASE Answer
  <2> DEFINE next == [On("task", "answered") EXCEPT !.ck = Task.step, !.copy = FromAnswer]
  <2>1. Advance("task", "asking", next)
    BY <1>4 DEF Answer
  <2>2. Task.step \in 0..MaxSteps
    BY <1>1, Rows DEF WorkerType, TypeOK
  <2>3. FromAnswer \in CkptType
    BY <1>1, WrittenTyped
  <2>4. On("task", "answered") \in WorkerType /\ On("task", "answered").step = Task.step
    BY <1>1, OnTyped
  <2>5. next \in WorkerType /\ next.step = Task.step
    BY <2>2, <2>3, <2>4 DEF WorkerType
  <2>6. next \in WorkerType' /\ Task.step # 0
    BY <2>1, <2>5, <1>2, <1>1, <1>3 DEF Advance
  <2> HIDE DEF next
  <2> QED
    BY <1>1, <2>1, <2>5, <2>6, AdvanceTyped
<1>5. CASE Record
  BY <1>1, <1>2, <1>3, <1>5, OnTyped, AdvanceTyped DEF Record, Advance
<1>6. CASE CompileShot
  <2> DEFINE next == [Task EXCEPT !.copy = OneMoreShot]
  <2>1. Advance("task", "shots", next) /\ ~Compiled
    BY <1>6 DEF CompileShot
  <2>2. next \in WorkerType /\ next.step = Task.step
    BY <2>1, <1>1, WrittenTyped DEF WorkerType
  <2>3. next \in WorkerType' /\ Task.step # 0
    BY <2>1, <2>2, <1>2, <1>1, <1>3 DEF Advance
  <2> HIDE DEF next
  <2> QED
    BY <1>1, <2>1, <2>2, <2>3, AdvanceTyped
<1>7. CASE SaveManifest
  <2> DEFINE next == [On("task", "saved") EXCEPT !.own = Own]
  <2>1. Advance("task", "shots", next) /\ Compiled
    BY <1>7 DEF SaveManifest
  <2>2. Write("task") /\ Task.at = "shots"
    BY <2>1, <1>1 DEF Advance
  <2>3. manifest' = Append(manifest, "job")
    BY <2>1, <2>2, <1>1 DEF Write, SaveDraft
  <2>4. Own \in 0..Len(manifest')
    BY <2>3, DraftSaved, Rows DEF Own, Authors
  <2>5. On("task", "saved") \in WorkerType' /\ On("task", "saved").step = Task.step
    BY <1>1, <1>3, <2>2, OnTyped
  <2>6. next \in WorkerType' /\ next.step = Task.step
    BY <2>4, <2>5 DEF WorkerType
  <2>7. Task.step # 0
    BY <2>2, <1>2
  <2> HIDE DEF next
  <2> QED
    BY <1>1, <2>1, <2>6, <2>7, AdvanceTyped
<1>8. CASE SaveBase
  <2> DEFINE next == [On("task", "based") EXCEPT !.copy = Rebased("task")]
  <2>1. Advance("task", "saved", next)
    BY <1>8 DEF SaveBase
  <2>2. On("task", "based") \in WorkerType /\ On("task", "based").step = Task.step
    BY <1>1, OnTyped
  <2>3. next \in WorkerType /\ next.step = Task.step
    BY <2>2, <1>1, WrittenTyped DEF WorkerType
  <2>4. next \in WorkerType' /\ Task.step # 0
    BY <2>1, <2>3, <1>2, <1>1, <1>3 DEF Advance
  <2> HIDE DEF next
  <2> QED
    BY <1>1, <2>1, <2>3, <2>4, AdvanceTyped
<1>9. CASE Finish
  BY <1>1, <1>2, <1>3, <1>9, OnTyped, AdvanceTyped DEF Finish, Advance
<1>10. CASE Complete
  <2>1. Advance("task", "finished", Away)
    BY <1>10 DEF Complete
  <2>2. Away \in WorkerType' /\ Away.at = "none"
    BY <2>1, <1>3, AwayTyped DEF Advance
  <2> QED
    BY <1>1, <2>1, <2>2, AdvanceTyped
<1> QED
  BY <1>4, <1>5, <1>6, <1>7, <1>8, <1>9, <1>10

\* _stop_storyboard keeps the types, in the task and in a reader.
LEMMA StopTyped ==
  ASSUME TypeOK, NEW w \in Workers, StopStep(w)
  PROVE  TypeOK'
<1> USE DEF Places, Stopping
<1>1. worker[w] \in WorkerType /\ (worker[w].at # "none" => worker[w].step # 0)
  BY Rows DEF TypeOK
<1>2. ASSUME Write(w), worker[w].at \in Stopping
      PROVE  WorkerType \subseteq WorkerType' /\ CkptType \subseteq CkptType'
  BY <1>2, WriteTyped, TypesGrow, Rows
<1>3. CASE Stop(w)
  <2>1. PICK rec \in {Away, On(w, "drafting"), On(w, "ending")} : worker' = [worker EXCEPT ![w] = rec]
    BY <1>3 DEF Stop
  <2>2. rec \in WorkerType /\ (rec.at # "none" => rec.step # 0)
    BY <1>1, <1>3, OnTyped, AwayTyped DEF Stop
  <2>3. UNCHANGED <<input, steps, ckpt, manifest, troubles>>
    BY <1>3 DEF Stop
  <2> QED
    BY <2>1, <2>2, <2>3, QuietTyped
<1>4. CASE Draft(w)
  <2> DEFINE next == [On(w, "basing") EXCEPT !.own = Own]
  <2>1. Advance(w, "drafting", next)
    BY <1>4 DEF Draft
  <2>2. Write(w) /\ worker[w].at = "drafting"
    BY <2>1 DEF Advance
  <2>3. manifest' = Append(manifest, "job")
    BY <2>2 DEF Write, SaveDraft
  <2>4. Own \in 0..Len(manifest')
    BY <2>3, DraftSaved, Rows DEF Own, Authors
  <2>5. On(w, "basing") \in WorkerType' /\ On(w, "basing").step = worker[w].step
    BY <1>2, <2>2, OnTyped
  <2>6. next \in WorkerType' /\ next.step # 0
    BY <1>1, <2>2, <2>4, <2>5 DEF WorkerType
  <2> HIDE DEF next
  <2> QED
    BY <2>1, <2>6, AdvanceTyped
<1>5. CASE Base(w)
  <2> DEFINE next == [On(w, "ending") EXCEPT !.copy = Rebased(w)]
  <2>1. Advance(w, "basing", next)
    BY <1>5 DEF Base
  <2>2. Write(w) /\ worker[w].at = "basing"
    BY <2>1 DEF Advance
  <2>3. On(w, "ending") \in WorkerType /\ On(w, "ending").step = worker[w].step
    BY OnTyped
  <2>4. next \in WorkerType /\ next.step # 0
    BY <1>1, <2>2, <2>3, WrittenTyped DEF WorkerType
  <2>5. next \in WorkerType'
    BY <2>2, <2>4, <1>2
  <2> HIDE DEF next
  <2> QED
    BY <2>1, <2>4, <2>5, AdvanceTyped
<1>6. CASE End(w)
  <2>1. Advance(w, "ending", Away)
    BY <1>6 DEF End
  <2>2. Away \in WorkerType' /\ Away.at = "none"
    BY <2>1, <1>2, AwayTyped DEF Advance
  <2> QED
    BY <2>1, <2>2, AdvanceTyped
<1> QED
  BY <1>3, <1>4, <1>5, <1>6 DEF StopStep

\* compile_storyboard begins an attempt of its own, from a checkpoint of the
\* same inputs or from none.
LEMMA CompileRow ==
  ASSUME TypeOK, Compile
  PROVE  LET c == Checkpoint(input)
             row == [hash |-> input, status |-> "running", request |-> FALSE,
                     answered |-> FALSE, ck |-> 0]
         IN  /\ c \in {0} \cup {i \in OfHash(input) : ckpt[i].saved /\ ~ckpt[i].completed}
             /\ c \in {0} \cup DOMAIN steps /\ c \in 0..MaxSteps
             /\ steps' \in Seq(StepRow) /\ Len(steps') = Len(steps) + 1 /\ Len(steps') <= MaxSteps
             /\ \A i \in DOMAIN steps : steps'[i] = steps[i]
             /\ steps'[Len(steps) + 1] = row
             /\ worker' = [worker EXCEPT !["task"] =
                  AtWork("starting", Len(steps) + 1, c)]
<1> DEFINE c == Checkpoint(input)
           row == [hash |-> input, status |-> "running", request |-> FALSE,
                   answered |-> FALSE, ck |-> 0]
<1>1. c \in {0} \cup {i \in OfHash(input) : ckpt[i].saved /\ ~ckpt[i].completed}
  BY LatestIsOne DEF Checkpoint
<1>2. c \in {0} \cup DOMAIN steps
  BY <1>1 DEF OfHash
<1>3. c \in 0..MaxSteps
  BY <1>2, Rows DEF StepIds
<1>4. steps' = Append(steps, row) /\ Len(steps) < MaxSteps
  BY DEF Compile
<1>5. row \in StepRow /\ steps \in Seq(StepRow)
  BY DEF TypeOK, StepRow
<1>6. /\ steps' \in Seq(StepRow) /\ Len(steps') = Len(steps) + 1 /\ Len(steps') <= MaxSteps
      /\ \A i \in DOMAIN steps : steps'[i] = steps[i]
      /\ steps'[Len(steps) + 1] = row
  BY <1>4, <1>5, AppendProperties, Rows
<1>7. worker' = [worker EXCEPT !["task"] =
        AtWork("starting", Len(steps) + 1, c)]
  BY DEF Compile
<1> QED
  BY <1>1, <1>2, <1>3, <1>6, <1>7

\* compile_storyboard keeps the types.
LEMMA CompileTyped ==
  ASSUME TypeOK, Compile
  PROVE  TypeOK'
<1> DEFINE c == Checkpoint(input)
           rec == AtWork("starting", Len(steps) + 1, c)
<1>1. c \in {0} \cup DOMAIN steps /\ c \in 0..MaxSteps
  BY CompileRow
<1>2. steps' \in Seq(StepRow) /\ Len(steps') = Len(steps) + 1 /\ Len(steps') <= MaxSteps
  BY CompileRow
<1>3. worker' = [worker EXCEPT !["task"] = rec]
  BY CompileRow
<1>4. UNCHANGED <<input, ckpt, manifest, troubles>>
  BY DEF Compile
<1>5. (IF c = 0 THEN NoCkpt ELSE ckpt[c]) \in CkptType
  BY <1>1, Rows DEF TypeOK, NoCkpt, CkptType
<1>6. CkptType' = CkptType
  BY <1>4 DEF CkptType
<1>7. Len(steps) \in Nat /\ Len(manifest) \in Nat
  BY Rows
<1>8. Len(steps) + 1 \in 0..Len(steps') /\ Len(manifest) \in 0..Len(manifest')
  BY <1>2, <1>4, <1>7
<1>9. rec \in WorkerType' /\ rec.step # 0
  BY <1>1, <1>5, <1>6, <1>7, <1>8 DEF WorkerType, Places, AtWork
<1>10. /\ Len(steps) <= Len(steps') /\ Len(manifest) <= Len(manifest')
       /\ manifest' \in Seq(Authors) /\ ckpt' \in [StepIds -> CkptType']
       /\ input' \in Inputs /\ troubles' \in 0..MaxTroubles /\ "task" \in Workers
  BY <1>2, <1>4, <1>6, <1>7 DEF TypeOK, Workers
<1> HIDE DEF rec
<1> QED
  BY <1>2, <1>3, <1>9, <1>10, MoveTyped

\* A recovery takes an attempt that is running, and its row's checkpoint.
LEMMA RecoverRow ==
  ASSUME TypeOK, Recover
  PROVE  LET i == Interrupted IN
         /\ i \in Running /\ worker["reader"].at = "none"
         /\ steps[i].ck \in 0..MaxSteps
         /\ worker' = [worker EXCEPT !["reader"] =
              AtWork("stopping", i, steps[i].ck)]
<1>1. Interrupted \in Running
  BY LatestIsOne DEF Recover, Interrupted
<1>2. steps[Interrupted].ck \in 0..MaxSteps
  BY <1>1, Rows DEF StepRow, Running
<1> QED
  BY <1>1, <1>2 DEF Recover

\* _recover_interrupted_storyboard keeps the types.
LEMMA RecoverTyped ==
  ASSUME TypeOK, Recover
  PROVE  TypeOK'
<1> DEFINE i == Interrupted
           rec == AtWork("stopping", i, steps[i].ck)
<1>1. i \in DOMAIN steps /\ steps[i].ck \in 0..MaxSteps
  BY RecoverRow DEF Running
<1>2. worker' = [worker EXCEPT !["reader"] = rec]
  BY RecoverRow
<1>3. (IF steps[i].ck = 0 THEN NoCkpt ELSE ckpt[steps[i].ck]) \in CkptType
  BY <1>1, Rows DEF TypeOK, NoCkpt, CkptType, StepIds
<1>4. i \in 0..Len(steps) /\ i # 0 /\ Len(manifest) \in 0..Len(manifest) /\ 0 \in 0..Len(manifest)
  BY <1>1, Rows
<1>5. rec \in WorkerType /\ rec.step # 0
  BY <1>1, <1>3, <1>4 DEF WorkerType, Places, Stopping, AtWork
<1>6. UNCHANGED <<input, steps, ckpt, manifest, troubles>> /\ "reader" \in Workers
  BY DEF Recover, Workers
<1> HIDE DEF rec
<1> QED
  BY <1>2, <1>5, <1>6, QuietTyped

\* A failure of the author keeps the types.
LEMMA AskFailsTyped ==
  ASSUME TypeOK, AskFails
  PROVE  TypeOK'
<1>1. PICK request \in BOOLEAN, invalid \in BOOLEAN :
        /\ steps' = [steps EXCEPT ![Task.step].request = request \/ @]
        /\ worker' = [worker EXCEPT !["task"] = [On("task", "stopping") EXCEPT !.invalid = invalid]]
  BY DEF AskFails
<1> DEFINE row == [steps[Task.step] EXCEPT !.request = request \/ steps[Task.step].request]
           rec == [On("task", "stopping") EXCEPT !.invalid = invalid]
<1>2. Task = worker["task"] /\ "task" \in Workers /\ Task.at = "asking" /\ Task.step \in DOMAIN steps
  BY Rows DEF AskFails, Workers
<1>3. row \in StepRow
  BY <1>2, Rows DEF StepRow
<1>4. steps' = [steps EXCEPT ![Task.step] = row]
  BY <1>1
<1>5. steps' \in Seq(StepRow) /\ Len(steps') = Len(steps)
  BY <1>2, <1>3, <1>4, RowReplaced
<1>6. On("task", "stopping") \in WorkerType /\ On("task", "stopping").step = Task.step
  BY <1>2, OnTyped DEF Places, Stopping
<1>7. rec \in WorkerType /\ rec.step = Task.step
  BY <1>6 DEF WorkerType
<1>8. UNCHANGED <<input, ckpt, manifest, troubles>>
  BY DEF AskFails
<1>9. CkptType' = CkptType /\ WorkerType' = WorkerType
  BY <1>5, <1>8 DEF CkptType, WorkerType
<1>10. /\ Len(steps) <= Len(steps') /\ Len(steps') <= MaxSteps /\ Len(manifest) <= Len(manifest')
       /\ manifest' \in Seq(Authors) /\ ckpt' \in [StepIds -> CkptType']
       /\ input' \in Inputs /\ troubles' \in 0..MaxTroubles
  BY <1>5, <1>8, <1>9, Rows DEF TypeOK
<1>11. Task.step # 0 /\ rec \in WorkerType' /\ worker' = [worker EXCEPT !["task"] = rec]
  BY <1>1, <1>2, <1>7, <1>9 DEF TypeOK
<1> HIDE DEF rec
<1> QED
  BY <1>2, <1>5, <1>7, <1>10, <1>11, MoveTyped

\* cancel_storyboard keeps the types, with the write it meets or without.
LEMMA CancelTyped ==
  ASSUME TypeOK, CancelStoryboard
  PROVE  TypeOK'
<1> DEFINE rec == IF worker["task"].at \in Stopping \cup {"created"} THEN Away ELSE On("task", "stopping")
<1>1. Task = worker["task"] /\ "task" \in Workers /\ Task.at # "none" /\ Task.step # 0
  BY Rows DEF CancelStoryboard, Workers, TypeOK
<1>2. worker' = [worker EXCEPT !["task"] = rec]
  BY DEF CancelStoryboard
<1>3. rec \in WorkerType /\ (rec.at # "none" => rec.step # 0)
  BY <1>1, OnTyped, AwayTyped DEF Places, Stopping
<1>4. CASE Write("task")
  <2>1. /\ steps' \in Seq(StepRow) /\ Len(steps') = Len(steps)
        /\ manifest' \in Seq(Authors) /\ Len(manifest) <= Len(manifest')
        /\ ckpt' \in [StepIds -> CkptType']
    BY <1>1, <1>4, WriteTyped
  <2>2. rec \in WorkerType'
    BY <1>3, <2>1, TypesGrow, Rows
  <2>3. Len(steps) <= Len(steps') /\ Len(steps') <= MaxSteps
    BY <2>1, Rows DEF TypeOK
  <2>4. input' \in Inputs /\ troubles' \in 0..MaxTroubles
    BY DEF CancelStoryboard, Trouble, TypeOK
  <2> HIDE DEF rec
  <2> QED
    BY <1>1, <1>2, <1>3, <2>1, <2>2, <2>3, <2>4, MoveTyped
<1>5. CASE UNCHANGED <<steps, ckpt, manifest>>
  <2>1. CkptType' = CkptType /\ WorkerType' = WorkerType
    BY <1>5 DEF CkptType, WorkerType
  <2>2. /\ Len(steps) <= Len(steps') /\ Len(steps') <= MaxSteps /\ Len(manifest) <= Len(manifest')
        /\ steps' \in Seq(StepRow) /\ manifest' \in Seq(Authors) /\ ckpt' \in [StepIds -> CkptType']
    BY <1>5, <2>1, Rows DEF TypeOK
  <2>3. input' \in Inputs /\ troubles' \in 0..MaxTroubles
    BY DEF CancelStoryboard, Trouble, TypeOK
  <2> HIDE DEF rec
  <2> QED
    BY <1>1, <1>2, <1>3, <2>1, <2>2, <2>3, MoveTyped
<1> QED
  BY <1>4, <1>5 DEF CancelStoryboard

\* Steps that change one list only, or restart the process.
LEMMA OthersTyped ==
  ASSUME TypeOK,
         \/ Register \/ Start \/ QualityFails
         \/ EditPrompts \/ EditWhole \/ ChangeInput \/ Crash \/ UNCHANGED vars
  PROVE  TypeOK'
<1>1. Task = worker["task"] /\ "task" \in Workers /\ (Task.at # "none" => Task.step # 0)
  BY Rows DEF Workers, TypeOK
<1>2. CASE Register \/ Start \/ QualityFails
  <2>1. PICK place \in Places : worker' = [worker EXCEPT !["task"] = On("task", place)]
    BY <1>2, <1>1 DEF Register, Start, QualityFails, Moves, On, Places, Stopping
  <2>2. UNCHANGED <<input, steps, ckpt, manifest, troubles>> /\ Task.at # "none"
    BY <1>2, <1>1 DEF Register, Start, QualityFails
  <2>3. On("task", place) \in WorkerType /\ On("task", place).step # 0
    BY <1>1, <2>2, OnTyped
  <2> QED
    BY <1>1, <2>1, <2>2, <2>3, QuietTyped
<1>3. CASE EditPrompts \/ EditWhole
  <2>1. PICK a \in Authors : manifest' = Append(manifest, a)
    BY <1>3 DEF EditPrompts, EditWhole, Authors
  <2>2. UNCHANGED <<input, steps, ckpt, worker, troubles>>
    BY <1>3 DEF EditPrompts, EditWhole
  <2>3. manifest' \in Seq(Authors) /\ Len(manifest) <= Len(manifest')
    BY <2>1, DraftSaved, Rows
  <2>4. CkptType \subseteq CkptType' /\ WorkerType \subseteq WorkerType'
    BY <2>2, <2>3, TypesGrow, Rows DEF TypeOK
  <2>5. worker' \in [Workers -> WorkerType'] /\ ckpt' \in [StepIds -> CkptType']
    BY <2>2, <2>4 DEF TypeOK
  <2> QED
    BY <2>2, <2>3, <2>5 DEF TypeOK
<1>4. CASE ChangeInput \/ UNCHANGED vars
  <2>1. UNCHANGED <<steps, ckpt, manifest, worker, troubles>> /\ input' \in Inputs
    BY <1>4 DEF ChangeInput, vars, TypeOK
  <2>2. CkptType' = CkptType /\ WorkerType' = WorkerType
    BY <2>1 DEF CkptType, WorkerType
  <2> QED
    BY <2>1, <2>2 DEF TypeOK
<1>5. CASE Crash
  <2>1. UNCHANGED <<input, steps, ckpt, manifest>> /\ worker' = [w \in Workers |-> Away]
    BY <1>5 DEF Crash
  <2>2. CkptType' = CkptType /\ WorkerType' = WorkerType
    BY <2>1 DEF CkptType, WorkerType
  <2>3. troubles' \in 0..MaxTroubles
    BY <1>5 DEF Crash, Trouble, TypeOK
  <2> QED
    BY <2>1, <2>2, <2>3, AwayTyped DEF TypeOK
<1> QED
  BY <1>2, <1>3, <1>4, <1>5

\* The initial state is well typed.
LEMMA InitTyped == Init => TypeOK
<1> SUFFICES ASSUME Init PROVE TypeOK
  OBVIOUS
<1>1. steps = <<>> /\ manifest = <<>> /\ Len(steps) = 0 /\ Len(manifest) = 0
  BY DEF Init
<1>2. NoCkpt \in CkptType
  BY <1>1 DEF NoCkpt, CkptType
<1>3. Away \in WorkerType /\ Away.at = "none"
  BY <1>1, <1>2 DEF Away, WorkerType, Places
<1>4. ckpt \in [StepIds -> CkptType] /\ worker \in [Workers -> WorkerType]
  BY <1>2, <1>3 DEF Init
<1>5. \A w \in Workers : worker[w].at = "none"
  BY <1>3 DEF Init
<1>6. steps \in Seq(StepRow) /\ manifest \in Seq(Authors)
  BY <1>1, EmptySeq
<1> QED
  BY <1>1, <1>4, <1>5, <1>6 DEF Init, TypeOK

\* Every step keeps the types.
LEMMA NextTyped == TypeOK /\ [Next]_vars => TypeOK'
<1> SUFFICES ASSUME TypeOK, [Next]_vars PROVE TypeOK'
  OBVIOUS
<1>1. CASE TaskStep
  BY <1>1, TaskWritesTyped, AskFailsTyped, OthersTyped DEF TaskStep
<1>2. CASE People
  BY <1>2, CompileTyped, CancelTyped, OthersTyped DEF People
<1>3. CASE \E w \in Workers : StopStep(w)
  BY <1>3, StopTyped
<1>4. CASE Register \/ Recover \/ Crash \/ UNCHANGED vars
  BY <1>4, RecoverTyped, OthersTyped
<1> QED
  BY <1>1, <1>2, <1>3, <1>4 DEF Next

\* Types, and no knowledge of revisions that are not there, for any constants.
THEOREM TypeCorrect == Spec => []TypeOK
<1>1. Init => TypeOK
  BY InitTyped
<1>2. TypeOK /\ [Next]_vars => TypeOK'
  BY NextTyped
<1> QED
  BY <1>1, <1>2, PTL DEF Spec
-------------------------------------------------------------------------------
(* Attempts, checkpoints and edits *)

\* When one worker moves, the other stays.
LEMMA OneMoves ==
  ASSUME TypeOK, NEW w \in Workers, NEW rec, worker' = [worker EXCEPT ![w] = rec]
  PROVE  /\ worker'[w] = rec
         /\ \A u \in Workers : u # w => worker'[u] = worker[u]
         /\ Task' = worker'["task"] /\ Task = worker["task"]
BY DEF TypeOK, Task

\* The parts of the invariant that speak of rows and checkpoints only.
RowsRight ==
    /\ \A i \in DOMAIN steps : steps[i].status = "running" => i = Len(steps)
    /\ \A i \in StepIds : ckpt[i].saved => i \in DOMAIN steps
    /\ \A i \in DOMAIN steps : steps[i].ck # 0 => Known(steps[i].ck, i)
    /\ \A i, j \in DOMAIN steps :
        ckpt[i].saved /\ ckpt[j].saved /\ steps[i].hash = steps[j].hash => i = j
    /\ \A i \in DOMAIN steps : ckpt[i].saved /\ ckpt[i].completed => Done(steps[i].hash)

\* What every write of a worker leaves as it was.
Kept ==
    /\ Len(steps') = Len(steps) /\ DOMAIN steps' = DOMAIN steps
    /\ \A i \in DOMAIN steps : steps'[i].hash = steps[i].hash
    /\ \A i \in DOMAIN steps : ckpt[i].saved => ckpt'[i].saved
    /\ \A h : Done(h) => Done(h)'

\* Saving a checkpoint: an answer to inputs that have none, or one again.
LEMMA CkptWritten ==
  ASSUME Inv, NEW i \in DOMAIN steps, NEW c, c.saved,
         c.completed => Done(steps[i].hash),
         ckpt[i].saved \/ NotAnswered(steps[i].hash),
         ckpt' = [ckpt EXCEPT ![i] = c], steps' = steps
  PROVE  /\ RowsRight' /\ Kept
         /\ ckpt[i].saved => \A j \in DOMAIN steps : ckpt'[j].saved => ckpt[j].saved
<1> USE DEF Inv
<1>1. \A j \in DOMAIN steps : ckpt'[j] = IF j = i THEN c ELSE ckpt[j]
  BY Rows DEF TypeOK
<1>2. \A j \in StepIds : j # i => ckpt'[j] = ckpt[j]
  BY DEF TypeOK
<1>3. \A h : Done(h)' = Done(h)
  BY DEF Done, OfHash
<1>4. Kept
  BY <1>1, <1>3 DEF Kept
<1>5. \A j \in DOMAIN steps : steps[j].status = "running" => j = Len(steps)
  BY DEF OneAttempt
<1>6. \A j \in StepIds : ckpt'[j].saved => j \in DOMAIN steps
  BY <1>2 DEF CkptKnown
<1>7. \A j \in DOMAIN steps : steps[j].ck # 0 => Known(steps[j].ck, j)'
  BY <1>1 DEF CkptKnown, Known
<1>8. ASSUME NEW j \in DOMAIN steps, NEW k \in DOMAIN steps,
             ckpt'[j].saved, ckpt'[k].saved, steps[j].hash = steps[k].hash
      PROVE  j = k
  <2>1. CASE ckpt[i].saved
    BY <1>1, <1>8, <2>1 DEF OneAnswer
  <2>2. CASE NotAnswered(steps[i].hash)
    <3>1. \A n \in DOMAIN steps : steps[n].hash = steps[i].hash => ~ckpt[n].saved
      BY <2>2 DEF NotAnswered, OfHash
    <3> QED
      BY <1>1, <1>8, <3>1 DEF OneAnswer
  <2> QED
    BY <2>1, <2>2
<1>9. ASSUME NEW j \in DOMAIN steps, ckpt'[j].saved, ckpt'[j].completed
      PROVE  Done(steps[j].hash)
  BY <1>1, <1>9 DEF OneAnswer
<1>10. RowsRight'
  BY <1>3, <1>5, <1>6, <1>7, <1>8, <1>9 DEF RowsRight
<1> QED
  BY <1>1, <1>4, <1>10

\* Saving the row of the attempt at work.
LEMMA RowWritten ==
  ASSUME Inv, NEW i \in DOMAIN steps, NEW row \in StepRow,
         i = Len(steps), row.hash = steps[i].hash,
         row.ck # 0 => Known(row.ck, i),
         steps[i].status = "succeeded" => row.status = "succeeded",
         steps' = [steps EXCEPT ![i] = row], ckpt' = ckpt
  PROVE  /\ RowsRight' /\ Kept
         /\ steps'[i] = row
<1> USE DEF Inv
<1>1. /\ Len(steps') = Len(steps) /\ DOMAIN steps' = DOMAIN steps
      /\ \A j \in DOMAIN steps : steps'[j] = IF j = i THEN row ELSE steps[j]
  BY RowReplaced
<1>2. \A j \in DOMAIN steps : steps'[j].hash = steps[j].hash
  BY <1>1
<1>3. \A h : Done(h) => Done(h)'
  <2> SUFFICES ASSUME NEW h, Done(h) PROVE Done(h)'
    OBVIOUS
  <2>1. PICK j \in DOMAIN steps : steps[j].hash = h /\ steps[j].status = "succeeded"
    BY DEF Done, OfHash
  <2>2. j \in DOMAIN steps' /\ steps'[j].hash = h /\ steps'[j].status = "succeeded"
    BY <1>1, <2>1
  <2> QED
    BY <2>2 DEF Done, OfHash
<1>4. Kept
  BY <1>1, <1>2, <1>3 DEF Kept
<1>5. \A j \in DOMAIN steps' : steps'[j].status = "running" => j = Len(steps')
  BY <1>1 DEF OneAttempt
<1>6. ASSUME NEW j \in DOMAIN steps, steps'[j].ck # 0
      PROVE  /\ steps'[j].ck \in DOMAIN steps /\ ckpt'[steps'[j].ck].saved
             /\ steps'[steps'[j].ck].hash = steps'[j].hash
  <2>1. Known(steps'[j].ck, j)
    BY <1>1, <1>6 DEF CkptKnown
  <2> QED
    BY <1>1, <1>2, <2>1 DEF Known
<1>7. ASSUME NEW j \in DOMAIN steps, ckpt'[j].saved, ckpt'[j].completed, NEW h, h = steps'[j].hash
      PROVE  Done(h)'
  <2>1. Done(h)
    BY <1>2, <1>7 DEF OneAnswer
  <2> QED
    BY <1>3, <2>1
<1>8. \A j \in StepIds : ckpt'[j].saved => j \in DOMAIN steps'
  BY <1>1 DEF CkptKnown
<1>9. \A j, k \in DOMAIN steps' :
        ckpt'[j].saved /\ ckpt'[k].saved /\ steps'[j].hash = steps'[k].hash => j = k
  BY <1>1, <1>2 DEF OneAnswer
<1>10. RowsRight'
  <2>1. (\A j \in DOMAIN steps : steps[j].ck # 0 => Known(steps[j].ck, j))'
    BY <1>1, <1>6 DEF Known
  <2>2. (\A j \in DOMAIN steps : ckpt[j].saved /\ ckpt[j].completed => Done(steps[j].hash))'
    BY <1>1, <1>7
  <2> QED
    BY <1>5, <1>8, <1>9, <2>1, <2>2 DEF RowsRight
<1> QED
  BY <1>1, <1>4, <1>10

\* A worker at work is at the last attempt, and what it names is there.
LEMMA AtAttempt ==
  ASSUME Inv, NEW w \in Workers, worker[w].at # "none"
  PROVE  /\ worker[w].step \in DOMAIN steps /\ worker[w].step = Len(steps)
         /\ worker[w].ck # 0 =>
              /\ worker[w].ck \in DOMAIN steps /\ ckpt[worker[w].ck].saved /\ worker[w].copy.saved
              /\ steps[worker[w].ck].hash = steps[worker[w].step].hash
              /\ worker[w].copy.completed => Done(steps[worker[w].ck].hash)
BY Rows DEF Inv, OneAttempt, CkptKnown, Known, OneAnswer

\* Every write of a worker keeps the rows and checkpoints right.
LEMMA WriteKeeps ==
  ASSUME Inv, NEW w \in Workers, worker[w].at # "none", Write(w), w = "reader" => worker[w].at \in Stopping
  PROVE  /\ RowsRight' /\ Kept
         /\ worker[w].at # "asking" => \A j \in DOMAIN steps : ckpt'[j].saved => ckpt[j].saved
         /\ worker[w].at = "asking" => ckpt'[worker[w].step].saved
         /\ worker[w].at = "based" => steps'[worker[w].step].status = "succeeded"
         /\ worker[w].at \notin {"based", "ending"} =>
              steps'[worker[w].step].status = steps[worker[w].step].status
         /\ worker[w].at \notin {"shots", "drafting"} => manifest' = manifest
<1> USE DEF Inv
<1> DEFINE v == worker[w]
<1>1. /\ v.step \in DOMAIN steps /\ v.step = Len(steps) /\ v \in WorkerType
      /\ v.ck # 0 =>
           /\ v.ck \in DOMAIN steps /\ ckpt[v.ck].saved /\ v.copy.saved
           /\ steps[v.ck].hash = steps[v.step].hash
           /\ v.copy.completed => Done(steps[v.ck].hash)
  BY AtAttempt, Rows
<1>2. v.at \in WithCkpt => v.ck # 0
  BY DEF CkptKnown
<1>3. w = "task" => Task = v
  BY Rows
<1>4. v.copy \in CkptType /\ steps[v.step] \in StepRow
  BY <1>1, Rows
<1>5. CASE v.at = "asking"
  <2>1. w = "task" /\ NotAnswered(steps[v.step].hash)
    BY <1>3, <1>5 DEF OneAnswer, SavedAnswerReused, NotAnswered, Stopping, Workers
  <2>2. ckpt' = [ckpt EXCEPT ![v.step] = FromAnswer] /\ steps' = steps /\ manifest' = manifest
    BY <1>5 DEF Write, SaveCkpt
  <2>3. FromAnswer.saved /\ ~FromAnswer.completed
    BY DEF FromAnswer
  <2>4. ckpt'[v.step] = FromAnswer
    BY <1>1, <2>2, Rows DEF TypeOK
  <2> QED
    BY <1>1, <1>5, <2>1, <2>2, <2>3, <2>4, CkptWritten
<1>6. CASE v.at = "answered"
  <2>1. w = "task"
    BY <1>6 DEF Stopping, Workers
  <2>2. steps' = [steps EXCEPT ![v.step] = Recorded] /\ ckpt' = ckpt /\ manifest' = manifest
    BY <1>3, <1>6, <2>1 DEF Write, SaveStep
  <2>3. Recorded = [steps[v.step] EXCEPT !.request = TRUE, !.ck = v.ck] /\ Recorded \in StepRow
    BY <1>3, <1>6, <2>1, StepRowsTyped DEF Recorded
  <2>4. Recorded.hash = steps[v.step].hash /\ Recorded.ck = v.ck /\ Recorded.status = steps[v.step].status
    BY <1>4, <2>3 DEF StepRow
  <2>5. Recorded.ck # 0 => Known(Recorded.ck, v.step)
    BY <1>1, <2>4 DEF Known
  <2> QED
    BY <1>1, <1>6, <2>2, <2>3, <2>4, <2>5, RowWritten
<1>7. CASE v.at = "shots" /\ ~Compiled
  <2>1. w = "task" /\ v.ck # 0
    BY <1>2, <1>7 DEF Stopping, Workers, WithCkpt
  <2>2. ckpt' = [ckpt EXCEPT ![v.ck] = OneMoreShot] /\ steps' = steps /\ manifest' = manifest
    BY <1>7 DEF Write, SaveCkpt
  <2>3. OneMoreShot = [v.copy EXCEPT !.shots = v.copy.shots + 1]
    BY <1>3, <2>1 DEF OneMoreShot
  <2>4. OneMoreShot.saved = v.copy.saved /\ OneMoreShot.completed = v.copy.completed
    BY <1>4, <2>3 DEF CkptType
  <2> QED
    BY <1>1, <1>7, <2>1, <2>2, <2>4, CkptWritten
<1>8. CASE v.at \in {"saved", "basing"}
  <2>1. v.ck # 0
    BY <1>2, <1>8 DEF WithCkpt
  <2>2. ckpt' = [ckpt EXCEPT ![v.ck] = Rebased(w)] /\ steps' = steps /\ manifest' = manifest
    BY <1>8 DEF Write, SaveCkpt
  <2>3. Rebased(w) = [v.copy EXCEPT !.base = v.own]
    BY DEF Rebased
  <2>4. Rebased(w).saved = v.copy.saved /\ Rebased(w).completed = v.copy.completed
    BY <1>4, <2>3 DEF CkptType
  <2> QED
    BY <1>1, <1>8, <2>1, <2>2, <2>4, CkptWritten
<1>9. CASE v.at = "based"
  <2> DEFINE row == [steps[v.step] EXCEPT !.status = "succeeded"]
  <2>1. steps' = [steps EXCEPT ![v.step] = row] /\ ckpt' = ckpt /\ manifest' = manifest
    BY <1>9 DEF Write, SaveStep
  <2>2. row \in StepRow /\ row.hash = steps[v.step].hash /\ row.ck = steps[v.step].ck /\ row.status = "succeeded"
    BY <1>4, <1>9, StepRowsTyped DEF StepRow
  <2>3. row.ck # 0 => Known(row.ck, v.step)
    BY <1>1, <2>2 DEF CkptKnown
  <2> HIDE DEF row
  <2> QED
    BY <1>1, <1>9, <2>1, <2>2, <2>3, RowWritten
<1>10. CASE v.at = "finished"
  <2> DEFINE c == [v.copy EXCEPT !.completed = TRUE]
  <2>1. v.ck # 0 /\ w = "task"
    BY <1>2, <1>10 DEF WithCkpt, Stopping, Workers
  <2>2. ckpt' = [ckpt EXCEPT ![v.ck] = c] /\ steps' = steps /\ manifest' = manifest
    BY <1>10 DEF Write, SaveCkpt
  <2>3. c.saved = v.copy.saved
    BY <1>4 DEF CkptType
  <2>4. steps[v.step].status = "succeeded"
    BY <1>10 DEF OneAttempt
  <2>5. Done(steps[v.ck].hash)
    BY <1>1, <2>1, <2>4 DEF Done, OfHash
  <2> HIDE DEF c
  <2> QED
    BY <1>1, <1>10, <2>1, <2>2, <2>3, <2>5, CkptWritten
<1>11. CASE v.at = "ending"
  <2>1. steps' = [steps EXCEPT ![v.step] = Ended(w)] /\ ckpt' = ckpt /\ manifest' = manifest
    BY <1>11 DEF Write, SaveStep
  <2>2. Ended(w) = [steps[v.step] EXCEPT !.status = "failed", !.answered = v.invalid,
                      !.ck = IF v.ck = 0 THEN steps[v.step].ck ELSE v.ck]
    BY <1>4 DEF Ended, StepRow
  <2>3. /\ Ended(w) \in StepRow /\ Ended(w).hash = steps[v.step].hash
        /\ Ended(w).ck = IF v.ck = 0 THEN steps[v.step].ck ELSE v.ck
    BY <1>4, <1>11, <2>2, StepRowsTyped DEF StepRow
  <2>4. steps[v.step].status = "running"
    BY <1>11 DEF OneAttempt
  <2>5. Ended(w).ck # 0 => Known(Ended(w).ck, v.step)
    BY <1>1, <2>3 DEF CkptKnown, Known
  <2> QED
    BY <1>1, <1>11, <2>1, <2>3, <2>4, <2>5, RowWritten
<1>12. CASE v.at \notin {"asking", "answered", "saved", "basing", "based", "finished", "ending"}
            /\ ~(v.at = "shots" /\ ~Compiled)
  <2>1. steps' = steps /\ ckpt' = ckpt
    BY <1>12 DEF Write, SaveDraft
  <2>2. v.at \notin {"shots", "drafting"} => manifest' = manifest
    BY <1>12 DEF Write
  <2>3. RowsRight
    BY DEF RowsRight, OneAttempt, CkptKnown, OneAnswer
  <2>4. RowsRight' /\ Kept
    BY <2>1, <2>3 DEF RowsRight, Kept, Known, Done, OfHash
  <2> QED
    BY <1>12, <2>1, <2>2, <2>4
<1> QED
  BY <1>5, <1>6, <1>7, <1>8, <1>9, <1>10, <1>11, <1>12

\* The same invariant, by rows and workers.
TaskRight ==
    /\ Task.at = "none" => Task.ck = 0
    /\ Task.at # "none" =>
        /\ worker["reader"].at = "none"
        /\ Task.step = Len(steps) /\ Len(steps) # 0
        /\ Task.at = "finished" => steps[Task.step].status = "succeeded"
        /\ Task.at = "stopping" => steps[Task.step].status \in {"running", "succeeded"}
        /\ Task.at \notin {"finished", "stopping"} => steps[Task.step].status = "running"
        /\ Task.ck # 0 => /\ Task.copy.saved /\ Known(Task.ck, Task.step)
                          /\ Task.copy.completed => Done(steps[Task.step].hash)
        /\ Task.at \in WithCkpt => Task.ck # 0
        /\ Task.at = "asking" \/ (Task.at \in {"starting", "created"} /\ Task.ck = 0)
             => NotAnswered(steps[Task.step].hash)

ReaderRight ==
    LET r == worker["reader"] IN
    /\ r.at = "none" => r.ck = 0
    /\ r.at # "none" =>
        /\ r.at \in Stopping
        /\ r.step = Len(steps) /\ Len(steps) # 0 /\ steps[r.step].status = "running"
        /\ r.ck # 0 => /\ r.copy.saved /\ Known(r.ck, r.step)
                       /\ r.copy.completed => Done(steps[r.step].hash)
        /\ r.at \in WithCkpt => r.ck # 0

\* The parts make the invariant again.
LEMMA Join == TypeOK /\ RowsRight /\ TaskRight /\ ReaderRight => OneAttempt /\ CkptKnown /\ OneAnswer
<1> SUFFICES ASSUME TypeOK, RowsRight, TaskRight, ReaderRight
             PROVE  OneAttempt /\ CkptKnown /\ OneAnswer
  OBVIOUS
<1>1. Task = worker["task"] /\ \A w \in Workers : w = "task" \/ w = "reader"
  BY Rows DEF Workers
<1>2. OneAttempt
  <2>1. \A i \in DOMAIN steps : steps[i].status = "running" => i = Len(steps)
    BY DEF RowsRight
  <2>2. /\ Task.at # "none" => worker["reader"].at = "none"
        /\ worker["reader"].at \in {"none"} \cup Stopping
    BY DEF TaskRight, ReaderRight
  <2>3. ASSUME worker["task"].at # "none"
        PROVE  /\ worker["task"].step = Len(steps) /\ Len(steps) # 0
               /\ \/ /\ worker["task"].at # "finished"
                     /\ steps[worker["task"].step].status = "running"
                  \/ /\ worker["task"].at \in {"finished", "stopping"}
                     /\ steps[worker["task"].step].status = "succeeded"
    BY <1>1, <2>3 DEF TaskRight
  <2>4. ASSUME worker["reader"].at # "none"
        PROVE  /\ worker["reader"].step = Len(steps) /\ Len(steps) # 0
               /\ worker["reader"].at # "finished"
               /\ steps[worker["reader"].step].status = "running"
    BY <2>4 DEF ReaderRight, Stopping
  <2> QED
    BY <1>1, <2>1, <2>2, <2>3, <2>4 DEF OneAttempt
<1>3. CkptKnown
  BY <1>1 DEF CkptKnown, RowsRight, TaskRight, ReaderRight, WithCkpt
<1>4. OneAnswer
  <2>1. SavedAnswerReused
    BY DEF SavedAnswerReused, TaskRight, NotAnswered
  <2>2. \A w \in Workers : worker[w].ck # 0 /\ worker[w].copy.completed => Done(steps[worker[w].step].hash)
    BY <1>1 DEF TaskRight, ReaderRight
  <2> QED
    BY <2>1, <2>2 DEF OneAnswer, RowsRight, TaskRight
<1> QED
  BY <1>2, <1>3, <1>4

\* The invariant gives each part.
LEMMA Split ==
  ASSUME Inv
  PROVE  RowsRight /\ TaskRight /\ ReaderRight
<1> USE DEF Inv
<1>1. Task = worker["task"] /\ "task" \in Workers /\ "reader" \in Workers
  BY Rows DEF Workers
<1>2. RowsRight
  BY DEF RowsRight, OneAttempt, CkptKnown, OneAnswer
<1>3. Task.at = "none" => Task.ck = 0
  BY <1>1 DEF CkptKnown
<1>4. ASSUME Task.at # "none"
      PROVE  /\ worker["reader"].at = "none"
             /\ Task.step = Len(steps) /\ Len(steps) # 0
             /\ Task.at = "finished" => steps[Task.step].status = "succeeded"
             /\ Task.at = "stopping" => steps[Task.step].status \in {"running", "succeeded"}
             /\ Task.at \notin {"finished", "stopping"} => steps[Task.step].status = "running"
  BY <1>1, <1>4 DEF OneAttempt
<1>5. /\ Task.ck # 0 => /\ Task.copy.saved /\ Known(Task.ck, Task.step)
                        /\ Task.copy.completed => Done(steps[Task.step].hash)
      /\ Task.at \in WithCkpt => Task.ck # 0
  BY <1>1 DEF CkptKnown, OneAnswer
<1>6. Task.at = "asking" \/ (Task.at \in {"starting", "created"} /\ Task.ck = 0)
        => NotAnswered(steps[Task.step].hash)
  BY DEF OneAnswer, SavedAnswerReused, NotAnswered
<1>7. TaskRight
  BY <1>3, <1>4, <1>5, <1>6 DEF TaskRight
<1>8. ReaderRight
  BY <1>1 DEF ReaderRight, OneAttempt, CkptKnown, OneAnswer
<1> QED
  BY <1>2, <1>7, <1>8

\* A task moves on: what is at its new place has to be right.
LEMMA TaskMoves ==
  ASSUME Inv, TypeOK', RowsRight', Kept, Task.at # "none",
         NEW rec, worker' = [worker EXCEPT !["task"] = rec],
         rec.at = "none" => rec.ck = 0,
         rec.at # "none" =>
            /\ rec.step = Task.step
            /\ rec.at = "finished" => steps'[Task.step].status = "succeeded"
            /\ rec.at = "stopping" => steps'[Task.step].status \in {"running", "succeeded"}
            /\ rec.at \notin {"finished", "stopping"} => steps'[Task.step].status = "running"
            /\ rec.ck # 0 => /\ rec.copy.saved /\ rec.ck \in DOMAIN steps /\ ckpt'[rec.ck].saved
                             /\ steps[rec.ck].hash = steps[Task.step].hash
                             /\ rec.copy.completed => Done(steps[Task.step].hash)
            /\ rec.at \in WithCkpt => rec.ck # 0
            /\ rec.at = "asking" \/ (rec.at \in {"starting", "created"} /\ rec.ck = 0)
                 => \A j \in OfHash(steps[Task.step].hash) : ~ckpt'[j].saved
  PROVE  OneAttempt' /\ CkptKnown' /\ OneAnswer'
<1> USE DEF Inv
<1>1. /\ "task" \in Workers /\ "reader" \in Workers /\ Task = worker["task"]
      /\ Task' = rec /\ worker'["reader"] = worker["reader"]
  BY OneMoves DEF Workers
<1>2. worker["reader"].at = "none" /\ worker["reader"].ck = 0
  BY <1>1 DEF OneAttempt, CkptKnown
<1>3. Task.step \in DOMAIN steps /\ Task.step = Len(steps) /\ Len(steps) # 0 /\ Len(steps') = Len(steps)
  BY <1>1, AtAttempt DEF OneAttempt, Kept
<1>4. ReaderRight'
  BY <1>1, <1>2 DEF ReaderRight
<1>5. ASSUME rec.at # "none", rec.ck # 0
      PROVE  rec.copy.saved /\ Known(rec.ck, rec.step)' /\ (rec.copy.completed => Done(steps[Task.step].hash)')
  <2>1. rec.ck \in DOMAIN steps' /\ ckpt'[rec.ck].saved /\ steps'[rec.ck].hash = steps'[Task.step].hash
    BY <1>3, <1>5 DEF Kept
  <2> QED
    BY <1>1, <1>3, <1>5, <2>1 DEF Known, Kept
<1>6. ASSUME rec.at = "asking" \/ (rec.at \in {"starting", "created"} /\ rec.ck = 0)
      PROVE  NotAnswered(steps[Task.step].hash)'
  <2>1. rec.step = Task.step /\ \A j \in OfHash(steps[Task.step].hash) : ~ckpt'[j].saved
    BY <1>6
  <2>2. steps'[Task.step].hash = steps[Task.step].hash
    BY <1>3 DEF Kept
  <2>3. \A j \in DOMAIN steps' : steps'[j].hash = steps'[Task.step].hash => ~ckpt'[j].saved
    BY <2>1, <2>2 DEF Kept, OfHash
  <2> QED
    BY <1>1, <2>1, <2>3 DEF NotAnswered, OfHash
<1>7. TaskRight'
  BY <1>1, <1>2, <1>3, <1>5, <1>6 DEF TaskRight
<1> QED
  BY <1>4, <1>7, Join, PTL

\* What is known of a task at work.
LEMMA TaskFacts ==
  ASSUME Inv, Task.at # "none"
  PROVE  /\ Task = worker["task"] /\ "task" \in Workers /\ Task \in WorkerType
         /\ Task.step \in DOMAIN steps /\ Task.step = Len(steps) /\ Task.step # 0
         /\ worker["reader"].at = "none"
         /\ Task.at = "finished" => steps[Task.step].status = "succeeded"
         /\ Task.at = "stopping" => steps[Task.step].status \in {"running", "succeeded"}
         /\ Task.at \notin {"finished", "stopping"} => steps[Task.step].status = "running"
         /\ Task.ck # 0 =>
              /\ Task.copy.saved /\ Task.ck \in DOMAIN steps /\ ckpt[Task.ck].saved
              /\ steps[Task.ck].hash = steps[Task.step].hash
              /\ Task.copy.completed => Done(steps[Task.step].hash)
         /\ Task.at \in WithCkpt => Task.ck # 0
         /\ Task.at = "asking" \/ (Task.at \in {"starting", "created"} /\ Task.ck = 0)
              => \A j \in OfHash(steps[Task.step].hash) : ~ckpt[j].saved
<1>1. Task = worker["task"] /\ "task" \in Workers /\ Task \in WorkerType
      /\ Task.step \in DOMAIN steps /\ Task.step = Len(steps) /\ Task.step # 0
  BY AtAttempt, Rows DEF Inv, Workers
<1>2. TaskRight
  BY Split
<1> QED
  BY <1>1, <1>2 DEF TaskRight, Known, NotAnswered

\* What writes neither rows nor checkpoints leaves them right.
LEMMA QuietKeeps ==
  ASSUME Inv, steps' = steps, ckpt' = ckpt
  PROVE  RowsRight' /\ Kept
<1>1. RowsRight
  BY Split
<1> QED
  BY <1>1 DEF RowsRight, Kept, Known, Done, OfHash

\* A task that moves without writing, to a place where it may be.
LEMMA TaskGoes ==
  ASSUME Inv, TypeOK', Task.at # "none", NEW place \in Places \ {"none"},
         Moves("task", place), UNCHANGED <<steps, ckpt>>,
         place # "finished", place # "stopping" => Task.at \notin {"finished", "stopping"},
         place \in WithCkpt => Task.ck # 0,
         place = "asking" \/ (place \in {"starting", "created"} /\ Task.ck = 0)
            => Task.at \in {"starting", "created"} /\ Task.ck = 0
  PROVE  OneAttempt' /\ CkptKnown' /\ OneAnswer'
<1> DEFINE rec == On("task", place)
<1>1. RowsRight' /\ Kept
  BY QuietKeeps
<1>2. /\ rec.at = place /\ rec.step = Task.step /\ rec.ck = Task.ck /\ rec.copy = Task.copy
  BY OnTyped, TaskFacts DEF Inv
<1>3. worker' = [worker EXCEPT !["task"] = rec]
  BY DEF Moves, On
<1>4. /\ place = "stopping" => steps'[Task.step].status \in {"running", "succeeded"}
      /\ place \notin {"finished", "stopping"} => steps'[Task.step].status = "running"
      /\ Task.ck # 0 => /\ Task.copy.saved /\ Task.ck \in DOMAIN steps /\ ckpt'[Task.ck].saved
                        /\ steps[Task.ck].hash = steps[Task.step].hash
                        /\ Task.copy.completed => Done(steps[Task.step].hash)
      /\ place = "asking" \/ (place \in {"starting", "created"} /\ Task.ck = 0)
            => \A j \in OfHash(steps[Task.step].hash) : ~ckpt'[j].saved
  BY TaskFacts
<1> HIDE DEF rec
<1> QED
  BY <1>1, <1>2, <1>3, <1>4, TaskMoves

\* The task's moves without a write: registered, begun, given up.
LEMMA QuietTaskRight ==
  ASSUME Inv, TypeOK', Register \/ Start \/ QualityFails
  PROVE  OneAttempt' /\ CkptKnown' /\ OneAnswer'
<1> USE DEF Places, Stopping, WithCkpt
<1>1. CASE Register
  BY <1>1, TaskGoes DEF Register
<1>2. CASE Start
  <2>1. Task.at = "created" /\ UNCHANGED <<steps, ckpt>>
    BY <1>2 DEF Start
  <2>2. CASE Task.ck = 0
    BY <1>2, <2>1, <2>2, TaskGoes DEF Start
  <2>3. CASE Task.ck # 0
    BY <1>2, <2>1, <2>3, TaskGoes DEF Start
  <2> QED
    BY <2>2, <2>3
<1>3. CASE QualityFails
  BY <1>3, TaskGoes DEF QualityFails
<1> QED
  BY <1>1, <1>2, <1>3

\* A failure of the author leaves the attempt without an answer.
LEMMA AskFailsRight ==
  ASSUME Inv, TypeOK', AskFails
  PROVE  OneAttempt' /\ CkptKnown' /\ OneAnswer'
<1>1. PICK request \in BOOLEAN, invalid \in BOOLEAN :
        /\ steps' = [steps EXCEPT ![Task.step].request = request \/ @]
        /\ worker' = [worker EXCEPT !["task"] = [On("task", "stopping") EXCEPT !.invalid = invalid]]
  BY DEF AskFails
<1> DEFINE row == [steps[Task.step] EXCEPT !.request = request \/ steps[Task.step].request]
           rec == [On("task", "stopping") EXCEPT !.invalid = invalid]
<1>2. Task.at = "asking" /\ ckpt' = ckpt
  BY DEF AskFails
<1>3. steps[Task.step] \in StepRow /\ Task.step \in DOMAIN steps /\ Task.step = Len(steps)
  BY <1>2, TaskFacts, Rows DEF Inv
<1>4. /\ row \in StepRow /\ row.hash = steps[Task.step].hash /\ row.ck = steps[Task.step].ck
      /\ row.status = steps[Task.step].status
  BY <1>3 DEF StepRow
<1>5. steps' = [steps EXCEPT ![Task.step] = row]
  BY <1>1
<1>6. row.ck # 0 => Known(row.ck, Task.step)
  BY <1>3, <1>4 DEF Inv, CkptKnown
<1>7. RowsRight' /\ Kept /\ steps'[Task.step].status = "running"
  <2> HIDE DEF row
  <2> QED
    BY <1>2, <1>3, <1>4, <1>5, <1>6, RowWritten, TaskFacts
<1>8. rec.at = "stopping" /\ rec.step = Task.step /\ rec.ck = Task.ck /\ rec.copy = Task.copy
  <2>1. /\ On("task", "stopping") \in WorkerType /\ On("task", "stopping").at = "stopping"
        /\ On("task", "stopping").step = Task.step /\ On("task", "stopping").ck = Task.ck
        /\ On("task", "stopping").copy = Task.copy
    BY <1>2, OnTyped, TaskFacts DEF Inv, Places, Stopping
  <2> QED
    BY <2>1 DEF WorkerType
<1>9. /\ Task.ck # 0 => /\ Task.copy.saved /\ Task.ck \in DOMAIN steps /\ ckpt'[Task.ck].saved
                        /\ steps[Task.ck].hash = steps[Task.step].hash
                        /\ Task.copy.completed => Done(steps[Task.step].hash)
  BY <1>2, TaskFacts
<1>10. worker' = [worker EXCEPT !["task"] = rec]
  BY <1>1
<1> HIDE DEF row, rec
<1> QED
  BY <1>2, <1>7, <1>8, <1>9, <1>10, TaskMoves DEF WithCkpt

\* A write of the task and the place after it.
LEMMA TaskWrites ==
  ASSUME Inv, TypeOK', Task.at # "none", Write("task"),
         NEW rec, worker' = [worker EXCEPT !["task"] = rec],
         rec.at = "none" => rec.ck = 0,
         rec.at \notin {"asking", "starting", "created"},
         rec.at # "none" =>
            /\ rec.step = Task.step
            /\ rec.at = "finished" <=> Task.at = "based" /\ rec.at # "stopping"
            /\ Task.at # "ending"
            /\ Task.at \in {"finished", "stopping"} => rec.at = "stopping"
            /\ \/ rec.ck = Task.ck
               \/ Task.at = "asking" /\ rec.ck = Task.step
            /\ rec.ck # 0 /\ rec.ck = Task.ck =>
                 rec.copy.saved = Task.copy.saved /\ rec.copy.completed = Task.copy.completed
            /\ rec.ck # Task.ck => rec.copy.saved /\ ~rec.copy.completed
            /\ rec.at \in WithCkpt => rec.ck # 0
  PROVE  OneAttempt' /\ CkptKnown' /\ OneAnswer'
<1>1. /\ RowsRight' /\ Kept
      /\ Task.at = "asking" => ckpt'[Task.step].saved
      /\ Task.at = "based" => steps'[Task.step].status = "succeeded"
      /\ Task.at \notin {"based", "ending"} => steps'[Task.step].status = steps[Task.step].status
  BY TaskFacts, WriteKeeps
<1>2. ASSUME rec.at # "none"
      PROVE  /\ rec.at = "finished" => steps'[Task.step].status = "succeeded"
             /\ rec.at = "stopping" => steps'[Task.step].status \in {"running", "succeeded"}
             /\ rec.at \notin {"finished", "stopping"} => steps'[Task.step].status = "running"
  BY <1>1, <1>2, TaskFacts
<1>3. ASSUME rec.at # "none", rec.ck # 0
      PROVE  /\ rec.copy.saved /\ rec.ck \in DOMAIN steps /\ ckpt'[rec.ck].saved
             /\ steps[rec.ck].hash = steps[Task.step].hash
             /\ rec.copy.completed => Done(steps[Task.step].hash)
  BY <1>1, <1>3, TaskFacts DEF Kept
<1> QED
  BY <1>1, <1>2, <1>3, TaskMoves

\* The task's own writes, one at each place.
LEMMA TaskStepRight ==
  ASSUME Inv, TypeOK', Answer \/ Record \/ CompileShot \/ SaveManifest \/ SaveBase \/ Finish \/ Complete
  PROVE  OneAttempt' /\ CkptKnown' /\ OneAnswer'
<1> USE DEF Inv
<1>1. Task.at # "none"
  BY Rows DEF Answer, Record, CompileShot, SaveManifest, SaveBase, Finish, Complete, Advance
<1>2. /\ Task = worker["task"] /\ "task" \in Workers /\ Task \in WorkerType /\ Task.copy \in CkptType
      /\ Task.at \in WithCkpt => Task.ck # 0
  BY <1>1, TaskFacts, Rows
<1>3. \A place \in Places :
        /\ On("task", place) \in WorkerType
        /\ On("task", place).at = place /\ On("task", place).step = Task.step
        /\ On("task", place).ck = Task.ck /\ On("task", place).copy = Task.copy
  BY <1>2, OnTyped
<1>4. CASE Answer
  <2> DEFINE rec == [On("task", "answered") EXCEPT !.ck = Task.step, !.copy = FromAnswer]
  <2>1. Task.at = "asking" /\ Write("task") /\ worker' = [worker EXCEPT !["task"] = rec]
    BY <1>2, <1>4 DEF Answer, Advance
  <2>2. rec.at = "answered" /\ rec.step = Task.step /\ rec.ck = Task.step /\ rec.copy = FromAnswer
    BY <1>3 DEF WorkerType, Places
  <2>3. FromAnswer.saved /\ ~FromAnswer.completed /\ Task.step # 0
    BY <1>1, TaskFacts DEF FromAnswer
  <2> HIDE DEF rec
  <2>4. rec.ck = Task.ck => FALSE
    BY <1>1, <2>1, <2>2, <2>3, TaskFacts DEF NotAnswered, OfHash
  <2> QED
    BY <1>1, <2>1, <2>2, <2>3, <2>4, TaskWrites
<1>5. CASE Record
  <2> DEFINE rec == On("task", "shots")
  <2>1. Task.at = "answered" /\ Write("task") /\ worker' = [worker EXCEPT !["task"] = rec]
    BY <1>2, <1>5 DEF Record, Advance
  <2>2. rec.at = "shots" /\ rec.step = Task.step /\ rec.ck = Task.ck /\ rec.copy = Task.copy
    BY <1>3 DEF Places
  <2> HIDE DEF rec
  <2> QED
    BY <1>1, <1>2, <2>1, <2>2, TaskWrites DEF WithCkpt
<1>6. CASE CompileShot
  <2> DEFINE rec == [Task EXCEPT !.copy = OneMoreShot]
  <2>1. Task.at = "shots" /\ Write("task") /\ worker' = [worker EXCEPT !["task"] = rec]
    BY <1>2, <1>6 DEF CompileShot, Advance
  <2>2. rec.at = Task.at /\ rec.step = Task.step /\ rec.ck = Task.ck /\ rec.copy = OneMoreShot
    BY <1>2 DEF WorkerType
  <2>3. OneMoreShot.saved = Task.copy.saved /\ OneMoreShot.completed = Task.copy.completed
    BY <1>2 DEF OneMoreShot, CkptType
  <2> HIDE DEF rec
  <2> QED
    BY <1>1, <1>2, <2>1, <2>2, <2>3, TaskWrites DEF WithCkpt
<1>7. CASE SaveManifest
  <2> DEFINE rec == [On("task", "saved") EXCEPT !.own = Own]
  <2>1. Task.at = "shots" /\ Write("task") /\ worker' = [worker EXCEPT !["task"] = rec]
    BY <1>2, <1>7 DEF SaveManifest, Advance
  <2>2. rec.at = "saved" /\ rec.step = Task.step /\ rec.ck = Task.ck /\ rec.copy = Task.copy
    BY <1>3 DEF WorkerType, Places
  <2> HIDE DEF rec
  <2> QED
    BY <1>1, <1>2, <2>1, <2>2, TaskWrites DEF WithCkpt
<1>8. CASE SaveBase
  <2> DEFINE rec == [On("task", "based") EXCEPT !.copy = Rebased("task")]
  <2>1. Task.at = "saved" /\ Write("task") /\ worker' = [worker EXCEPT !["task"] = rec]
    BY <1>2, <1>8 DEF SaveBase, Advance
  <2>2. rec.at = "based" /\ rec.step = Task.step /\ rec.ck = Task.ck /\ rec.copy = Rebased("task")
    BY <1>3 DEF WorkerType, Places
  <2>3. Rebased("task").saved = Task.copy.saved /\ Rebased("task").completed = Task.copy.completed
    BY <1>2 DEF Rebased, CkptType
  <2> HIDE DEF rec
  <2> QED
    BY <1>1, <1>2, <2>1, <2>2, <2>3, TaskWrites DEF WithCkpt
<1>9. CASE Finish
  <2> DEFINE rec == On("task", "finished")
  <2>1. Task.at = "based" /\ Write("task") /\ worker' = [worker EXCEPT !["task"] = rec]
    BY <1>2, <1>9 DEF Finish, Advance
  <2>2. rec.at = "finished" /\ rec.step = Task.step /\ rec.ck = Task.ck /\ rec.copy = Task.copy
    BY <1>3 DEF Places
  <2> HIDE DEF rec
  <2> QED
    BY <1>1, <1>2, <2>1, <2>2, TaskWrites DEF WithCkpt
<1>10. CASE Complete
  <2>1. Task.at = "finished" /\ Write("task") /\ worker' = [worker EXCEPT !["task"] = Away]
    BY <1>2, <1>10 DEF Complete, Advance
  <2> QED
    BY <1>1, <2>1, AwayTyped, TaskWrites
<1> QED
  BY <1>4, <1>5, <1>6, <1>7, <1>8, <1>9, <1>10

\* A task that is cancelled: the write it is at may be done.
LEMMA CancelRight ==
  ASSUME Inv, TypeOK', CancelStoryboard
  PROVE  OneAttempt' /\ CkptKnown' /\ OneAnswer'
<1> USE DEF Inv
<1> DEFINE rec == IF worker["task"].at \in Stopping \cup {"created"} THEN Away ELSE On("task", "stopping")
<1>1. Task.at \notin {"none", "starting"} /\ worker' = [worker EXCEPT !["task"] = rec]
  BY DEF CancelStoryboard
<1>2. Task = worker["task"] /\ "task" \in Workers /\ Task \in WorkerType
  BY <1>1, TaskFacts
<1>3. rec.at = "none" => rec.ck = 0
  BY <1>2, AwayTyped, OnTyped DEF Places, Stopping
<1>4. rec.at # "none" =>
        /\ rec.at = "stopping" /\ rec.step = Task.step /\ rec.ck = Task.ck /\ rec.copy = Task.copy
        /\ Task.at \notin Stopping
  BY <1>2, AwayTyped, OnTyped DEF Places, Stopping
<1>5. rec.at \in {"none", "stopping"}
  BY <1>2, AwayTyped, OnTyped DEF Places, Stopping
<1> HIDE DEF rec
<1>6. CASE Write("task")
  BY <1>1, <1>3, <1>4, <1>5, <1>6, TaskWrites DEF WithCkpt, Stopping
<1>7. CASE UNCHANGED <<steps, ckpt, manifest>>
  <2>1. RowsRight' /\ Kept
    BY <1>7, QuietKeeps
  <2>2. steps'[Task.step].status \in {"running", "succeeded"}
    BY <1>1, <1>7, TaskFacts
  <2>3. Task.ck # 0 =>
          /\ Task.copy.saved /\ Task.ck \in DOMAIN steps /\ ckpt'[Task.ck].saved
          /\ steps[Task.ck].hash = steps[Task.step].hash
          /\ Task.copy.completed => Done(steps[Task.step].hash)
    BY <1>1, <1>7, TaskFacts
  <2> QED
    BY <1>1, <1>3, <1>4, <1>5, <2>1, <2>2, <2>3, TaskMoves DEF WithCkpt
<1> QED
  BY <1>6, <1>7 DEF CancelStoryboard

\* A reader moves on, while no task is there.
LEMMA ReaderMoves ==
  ASSUME Inv, TypeOK', RowsRight', Kept, worker["reader"].at # "none",
         NEW rec, worker' = [worker EXCEPT !["reader"] = rec],
         rec.at = "none" => rec.ck = 0,
         rec.at # "none" =>
            /\ rec.at \in Stopping /\ rec.step = worker["reader"].step /\ rec.ck = worker["reader"].ck
            /\ rec.copy.saved = worker["reader"].copy.saved
            /\ rec.copy.completed = worker["reader"].copy.completed
            /\ steps'[worker["reader"].step].status = "running"
            /\ rec.at \in WithCkpt => rec.ck # 0
  PROVE  OneAttempt' /\ CkptKnown' /\ OneAnswer'
<1> USE DEF Inv
<1> DEFINE r == worker["reader"]
<1>1. /\ "task" \in Workers /\ "reader" \in Workers /\ Task = worker["task"] /\ Task' = Task
      /\ worker'["reader"] = rec
  BY OneMoves DEF Workers
<1>2. Task.at = "none" /\ Task.ck = 0
  BY <1>1 DEF OneAttempt, CkptKnown
<1>3. TaskRight'
  BY <1>1, <1>2 DEF TaskRight
<1>4. ReaderRight
  BY Split
<1>5. r.step \in DOMAIN steps /\ r.step = Len(steps) /\ Len(steps) # 0 /\ Len(steps') = Len(steps)
  BY <1>1, AtAttempt DEF OneAttempt, Kept
<1>6. ASSUME rec.at # "none", rec.ck # 0
      PROVE  rec.copy.saved /\ Known(rec.ck, rec.step)' /\ (rec.copy.completed => Done(steps[r.step].hash)')
  <2>1. /\ r.copy.saved /\ r.ck \in DOMAIN steps /\ ckpt[r.ck].saved
        /\ steps[r.ck].hash = steps[r.step].hash
        /\ r.copy.completed => Done(steps[r.step].hash)
    BY <1>4, <1>6 DEF ReaderRight, Known
  <2>2. rec.ck \in DOMAIN steps' /\ ckpt'[rec.ck].saved /\ steps'[rec.ck].hash = steps'[rec.step].hash
    BY <1>5, <1>6, <2>1 DEF Kept
  <2>3. rec.step = r.step /\ steps'[rec.step].hash = steps[r.step].hash
    BY <1>5, <1>6 DEF Kept
  <2> QED
    BY <1>1, <1>6, <2>1, <2>2, <2>3 DEF Known, Kept
<1>7. ReaderRight'
  BY <1>1, <1>5, <1>6 DEF ReaderRight
<1> QED
  BY <1>3, <1>7, Join, PTL

\* _stop_storyboard, in the task or in a reader.
LEMMA StopRight ==
  ASSUME Inv, TypeOK', NEW w \in Workers, StopStep(w)
  PROVE  OneAttempt' /\ CkptKnown' /\ OneAnswer'
<1> USE DEF Inv
<1> DEFINE v == worker[w]
<1>1. v.at \in Stopping /\ v.at # "none"
  BY DEF StopStep, Stop, Draft, Base, End, Advance, Stopping
<1>2. /\ v \in WorkerType /\ v.copy \in CkptType /\ (v.at \in WithCkpt => v.ck # 0)
      /\ w = "task" => Task = v /\ Task.at # "none"
      /\ w \in {"task", "reader"}
  BY <1>1, Rows DEF CkptKnown, Workers
<1>3. \A place \in Places :
        /\ On(w, place) \in WorkerType
        /\ On(w, place).at = place /\ On(w, place).step = v.step
        /\ On(w, place).ck = v.ck /\ On(w, place).copy = v.copy
  BY OnTyped
<1>4. PICK rec : /\ worker' = [worker EXCEPT ![w] = rec]
                 /\ Write(w) \/ (v.at = "stopping" /\ UNCHANGED <<steps, ckpt, manifest>>)
                 /\ \/ rec = Away /\ (v.at = "stopping" => steps[v.step].status = "succeeded")
                    \/ /\ v.at # "ending" /\ (v.at = "stopping" => steps[v.step].status # "succeeded")
                       /\ rec.at \in {"drafting", "basing", "ending"} /\ rec.step = v.step /\ rec.ck = v.ck
                       /\ rec.copy.saved = v.copy.saved /\ rec.copy.completed = v.copy.completed
                       /\ rec.at \in WithCkpt => rec.ck # 0
  <2>1. CASE Stop(w)
    <3>1. v.at = "stopping" /\ UNCHANGED <<steps, ckpt, manifest>>
      BY <2>1 DEF Stop
    <3>2. CASE steps[v.step].status = "succeeded"
      <4>1. worker' = [worker EXCEPT ![w] = Away]
        BY <2>1, <3>2 DEF Stop
      <4> QED
        BY <3>1, <3>2, <4>1
    <3>3. CASE steps[v.step].status # "succeeded" /\ (v.ck # 0 /\ Unchanged(v.copy) /\ v.copy.shots > 0)
      <4>1. worker' = [worker EXCEPT ![w] = On(w, "drafting")] /\ v.ck # 0
        BY <2>1, <3>3 DEF Stop
      <4>2. "drafting" \in Places
        BY DEF Places, Stopping
      <4> QED
        BY <1>3, <3>1, <3>3, <4>1, <4>2
    <3>4. CASE steps[v.step].status # "succeeded" /\ ~(v.ck # 0 /\ Unchanged(v.copy) /\ v.copy.shots > 0)
      <4>1. worker' = [worker EXCEPT ![w] = On(w, "ending")]
        BY <2>1, <3>4 DEF Stop
      <4>2. "ending" \in Places /\ "ending" \notin WithCkpt
        BY DEF Places, Stopping, WithCkpt
      <4> QED
        BY <1>3, <3>1, <3>4, <4>1, <4>2
    <3> QED
      BY <3>2, <3>3, <3>4
  <2>2. CASE Draft(w)
    <3> DEFINE rec == [On(w, "basing") EXCEPT !.own = Own]
    <3>1. v.at = "drafting" /\ Write(w) /\ worker' = [worker EXCEPT ![w] = rec]
      BY <2>2 DEF Draft, Advance
    <3>2. rec.at = "basing" /\ rec.step = v.step /\ rec.ck = v.ck /\ rec.copy = v.copy
      BY <1>3 DEF WorkerType, Places, Stopping
    <3> HIDE DEF rec
    <3> QED
      BY <1>2, <3>1, <3>2 DEF WithCkpt
  <2>3. CASE Base(w)
    <3> DEFINE rec == [On(w, "ending") EXCEPT !.copy = Rebased(w)]
    <3>1. v.at = "basing" /\ Write(w) /\ worker' = [worker EXCEPT ![w] = rec]
      BY <2>3 DEF Base, Advance
    <3>2. rec.at = "ending" /\ rec.step = v.step /\ rec.ck = v.ck /\ rec.copy = Rebased(w)
      BY <1>3 DEF WorkerType, Places, Stopping
    <3>3. Rebased(w).saved = v.copy.saved /\ Rebased(w).completed = v.copy.completed
      BY <1>2 DEF Rebased, CkptType
    <3> HIDE DEF rec
    <3> QED
      BY <1>2, <3>1, <3>2, <3>3 DEF WithCkpt
  <2>4. CASE End(w)
    <3>1. v.at = "ending" /\ Write(w) /\ worker' = [worker EXCEPT ![w] = Away]
      BY <2>4 DEF End, Advance
    <3> QED
      BY <3>1
  <2> QED
    BY <2>1, <2>2, <2>3, <2>4 DEF StopStep
<1>5. /\ RowsRight' /\ Kept
      /\ v.at \notin {"based", "ending"} => steps'[v.step].status = steps[v.step].status
  <2>1. CASE Write(w)
    BY <1>1, <2>1, WriteKeeps
  <2>2. CASE UNCHANGED <<steps, ckpt, manifest>>
    BY <2>2, QuietKeeps
  <2> QED
    BY <1>4, <2>1, <2>2
<1>6. CASE w = "task"
  <2>1. /\ Task = v /\ Task.at # "none"
        /\ Task.at = "stopping" => steps[Task.step].status \in {"running", "succeeded"}
        /\ Task.at \notin {"finished", "stopping"} => steps[Task.step].status = "running"
        /\ Task.ck # 0 =>
             /\ Task.copy.saved /\ Task.ck \in DOMAIN steps /\ ckpt'[Task.ck].saved
             /\ steps[Task.ck].hash = steps[Task.step].hash
             /\ Task.copy.completed => Done(steps[Task.step].hash)
    BY <1>2, <1>5, <1>6, TaskFacts DEF Kept
  <2>2. rec.at = "none" => rec.ck = 0
    BY <1>4, AwayTyped
  <2>3. rec.at # "none" =>
          /\ rec.at \in {"drafting", "basing", "ending"} /\ rec.step = Task.step /\ rec.ck = Task.ck
          /\ rec.copy.saved = Task.copy.saved /\ rec.copy.completed = Task.copy.completed
          /\ rec.at \in WithCkpt => rec.ck # 0
          /\ steps'[Task.step].status = "running"
    BY <1>1, <1>4, <1>5, <2>1, AwayTyped DEF Stopping
  <2> QED
    BY <1>4, <1>5, <1>6, <2>1, <2>2, <2>3, TaskMoves
<1>7. CASE w = "reader"
  <2>1. steps[v.step].status = "running"
    BY <1>1, <1>7 DEF OneAttempt
  <2>2. rec.at = "none" => rec.ck = 0
    BY <1>4, AwayTyped
  <2>3. rec.at # "none" =>
          /\ rec.at \in Stopping /\ rec.step = v.step /\ rec.ck = v.ck
          /\ rec.copy.saved = v.copy.saved /\ rec.copy.completed = v.copy.completed
          /\ rec.at \in WithCkpt => rec.ck # 0
          /\ steps'[v.step].status = "running"
    BY <1>1, <1>4, <1>5, <2>1, AwayTyped DEF Stopping
  <2> QED
    BY <1>1, <1>4, <1>5, <1>7, <2>2, <2>3, ReaderMoves
<1> QED
  BY <1>2, <1>6, <1>7

\* A checkpoint that compile_storyboard does not find is not there, unless the
\* inputs are done.
LEMMA NoneFound ==
  ASSUME Inv, Checkpoint(input) = 0, \A i \in OfHash(input) : steps[i].status # "succeeded"
  PROVE  NotAnswered(input)
<1> USE DEF Inv
<1> DEFINE S == {i \in OfHash(input) : ckpt[i].saved /\ ~ckpt[i].completed}
<1>1. ASSUME NEW i \in OfHash(input), ckpt[i].saved
      PROVE  FALSE
  <2>1. i \in DOMAIN steps /\ steps[i].hash = input
    BY DEF OfHash
  <2>2. ~ckpt[i].completed
    BY <1>1, <2>1 DEF OneAnswer, Done, OfHash
  <2>3. i \in S /\ i \in Nat \ {0}
    BY <1>1, <2>1, <2>2, Rows
  <2>4. \A j \in S : j = i
    BY <1>1, <2>1 DEF OneAnswer, OfHash
  <2>5. S \in SUBSET Nat
    BY Rows DEF OfHash
  <2>6. Latest(S) = i
    <3> HIDE DEF S
    <3> QED
      BY <2>3, <2>4, <2>5, LatestOfOne
  <2> QED
    BY <2>3, <2>6 DEF Checkpoint
<1> QED
  BY <1>1 DEF NotAnswered

\* A new attempt is the last one and the only one running; it asks only when
\* there is no checkpoint.
LEMMA CompileRight ==
  ASSUME Inv, TypeOK', Compile
  PROVE  OneAttempt' /\ CkptKnown' /\ OneAnswer'
<1> USE DEF Inv
<1> DEFINE c == Checkpoint(input)
           n == Len(steps) + 1
           row == [hash |-> input, status |-> "running", request |-> FALSE,
                   answered |-> FALSE, ck |-> 0]
           rec == AtWork("starting", n, c)
<1>1. /\ c \in {0} \cup {i \in OfHash(input) : ckpt[i].saved /\ ~ckpt[i].completed}
      /\ Len(steps') = n /\ \A i \in DOMAIN steps : steps'[i] = steps[i]
      /\ steps'[n] = row /\ worker' = [worker EXCEPT !["task"] = rec] /\ steps' \in Seq(StepRow)
  BY CompileRow
<1>2. DOMAIN steps' = DOMAIN steps \cup {n} /\ n \notin DOMAIN steps /\ n \in Nat \ {0}
  BY <1>1, Rows
<1>3. ckpt' = ckpt /\ input' = input /\ Task.at = "none" /\ Running = {}
      /\ \A i \in OfHash(input) : steps[i].status # "succeeded"
  BY DEF Compile, Begins
<1>4. \A i \in DOMAIN steps : steps[i].status # "running"
  BY <1>3 DEF Running
<1>5. worker["reader"].at = "none" /\ worker["reader"].ck = 0
  <2>1. "reader" \in Workers
    BY DEF Workers
  <2> QED
    BY <1>4, <2>1, AtAttempt DEF OneAttempt, CkptKnown, Stopping
<1>6. ~ckpt[n].saved \/ n \notin StepIds
  BY <1>2 DEF CkptKnown
<1>7. n \in StepIds
  BY <1>1, <1>2 DEF TypeOK, StepIds
<1>8. \A h : Done(h) => Done(h)'
  <2> SUFFICES ASSUME NEW h, Done(h) PROVE Done(h)'
    OBVIOUS
  <2>1. PICK j \in DOMAIN steps : steps[j].hash = h /\ steps[j].status = "succeeded"
    BY DEF Done, OfHash
  <2>2. j \in DOMAIN steps' /\ steps'[j].hash = h /\ steps'[j].status = "succeeded"
    BY <1>1, <1>2, <2>1
  <2> QED
    BY <2>2 DEF Done, OfHash
<1>9. RowsRight'
  <2>1. \A i \in DOMAIN steps' : steps'[i].status = "running" => i = Len(steps')
    BY <1>1, <1>2, <1>4
  <2>2. \A i \in StepIds : ckpt'[i].saved => i \in DOMAIN steps'
    BY <1>2, <1>3 DEF CkptKnown
  <2>3. (\A i \in DOMAIN steps : steps[i].ck # 0 => Known(steps[i].ck, i))'
    <3>1. ASSUME NEW i \in DOMAIN steps', steps'[i].ck # 0
          PROVE  /\ steps'[i].ck \in DOMAIN steps' /\ ckpt'[steps'[i].ck].saved
                 /\ steps'[steps'[i].ck].hash = steps'[i].hash
      <4>1. i \in DOMAIN steps /\ steps'[i] = steps[i]
        BY <1>1, <1>2, <3>1
      <4>2. Known(steps[i].ck, i)
        BY <3>1, <4>1 DEF CkptKnown
      <4> QED
        BY <1>1, <1>2, <1>3, <4>1, <4>2 DEF Known
    <3> QED
      BY <3>1 DEF Known
  <2>4. \A i, j \in DOMAIN steps' :
          ckpt'[i].saved /\ ckpt'[j].saved /\ steps'[i].hash = steps'[j].hash => i = j
    BY <1>1, <1>2, <1>3, <1>6, <1>7 DEF OneAnswer
  <2>5. (\A i \in DOMAIN steps : ckpt[i].saved /\ ckpt[i].completed => Done(steps[i].hash))'
    <3>1. ASSUME NEW i \in DOMAIN steps', ckpt'[i].saved, ckpt'[i].completed, NEW h, h = steps'[i].hash
          PROVE  Done(h)'
      <4>1. i \in DOMAIN steps /\ steps'[i] = steps[i]
        BY <1>1, <1>2, <1>3, <1>6, <1>7, <3>1
      <4>2. Done(h)
        BY <1>3, <3>1, <4>1 DEF OneAnswer
      <4> QED
        BY <1>8, <4>2
    <3> QED
      BY <3>1
  <2> QED
    BY <2>1, <2>2, <2>3, <2>4, <2>5 DEF RowsRight
<1>10. /\ "task" \in Workers /\ Task' = rec /\ worker'["reader"] = worker["reader"]
  BY <1>1, OneMoves DEF Workers
<1>11. ReaderRight'
  BY <1>5, <1>10 DEF ReaderRight
<1>12. /\ Task'.at = "starting" /\ Task'.step = n /\ Task'.ck = c
       /\ Task'.copy = IF c = 0 THEN NoCkpt ELSE ckpt[c]
  BY <1>10 DEF AtWork
<1>13. ASSUME c # 0
       PROVE  Task'.copy.saved /\ ~Task'.copy.completed /\ Known(Task.ck, Task.step)'
  <2>1. c \in DOMAIN steps /\ steps[c].hash = input /\ ckpt[c].saved /\ ~ckpt[c].completed
    BY <1>1, <1>13 DEF OfHash
  <2>2. steps'[c].hash = steps'[n].hash /\ c \in DOMAIN steps' /\ ckpt'[c].saved
    BY <1>1, <1>2, <1>3, <2>1
  <2> QED
    BY <1>12, <1>13, <2>1, <2>2 DEF Known
<1>14. ASSUME c = 0
       PROVE  NotAnswered(steps[Task.step].hash)'
  <2>1. NotAnswered(input)
    BY <1>3, <1>14, NoneFound
  <2>2. \A i \in DOMAIN steps' : steps'[i].hash = input => ~ckpt'[i].saved
    BY <1>1, <1>2, <1>3, <1>6, <1>7, <2>1 DEF NotAnswered, OfHash
  <2> QED
    BY <1>1, <1>12, <2>2 DEF NotAnswered, OfHash
<1>15. steps'[Task'.step].status = "running" /\ Task'.step = Len(steps') /\ Len(steps') # 0
       /\ worker'["reader"].at = "none"
  BY <1>1, <1>2, <1>5, <1>10, <1>12
<1>16. TaskRight'
  <2> HIDE DEF c, n, row, rec
  <2> QED
    BY <1>12, <1>13, <1>14, <1>15 DEF TaskRight, WithCkpt
<1> QED
  BY <1>9, <1>11, <1>16, Join, PTL

\* A recovery finds no task at work.
LEMMA RecoverRight ==
  ASSUME Inv, TypeOK', Recover, NoPeek
  PROVE  OneAttempt' /\ CkptKnown' /\ OneAnswer'
<1> USE DEF Inv
<1> DEFINE i == Interrupted
           rec == AtWork("stopping", i, steps[i].ck)
<1>1. i \in Running /\ worker' = [worker EXCEPT !["reader"] = rec]
  BY RecoverRow
<1>2. i \in DOMAIN steps /\ steps[i].status = "running" /\ i = Len(steps) /\ i # 0
  BY <1>1, Rows DEF Running, OneAttempt
<1>3. Task.at = "none" /\ steps' = steps /\ ckpt' = ckpt
  BY DEF Recover, NoTask, NoPeek
<1>4. RowsRight'
  BY <1>3, QuietKeeps
<1>5. /\ "task" \in Workers /\ "reader" \in Workers /\ Task = worker["task"] /\ Task' = Task
      /\ worker'["reader"] = rec
  BY <1>1, OneMoves DEF Workers
<1>6. TaskRight'
  BY <1>3, <1>5 DEF TaskRight, CkptKnown
<1>7. LET r == worker'["reader"] IN
      /\ r.at = "stopping" /\ r.step = i /\ r.ck = steps[i].ck
      /\ r.copy = IF steps[i].ck = 0 THEN NoCkpt ELSE ckpt[steps[i].ck]
  BY <1>5 DEF AtWork
<1>8. ASSUME steps[i].ck # 0
      PROVE  LET r == worker["reader"]
             IN  (r.copy.saved /\ Known(r.ck, r.step) /\ (r.copy.completed => Done(steps[r.step].hash)))'
  <2>1. Known(steps[i].ck, i)
    BY <1>2, <1>8 DEF CkptKnown
  <2>2. ckpt[steps[i].ck].saved /\ steps[i].ck \in DOMAIN steps /\ steps[steps[i].ck].hash = steps[i].hash
    BY <2>1 DEF Known
  <2>3. ckpt[steps[i].ck].completed => Done(steps[i].hash)
    BY <2>2 DEF OneAnswer
  <2>4. worker'["reader"].copy = ckpt[steps[i].ck]
    BY <1>7, <1>8
  <2>5. Known(worker["reader"].ck, worker["reader"].step)'
    BY <1>3, <1>7, <2>2 DEF Known
  <2>6. worker'["reader"].copy.completed => Done(steps[worker["reader"].step].hash)'
    BY <1>3, <1>7, <2>3, <2>4 DEF Done, OfHash
  <2> QED
    BY <2>2, <2>4, <2>5, <2>6
<1>9. ReaderRight'
  <2>1. steps'[worker'["reader"].step].status = "running" /\ worker'["reader"].step = Len(steps')
        /\ Len(steps') # 0 /\ worker'["reader"].at = "stopping"
    BY <1>2, <1>3, <1>7
  <2>2. worker'["reader"].ck # 0 => steps[i].ck # 0
    BY <1>7
  <2> HIDE DEF i, rec
  <2> QED
    BY <1>8, <2>1, <2>2 DEF ReaderRight, Stopping, WithCkpt
<1> QED
  BY <1>4, <1>6, <1>9, Join, PTL

\* People change neither rows nor checkpoints, and a crash only ends workers.
LEMMA OthersRight ==
  ASSUME Inv, TypeOK', EditPrompts \/ EditWhole \/ ChangeInput \/ Crash \/ UNCHANGED vars
  PROVE  OneAttempt' /\ CkptKnown' /\ OneAnswer'
<1> USE DEF Inv
<1>1. steps' = steps /\ ckpt' = ckpt
  BY DEF EditPrompts, EditWhole, ChangeInput, Crash, vars
<1>2. RowsRight'
  BY <1>1, QuietKeeps
<1>3. CASE worker' = worker
  <2>1. TaskRight /\ ReaderRight
    BY Split
  <2>2. TaskRight' /\ ReaderRight'
    BY <1>1, <1>3, <2>1 DEF TaskRight, ReaderRight, Task, Known, Done, OfHash, NotAnswered
  <2> QED
    BY <1>2, <2>2, Join, PTL
<1>4. CASE Crash
  <2>1. worker' = [w \in Workers |-> Away]
    BY <1>4 DEF Crash
  <2>2. Task'.at = "none" /\ Task'.ck = 0 /\ worker'["reader"].at = "none" /\ worker'["reader"].ck = 0
    BY <2>1 DEF Task, Workers, Away
  <2>3. TaskRight' /\ ReaderRight'
    BY <2>2 DEF TaskRight, ReaderRight
  <2> QED
    BY <1>2, <2>3, Join, PTL
<1> QED
  BY <1>3, <1>4 DEF EditPrompts, EditWhole, ChangeInput, vars

(* Edits *)

\* Where a task or a reader counts on the revisions it began with.
Counting == {"starting", "created", "answered", "shots", "drafting"}
Making == {"starting", "created", "asking", "answered", "shots"}

\* A worker that moves sees every edit, if it does at its new place.
LEMMA SeesMoves ==
  ASSUME Inv, NEW w \in Workers, NEW rec, worker' = [worker EXCEPT ![w] = rec],
         rec.at \in Counting /\ rec.ck # 0 => rec.since <= rec.copy.base,
         w = "task" /\ rec.at \in Making =>
            \A i \in DOMAIN manifest' : i > rec.since => manifest'[i] = "whole",
         w = "task" /\ rec.at = "drafting" =>
            \A i \in DOMAIN manifest' : i > rec.copy.base => manifest'[i] = "whole",
         w = "reader" => Task.at = "none"
  PROVE  EditsSeen'
<1>1. /\ \A u \in Workers : worker'[u] = IF u = w THEN rec ELSE worker[u]
      /\ Task = worker["task"] /\ Task' = worker'["task"] /\ "task" \in Workers
      /\ w \in {"task", "reader"}
  BY Rows DEF Inv, TypeOK, Workers, Task
<1>2. Task' = IF w = "task" THEN rec ELSE Task
  BY <1>1
<1>3. ASSUME NEW u \in Workers, worker'[u].at \in Counting, worker'[u].ck # 0
      PROVE  worker'[u].since <= worker'[u].copy.base
  BY <1>1, <1>3 DEF Inv, EditsSeen, Counting
<1>4. Task'.at \in Making => \A i \in DOMAIN manifest' : i > Task'.since => manifest'[i] = "whole"
  BY <1>1, <1>2 DEF Making
<1>5. Task'.at = "drafting" => \A i \in DOMAIN manifest' : i > Task'.copy.base => manifest'[i] = "whole"
  BY <1>1, <1>2
<1> QED
  BY <1>3, <1>4, <1>5 DEF EditsSeen, WholeOnly, Counting, Making

\* The place after the last write of a revision, and a stop, count on nothing.
LEMMA LeavesMaking ==
  ASSUME Inv, NEW w \in Workers, NEW rec, worker' = [worker EXCEPT ![w] = rec],
         rec.at \in {"none", "stopping", "saved", "based", "finished", "basing", "ending"},
         w = "reader" => Task.at = "none"
  PROVE  EditsSeen'
BY SeesMoves DEF Counting, Making

\* While the manifest stays, a task that goes on sees what it saw.
LEMMA StillMaking ==
  ASSUME Inv, Task.at \in Making, manifest' = manifest,
         NEW rec, worker' = [worker EXCEPT !["task"] = rec], rec.at \in Making,
         rec.since = Task.since,
         rec.at # "asking" /\ rec.ck # 0 => Task.since <= rec.copy.base
  PROVE  EditsSeen'
<1>1. "task" \in Workers
  BY DEF Workers
<1>2. \A i \in DOMAIN manifest' : i > rec.since => manifest'[i] = "whole"
  BY DEF Inv, EditsSeen, WholeOnly, Making
<1> QED
  BY <1>1, <1>2, SeesMoves DEF Counting, Making

\* A task or a reader that ends at a place of its own sees every edit.
LEMMA TaskSees ==
  ASSUME Inv, TypeOK', Register \/ TaskStep
  PROVE  EditsSeen'
<1> USE DEF Inv, Places, Stopping
<1>1. Task.at # "none"
  BY Rows DEF Register, TaskStep, Start, AskFails, QualityFails, Answer, Record, CompileShot,
              SaveManifest, SaveBase, Finish, Complete, Advance
<1>2. /\ Task = worker["task"] /\ "task" \in Workers /\ Task \in WorkerType /\ Task.copy \in CkptType
      /\ Task.at \in Counting /\ Task.ck # 0 => Task.since <= Task.copy.base
  BY <1>1, TaskFacts, Rows DEF EditsSeen, Counting
<1>3. \A place \in Places :
        /\ On("task", place) \in WorkerType
        /\ On("task", place).at = place /\ On("task", place).since = Task.since
        /\ On("task", place).ck = Task.ck /\ On("task", place).copy = Task.copy
  BY <1>2, OnTyped
<1>4. CASE Register
  <2>1. Task.at = "starting" /\ worker' = [worker EXCEPT !["task"] = On("task", "created")] /\ manifest' = manifest
    BY <1>4 DEF Register, Moves, On
  <2> QED
    BY <1>2, <1>3, <2>1, StillMaking DEF Counting, Making
<1>5. CASE Start
  <2>1. Task.at = "created" /\ manifest' = manifest
    BY <1>5 DEF Start
  <2>2. CASE Task.ck = 0
    <3>1. worker' = [worker EXCEPT !["task"] = On("task", "asking")]
      BY <1>5, <2>2 DEF Start, Moves, On
    <3> QED
      BY <1>2, <1>3, <2>1, <3>1, StillMaking DEF Counting, Making
  <2>3. CASE Task.ck # 0
    <3>1. worker' = [worker EXCEPT !["task"] = On("task", "answered")]
      BY <1>5, <2>3 DEF Start, Moves, On
    <3> QED
      BY <1>2, <1>3, <2>1, <3>1, StillMaking DEF Counting, Making
  <2> QED
    BY <2>2, <2>3
<1>6. CASE Answer
  <2> DEFINE rec == [On("task", "answered") EXCEPT !.ck = Task.step, !.copy = FromAnswer]
  <2>1. Task.at = "asking" /\ Write("task") /\ worker' = [worker EXCEPT !["task"] = rec]
    BY <1>2, <1>6 DEF Answer, Advance
  <2>2. manifest' = manifest
    BY <1>2, <2>1 DEF Write, SaveCkpt
  <2>3. rec.at = "answered" /\ rec.since = Task.since /\ rec.copy = FromAnswer
    BY <1>3 DEF WorkerType
  <2>4. Task.since <= FromAnswer.base
    BY <1>2, Rows DEF FromAnswer, WorkerType
  <2> HIDE DEF rec
  <2> QED
    BY <2>1, <2>2, <2>3, <2>4, StillMaking DEF Making
<1>7. CASE Record
  <2>1. Task.at = "answered" /\ Write("task") /\ worker' = [worker EXCEPT !["task"] = On("task", "shots")]
    BY <1>2, <1>7 DEF Record, Advance
  <2>2. manifest' = manifest
    BY <1>2, <2>1 DEF Write, SaveStep
  <2> QED
    BY <1>2, <1>3, <2>1, <2>2, StillMaking DEF Counting, Making
<1>8. CASE CompileShot
  <2> DEFINE rec == [Task EXCEPT !.copy = OneMoreShot]
  <2>1. Task.at = "shots" /\ ~Compiled /\ Write("task") /\ worker' = [worker EXCEPT !["task"] = rec]
    BY <1>2, <1>8 DEF CompileShot, Advance
  <2>2. manifest' = manifest
    BY <1>2, <2>1 DEF Write, SaveCkpt
  <2>3. rec.at = "shots" /\ rec.since = Task.since /\ rec.ck = Task.ck /\ rec.copy = OneMoreShot
    BY <1>2, <2>1 DEF WorkerType
  <2>4. OneMoreShot.base = Task.copy.base
    BY <1>2 DEF OneMoreShot, CkptType
  <2> HIDE DEF rec
  <2> QED
    BY <1>2, <2>1, <2>2, <2>3, <2>4, StillMaking DEF Counting, Making
<1>9. CASE SaveManifest
  <2> DEFINE rec == [On("task", "saved") EXCEPT !.own = Own]
  <2>1. worker' = [worker EXCEPT !["task"] = rec]
    BY <1>9 DEF SaveManifest, Advance
  <2>2. rec.at = "saved"
    BY <1>3 DEF WorkerType
  <2> HIDE DEF rec
  <2> QED
    BY <1>2, <2>1, <2>2, LeavesMaking
<1>10. CASE SaveBase
  <2> DEFINE rec == [On("task", "based") EXCEPT !.copy = Rebased("task")]
  <2>1. worker' = [worker EXCEPT !["task"] = rec]
    BY <1>10 DEF SaveBase, Advance
  <2>2. rec.at = "based"
    BY <1>3 DEF WorkerType
  <2> HIDE DEF rec
  <2> QED
    BY <1>2, <2>1, <2>2, LeavesMaking
<1>11. CASE Finish
  <2>1. worker' = [worker EXCEPT !["task"] = On("task", "finished")]
    BY <1>11 DEF Finish, Advance
  <2> QED
    BY <1>2, <1>3, <2>1, LeavesMaking
<1>12. CASE Complete
  <2>1. worker' = [worker EXCEPT !["task"] = Away]
    BY <1>12 DEF Complete, Advance
  <2> QED
    BY <1>2, <2>1, AwayTyped, LeavesMaking
<1>13. CASE AskFails
  <2>1. PICK invalid \in BOOLEAN :
          worker' = [worker EXCEPT !["task"] = [On("task", "stopping") EXCEPT !.invalid = invalid]]
    BY <1>13 DEF AskFails
  <2> DEFINE rec == [On("task", "stopping") EXCEPT !.invalid = invalid]
  <2>2. rec.at = "stopping" /\ worker' = [worker EXCEPT !["task"] = rec]
    BY <1>3, <2>1 DEF WorkerType
  <2> HIDE DEF rec
  <2> QED
    BY <1>2, <2>2, LeavesMaking
<1>14. CASE QualityFails
  <2>1. worker' = [worker EXCEPT !["task"] = On("task", "stopping")]
    BY <1>14 DEF QualityFails, Moves, On
  <2> QED
    BY <1>2, <1>3, <2>1, LeavesMaking
<1> QED
  BY <1>4, <1>5, <1>6, <1>7, <1>8, <1>9, <1>10, <1>11, <1>12, <1>13, <1>14 DEF TaskStep

\* The draft of a stopped step is saved only over the revision the checkpoint
\* knows of.
LEMMA StopSees ==
  ASSUME Inv, TypeOK', NEW w \in Workers, StopStep(w)
  PROVE  EditsSeen'
<1> USE DEF Inv, Places, Stopping
<1>1. worker[w] \in WorkerType /\ worker[w].at \in Stopping /\ w \in {"task", "reader"}
  BY Rows DEF StopStep, Stop, Draft, Base, End, Advance, Workers
<1>2. w = "reader" => Task.at = "none"
  BY <1>1 DEF OneAttempt
<1>3. \A place \in Places :
        /\ On(w, place) \in WorkerType
        /\ On(w, place).at = place /\ On(w, place).since = worker[w].since
        /\ On(w, place).copy = worker[w].copy
  BY OnTyped
<1>4. CASE Stop(w)
  <2>1. CASE worker' = [worker EXCEPT ![w] = Away]
    BY <1>2, <2>1, AwayTyped, LeavesMaking
  <2>2. CASE worker' = [worker EXCEPT ![w] = On(w, "drafting")] /\ Unchanged(worker[w].copy)
    <3>1. worker[w].copy.base = Len(manifest) /\ worker[w].since <= Len(manifest) /\ manifest' = manifest
      BY <1>1, <1>4, <2>2, Rows DEF Unchanged, Stop, WorkerType
    <3>2. \A i \in DOMAIN manifest' : ~(i > Len(manifest))
      BY <3>1, Rows DEF TypeOK
    <3> DEFINE rec == On(w, "drafting")
    <3>3. /\ rec.at = "drafting" /\ worker' = [worker EXCEPT ![w] = rec]
          /\ rec.since <= rec.copy.base /\ rec.copy.base = Len(manifest)
      BY <1>3, <2>2, <3>1
    <3> HIDE DEF rec
    <3> QED
      BY <1>2, <3>2, <3>3, SeesMoves DEF Making
  <2>3. CASE worker' = [worker EXCEPT ![w] = On(w, "ending")]
    BY <1>2, <1>3, <2>3, LeavesMaking
  <2> QED
    BY <1>4, <2>1, <2>2, <2>3 DEF Stop
<1>5. CASE Draft(w)
  <2> DEFINE rec == [On(w, "basing") EXCEPT !.own = Own]
  <2>1. worker' = [worker EXCEPT ![w] = rec] /\ rec.at = "basing"
    BY <1>3, <1>5 DEF Draft, Advance, WorkerType
  <2> HIDE DEF rec
  <2> QED
    BY <1>2, <2>1, LeavesMaking
<1>6. CASE Base(w)
  <2> DEFINE rec == [On(w, "ending") EXCEPT !.copy = Rebased(w)]
  <2>1. worker' = [worker EXCEPT ![w] = rec] /\ rec.at = "ending"
    BY <1>3, <1>6 DEF Base, Advance, WorkerType
  <2> HIDE DEF rec
  <2> QED
    BY <1>2, <2>1, LeavesMaking
<1>7. CASE End(w)
  <2>1. worker' = [worker EXCEPT ![w] = Away]
    BY <1>7 DEF End, Advance
  <2> QED
    BY <1>2, <2>1, AwayTyped, LeavesMaking
<1> QED
  BY <1>4, <1>5, <1>6, <1>7 DEF StopStep

\* A compilation, a recovery, a cancellation and the people keep it.
LEMMA OthersSee ==
  ASSUME Inv, TypeOK', NoPeek,
         Compile \/ Recover \/ CancelStoryboard \/ EditPrompts \/ EditWhole \/ ChangeInput \/ Crash
           \/ UNCHANGED vars
  PROVE  EditsSeen'
<1> USE DEF Inv
<1>1. Task = worker["task"] /\ Task' = worker'["task"] /\ "task" \in Workers /\ "reader" \in Workers
  BY Rows DEF Workers, Task
<1>2. CASE Compile
  <2> DEFINE c == Checkpoint(input)
             rec == AtWork("starting", Len(steps) + 1, c)
  <2>1. worker' = [worker EXCEPT !["task"] = rec] /\ manifest' = manifest
    BY <1>2 DEF Compile
  <2>2. c # 0 => ckpt[c].base = Len(manifest)
    BY <1>2 DEF Compile, Unchanged
  <2>3. rec.ck = c /\ rec.since = Len(manifest) /\ (c # 0 => rec.copy = ckpt[c]) /\ rec.at = "starting"
    BY DEF AtWork
  <2>4. \A i \in DOMAIN manifest' : ~(i > Len(manifest))
    BY <2>1, Rows DEF TypeOK
  <2>5. Len(manifest) <= Len(manifest)
    BY Rows
  <2> HIDE DEF c, rec
  <2> QED
    BY <1>1, <2>1, <2>2, <2>3, <2>4, <2>5, SeesMoves
<1>3. CASE Recover
  <2> DEFINE rec == AtWork("stopping", Interrupted, steps[Interrupted].ck)
  <2>1. worker' = [worker EXCEPT !["reader"] = rec] /\ Task.at = "none"
    BY <1>3 DEF Recover, NoTask, NoPeek
  <2>2. rec.at = "stopping"
    BY DEF AtWork
  <2> HIDE DEF rec
  <2> QED
    BY <1>1, <2>1, <2>2, LeavesMaking
<1>4. CASE CancelStoryboard
  <2> DEFINE rec == IF worker["task"].at \in Stopping \cup {"created"} THEN Away ELSE On("task", "stopping")
  <2>1. worker' = [worker EXCEPT !["task"] = rec]
    BY <1>4 DEF CancelStoryboard
  <2>2. rec.at \in {"none", "stopping"}
    BY <1>1, AwayTyped, OnTyped DEF Places, Stopping
  <2> HIDE DEF rec
  <2> QED
    BY <1>1, <2>1, <2>2, LeavesMaking
<1>5. CASE worker' = worker /\ manifest' = manifest
  BY <1>5 DEF EditsSeen, WholeOnly, Task
<1>6. CASE EditPrompts
  <2>1. Task.at = "none" /\ worker' = worker
    BY <1>6 DEF EditPrompts
  <2> QED
    BY <1>1, <2>1 DEF EditsSeen, Task
<1>7. CASE EditWhole
  <2>1. worker' = worker /\ manifest' = Append(manifest, "whole") /\ "whole" \in Authors
    BY <1>7 DEF EditWhole, Authors
  <2>2. \A i \in DOMAIN manifest' : (i \in DOMAIN manifest /\ manifest'[i] = manifest[i]) \/ manifest'[i] = "whole"
    <3>1. /\ manifest' \in Seq(Authors) /\ Len(manifest') = Len(manifest) + 1
          /\ \A i \in 1..Len(manifest) : manifest'[i] = manifest[i]
          /\ manifest'[Len(manifest) + 1] = "whole"
      BY <2>1, DraftSaved
    <3>2. DOMAIN manifest' = 1..(Len(manifest) + 1) /\ DOMAIN manifest = 1..Len(manifest) /\ Len(manifest) \in Nat
      BY <3>1, Rows DEF TypeOK
    <3> QED
      BY <3>1, <3>2
  <2>3. \A from : WholeOnly(from) => \A i \in DOMAIN manifest' : i > from => manifest'[i] = "whole"
    BY <2>2 DEF WholeOnly
  <2> QED
    BY <1>1, <2>1, <2>3 DEF EditsSeen, WholeOnly, Task
<1>8. CASE Crash
  <2>1. worker' = [w \in Workers |-> Away]
    BY <1>8 DEF Crash
  <2>2. \A w \in Workers : worker'[w].at = "none"
    BY <2>1 DEF Away
  <2> QED
    BY <1>1, <2>2 DEF EditsSeen
<1> QED
  BY <1>2, <1>3, <1>4, <1>5, <1>6, <1>7, <1>8 DEF ChangeInput, vars

-------------------------------------------------------------------------------
(* The invariant, and what follows *)

\* Nothing has been asked, answered or written.
LEMMA InitRight == Init => Inv
<1> SUFFICES ASSUME Init
             PROVE  Inv
  OBVIOUS
<1>1. TypeOK
  BY InitTyped
<1>2. /\ \A w \in Workers : worker[w].at = "none" /\ worker[w].ck = 0
      /\ DOMAIN steps = {} /\ \A i \in StepIds : ~ckpt[i].saved
  BY DEF Init, Away, NoCkpt
<1>3. Task.at = "none" /\ "reader" \in Workers
  BY <1>1, <1>2, Rows DEF Workers
<1>4. OneAttempt
  BY <1>2, <1>3 DEF OneAttempt
<1>5. CkptKnown
  BY <1>2 DEF CkptKnown, WithCkpt
<1>6. OneAnswer
  BY <1>2, <1>3 DEF OneAnswer, SavedAnswerReused
<1>7. EditsSeen
  BY <1>2, <1>3 DEF EditsSeen
<1> QED
  BY <1>1, <1>4, <1>5, <1>6, <1>7 DEF Inv

\* Every step keeps the invariant.
LEMMA NextRight ==
  ASSUME NoPeek, Inv, [Next]_vars
  PROVE  Inv'
<1>1. TypeOK'
  BY NextTyped DEF Inv
<1>2. CASE Register \/ Start \/ QualityFails
  BY <1>1, <1>2, QuietTaskRight, TaskSees DEF Inv, TaskStep
<1>3. CASE AskFails
  BY <1>1, <1>3, AskFailsRight, TaskSees DEF Inv, TaskStep
<1>4. CASE Answer \/ Record \/ CompileShot \/ SaveManifest \/ SaveBase \/ Finish \/ Complete
  BY <1>1, <1>4, TaskStepRight, TaskSees DEF Inv, TaskStep
<1>5. CASE \E w \in Workers : StopStep(w)
  BY <1>1, <1>5, StopRight, StopSees DEF Inv
<1>6. CASE CancelStoryboard
  BY <1>1, <1>6, CancelRight, OthersSee DEF Inv
<1>7. CASE Compile
  BY <1>1, <1>7, CompileRight, OthersSee DEF Inv
<1>8. CASE Recover
  BY <1>1, <1>8, RecoverRight, OthersSee DEF Inv
<1>9. CASE EditPrompts \/ EditWhole \/ ChangeInput \/ Crash \/ UNCHANGED vars
  BY <1>1, <1>9, OthersRight, OthersSee DEF Inv
<1> QED
  BY <1>2, <1>3, <1>4, <1>5, <1>6, <1>7, <1>8, <1>9 DEF Next, TaskStep, People

\* When the workspace is not read while a task is about to be registered, the
\* model is not paid again for an answer that has been saved: whatever is
\* stopped, at every place, and continued by whoever.
THEOREM AnsweredOnce ==
  ASSUME NoPeek
  PROVE  Spec => []SavedAnswerReused
<1>1. Init => Inv
  BY InitRight
<1>2. Inv /\ [Next]_vars => Inv'
  BY NextRight
<1>3. Inv => SavedAnswerReused
  BY DEF Inv, OneAnswer
<1> QED
  BY <1>1, <1>2, <1>3, PTL DEF Spec

\* What a worker that is about to write a revision does not know of has come
\* since it began; if it is the task, no edit of prompts is among it.
LEMMA Unseen ==
  ASSUME Inv, NEW w \in Workers, worker[w].at \in {"shots", "drafting"}
  PROVE  \A i \in (worker[w].copy.base + 1)..Len(manifest) :
            i > worker[w].since /\ (w = "task" => manifest[i] = "whole")
<1> USE DEF Inv
<1>1. /\ worker[w].ck # 0 /\ worker[w].since <= worker[w].copy.base
      /\ worker[w].copy.base \in Nat /\ worker[w].since \in Nat
  BY Rows DEF CkptKnown, WithCkpt, EditsSeen, WorkerType, CkptType
<1>2. ASSUME w = "task"
      PROVE  \A i \in DOMAIN manifest : i > worker[w].copy.base => manifest[i] = "whole"
  <2>1. Task = worker[w]
    BY <1>2, Rows
  <2>2. CASE Task.at = "shots"
    <3>1. \A i \in DOMAIN manifest : i > Task.since => manifest[i] = "whole"
      BY <2>2 DEF EditsSeen, WholeOnly
    <3>2. \A i \in DOMAIN manifest : i > Task.copy.base => i > Task.since
      BY <1>1, <2>1, Rows DEF TypeOK
    <3> QED
      BY <2>1, <3>1, <3>2
  <2>3. CASE Task.at = "drafting"
    BY <2>1, <2>3 DEF EditsSeen, WholeOnly
  <2> QED
    BY <2>1, <2>2, <2>3
<1>3. \A i \in (worker[w].copy.base + 1)..Len(manifest) : i \in DOMAIN manifest /\ i > worker[w].copy.base
        /\ i > worker[w].since
  BY <1>1, Rows
<1> QED
  BY <1>2, <1>3

\* A manifest of the job's is not put over an edit that was there when the task
\* or the recovery began, nor over an edit of prompts made while it was at work.
THEOREM EditsNotCovered ==
  ASSUME NoPeek
  PROVE  Spec => EditStands
<1>1. Init => Inv
  BY InitRight
<1>2. Inv /\ [Next]_vars => Inv'
  BY NextRight
<1>3. Inv /\ [Next]_vars =>
        \A w \in Workers :
          (worker[w].at \in {"shots", "drafting"} /\ manifest' = Append(manifest, "job")) =>
            \A i \in (worker[w].copy.base + 1)..Len(manifest) :
                i > worker[w].since /\ (w = "task" => manifest[i] = "whole")
  BY Unseen
<1> QED
  BY <1>1, <1>2, <1>3, PTL DEF Spec, EditStands
===============================================================================
