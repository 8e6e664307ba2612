------------------------------- MODULE Adoption -------------------------------
(***************************************************************************)
(* What people choose and what generation delivers, for one shot of a      *)
(* production project (viral_dna_api/production.py, upstream_changes.py,   *)
(* candidate_lifecycle.py).  A shot has pictures and one clip; runs        *)
(* produce candidates for them; people select, adopt, reject, archive and  *)
(* restore candidates, change the inputs and move the project on.          *)
(*                                                                         *)
(* Everything people do holds the project lock and names the revision they *)
(* saw, so it is one step here.  A picture is generated outside the lock,  *)
(* a clip under it.  How rows of runs change is GenerationRuns' and        *)
(* VideoRuns' subject: here a run works, then ends once.                   *)
(*                                                                         *)
(* Left out: other shots, pictures that are added, moved or not required,  *)
(* groups of shots with one clip, clip preparation, the prompts common to  *)
(* a project, and statuses only records of older versions have (draft,     *)
(* generating, stale).                                                     *)
(***************************************************************************)
EXTENDS Naturals, Sequences

CONSTANTS
    N,         \* pictures of the shot
    Hazards,   \* which of HazardKinds may happen
    MaxRuns,   \* bound: rows in generation_runs
    MaxCands,  \* bound: rows in generation_candidates
    MaxEdits   \* bound: changes of the inputs of a picture or clip

\* "edit_shot": the inputs of all pictures are changed through the shot while
\* the first one has not the status of the shot.
\* "reject_beside": a candidate is rejected while one of its picture or clip
\* is adopted.
\* "retry": a failed run is repeated, with its own prompt, after an edit.
\* "quiet": an image is taken back or replaced while clips are there that
\* nobody is reviewing.
HazardKinds == {"edit_shot", "reject_beside", "retry", "quiet"}

ASSUME AdoptionAssumption ==
    /\ N \in Nat \ {0}
    /\ Hazards \subseteq HazardKinds
    /\ MaxRuns \in Nat /\ MaxCands \in Nat /\ MaxEdits \in Nat

Pictures == 1..N
Clip == 0
Targets == 0..N

VARIABLES
    step,   \* ProductionProject.active_step; export counts as editing
    mode,   \* ShotPlan.output_mode: the clip is made, or taken from the source video
    item,   \* per picture and for the clip: status, adopted candidate, freshness
    runs,   \* generation_runs, in creation order
    cands   \* generation_candidates

vars == <<step, mode, item, runs, cands>>

Steps == {"images", "videos", "editing"}
Modes == {"images", "source"}
ItemStatus == {"ready", "review", "failed", "approved"}
RunStatus == {"queued", "working", "completed", "failed"}
Active == {"queued", "working"}
CandStatus == {"ready", "selected", "rejected", "deleted"}
Usable == {"ready", "selected"}

\* Time is the number of runs so far: "updated" is the run the last change of
\* the inputs came after, "version" counts those changes.
Item == [status : ItemStatus, adopted : 0..MaxCands, changed : BOOLEAN,
         updated : 0..MaxRuns, version : 0..MaxEdits]

\* A run's frozen prompt, the inputs it saw, and the images a clip was made of.
Run == [of : Targets, status : RunStatus, prompt : 0..MaxEdits,
        seen : (0..MaxEdits) \X Modes, images : SUBSET (1..MaxCands), source : BOOLEAN]

Cand == [run : 1..MaxRuns, status : CandStatus]

Init ==
    /\ step = "images"
    /\ mode = "images"
    /\ item = [t \in Targets |-> [status |-> "ready", adopted |-> 0, changed |-> FALSE,
                                  updated |-> 0, version |-> 0]]
    /\ runs = <<>>
    /\ cands = <<>>

Of(c) == runs[cands[c].run].of
CandsOf(t) == {c \in DOMAIN cands : Of(c) = t}
Among(S, statuses) == {c \in S : cands[c].status \in statuses}
Adopted(t, c) == item[t].status = "approved" /\ item[t].adopted = c
AdoptedImages == {item[p].adopted : p \in Pictures} \ {0}
Inputs(t) == <<item[t].version, mode>>
Live(p) == \E r \in DOMAIN runs : runs[r].of = p /\ runs[r].status \in Active
-------------------------------------------------------------------------------
(***************************************************************************)
(* upstream_changes.py: a change of the inputs is noted beside a result    *)
(* and takes nothing away.                                                 *)
(***************************************************************************)
HasResult(i) == i.adopted # 0 \/ i.status \in {"review", "approved"}

ResultStatus(i) ==
    IF i.adopted # 0 THEN "approved" ELSE IF i.status = "approved" THEN "review" ELSE i.status

NotedStale(i) ==
    [i EXCEPT !.status = IF HasResult(i) THEN "stale" ELSE @, !.changed = @ \/ HasResult(i),
              !.updated = Len(runs)]
Noted(i) ==
    [i EXCEPT !.status = ResultStatus(i), !.changed = @ \/ HasResult(i),
              !.updated = Len(runs)]

\* generated_before_input_change
OlderStrictly(r, t) == r < item[t].updated
Older(r, t) == r <= item[t].updated

Edited(i) == [Noted(i) EXCEPT !.version = @ + 1]

\* What update_visual_beat, select_source_keyframe, update_shot (of the clip's
\* inputs alone) and _mark_plans_stale change of the pictures and the clip.
Edit(T) ==
    /\ \A t \in T : item[t].version < MaxEdits
    /\ item' = [t \in Targets |-> IF t \in T THEN Edited(item[t]) ELSE item[t]]
    /\ UNCHANGED <<step, mode, runs, cands>>

\* update_shot with a field of the pictures, or the locks of both: all pictures
\* are noted, then the first one gets the status and the flag of the shot.
ShotStatus(pics) ==
    LET some(s) == \E p \in Pictures : pics[p].status = s
    IN  CASE some("review") -> "review" [] some("failed") -> "failed"
          [] some("ready") -> "ready" [] OTHER -> "approved"

EditShot(clip) ==
    LET pics == [p \in Pictures |-> Noted(item[p])] IN
    /\ "edit_shot" \in Hazards \/ ShotStatus(pics) = pics[1].status
    /\ item[1].version < MaxEdits /\ item[Clip].version < MaxEdits
    /\ item' = [t \in Targets |->
                  IF t = Clip THEN IF clip THEN Edited(item[t]) ELSE item[t]
                  ELSE IF t = 1
                  THEN [pics[1] EXCEPT !.status = ShotStatus(pics), !.version = @ + 1,
                                       !.changed = \E p \in Pictures : pics[p].changed]
                  ELSE pics[t]]
    /\ UNCHANGED <<step, mode, runs, cands>>
-------------------------------------------------------------------------------
(***************************************************************************)
(* Candidates.                                                             *)
(***************************************************************************)
Set(S, status) ==
    [c \in DOMAIN cands |-> IF c \in S THEN [cands[c] EXCEPT !.status = status] ELSE cands[c]]

\* The selected candidates of S become ready again, and new ones are added.
Deselected(S) == Set(Among(S, {"selected"}), "ready")
Chosen(c) == [Deselected(CandsOf(Of(c))) EXCEPT ![c].status = "selected"]
New(r, status, n) == [i \in 1..n |-> [run |-> r, status |-> status]]

RunOf(t, status, prompt, images, source) ==
    [of |-> t, status |-> status, prompt |-> prompt, seen |-> Inputs(t),
     images |-> images, source |-> source]

Ended(r, status) == [runs EXCEPT ![r].status = status]

\* _image_choice_has_downstream_impact
Impact == step # "images" \/ HasResult(item[Clip])

\* Picture p becomes i; what was made of its image is noted if need be.
Noticed == "quiet" \in Hazards \/ Impact \/ CandsOf(Clip) = {}
SetPicture(p, i, noted) ==
    item' = [item EXCEPT ![p] = i, ![Clip] = IF noted THEN Noted(@) ELSE @]
SetItem(t, i) == item' = [item EXCEPT ![t] = i]
-------------------------------------------------------------------------------
(***************************************************************************)
(* Generation of pictures: a request is queued with its prompt, begins with*)
(* the inputs of that moment, publishes pictures while it works, and saves *)
(* its result.                                                             *)
(***************************************************************************)
Generate(p) ==
    /\ ~Live(p)
    /\ Len(runs) < MaxRuns
    /\ runs' = Append(runs, RunOf(p, "queued", item[p].version, {}, FALSE))
    /\ UNCHANGED <<step, mode, item, cands>>

RetryPicture(r) ==
    LET p == runs[r].of IN
    /\ p # Clip
    /\ runs[r].status = "failed"
    /\ "retry" \in Hazards \/ runs[r].prompt = item[p].version
    /\ ~Live(p)
    /\ Len(runs) < MaxRuns
    /\ runs' = Append(runs, RunOf(p, "queued", runs[r].prompt, {}, FALSE))
    /\ UNCHANGED <<step, mode, item, cands>>

Begin(r) ==
    /\ runs[r].status = "queued"
    /\ runs' = [runs EXCEPT ![r].status = "working", ![r].seen = Inputs(runs[r].of)]
    /\ UNCHANGED <<step, mode, item, cands>>

Publish(r) ==
    /\ runs[r].status = "working"
    /\ Len(cands) < MaxCands
    /\ cands' = cands \o New(r, "ready", 1)
    /\ UNCHANGED <<step, mode, item, runs>>

\* What people have made of the picture meanwhile stays.
PreservesInputs(r) == runs[r].seen # Inputs(runs[r].of)
Preserves(r) == runs[r].seen # Inputs(runs[r].of) \/ item[runs[r].of].status = "approved"

\* n candidates that were not published before.
Finish(r, n, status) ==
    LET p == runs[r].of
        own == {c \in DOMAIN cands : cands[c].run = r}
        any == own # {} \/ n > 0
        kept == IF Preserves(r) \/ Among(own, {"selected"}) # {} THEN cands
                ELSE Deselected(CandsOf(p))
    IN  /\ runs[r].status = "working"
        /\ IF status = "completed" THEN any ELSE n = 0
        /\ Len(cands) + n <= MaxCands
        /\ runs' = Ended(r, status)
        /\ cands' = kept \o New(r, "ready", n)
        /\ IF Preserves(r) THEN UNCHANGED <<step, item>>
           ELSE /\ step' = "images"
                /\ SetItem(p, [item[p] EXCEPT !.status = IF any THEN "review" ELSE "failed",
                                              !.adopted = 0])
        /\ UNCHANGED mode

\* Cancelled, refused, or interrupted and not repeated: only the run is saved.
\* A cancelled run counts as a failed one (which may yet be recovered).
GiveUp(r) ==
    /\ runs[r].status \in Active
    /\ runs' = Ended(r, "failed")
    /\ UNCHANGED <<step, mode, item, cands>>

\* recover_image_generation_output
Recover(r) ==
    LET p == runs[r].of IN
    /\ p # Clip
    /\ runs[r].status = "failed"
    /\ Len(cands) < MaxCands
    /\ runs' = Ended(r, "completed")
    /\ IF item[p].status = "approved"
       THEN cands' = cands \o New(r, "ready", 1) /\ UNCHANGED item
       ELSE /\ cands' = Deselected(CandsOf(p)) \o New(r, "ready", 1)
            /\ SetItem(p, [item[p] EXCEPT !.status = "review", !.adopted = 0])
    /\ UNCHANGED <<step, mode>>

(***************************************************************************)
(* A clip is made of some of the adopted images, under the project lock    *)
(* from its inputs to its result.  A cancelled one leaves nothing.         *)
(***************************************************************************)
Prompts == {item[Clip].version} \cup
           {runs[r].prompt : r \in {q \in DOMAIN runs : /\ "retry" \in Hazards
                                                        /\ runs[q].of = Clip
                                                        /\ runs[q].status = "failed"}}

MakeClip(prompt, images, n) ==
    /\ step # "images"
    /\ prompt \in Prompts
    /\ images \subseteq AdoptedImages
    /\ Len(runs) < MaxRuns /\ Len(cands) + n <= MaxCands
    /\ runs' = Append(runs, RunOf(Clip, IF n > 0 THEN "completed" ELSE "failed",
                                  prompt, images, FALSE))
    /\ cands' = cands \o New(Len(runs) + 1, "ready", n)
    /\ IF item[Clip].status = "approved" /\ item[Clip].adopted # 0
       THEN UNCHANGED <<step, item>>
       ELSE /\ step' = "videos"
            /\ SetItem(Clip, [item[Clip] EXCEPT !.status = IF n > 0 THEN "review" ELSE "failed",
                                                !.adopted = 0])
    /\ UNCHANGED mode
-------------------------------------------------------------------------------
(***************************************************************************)
(* What people decide.                                                     *)
(***************************************************************************)
Select(c) ==
    LET t == Of(c) IN
    /\ cands[c].status \in Usable
    /\ t = Clip => item[t].status # "approved" /\ step = "videos"
    /\ cands' = Chosen(c)
    /\ SetItem(t, IF t # Clip /\ item[t].adopted # 0
                  THEN [item[t] EXCEPT !.status = "approved"]
                  ELSE [item[t] EXCEPT !.status = "review", !.adopted = 0])
    /\ UNCHANGED <<step, mode, runs>>

ApprovePicture(c) ==
    LET p == Of(c) IN
    /\ p # Clip
    /\ cands[c].status \in Usable
    /\ ~Adopted(p, c)
    /\ item[p].adopted # 0 => Noticed
    /\ cands' = Chosen(c)
    /\ SetPicture(p, [item[p] EXCEPT !.status = "approved", !.adopted = c,
                                     !.changed = Older(cands[c].run, p)],
                  item[p].status = "approved" /\ Impact)
    /\ mode' = "images"
    /\ UNCHANGED <<step, runs>>

ApproveClip(c) ==
    /\ Of(c) = Clip
    /\ step # "images"
    /\ cands[c].status # "deleted"
    /\ ~Adopted(Clip, c)
    /\ cands' = Chosen(c)
    /\ SetItem(Clip, [item[Clip] EXCEPT !.status = "approved", !.adopted = c,
                                        !.changed = Older(cands[c].run, Clip)])
    /\ UNCHANGED <<step, mode, runs>>

\* Another adopted clip stays, an adopted image does not; the flag is the
\* rejected candidate's either way.
Reject(c) ==
    LET t == Of(c)
        kept == t = Clip /\ item[t].status = "approved"
        others == Among(CandsOf(t) \ {c}, Usable)
    IN  /\ cands[c].status \in Usable
        /\ t = Clip => step # "images" /\ ~Adopted(t, c)
        /\ "reject_beside" \in Hazards \/ item[t].adopted = 0
        /\ cands' = Set({c}, "rejected")
        /\ SetItem(t, [item[t] EXCEPT
                         !.status = IF kept THEN @ ELSE IF others # {} THEN "review" ELSE "ready",
                         !.adopted = IF kept THEN @ ELSE 0,
                         !.changed = Older(cands[c].run, t)])
        /\ UNCHANGED <<step, mode, runs>>

\* The candidate stays selected; candidates nobody may have again are refused.
Revoked(t, unavailable) ==
    /\ item[t].status = "approved"
    /\ item[t].adopted # 0
    /\ cands[item[t].adopted].status \notin unavailable
    /\ cands' = Set({item[t].adopted}, "selected")
    /\ UNCHANGED <<step, mode, runs>>

Open(t) == [item[t] EXCEPT !.status = "review", !.adopted = 0]

RevokePicture(p) ==
    /\ Noticed
    /\ Revoked(p, {"rejected"})
    /\ SetPicture(p, Open(p), Impact)

RevokeClip ==
    /\ Revoked(Clip, {"rejected", "deleted"})
    /\ SetItem(Clip, Open(Clip))

SparedImages(t, S) == t # Clip => item[t].adopted \notin S
Spared(t, S) == item[t].adopted \notin S

\* Some of the removable candidates are deleted, none of them adopted.
Archive(t, S, removable) ==
    /\ S # {}
    /\ S \subseteq Among(CandsOf(t), removable)
    /\ Spared(t, S)
    /\ cands' = Set(S, "deleted")
    /\ IF Among(S, {"selected"}) = {} \/ item[t].status = "approved" THEN UNCHANGED item
       ELSE SetItem(t, [item[t] EXCEPT
              !.status = IF Among(CandsOf(t) \ S, removable) # {} THEN "review" ELSE "ready"])
    /\ UNCHANGED <<step, mode, runs>>

ArchivePictures(p, S) == Archive(p, S, Usable)
ArchiveClips(S) == Archive(Clip, S, CandStatus \ {"deleted"})

Restore(t, S) ==
    /\ S # {}
    /\ S \subseteq Among(CandsOf(t), {"deleted"})
    /\ cands' = Set(S, "ready")
    /\ IF item[t].status = "approved" THEN UNCHANGED item
       ELSE SetItem(t, [item[t] EXCEPT !.status = "review"])
    /\ UNCHANGED <<step, mode, runs>>

RestorePictures(p, S) == Restore(p, S)
RestoreClips(S) == Restore(Clip, S)

(***************************************************************************)
(* What the source video already has: a frame for a picture                *)
(* (approve_source_keyframe), or the clip itself                           *)
(* (update_shot_output_mode).                                              *)
(***************************************************************************)
FromSource(t) ==
    /\ Len(runs) < MaxRuns /\ Len(cands) < MaxCands
    /\ runs' = Append(runs, RunOf(t, "completed", item[t].version, {}, TRUE))
    /\ cands' = Deselected(CandsOf(t)) \o New(Len(runs) + 1, "selected", 1)

WithSource(t) == [item[t] EXCEPT !.status = "approved", !.adopted = Len(cands) + 1]

UseFrame(p) ==
    /\ item[p].adopted # 0 => Noticed
    /\ FromSource(p)
    /\ SetPicture(p, WithSource(p),
                  item[p].status = "approved" /\ item[p].adopted # 0 /\ Impact)
    /\ mode' = "images"
    /\ UNCHANGED step

UseSourceVideo ==
    /\ mode = "images"
    /\ FromSource(Clip)
    /\ SetItem(Clip, WithSource(Clip))
    /\ mode' = "source"
    /\ step' = "images"

FromSourceVideo == {c \in CandsOf(Clip) : runs[cands[c].run].source}

LeaveSourceVideo ==
    /\ mode = "source"
    /\ cands' = Deselected(FromSourceVideo)
    /\ IF item[Clip].adopted \in FromSourceVideo
       THEN SetItem(Clip, [item[Clip] EXCEPT !.status = "ready", !.adopted = 0])
       ELSE UNCHANGED item
    /\ mode' = "images"
    /\ step' = "images"
    /\ UNCHANGED runs

(***************************************************************************)
(* enter_video_stage and advance: an adopted result counts if its          *)
(* candidate is usable and its run completed.                              *)
(***************************************************************************)
Counts(t) ==
    LET c == item[t].adopted IN
    /\ item[t].status = "approved"
    /\ c # 0
    /\ cands[c].status \in Usable
    /\ runs[cands[c].run].status = "completed"

Enter ==
    /\ step = "images"
    /\ \E p \in Pictures : Counts(p)
    /\ step' = "videos"
    /\ UNCHANGED <<mode, item, runs, cands>>

Advance ==
    /\ step = "videos"
    /\ Counts(Clip)
    /\ step' = "editing"
    /\ UNCHANGED <<mode, item, runs, cands>>

Generation ==
    \/ \E r \in DOMAIN runs :
         \/ Begin(r) \/ Publish(r)
         \/ \E n \in 0..MaxCands, s \in {"completed", "failed"} : Finish(r, n, s)
         \/ GiveUp(r) \/ Recover(r)
    \/ \E v \in 0..MaxEdits, S \in SUBSET AdoptedImages, n \in 0..1 : MakeClip(v, S, n)

Asking ==
    \/ \E p \in Pictures : Generate(p)
    \/ \E r \in DOMAIN runs : RetryPicture(r)

Deciding ==
    \/ \E c \in DOMAIN cands : Select(c) \/ ApprovePicture(c) \/ ApproveClip(c) \/ Reject(c)
    \/ \E p \in Pictures : RevokePicture(p)
    \/ RevokeClip
    \/ \E p \in Pictures, S \in SUBSET DOMAIN cands : ArchivePictures(p, S) \/ RestorePictures(p, S)
    \/ \E S \in SUBSET DOMAIN cands : ArchiveClips(S) \/ RestoreClips(S)
    \/ \E p \in Pictures : UseFrame(p)
    \/ UseSourceVideo \/ LeaveSourceVideo

Editing ==
    \/ \E T \in (SUBSET Targets) \ {{}} : Edit(T)
    \/ \E clip \in BOOLEAN : EditShot(clip)
    \/ Enter \/ Advance

Next == Generation \/ Asking \/ Deciding \/ Editing

Spec == Init /\ [][Next]_vars
-------------------------------------------------------------------------------
(* The variables keep their types, and rows refer to rows that are there. *)
TypeOK ==
    /\ step \in Steps /\ mode \in Modes
    /\ item \in [Targets -> Item]
    /\ runs \in Seq(Run) /\ Len(runs) <= MaxRuns
    /\ cands \in Seq(Cand) /\ Len(cands) <= MaxCands
    /\ \A c \in DOMAIN cands : cands[c].run <= Len(runs)
    /\ \A t \in Targets : item[t].adopted <= Len(cands)

(***************************************************************************)
(* What is adopted can be used: it is a candidate of its own picture or    *)
(* clip that nobody has rejected or deleted since; an adopted clip is also *)
(* the selected one, which its preparation for editing asks for; and       *)
(* "approved" is said of what has an adopted candidate and of nothing      *)
(* else.                                                                   *)
(***************************************************************************)
AdoptedUsable ==
    \A t \in Targets :
        LET c == item[t].adopted IN
        /\ item[t].status = "approved" <=> c # 0
        /\ c # 0 => /\ Of(c) = t
                    /\ cands[c].status \in (IF t = Clip THEN {"selected"} ELSE Usable)

(***************************************************************************)
(* Results that come in while people work take no decision back: what is   *)
(* adopted stays adopted, what is rejected or deleted stays so, and a      *)
(* streamed candidate somebody has selected stays selected when its own    *)
(* run ends.                                                               *)
(***************************************************************************)
ChoicesKept ==
    [][Generation =>
         /\ \A t \in Targets : item[t].adopted # 0 =>
              item'[t].adopted = item[t].adopted /\ item'[t].status = item[t].status
         /\ \A c \in DOMAIN cands :
              \/ cands'[c] = cands[c]
              \/ /\ cands[c].status = "selected"
                 /\ runs[cands[c].run].status # "working" \/ runs'[cands[c].run] = runs[cands[c].run]
                 /\ item[Of(c)].adopted # c]_vars

(***************************************************************************)
(* The flag beside an adopted result says whether its inputs have changed  *)
(* since: where it is off, the prompt is the one the result was made with, *)
(* and the images a clip was made of are still the adopted ones.           *)
(***************************************************************************)
FlagsTellAge ==
    \A t \in Targets :
        LET r == runs[cands[item[t].adopted].run] IN
        item[t].adopted # 0 /\ ~item[t].changed =>
            /\ r.prompt = item[t].version
            /\ r.images \subseteq AdoptedImages
===============================================================================
