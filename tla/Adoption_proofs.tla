---------------------------- MODULE Adoption_proofs ----------------------------
(***************************************************************************)
(* For any number of pictures, runs, candidates and edits: the variables   *)
(* keep their types, what is adopted can be used, and results that come in *)
(* take no decision back, if no edit of a whole shot meets a first picture *)
(* that has another status than the shot.  Without any of the hazards, a   *)
(* flag that is off also tells that what is adopted is not out of date.    *)
(***************************************************************************)
EXTENDS Adoption, SequenceTheorems, TLAPS

USE AdoptionAssumption DEF AdoptionAssumption

NoSharedEdit == "edit_shot" \notin Hazards
-------------------------------------------------------------------------------
(***************************************************************************)
(* Rows.                                                                   *)
(***************************************************************************)

\* A function on 1..n is a sequence of length n.
LEMMA FunctionIsSeq ==
  ASSUME NEW T, NEW n \in Nat, NEW f \in [1..n -> T]
  PROVE  f \in Seq(T) /\ Len(f) = n /\ DOMAIN f = 1..n
<1>1. f \in Seq(T)
  BY SeqDef
<1>2. Len(f) \in Nat /\ DOMAIN f = 1..Len(f)
  BY <1>1, LenProperties
<1>3. 1..Len(f) = 1..n
  BY <1>2
<1>4. Len(f) = n
  BY <1>2, <1>3
<1> QED
  BY <1>1, <1>4

\* What TypeOK says of the rows.
LEMMA Rows ==
  ASSUME TypeOK
  PROVE  /\ Len(runs) \in 0..MaxRuns /\ DOMAIN runs = 1..Len(runs)
         /\ Len(cands) \in 0..MaxCands /\ DOMAIN cands = 1..Len(cands)
         /\ \A r \in 1..Len(runs) : runs[r] \in Run
         /\ \A c \in 1..Len(cands) : cands[c] \in Cand /\ cands[c].run \in 1..Len(runs)
         /\ \A t \in Targets : item[t] \in Item /\ item[t].adopted \in 0..Len(cands)
<1>1. runs \in Seq(Run) /\ cands \in Seq(Cand)
  BY DEF TypeOK
<1>2. Len(runs) \in Nat /\ DOMAIN runs = 1..Len(runs) /\ Len(cands) \in Nat /\ DOMAIN cands = 1..Len(cands)
  BY <1>1, LenProperties
<1>3. \A r \in 1..Len(runs) : runs[r] \in Run
  BY <1>1, ElementOfSeq
<1>4. \A c \in 1..Len(cands) : cands[c] \in Cand
  BY <1>1, ElementOfSeq
<1>5. \A t \in Targets : item[t] \in Item
  BY DEF TypeOK
<1> QED
  BY <1>2, <1>3, <1>4, <1>5 DEF TypeOK, Cand, Item

\* A change of statuses changes nothing else.
LEMMA SetRows ==
  ASSUME TypeOK, NEW S, NEW s \in CandStatus
  PROVE  /\ Set(S, s) \in Seq(Cand) /\ Len(Set(S, s)) = Len(cands)
         /\ \A c \in 1..Len(cands) :
              /\ Set(S, s)[c].run = cands[c].run
              /\ Set(S, s)[c].status = IF c \in S THEN s ELSE cands[c].status
              /\ c \notin S => Set(S, s)[c] = cands[c]
<1>1. Len(cands) \in Nat /\ DOMAIN cands = 1..Len(cands) /\ \A c \in 1..Len(cands) : cands[c] \in Cand
  BY Rows
<1>2. Set(S, s) \in [1..Len(cands) -> Cand]
  BY <1>1 DEF Set, Cand
<1>3. Set(S, s) \in Seq(Cand) /\ Len(Set(S, s)) = Len(cands)
  BY <1>1, <1>2, FunctionIsSeq
<1>4. ASSUME NEW c \in 1..Len(cands)
      PROVE  /\ Set(S, s)[c].run = cands[c].run
             /\ Set(S, s)[c].status = IF c \in S THEN s ELSE cands[c].status
             /\ c \notin S => Set(S, s)[c] = cands[c]
  BY <1>1 DEF Set, Cand
<1> QED
  BY <1>3, <1>4

\* The chosen candidate is selected, and of its picture or clip no other.
LEMMA ChosenRows ==
  ASSUME TypeOK, NEW b \in 1..Len(cands)
  PROVE  /\ Chosen(b) \in Seq(Cand) /\ Len(Chosen(b)) = Len(cands)
         /\ \A c \in 1..Len(cands) :
              /\ Chosen(b)[c].run = cands[c].run
              /\ c = b => Chosen(b)[c].status = "selected"
              /\ c # b => Chosen(b)[c].status \in {cands[c].status, "ready"}
              /\ c # b /\ Of(c) # Of(b) => Chosen(b)[c].status = cands[c].status
              /\ c # b /\ cands[c].status \in Usable => Chosen(b)[c].status \in Usable
<1> DEFINE S == Among(CandsOf(Of(b)), {"selected"})
           d == Set(S, "ready")
<1>1. /\ d \in Seq(Cand) /\ Len(d) = Len(cands)
      /\ \A c \in 1..Len(cands) :
           /\ d[c].run = cands[c].run
           /\ d[c].status = IF c \in S THEN "ready" ELSE cands[c].status
  BY SetRows DEF CandStatus
<1>2. Chosen(b) = [d EXCEPT ![b].status = "selected"]
  BY DEF Chosen, Deselected
<1>3. \A c \in S : Of(c) = Of(b)
  BY DEF Among, CandsOf
<1>4. d[b] \in Cand /\ Len(d) \in Nat /\ DOMAIN d = 1..Len(cands)
  BY <1>1, ElementOfSeq, LenProperties
<1>5. [d[b] EXCEPT !.status = "selected"] \in Cand /\ [d[b] EXCEPT !.status = "selected"].run = d[b].run
      /\ [d[b] EXCEPT !.status = "selected"].status = "selected"
  BY <1>4 DEF Cand, CandStatus
<1> HIDE DEF d, S
<1>6. Chosen(b) = [d EXCEPT ![b] = [d[b] EXCEPT !.status = "selected"]]
  BY <1>2
<1>7. /\ Chosen(b) \in Seq(Cand) /\ Len(Chosen(b)) = Len(d)
      /\ \A c \in 1..Len(d) : Chosen(b)[c] = IF c = b THEN [d[b] EXCEPT !.status = "selected"] ELSE d[c]
  BY <1>1, <1>5, <1>6, ExceptSeq
<1> QED
  BY <1>1, <1>3, <1>5, <1>7 DEF Usable

\* New rows come after the old ones.
LEMMA NewRows ==
  ASSUME NEW cs \in Seq(Cand), NEW r \in 1..MaxRuns, NEW s \in CandStatus, NEW n \in Nat
  PROVE  /\ cs \o New(r, s, n) \in Seq(Cand)
         /\ Len(cs) \in Nat /\ Len(cs \o New(r, s, n)) = Len(cs) + n
         /\ \A c \in 1..Len(cs) : (cs \o New(r, s, n))[c] = cs[c]
         /\ \A i \in 1..n : (cs \o New(r, s, n))[Len(cs) + i] = [run |-> r, status |-> s]
<1>1. New(r, s, n) \in [1..n -> Cand]
  BY DEF New, Cand
<1>2. New(r, s, n) \in Seq(Cand) /\ Len(New(r, s, n)) = n
  BY <1>1, FunctionIsSeq
<1>3. \A i \in 1..n : New(r, s, n)[i] = [run |-> r, status |-> s]
  BY DEF New
<1> HIDE DEF New
<1>4. Len(cs) \in Nat
  BY LenProperties
<1>5. /\ cs \o New(r, s, n) \in Seq(Cand)
      /\ Len(cs \o New(r, s, n)) = Len(cs) + n
      /\ \A c \in 1..Len(cs) + n : (cs \o New(r, s, n))[c] =
            IF c <= Len(cs) THEN cs[c] ELSE New(r, s, n)[c - Len(cs)]
  BY <1>2, ConcatProperties
<1> QED
  BY <1>3, <1>4, <1>5

\* A new run is of the type of runs, and none of the others changes.
LEMMA RunOfTyped ==
  ASSUME TypeOK, NEW t \in Targets, NEW s \in RunStatus, NEW v \in 0..MaxEdits,
         NEW S \in SUBSET (1..MaxCands), NEW b \in BOOLEAN
  PROVE  RunOf(t, s, v, S, b) \in Run /\ RunOf(t, s, v, S, b).of = t
<1>1. item[t] \in Item /\ mode \in Modes
  BY Rows DEF TypeOK
<1>2. Inputs(t) \in (0..MaxEdits) \X Modes
  BY <1>1 DEF Inputs, Item
<1> QED
  BY <1>2 DEF RunOf, Run

RunsKept ==
    /\ runs' \in Seq(Run) /\ Len(runs') <= MaxRuns /\ Len(runs') \in Nat /\ Len(runs) <= Len(runs')
    /\ \A r \in 1..Len(runs) : runs'[r].of = runs[r].of

LEMMA SameRuns ==
  ASSUME TypeOK, runs' = runs
  PROVE  RunsKept
<1> QED
  BY Rows DEF RunsKept, TypeOK

LEMMA AppendedRun ==
  ASSUME TypeOK, NEW x \in Run, Len(runs) < MaxRuns, runs' = Append(runs, x)
  PROVE  /\ RunsKept /\ Len(runs') = Len(runs) + 1 /\ runs'[Len(runs) + 1] = x
         /\ \A r \in 1..Len(runs) : runs'[r] = runs[r]
<1>1. runs \in Seq(Run) /\ Len(runs) \in Nat
  BY Rows DEF TypeOK
<1>2. /\ Append(runs, x) \in Seq(Run)
      /\ Len(Append(runs, x)) = Len(runs) + 1
      /\ \A i \in 1..Len(runs) : Append(runs, x)[i] = runs[i]
      /\ Append(runs, x)[Len(runs) + 1] = x
  BY <1>1, AppendProperties
<1> QED
  BY <1>1, <1>2 DEF RunsKept

\* A run that ends, or begins, is of the same picture.
LEMMA ChangedRun ==
  ASSUME TypeOK, NEW r \in 1..Len(runs), NEW x \in Run, x.of = runs[r].of,
         runs' = [runs EXCEPT ![r] = x]
  PROVE  /\ RunsKept /\ Len(runs') = Len(runs) /\ runs'[r] = x
         /\ \A q \in 1..Len(runs) : q # r => runs'[q] = runs[q]
<1>1. runs \in Seq(Run) /\ Len(runs) \in 0..MaxRuns
  BY Rows DEF TypeOK
<1>2. /\ [runs EXCEPT ![r] = x] \in Seq(Run)
      /\ Len([runs EXCEPT ![r] = x]) = Len(runs)
      /\ \A j \in 1..Len(runs) : [runs EXCEPT ![r] = x][j] = IF j = r THEN x ELSE runs[j]
  BY <1>1, ExceptSeq
<1> QED
  BY <1>1, <1>2 DEF RunsKept

LEMMA EndedRun ==
  ASSUME TypeOK, NEW r \in 1..Len(runs), NEW s \in RunStatus, runs' = Ended(r, s)
  PROVE  /\ RunsKept /\ Len(runs') = Len(runs)
         /\ \A q \in 1..Len(runs) : q # r => runs'[q] = runs[q]
<1> DEFINE x == [runs[r] EXCEPT !.status = s]
<1>1. runs[r] \in Run
  BY Rows
<1>2. x \in Run /\ x.of = runs[r].of
  BY <1>1 DEF Run
<1>3. runs' = [runs EXCEPT ![r] = x]
  BY DEF Ended
<1> HIDE DEF x
<1> QED
  BY <1>2, <1>3, ChangedRun

CandsKept ==
    /\ cands' \in Seq(Cand) /\ Len(cands') \in Nat
    /\ Len(cands') <= MaxCands /\ Len(cands) <= Len(cands')
    /\ \A c \in 1..Len(cands') : cands'[c].run <= Len(runs')
    /\ \A c \in 1..Len(cands) : cands'[c].run = cands[c].run

LEMMA SameCands ==
  ASSUME TypeOK, RunsKept, cands' = cands
  PROVE  CandsKept
<1>1. Len(runs) \in Nat /\ Len(cands) \in 0..MaxCands /\ \A c \in 1..Len(cands) : cands[c].run \in 1..Len(runs)
  BY Rows
<1>2. \A c \in 1..Len(cands) : cands[c].run <= Len(runs')
  BY <1>1 DEF RunsKept
<1> QED
  BY <1>1, <1>2 DEF CandsKept, TypeOK

Grown(cs, r, s, n) ==
    /\ CandsKept /\ Len(cands') = Len(cands) + n
    /\ \A c \in 1..Len(cands) : cands'[c] = cs[c]
    /\ \A c \in 1..Len(cands') : c > Len(cands) => cands'[c].run = r /\ cands'[c].status = s

\* Old rows may change their status, and new ones may follow.
LEMMA GrownCands ==
  ASSUME TypeOK, RunsKept, NEW cs \in Seq(Cand), Len(cs) = Len(cands),
         \A c \in 1..Len(cands) : cs[c].run = cands[c].run,
         NEW r \in 1..Len(runs'), NEW s \in CandStatus, NEW n \in Nat,
         Len(cands) + n <= MaxCands, cands' = cs \o New(r, s, n)
  PROVE  Grown(cs, r, s, n)
<1>1. Len(runs) \in Nat /\ Len(cands) \in 0..MaxCands /\ \A c \in 1..Len(cands) : cands[c].run \in 1..Len(runs)
  BY Rows
<1>2. Len(runs) <= Len(runs') /\ Len(runs') <= MaxRuns /\ Len(runs') \in Nat
  BY DEF RunsKept
<1>3. r \in 1..MaxRuns
  BY <1>2
<1> DEFINE ds == cs \o New(r, s, n)
<1>6. ds \in Seq(Cand) /\ Len(cs) \in Nat /\ Len(ds) = Len(cs) + n
  BY <1>3, NewRows
<1>10. \A c \in 1..Len(cs) : ds[c] = cs[c]
  BY <1>3, NewRows
<1>8. \A i \in 1..n : ds[Len(cs) + i] = [run |-> r, status |-> s]
  BY <1>3, NewRows
<1>7. cands' = ds
  OBVIOUS
<1> HIDE DEF ds
<1>9. \A c \in 1..Len(cands') : c > Len(cands) => cands'[c] = [run |-> r, status |-> s]
  <2>1. ASSUME NEW c \in 1..Len(cands'), c > Len(cands)
        PROVE  cands'[c] = [run |-> r, status |-> s]
    <3>1. c - Len(cs) \in 1..n /\ c = Len(cs) + (c - Len(cs))
      BY <1>6, <1>7, <2>1
    <3> QED
      BY <1>7, <1>8, <3>1
  <2> QED
    BY <2>1
<1>4. /\ cands' \in Seq(Cand) /\ Len(cands') = Len(cands) + n
      /\ \A c \in 1..Len(cands) : cands'[c] = cs[c]
      /\ \A c \in 1..Len(cands') : c > Len(cands) => cands'[c].run = r /\ cands'[c].status = s
  BY <1>6, <1>7, <1>9, <1>10
<1>5. ASSUME NEW c \in 1..Len(cands')
      PROVE  cands'[c].run <= Len(runs')
  <2>1. CASE c \in 1..Len(cands)
    BY <1>1, <1>2, <1>4, <2>1
  <2>2. CASE c > Len(cands)
    BY <1>2, <1>4, <2>2
  <2> QED
    BY <1>1, <1>4, <2>1, <2>2
<1> QED
  BY <1>1, <1>4, <1>5 DEF CandsKept, Grown

LEMMA ChangedCands ==
  ASSUME TypeOK, RunsKept, cands' \in Seq(Cand), Len(cands') = Len(cands),
         \A c \in 1..Len(cands) : cands'[c].run = cands[c].run
  PROVE  CandsKept
<1>1. Len(runs) \in Nat /\ Len(cands) \in 0..MaxCands /\ \A c \in 1..Len(cands) : cands[c].run \in 1..Len(runs)
  BY Rows
<1>2. Len(runs) <= Len(runs') /\ Len(runs') \in Nat
  BY DEF RunsKept
<1> QED
  BY <1>1, <1>2 DEF CandsKept
-------------------------------------------------------------------------------
(***************************************************************************)
(* What a step does to a picture or clip: it keeps the adopted candidate   *)
(* usable, leaves nothing adopted, or adopts one of its candidates.        *)
(***************************************************************************)
Keeps(t) ==
    /\ item'[t].adopted = item[t].adopted
    /\ item'[t].status = "approved" <=> item[t].status = "approved"
    /\ item[t].adopted # 0 =>
         \/ cands'[item[t].adopted].status = cands[item[t].adopted].status
         \/ t # Clip /\ cands'[item[t].adopted].status \in Usable

Opens(t) == item'[t].adopted = 0 /\ item'[t].status # "approved"

Adopts(t) ==
    /\ item'[t].status = "approved"
    /\ item'[t].adopted \in 1..Len(cands')
    /\ cands'[item'[t].adopted].status = "selected"
    /\ runs'[cands'[item'[t].adopted].run].of = t

Moves ==
    /\ RunsKept /\ CandsKept
    /\ step' \in Steps /\ mode' \in Modes
    /\ item' \in [Targets -> Item]
    /\ \A t \in Targets : Keeps(t) \/ Opens(t) \/ Adopts(t)

IInv == TypeOK /\ AdoptedUsable

\* AdoptedUsable at one picture or clip.
LEMMA AdoptedAt ==
  ASSUME TypeOK, AdoptedUsable, NEW t \in Targets
  PROVE  /\ item[t].status = "approved" <=> item[t].adopted # 0
         /\ item[t].adopted # 0 =>
              /\ item[t].adopted \in 1..Len(cands)
              /\ Of(item[t].adopted) = t
              /\ cands[item[t].adopted].status \in Usable
              /\ t = Clip => cands[item[t].adopted].status = "selected"
<1>1. item[t].adopted \in 0..Len(cands) /\ Len(cands) \in Nat
  BY Rows
<1> QED
  BY <1>1 DEF AdoptedUsable, Usable

LEMMA MovesKeepInv ==
  ASSUME IInv, Moves
  PROVE  IInv'
<1> USE DEF IInv
<1>1. Len(runs) \in Nat /\ Len(cands) \in 0..MaxCands /\ \A c \in 1..Len(cands) : cands[c].run \in 1..Len(runs)
  BY Rows
<1>2. \A c \in 1..Len(cands) : cands'[c].run = cands[c].run /\ runs'[cands[c].run].of = Of(c)
  BY <1>1 DEF Moves, RunsKept, CandsKept, Of
<1>3. DOMAIN cands' = 1..Len(cands')
  BY LenProperties DEF Moves, CandsKept
<1>4. Len(cands) <= Len(cands') /\ Len(cands') \in Nat
  BY DEF Moves, CandsKept
<1>5. ASSUME NEW t \in Targets
      PROVE  /\ item'[t].adopted <= Len(cands')
             /\ item'[t].status = "approved" <=> item'[t].adopted # 0
             /\ item'[t].adopted # 0 =>
                  /\ runs'[cands'[item'[t].adopted].run].of = t
                  /\ cands'[item'[t].adopted].status \in (IF t = Clip THEN {"selected"} ELSE Usable)
  <2>1. /\ item[t].status = "approved" <=> item[t].adopted # 0
        /\ item[t].adopted \in 0..Len(cands)
        /\ item[t].adopted # 0 =>
              /\ item[t].adopted \in 1..Len(cands)
              /\ Of(item[t].adopted) = t
              /\ cands[item[t].adopted].status \in Usable
              /\ t = Clip => cands[item[t].adopted].status = "selected"
    BY <1>5, AdoptedAt, Rows
  <2>2. CASE Keeps(t)
    BY <1>1, <1>2, <1>4, <2>1, <2>2 DEF Keeps
  <2>3. CASE Opens(t)
    BY <1>4, <2>3 DEF Opens
  <2>4. CASE Adopts(t)
    BY <1>4, <2>4 DEF Adopts, Usable
  <2> QED
    BY <1>5, <2>2, <2>3, <2>4 DEF Moves
<1>6. AdoptedUsable'
  BY <1>5 DEF AdoptedUsable, Of
<1>7. TypeOK'
  BY <1>3, <1>5 DEF TypeOK, Moves, RunsKept, CandsKept
<1> QED
  BY <1>6, <1>7

\* Changes of items.
LEMMA NotedItem ==
  ASSUME TypeOK, NEW i \in Item
  PROVE  /\ Noted(i) \in Item /\ Noted(i).adopted = i.adopted /\ Noted(i).version = i.version
         /\ (i.status = "approved" <=> i.adopted # 0) => (Noted(i).status = "approved" <=> i.status = "approved")
<1>1. Len(runs) \in 0..MaxRuns
  BY Rows
<1>2. ResultStatus(i) \in ItemStatus /\ HasResult(i) \in BOOLEAN
  BY DEF ResultStatus, HasResult, Item, ItemStatus
<1>3. Noted(i) \in Item /\ Noted(i).adopted = i.adopted /\ Noted(i).version = i.version /\ Noted(i).status = ResultStatus(i)
  BY <1>1, <1>2 DEF Noted, Item
<1> QED
  BY <1>3 DEF ResultStatus

LEMMA ItemSet ==
  ASSUME TypeOK, NEW t \in Targets, NEW i \in Item, SetItem(t, i)
  PROVE  item' \in [Targets -> Item] /\ item'[t] = i /\ \A u \in Targets \ {t} : item'[u] = item[u]
<1> QED
  BY DEF TypeOK, SetItem

LEMMA PictureSet ==
  ASSUME TypeOK, NEW p \in Pictures, NEW i \in Item, NEW b \in BOOLEAN, SetPicture(p, i, b)
  PROVE  /\ item' \in [Targets -> Item] /\ item'[p] = i
         /\ \A t \in Targets \ {p} : item'[t] = item[t] \/ (t = Clip /\ item'[t] = Noted(item[t]))
<1>1. p \in Targets /\ p # Clip /\ Clip \in Targets
  BY DEF Pictures, Targets, Clip
<1>2. item \in [Targets -> Item] /\ Noted(item[Clip]) \in Item
  BY <1>1, NotedItem DEF TypeOK
<1> QED
  BY <1>1, <1>2 DEF SetPicture

\* Nothing is taken away from an item that is the same or only noted.
LEMMA UntouchedKeeps ==
  ASSUME IInv, NEW t \in Targets, item'[t] = item[t] \/ item'[t] = Noted(item[t]),
         item[t].adopted # 0 => \/ cands'[item[t].adopted].status = cands[item[t].adopted].status
                                \/ t # Clip /\ cands'[item[t].adopted].status \in Usable
  PROVE  Keeps(t)
<1>1. item[t] \in Item /\ (item[t].status = "approved" <=> item[t].adopted # 0)
  BY Rows, AdoptedAt DEF IInv
<1> QED
  BY <1>1, NotedItem DEF IInv, Keeps
-------------------------------------------------------------------------------
(***************************************************************************)
(* One lemma per action.                                                   *)
(***************************************************************************)
USE DEF IInv

\* Steps that change no candidate's status and no adoption.
LEMMA QuietMoves ==
  ASSUME IInv, RunsKept, CandsKept, \A c \in 1..Len(cands) : cands'[c] = cands[c],
         item' = item, step' \in Steps, mode' = mode
  PROVE  Moves
<1>1. \A t \in Targets : item[t].adopted # 0 => item[t].adopted \in 1..Len(cands)
  BY AdoptedAt
<1>2. ASSUME NEW t \in Targets PROVE Keeps(t)
  BY <1>1, <1>2, UntouchedKeeps
<1> QED
  BY <1>2 DEF Moves, TypeOK

LEMMA EditMoves ==
  ASSUME IInv, NEW T \in SUBSET Targets, Edit(T)
  PROVE  Moves
<1>1. RunsKept /\ CandsKept /\ cands' = cands
  BY SameRuns, SameCands DEF Edit
<1>2. ASSUME NEW t \in Targets
      PROVE  item'[t] \in Item /\ Keeps(t)
  <2>1. item[t] \in Item /\ (item[t].status = "approved" <=> item[t].adopted # 0)
    BY <1>2, Rows, AdoptedAt
  <2>2. CASE t \in T
    <3>1. /\ Noted(item[t]) \in Item /\ Noted(item[t]).adopted = item[t].adopted
          /\ Noted(item[t]).version = item[t].version
          /\ Noted(item[t]).status = "approved" <=> item[t].status = "approved"
      BY <2>1, NotedItem
    <3>2. item[t].version < MaxEdits /\ item'[t] = Edited(item[t])
      BY <1>2, <2>2 DEF Edit
    <3>3. /\ Edited(item[t]) \in Item /\ Edited(item[t]).adopted = item[t].adopted
          /\ Edited(item[t]).status = "approved" <=> item[t].status = "approved"
      <4> DEFINE n == Noted(item[t])
      <4>1. n \in Item /\ n.version + 1 \in 0..MaxEdits
        BY <2>1, <3>1, <3>2 DEF Item
      <4>2. Edited(item[t]) = [n EXCEPT !.version = n.version + 1]
        BY DEF Edited
      <4> HIDE DEF n
      <4>3. Edited(item[t]) \in Item /\ Edited(item[t]).adopted = n.adopted /\ Edited(item[t]).status = n.status
        BY <4>1, <4>2 DEF Item
      <4> QED
        BY <3>1, <4>3 DEF n
    <3> QED
      BY <1>1, <3>2, <3>3 DEF Keeps
  <2>3. CASE t \notin T
    <3>1. item'[t] = item[t]
      BY <1>2, <2>3 DEF Edit
    <3> QED
      BY <1>1, <2>1, <3>1 DEF Keeps
  <2> QED
    BY <2>2, <2>3
<1>3. item' \in [Targets -> Item]
  BY <1>2 DEF Edit
<1> QED
  BY <1>1, <1>2, <1>3 DEF Moves, Edit, TypeOK

LEMMA EditShotMoves ==
  ASSUME IInv, NoSharedEdit, NEW clip \in BOOLEAN, EditShot(clip)
  PROVE  Moves
<1> DEFINE pics == [p \in Pictures |-> Noted(item[p])]
<1>1. RunsKept /\ CandsKept /\ cands' = cands
  BY SameRuns, SameCands DEF EditShot
<1>2. 1 \in Pictures /\ \A t \in Targets : t = Clip \/ t \in Pictures
  BY DEF Pictures, Targets, Clip
<1>3. ShotStatus(pics) = pics[1].status /\ item[1].version < MaxEdits /\ item[Clip].version < MaxEdits
  BY DEF EditShot, NoSharedEdit
<1>4. ASSUME NEW t \in Targets
      PROVE  /\ item[t] \in Item /\ Noted(item[t]) \in Item
             /\ Noted(item[t]).adopted = item[t].adopted /\ Noted(item[t]).version = item[t].version
             /\ Noted(item[t]).status = "approved" <=> item[t].status = "approved"
  BY <1>4, Rows, AdoptedAt, NotedItem
<1>5. ASSUME NEW t \in Targets
      PROVE  item'[t] \in Item /\ Keeps(t)
  <2>1. CASE t = Clip
    <3> DEFINE n == Noted(item[t])
    <3>1. item'[t] = IF clip THEN Edited(item[t]) ELSE item[t]
      BY <1>5, <2>1 DEF EditShot
    <3>2. n \in Item /\ n.version + 1 \in 0..MaxEdits
      BY <1>3, <1>4, <1>5, <2>1 DEF Item
    <3>3. Edited(item[t]) = [n EXCEPT !.version = n.version + 1]
      BY DEF Edited
    <3> HIDE DEF n
    <3>4. Edited(item[t]) \in Item /\ Edited(item[t]).adopted = n.adopted /\ Edited(item[t]).status = n.status
      BY <3>2, <3>3 DEF Item
    <3> QED
      BY <1>1, <1>4, <1>5, <3>1, <3>4 DEF Keeps, n
  <2>2. CASE t = 1 /\ t # Clip
    <3> DEFINE n == Noted(item[t])
               b == \E p \in Pictures : pics[p].changed
    <3>1. item'[t] = [pics[1] EXCEPT !.status = ShotStatus(pics), !.version = @ + 1, !.changed = b]
      BY <1>5, <2>2 DEF EditShot
    <3>2. pics[1] = n
      BY <1>2, <2>2
    <3>3. n \in Item /\ n.version + 1 \in 0..MaxEdits /\ b \in BOOLEAN
      BY <1>3, <1>4, <1>5, <2>2 DEF Item
    <3>4. item'[t] = [n EXCEPT !.status = n.status, !.version = n.version + 1, !.changed = b]
      BY <1>3, <3>1, <3>2
    <3> HIDE DEF n, b
    <3>5. item'[t] \in Item /\ item'[t].adopted = n.adopted /\ item'[t].status = n.status
      BY <3>3, <3>4 DEF Item
    <3> QED
      BY <1>1, <1>4, <1>5, <3>5 DEF Keeps, n
  <2>3. CASE t # 1 /\ t # Clip
    <3>1. item'[t] = Noted(item[t])
      BY <1>2, <1>5, <2>3 DEF EditShot
    <3> QED
      BY <1>1, <1>4, <1>5, <3>1 DEF Keeps
  <2> QED
    BY <2>1, <2>2, <2>3
<1>6. item' \in [Targets -> Item]
  BY <1>5 DEF EditShot
<1> QED
  BY <1>1, <1>5, <1>6 DEF Moves, EditShot, TypeOK

LEMMA AskMoves ==
  ASSUME IInv,
         \/ \E p \in Pictures : Generate(p)
         \/ \E r \in DOMAIN runs : RetryPicture(r)
  PROVE  Moves
<1>1. \A t \in Targets : item[t].version \in 0..MaxEdits
  BY Rows DEF Item
<1>2. \A r \in DOMAIN runs : runs[r] \in Run /\ runs[r].of \in Targets /\ runs[r].prompt \in 0..MaxEdits
  BY Rows DEF Run
<1>3. PICK p \in Targets, v \in 0..MaxEdits :
        /\ Len(runs) < MaxRuns /\ runs' = Append(runs, RunOf(p, "queued", v, {}, FALSE))
        /\ UNCHANGED <<step, mode, item, cands>>
  <2>1. ASSUME NEW p \in Pictures, Generate(p)
        PROVE  \E q \in Targets, v \in 0..MaxEdits :
                 /\ Len(runs) < MaxRuns /\ runs' = Append(runs, RunOf(q, "queued", v, {}, FALSE))
                 /\ UNCHANGED <<step, mode, item, cands>>
    <3>1. p \in Targets
      BY DEF Pictures, Targets
    <3> QED
      BY <1>1, <2>1, <3>1 DEF Generate
  <2>2. ASSUME NEW r \in DOMAIN runs, RetryPicture(r)
        PROVE  \E q \in Targets, v \in 0..MaxEdits :
                 /\ Len(runs) < MaxRuns /\ runs' = Append(runs, RunOf(q, "queued", v, {}, FALSE))
                 /\ UNCHANGED <<step, mode, item, cands>>
    BY <1>2, <2>2 DEF RetryPicture
  <2> QED
    BY <2>1, <2>2
<1>4. RunOf(p, "queued", v, {}, FALSE) \in Run
  BY RunOfTyped DEF RunStatus
<1>5. RunsKept
  BY <1>3, <1>4, AppendedRun
<1> QED
  BY <1>3, <1>5, SameCands, QuietMoves DEF TypeOK

LEMMA BeginMoves ==
  ASSUME IInv, NEW r \in DOMAIN runs, Begin(r) \/ GiveUp(r)
  PROVE  Moves
<1>1. r \in 1..Len(runs) /\ runs[r] \in Run
  BY Rows
<1>2. CASE Begin(r)
  <2> DEFINE x == [runs[r] EXCEPT !.status = "working", !.seen = Inputs(runs[r].of)]
  <2>1. runs[r].of \in Targets /\ Inputs(runs[r].of) \in (0..MaxEdits) \X Modes
    BY <1>1, Rows DEF Run, Inputs, TypeOK, Item
  <2>2. x \in Run /\ x.of = runs[r].of
    BY <1>1, <2>1 DEF Run, RunStatus
  <2>3. runs' = [runs EXCEPT ![r] = x]
    BY <1>2 DEF Begin
  <2> HIDE DEF x
  <2>4. RunsKept
    BY <1>1, <2>2, <2>3, ChangedRun
  <2> QED
    BY <1>2, <2>4, SameCands, QuietMoves DEF Begin, TypeOK
<1>3. CASE GiveUp(r)
  <2>1. RunsKept
    BY <1>1, <1>3, EndedRun DEF GiveUp, RunStatus
  <2> QED
    BY <1>3, <2>1, SameCands, QuietMoves DEF GiveUp, TypeOK
<1> QED
  BY <1>2, <1>3

LEMMA PublishMoves ==
  ASSUME IInv, NEW r \in DOMAIN runs, Publish(r)
  PROVE  Moves
<1>1. /\ r \in 1..Len(runs') /\ RunsKept /\ cands \in Seq(Cand) /\ Len(cands) \in Nat
      /\ "ready" \in CandStatus /\ Len(cands) + 1 <= MaxCands /\ cands' = cands \o New(r, "ready", 1)
  BY Rows, SameRuns DEF Publish, TypeOK, CandStatus
<1>2. CandsKept /\ \A c \in 1..Len(cands) : cands'[c] = cands[c]
  <2>1. 1 \in Nat /\ TypeOK /\ \A c \in 1..Len(cands) : cands[c].run = cands[c].run
    OBVIOUS
  <2> QED
    BY <1>1, <2>1, GrownCands DEF Grown
<1> QED
  BY <1>1, <1>2, QuietMoves DEF Publish, TypeOK

LEMMA StageMoves ==
  ASSUME IInv, Enter \/ Advance
  PROVE  Moves
<1>1. RunsKept /\ CandsKept
  BY SameRuns, SameCands DEF Enter, Advance
<1> QED
  BY <1>1, QuietMoves DEF Enter, Advance, Steps
\* A step that changes the rows of one picture or clip, and of the others'
\* items at most what is noted beside them.
LEMMA OneMoves ==
  ASSUME IInv, RunsKept, CandsKept, step' \in Steps, mode' \in Modes,
         NEW p \in Targets, item' \in [Targets -> Item],
         \A t \in Targets \ {p} : item'[t] = item[t] \/ item'[t] = Noted(item[t]),
         \A c \in 1..Len(cands) : Of(c) # p => cands'[c].status = cands[c].status,
         Keeps(p) \/ Opens(p) \/ Adopts(p)
  PROVE  Moves
<1>1. ASSUME NEW t \in Targets, t # p
      PROVE  Keeps(t)
  <2>1. item[t].adopted # 0 => item[t].adopted \in 1..Len(cands) /\ Of(item[t].adopted) = t
    BY <1>1, AdoptedAt
  <2>2. item[t].adopted # 0 => cands'[item[t].adopted].status = cands[item[t].adopted].status
    BY <1>1, <2>1
  <2> QED
    BY <1>1, <2>2, UntouchedKeeps
<1> QED
  BY <1>1 DEF Moves

\* An item with nothing adopted.
LEMMA OpenedItem ==
  ASSUME NEW j \in Item, NEW s \in {"ready", "review", "failed"}
  PROVE  /\ [j EXCEPT !.status = s, !.adopted = 0] \in Item
         /\ [j EXCEPT !.status = s, !.adopted = 0].adopted = 0
         /\ [j EXCEPT !.status = s, !.adopted = 0].status # "approved"
<1>1. 0 \in 0..MaxCands
  OBVIOUS
<1>2. s \in ItemStatus /\ s # "approved"
  BY DEF ItemStatus
<1> QED
  BY <1>1, <1>2 DEF Item

\* Only candidates of the set lose their selection.
LEMMA DeselectedRows ==
  ASSUME TypeOK, NEW S
  PROVE  /\ Deselected(S) \in Seq(Cand) /\ Len(Deselected(S)) = Len(cands)
         /\ \A c \in 1..Len(cands) :
              /\ Deselected(S)[c].run = cands[c].run
              /\ c \notin Among(S, {"selected"}) => Deselected(S)[c] = cands[c]
<1> QED
  BY SetRows DEF Deselected, CandStatus

\* Rows that change in number and status; those of pictures other than p only in number.
LEMMA GrownOf ==
  ASSUME IInv, RunsKept, NEW p \in Targets,
         NEW cs \in {cands, Deselected(CandsOf(p))},
         NEW r \in 1..Len(runs'), NEW s \in CandStatus, NEW n \in Nat,
         Len(cands) + n <= MaxCands, cands' = cs \o New(r, s, n)
  PROVE  /\ Grown(cs, r, s, n)
         /\ \A c \in 1..Len(cands) : Of(c) # p => cands'[c].status = cands[c].status
<1> DEFINE D == Among(CandsOf(p), {"selected"})
<1>1. /\ cs \in Seq(Cand) /\ Len(cs) = Len(cands)
      /\ \A c \in 1..Len(cands) : cs[c].run = cands[c].run /\ (c \notin D => cs[c] = cands[c])
  BY DeselectedRows DEF TypeOK
<1>2. \A c \in D : Of(c) = p
  BY DEF Among, CandsOf
<1> HIDE DEF D
<1>6. TypeOK /\ cs \in Seq(Cand) /\ Len(cs) = Len(cands) /\ \A c \in 1..Len(cands) : cs[c].run = cands[c].run
  BY <1>1
<1>3. Grown(cs, r, s, n)
  BY <1>6, GrownCands
<1> QED
  BY <1>1, <1>2, <1>3 DEF Grown

LEMMA FinishMoves ==
  ASSUME IInv, NEW r \in DOMAIN runs, NEW n \in 0..MaxCands,
         NEW status \in {"completed", "failed"}, Finish(r, n, status)
  PROVE  Moves
<1> DEFINE p == runs[r].of
           own == {c \in DOMAIN cands : cands[c].run = r}
           cs == IF Preserves(r) \/ Among(own, {"selected"}) # {} THEN cands ELSE Deselected(CandsOf(p))
           st == IF own # {} \/ n > 0 THEN "review" ELSE "failed"
<1>1. r \in 1..Len(runs) /\ p \in Targets /\ item[p] \in Item
  BY Rows DEF Run
<1>2. /\ runs' = Ended(r, status) /\ cands' = cs \o New(r, "ready", n) /\ mode' = mode
      /\ Len(cands) + n <= MaxCands
      /\ IF Preserves(r) THEN UNCHANGED <<step, item>>
         ELSE step' = "images" /\ SetItem(p, [item[p] EXCEPT !.status = st, !.adopted = 0])
  BY DEF Finish
<1>3. RunsKept
  BY <1>1, <1>2, EndedRun DEF RunStatus
<1>4. cs \in {cands, Deselected(CandsOf(p))} /\ r \in 1..Len(runs') /\ "ready" \in CandStatus /\ n \in Nat
  BY <1>1, <1>3 DEF RunsKept, CandStatus
<1>5. st \in {"review", "failed"}
  OBVIOUS
<1> HIDE DEF cs, st, own, p
<1>6. /\ CandsKept
      /\ \A c \in 1..Len(cands) : cands'[c] = cs[c]
      /\ \A c \in 1..Len(cands) : Of(c) # p => cands'[c].status = cands[c].status
  BY <1>1, <1>2, <1>3, <1>4, GrownOf DEF Grown
<1>7. CASE Preserves(r)
  <2>1. cs = cands
    BY <1>7 DEF cs
  <2> QED
    BY <1>2, <1>3, <1>6, <1>7, <2>1, QuietMoves DEF TypeOK
<1>8. CASE ~Preserves(r)
  <2> DEFINE i == [item[p] EXCEPT !.status = st, !.adopted = 0]
  <2>1. i \in Item /\ i.adopted = 0 /\ i.status # "approved"
    BY <1>1, <1>5, OpenedItem
  <2>2. step' \in Steps /\ mode' \in Modes /\ SetItem(p, i)
    BY <1>2, <1>8 DEF Steps, TypeOK
  <2> HIDE DEF i
  <2>3. item' \in [Targets -> Item] /\ item'[p] = i /\ \A u \in Targets \ {p} : item'[u] = item[u]
    BY <1>1, <2>1, <2>2, ItemSet
  <2>4. Opens(p)
    BY <2>1, <2>3 DEF Opens
  <2> QED
    BY <1>1, <1>3, <1>6, <2>2, <2>3, <2>4, OneMoves
<1> QED
  BY <1>7, <1>8

LEMMA RecoverMoves ==
  ASSUME IInv, NEW r \in DOMAIN runs, Recover(r)
  PROVE  Moves
<1> DEFINE p == runs[r].of
           cs == IF item[p].status = "approved" THEN cands ELSE Deselected(CandsOf(p))
           i == [item[p] EXCEPT !.status = "review", !.adopted = 0]
<1>1. r \in 1..Len(runs) /\ p \in Targets /\ item[p] \in Item
  BY Rows DEF Run
<1>2. /\ runs' = Ended(r, "completed") /\ cands' = cs \o New(r, "ready", 1)
      /\ step' = step /\ mode' = mode /\ Len(cands) + 1 <= MaxCands
      /\ IF item[p].status = "approved" THEN item' = item ELSE SetItem(p, i)
  BY Rows DEF Recover
<1>3. RunsKept
  BY <1>1, <1>2, EndedRun DEF RunStatus
<1>4. cs \in {cands, Deselected(CandsOf(p))} /\ r \in 1..Len(runs') /\ "ready" \in CandStatus /\ 1 \in Nat
  BY <1>1, <1>3 DEF RunsKept, CandStatus
<1>5. i \in Item /\ i.adopted = 0 /\ i.status # "approved"
  BY <1>1, OpenedItem
<1> HIDE DEF cs, i, p
<1>6. /\ CandsKept
      /\ \A c \in 1..Len(cands) : cands'[c] = cs[c]
      /\ \A c \in 1..Len(cands) : Of(c) # p => cands'[c].status = cands[c].status
  BY <1>1, <1>2, <1>3, <1>4, GrownOf DEF Grown
<1>7. CASE item[p].status = "approved"
  <2>1. cs = cands
    BY <1>7 DEF cs
  <2> QED
    BY <1>2, <1>3, <1>6, <1>7, <2>1, QuietMoves DEF TypeOK
<1>8. CASE item[p].status # "approved"
  <2>3. item' \in [Targets -> Item] /\ item'[p] = i /\ \A u \in Targets \ {p} : item'[u] = item[u]
    BY <1>1, <1>2, <1>5, <1>8, ItemSet
  <2>4. Opens(p)
    BY <1>5, <2>3 DEF Opens
  <2> QED
    BY <1>1, <1>2, <1>3, <1>6, <2>3, <2>4, OneMoves DEF TypeOK
<1> QED
  BY <1>7, <1>8

LEMMA MakeClipMoves ==
  ASSUME IInv, NEW v \in 0..MaxEdits, NEW S \in SUBSET AdoptedImages, NEW n \in 0..1,
         MakeClip(v, S, n)
  PROVE  Moves
<1> DEFINE x == RunOf(Clip, IF n > 0 THEN "completed" ELSE "failed", v, S, FALSE)
           st == IF n > 0 THEN "review" ELSE "failed"
           i == [item[Clip] EXCEPT !.status = st, !.adopted = 0]
<1>1. Clip \in Targets /\ item[Clip] \in Item /\ Len(runs) \in Nat
  BY Rows DEF Clip, Targets
<1>2. S \in SUBSET (1..MaxCands)
  <2>1. \A p \in Pictures : item[p].adopted \in 0..MaxCands
    BY Rows DEF Item, Pictures, Targets
  <2> QED
    BY <2>1 DEF AdoptedImages
<1>3. x \in Run
  BY <1>1, <1>2, RunOfTyped DEF RunStatus
<1>4. /\ Len(runs) < MaxRuns /\ runs' = Append(runs, x)
      /\ Len(cands) + n <= MaxCands /\ cands' = cands \o New(Len(runs) + 1, "ready", n) /\ mode' = mode
      /\ IF item[Clip].status = "approved" /\ item[Clip].adopted # 0 THEN UNCHANGED <<step, item>>
         ELSE step' = "videos" /\ SetItem(Clip, i)
  BY DEF MakeClip
<1>5. st \in {"review", "failed"}
  OBVIOUS
<1>6. i \in Item /\ i.adopted = 0 /\ i.status # "approved"
  BY <1>1, <1>5, OpenedItem
<1> HIDE DEF x, st, i
<1>7. RunsKept /\ Len(runs') = Len(runs) + 1
  BY <1>3, <1>4, AppendedRun
<1>8. Len(runs) + 1 \in 1..Len(runs') /\ "ready" \in CandStatus /\ n \in Nat /\ cands \in {cands, Deselected(CandsOf(Clip))}
  BY <1>1, <1>7 DEF CandStatus
<1>9. /\ CandsKept
      /\ \A c \in 1..Len(cands) : cands'[c] = cands[c]
      /\ \A c \in 1..Len(cands) : Of(c) # Clip => cands'[c].status = cands[c].status
  BY <1>1, <1>4, <1>7, <1>8, GrownOf DEF Grown
<1>10. CASE item[Clip].status = "approved" /\ item[Clip].adopted # 0
  BY <1>4, <1>7, <1>9, <1>10, QuietMoves DEF TypeOK
<1>11. CASE ~(item[Clip].status = "approved" /\ item[Clip].adopted # 0)
  <2>1. item' \in [Targets -> Item] /\ item'[Clip] = i /\ \A u \in Targets \ {Clip} : item'[u] = item[u]
    BY <1>1, <1>4, <1>6, <1>11, ItemSet
  <2>2. Opens(Clip)
    BY <1>6, <2>1 DEF Opens
  <2>3. step' \in Steps /\ mode' \in Modes
    BY <1>4, <1>11 DEF Steps, TypeOK
  <2> QED
    BY <1>1, <1>7, <1>9, <2>1, <2>2, <2>3, OneMoves
<1> QED
  BY <1>10, <1>11
LEMMA SelectMoves ==
  ASSUME IInv, NEW c \in DOMAIN cands, Select(c)
  PROVE  Moves
<1> DEFINE t == Of(c)
           kept == t # Clip /\ item[t].adopted # 0
           i == IF kept THEN [item[t] EXCEPT !.status = "approved"]
                ELSE [item[t] EXCEPT !.status = "review", !.adopted = 0]
<1>1. c \in 1..Len(cands) /\ t \in Targets /\ item[t] \in Item
  BY Rows DEF Of, Run
<1>2. cands' = Chosen(c) /\ SetItem(t, i) /\ step' = step /\ mode' = mode /\ runs' = runs
  BY DEF Select
<1>3. /\ cands' \in Seq(Cand) /\ Len(cands') = Len(cands)
      /\ \A b \in 1..Len(cands) :
           /\ cands'[b].run = cands[b].run
           /\ b = c => cands'[b].status = "selected"
           /\ b # c /\ Of(b) # t => cands'[b].status = cands[b].status
           /\ b # c /\ cands[b].status \in Usable => cands'[b].status \in Usable
  BY <1>1, <1>2, ChosenRows
<1>4. RunsKept /\ CandsKept
  BY <1>2, <1>3, SameRuns, ChangedCands
<1>5. i \in Item /\ (~kept => i.adopted = 0 /\ i.status # "approved")
      /\ (kept => i.adopted = item[t].adopted /\ i.status = "approved")
  <2>1. CASE kept
    BY <1>1, <2>1 DEF Item, ItemStatus
  <2>2. CASE ~kept
    BY <1>1, <2>2, OpenedItem
  <2> QED
    BY <2>1, <2>2
<1> HIDE DEF i
<1>6. item' \in [Targets -> Item] /\ item'[t] = i /\ \A u \in Targets \ {t} : item'[u] = item[u]
  BY <1>1, <1>2, <1>5, ItemSet
<1>7. Keeps(t) \/ Opens(t)
  <2>1. CASE kept
    <3>1. /\ item[t].adopted \in 1..Len(cands) /\ cands[item[t].adopted].status \in Usable
          /\ item[t].status = "approved"
      BY <1>1, <2>1, AdoptedAt
    <3>2. cands'[item[t].adopted].status \in Usable
      BY <1>3, <3>1 DEF Usable
    <3> QED
      BY <1>5, <1>6, <2>1, <3>1, <3>2 DEF Keeps
  <2>2. CASE ~kept
    BY <1>5, <1>6, <2>2 DEF Opens
  <2> QED
    BY <2>1, <2>2
<1>8. \A b \in 1..Len(cands) : Of(b) # t => cands'[b].status = cands[b].status
  BY <1>3
<1> HIDE DEF t
<1> QED
  BY <1>1, <1>2, <1>4, <1>6, <1>7, <1>8, OneMoves DEF TypeOK

\* The adopted candidate is chosen among those of its picture or clip.
LEMMA ApproveMoves ==
  ASSUME IInv, NEW c \in DOMAIN cands, ApprovePicture(c) \/ ApproveClip(c)
  PROVE  Moves
<1> DEFINE t == Of(c)
           i == [item[t] EXCEPT !.status = "approved", !.adopted = c, !.changed = Older(cands[c].run, t)]
<1>1. c \in 1..Len(cands) /\ t \in Targets /\ item[t] \in Item /\ c \in 0..MaxCands
  BY Rows DEF Of, Run
<1>2. cands' = Chosen(c) /\ runs' = runs /\ step' = step
  BY DEF ApprovePicture, ApproveClip
<1>3. /\ cands' \in Seq(Cand) /\ Len(cands') = Len(cands)
      /\ \A b \in 1..Len(cands) :
           /\ cands'[b].run = cands[b].run
           /\ b = c => cands'[b].status = "selected"
           /\ b # c /\ Of(b) # t => cands'[b].status = cands[b].status
  BY <1>1, <1>2, ChosenRows
<1>4. RunsKept /\ CandsKept
  BY <1>2, <1>3, SameRuns, ChangedCands
<1>5. i \in Item /\ i.adopted = c /\ i.status = "approved"
  <2>1. Older(cands[c].run, t) \in BOOLEAN /\ "approved" \in ItemStatus
    BY DEF Older, ItemStatus
  <2> QED
    BY <1>1, <2>1 DEF Item
<1>6. mode' \in Modes
  BY DEF ApprovePicture, ApproveClip, Modes, TypeOK
<1> HIDE DEF i
<1>7. /\ item' \in [Targets -> Item] /\ item'[t] = i
      /\ \A u \in Targets \ {t} : item'[u] = item[u] \/ item'[u] = Noted(item[u])
  <2>1. CASE ApprovePicture(c)
    <3>1. t \in Pictures /\ SetPicture(t, i, item[t].status = "approved" /\ Impact)
      BY <1>1, <2>1 DEF ApprovePicture, i, Pictures, Targets, Clip
    <3>2. (item[t].status = "approved" /\ Impact) \in BOOLEAN
      OBVIOUS
    <3> HIDE DEF t
    <3> QED
      BY <1>5, <3>1, <3>2, PictureSet
  <2>2. CASE ApproveClip(c)
    <3>1. t = Clip /\ SetItem(t, i)
      BY <2>2 DEF ApproveClip, i
    <3> QED
      BY <1>1, <1>5, <3>1, ItemSet
  <2> QED
    BY <2>1, <2>2
<1>8. Adopts(t)
  <2>1. runs'[cands'[c].run].of = t
    BY <1>1, <1>2, <1>3 DEF Of
  <2> QED
    BY <1>1, <1>3, <1>5, <1>7, <2>1 DEF Adopts
<1>9. \A b \in 1..Len(cands) : Of(b) # t => cands'[b].status = cands[b].status
  BY <1>3
<1> HIDE DEF t
<1> QED
  BY <1>1, <1>2, <1>4, <1>6, <1>7, <1>8, <1>9, OneMoves DEF TypeOK

\* Rows of p that change their status, its own item, and what is noted beside others.
LEMMA SetMoves ==
  ASSUME IInv, runs' = runs, step' = step, mode' = mode,
         NEW p \in Targets, NEW S \in SUBSET CandsOf(p), NEW s \in CandStatus, cands' = Set(S, s),
         item' \in [Targets -> Item],
         \A t \in Targets \ {p} : item'[t] = item[t] \/ item'[t] = Noted(item[t]),
         \/ Opens(p)
         \/ /\ item'[p].adopted = item[p].adopted /\ item'[p].status = item[p].status
            /\ item[p].adopted \notin S
  PROVE  Moves
<1>1. /\ cands' \in Seq(Cand) /\ Len(cands') = Len(cands)
      /\ \A c \in 1..Len(cands) :
           /\ cands'[c].run = cands[c].run
           /\ c \notin S => cands'[c] = cands[c]
  BY SetRows
<1>2. RunsKept /\ CandsKept
  BY <1>1, SameRuns, ChangedCands
<1>3. \A c \in 1..Len(cands) : Of(c) # p => cands'[c].status = cands[c].status
  BY <1>1 DEF CandsOf
<1>4. Keeps(p) \/ Opens(p)
  <2>1. item[p].adopted # 0 => item[p].adopted \in 1..Len(cands)
    BY AdoptedAt
  <2> QED
    BY <1>1, <2>1 DEF Keeps
<1> QED
  BY <1>2, <1>3, <1>4, OneMoves DEF TypeOK

LEMMA RejectMoves ==
  ASSUME IInv, NEW c \in DOMAIN cands, Reject(c)
  PROVE  Moves
<1> DEFINE t == Of(c)
           kept == t = Clip /\ item[t].status = "approved"
           others == Among(CandsOf(t) \ {c}, Usable)
           st == IF kept THEN item[t].status ELSE IF others # {} THEN "review" ELSE "ready"
           ad == IF kept THEN item[t].adopted ELSE 0
           ch == Older(cands[c].run, t)
           i == [item[t] EXCEPT !.status = st, !.adopted = ad, !.changed = ch]
<1>1. c \in 1..Len(cands) /\ t \in Targets /\ item[t] \in Item /\ {c} \in SUBSET CandsOf(t)
  BY Rows DEF Of, Run, CandsOf
<1>2. /\ cands' = Set({c}, "rejected") /\ SetItem(t, i) /\ step' = step /\ mode' = mode /\ runs' = runs
      /\ t = Clip => ~Adopted(t, c)
  BY DEF Reject
<1>3. st \in ItemStatus /\ ad \in 0..MaxCands /\ ch \in BOOLEAN
  BY <1>1 DEF Item, ItemStatus, Older
<1>4. IF kept THEN st = item[t].status /\ ad = item[t].adopted ELSE st # "approved" /\ ad = 0
  OBVIOUS
<1>5. i \in Item /\ i.status = st /\ i.adopted = ad
  <2> HIDE DEF st, ad, ch
  <2> QED
    BY <1>1, <1>3 DEF Item
<1> HIDE DEF i, st, ad
<1>6. item' \in [Targets -> Item] /\ item'[t] = i /\ \A u \in Targets \ {t} : item'[u] = item[u]
  BY <1>1, <1>2, <1>5, ItemSet
<1>7. \/ Opens(t)
      \/ /\ item'[t].adopted = item[t].adopted /\ item'[t].status = item[t].status
         /\ item[t].adopted \notin {c}
  BY <1>2, <1>4, <1>5, <1>6 DEF Opens, Adopted
<1>8. "rejected" \in CandStatus
  BY DEF CandStatus
<1> HIDE DEF t
<1> QED
  BY <1>1, <1>2, <1>6, <1>7, <1>8, SetMoves

LEMMA RevokeMoves ==
  ASSUME IInv, RevokeClip \/ \E p \in Pictures : RevokePicture(p)
  PROVE  Moves
<1>1. ASSUME NEW t \in Targets, NEW un, Revoked(t, un), item' \in [Targets -> Item], item'[t] = Open(t),
             \A u \in Targets \ {t} : item'[u] = item[u] \/ item'[u] = Noted(item[u])
      PROVE  Moves
  <2>1. /\ item[t].adopted # 0 /\ cands' = Set({item[t].adopted}, "selected")
        /\ step' = step /\ mode' = mode /\ runs' = runs
    BY <1>1 DEF Revoked
  <2>2. item[t].adopted \in 1..Len(cands) /\ Of(item[t].adopted) = t /\ item[t] \in Item
    BY <1>1, <2>1, AdoptedAt, Rows
  <2>3. {item[t].adopted} \in SUBSET CandsOf(t)
    BY <2>2, Rows DEF CandsOf
  <2>4. Opens(t)
    BY <1>1, <2>2, OpenedItem DEF Opens, Open
  <2>5. "selected" \in CandStatus
    BY DEF CandStatus
  <2> QED
    BY <1>1, <2>1, <2>3, <2>4, <2>5, SetMoves
<1>2. \A t \in Targets : Open(t) \in Item
  BY Rows, OpenedItem DEF Open
<1>3. CASE RevokeClip
  <2>1. Clip \in Targets /\ Revoked(Clip, {"rejected", "deleted"}) /\ SetItem(Clip, Open(Clip))
    BY <1>3 DEF RevokeClip, Clip, Targets
  <2>2. item' \in [Targets -> Item] /\ item'[Clip] = Open(Clip) /\ \A u \in Targets \ {Clip} : item'[u] = item[u]
    BY <1>2, <2>1, ItemSet
  <2> QED
    BY <1>1, <2>1, <2>2
<1>4. ASSUME NEW p \in Pictures, RevokePicture(p) PROVE Moves
  <2>1. p \in Targets /\ Revoked(p, {"rejected"}) /\ SetPicture(p, Open(p), Impact)
    BY <1>4 DEF RevokePicture, Pictures, Targets
  <2>2. Impact \in BOOLEAN
    BY DEF Impact
  <2>3. /\ item' \in [Targets -> Item] /\ item'[p] = Open(p)
        /\ \A t \in Targets \ {p} : item'[t] = item[t] \/ item'[t] = Noted(item[t])
    <3>1. Open(p) \in Item
      BY <1>2, <2>1
    <3> QED
      BY <1>4, <2>1, <2>2, <3>1, PictureSet
  <2> QED
    BY <1>1, <2>1, <2>3
<1> QED
  BY <1>3, <1>4
LEMMA ArchiveMoves ==
  ASSUME IInv, NEW t \in Targets, NEW S \in SUBSET DOMAIN cands,
         \/ Restore(t, S)
         \/ \E removable \in SUBSET (CandStatus \ {"deleted"}) : Archive(t, S, removable)
  PROVE  Moves
<1>1. item[t] \in Item /\ (item[t].status = "approved" <=> item[t].adopted # 0)
      /\ (item[t].adopted # 0 => item[t].adopted \in DOMAIN cands /\ cands[item[t].adopted].status \in Usable)
  BY Rows, AdoptedAt
<1>2. PICK s \in CandStatus, st \in {"ready", "review", "failed"} :
        /\ S \in SUBSET CandsOf(t) /\ cands' = Set(S, s) /\ step' = step /\ mode' = mode /\ runs' = runs
        /\ item[t].adopted \notin S
        /\ \/ item' = item
           \/ item[t].status # "approved" /\ SetItem(t, [item[t] EXCEPT !.status = st])
  <2>1. CASE Restore(t, S)
    <3>1. S \in SUBSET CandsOf(t) /\ \A c \in S : cands[c].status = "deleted" /\ c \in DOMAIN cands
      BY <2>1 DEF Restore, Among
    <3>2. item[t].adopted \notin S
      <4>1. ASSUME item[t].adopted \in S PROVE FALSE
        <5>1. item[t].adopted \in 1..Len(cands)
          BY <3>1, <4>1, Rows
        <5> QED
          BY <1>1, <3>1, <4>1, <5>1, Rows DEF Usable
      <4> QED
        BY <4>1
    <3> QED
      BY <2>1, <3>1, <3>2 DEF Restore, CandStatus
  <2>2. ASSUME NEW removable \in SUBSET (CandStatus \ {"deleted"}), Archive(t, S, removable)
        PROVE  \E s \in CandStatus, st \in {"ready", "review", "failed"} :
        /\ S \in SUBSET CandsOf(t) /\ cands' = Set(S, s) /\ step' = step /\ mode' = mode /\ runs' = runs
        /\ item[t].adopted \notin S
        /\ \/ item' = item
           \/ item[t].status # "approved" /\ SetItem(t, [item[t] EXCEPT !.status = st])
    <3> DEFINE st == IF Among(CandsOf(t) \ S, removable) # {} THEN "review" ELSE "ready"
    <3>1. S \in SUBSET CandsOf(t)
      BY <2>2 DEF Archive, Among
    <3>2. st \in {"ready", "review", "failed"}
      OBVIOUS
    <3>3. item' = item \/ (item[t].status # "approved" /\ SetItem(t, [item[t] EXCEPT !.status = st]))
      BY <2>2 DEF Archive
    <3> HIDE DEF st
    <3>4. /\ cands' = Set(S, "deleted") /\ step' = step /\ mode' = mode /\ runs' = runs
          /\ item[t].adopted \notin S
      BY <2>2 DEF Archive, Spared
    <3> QED
      BY <3>1, <3>2, <3>3, <3>4 DEF CandStatus
  <2> QED
    BY <2>1, <2>2
<1>3. CASE item' = item
  <2>1. item' \in [Targets -> Item] /\ \A u \in Targets \ {t} : item'[u] = item[u]
    BY <1>3 DEF TypeOK
  <2>2. item'[t].adopted = item[t].adopted /\ item'[t].status = item[t].status
    BY <1>3
  <2> QED
    BY <1>2, <2>1, <2>2, SetMoves
<1>4. CASE item[t].status # "approved" /\ SetItem(t, [item[t] EXCEPT !.status = st])
  <2> DEFINE i == [item[t] EXCEPT !.status = st]
  <2>1. i \in Item /\ i.adopted = 0 /\ i.status # "approved"
    BY <1>1, <1>4 DEF Item, ItemStatus
  <2> HIDE DEF i
  <2>2. item' \in [Targets -> Item] /\ item'[t] = i /\ \A u \in Targets \ {t} : item'[u] = item[u]
    BY <1>4, <2>1, ItemSet DEF i
  <2>3. Opens(t)
    BY <2>1, <2>2 DEF Opens
  <2> QED
    BY <1>2, <2>2, <2>3, SetMoves
<1> QED
  BY <1>2, <1>3, <1>4

\* What the source video gives is a run and a candidate of its own, and is adopted.
LEMMA SourceMoves ==
  ASSUME IInv, UseSourceVideo \/ \E p \in Pictures : UseFrame(p)
  PROVE  Moves
<1>1. ASSUME NEW t \in Targets, FromSource(t), step' \in Steps, mode' \in Modes,
             item' \in [Targets -> Item], item'[t] = WithSource(t),
             \A u \in Targets \ {t} : item'[u] = item[u] \/ item'[u] = Noted(item[u])
      PROVE  Moves
  <2> DEFINE x == RunOf(t, "completed", item[t].version, {}, TRUE)
  <2>1. item[t] \in Item /\ item[t].version \in 0..MaxEdits /\ Len(runs) \in Nat /\ Len(cands) \in Nat
    BY <1>1, Rows DEF Item
  <2>2. x \in Run /\ x.of = t
    BY <1>1, <2>1, RunOfTyped DEF RunStatus
  <2>3. /\ Len(runs) < MaxRuns /\ runs' = Append(runs, x) /\ Len(cands) + 1 <= MaxCands
        /\ cands' = Deselected(CandsOf(t)) \o New(Len(runs) + 1, "selected", 1)
    BY <1>1, <2>1 DEF FromSource
  <2> HIDE DEF x
  <2>4. RunsKept /\ Len(runs') = Len(runs) + 1 /\ runs'[Len(runs) + 1] = x
    BY <2>2, <2>3, AppendedRun
  <2>5. /\ Len(runs) + 1 \in 1..Len(runs') /\ "selected" \in CandStatus /\ 1 \in Nat
        /\ Deselected(CandsOf(t)) \in {cands, Deselected(CandsOf(t))}
    BY <2>1, <2>4 DEF CandStatus
  <2>6. /\ Grown(Deselected(CandsOf(t)), Len(runs) + 1, "selected", 1)
        /\ \A c \in 1..Len(cands) : Of(c) # t => cands'[c].status = cands[c].status
    BY <1>1, <2>3, <2>4, <2>5, GrownOf
  <2>7. WithSource(t).status = "approved" /\ WithSource(t).adopted = Len(cands) + 1
    BY <2>1 DEF WithSource, Item
  <2>8. Adopts(t)
    BY <1>1, <2>1, <2>2, <2>4, <2>6, <2>7 DEF Adopts, Grown
  <2> QED
    BY <1>1, <2>4, <2>6, <2>8, OneMoves DEF Grown
<1>2. ASSUME NEW t \in Targets, FromSource(t) PROVE WithSource(t) \in Item
  <2>1. item[t] \in Item /\ Len(cands) + 1 \in 0..MaxCands
    BY <1>2, Rows DEF FromSource
  <2> QED
    BY <2>1 DEF WithSource, Item, ItemStatus
<1>3. CASE UseSourceVideo
  <2>1. Clip \in Targets /\ FromSource(Clip) /\ SetItem(Clip, WithSource(Clip)) /\ mode' = "source" /\ step' = "images"
    BY <1>3 DEF UseSourceVideo, Clip, Targets
  <2>2. WithSource(Clip) \in Item
    BY <1>2, <2>1
  <2>3. item' \in [Targets -> Item] /\ item'[Clip] = WithSource(Clip) /\ \A u \in Targets \ {Clip} : item'[u] = item[u]
    BY <2>1, <2>2, ItemSet
  <2> QED
    BY <1>1, <2>1, <2>3 DEF Modes, Steps
<1>4. ASSUME NEW p \in Pictures, UseFrame(p) PROVE Moves
  <2> DEFINE b == item[p].status = "approved" /\ item[p].adopted # 0 /\ Impact
  <2>1. p \in Targets /\ FromSource(p) /\ SetPicture(p, WithSource(p), b) /\ mode' = "images" /\ step' = step
    BY <1>4 DEF UseFrame, Pictures, Targets
  <2>2. WithSource(p) \in Item /\ b \in BOOLEAN
    BY <1>2, <2>1
  <2> HIDE DEF b
  <2>3. /\ item' \in [Targets -> Item] /\ item'[p] = WithSource(p)
        /\ \A t \in Targets \ {p} : item'[t] = item[t] \/ item'[t] = Noted(item[t])
    BY <1>4, <2>1, <2>2, PictureSet
  <2> QED
    BY <1>1, <2>1, <2>3 DEF Modes, TypeOK
<1> QED
  BY <1>3, <1>4

LEMMA LeaveMoves ==
  ASSUME IInv, LeaveSourceVideo
  PROVE  Moves
<1> DEFINE D == Among(FromSourceVideo, {"selected"})
<1>1. Clip \in Targets /\ D \in SUBSET CandsOf(Clip) /\ "ready" \in CandStatus /\ item[Clip] \in Item
      /\ \A c \in D : c \in FromSourceVideo
  BY Rows DEF Clip, Targets, FromSourceVideo, Among, CandStatus
<1>2. cands' = Set(D, "ready") /\ runs' = runs /\ mode' = "images" /\ step' = "images"
  BY DEF LeaveSourceVideo, Deselected
<1> HIDE DEF D
<1>3. /\ cands' \in Seq(Cand) /\ Len(cands') = Len(cands)
      /\ \A c \in 1..Len(cands) :
           /\ cands'[c].run = cands[c].run
           /\ c \notin D => cands'[c] = cands[c]
  BY <1>1, <1>2, SetRows
<1>4. RunsKept /\ CandsKept
  BY <1>2, <1>3, SameRuns, ChangedCands
<1>5. \A c \in 1..Len(cands) : Of(c) # Clip => cands'[c].status = cands[c].status
  BY <1>1, <1>3 DEF CandsOf
<1>6. step' \in Steps /\ mode' \in Modes
  BY <1>2 DEF Steps, Modes
<1>7. CASE item[Clip].adopted \in FromSourceVideo
  <2> DEFINE i == [item[Clip] EXCEPT !.status = "ready", !.adopted = 0]
  <2>1. SetItem(Clip, i)
    BY <1>7 DEF LeaveSourceVideo
  <2>2. i \in Item /\ i.adopted = 0 /\ i.status # "approved"
    BY <1>1, OpenedItem
  <2> HIDE DEF i
  <2>3. item' \in [Targets -> Item] /\ item'[Clip] = i /\ \A u \in Targets \ {Clip} : item'[u] = item[u]
    BY <1>1, <2>1, <2>2, ItemSet
  <2>4. Opens(Clip)
    BY <2>2, <2>3 DEF Opens
  <2> QED
    BY <1>1, <1>4, <1>5, <1>6, <2>3, <2>4, OneMoves
<1>8. CASE item[Clip].adopted \notin FromSourceVideo
  <2>1. item' = item /\ item \in [Targets -> Item]
    BY <1>8 DEF LeaveSourceVideo, TypeOK
  <2>2. Keeps(Clip)
    <3>1. item[Clip].adopted # 0 => item[Clip].adopted \in 1..Len(cands) /\ item[Clip].adopted \notin D
      BY <1>1, <1>8, AdoptedAt
    <3> QED
      BY <1>3, <2>1, <3>1 DEF Keeps
  <2> QED
    BY <1>1, <1>4, <1>5, <1>6, <2>1, <2>2, OneMoves
<1> QED
  BY <1>7, <1>8
-------------------------------------------------------------------------------
(***************************************************************************)
(* The theorems.                                                           *)
(***************************************************************************)

\* Nothing is there at first.
LEMMA InitInv ==
  ASSUME Init
  PROVE  IInv
<1>1. runs \in Seq(Run) /\ Len(runs) = 0 /\ cands \in Seq(Cand) /\ Len(cands) = 0 /\ DOMAIN cands = {}
  BY EmptySeq DEF Init
<1>2. item \in [Targets -> Item]
      /\ \A t \in Targets : item[t].adopted = 0 /\ item[t].status = "ready"
  BY DEF Init, Item, ItemStatus
<1> QED
  BY <1>1, <1>2 DEF TypeOK, AdoptedUsable, Init, Steps, Modes

\* Every step keeps the invariant.
LEMMA NextKeepsInv ==
  ASSUME NoSharedEdit, IInv, [Next]_vars
  PROVE  IInv'
<1>1. CASE Generation
  <2>1. ASSUME NEW r \in DOMAIN runs,
               \/ Begin(r) \/ Publish(r)
               \/ \E n \in 0..MaxCands, s \in {"completed", "failed"} : Finish(r, n, s)
               \/ GiveUp(r) \/ Recover(r)
        PROVE  Moves
    BY <2>1, BeginMoves, PublishMoves, FinishMoves, RecoverMoves
  <2>2. ASSUME NEW v \in 0..MaxEdits, NEW S \in SUBSET AdoptedImages, NEW n \in 0..1, MakeClip(v, S, n)
        PROVE  Moves
    BY <2>2, MakeClipMoves
  <2> QED
    BY <1>1, <2>1, <2>2, MovesKeepInv DEF Generation
<1>2. CASE Asking
  BY <1>2, AskMoves, MovesKeepInv DEF Asking
<1>3. CASE Deciding
  <2>1. ASSUME NEW c \in DOMAIN cands, Select(c) \/ ApprovePicture(c) \/ ApproveClip(c) \/ Reject(c)
        PROVE  Moves
    BY <2>1, SelectMoves, ApproveMoves, RejectMoves
  <2>2. CASE RevokeClip \/ \E p \in Pictures : RevokePicture(p)
    BY <2>2, RevokeMoves, MovesKeepInv
  <2>3. ASSUME NEW t \in Targets, NEW S \in SUBSET DOMAIN cands,
               Restore(t, S) \/ Archive(t, S, Usable) \/ Archive(t, S, CandStatus \ {"deleted"})
        PROVE  Moves
    <3>1. Usable \in SUBSET (CandStatus \ {"deleted"})
          /\ (CandStatus \ {"deleted"}) \in SUBSET (CandStatus \ {"deleted"})
      BY DEF Usable, CandStatus
    <3> QED
      BY <2>3, <3>1, ArchiveMoves
  <2>4. Clip \in Targets /\ \A p \in Pictures : p \in Targets
    BY DEF Clip, Targets, Pictures
  <2>5. CASE \/ \E p \in Pictures, S \in SUBSET DOMAIN cands : ArchivePictures(p, S) \/ RestorePictures(p, S)
             \/ \E S \in SUBSET DOMAIN cands : ArchiveClips(S) \/ RestoreClips(S)
    BY <2>3, <2>4, <2>5, MovesKeepInv DEF ArchivePictures, RestorePictures, ArchiveClips, RestoreClips
  <2>6. CASE UseSourceVideo \/ \E p \in Pictures : UseFrame(p)
    BY <2>6, SourceMoves, MovesKeepInv
  <2>7. CASE LeaveSourceVideo
    BY <2>7, LeaveMoves, MovesKeepInv
  <2> QED
    BY <1>3, <2>1, <2>2, <2>5, <2>6, <2>7, MovesKeepInv DEF Deciding
<1>4. CASE Editing
  BY <1>4, EditMoves, EditShotMoves, StageMoves, MovesKeepInv DEF Editing
<1>5. CASE UNCHANGED vars
  BY <1>5 DEF vars, TypeOK, AdoptedUsable, Of
<1> QED
  BY <1>1, <1>2, <1>3, <1>4, <1>5 DEF Next

\* Whatever people do and in whatever order results come in, the variables keep
\* their types and every reference is to a row that is there.
THEOREM TypeCorrect ==
  ASSUME NoSharedEdit
  PROVE  Spec => []TypeOK
<1>1. Init => IInv
  BY InitInv
<1>2. IInv /\ [Next]_vars => IInv'
  BY NextKeepsInv
<1>3. IInv => TypeOK
  OBVIOUS
<1> QED
  BY <1>1, <1>2, <1>3, PTL DEF Spec

\* What is adopted stays a usable candidate of its own picture or clip until
\* somebody takes it back: approve_candidate, archive_visual_candidates and
\* every completion of a run spare it.
THEOREM AdoptedStaysUsable ==
  ASSUME NoSharedEdit
  PROVE  Spec => []AdoptedUsable
<1>1. Init => IInv
  BY InitInv
<1>2. IInv /\ [Next]_vars => IInv'
  BY NextKeepsInv
<1>3. IInv => AdoptedUsable
  OBVIOUS
<1> QED
  BY <1>1, <1>2, <1>3, PTL DEF Spec

(***************************************************************************)
(* Results that come in.  A candidate of the picture that loses its        *)
(* selection is neither adopted nor of the run that delivers.              *)
(***************************************************************************)
Spares ==
    /\ \A t \in Targets : item[t].adopted # 0 =>
         item'[t].adopted = item[t].adopted /\ item'[t].status = item[t].status
    /\ \A c \in DOMAIN cands :
         \/ cands'[c] = cands[c]
         \/ /\ cands[c].status = "selected"
            /\ runs[cands[c].run].status # "working" \/ runs'[cands[c].run] = runs[cands[c].run]
            /\ item[Of(c)].adopted # c

LEMMA QuietSpares ==
  ASSUME item' = item, \A c \in DOMAIN cands : cands'[c] = cands[c]
  PROVE  Spares
<1> QED
  BY DEF Spares

\* A run r delivers for p, where nothing is adopted.
LEMMA DeliverySpares ==
  ASSUME IInv, RunsKept, NEW r \in 1..Len(runs), NEW p \in Targets, item[p].adopted = 0,
         NEW i \in Item, SetItem(p, i),
         \A q \in 1..Len(runs) : q # r => runs'[q] = runs[q],
         NEW n \in Nat, Len(cands) + n <= MaxCands,
         NEW cs \in {cands, Deselected(CandsOf(p))}, cands' = cs \o New(r, "ready", n),
         cs = cands \/ runs[r].status # "working" \/
            \A c \in DOMAIN cands : cands[c].run = r => cands[c].status # "selected"
  PROVE  Spares
<1> DEFINE D == Among(CandsOf(p), {"selected"})
<1>1. DOMAIN cands = 1..Len(cands) /\ \A c \in 1..Len(cands) : cands[c].run \in 1..Len(runs)
  BY Rows
<1>2. r \in 1..Len(runs') /\ "ready" \in CandStatus
  BY DEF RunsKept, CandStatus
<1>3. \A c \in 1..Len(cands) : cands'[c] = cs[c]
  BY <1>2, GrownOf DEF Grown
<1>4. \A c \in 1..Len(cands) : c \notin D => Deselected(CandsOf(p))[c] = cands[c]
  BY DeselectedRows
<1>5. \A c \in D : Of(c) = p /\ cands[c].status = "selected"
  BY DEF Among, CandsOf
<1> HIDE DEF D
<1>6. ASSUME NEW c \in DOMAIN cands, cands'[c] # cands[c]
      PROVE  /\ cands[c].status = "selected" /\ item[Of(c)].adopted # c
             /\ runs[cands[c].run].status # "working" \/ runs'[cands[c].run] = runs[cands[c].run]
  <2>1. c \in D /\ cs # cands
    BY <1>1, <1>3, <1>4, <1>6
  <2>2. cands[c].status = "selected" /\ Of(c) = p /\ c # 0
    BY <1>1, <1>5, <2>1
  <2>3. cands[c].run = r => runs[r].status # "working"
    BY <2>1, <2>2
  <2> QED
    BY <1>1, <2>2, <2>3
<1>7. ASSUME NEW t \in Targets, item[t].adopted # 0
      PROVE  item'[t] = item[t]
  BY <1>7, ItemSet
<1> QED
  BY <1>6, <1>7 DEF Spares

LEMMA GenerationSpares ==
  ASSUME IInv, Generation
  PROVE  Spares
<1>1. DOMAIN cands = 1..Len(cands) /\ DOMAIN runs = 1..Len(runs) /\ cands \in Seq(Cand) /\ Len(runs) \in Nat
  BY Rows DEF TypeOK
<1>2. ASSUME NEW r \in DOMAIN runs, Begin(r) \/ GiveUp(r)
      PROVE  Spares
  BY <1>2, QuietSpares DEF Begin, GiveUp
<1>3. ASSUME NEW r \in DOMAIN runs, Publish(r)
      PROVE  Spares
  <2>1. r \in 1..Len(runs') /\ RunsKept /\ "ready" \in CandStatus /\ 1 \in Nat /\ Len(cands) + 1 <= MaxCands
    BY <1>1, <1>3, Rows, SameRuns DEF Publish, CandStatus
  <2>2. Grown(cands, r, "ready", 1)
    BY <1>1, <1>3, <2>1, GrownCands DEF Publish
  <2> QED
    BY <1>1, <1>3, <2>2, QuietSpares DEF Publish, Grown
<1>4. ASSUME NEW r \in DOMAIN runs, NEW n \in 0..MaxCands,
             NEW status \in {"completed", "failed"}, Finish(r, n, status)
      PROVE  Spares
  <2> DEFINE p == runs[r].of
             own == {c \in DOMAIN cands : cands[c].run = r}
             cs == IF Preserves(r) \/ Among(own, {"selected"}) # {} THEN cands ELSE Deselected(CandsOf(p))
             st == IF own # {} \/ n > 0 THEN "review" ELSE "failed"
             i == [item[p] EXCEPT !.status = st, !.adopted = 0]
  <2>1. r \in 1..Len(runs) /\ p \in Targets /\ item[p] \in Item
    BY <1>1, Rows DEF Run
  <2>2. /\ runs' = Ended(r, status) /\ cands' = cs \o New(r, "ready", n) /\ Len(cands) + n <= MaxCands
        /\ IF Preserves(r) THEN item' = item ELSE SetItem(p, i)
    BY <1>4 DEF Finish
  <2>3. RunsKept /\ \A q \in 1..Len(runs) : q # r => runs'[q] = runs[q]
    BY <2>1, <2>2, EndedRun DEF RunStatus
  <2>4. cs \in {cands, Deselected(CandsOf(p))} /\ st \in {"review", "failed"} /\ n \in Nat
    OBVIOUS
  <2>5. cs = cands \/ \A c \in DOMAIN cands : cands[c].run = r => cands[c].status # "selected"
    BY DEF Among
  <2>6. i \in Item
    <3> HIDE DEF st
    <3> QED
      BY <2>1, <2>4, OpenedItem
  <2>7. ~Preserves(r) => item[p].adopted = 0
    BY <2>1, AdoptedAt DEF Preserves
  <2>8. Preserves(r) => cs = cands
    OBVIOUS
  <2> HIDE DEF p, cs, i, own, st
  <2>9. CASE Preserves(r)
    <3>1. r \in 1..Len(runs') /\ "ready" \in CandStatus
      BY <2>1, <2>3 DEF RunsKept, CandStatus
    <3>2. Grown(cs, r, "ready", n)
      BY <2>1, <2>2, <2>3, <2>4, <3>1, GrownOf
    <3> QED
      BY <1>1, <2>2, <2>8, <2>9, <3>2, QuietSpares DEF Grown
  <2>10. CASE ~Preserves(r)
    BY <2>1, <2>2, <2>3, <2>4, <2>5, <2>6, <2>7, <2>10, DeliverySpares
  <2> QED
    BY <2>9, <2>10
<1>5. ASSUME NEW r \in DOMAIN runs, Recover(r)
      PROVE  Spares
  <2> DEFINE p == runs[r].of
             cs == IF item[p].status = "approved" THEN cands ELSE Deselected(CandsOf(p))
             i == [item[p] EXCEPT !.status = "review", !.adopted = 0]
  <2>1. r \in 1..Len(runs) /\ p \in Targets /\ item[p] \in Item /\ Len(cands) \in Nat
    BY <1>1, Rows DEF Run
  <2>2. /\ runs' = Ended(r, "completed") /\ cands' = cs \o New(r, "ready", 1) /\ Len(cands) + 1 <= MaxCands
        /\ runs[r].status # "working"
        /\ IF item[p].status = "approved" THEN item' = item ELSE SetItem(p, i)
    BY <1>5, <2>1 DEF Recover
  <2>3. RunsKept /\ \A q \in 1..Len(runs) : q # r => runs'[q] = runs[q]
    BY <2>1, <2>2, EndedRun DEF RunStatus
  <2>4. cs \in {cands, Deselected(CandsOf(p))} /\ 1 \in Nat
    OBVIOUS
  <2>5. i \in Item
    BY <2>1, OpenedItem
  <2>6. item[p].status # "approved" => item[p].adopted = 0
    BY <2>1, AdoptedAt
  <2>7. item[p].status = "approved" => cs = cands
    OBVIOUS
  <2> HIDE DEF p, cs, i
  <2>8. CASE item[p].status = "approved"
    <3>1. r \in 1..Len(runs') /\ "ready" \in CandStatus
      BY <2>1, <2>3 DEF RunsKept, CandStatus
    <3>2. Grown(cs, r, "ready", 1)
      BY <2>1, <2>2, <2>3, <2>4, <3>1, GrownOf
    <3> QED
      BY <1>1, <2>2, <2>7, <2>8, <3>2, QuietSpares DEF Grown
  <2>9. CASE item[p].status # "approved"
    BY <2>1, <2>2, <2>3, <2>4, <2>5, <2>6, <2>9, DeliverySpares
  <2> QED
    BY <2>8, <2>9
<1>6. ASSUME NEW v \in 0..MaxEdits, NEW S \in SUBSET AdoptedImages, NEW n \in 0..1, MakeClip(v, S, n)
      PROVE  Spares
  <2> DEFINE x == RunOf(Clip, IF n > 0 THEN "completed" ELSE "failed", v, S, FALSE)
  <2>1. /\ Clip \in Targets /\ (item[Clip].status = "approved" <=> item[Clip].adopted # 0)
        /\ \A p \in Pictures : item[p].adopted \in 0..MaxCands
    BY AdoptedAt, Rows DEF Clip, Targets, Pictures, Item
  <2>2. S \in SUBSET (1..MaxCands)
    BY <2>1 DEF AdoptedImages
  <2>3. x \in Run
    BY <2>1, <2>2, RunOfTyped DEF RunStatus
  <2>4. /\ Len(runs) < MaxRuns /\ runs' = Append(runs, x)
        /\ Len(cands) + n <= MaxCands /\ cands' = cands \o New(Len(runs) + 1, "ready", n)
    BY <1>6 DEF MakeClip
  <2> HIDE DEF x
  <2>5. RunsKept /\ Len(runs') = Len(runs) + 1
    BY <2>3, <2>4, AppendedRun
  <2>6. Len(runs) + 1 \in 1..Len(runs') /\ "ready" \in CandStatus /\ n \in Nat
    BY <1>1, <2>5 DEF CandStatus
  <2>7. Grown(cands, Len(runs) + 1, "ready", n)
    BY <1>1, <2>4, <2>5, <2>6, GrownCands
  <2>8. \A t \in Targets : item[t].adopted # 0 => item'[t] = item[t]
    <3>1. CASE item[Clip].adopted # 0
      BY <1>6, <2>1, <3>1 DEF MakeClip
    <3>2. CASE item[Clip].adopted = 0
      BY <1>6, <3>2, ItemSet DEF MakeClip, SetItem, TypeOK
    <3> QED
      BY <3>1, <3>2
  <2> QED
    BY <1>1, <2>7, <2>8 DEF Spares, Grown
<1> QED
  BY <1>2, <1>3, <1>4, <1>5, <1>6 DEF Generation

\* No result that comes in takes back what people have adopted, selected in
\* its own run, rejected or deleted (save_image_completion,
\* recover_image_generation_output, generate_visual_videos).
THEOREM DecisionsStand ==
  ASSUME NoSharedEdit
  PROVE  Spec => ChoicesKept
<1>1. Init => IInv
  BY InitInv
<1>2. IInv /\ [Next]_vars => IInv'
  BY NextKeepsInv
<1>3. IInv /\ [Next]_vars => (Generation => Spares)
  BY GenerationSpares
<1> QED
  BY <1>1, <1>2, <1>3, PTL DEF Spec, ChoicesKept, Spares
-------------------------------------------------------------------------------
(***************************************************************************)
(* The flag beside an adopted result.  It rests on dates: a run that came  *)
(* after the last change of its inputs has the prompt they have now, a     *)
(* candidate of such a run of the clip was made of images that are still   *)
(* adopted, and what is adopted without a flag is of such a run.           *)
(***************************************************************************)
NoHazards == Hazards = {}

RunDated(r) ==
    LET t == runs[r].of IN
    /\ r > item[t].updated => runs[r].prompt = item[t].version
    /\ IF t = Clip THEN runs[r].status \notin Active ELSE runs[r].images = {}

ClipDated(c) ==
    Of(c) = Clip /\ cands[c].run > item[Clip].updated => runs[cands[c].run].images \subseteq AdoptedImages

FlagDated(t) ==
    item[t].adopted # 0 /\ ~item[t].changed => cands[item[t].adopted].run > item[t].updated

Dated ==
    /\ \A t \in Targets : item[t].updated <= Len(runs) /\ FlagDated(t)
    /\ \A r \in 1..Len(runs) : RunDated(r)
    /\ \A c \in 1..Len(cands) : ClipDated(c)

\* What a step does to the dates: an item whose inputs it does not change keeps
\* its flag, loses its result, or gets one with the flag it ought to have.
Fits(t, i) ==
    \/ i.adopted = 0
    \/ i.adopted = item[t].adopted /\ i.changed = item[t].changed
    \/ /\ i.adopted \in 1..Len(cands')
       /\ i.changed \/ cands'[i.adopted].run > item[t].updated

Aged(t) ==
    \/ item'[t].version = item[t].version /\ item'[t].updated = item[t].updated /\ Fits(t, item'[t])
    \/ item'[t].updated = Len(runs) /\ (item'[t].changed \/ item'[t].adopted = 0)

ImagesStay == \/ AdoptedImages \subseteq AdoptedImages'
              \/ item'[Clip].updated = Len(runs)
              \/ \A c \in 1..Len(cands) : Of(c) # Clip

ItemsAge == ImagesStay /\ \A t \in Targets : Aged(t)

OldRuns ==
    \A r \in 1..Len(runs) :
        /\ runs'[r].of = runs[r].of /\ runs'[r].prompt = runs[r].prompt /\ runs'[r].images = runs[r].images
        /\ runs[r].of = Clip => runs'[r].status \notin Active

NewRun(r) ==
    LET t == runs'[r].of IN
    /\ runs'[r].prompt = item'[t].version
    /\ IF t = Clip THEN runs'[r].status \notin Active /\ runs'[r].images \subseteq AdoptedImages'
       ELSE runs'[r].images = {}

Ages ==
    /\ ItemsAge /\ OldRuns
    /\ \A r \in 1..Len(runs') : r > Len(runs) => NewRun(r)
    /\ \A c \in 1..Len(cands') :
         c > Len(cands) /\ runs'[cands'[c].run].of = Clip => cands'[c].run > Len(runs)

LEMMA AgesKeepDates ==
  ASSUME IInv, Dated, Moves, Ages
  PROVE  Dated'
<1>1. /\ Len(runs) \in Nat /\ Len(cands) \in Nat /\ \A r \in 1..Len(runs) : runs[r].of \in Targets
      /\ \A c \in 1..Len(cands) : cands[c].run \in 1..Len(runs)
      /\ \A t \in Targets : item[t].adopted \in 0..Len(cands) /\ item[t].updated \in Nat
  BY Rows DEF Run, Item
<1>2. /\ Len(runs') \in Nat /\ Len(runs) <= Len(runs') /\ runs' \in Seq(Run)
      /\ \A c \in 1..Len(cands) : cands'[c].run = cands[c].run
      /\ Len(cands') \in Nat /\ cands' \in Seq(Cand) /\ Len(cands) <= Len(cands')
      /\ \A c \in 1..Len(cands') : cands'[c].run <= Len(runs')
  BY DEF Moves, RunsKept, CandsKept
<1>3. /\ \A r \in 1..Len(runs') : runs'[r] \in Run /\ runs'[r].of \in Targets
      /\ \A c \in 1..Len(cands') : cands'[c] \in Cand /\ cands'[c].run \in 1..Len(runs')
  <2>1. \A r \in 1..Len(runs') : runs'[r] \in Run
    BY <1>2, ElementOfSeq
  <2>2. \A c \in 1..Len(cands') : cands'[c] \in Cand
    BY <1>2, ElementOfSeq
  <2>3. \A c \in 1..Len(cands') : cands'[c].run \in Nat /\ cands'[c].run >= 1
    BY <2>2 DEF Cand
  <2> QED
    BY <1>2, <2>1, <2>2, <2>3 DEF Run
<1>4. ASSUME NEW t \in Targets
      PROVE  /\ item'[t].updated <= Len(runs')
             /\ item'[t].adopted # 0 /\ ~item'[t].changed => cands'[item'[t].adopted].run > item'[t].updated
             /\ item'[t].updated # Len(runs) =>
                  item'[t].updated = item[t].updated /\ item'[t].version = item[t].version
  <2>1. item[t].updated <= Len(runs) /\ FlagDated(t) /\ item'[t] \in Item /\ Aged(t)
    BY <1>4 DEF Dated, Moves, Ages, ItemsAge
  <2>2. \A c \in 1..Len(cands') : cands'[c].run \in Nat
    BY <1>3
  <2>3. CASE Fits(t, item'[t]) /\ item'[t].updated = item[t].updated /\ item'[t].version = item[t].version
    <3>1. CASE item'[t].adopted = 0
      BY <1>1, <1>2, <1>4, <2>1, <2>3, <3>1
    <3>2. CASE item'[t].adopted # 0 /\ item'[t].adopted = item[t].adopted /\ item'[t].changed = item[t].changed
      <4>1. item[t].adopted \in 1..Len(cands)
        BY <1>1, <1>4, <3>2
      <4> QED
        BY <1>1, <1>2, <1>4, <2>1, <2>3, <3>2, <4>1 DEF FlagDated
    <3>3. CASE item'[t].changed \/ cands'[item'[t].adopted].run > item[t].updated
      BY <1>1, <1>2, <1>4, <2>1, <2>3, <3>3
    <3> QED
      BY <2>3, <3>1, <3>2, <3>3 DEF Fits
  <2>4. CASE item'[t].updated = Len(runs) /\ (item'[t].changed \/ item'[t].adopted = 0)
    BY <1>2, <1>4, <2>4
  <2> QED
    BY <2>1, <2>3, <2>4 DEF Aged
<1>5. ASSUME NEW r \in 1..Len(runs')
      PROVE  RunDated(r)'
  <2>1. CASE r \in 1..Len(runs)
    <3>1. RunDated(r) /\ runs[r].of \in Targets
      BY <1>1, <2>1 DEF Dated
    <3>2. /\ runs'[r].of = runs[r].of /\ runs'[r].prompt = runs[r].prompt /\ runs'[r].images = runs[r].images
          /\ runs[r].of = Clip => runs'[r].status \notin Active
      BY <2>1 DEF Ages, OldRuns
    <3> QED
      BY <1>1, <1>4, <2>1, <3>1, <3>2 DEF RunDated
  <2>2. CASE r > Len(runs)
    BY <2>2 DEF Ages, NewRun, RunDated
  <2> QED
    BY <1>1, <2>1, <2>2
<1>6. ASSUME NEW c \in 1..Len(cands'), runs'[cands'[c].run].of = Clip, cands'[c].run > item'[Clip].updated
      PROVE  runs'[cands'[c].run].images \subseteq AdoptedImages'
  <2>0. Clip \in Targets
    BY DEF Clip, Targets
  <2>1. CASE cands'[c].run > Len(runs)
    <3>1. NewRun(cands'[c].run)
      BY <1>3, <2>1 DEF Ages
    <3> QED
      BY <1>6, <3>1 DEF NewRun
  <2>2. CASE cands'[c].run <= Len(runs)
    <3>1. c \in 1..Len(cands)
      BY <1>1, <1>3, <1>6, <2>2 DEF Ages
    <3>2. /\ cands'[c].run = cands[c].run /\ cands[c].run \in 1..Len(runs)
          /\ runs[cands[c].run].of = Clip /\ runs'[cands[c].run].images = runs[cands[c].run].images
      BY <1>1, <1>2, <1>6, <3>1 DEF Ages, OldRuns
    <3>3. item'[Clip].updated = item[Clip].updated
      BY <1>1, <1>4, <1>6, <2>0, <3>2
    <3>4. Of(c) = Clip /\ ClipDated(c)
      BY <3>1, <3>2 DEF Dated, Of
    <3>5. runs[cands[c].run].images \subseteq AdoptedImages
      BY <1>6, <3>2, <3>3, <3>4 DEF ClipDated
    <3>6. AdoptedImages \subseteq AdoptedImages'
      BY <1>1, <1>6, <2>0, <3>1, <3>2, <3>4 DEF Ages, ItemsAge, ImagesStay
    <3> QED
      BY <3>2, <3>5, <3>6
  <2> QED
    BY <1>1, <1>3, <2>1, <2>2
<1>7. \A c \in 1..Len(cands') : ClipDated(c)'
  BY <1>6 DEF ClipDated, Of
<1> QED
  BY <1>4, <1>5, <1>7 DEF Dated, FlagDated

LEMMA DatesTellAge ==
  ASSUME IInv, Dated
  PROVE  FlagsTellAge
<1> SUFFICES ASSUME NEW t \in Targets, item[t].adopted # 0, ~item[t].changed
             PROVE  /\ runs[cands[item[t].adopted].run].prompt = item[t].version
                    /\ runs[cands[item[t].adopted].run].images \subseteq AdoptedImages
  BY DEF FlagsTellAge
<1>1. item[t].adopted \in 1..Len(cands) /\ Of(item[t].adopted) = t
  BY AdoptedAt
<1>2. cands[item[t].adopted].run \in 1..Len(runs)
  BY <1>1, Rows
<1>3. RunDated(cands[item[t].adopted].run) /\ ClipDated(item[t].adopted) /\ FlagDated(t)
  BY <1>1, <1>2 DEF Dated
<1> QED
  BY <1>1, <1>2, <1>3 DEF RunDated, ClipDated, FlagDated, Of
-------------------------------------------------------------------------------
(***************************************************************************)
(* What the steps do to the dates.                                         *)
(***************************************************************************)
LEMMA StillAges ==
  ASSUME \A t \in Targets : item'[t] = item[t]
  PROVE  ItemsAge
<1>1. AdoptedImages' = AdoptedImages
  BY DEF AdoptedImages, Pictures, Targets
<1> QED
  BY <1>1 DEF ItemsAge, ImagesStay, Aged, Fits

\* An item whose inputs stay.
SameInputs(t, i) == i.version = item[t].version /\ i.updated = item[t].updated

LEMMA ItemAges ==
  ASSUME TypeOK, NEW t \in Targets, NEW i \in Item, SetItem(t, i), SameInputs(t, i), Fits(t, i),
         t = Clip \/ item[t].adopted \in {0, i.adopted}
  PROVE  ItemsAge
<1>1. item'[t] = i /\ \A u \in Targets \ {t} : item'[u] = item[u]
  BY ItemSet
<1>2. AdoptedImages \subseteq AdoptedImages'
  <2>1. ASSUME NEW p \in Pictures, item[p].adopted # 0
        PROVE  item'[p].adopted = item[p].adopted
    BY <1>1, <2>1 DEF Pictures, Targets, Clip
  <2> QED
    BY <2>1 DEF AdoptedImages
<1>3. ASSUME NEW u \in Targets PROVE Aged(u)
  BY <1>1 DEF Aged, Fits, SameInputs
<1> QED
  BY <1>2, <1>3 DEF ItemsAge, ImagesStay

\* What is noted is flagged.
LEMMA NotedAges ==
  ASSUME TypeOK, NEW i \in Item
  PROVE  /\ Noted(i).updated = Len(runs)
         /\ Noted(i).adopted = i.adopted /\ (Noted(i).changed \/ i.adopted = 0)
<1>1. Len(runs) \in 0..MaxRuns
  BY Rows
<1> QED
  BY <1>1 DEF Noted, HasResult, Item

\* A picture that takes or gives up an image, with the clip noted if it must be.
LEMMA PictureAges ==
  ASSUME TypeOK, NEW p \in Pictures, NEW i \in Item, NEW noted \in BOOLEAN, SetPicture(p, i, noted),
         SameInputs(p, i), Fits(p, i),
         noted \/ item[p].adopted \in {0, i.adopted} \/ \A c \in 1..Len(cands) : Of(c) # Clip
  PROVE  ItemsAge
<1>1. p \in Targets /\ p # Clip /\ Clip \in Targets
  BY DEF Pictures, Targets, Clip
<1>2. /\ item'[p] = i /\ \A u \in Targets \ {p, Clip} : item'[u] = item[u]
      /\ item'[Clip] = IF noted THEN Noted(item[Clip]) ELSE item[Clip]
  <2>1. item \in [Targets -> Item]
    BY DEF TypeOK
  <2> QED
    BY <1>1, <2>1 DEF SetPicture
<1>3. item[Clip] \in Item
  BY <1>1, Rows
<1>4. ImagesStay
  <2>1. CASE noted
    BY <1>2, <1>3, <2>1, NotedAges DEF ImagesStay
  <2>2. CASE item[p].adopted \in {0, i.adopted}
    <3>1. ASSUME NEW q \in Pictures, item[q].adopted # 0
          PROVE  item'[q].adopted = item[q].adopted
      BY <1>2, <2>2, <3>1 DEF Pictures, Targets, Clip
    <3> QED
      BY <3>1 DEF AdoptedImages, ImagesStay
  <2> QED
    BY <2>1, <2>2 DEF ImagesStay
<1>5. Aged(p)
  BY <1>2 DEF Aged, Fits, SameInputs
<1>6. Aged(Clip)
  BY <1>2, <1>3, NotedAges DEF Aged, Fits
<1>7. ASSUME NEW u \in Targets, u # p, u # Clip PROVE Aged(u)
  BY <1>2, <1>7 DEF Aged, Fits
<1> QED
  BY <1>4, <1>5, <1>6, <1>7 DEF ItemsAge

\* Runs.
LEMMA RunsStay ==
  ASSUME TypeOK, Dated, runs' = runs
  PROVE  OldRuns /\ \A r \in 1..Len(runs') : r <= Len(runs)
<1>1. Len(runs) \in Nat
  BY Rows
<1> QED
  BY <1>1 DEF OldRuns, Dated, RunDated

LEMMA RunEnds ==
  ASSUME TypeOK, Dated, NEW r \in 1..Len(runs), NEW s \in {"completed", "failed"}, runs' = Ended(r, s)
  PROVE  OldRuns /\ \A q \in 1..Len(runs') : q <= Len(runs)
<1>1. s \in RunStatus /\ s \notin Active
  BY DEF RunStatus, Active
<1>2. Len(runs') = Len(runs) /\ Len(runs) \in Nat /\ \A q \in 1..Len(runs) : q # r => runs'[q] = runs[q]
  BY <1>1, EndedRun, Rows
<1>3. runs[r] \in Run /\ runs \in Seq(Run)
  BY Rows DEF TypeOK
<1>4. runs'[r] = [runs[r] EXCEPT !.status = s]
  BY <1>3, Rows DEF Ended
<1>5. /\ runs'[r].of = runs[r].of /\ runs'[r].prompt = runs[r].prompt /\ runs'[r].images = runs[r].images
      /\ runs'[r].status = s
  BY <1>3, <1>4 DEF Run
<1> QED
  BY <1>1, <1>2, <1>5 DEF OldRuns, Dated, RunDated

LEMMA RunAdded ==
  ASSUME TypeOK, Dated, NEW x \in Run, Len(runs) < MaxRuns, runs' = Append(runs, x),
         x.prompt = item'[x.of].version,
         IF x.of = Clip THEN x.status \notin Active /\ x.images \subseteq AdoptedImages' ELSE x.images = {}
  PROVE  OldRuns /\ \A r \in 1..Len(runs') : r > Len(runs) => NewRun(r)
<1>1. /\ Len(runs') = Len(runs) + 1 /\ runs'[Len(runs) + 1] = x
      /\ \A r \in 1..Len(runs) : runs'[r] = runs[r]
  BY AppendedRun
<1>2. Len(runs) \in Nat
  BY Rows
<1>3. OldRuns
  BY <1>1 DEF OldRuns, Dated, RunDated
<1>4. ASSUME NEW r \in 1..Len(runs'), r > Len(runs) PROVE NewRun(r)
  <2>1. r = Len(runs) + 1
    BY <1>1, <1>2, <1>4
  <2> QED
    BY <1>1, <2>1 DEF NewRun
<1> QED
  BY <1>3, <1>4

\* Decisions: no run and no candidate is added.
LEMMA DecidedAges ==
  ASSUME IInv, Dated, ItemsAge, runs' = runs, Len(cands') = Len(cands)
  PROVE  Ages
<1>1. Len(runs) \in Nat /\ Len(cands) \in Nat
  BY Rows
<1> QED
  BY <1>1, RunsStay DEF Ages

\* An item that changes its status, and gives up what it has or never had.
LEMMA OpenAges ==
  ASSUME TypeOK, NEW t \in Targets, NEW s \in ItemStatus, t = Clip \/ item[t].adopted = 0,
         SetItem(t, [item[t] EXCEPT !.status = s, !.adopted = 0])
  PROVE  ItemsAge
<1> DEFINE i == [item[t] EXCEPT !.status = s, !.adopted = 0]
<1>1. item[t] \in Item /\ 0 \in 0..MaxCands
  BY Rows
<1>2. i \in Item /\ SameInputs(t, i) /\ i.adopted = 0
  BY <1>1 DEF Item, SameInputs
<1>3. SetItem(t, i)
  OBVIOUS
<1> HIDE DEF i
<1> QED
  BY <1>2, <1>3, ItemAges DEF Fits

LEMMA StatusAges ==
  ASSUME TypeOK, NEW t \in Targets, NEW s \in ItemStatus, SetItem(t, [item[t] EXCEPT !.status = s])
  PROVE  ItemsAge
<1> DEFINE i == [item[t] EXCEPT !.status = s]
<1>1. item[t] \in Item
  BY Rows
<1>2. i \in Item /\ SameInputs(t, i) /\ i.adopted = item[t].adopted /\ i.changed = item[t].changed
  BY <1>1 DEF Item, SameInputs
<1>3. SetItem(t, i)
  OBVIOUS
<1> HIDE DEF i
<1> QED
  BY <1>2, <1>3, ItemAges DEF Fits

LEMMA EditAges ==
  ASSUME IInv, Dated, NEW T \in SUBSET Targets, Edit(T)
  PROVE  Ages
<1>1. ASSUME NEW t \in Targets
      PROVE  Aged(t) /\ item'[t].adopted = item[t].adopted
  <2>1. item[t] \in Item /\ item'[t] = IF t \in T THEN Edited(item[t]) ELSE item[t]
    BY <1>1, Rows DEF Edit
  <2> DEFINE n == Noted(item[t])
  <2>2. n \in Item /\ n.updated = Len(runs) /\ n.adopted = item[t].adopted /\ (n.changed \/ n.adopted = 0)
    BY <2>1, NotedAges, NotedItem
  <2>3. Edited(item[t]) = [n EXCEPT !.version = n.version + 1]
    BY DEF Edited
  <2> HIDE DEF n
  <2>4. /\ Edited(item[t]).updated = n.updated /\ Edited(item[t]).adopted = n.adopted
        /\ Edited(item[t]).changed = n.changed
    BY <2>2, <2>3 DEF Item
  <2> QED
    BY <2>1, <2>2, <2>4 DEF Aged, Fits
<1>2. AdoptedImages' = AdoptedImages
  BY <1>1 DEF AdoptedImages, Pictures, Targets
<1>3. ItemsAge
  BY <1>1, <1>2 DEF ItemsAge, ImagesStay
<1> QED
  BY <1>3, DecidedAges DEF Edit

LEMMA EditShotAges ==
  ASSUME IInv, Dated, NEW clip \in BOOLEAN, EditShot(clip)
  PROVE  Ages
<1> DEFINE pics == [p \in Pictures |-> Noted(item[p])]
           b == \E p \in Pictures : pics[p].changed
<1>0. /\ 1 \in Pictures /\ 1 # Clip /\ \A t \in Targets : t # Clip => t \in Pictures
      /\ \A p \in Pictures : p # Clip
  BY DEF Pictures, Targets, Clip
<1>1. ASSUME NEW t \in Targets
      PROVE  Aged(t) /\ item'[t].adopted = item[t].adopted
  <2> DEFINE n == Noted(item[t])
  <2>1. item[t] \in Item
    BY <1>1, Rows
  <2>2. n \in Item /\ n.updated = Len(runs) /\ n.adopted = item[t].adopted /\ (n.changed \/ n.adopted = 0)
    BY <2>1, NotedAges, NotedItem
  <2>3. CASE t = Clip
    <3>1. item'[t] = IF clip THEN [n EXCEPT !.version = n.version + 1] ELSE item[t]
      BY <1>1, <2>3 DEF EditShot, Edited
    <3> HIDE DEF n
    <3> QED
      BY <2>2, <3>1 DEF Aged, Fits, Item
  <2>4. CASE t = 1
    <3>1. item'[t] = [n EXCEPT !.status = ShotStatus(pics), !.version = n.version + 1, !.changed = b]
      BY <1>0, <1>1, <2>4 DEF EditShot
    <3>2. n.changed => b
      BY <1>0, <2>4
    <3> HIDE DEF n, b, pics
    <3>3. item'[t].updated = n.updated /\ item'[t].adopted = n.adopted /\ item'[t].changed = b
      BY <2>2, <3>1 DEF Item
    <3> QED
      BY <2>2, <3>2, <3>3 DEF Aged
  <2>5. CASE t # Clip /\ t # 1
    <3>1. item'[t] = n
      BY <1>0, <1>1, <2>5 DEF EditShot
    <3> HIDE DEF n
    <3> QED
      BY <2>2, <3>1 DEF Aged
  <2> QED
    BY <2>3, <2>4, <2>5
<1>2. AdoptedImages' = AdoptedImages
  BY <1>1 DEF AdoptedImages, Pictures, Targets
<1>3. ItemsAge
  BY <1>1, <1>2 DEF ItemsAge, ImagesStay
<1> QED
  BY <1>3, DecidedAges DEF EditShot

LEMMA AskAges ==
  ASSUME IInv, NoHazards, Dated,
         \/ \E p \in Pictures : Generate(p)
         \/ \E r \in DOMAIN runs : RetryPicture(r)
  PROVE  Ages
<1>1. \A t \in Targets : item[t].version \in 0..MaxEdits
  BY Rows DEF Item
<1>2. \A r \in DOMAIN runs : runs[r].of \in Targets
  BY Rows DEF Run
<1>3. PICK p \in Targets :
        /\ p # Clip /\ Len(runs) < MaxRuns
        /\ runs' = Append(runs, RunOf(p, "queued", item[p].version, {}, FALSE))
        /\ UNCHANGED <<step, mode, item, cands>>
  <2>1. ASSUME NEW p \in Pictures, Generate(p)
        PROVE  /\ p \in Targets /\ p # Clip /\ Len(runs) < MaxRuns
               /\ runs' = Append(runs, RunOf(p, "queued", item[p].version, {}, FALSE))
               /\ UNCHANGED <<step, mode, item, cands>>
    BY <2>1 DEF Generate, Pictures, Targets, Clip
  <2>2. ASSUME NEW r \in DOMAIN runs, RetryPicture(r)
        PROVE  /\ runs[r].of \in Targets /\ runs[r].of # Clip /\ Len(runs) < MaxRuns
               /\ runs' = Append(runs, RunOf(runs[r].of, "queued", item[runs[r].of].version, {}, FALSE))
               /\ UNCHANGED <<step, mode, item, cands>>
    BY <1>2, <2>2 DEF RetryPicture, NoHazards
  <2> QED
    BY <2>1, <2>2
<1> DEFINE x == RunOf(p, "queued", item[p].version, {}, FALSE)
<1>4. x \in Run
  BY <1>1, RunOfTyped DEF RunStatus
<1>5. x.of = p /\ x.prompt = item[p].version /\ x.images = {}
  BY DEF RunOf
<1>6. runs' = Append(runs, x) /\ item' = item /\ cands' = cands
  BY <1>3
<1> HIDE DEF x
<1>7. OldRuns /\ \A r \in 1..Len(runs') : r > Len(runs) => NewRun(r)
  BY <1>3, <1>4, <1>5, <1>6, RunAdded
<1> QED
  BY <1>6, <1>7, StillAges, Rows DEF Ages

\* A run that begins, ends or delivers is of a picture.
LEMMA WorkingRuns ==
  ASSUME Dated, NEW r \in 1..Len(runs), runs[r].status \in Active
  PROVE  runs[r].of # Clip
<1> QED
  BY DEF Dated, RunDated

LEMMA BeginAges ==
  ASSUME IInv, Dated, NEW r \in DOMAIN runs, Begin(r) \/ GiveUp(r)
  PROVE  Ages
<1>1. r \in 1..Len(runs) /\ runs[r] \in Run /\ item' = item /\ cands' = cands /\ Len(runs) \in Nat
      /\ Len(cands) \in Nat
  BY Rows DEF Begin, GiveUp
<1>2. OldRuns /\ \A q \in 1..Len(runs') : q <= Len(runs)
  <2>1. CASE GiveUp(r)
    BY <1>1, <2>1, RunEnds DEF GiveUp
  <2>2. CASE Begin(r)
    <3> DEFINE x == [runs[r] EXCEPT !.status = "working", !.seen = Inputs(runs[r].of)]
    <3>1. runs[r].of \in Targets /\ Inputs(runs[r].of) \in (0..MaxEdits) \X Modes
      BY <1>1, Rows DEF Run, Inputs, TypeOK, Item
    <3>2. x \in Run /\ x.of = runs[r].of /\ x.prompt = runs[r].prompt /\ x.images = runs[r].images
      BY <1>1, <3>1 DEF Run, RunStatus
    <3>3. runs' = [runs EXCEPT ![r] = x] /\ runs[r].of # Clip
      BY <1>1, <2>2, WorkingRuns DEF Begin, Active
    <3> HIDE DEF x
    <3>4. Len(runs') = Len(runs) /\ runs'[r] = x /\ \A q \in 1..Len(runs) : q # r => runs'[q] = runs[q]
      BY <1>1, <3>2, <3>3, ChangedRun
    <3> QED
      BY <1>1, <3>2, <3>3, <3>4 DEF OldRuns, Dated, RunDated
  <2> QED
    BY <2>1, <2>2
<1> QED
  BY <1>1, <1>2, StillAges DEF Ages

\* A run of a picture adds candidates to it.
LEMMA DeliveryAges ==
  ASSUME IInv, ItemsAge, RunsKept, OldRuns, \A q \in 1..Len(runs') : q <= Len(runs),
         NEW r \in 1..Len(runs), runs[r].of # Clip, NEW cs, NEW n \in Nat, Grown(cs, r, "ready", n)
  PROVE  Ages
<1>1. \A c \in 1..Len(cands') : c > Len(cands) => cands'[c].run = r
  BY DEF Grown
<1>2. runs'[r].of = runs[r].of
  BY DEF OldRuns
<1> QED
  BY <1>1, <1>2, Rows DEF Ages, RunsKept

LEMMA PublishAges ==
  ASSUME IInv, Dated, NEW r \in DOMAIN runs, Publish(r)
  PROVE  Ages
<1>1. /\ r \in 1..Len(runs) /\ r \in 1..Len(runs') /\ RunsKept /\ cands \in Seq(Cand) /\ Len(cands) \in Nat
      /\ "ready" \in CandStatus /\ Len(cands) + 1 <= MaxCands /\ cands' = cands \o New(r, "ready", 1)
      /\ runs[r].of # Clip
  BY Rows, SameRuns, WorkingRuns DEF Publish, TypeOK, CandStatus, Active
<1>2. Grown(cands, r, "ready", 1)
  <2>1. 1 \in Nat /\ TypeOK /\ \A c \in 1..Len(cands) : cands[c].run = cands[c].run
    OBVIOUS
  <2> QED
    BY <1>1, <2>1, GrownCands
<1>3. OldRuns /\ ItemsAge /\ \A q \in 1..Len(runs') : q <= Len(runs)
  BY RunsStay, StillAges DEF Publish
<1>4. 1 \in Nat
  OBVIOUS
<1> QED
  BY <1>1, <1>2, <1>3, <1>4, DeliveryAges

LEMMA FinishAges ==
  ASSUME IInv, Dated, NEW r \in DOMAIN runs, NEW n \in 0..MaxCands,
         NEW status \in {"completed", "failed"}, Finish(r, n, status)
  PROVE  Ages
<1> DEFINE p == runs[r].of
           own == {c \in DOMAIN cands : cands[c].run = r}
           cs == IF Preserves(r) \/ Among(own, {"selected"}) # {} THEN cands ELSE Deselected(CandsOf(p))
           st == IF own # {} \/ n > 0 THEN "review" ELSE "failed"
<1>1. r \in 1..Len(runs) /\ p \in Targets
  BY Rows DEF Run
<1>2. /\ runs' = Ended(r, status) /\ cands' = cs \o New(r, "ready", n)
      /\ Len(cands) + n <= MaxCands /\ runs[r].status = "working"
      /\ IF Preserves(r) THEN item' = item ELSE SetItem(p, [item[p] EXCEPT !.status = st, !.adopted = 0])
  BY DEF Finish
<1>3. RunsKept /\ OldRuns /\ \A q \in 1..Len(runs') : q <= Len(runs)
  BY <1>1, <1>2, EndedRun, RunEnds DEF RunStatus
<1>4. /\ cs \in {cands, Deselected(CandsOf(p))} /\ r \in 1..Len(runs') /\ "ready" \in CandStatus /\ n \in Nat
      /\ st \in ItemStatus
  BY <1>1, <1>3 DEF RunsKept, CandStatus, ItemStatus
<1>5. ~Preserves(r) => item[p].adopted = 0
  BY <1>1, AdoptedAt DEF Preserves
<1>6. runs[r].of # Clip
  BY <1>1, <1>2, WorkingRuns DEF Active
<1> HIDE DEF cs, st, own, p
<1>7. Grown(cs, r, "ready", n)
  BY <1>1, <1>2, <1>3, <1>4, GrownOf
<1>8. ItemsAge
  BY <1>1, <1>2, <1>4, <1>5, StillAges, OpenAges
<1> QED
  BY <1>1, <1>3, <1>4, <1>6, <1>7, <1>8, DeliveryAges

LEMMA RecoverAges ==
  ASSUME IInv, Dated, NEW r \in DOMAIN runs, Recover(r)
  PROVE  Ages
<1> DEFINE p == runs[r].of
           cs == IF item[p].status = "approved" THEN cands ELSE Deselected(CandsOf(p))
<1>1. r \in 1..Len(runs) /\ p \in Targets /\ p # Clip /\ Len(cands) \in Nat
  BY Rows DEF Run, Recover
<1>2. /\ runs' = Ended(r, "completed") /\ cands' = cs \o New(r, "ready", 1) /\ Len(cands) + 1 <= MaxCands
      /\ IF item[p].status = "approved" THEN item' = item
         ELSE SetItem(p, [item[p] EXCEPT !.status = "review", !.adopted = 0])
  BY <1>1 DEF Recover
<1>3. RunsKept /\ OldRuns /\ \A q \in 1..Len(runs') : q <= Len(runs)
  BY <1>1, <1>2, EndedRun, RunEnds DEF RunStatus
<1>4. /\ cs \in {cands, Deselected(CandsOf(p))} /\ r \in 1..Len(runs') /\ "ready" \in CandStatus /\ 1 \in Nat
      /\ "review" \in ItemStatus
  BY <1>1, <1>3 DEF RunsKept, CandStatus, ItemStatus
<1>5. item[p].status # "approved" => item[p].adopted = 0
  BY <1>1, AdoptedAt
<1>6. runs[r].of # Clip
  BY <1>1
<1> HIDE DEF cs, p
<1>7. Grown(cs, r, "ready", 1)
  BY <1>1, <1>2, <1>3, <1>4, GrownOf
<1>8. ItemsAge
  BY <1>1, <1>2, <1>4, <1>5, StillAges, OpenAges
<1> QED
  BY <1>1, <1>3, <1>4, <1>6, <1>7, <1>8, DeliveryAges

\* A clip is dated by the prompt and the images it is made of.
LEMMA MakeClipAges ==
  ASSUME IInv, NoHazards, Dated, NEW v \in 0..MaxEdits, NEW S \in SUBSET AdoptedImages, NEW n \in 0..1,
         MakeClip(v, S, n)
  PROVE  Ages
<1> DEFINE ended == IF n > 0 THEN "completed" ELSE "failed"
           x == RunOf(Clip, ended, v, S, FALSE)
           st == IF n > 0 THEN "review" ELSE "failed"
<1>1. Clip \in Targets /\ Len(runs) \in Nat /\ Len(cands) \in Nat /\ ended \in RunStatus \ Active /\ st \in ItemStatus
  BY Rows DEF Clip, Targets, RunStatus, Active, ItemStatus
<1>2. S \in SUBSET (1..MaxCands)
  <2>1. \A p \in Pictures : item[p].adopted \in 0..MaxCands
    BY Rows DEF Item, Pictures, Targets
  <2> QED
    BY <2>1 DEF AdoptedImages
<1>3. v = item[Clip].version
  BY DEF MakeClip, Prompts, NoHazards
<1>4. x \in Run /\ x.of = Clip
  <2> HIDE DEF ended
  <2> QED
    BY <1>1, <1>2, RunOfTyped
<1>5. x.prompt = v /\ x.images = S /\ x.status = ended
  BY DEF RunOf
<1>6. /\ Len(runs) < MaxRuns /\ runs' = Append(runs, x)
      /\ Len(cands) + n <= MaxCands /\ cands' = cands \o New(Len(runs) + 1, "ready", n)
      /\ IF item[Clip].status = "approved" /\ item[Clip].adopted # 0 THEN item' = item
         ELSE SetItem(Clip, [item[Clip] EXCEPT !.status = st, !.adopted = 0])
  BY DEF MakeClip
<1> HIDE DEF x, st, ended
<1>7. ItemsAge
  BY <1>1, <1>6, StillAges, OpenAges
<1>8. item'[Clip].version = item[Clip].version /\ \A p \in Pictures : item'[p] = item[p]
  <2>1. item[Clip] \in Item /\ item \in [Targets -> Item] /\ \A p \in Pictures : p \in Targets /\ p # Clip
    BY <1>1, Rows DEF TypeOK, Pictures, Targets, Clip
  <2> QED
    BY <1>1, <1>6, <2>1 DEF SetItem, Item
<1>9. AdoptedImages' = AdoptedImages
  BY <1>8 DEF AdoptedImages
<1>10. OldRuns /\ \A r \in 1..Len(runs') : r > Len(runs) => NewRun(r)
  BY <1>1, <1>3, <1>4, <1>5, <1>6, <1>8, <1>9, RunAdded
<1>11. RunsKept /\ Len(runs') = Len(runs) + 1
  BY <1>4, <1>6, AppendedRun
<1>12. Len(runs) + 1 \in 1..Len(runs') /\ "ready" \in CandStatus /\ n \in Nat /\ cands \in {cands, Deselected(CandsOf(Clip))}
  BY <1>1, <1>11 DEF CandStatus
<1>13. Grown(cands, Len(runs) + 1, "ready", n)
  BY <1>1, <1>6, <1>11, <1>12, GrownOf
<1>14. \A c \in 1..Len(cands') : c > Len(cands) => cands'[c].run > Len(runs)
  BY <1>1, <1>13 DEF Grown
<1> QED
  BY <1>7, <1>10, <1>14 DEF Ages

LEMMA SelectAges ==
  ASSUME IInv, Dated, NEW c \in DOMAIN cands, Select(c)
  PROVE  Ages
<1> DEFINE t == Of(c)
<1>1. c \in 1..Len(cands) /\ t \in Targets /\ "approved" \in ItemStatus /\ "review" \in ItemStatus
  BY Rows DEF Of, Run, ItemStatus
<1>2. cands' = Chosen(c) /\ runs' = runs
      /\ SetItem(t, IF t # Clip /\ item[t].adopted # 0
                    THEN [item[t] EXCEPT !.status = "approved"]
                    ELSE [item[t] EXCEPT !.status = "review", !.adopted = 0])
  BY DEF Select
<1>3. Len(cands') = Len(cands)
  BY <1>1, <1>2, ChosenRows
<1> HIDE DEF t
<1>4. ItemsAge
  BY <1>1, <1>2, StatusAges, OpenAges
<1> QED
  BY <1>2, <1>3, <1>4, DecidedAges

LEMMA ApproveAges ==
  ASSUME IInv, NoHazards, Dated, NEW c \in DOMAIN cands, ApprovePicture(c) \/ ApproveClip(c)
  PROVE  Ages
<1> DEFINE t == Of(c)
           old == Older(cands[c].run, t)
           i == [item[t] EXCEPT !.status = "approved", !.adopted = c, !.changed = old]
<1>1. /\ c \in 1..Len(cands) /\ t \in Targets /\ item[t] \in Item /\ c \in 0..MaxCands
      /\ cands[c].run \in Nat
  BY Rows DEF Of, Run
<1>2. cands' = Chosen(c) /\ runs' = runs
  BY DEF ApprovePicture, ApproveClip
<1>3. Len(cands') = Len(cands) /\ cands'[c].run = cands[c].run
  BY <1>1, <1>2, ChosenRows
<1>4. old \in BOOLEAN /\ (~old => cands[c].run > item[t].updated)
  BY <1>1 DEF Older, Item
<1>5. i \in Item /\ i.adopted = c /\ i.changed = old /\ SameInputs(t, i)
  <2>1. "approved" \in ItemStatus
    BY DEF ItemStatus
  <2> HIDE DEF old, t
  <2> QED
    BY <1>1, <1>4, <2>1 DEF Item, SameInputs
<1> HIDE DEF old
<1>6. Fits(t, i)
  <2> HIDE DEF i
  <2> QED
    BY <1>1, <1>3, <1>4, <1>5 DEF Fits
<1>7. ItemsAge
  <2>1. CASE ApprovePicture(c)
    <3> DEFINE noted == item[t].status = "approved" /\ Impact
    <3>1. /\ t \in Pictures /\ SetPicture(t, i, noted) /\ noted \in BOOLEAN
          /\ item[t].adopted # 0 => Noticed
      BY <1>1, <2>1 DEF ApprovePicture, old, Pictures, Targets, Clip
    <3>2. item[t].adopted # 0 => item[t].status = "approved"
      BY <1>1, AdoptedAt
    <3>3. noted \/ item[t].adopted = 0 \/ CandsOf(Clip) = {}
      BY <3>1, <3>2 DEF Noticed, NoHazards
    <3>4. CandsOf(Clip) = {} => \A b \in 1..Len(cands) : Of(b) # Clip
      BY Rows DEF CandsOf
    <3> HIDE DEF i, t, noted
    <3> QED
      BY <1>5, <1>6, <3>1, <3>3, <3>4, PictureAges
  <2>2. CASE ApproveClip(c)
    <3>1. t = Clip /\ SetItem(t, i)
      BY <2>2 DEF ApproveClip, old
    <3> HIDE DEF i, t
    <3> QED
      BY <1>1, <1>5, <1>6, <3>1, ItemAges
  <2> QED
    BY <2>1, <2>2
<1> QED
  BY <1>2, <1>3, <1>7, DecidedAges

LEMMA RejectAges ==
  ASSUME IInv, NoHazards, Dated, NEW c \in DOMAIN cands, Reject(c)
  PROVE  Ages
<1> DEFINE t == Of(c)
           st == IF t = Clip /\ item[t].status = "approved" THEN item[t].status
                 ELSE IF Among(CandsOf(t) \ {c}, Usable) # {} THEN "review" ELSE "ready"
           ch == Older(cands[c].run, t)
           i == [item[t] EXCEPT !.status = st, !.adopted = 0, !.changed = ch]
<1>1. t \in Targets /\ item[t] \in Item /\ 0 \in 0..MaxCands
  BY Rows DEF Of, Run
<1>2. cands' = Set({c}, "rejected") /\ runs' = runs /\ item[t].adopted = 0
  BY DEF Reject, NoHazards
<1>3. SetItem(t, i)
  BY <1>2 DEF Reject
<1>4. Len(cands') = Len(cands)
  BY <1>2, SetRows DEF CandStatus
<1>5. st \in ItemStatus /\ ch \in BOOLEAN
  BY <1>1 DEF Item, ItemStatus, Older
<1>6. i \in Item /\ i.adopted = 0 /\ SameInputs(t, i)
  <2> HIDE DEF st, ch, t
  <2> QED
    BY <1>1, <1>5 DEF Item, SameInputs
<1> HIDE DEF i, t
<1>7. ItemsAge
  BY <1>1, <1>2, <1>3, <1>6, ItemAges DEF Fits
<1> QED
  BY <1>2, <1>4, <1>7, DecidedAges

LEMMA RevokeAges ==
  ASSUME IInv, NoHazards, Dated, RevokeClip \/ \E p \in Pictures : RevokePicture(p)
  PROVE  Ages
<1>1. /\ "review" \in ItemStatus /\ "selected" \in CandStatus /\ Clip \in Targets
      /\ \A p \in Pictures : p \in Targets
  BY DEF ItemStatus, CandStatus, Clip, Targets, Pictures
<1>2. runs' = runs /\ Len(cands') = Len(cands)
  <2>1. PICK t \in Targets : runs' = runs /\ cands' = Set({item[t].adopted}, "selected")
    BY <1>1 DEF RevokeClip, RevokePicture, Revoked
  <2> QED
    BY <1>1, <2>1, SetRows
<1>3. CASE RevokeClip
  <2>1. ItemsAge
    BY <1>1, <1>3, OpenAges DEF RevokeClip, Open
  <2> QED
    BY <1>2, <2>1, DecidedAges
<1>4. ASSUME NEW p \in Pictures, RevokePicture(p) PROVE Ages
  <2> DEFINE i == Open(p)
  <2>1. p \in Targets /\ item[p] \in Item /\ 0 \in 0..MaxCands
    BY <1>1, Rows
  <2>2. i \in Item /\ i.adopted = 0 /\ SameInputs(p, i)
    BY <1>1, <2>1 DEF Item, SameInputs, Open
  <2>3. SetPicture(p, i, Impact) /\ (Impact \/ CandsOf(Clip) = {}) /\ Impact \in BOOLEAN
    BY <1>4 DEF RevokePicture, Noticed, NoHazards, Impact
  <2>4. CandsOf(Clip) = {} => \A b \in 1..Len(cands) : Of(b) # Clip
    BY Rows DEF CandsOf
  <2>5. Fits(p, i)
    BY <2>2 DEF Fits
  <2> HIDE DEF i
  <2>6. ItemsAge
    BY <2>2, <2>3, <2>4, <2>5, PictureAges
  <2> QED
    BY <1>2, <2>6, DecidedAges
<1> QED
  BY <1>3, <1>4

LEMMA ArchiveAges ==
  ASSUME IInv, Dated, NEW t \in Targets, NEW S \in SUBSET DOMAIN cands,
         Restore(t, S) \/ Archive(t, S, Usable) \/ Archive(t, S, CandStatus \ {"deleted"})
  PROVE  Ages
<1>1. "ready" \in CandStatus /\ "deleted" \in CandStatus /\ "review" \in ItemStatus /\ "ready" \in ItemStatus
  BY DEF CandStatus, ItemStatus
<1>2. runs' = runs /\ \E s \in CandStatus : cands' = Set(S, s)
  BY <1>1 DEF Restore, Archive
<1>3. Len(cands') = Len(cands)
  BY <1>2, SetRows
<1>4. item' = item \/ \E s \in ItemStatus : SetItem(t, [item[t] EXCEPT !.status = s])
  <2>1. CASE Restore(t, S)
    BY <1>1, <2>1 DEF Restore
  <2>2. ASSUME NEW removable, Archive(t, S, removable)
        PROVE  item' = item \/ \E s \in ItemStatus : SetItem(t, [item[t] EXCEPT !.status = s])
    <3> DEFINE s == IF Among(CandsOf(t) \ S, removable) # {} THEN "review" ELSE "ready"
    <3>1. s \in ItemStatus /\ (item' = item \/ SetItem(t, [item[t] EXCEPT !.status = s]))
      BY <1>1, <2>2 DEF Archive
    <3> HIDE DEF s
    <3> QED
      BY <3>1
  <2> QED
    BY <2>1, <2>2
<1>5. ItemsAge
  BY <1>4, StatusAges, StillAges
<1> QED
  BY <1>2, <1>3, <1>5, DecidedAges

LEMMA SourceRun ==
  ASSUME IInv, NEW t \in Targets, FromSource(t)
  PROVE  /\ RunOf(t, "completed", item[t].version, {}, TRUE) \in Run
         /\ RunsKept /\ Len(runs') = Len(runs) + 1
         /\ Grown(Deselected(CandsOf(t)), Len(runs) + 1, "selected", 1)
<1> DEFINE x == RunOf(t, "completed", item[t].version, {}, TRUE)
<1>1. item[t].version \in 0..MaxEdits /\ Len(runs) \in Nat /\ Len(cands) \in Nat
  BY Rows DEF Item
<1>2. x \in Run
  BY <1>1, RunOfTyped DEF RunStatus
<1>3. /\ Len(runs) < MaxRuns /\ runs' = Append(runs, x) /\ Len(cands) + 1 <= MaxCands
      /\ cands' = Deselected(CandsOf(t)) \o New(Len(runs) + 1, "selected", 1)
  BY <1>1 DEF FromSource
<1> HIDE DEF x
<1>4. RunsKept /\ Len(runs') = Len(runs) + 1
  BY <1>2, <1>3, AppendedRun
<1>5. /\ Len(runs) + 1 \in 1..Len(runs') /\ "selected" \in CandStatus /\ 1 \in Nat
      /\ Deselected(CandsOf(t)) \in {cands, Deselected(CandsOf(t))}
  BY <1>1, <1>4 DEF CandStatus
<1>6. Grown(Deselected(CandsOf(t)), Len(runs) + 1, "selected", 1)
  BY <1>3, <1>4, <1>5, GrownOf
<1> QED
  BY <1>2, <1>4, <1>6 DEF x

LEMMA SourceAges ==
  ASSUME IInv, NoHazards, Dated, UseSourceVideo \/ \E p \in Pictures : UseFrame(p)
  PROVE  Ages
<1>1. ASSUME NEW t \in Targets, FromSource(t), ItemsAge, item'[t].version = item[t].version
      PROVE  Ages
  <2> DEFINE x == RunOf(t, "completed", item[t].version, {}, TRUE)
  <2>1. Len(runs) \in Nat /\ Len(cands) \in Nat
    BY Rows
  <2>2. /\ x \in Run /\ Len(runs') = Len(runs) + 1
        /\ Grown(Deselected(CandsOf(t)), Len(runs) + 1, "selected", 1)
    BY <1>1, SourceRun
  <2>3. x.of = t /\ x.prompt = item[t].version /\ x.images = {} /\ x.status \notin Active
    BY DEF RunOf, Active
  <2>4. Len(runs) < MaxRuns /\ runs' = Append(runs, x)
    BY <1>1 DEF FromSource
  <2> HIDE DEF x
  <2>5. OldRuns /\ \A r \in 1..Len(runs') : r > Len(runs) => NewRun(r)
    BY <1>1, <2>2, <2>3, <2>4, RunAdded
  <2>6. \A c \in 1..Len(cands') : c > Len(cands) => cands'[c].run > Len(runs)
    BY <2>1, <2>2 DEF Grown
  <2> QED
    BY <1>1, <2>5, <2>6 DEF Ages
<1>2. ASSUME NEW t \in Targets, FromSource(t)
      PROVE  WithSource(t) \in Item /\ SameInputs(t, WithSource(t)) /\ Fits(t, WithSource(t))
  <2>1. item[t] \in Item /\ Len(cands) + 1 \in 0..MaxCands /\ Len(runs) \in Nat /\ Len(cands) \in Nat
    BY <1>2, Rows DEF FromSource
  <2>2. WithSource(t) \in Item /\ SameInputs(t, WithSource(t)) /\ WithSource(t).adopted = Len(cands) + 1
    BY <2>1 DEF WithSource, Item, ItemStatus, SameInputs
  <2>3. Grown(Deselected(CandsOf(t)), Len(runs) + 1, "selected", 1)
    BY <1>2, SourceRun
  <2>4. item[t].updated <= Len(runs) /\ item[t].updated \in Nat
    BY <1>2, <2>1 DEF Dated, Item
  <2>5. Len(cands) + 1 \in 1..Len(cands') /\ cands'[Len(cands) + 1].run > item[t].updated
    BY <2>1, <2>3, <2>4 DEF Grown
  <2> QED
    BY <2>2, <2>5 DEF Fits
<1>3. CASE UseSourceVideo
  <2>1. Clip \in Targets /\ FromSource(Clip) /\ SetItem(Clip, WithSource(Clip))
    BY <1>3 DEF UseSourceVideo, Clip, Targets
  <2>2. WithSource(Clip) \in Item /\ SameInputs(Clip, WithSource(Clip)) /\ Fits(Clip, WithSource(Clip))
    BY <1>2, <2>1
  <2>3. ItemsAge /\ item'[Clip] = WithSource(Clip)
    BY <2>1, <2>2, ItemAges, ItemSet
  <2> QED
    BY <1>1, <2>1, <2>2, <2>3 DEF SameInputs
<1>4. ASSUME NEW p \in Pictures, UseFrame(p) PROVE Ages
  <2> DEFINE noted == item[p].status = "approved" /\ item[p].adopted # 0 /\ Impact
  <2>1. /\ p \in Targets /\ FromSource(p) /\ SetPicture(p, WithSource(p), noted) /\ noted \in BOOLEAN
        /\ item[p].adopted # 0 => Noticed
    BY <1>4 DEF UseFrame, Pictures, Targets
  <2>2. item[p].adopted # 0 => item[p].status = "approved"
    BY <2>1, AdoptedAt
  <2>3. noted \/ item[p].adopted = 0 \/ CandsOf(Clip) = {}
    BY <2>1, <2>2 DEF Noticed, NoHazards
  <2>4. CandsOf(Clip) = {} => \A b \in 1..Len(cands) : Of(b) # Clip
    BY Rows DEF CandsOf
  <2>5. WithSource(p) \in Item /\ SameInputs(p, WithSource(p)) /\ Fits(p, WithSource(p))
    BY <1>2, <2>1
  <2> HIDE DEF noted
  <2>6. ItemsAge /\ item'[p] = WithSource(p)
    BY <1>4, <2>1, <2>3, <2>4, <2>5, PictureAges, PictureSet
  <2> QED
    BY <1>1, <2>1, <2>5, <2>6 DEF SameInputs
<1> QED
  BY <1>3, <1>4

LEMMA LeaveAges ==
  ASSUME IInv, Dated, LeaveSourceVideo
  PROVE  Ages
<1>1. Clip \in Targets /\ "ready" \in ItemStatus /\ runs' = runs
  BY DEF Clip, Targets, ItemStatus, LeaveSourceVideo
<1>2. Len(cands') = Len(cands)
  BY DeselectedRows DEF LeaveSourceVideo
<1>3. ItemsAge
  BY <1>1, StillAges, OpenAges DEF LeaveSourceVideo
<1> QED
  BY <1>1, <1>2, <1>3, DecidedAges

LEMMA StageAges ==
  ASSUME IInv, Dated, Enter \/ Advance
  PROVE  Ages
<1>1. item' = item /\ runs' = runs /\ cands' = cands
  BY DEF Enter, Advance
<1> QED
  BY <1>1, StillAges, DecidedAges

LEMMA NextKeepsDates ==
  ASSUME NoHazards, IInv, Dated, [Next]_vars
  PROVE  Dated'
<1>0. NoSharedEdit
  BY DEF NoHazards, NoSharedEdit
<1>1. CASE Generation
  <2>1. ASSUME NEW r \in DOMAIN runs,
               \/ Begin(r) \/ Publish(r)
               \/ \E n \in 0..MaxCands, s \in {"completed", "failed"} : Finish(r, n, s)
               \/ GiveUp(r) \/ Recover(r)
        PROVE  Moves /\ Ages
    BY <2>1, BeginMoves, PublishMoves, FinishMoves, RecoverMoves, BeginAges, PublishAges, FinishAges, RecoverAges
  <2>2. ASSUME NEW v \in 0..MaxEdits, NEW S \in SUBSET AdoptedImages, NEW n \in 0..1, MakeClip(v, S, n)
        PROVE  Moves /\ Ages
    BY <2>2, MakeClipMoves, MakeClipAges
  <2> QED
    BY <1>1, <2>1, <2>2, AgesKeepDates DEF Generation
<1>2. CASE Asking
  BY <1>2, AskMoves, AskAges, AgesKeepDates DEF Asking
<1>3. CASE Deciding
  <2>1. ASSUME NEW c \in DOMAIN cands, Select(c) \/ ApprovePicture(c) \/ ApproveClip(c) \/ Reject(c)
        PROVE  Moves /\ Ages
    BY <2>1, SelectMoves, ApproveMoves, RejectMoves, SelectAges, ApproveAges, RejectAges
  <2>2. CASE RevokeClip \/ \E p \in Pictures : RevokePicture(p)
    BY <2>2, RevokeMoves, RevokeAges, AgesKeepDates
  <2>3. ASSUME NEW t \in Targets, NEW S \in SUBSET DOMAIN cands,
               Restore(t, S) \/ Archive(t, S, Usable) \/ Archive(t, S, CandStatus \ {"deleted"})
        PROVE  Moves /\ Ages
    <3>1. Usable \in SUBSET (CandStatus \ {"deleted"})
          /\ (CandStatus \ {"deleted"}) \in SUBSET (CandStatus \ {"deleted"})
      BY DEF Usable, CandStatus
    <3> QED
      BY <2>3, <3>1, ArchiveMoves, ArchiveAges
  <2>4. Clip \in Targets /\ \A p \in Pictures : p \in Targets
    BY DEF Clip, Targets, Pictures
  <2>5. CASE \/ \E p \in Pictures, S \in SUBSET DOMAIN cands : ArchivePictures(p, S) \/ RestorePictures(p, S)
             \/ \E S \in SUBSET DOMAIN cands : ArchiveClips(S) \/ RestoreClips(S)
    BY <2>3, <2>4, <2>5, AgesKeepDates DEF ArchivePictures, RestorePictures, ArchiveClips, RestoreClips
  <2>6. CASE UseSourceVideo \/ \E p \in Pictures : UseFrame(p)
    BY <2>6, SourceMoves, SourceAges, AgesKeepDates
  <2>7. CASE LeaveSourceVideo
    BY <2>7, LeaveMoves, LeaveAges, AgesKeepDates
  <2> QED
    BY <1>3, <2>1, <2>2, <2>5, <2>6, <2>7, AgesKeepDates DEF Deciding
<1>4. CASE Editing
  BY <1>0, <1>4, EditMoves, EditShotMoves, StageMoves, EditAges, EditShotAges, StageAges, AgesKeepDates DEF Editing
<1>5. CASE UNCHANGED vars
  <2>1. item' = item /\ runs' = runs /\ cands' = cands /\ step' = step /\ mode' = mode
    BY <1>5 DEF vars
  <2>2. Moves
    BY <2>1, SameRuns, SameCands, QuietMoves DEF TypeOK
  <2>3. Ages
    BY <2>1, StillAges, DecidedAges
  <2> QED
    BY <2>2, <2>3, AgesKeepDates
<1> QED
  BY <1>1, <1>2, <1>3, <1>4, <1>5 DEF Next

\* Where people do none of the four things named by Hazards, the flag that
\* upstream_changes.py keeps beside an adopted result is off only while the
\* prompt is the one the result was made with and the images of a clip are
\* still the adopted ones.
THEOREM FlagsAreDated ==
  ASSUME NoHazards
  PROVE  Spec => []FlagsTellAge
<1>0. NoSharedEdit
  BY DEF NoHazards, NoSharedEdit
<1>1. Init => IInv /\ Dated
  <2> SUFFICES ASSUME Init PROVE IInv /\ Dated
    OBVIOUS
  <2>1. Len(runs) = 0 /\ Len(cands) = 0
    BY EmptySeq DEF Init
  <2>2. \A t \in Targets : item[t].adopted = 0 /\ item[t].updated = 0
    BY DEF Init
  <2> QED
    BY <2>1, <2>2, InitInv DEF Dated, FlagDated
<1>2. IInv /\ [Next]_vars => IInv'
  BY <1>0, NextKeepsInv
<1>3. IInv /\ Dated /\ [Next]_vars => Dated'
  BY NextKeepsDates
<1>4. IInv /\ Dated => FlagsTellAge
  BY DatesTellAge
<1> QED
  BY <1>1, <1>2, <1>3, <1>4, PTL DEF Spec
===============================================================================
