--------------------------- MODULE ImageBatch_proofs ---------------------------
(***************************************************************************)
(* For any number of pictures, batches, users and runs: the variables keep *)
(* their types, an ended batch is settled, a stopped one dispatches        *)
(* nothing, what may have been bought is kept, a picture has one live run, *)
(* and no picture of a batch is submitted again before its last submission *)
(* is known to have bought nothing.                                        *)
(***************************************************************************)
EXTENDS ImageBatch, SequenceTheorems, FiniteSetTheorems, WellFoundedInduction, TLAPS

USE RunsAssumption, BatchAssumption DEF RunsAssumption, BatchAssumption

\* What a row says was bought follows from its status, except where a
\* cancellation has overwritten it; a row of a batch came after every other
\* row of its picture had left the queue and the provider.
RowOK(r) ==
    /\ run[r].status \in {"queued", "failed"} => run[r].bought = "no"
    /\ run[r].status \in {"running", "uncertain"} => run[r].bought = "maybe"
    /\ run[r].status = "completed" => run[r].bought = "yes"
    /\ worker[r] = "working" => run[r].status = "running"
    /\ run[r].by = "user" /\ "retry" \notin Hazards => run[r].batch = NoBatch
    /\ run[r].by = "batch" =>
         /\ run[r].batch \in Batches /\ batch[run[r].batch].status # "none"
         /\ \A q \in 1..(r - 1) : run[q].beat = run[r].beat => run[q].status \notin {"queued", "running"}

\* A cancellation that has been saved has ended the work it cancels.
RequestOK(u) ==
    /\ request[u].op = "cancelled" => run[request[u].run].status \notin {"queued", "running"}
    /\ request[u].op \in {"cancel", "cancelled"} => "cancel" \in Hazards
    /\ request[u].op = "retry" => "retry" \in Hazards

RowsOK == (\A r \in DOMAIN run : RowOK(r)) /\ \A u \in Users : RequestOK(u)

\* Only a task at work has children; it has one for every unfinished item.
\* A child that has found its batch running can rely on it.
BatchOK(b) ==
    /\ batch[b].status \notin OPEN => task[b] = "none"
    /\ task[b] # "running" => \A p \in Beats : child[b][p] = NoChild
    /\ task[b] = "running" =>
         \A p \in Beats : It(b, p).status \in {"pending", "running"} => child[b][p].at # "none"
    /\ batch[b].status = "stopping" => \A p \in Beats : It(b, p).status # "pending"
    /\ batch[b].status # "running" => \A p \in Beats : child[b][p].at # "checked"
    /\ batch[b].status = "none" => \A p \in Beats : It(b, p) = NoItem

\* An item names a run of its picture, and its child the same one.
ItemOK(b, p) ==
    LET i == It(b, p)
        c == child[b][p]
    IN  /\ i.status = "pending" => i.run = 0
        /\ i.status = "running" => i.run # 0
        /\ i.run # 0 => run[i.run].beat = p
        /\ c.at = "none" => c = NoChild
        /\ c.at = "checked" => i.status = "pending"
        /\ c.at = "enqueued" => /\ i.status = "pending" /\ c.run # 0 /\ run[c.run].beat = p
                                /\ run[c.run].batch = b /\ run[c.run].by = "batch"
        /\ c.at = "polling" => i.status = "running" /\ c.run = i.run

ItemsOK == (\A b \in Batches : BatchOK(b)) /\ \A b \in Batches, p \in Beats : ItemOK(b, p)

\* The rows that running batches may still insert have their places.
Owes(b, p) ==
    /\ batch[b].status = "running" /\ It(b, p).status = "pending"
    /\ task[b] = "scheduled" \/ child[b][p].at \in {"waiting", "checked"}

Owing == {x \in Batches \X Beats : Owes(x[1], x[2])}

RoomOK == Len(run) + Cardinality(Owing) + Cardinality(Retrying) <= MaxRuns

Inv ==
    /\ TypeOK
    /\ RowsOK
    /\ ItemsOK
    /\ RoomOK
    /\ EndedIsSettled

ItemRows == [status : ItemStatus, run : {0} \cup DOMAIN run]
ChildRows == [at : {"none", "waiting", "checked", "enqueued", "polling"}, run : {0} \cup DOMAIN run]
BatchRows == [status : BatchStatus, item : [Beats -> ItemRows]]
Requests == [op : {"idle", "cancel", "cancelled", "retry", "trash"}, run : {0} \cup RunIds]
TaskStates == {"none", "scheduled", "running", "cancelling"}

BatchTypes ==
    /\ batch \in [Batches -> BatchRows]
    /\ made \in Seq(Batches)
    /\ task \in [Batches -> TaskStates]
    /\ child \in [Batches -> [Beats -> ChildRows]]
    /\ troubles \in 0..MaxTroubles

-----------------------------------------------------------------------------
(* The first and the last of some runs *)

\* Of the subsets that the elements of a finite set name, one contains no other.
LEMMA SmallestSubset ==
  ASSUME NEW S, IsFiniteSet(S), S # {}, NEW f \in [S -> SUBSET S]
  PROVE  \E x \in S : \A q \in S : f[q] \subseteq f[x] => f[q] = f[x]
<1> DEFINE T == {f[x] : x \in S}
<1>1. IsWellFoundedOn(StrictSubsetOrdering(S), SUBSET S)
  BY FS_StrictSubsetOrderingWellFounded, FS_FiniteSubsetsOfFinite
<1>2. T \subseteq SUBSET S
  OBVIOUS
<1>3. T # {}
  OBVIOUS
<1>4. \A x \in S : f[x] \in T
  OBVIOUS
<1>5. \A B \in T : \E x \in S : B = f[x]
  OBVIOUS
<1> HIDE DEF T
<1>6. \E B \in T : \A C \in T : ~ (<<C, B>> \in StrictSubsetOrdering(S))
  BY <1>1, <1>2, <1>3, WFMin
<1>7. PICK B \in T : \A C \in T : ~ (<<C, B>> \in StrictSubsetOrdering(S))
  BY <1>6
<1>8. PICK x \in S : B = f[x]
  BY <1>5
<1>9. ASSUME NEW q \in S, f[q] \subseteq f[x] PROVE f[q] = f[x]
  BY <1>4, <1>7, <1>8, <1>9 DEF StrictSubsetOrdering
<1> QED
  BY <1>9

\* Some row numbers have a least and a greatest one.
LEMMA FirstLast ==
  ASSUME NEW n \in Nat, NEW S \in SUBSET (1..n), S # {}
  PROVE  /\ First(S) \in S /\ \A q \in S : First(S) <= q
         /\ Last(S) \in S /\ \A q \in S : Last(S) >= q
<1> DEFINE below == [x \in S |-> {y \in S : y <= x}]
           above == [x \in S |-> {y \in S : y >= x}]
<1>1. IsFiniteSet(S)
  <2>1. IsFiniteSet(1..n)
    BY FS_Interval
  <2> QED
    BY <2>1, FS_Subset
<1>0. S \subseteq Int
  OBVIOUS
<1>a. \A f \in [S -> SUBSET S] : \E x \in S : \A q \in S : f[q] \subseteq f[x] => f[q] = f[x]
  BY <1>1, SmallestSubset
<1>2. \E x \in S : \A q \in S : x <= q
  <2>1. below \in [S -> SUBSET S]
    OBVIOUS
  <2>2. \A x, q \in S : q \in below[x] <=> q <= x
    OBVIOUS
  <2>3. \A x, q, y \in S : q <= x /\ y <= q => y <= x
    BY <1>0
  <2>4. \A x, q \in S : x <= q \/ (q <= x /\ ~ (x <= q))
    BY <1>0
  <2>5. \A x \in S : x <= x
    BY <1>0
  <2> HIDE DEF below
  <2>6. PICK x \in S : \A q \in S : below[q] \subseteq below[x] => below[q] = below[x]
    BY <1>a, <2>1
  <2>7. ASSUME NEW q \in S, q <= x, ~ (x <= q) PROVE FALSE
    <3>1. below[q] \subseteq below[x]
      BY <2>1, <2>2, <2>3, <2>7
    <3>2. below[q] = below[x]
      BY <2>6, <3>1
    <3> QED
      BY <2>2, <2>5, <2>7, <3>2
  <2> QED
    BY <2>4, <2>7
<1>3. \E x \in S : \A q \in S : x >= q
  <2>1. above \in [S -> SUBSET S]
    OBVIOUS
  <2>2. \A x, q \in S : q \in above[x] <=> q >= x
    OBVIOUS
  <2>3. \A x, q, y \in S : q >= x /\ y >= q => y >= x
    BY <1>0
  <2>4. \A x, q \in S : x >= q \/ (q >= x /\ ~ (x >= q))
    BY <1>0
  <2>5. \A x \in S : x >= x
    BY <1>0
  <2> HIDE DEF above
  <2>6. PICK x \in S : \A q \in S : above[q] \subseteq above[x] => above[q] = above[x]
    BY <1>a, <2>1
  <2>7. ASSUME NEW q \in S, q >= x, ~ (x >= q) PROVE FALSE
    <3>1. above[q] \subseteq above[x]
      BY <2>1, <2>2, <2>3, <2>7
    <3>2. above[q] = above[x]
      BY <2>6, <3>1
    <3> QED
      BY <2>2, <2>5, <2>7, <3>2
  <2> QED
    BY <2>4, <2>7
<1>4. First(S) \in S /\ \A q \in S : First(S) <= q
  BY <1>2 DEF First
<1>5. Last(S) \in S /\ \A q \in S : Last(S) >= q
  BY <1>3 DEF Last
<1> QED
  BY <1>4, <1>5

-----------------------------------------------------------------------------
(* Rows of runs *)

\* A function on 1..n is a sequence of length n.
LEMMA FunctionIsSeq ==
  ASSUME NEW T, NEW n \in Nat, NEW f \in [1..n -> T]
  PROVE  f \in Seq(T) /\ Len(f) = n /\ DOMAIN f = 1..n
<1>1. f \in Seq(T)
  BY SeqDef
<1>2. Len(f) \in Nat /\ DOMAIN f = 1..Len(f)
  BY <1>1, LenProperties
<1>3. 1..Len(f) = 1..n
  BY <1>2
<1>4. Len(f) = n
  BY <1>2, <1>3
<1> QED
  BY <1>1, <1>4

\* What RunsTypeOK says of the rows.
LEMMA Rows ==
  ASSUME RunsTypeOK
  PROVE  /\ Len(run) \in 0..MaxRuns /\ DOMAIN run = 1..Len(run)
         /\ \A r \in 1..Len(run) : run[r] \in RunRow
<1>1. run \in Seq(RunRow)
  BY DEF RunsTypeOK
<1>2. Len(run) \in Nat /\ DOMAIN run = 1..Len(run)
  BY <1>1, LenProperties
<1>3. \A r \in 1..Len(run) : run[r] \in RunRow
  BY <1>1, ElementOfSeq
<1> QED
  BY <1>2, <1>3 DEF RunsTypeOK

\* The types, by parts.
LEMMA Shape ==
  ASSUME TypeOK
  PROVE  /\ RunsTypeOK /\ BatchTypes
         /\ Len(run) \in 0..MaxRuns /\ DOMAIN run = 1..Len(run) /\ DOMAIN run \subseteq RunIds
         /\ \A r \in DOMAIN run : run[r] \in RunRow
         /\ \A b \in Batches : batch[b] \in BatchRows
         /\ \A b \in Batches, p \in Beats : It(b, p) \in ItemRows /\ child[b][p] \in ChildRows
         /\ request \in [Users -> Requests]
<1>1. RunsTypeOK /\ BatchTypes
  BY DEF TypeOK, BatchTypes, BatchRows, ItemRows, ChildRows, TaskStates
<1>2. \A b \in Batches : batch[b] \in BatchRows
  BY <1>1 DEF BatchTypes
<1>3. \A b \in Batches, p \in Beats : It(b, p) \in ItemRows /\ child[b][p] \in ChildRows
  BY <1>1, <1>2 DEF It, BatchTypes, BatchRows
<1>4. request \in [Users -> Requests]
  BY <1>1 DEF RunsTypeOK, Requests
<1> QED
  BY <1>1, <1>2, <1>3, <1>4, Rows DEF RunIds

LEMMA TypesTogether ==
  ASSUME RunsTypeOK', BatchTypes'
  PROVE  TypeOK'
BY DEF TypeOK, BatchTypes, BatchRows, ItemRows, ChildRows, TaskStates

\* Rows are only added: what names a row goes on naming one.
LEMMA TypesGrow ==
  ASSUME BatchTypes, DOMAIN run \subseteq DOMAIN run'
  PROVE  /\ batch \in [Batches -> BatchRows'] /\ child \in [Batches -> [Beats -> ChildRows']]
         /\ ItemRows \subseteq ItemRows' /\ ChildRows \subseteq ChildRows'
         /\ BatchRows \subseteq BatchRows'
<1>1. ItemRows \subseteq ItemRows' /\ ChildRows \subseteq ChildRows'
  BY DEF ItemRows, ChildRows
<1>2. [Beats -> ItemRows] \subseteq [Beats -> ItemRows'] /\ [Beats -> ChildRows] \subseteq [Beats -> ChildRows']
  BY <1>1
<1>3. BatchRows \subseteq BatchRows'
  BY <1>2 DEF BatchRows
<1> QED
  BY <1>1, <1>2, <1>3 DEF BatchTypes

-----------------------------------------------------------------------------
(* One item, or one child, changes *)

LEMMA ItemSaved ==
  ASSUME BatchTypes, NEW b \in Batches, NEW p \in Beats, NEW i \in ItemRows, SetItem(b, p, i)
  PROVE  /\ batch' \in [Batches -> BatchRows]
         /\ \A c \in Batches : batch'[c].status = batch[c].status
         /\ It(b, p)' = i
         /\ \A c \in Batches, q \in Beats : c # b \/ q # p => It(c, q)' = It(c, q)
<1> DEFINE new == [batch[b] EXCEPT !.item = [@ EXCEPT ![p] = i]]
<1>1. batch[b] \in BatchRows
  BY DEF BatchTypes
<1>2. new = [status |-> batch[b].status, item |-> [batch[b].item EXCEPT ![p] = i]]
  BY <1>1 DEF BatchRows
<1>3. new \in BatchRows
  BY <1>1, <1>2 DEF BatchRows
<1>4. batch' = [batch EXCEPT ![b] = new]
  BY DEF SetItem
<1>5. new.status = batch[b].status /\ new.item[p] = i /\ \A q \in Beats : q # p => new.item[q] = batch[b].item[q]
  BY <1>1, <1>2 DEF BatchRows
<1> HIDE DEF new
<1>6. batch'[b] = new /\ \A c \in Batches : c # b => batch'[c] = batch[c]
  BY <1>4 DEF BatchTypes
<1>7. batch' \in [Batches -> BatchRows]
  BY <1>3, <1>4 DEF BatchTypes
<1> QED
  BY <1>5, <1>6, <1>7 DEF It

LEMMA ChildSet ==
  ASSUME BatchTypes, NEW b \in Batches, NEW p \in Beats, NEW S, NEW k \in S, ChildRows \subseteq S,
         SetChild(b, p, k)
  PROVE  /\ child' \in [Batches -> [Beats -> S]]
         /\ child'[b][p] = k
         /\ \A c \in Batches, q \in Beats : c # b \/ q # p => child'[c][q] = child[c][q]
BY DEF SetChild, BatchTypes

-----------------------------------------------------------------------------
(* What a step leaves alone *)

LEMMA OwingFinite ==
  /\ IsFiniteSet(Owing) /\ Cardinality(Owing) \in Nat
  /\ IsFiniteSet(Promised) /\ Cardinality(Promised) \in Nat
  /\ IsFiniteSet(Retrying) /\ Cardinality(Retrying) \in Nat
<1>1. IsFiniteSet(Batches \X Beats)
  BY FS_Product
<1>2. Owing \subseteq Batches \X Beats /\ Promised \subseteq Batches \X Beats /\ Retrying \subseteq Users
  BY DEF Owing, Promised, Retrying
<1> QED
  BY <1>1, <1>2, FS_Subset, FS_CardinalityType

\* What is promised includes what is owed.
LEMMA OwedIsPromised ==
  Cardinality(Owing) <= Cardinality(Promised)
<1>1. Owing \subseteq Promised
  BY DEF Owing, Owes, Promised, OPEN
<1> QED
  BY <1>1, OwingFinite, FS_Subset

\* Places are kept when no row, no promise and no retry is added.
LEMMA RoomKept ==
  ASSUME Inv, TypeOK', Len(run') = Len(run),
         \A b \in Batches, p \in Beats : Owes(b, p)' => Owes(b, p),
         \A u \in Users : request'[u].op = "retry" => request[u].op = "retry"
  PROVE  RoomOK'
<1>1. Owing' \subseteq Owing
  BY DEF Owing
<1>2. Retrying' \subseteq Retrying
  BY DEF Retrying
<1>3. /\ Cardinality(Owing') <= Cardinality(Owing) /\ Cardinality(Owing') \in Nat
      /\ Cardinality(Retrying') <= Cardinality(Retrying) /\ Cardinality(Retrying') \in Nat
  BY <1>1, <1>2, OwingFinite, FS_Subset, FS_CardinalityType
<1>4. Len(run) \in Nat /\ Len(run) + Cardinality(Owing) + Cardinality(Retrying) <= MaxRuns
  BY Shape DEF Inv, RoomOK
<1> QED
  BY <1>3, <1>4, OwingFinite DEF RoomOK

LEMMA RowsSame ==
  ASSUME Inv, run' = run,
         \A r \in DOMAIN run : worker'[r] = "working" => worker[r] = "working",
         \A b \in Batches : batch[b].status # "none" => batch'[b].status # "none",
         \A u \in Users : RequestOK(u)'
  PROVE  RowsOK'
BY DEF Inv, RowsOK, RowOK

\* A step of one child that adds no row.
LEMMA ChildFrame ==
  ASSUME Inv, TypeOK', NEW b \in Batches, NEW p \in Beats, task[b] = "running",
         UNCHANGED <<run, request, made, task>>,
         \A r \in DOMAIN run : worker'[r] = "working" => worker[r] = "working",
         \A c \in Batches : batch'[c].status = batch[c].status,
         \A c \in Batches, q \in Beats :
           c # b \/ q # p => It(c, q)' = It(c, q) /\ child'[c][q] = child[c][q],
         ItemOK(b, p)',
         It(b, p)'.status \in {"pending", "running"} => child'[b][p].at # "none",
         It(b, p)'.status = "pending" => It(b, p).status = "pending",
         child'[b][p].at \in {"waiting", "checked"} => child[b][p].at = "waiting",
         child'[b][p].at = "checked" => batch[b].status = "running"
  PROVE  Inv'
<1>1. batch[b].status \in OPEN
  BY DEF Inv, ItemsOK, BatchOK
<1>2. RowsOK'
  <2>1. \A u \in Users : RequestOK(u)'
    BY DEF Inv, RowsOK, RequestOK
  <2> QED
    BY <2>1, RowsSame
<1>3. \A c \in Batches : BatchOK(c)'
  <2>1. ASSUME NEW c \in Batches, c # b PROVE BatchOK(c)'
    BY <2>1 DEF Inv, ItemsOK, BatchOK
  <2>2. BatchOK(b)'
    <3>1. BatchOK(b)
      BY DEF Inv, ItemsOK
    <3> QED
      BY <1>1, <3>1 DEF BatchOK, OPEN
  <2> QED
    BY <2>1, <2>2
<1>4. \A c \in Batches, q \in Beats : ItemOK(c, q)'
  <2>1. ASSUME NEW c \in Batches, NEW q \in Beats, c # b \/ q # p PROVE ItemOK(c, q)'
    <3>1. ItemOK(c, q)
      BY DEF Inv, ItemsOK
    <3> QED
      BY <2>1, <3>1 DEF ItemOK
  <2> QED
    BY <2>1
<1>5. RoomOK'
  <2>1. \A c \in Batches, q \in Beats : Owes(c, q)' => Owes(c, q)
    BY DEF Owes
  <2> QED
    BY <2>1, RoomKept
<1>6. EndedIsSettled'
  BY <1>1 DEF Inv, EndedIsSettled, OPEN
<1> QED
  BY <1>2, <1>3, <1>4, <1>5, <1>6 DEF Inv, ItemsOK

-----------------------------------------------------------------------------
(* The steps of a child *)

LEMMA Scheduling ==
  ASSUME RunsTypeOK, UNCHANGED <<run, request, trashed>>, NEW r \in DOMAIN run, worker' = Scheduled(r)
  PROVE  /\ RunsTypeOK'
         /\ \A q \in RunIds : worker'[q] = "working" => worker[q] = "working"
         /\ \A q \in RunIds : q # r => worker'[q] = worker[q]
<1>1. r \in RunIds
  BY Rows DEF RunIds
<1>2. worker \in [RunIds -> {"none", "scheduled", "working"}]
  BY DEF RunsTypeOK
<1>3. worker' \in [RunIds -> {"none", "scheduled", "working"}]
  BY <1>1, <1>2 DEF Scheduled
<1>4. \A q \in RunIds : worker'[q] = IF q = r /\ worker[r] = "none" THEN "scheduled" ELSE worker[q]
  BY <1>1, <1>2 DEF Scheduled
<1>5. \A q \in RunIds : worker'[q] # "none" => q \in DOMAIN run'
  BY <1>4 DEF RunsTypeOK
<1> QED
  BY <1>3, <1>4, <1>5 DEF RunsTypeOK

\* A child belongs to a task at work, for an item its batch is open for.
LEMMA AtWork ==
  ASSUME Inv, NEW b \in Batches, NEW p \in Beats, child[b][p].at # "none"
  PROVE  /\ task[b] = "running" /\ batch[b].status \in OPEN
         /\ ItemOK(b, p) /\ BatchOK(b)
         /\ It(b, p) \in ItemRows /\ child[b][p] \in ChildRows
<1>1. BatchOK(b) /\ ItemOK(b, p)
  BY DEF Inv, ItemsOK
<1>2. task[b] = "running"
  BY <1>1 DEF BatchOK, NoChild
<1> QED
  BY <1>1, <1>2, Shape DEF Inv, BatchOK

\* A child that has passed dispatch's check still may dispatch.
LEMMA StillMay ==
  ASSUME Inv, NEW b \in Batches, NEW p \in Beats, child[b][p].at = "checked"
  PROVE  MayDispatch(b, p) /\ task[b] = "running" /\ It(b, p).run = 0
BY AtWork DEF MayDispatch, BatchOK, ItemOK

LEMMA FollowStep ==
  ASSUME Inv, NEW b \in Batches, NEW p \in Beats, Follow(b, p)
  PROVE  Inv'
<1> DEFINE r == It(b, p).run
           k == [at |-> "polling", run |-> r]
<1>1. /\ task[b] = "running" /\ ItemOK(b, p) /\ It(b, p) \in ItemRows /\ RunsTypeOK /\ BatchTypes
      /\ It(b, p).status = "running"
  BY AtWork, Shape DEF Inv, Follow
<1>2. r \in DOMAIN run /\ k \in ChildRows
  BY <1>1 DEF ItemOK, ItemRows, ChildRows
<1>3. SetChild(b, p, k) /\ UNCHANGED <<run, request, trashed, batch, made, task, troubles>>
  BY DEF Follow
<1>4. RunsTypeOK' /\ \A q \in RunIds : worker'[q] = "working" => worker[q] = "working"
  <2>1. CASE worker' = worker
    BY <1>1, <1>3, <2>1 DEF RunsTypeOK
  <2>2. CASE worker' = Scheduled(r)
    BY <1>1, <1>2, <1>3, <2>2, Scheduling
  <2> QED
    BY <2>1, <2>2 DEF Follow
<1>5. /\ child' \in [Batches -> [Beats -> ChildRows]] /\ child'[b][p] = k
      /\ \A c \in Batches, q \in Beats : c # b \/ q # p => child'[c][q] = child[c][q]
  BY <1>1, <1>2, <1>3, ChildSet
<1>6. TypeOK'
  <2>1. BatchTypes'
    BY <1>1, <1>3, <1>5 DEF BatchTypes, BatchRows, ItemRows, ChildRows
  <2> QED
    BY <1>4, <2>1, TypesTogether
<1>7. ItemOK(b, p)'
  BY <1>1, <1>3, <1>5 DEF ItemOK, It
<1>8. \A c \in Batches, q \in Beats : It(c, q)' = It(c, q)
  BY <1>3 DEF It
<1> QED
  BY <1>1, <1>3, <1>4, <1>5, <1>6, <1>7, <1>8, ChildFrame, Shape DEF Inv

LEMMA LeaveAloneStep ==
  ASSUME Inv, NEW b \in Batches, NEW p \in Beats, LeaveAlone(b, p)
  PROVE  Inv'
<1>1. /\ task[b] = "running" /\ batch[b].status \in OPEN /\ ItemOK(b, p) /\ BatchOK(b)
      /\ RunsTypeOK /\ BatchTypes /\ NoChild \in ChildRows
  BY AtWork, Shape DEF Inv, LeaveAlone, DispatchTurn, NoChild, ChildRows
<1>2. SetChild(b, p, NoChild) /\ UNCHANGED <<run, worker, request, trashed, batch, made, task, troubles>>
  BY DEF LeaveAlone, runVars
<1>3. It(b, p).status \notin {"pending", "running"}
  BY <1>1 DEF LeaveAlone, DispatchTurn, MayDispatch, BatchOK, OPEN
<1>4. /\ child' \in [Batches -> [Beats -> ChildRows]] /\ child'[b][p] = NoChild
      /\ \A c \in Batches, q \in Beats : c # b \/ q # p => child'[c][q] = child[c][q]
  BY <1>1, <1>2, ChildSet
<1>5. TypeOK'
  <2>1. RunsTypeOK' /\ BatchTypes'
    BY <1>1, <1>2, <1>4 DEF RunsTypeOK, BatchTypes, BatchRows, ItemRows, ChildRows
  <2> QED
    BY <2>1, TypesTogether
<1>6. ItemOK(b, p)'
  BY <1>1, <1>2, <1>4 DEF ItemOK, It, NoChild
<1>7. \A c \in Batches, q \in Beats : It(c, q)' = It(c, q)
  BY <1>2 DEF It
<1> QED
  BY <1>1, <1>2, <1>3, <1>4, <1>5, <1>6, <1>7, ChildFrame DEF NoChild

LEMMA DispatchCheckStep ==
  ASSUME Inv, NEW b \in Batches, NEW p \in Beats, DispatchCheck(b, p)
  PROVE  Inv'
<1> DEFINE k == [at |-> "checked", run |-> 0]
<1>1. /\ task[b] = "running" /\ ItemOK(b, p) /\ It(b, p) \in ItemRows /\ RunsTypeOK /\ BatchTypes
      /\ batch[b].status = "running" /\ It(b, p).status = "pending" /\ child[b][p].at = "waiting"
  BY AtWork, Shape DEF Inv, DispatchCheck, DispatchTurn, MayDispatch
<1>2. SetChild(b, p, k) /\ UNCHANGED <<run, worker, request, trashed, batch, made, task, troubles>>
  BY DEF DispatchCheck, runVars
<1>3. k \in ChildRows
  BY DEF ChildRows
<1>4. /\ child' \in [Batches -> [Beats -> ChildRows]] /\ child'[b][p] = k
      /\ \A c \in Batches, q \in Beats : c # b \/ q # p => child'[c][q] = child[c][q]
  BY <1>1, <1>2, <1>3, ChildSet
<1>5. TypeOK'
  <2>1. RunsTypeOK' /\ BatchTypes'
    BY <1>1, <1>2, <1>4 DEF RunsTypeOK, BatchTypes, BatchRows, ItemRows, ChildRows
  <2> QED
    BY <2>1, TypesTogether
<1>6. ItemOK(b, p)'
  BY <1>1, <1>2, <1>4 DEF ItemOK, It
<1>7. \A c \in Batches, q \in Beats : It(c, q)' = It(c, q)
  BY <1>2 DEF It
<1> QED
  BY <1>1, <1>2, <1>4, <1>5, <1>6, <1>7, ChildFrame

\* An item is saved and its child ends, or goes on following its run.
LEMMA ItemStep ==
  ASSUME Inv, NEW b \in Batches, NEW p \in Beats, child[b][p].at # "none",
         NEW i \in ItemRows, NEW k \in ChildRows, SetItem(b, p, i), SetChild(b, p, k),
         UNCHANGED <<run, request, trashed, made, task>>, RunsTypeOK', troubles' \in 0..MaxTroubles,
         \A q \in RunIds : worker'[q] = "working" => worker[q] = "working",
         i.run # 0 => run[i.run].beat = p,
         \/ k = NoChild /\ i.status \notin {"pending", "running"}
         \/ k = [at |-> "polling", run |-> i.run] /\ i.status = "running" /\ i.run # 0
  PROVE  Inv'
<1>1. task[b] = "running" /\ BatchTypes /\ DOMAIN run \subseteq RunIds
  BY AtWork, Shape DEF Inv
<1>2. /\ batch' \in [Batches -> BatchRows]
      /\ \A c \in Batches : batch'[c].status = batch[c].status
      /\ It(b, p)' = i
      /\ \A c \in Batches, q \in Beats : c # b \/ q # p => It(c, q)' = It(c, q)
  BY <1>1, ItemSaved
<1>3. /\ child' \in [Batches -> [Beats -> ChildRows]] /\ child'[b][p] = k
      /\ \A c \in Batches, q \in Beats : c # b \/ q # p => child'[c][q] = child[c][q]
  BY <1>1, ChildSet
<1>4. TypeOK'
  <2>1. BatchTypes'
    BY <1>1, <1>2, <1>3 DEF BatchTypes, BatchRows, ItemRows, ChildRows
  <2> QED
    BY <2>1, TypesTogether
<1>5. ItemOK(b, p)'
  BY <1>2, <1>3 DEF ItemOK, NoChild
<1> QED
  BY <1>1, <1>2, <1>3, <1>4, <1>5, ChildFrame DEF NoChild

LEMMA SaveMembershipStep ==
  ASSUME Inv, NEW b \in Batches, NEW p \in Beats, SaveMembership(b, p)
  PROVE  Inv'
<1> DEFINE r == child[b][p].run
           i == Item("running", r)
           k == [at |-> "polling", run |-> r]
<1>1. child[b][p].at = "enqueued" /\ ItemOK(b, p) /\ child[b][p] \in ChildRows
  BY AtWork DEF SaveMembership
<1>2. r \in DOMAIN run /\ r # 0 /\ run[r].beat = p
  BY <1>1 DEF ItemOK, ChildRows
<1>3. i \in ItemRows /\ k \in ChildRows /\ i.run = r /\ i.status = "running"
  BY <1>2 DEF ItemRows, ChildRows, Item, ItemStatus
<1>4. SetItem(b, p, i) /\ SetChild(b, p, k) /\ UNCHANGED <<run, request, trashed, made, task, troubles>>
  BY DEF SaveMembership
<1>5. RunsTypeOK' /\ \A q \in RunIds : worker'[q] = "working" => worker[q] = "working"
  BY <1>2, <1>4, Scheduling, Shape DEF Inv, SaveMembership
<1>6. troubles' \in 0..MaxTroubles
  BY <1>4, Shape DEF Inv, BatchTypes
<1> QED
  BY <1>1, <1>2, <1>3, <1>4, <1>5, <1>6, ItemStep

LEMMA SettleStep ==
  ASSUME Inv, NEW b \in Batches, NEW p \in Beats, Settle(b, p)
  PROVE  Inv'
<1> DEFINE r == child[b][p].run
           i == Item(Outcome(run[r].status), r)
<1>1. child[b][p].at = "polling" /\ ItemOK(b, p) /\ child[b][p] \in ChildRows
  BY AtWork DEF Settle
<1>2. r \in DOMAIN run /\ r # 0 /\ run[r].beat = p
  BY <1>1 DEF ItemOK, ChildRows
<1>3. /\ i \in ItemRows /\ NoChild \in ChildRows /\ i.run = r
      /\ i.status \in {"completed", "unknown", "failed"}
  BY <1>2 DEF ItemRows, ChildRows, Item, ItemStatus, NoChild, Outcome
<1>4. SetItem(b, p, i) /\ SetChild(b, p, NoChild)
      /\ UNCHANGED <<run, worker, request, trashed, made, task, troubles>>
  BY DEF Settle, runVars
<1>5. RunsTypeOK' /\ troubles' \in 0..MaxTroubles
  BY <1>4, Shape DEF Inv, BatchTypes, RunsTypeOK
<1> QED
  BY <1>1, <1>2, <1>3, <1>4, <1>5, ItemStep

\* What the except branch saves of an item.
Retained(b, p, known) ==
    IF Tagged(b, p) \cap Live(p) # {} THEN Item("unknown", First(Tagged(b, p) \cap Live(p)))
    ELSE Item("failed", known)

LEMMA RetainedItem ==
  ASSUME TypeOK, NEW b \in Batches, NEW p \in Beats, NEW known \in {0} \cup DOMAIN run
  PROVE  LET i == Retained(b, p, known)
             linked == Tagged(b, p) \cap Live(p)
         IN  /\ i \in ItemRows
             /\ linked # {} => /\ i.status = "unknown" /\ i.run \in linked
                               /\ \A q \in linked : i.run <= q
             /\ linked = {} => i = Item("failed", known)
             /\ i.status \in {"unknown", "failed"}
<1> DEFINE linked == Tagged(b, p) \cap Live(p)
           i == Retained(b, p, known)
<1>1. linked \in SUBSET (1..Len(run)) /\ Len(run) \in Nat /\ DOMAIN run = 1..Len(run)
  BY Shape DEF Tagged, Live, Of
<1>2. linked # {} => First(linked) \in linked /\ \A q \in linked : First(linked) <= q
  <2> HIDE DEF linked
  <2> QED
    BY <1>1, FirstLast
<1>3. CASE linked # {}
  <2>1. i = Item("unknown", First(linked))
    BY <1>3 DEF Retained
  <2>2. i.status = "unknown" /\ i.run = First(linked) /\ First(linked) \in DOMAIN run
    BY <1>1, <1>2, <1>3, <2>1 DEF Item
  <2>3. i \in ItemRows
    BY <2>1, <2>2 DEF Item, ItemRows, ItemStatus
  <2> QED
    BY <1>2, <1>3, <2>2, <2>3
<1>4. CASE linked = {}
  <2>1. i = Item("failed", known)
    BY <1>4 DEF Retained
  <2> QED
    BY <1>4, <2>1 DEF Item, ItemRows, ItemStatus
<1> QED
  BY <1>3, <1>4

LEMMA ExceptedStep ==
  ASSUME Inv, NEW b \in Batches, NEW p \in Beats, child[b][p].at # "none",
         NEW known \in {0} \cup DOMAIN run, known # 0 => run[known].beat = p,
         Excepted(b, p, known), troubles' \in 0..MaxTroubles
  PROVE  Inv'
<1> DEFINE i == Retained(b, p, known)
<1>1. i \in ItemRows /\ NoChild \in ChildRows /\ i.status \in {"unknown", "failed"}
  BY RetainedItem DEF Inv, NoChild, ChildRows
<1>2. i.run # 0 => run[i.run].beat = p
  BY RetainedItem DEF Inv, Live, Of, Item
<1>3. SetItem(b, p, i) /\ SetChild(b, p, NoChild)
      /\ UNCHANGED <<run, worker, request, trashed, made, task>>
  BY DEF Excepted, Retained, runVars
<1>4. RunsTypeOK'
  BY <1>3, Shape DEF Inv, RunsTypeOK
<1> HIDE DEF i
<1> QED
  BY <1>1, <1>2, <1>3, <1>4, ItemStep

LEMMA DispatchRefusedStep ==
  ASSUME Inv, NEW b \in Batches, NEW p \in Beats, DispatchRefused(b, p)
  PROVE  Inv'
<1>1. child[b][p].at # "none" /\ Excepted(b, p, 0) /\ troubles' = troubles
  BY DEF DispatchRefused
<1>2. troubles' \in 0..MaxTroubles
  BY <1>1, Shape DEF Inv, BatchTypes
<1> QED
  BY <1>1, <1>2, ExceptedStep

LEMMA TroubleCounted ==
  ASSUME Inv, NEW k, Trouble(k)
  PROVE  troubles' \in 0..MaxTroubles
BY Shape DEF Inv, BatchTypes, Trouble

LEMMA StoreFaultStep ==
  ASSUME Inv, NEW b \in Batches, NEW p \in Beats, StoreFault(b, p)
  PROVE  Inv'
<1>1. troubles' \in 0..MaxTroubles
  BY TroubleCounted DEF StoreFault
<1>2. CASE child[b][p].at = "enqueued" /\ Excepted(b, p, 0)
  BY <1>1, <1>2, ExceptedStep
<1>3. CASE child[b][p].at = "polling" /\ Excepted(b, p, child[b][p].run)
  <2>1. ItemOK(b, p) /\ child[b][p] \in ChildRows
    BY <1>3, AtWork
  <2>2. child[b][p].run \in DOMAIN run /\ run[child[b][p].run].beat = p
    BY <1>3, <2>1 DEF ItemOK, ChildRows
  <2> QED
    BY <1>1, <1>3, <2>2, ExceptedStep
<1> QED
  BY <1>2, <1>3 DEF StoreFault

-----------------------------------------------------------------------------
(* A row is added *)

NewRow(p, b, who) == [beat |-> p, batch |-> b, by |-> who, status |-> "queued", bought |-> "no"]

AddsRow(p, b, who) ==
    /\ run' \in Seq(RunRow) /\ Len(run') = Len(run) + 1 /\ Len(run') <= MaxRuns
    /\ DOMAIN run' = 1..Len(run') /\ DOMAIN run \subseteq DOMAIN run'
    /\ \A r \in DOMAIN run : run'[r] = run[r]
    /\ run'[Len(run) + 1] = NewRow(p, b, who)

LEMMA RowAdded ==
  ASSUME TypeOK, NEW p \in Beats, NEW b \in Batches \cup {NoBatch}, NEW who \in {"batch", "user"},
         Enqueue(p, b, who), Len(run) < MaxRuns
  PROVE  AddsRow(p, b, who)
<1>1. run \in Seq(RunRow) /\ Len(run) \in Nat /\ DOMAIN run = 1..Len(run)
  BY Shape DEF RunsTypeOK
<1>2. NewRow(p, b, who) \in RunRow /\ run' = Append(run, NewRow(p, b, who))
  BY DEF NewRow, RunRow, Enqueue, ACTIVE
<1> HIDE DEF NewRow
<1>3. /\ run' \in Seq(RunRow) /\ Len(run') = Len(run) + 1
      /\ \A i \in 1..Len(run) : run'[i] = run[i]
      /\ run'[Len(run) + 1] = NewRow(p, b, who)
  BY <1>1, <1>2, AppendProperties
<1>4. DOMAIN run' = 1..Len(run')
  BY <1>3, LenProperties
<1> QED
  BY <1>1, <1>3, <1>4 DEF AddsRow, NewRow

LEMMA RowsAdded ==
  ASSUME Inv, NEW p \in Beats, NEW b \in Batches \cup {NoBatch}, NEW who \in {"batch", "user"},
         AddsRow(p, b, who),
         who = "batch" => b \in Batches /\ batch[b].status # "none" /\ Live(p) = {},
         who = "user" /\ "retry" \notin Hazards => b = NoBatch,
         \A r \in DOMAIN run : worker'[r] = "working" => worker[r] = "working",
         worker'[Len(run) + 1] # "working",
         \A c \in Batches : batch[c].status # "none" => batch'[c].status # "none",
         \A u \in Users : RequestOK(u)'
  PROVE  RowsOK'
<1>1. Len(run) \in Nat /\ DOMAIN run = 1..Len(run) /\ DOMAIN run' = 1..(Len(run) + 1)
  BY Shape DEF Inv, AddsRow
<1>2. ASSUME NEW r \in DOMAIN run PROVE RowOK(r)'
  <2>1. RowOK(r)
    BY DEF Inv, RowsOK
  <2>2. run'[r] = run[r] /\ \A q \in 1..(r - 1) : q \in DOMAIN run /\ run'[q] = run[q]
    BY <1>1 DEF AddsRow
  <2> QED
    BY <2>1, <2>2 DEF RowOK
<1>3. PICK n \in Nat : n = Len(run) + 1
  BY <1>1
<1>4. RowOK(n)'
  <2>1. run'[n] = NewRow(p, b, who)
    BY <1>3 DEF AddsRow
  <2>2. /\ run'[n].beat = p /\ run'[n].batch = b /\ run'[n].by = who
        /\ run'[n].status = "queued" /\ run'[n].bought = "no"
    BY <2>1 DEF NewRow
  <2>3. ASSUME NEW q \in 1..(n - 1) PROVE q \in DOMAIN run /\ run'[q] = run[q]
    BY <1>1, <1>3 DEF AddsRow
  <2>4. ASSUME who = "batch", NEW q \in 1..(n - 1), run'[q].beat = p
        PROVE  run'[q].status \notin {"queued", "running"}
    BY <2>3, <2>4 DEF Live, Of, ACTIVE
  <2>5. worker'[n] # "working"
    BY <1>3
  <2> QED
    BY <2>2, <2>4, <2>5 DEF RowOK
<1>5. ASSUME NEW r \in DOMAIN run' PROVE RowOK(r)'
  <2>1. r \in DOMAIN run \/ r = n
    BY <1>1, <1>3
  <2> QED
    BY <1>2, <1>4, <2>1
<1> QED
  BY <1>5 DEF RowsOK

\* Rows keep their picture, their batch and who asked for them.
SameRows ==
    /\ DOMAIN run \subseteq DOMAIN run'
    /\ \A r \in DOMAIN run : /\ run'[r].beat = run[r].beat /\ run'[r].batch = run[r].batch
                             /\ run'[r].by = run[r].by

LEMMA ItemKept ==
  ASSUME Inv, NEW b \in Batches, NEW p \in Beats, SameRows,
         It(b, p)' = It(b, p), child'[b][p] = child[b][p]
  PROVE  ItemOK(b, p)'
<1>1. ItemOK(b, p) /\ It(b, p) \in ItemRows /\ child[b][p] \in ChildRows
  BY Shape DEF Inv, ItemsOK
<1> QED
  BY <1>1 DEF ItemOK, SameRows, ItemRows, ChildRows

LEMMA ItemsKept ==
  ASSUME Inv, SameRows, UNCHANGED <<batch, task, child>>
  PROVE  ItemsOK' /\ EndedIsSettled'
<1>1. \A b \in Batches, p \in Beats : It(b, p)' = It(b, p)
  BY DEF It
<1>2. \A b \in Batches, p \in Beats : ItemOK(b, p)'
  BY <1>1, ItemKept
<1>3. \A b \in Batches : BatchOK(b)'
  BY <1>1 DEF Inv, ItemsOK, BatchOK
<1>4. EndedIsSettled'
  BY <1>1 DEF Inv, EndedIsSettled
<1> QED
  BY <1>2, <1>3, <1>4 DEF ItemsOK

LEMMA DispatchStep ==
  ASSUME Inv, NEW b \in Batches, NEW p \in Beats, Dispatch(b, p)
  PROVE  Inv' /\ AddsRow(p, b, "batch")
<1> DEFINE n == Len(run) + 1
           k == [at |-> "enqueued", run |-> n]
<1>1. /\ child[b][p].at = "checked" /\ batch[b].status = "running" /\ It(b, p).status = "pending"
      /\ Live(p) = {} /\ Enqueue(p, b, "batch") /\ SetChild(b, p, k)
      /\ UNCHANGED <<worker, request, trashed, batch, made, task, troubles>>
  BY StillMay DEF Dispatch, MayDispatch
<1>2. TypeOK /\ RunsTypeOK /\ BatchTypes /\ Len(run) \in Nat /\ DOMAIN run = 1..Len(run) /\ DOMAIN run \subseteq RunIds
  BY Shape DEF Inv
<1>3. <<b, p>> \in Owing
  BY <1>1 DEF Owing, Owes
<1>4. Len(run) + 1 + Cardinality(Owing \ {<<b, p>>}) + Cardinality(Retrying) <= MaxRuns
  <2>1. Cardinality(Owing \ {<<b, p>>}) = Cardinality(Owing) - 1
    BY <1>3, OwingFinite, FS_RemoveElement
  <2> QED
    BY <1>2, <2>1, OwingFinite DEF Inv, RoomOK
<1>5. IsFiniteSet(Owing \ {<<b, p>>}) /\ Cardinality(Owing \ {<<b, p>>}) \in Nat
  BY OwingFinite, FS_RemoveElement, FS_CardinalityType
<1>6. AddsRow(p, b, "batch")
  BY <1>1, <1>2, <1>4, <1>5, OwingFinite, RowAdded
<1>7. SameRows
  BY <1>6 DEF AddsRow, SameRows
<1>8. ChildRows \subseteq ChildRows' /\ k \in ChildRows' /\ batch \in [Batches -> BatchRows']
  <2>1. n \in DOMAIN run'
    BY <1>2, <1>6 DEF AddsRow
  <2> QED
    BY <1>2, <1>7, <2>1, TypesGrow DEF SameRows, ChildRows
<1>9. /\ child' \in [Batches -> [Beats -> ChildRows']] /\ child'[b][p] = k
      /\ \A c \in Batches, q \in Beats : c # b \/ q # p => child'[c][q] = child[c][q]
  BY <1>1, <1>2, <1>8, ChildSet
<1>10. TypeOK'
  <2>1. RunsTypeOK'
    BY <1>1, <1>2, <1>6 DEF RunsTypeOK, AddsRow
  <2>2. BatchTypes'
    BY <1>1, <1>2, <1>8, <1>9 DEF BatchTypes
  <2> QED
    BY <2>1, <2>2, TypesTogether
<1>11. \A c \in Batches, q \in Beats : It(c, q)' = It(c, q)
  BY <1>1 DEF It
<1>12. RowsOK'
  <2>1. \A u \in Users : RequestOK(u)'
    <3>1. ASSUME NEW u \in Users PROVE RequestOK(u)'
      <4>1. RequestOK(u) /\ (request[u].op = "cancelled" => request[u].run \in DOMAIN run)
        BY <1>2 DEF Inv, RowsOK, RunsTypeOK
      <4> QED
        BY <1>1, <1>6, <4>1 DEF RequestOK, AddsRow
    <3> QED
      BY <3>1
  <2>2. worker[n] # "working"
    <3>1. n \in RunIds /\ n \notin DOMAIN run
      BY <1>2, <1>4, <1>5, OwingFinite DEF RunIds
    <3> QED
      BY <1>2, <3>1 DEF RunsTypeOK
  <2> QED
    BY <1>1, <1>6, <2>1, <2>2, RowsAdded
<1>13. ItemsOK'
  <2>1. ASSUME NEW c \in Batches, NEW q \in Beats, c # b \/ q # p PROVE ItemOK(c, q)'
    BY <1>7, <1>9, <1>11, <2>1, ItemKept
  <2>2. ItemOK(b, p)'
    <3>1. ItemOK(b, p) /\ It(b, p).run = 0
      BY <1>1 DEF Inv, ItemsOK, ItemOK
    <3>2. run'[n].beat = p /\ run'[n].batch = b /\ run'[n].by = "batch" /\ n # 0
      BY <1>2, <1>6 DEF AddsRow, NewRow
    <3> QED
      BY <1>1, <1>9, <1>11, <3>1, <3>2 DEF ItemOK
  <2>3. ASSUME NEW c \in Batches, c # b PROVE BatchOK(c)'
    <3>1. BatchOK(c)
      BY DEF Inv, ItemsOK
    <3>2. \A q \in Beats : child'[c][q] = child[c][q] /\ It(c, q)' = It(c, q)
      BY <1>9, <1>11, <2>3
    <3> QED
      BY <1>1, <3>1, <3>2 DEF BatchOK
  <2>4. BatchOK(b)'
    <3>1. task[b] = "running" /\ BatchOK(b)
      BY <1>1, AtWork
    <3> QED
      BY <1>1, <1>9, <1>11, <3>1 DEF BatchOK, OPEN
  <2> QED
    BY <2>1, <2>2, <2>3, <2>4 DEF ItemsOK
<1>14. RoomOK'
  <2>1. Owing' \subseteq Owing \ {<<b, p>>}
    <3>1. ASSUME NEW c \in Batches, NEW q \in Beats, Owes(c, q)'
          PROVE  Owes(c, q) /\ (c # b \/ q # p)
      <4>1. task[b] = "running"
        BY <1>1, AtWork
      <4> QED
        BY <1>1, <1>9, <1>11, <3>1, <4>1 DEF Owes
    <3> QED
      BY <3>1 DEF Owing
  <2>2. Retrying' = Retrying
    BY <1>1 DEF Retrying
  <2>3. Cardinality(Owing') <= Cardinality(Owing \ {<<b, p>>}) /\ Cardinality(Owing') \in Nat
    BY <1>5, <2>1, FS_Subset, FS_CardinalityType
  <2>4. Len(run') = Len(run) + 1
    BY <1>6 DEF AddsRow
  <2> QED
    BY <1>2, <1>4, <1>5, <2>2, <2>3, <2>4, OwingFinite DEF RoomOK
<1>15. EndedIsSettled'
  BY <1>1, <1>11 DEF Inv, EndedIsSettled
<1> QED
  BY <1>6, <1>10, <1>12, <1>13, <1>14, <1>15 DEF Inv

\* A user's row is added and scheduled.
LEMMA UserRow ==
  ASSUME Inv, NEW p \in Beats, NEW b \in Batches \cup {NoBatch}, Enqueue(p, b, "user"),
         "retry" \notin Hazards => b = NoBatch,
         worker' = Scheduled(Len(run) + 1), UNCHANGED <<trashed, batchVars>>,
         request' \in [Users -> Requests],
         \A u \in Users : request'[u] = request[u] \/ request'[u] = Idle,
         Len(run) + 1 + Cardinality(Owing) + Cardinality(Retrying') <= MaxRuns,
         Cardinality(Retrying') \in Nat
  PROVE  Inv' /\ AddsRow(p, b, "user") /\ \A r \in DOMAIN run : worker'[r] = worker[r]
<1> DEFINE n == Len(run) + 1
<1>1. TypeOK /\ RunsTypeOK /\ BatchTypes /\ Len(run) \in Nat /\ DOMAIN run = 1..Len(run) /\ DOMAIN run \subseteq RunIds
  BY Shape DEF Inv
<1>2. UNCHANGED <<batch, made, task, child, troubles>>
  BY DEF batchVars
<1>3. Len(run) < MaxRuns /\ n \in RunIds /\ n \notin DOMAIN run
  BY <1>1, OwingFinite DEF RunIds
<1>4. AddsRow(p, b, "user")
  BY <1>1, <1>3, RowAdded
<1>5. worker[n] = "none" /\ worker \in [RunIds -> {"none", "scheduled", "working"}]
  BY <1>1, <1>3 DEF RunsTypeOK
<1>6. /\ worker' \in [RunIds -> {"none", "scheduled", "working"}] /\ worker'[n] = "scheduled"
      /\ \A r \in RunIds : r # n => worker'[r] = worker[r]
  BY <1>3, <1>5 DEF Scheduled
<1>7. SameRows /\ n \in DOMAIN run'
  BY <1>1, <1>4 DEF AddsRow, SameRows
<1>8. TypeOK'
  <2>1. RunsTypeOK'
    <3>1. \A r \in RunIds : worker'[r] # "none" => r \in DOMAIN run'
      BY <1>1, <1>6, <1>7 DEF RunsTypeOK, SameRows
    <3>2. \A u \in Users : request'[u].op \in {"cancel", "cancelled", "retry"} => request'[u].run \in DOMAIN run'
      BY <1>1, <1>7 DEF RunsTypeOK, SameRows, Idle
    <3> QED
      BY <1>1, <1>4, <1>6, <3>1, <3>2 DEF RunsTypeOK, AddsRow, Requests
  <2>2. BatchTypes'
    BY <1>1, <1>2, <1>7, TypesGrow DEF BatchTypes, SameRows
  <2> QED
    BY <2>1, <2>2, TypesTogether
<1>9. RowsOK'
  <2>1. ASSUME NEW u \in Users PROVE RequestOK(u)'
    <3>1. RequestOK(u) /\ (request[u].op = "cancelled" => request[u].run \in DOMAIN run)
      BY <1>1 DEF Inv, RowsOK, RunsTypeOK
    <3> QED
      BY <1>4, <3>1 DEF RequestOK, AddsRow, Idle
  <2> QED
    BY <1>1, <1>2, <1>3, <1>4, <1>6, <2>1, RowsAdded
<1>10. ItemsOK' /\ EndedIsSettled'
  BY <1>2, <1>7, ItemsKept
<1>11. RoomOK'
  <2>1. Owing' = Owing
    BY <1>2 DEF Owing, Owes, It
  <2>2. Len(run') = n
    BY <1>4 DEF AddsRow
  <2> QED
    BY <2>1, <2>2 DEF RoomOK
<1>12. \A r \in DOMAIN run : worker'[r] = worker[r]
  BY <1>1, <1>3, <1>6
<1> QED
  BY <1>4, <1>8, <1>9, <1>10, <1>11, <1>12 DEF Inv

LEMMA GenerateStep ==
  ASSUME Inv, UserRoom, NEW p \in Beats, Generate(p), UNCHANGED batchVars
  PROVE  Inv' /\ AddsRow(p, NoBatch, "user") /\ \A r \in DOMAIN run : worker'[r] = worker[r]
<1>1. Enqueue(p, NoBatch, "user") /\ worker' = Scheduled(Len(run) + 1) /\ UNCHANGED <<request, trashed>>
  BY DEF Generate
<1>2. Len(run) \in Nat /\ request \in [Users -> Requests]
  BY Shape DEF Inv
<1>3. Retrying' = Retrying
  BY <1>1 DEF Retrying
<1>4. Len(run) + 1 + Cardinality(Owing) + Cardinality(Retrying') <= MaxRuns
  BY <1>2, <1>3, OwingFinite, OwedIsPromised DEF UserRoom, Room
<1> QED
  BY <1>1, <1>2, <1>3, <1>4, OwingFinite, UserRow

LEMMA RetrySaveStep ==
  ASSUME Inv, NEW u \in Users, RetrySave(u), UNCHANGED batchVars
  PROVE  /\ Inv' /\ \A r \in DOMAIN run : worker'[r] = worker[r]
         /\ AddsRow(run[request[u].run].beat, run[request[u].run].batch, "user")
         /\ "retry" \in Hazards
<1> DEFINE row == run[request[u].run]
<1>1. /\ request[u].op = "retry" /\ Enqueue(row.beat, row.batch, "user")
      /\ worker' = Scheduled(Len(run) + 1) /\ UNCHANGED trashed
      /\ request' = [request EXCEPT ![u] = Idle]
  BY DEF RetrySave
<1>2. Len(run) \in Nat /\ request \in [Users -> Requests] /\ row \in RunRow
  BY <1>1, Shape DEF Inv, RunsTypeOK
<1>3. row.beat \in Beats /\ row.batch \in Batches \cup {NoBatch}
  BY <1>2 DEF RunRow
<1>4. "retry" \in Hazards
  BY <1>1 DEF Inv, RowsOK, RequestOK
<1>5. /\ request' \in [Users -> Requests]
      /\ \A v \in Users : request'[v] = request[v] \/ request'[v] = Idle
  BY <1>1, <1>2 DEF Requests, Idle
<1>6. Retrying' = Retrying \ {u} /\ u \in Retrying
  BY <1>1, <1>2 DEF Retrying, Idle
<1>7. Cardinality(Retrying') = Cardinality(Retrying) - 1 /\ Cardinality(Retrying') \in Nat
  BY <1>6, OwingFinite, FS_RemoveElement, FS_CardinalityType
<1>8. Len(run) + 1 + Cardinality(Owing) + Cardinality(Retrying') <= MaxRuns
  BY <1>2, <1>7, OwingFinite DEF Inv, RoomOK
<1> HIDE DEF row
<1>9. Inv' /\ AddsRow(row.beat, row.batch, "user") /\ \A r \in DOMAIN run : worker'[r] = worker[r]
  BY <1>1, <1>3, <1>4, <1>5, <1>7, <1>8, UserRow
<1> QED
  BY <1>4, <1>9 DEF row

-----------------------------------------------------------------------------
(* Rows change *)

\* Everything that can happen to a row.
Becomes(r) ==
    LET o == run[r]
        n == run'[r]
    IN  \/ n = o
        \/ n.status = "cancellation_requested" /\ n.bought = o.bought /\ "cancel" \in Hazards
        \/ o.status \in ACTIVE /\ n.status = "cancelled" /\ n.bought = o.bought
        \/ o.status = "queued" /\ n.status = "running" /\ n.bought = "maybe"
        \/ /\ o.status = "running"
           /\ \/ n.status = "completed" /\ n.bought = "yes"
              \/ n.status = "failed" /\ n.bought = "no"
              \/ n.status = "uncertain" /\ n.bought = "maybe"
        \/ o.status = "uncertain" /\ n.status = "completed" /\ n.bought = "yes"

\* A run that no task knows of is not started.
Quiet(r) == worker[r] = "none" => /\ worker'[r] = "none"
                                  /\ run[r].status = "queued" => run'[r].status # "running"

RowsChange ==
    /\ run' \in Seq(RunRow) /\ Len(run') = Len(run) /\ DOMAIN run' = DOMAIN run
    /\ SameRows
    /\ \A r \in DOMAIN run : Becomes(r)

LEMMA RowSaved ==
  ASSUME TypeOK, NEW r \in DOMAIN run, NEW s \in ACTIVE \cup Terminal, NEW x \in {"no", "maybe", "yes"},
         \/ run' = WithStatus(r, s) /\ x = run[r].bought
         \/ run' = WithResult(r, s) /\ x = CASE s = "completed" -> "yes" [] s = "failed" -> "no" [] OTHER -> "maybe"
  PROVE  /\ run' \in Seq(RunRow) /\ Len(run') = Len(run) /\ DOMAIN run' = DOMAIN run /\ SameRows
         /\ run'[r].status = s /\ run'[r].bought = x
         /\ \A q \in DOMAIN run : q # r => run'[q] = run[q]
<1>1. run \in Seq(RunRow) /\ run[r] \in RunRow /\ Len(run) \in Nat /\ DOMAIN run = 1..Len(run)
  BY Shape DEF RunsTypeOK
<1> DEFINE row == [beat |-> run[r].beat, batch |-> run[r].batch, by |-> run[r].by, status |-> s, bought |-> x]
<1>2. row \in RunRow
  BY <1>1 DEF RunRow
<1>3. run' = [run EXCEPT ![r] = row]
  <2>1. CASE run' = WithStatus(r, s) /\ x = run[r].bought
    <3>1. [run[r] EXCEPT !.status = s] = row
      BY <1>1, <2>1 DEF RunRow
    <3> QED
      BY <2>1, <3>1 DEF WithStatus
  <2>2. CASE run' = WithResult(r, s) /\ x = CASE s = "completed" -> "yes" [] s = "failed" -> "no" [] OTHER -> "maybe"
    <3>0. [run[r] EXCEPT !.status = s]
            = [beat |-> run[r].beat, batch |-> run[r].batch, by |-> run[r].by, status |-> s, bought |-> run[r].bought]
      BY <1>1 DEF RunRow
    <3>1. [[run[r] EXCEPT !.status = s] EXCEPT !.bought = x] = row
      <4> DEFINE old == [beat |-> run[r].beat, batch |-> run[r].batch, by |-> run[r].by,
                         status |-> s, bought |-> run[r].bought]
      <4>1. [old EXCEPT !.bought = x] = row
        OBVIOUS
      <4> QED
        BY <3>0, <4>1
    <3> DEFINE one == [run EXCEPT ![r] = [run[r] EXCEPT !.status = s]]
    <3>2. one[r] = [run[r] EXCEPT !.status = s]
      BY <1>1
    <3>3. run' = [one EXCEPT ![r] = [one[r] EXCEPT !.bought = x]]
      BY <2>2 DEF WithResult
    <3> QED
      BY <1>1, <3>1, <3>2, <3>3
  <2> QED
    BY <2>1, <2>2
<1> HIDE DEF row
<1>4. run' \in Seq(RunRow) /\ Len(run') = Len(run)
  BY <1>1, <1>2, <1>3, ExceptSeq
<1>5. DOMAIN run' = DOMAIN run
  BY <1>1, <1>4, LenProperties
<1>6. run'[r] = row /\ \A q \in DOMAIN run : q # r => run'[q] = run[q]
  BY <1>1, <1>3
<1>7. /\ row.beat = run[r].beat /\ row.batch = run[r].batch /\ row.by = run[r].by
      /\ row.status = s /\ row.bought = x
  BY DEF row
<1> QED
  BY <1>4, <1>5, <1>6, <1>7 DEF SameRows

LEMMA RowsChanged ==
  ASSUME Inv, RowsChange,
         \A r \in DOMAIN run : worker'[r] = "working" => run'[r].status = "running",
         \A c \in Batches : batch[c].status # "none" => batch'[c].status # "none",
         \A u \in Users : RequestOK(u)'
  PROVE  RowsOK'
<1>1. ASSUME NEW r \in DOMAIN run PROVE RowOK(r)'
  <2>1. /\ RowOK(r) /\ Becomes(r)
        /\ run'[r].by = run[r].by /\ run'[r].batch = run[r].batch /\ run'[r].beat = run[r].beat
    BY DEF Inv, RowsOK, RowsChange, SameRows
  <2>2. /\ run'[r].status \in {"queued", "failed"} => run'[r].bought = "no"
        /\ run'[r].status \in {"running", "uncertain"} => run'[r].bought = "maybe"
        /\ run'[r].status = "completed" => run'[r].bought = "yes"
    BY <2>1 DEF RowOK, Becomes
  <2>3. ASSUME run'[r].by = "batch", NEW q \in 1..(r - 1), run'[q].beat = run'[r].beat
        PROVE  run'[q].status \notin {"queued", "running"}
    <3>1. q \in DOMAIN run
      BY Shape DEF Inv
    <3>2. run[q].beat = run[r].beat /\ Becomes(q)
      BY <2>1, <2>3, <3>1 DEF RowsChange, SameRows
    <3> QED
      BY <2>1, <2>3, <3>2 DEF RowOK, Becomes
  <2> QED
    BY <2>1, <2>2, <2>3 DEF RowOK
<1> QED
  BY <1>1 DEF RowsOK, RowsChange

\* A step on the rows and on nothing of the batches.
LEMMA RunFrame ==
  ASSUME Inv, RowsChange, RunsTypeOK', UNCHANGED batchVars,
         \A r \in DOMAIN run : worker'[r] = "working" => run'[r].status = "running",
         \A u \in Users : RequestOK(u)',
         \A u \in Users : request'[u].op = "retry" => request[u].op = "retry"
  PROVE  Inv'
<1>1. UNCHANGED <<batch, made, task, child, troubles>>
  BY DEF batchVars
<1>2. TypeOK'
  <2>1. BatchTypes'
    BY <1>1, Shape, TypesGrow DEF Inv, RowsChange, SameRows, BatchTypes
  <2> QED
    BY <2>1, TypesTogether
<1>3. RowsOK'
  BY <1>1, RowsChanged
<1>4. ItemsOK' /\ EndedIsSettled'
  BY <1>1, ItemsKept DEF RowsChange
<1>5. RoomOK'
  <2>1. \A b \in Batches, p \in Beats : Owes(b, p)' => Owes(b, p)
    BY <1>1 DEF Owes, It
  <2> QED
    BY <1>2, <2>1, RoomKept DEF RowsChange
<1> QED
  BY <1>2, <1>3, <1>4, <1>5 DEF Inv

\* The state that a step on one row starts from.
LEMMA RunState ==
  ASSUME Inv
  PROVE  /\ TypeOK /\ RunsTypeOK /\ DOMAIN run \subseteq RunIds
         /\ worker \in [RunIds -> {"none", "scheduled", "working"}]
         /\ request \in [Users -> Requests]
         /\ \A r \in DOMAIN run : run[r] \in RunRow /\ RowOK(r)
         /\ \A u \in Users : RequestOK(u)
         /\ \A u \in Users : request[u].op \in {"cancel", "cancelled", "retry"} => request[u].run \in DOMAIN run
BY Shape DEF Inv, RunsTypeOK, RowsOK

\* A step that leaves the rows alone leaves what requests wait for alone.
LEMMA RowsUnchanged ==
  ASSUME Inv, run' = run
  PROVE  RowsChange
BY Shape DEF Inv, RunsTypeOK, RowsChange, SameRows, Becomes

LEMMA ClaimStep ==
  ASSUME Inv, NEW r \in DOMAIN run, Claim(r), UNCHANGED batchVars
  PROVE  Inv' /\ RowsChange /\ \A q \in DOMAIN run : Quiet(q)
<1>1. /\ worker[r] = "scheduled" /\ UNCHANGED <<request, trashed>>
      /\ \/ /\ run[r].status = "queued" /\ run' = WithResult(r, "running")
            /\ worker' = [worker EXCEPT ![r] = "working"]
         \/ run[r].status # "queued" /\ worker' = [worker EXCEPT ![r] = "none"] /\ run' = run
  BY DEF Claim
<1>2. /\ r \in RunIds /\ \A q \in RunIds : q # r => worker'[q] = worker[q]
      /\ worker' \in [RunIds -> {"none", "scheduled", "working"}]
  BY <1>1, RunState
<1>3. CASE run' = run /\ worker' = [worker EXCEPT ![r] = "none"]
  <2>1. RowsChange
    BY <1>3, RowsUnchanged
  <2>2. worker'[r] = "none"
    BY <1>2, <1>3, RunState
  <2>3. \A q \in DOMAIN run : (worker'[q] = "working" => run'[q].status = "running") /\ Quiet(q)
    BY <1>1, <1>2, <1>3, <2>2, RunState DEF RowOK, Quiet
  <2>4. RunsTypeOK'
    BY <1>1, <1>2, <1>3, <2>2, RunState DEF RunsTypeOK
  <2>5. \A u \in Users : RequestOK(u)'
    BY <1>1, <1>3, RunState DEF RequestOK
  <2> QED
    BY <1>1, <2>1, <2>3, <2>4, <2>5, RunFrame
<1>4. CASE run[r].status = "queued" /\ run' = WithResult(r, "running") /\ worker' = [worker EXCEPT ![r] = "working"]
  <2>1. /\ run' \in Seq(RunRow) /\ Len(run') = Len(run) /\ DOMAIN run' = DOMAIN run /\ SameRows
        /\ run'[r].status = "running" /\ run'[r].bought = "maybe"
        /\ \A q \in DOMAIN run : q # r => run'[q] = run[q]
    BY <1>4, RunState, RowSaved DEF ACTIVE
  <2>2. RowsChange
    BY <1>4, <2>1 DEF RowsChange, Becomes
  <2>3. \A q \in DOMAIN run : (worker'[q] = "working" => run'[q].status = "running") /\ Quiet(q)
    BY <1>1, <1>2, <2>1, RunState DEF RowOK, Quiet
  <2>4. RunsTypeOK'
    BY <1>1, <1>2, <2>1, RunState DEF RunsTypeOK
  <2>5. ASSUME NEW u \in Users PROVE RequestOK(u)'
    BY <1>1, <1>4, <2>1, RunState DEF RequestOK
  <2> QED
    BY <1>1, <2>2, <2>3, <2>4, <2>5, RunFrame
<1> QED
  BY <1>1, <1>3, <1>4

LEMMA FinishStep ==
  ASSUME Inv, NEW r \in DOMAIN run, Finish(r), UNCHANGED batchVars
  PROVE  Inv' /\ RowsChange /\ \A q \in DOMAIN run : Quiet(q)
<1>1. /\ worker[r] = "working" /\ worker' = [worker EXCEPT ![r] = "none"] /\ UNCHANGED <<request, trashed>>
  BY DEF Finish
<1>2. PICK s \in {"completed", "failed", "uncertain"} : run' = WithResult(r, s)
  BY DEF Finish, Answers
<1>3. /\ r \in RunIds /\ worker'[r] = "none" /\ \A q \in RunIds : q # r => worker'[q] = worker[q]
      /\ worker' \in [RunIds -> {"none", "scheduled", "working"}]
      /\ run[r].status = "running"
  BY <1>1, RunState DEF RowOK
<1>4. PICK x \in {"no", "maybe", "yes"} : x = CASE s = "completed" -> "yes" [] s = "failed" -> "no" [] OTHER -> "maybe"
  OBVIOUS
<1>5. /\ run' \in Seq(RunRow) /\ Len(run') = Len(run) /\ DOMAIN run' = DOMAIN run /\ SameRows
      /\ run'[r].status = s /\ run'[r].bought = x
      /\ \A q \in DOMAIN run : q # r => run'[q] = run[q]
  BY <1>2, <1>4, RunState, RowSaved DEF Terminal, UNSAFE
<1>6. RowsChange
  BY <1>3, <1>4, <1>5 DEF RowsChange, Becomes
<1>7. \A q \in DOMAIN run : (worker'[q] = "working" => run'[q].status = "running") /\ Quiet(q)
  BY <1>1, <1>3, <1>5, RunState DEF RowOK, Quiet
<1>8. RunsTypeOK'
  BY <1>1, <1>3, <1>5, RunState DEF RunsTypeOK
<1>9. ASSUME NEW u \in Users PROVE RequestOK(u)'
  BY <1>1, <1>5, RunState DEF RequestOK
<1> QED
  BY <1>1, <1>6, <1>7, <1>8, <1>9, RunFrame

LEMMA RecoverOutputStep ==
  ASSUME Inv, NEW r \in DOMAIN run, RecoverOutput(r), UNCHANGED batchVars
  PROVE  Inv' /\ RowsChange /\ \A q \in DOMAIN run : Quiet(q)
<1>1. run[r].status = "uncertain" /\ run' = WithResult(r, "completed") /\ UNCHANGED <<worker, request, trashed>>
  BY DEF RecoverOutput
<1>2. /\ run' \in Seq(RunRow) /\ Len(run') = Len(run) /\ DOMAIN run' = DOMAIN run /\ SameRows
      /\ run'[r].status = "completed" /\ run'[r].bought = "yes"
      /\ \A q \in DOMAIN run : q # r => run'[q] = run[q]
  BY <1>1, RunState, RowSaved DEF Terminal, UNSAFE
<1>3. RowsChange
  BY <1>1, <1>2 DEF RowsChange, Becomes
<1>4. \A q \in DOMAIN run : (worker'[q] = "working" => run'[q].status = "running") /\ Quiet(q)
  BY <1>1, <1>2, RunState DEF RowOK, Quiet
<1>5. RunsTypeOK'
  BY <1>1, <1>2, RunState DEF RunsTypeOK
<1>6. ASSUME NEW u \in Users PROVE RequestOK(u)'
  BY <1>1, <1>2, RunState DEF RequestOK
<1> QED
  BY <1>1, <1>3, <1>4, <1>5, <1>6, RunFrame

LEMMA CancelSaveStep ==
  ASSUME Inv, NEW u \in Users, CancelSave(u), UNCHANGED batchVars
  PROVE  Inv' /\ RowsChange /\ \A q \in DOMAIN run : Quiet(q)
<1> DEFINE r == request[u].run
<1>1. /\ request[u].op = "cancel" /\ run' = WithStatus(r, "cancellation_requested")
      /\ worker' = [worker EXCEPT ![r] = "none"]
      /\ request' = [request EXCEPT ![u] = [op |-> "cancelled", run |-> r]]
      /\ UNCHANGED trashed
  BY DEF CancelSave, Ask
<1>2. r \in DOMAIN run /\ "cancel" \in Hazards
  BY <1>1, RunState DEF RequestOK
<1>3. /\ r \in RunIds /\ worker'[r] = "none" /\ \A q \in RunIds : q # r => worker'[q] = worker[q]
      /\ worker' \in [RunIds -> {"none", "scheduled", "working"}]
  BY <1>1, <1>2, RunState
<1>4. /\ run' \in Seq(RunRow) /\ Len(run') = Len(run) /\ DOMAIN run' = DOMAIN run /\ SameRows
      /\ run'[r].status = "cancellation_requested" /\ run'[r].bought = run[r].bought
      /\ \A q \in DOMAIN run : q # r => run'[q] = run[q]
  <2>1. run[r].bought \in {"no", "maybe", "yes"}
    BY <1>2, RunState DEF RunRow
  <2> QED
    BY <1>1, <1>2, <2>1, RunState, RowSaved DEF ACTIVE
<1>5. RowsChange
  BY <1>2, <1>4 DEF RowsChange, Becomes
<1>6. \A q \in DOMAIN run : (worker'[q] = "working" => run'[q].status = "running") /\ Quiet(q)
  BY <1>3, <1>4, RunState DEF RowOK, Quiet
<1>7. /\ request'[u] = [op |-> "cancelled", run |-> r] /\ \A v \in Users : v # u => request'[v] = request[v]
      /\ request' \in [Users -> Requests]
  <2>1. [op |-> "cancelled", run |-> r] \in Requests
    BY <1>3 DEF Requests
  <2> QED
    BY <1>1, <2>1, RunState
<1>8. RunsTypeOK'
  <2>1. \A v \in Users : request'[v].op \in {"cancel", "cancelled", "retry"} => request'[v].run \in DOMAIN run'
    BY <1>2, <1>4, <1>7, RunState
  <2>2. trashed' \in BOOLEAN
    BY <1>1, RunState DEF RunsTypeOK
  <2> QED
    BY <1>2, <1>3, <1>4, <1>7, <2>1, <2>2, RunState DEF RunsTypeOK, Requests
<1>9. \A v \in Users : RequestOK(v)'
  <2>1. RequestOK(u)'
    BY <1>2, <1>4, <1>7 DEF RequestOK
  <2>2. ASSUME NEW v \in Users, v # u PROVE RequestOK(v)'
    BY <1>4, <1>7, <2>2, RunState DEF RequestOK
  <2> QED
    BY <2>1, <2>2
<1>10. \A v \in Users : request'[v].op = "retry" => request[v].op = "retry"
  BY <1>7
<1> QED
  BY <1>5, <1>6, <1>8, <1>9, <1>10, RunFrame

LEMMA CancelFinishStep ==
  ASSUME Inv, NEW u \in Users, CancelFinish(u), UNCHANGED batchVars
  PROVE  Inv' /\ RowsChange /\ \A q \in DOMAIN run : Quiet(q)
<1> DEFINE r == request[u].run
<1>1. /\ request[u].op = "cancelled" /\ run' = MarkTerminal(r, "cancelled")
      /\ request' = [request EXCEPT ![u] = Idle] /\ UNCHANGED <<worker, trashed>>
  BY DEF CancelFinish
<1>2. r \in DOMAIN run /\ r \in RunIds /\ run[r].status \notin {"queued", "running"} /\ run[r] \in RunRow
  BY <1>1, RunState DEF RequestOK
<1>3. /\ request' \in [Users -> Requests] /\ request'[u] = Idle
      /\ \A v \in Users : v # u => request'[v] = request[v]
  BY <1>1, RunState DEF Requests, Idle
<1>4. RowsChange /\ \A q \in DOMAIN run : q # r => run'[q] = run[q]
  <2>1. CASE run[r].status \in Terminal
    BY <1>1, <2>1, RowsUnchanged DEF MarkTerminal
  <2>2. CASE run[r].status \notin Terminal
    <3>1. run' = WithStatus(r, "cancelled") /\ run[r].status \in ACTIVE /\ run[r].bought \in {"no", "maybe", "yes"}
      BY <1>1, <1>2, <2>2 DEF MarkTerminal, RunRow
    <3>2. /\ run' \in Seq(RunRow) /\ Len(run') = Len(run) /\ DOMAIN run' = DOMAIN run /\ SameRows
          /\ run'[r].status = "cancelled" /\ run'[r].bought = run[r].bought
          /\ \A q \in DOMAIN run : q # r => run'[q] = run[q]
      BY <1>2, <3>1, RunState, RowSaved DEF Terminal, UNSAFE
    <3> QED
      BY <3>1, <3>2 DEF RowsChange, Becomes
  <2> QED
    BY <2>1, <2>2
<1>5. run'[r].status \notin {"queued", "running"}
  BY <1>2, <1>4 DEF RowsChange, Becomes
<1>6. \A q \in DOMAIN run : (worker'[q] = "working" => run'[q].status = "running") /\ Quiet(q)
  BY <1>1, <1>2, <1>4, <1>5, RunState DEF RowOK, Quiet
<1>7. RunsTypeOK'
  BY <1>1, <1>3, <1>4, RunState DEF RunsTypeOK, RowsChange, Requests, Idle
<1>8. \A v \in Users : RequestOK(v)'
  <2>1. RequestOK(u)'
    BY <1>3 DEF RequestOK, Idle
  <2>2. ASSUME NEW v \in Users, v # u PROVE RequestOK(v)'
    BY <1>3, <1>4, <1>5, <2>2, RunState DEF RequestOK
  <2> QED
    BY <2>1, <2>2
<1>9. \A v \in Users : request'[v].op = "retry" => request[v].op = "retry"
  BY <1>3 DEF Idle
<1> QED
  BY <1>4, <1>6, <1>7, <1>8, <1>9, RunFrame

LEMMA CancelReadStep ==
  ASSUME Inv, "cancel" \in Hazards, NEW u \in Users, NEW r \in DOMAIN run, CancelRead(u, r), UNCHANGED batchVars
  PROVE  Inv' /\ RowsChange /\ \A q \in DOMAIN run : Quiet(q)
<1>1. request' = [request EXCEPT ![u] = [op |-> "cancel", run |-> r]] /\ UNCHANGED <<run, worker, trashed>>
  BY DEF CancelRead, Ask
<1>2. RowsChange
  BY <1>1, RowsUnchanged
<1>3. [op |-> "cancel", run |-> r] \in Requests
  BY RunState DEF Requests
<1>4. /\ request' \in [Users -> Requests] /\ request'[u] = [op |-> "cancel", run |-> r]
      /\ \A v \in Users : v # u => request'[v] = request[v]
  BY <1>1, <1>3, RunState
<1>5. \A q \in DOMAIN run : (worker'[q] = "working" => run'[q].status = "running") /\ Quiet(q)
  BY <1>1, RunState DEF RowOK, Quiet
<1>6. RunsTypeOK'
  <2>1. \A v \in Users : request'[v].op \in {"cancel", "cancelled", "retry"} => request'[v].run \in DOMAIN run'
    BY <1>1, <1>4, RunState
  <2> QED
    BY <1>1, <1>4, <2>1, RunState DEF RunsTypeOK, Requests
<1>7. \A v \in Users : RequestOK(v)'
  <2>1. RequestOK(u)'
    BY <1>4 DEF RequestOK
  <2>2. ASSUME NEW v \in Users, v # u PROVE RequestOK(v)'
    BY <1>1, <1>4, <2>2, RunState DEF RequestOK
  <2> QED
    BY <2>1, <2>2
<1>8. \A v \in Users : request'[v].op = "retry" => request[v].op = "retry"
  BY <1>4
<1> QED
  BY <1>2, <1>5, <1>6, <1>7, <1>8, RunFrame

LEMMA RestoreStep ==
  ASSUME Inv, Restore, UNCHANGED batchVars
  PROVE  Inv' /\ RowsChange /\ \A q \in DOMAIN run : Quiet(q)
<1>1. trashed' = FALSE /\ UNCHANGED <<run, worker, request>>
  BY DEF Restore
<1>2. RowsChange
  BY <1>1, RowsUnchanged
<1>3. \A q \in DOMAIN run : (worker'[q] = "working" => run'[q].status = "running") /\ Quiet(q)
  BY <1>1, RunState DEF RowOK, Quiet
<1>4. RunsTypeOK' /\ \A v \in Users : RequestOK(v)'
  BY <1>1, RunState DEF RunsTypeOK, RequestOK
<1> QED
  BY <1>1, <1>2, <1>3, <1>4, RunFrame

LEMMA RetryCheckStep ==
  ASSUME Inv, "retry" \in Hazards, UserRoom, NEW u \in Users, NEW r \in DOMAIN run, RetryCheck(u, r),
         UNCHANGED batchVars
  PROVE  Inv' /\ RowsChange /\ \A q \in DOMAIN run : Quiet(q)
<1>1. /\ request' = [request EXCEPT ![u] = [op |-> "retry", run |-> r]] /\ UNCHANGED <<run, worker, trashed>>
      /\ request[u] = Idle /\ UNCHANGED <<batch, made, task, child, troubles>>
  BY DEF RetryCheck, Ask, batchVars
<1>2. RowsChange
  BY <1>1, RowsUnchanged
<1>3. [op |-> "retry", run |-> r] \in Requests
  BY RunState DEF Requests
<1>4. /\ request' \in [Users -> Requests] /\ request'[u] = [op |-> "retry", run |-> r]
      /\ \A v \in Users : v # u => request'[v] = request[v]
  BY <1>1, <1>3, RunState
<1>5. \A q \in DOMAIN run : (worker'[q] = "working" => run'[q].status = "running") /\ Quiet(q)
  BY <1>1, RunState DEF RowOK, Quiet
<1>6. RunsTypeOK'
  <2>1. \A v \in Users : request'[v].op \in {"cancel", "cancelled", "retry"} => request'[v].run \in DOMAIN run'
    BY <1>1, <1>4, RunState
  <2> QED
    BY <1>1, <1>4, <2>1, RunState DEF RunsTypeOK, Requests
<1>7. \A v \in Users : RequestOK(v)'
  <2>1. RequestOK(u)'
    BY <1>4 DEF RequestOK
  <2>2. ASSUME NEW v \in Users, v # u PROVE RequestOK(v)'
    BY <1>1, <1>4, <2>2, RunState DEF RequestOK
  <2> QED
    BY <2>1, <2>2
<1>8. TypeOK'
  <2>1. BatchTypes'
    BY <1>1, Shape DEF Inv, BatchTypes, BatchRows, ItemRows, ChildRows
  <2> QED
    BY <1>6, <2>1, TypesTogether
<1>9. RowsOK' /\ ItemsOK' /\ EndedIsSettled'
  BY <1>1, <1>2, <1>5, <1>7, RowsChanged, ItemsKept DEF RowsChange
<1>10. RoomOK'
  <2>1. Owing' = Owing
    BY <1>1 DEF Owing, Owes, It
  <2>2. Retrying' = Retrying \cup {u} /\ u \notin Retrying
    BY <1>1, <1>4 DEF Retrying, Idle
  <2>3. Cardinality(Retrying') = Cardinality(Retrying) + 1
    BY <2>2, OwingFinite, FS_AddElement
  <2>4. Len(run) \in Nat /\ Len(run) + Cardinality(Promised) + Cardinality(Retrying) + 1 <= MaxRuns
    BY Shape DEF Inv, UserRoom, Room
  <2> QED
    BY <1>1, <2>1, <2>3, <2>4, OwingFinite, OwedIsPromised DEF RoomOK
<1> QED
  BY <1>2, <1>5, <1>8, <1>9, <1>10 DEF Inv

\* Every row is rewritten.
LEMMA RowsRewritten ==
  ASSUME TypeOK, NEW f \in [DOMAIN run -> RunRow], run' = f,
         \A r \in DOMAIN run : f[r].beat = run[r].beat /\ f[r].batch = run[r].batch /\ f[r].by = run[r].by
  PROVE  /\ run' \in Seq(RunRow) /\ Len(run') = Len(run) /\ DOMAIN run' = DOMAIN run /\ SameRows
         /\ \A r \in DOMAIN run : run'[r] = f[r]
<1>1. Len(run) \in Nat /\ DOMAIN run = 1..Len(run)
  BY Shape
<1>2. run' \in Seq(RunRow) /\ Len(run') = Len(run) /\ DOMAIN run' = DOMAIN run
  BY <1>1, FunctionIsSeq
<1> QED
  BY <1>2 DEF SameRows

LEMMA TrashFinishStep ==
  ASSUME Inv, NEW u \in Users, TrashFinish(u)
  PROVE  Inv' /\ RowsChange /\ \A q \in DOMAIN run : Quiet(q)
<1>1. /\ request[u].op = "trash" /\ request' = [request EXCEPT ![u] = Idle] /\ trashed' = TRUE
      /\ UNCHANGED batchVars
      /\ \/ run' = run /\ worker' = worker
         \/ run' = [r \in DOMAIN run |-> Cancelled(run[r])] /\ worker' = [r \in RunIds |-> "none"]
  BY DEF TrashFinish, TrashRuns
<1>2. /\ request' \in [Users -> Requests] /\ request'[u] = Idle
      /\ \A v \in Users : v # u => request'[v] = request[v]
  BY <1>1, RunState DEF Requests, Idle
<1>3. RowsChange
  <2>1. CASE run' = run
    BY <2>1, RowsUnchanged
  <2>2. CASE run' = [r \in DOMAIN run |-> Cancelled(run[r])]
    <3> DEFINE f == [r \in DOMAIN run |-> Cancelled(run[r])]
    <3>1. ASSUME NEW r \in DOMAIN run
          PROVE  /\ f[r] \in RunRow
                 /\ f[r].beat = run[r].beat /\ f[r].batch = run[r].batch /\ f[r].by = run[r].by
                 /\ \/ f[r] = run[r]
                    \/ run[r].status \in ACTIVE /\ f[r].status = "cancelled" /\ f[r].bought = run[r].bought
      BY RunState DEF Cancelled, RunRow, Terminal, UNSAFE
    <3>2. f \in [DOMAIN run -> RunRow]
      BY <3>1
    <3> HIDE DEF f
    <3>3. /\ run' \in Seq(RunRow) /\ Len(run') = Len(run) /\ DOMAIN run' = DOMAIN run /\ SameRows
          /\ \A r \in DOMAIN run : run'[r] = f[r]
      BY <2>2, <3>1, <3>2, RunState, RowsRewritten DEF f
    <3> QED
      BY <3>1, <3>3 DEF RowsChange, Becomes
  <2> QED
    BY <1>1, <2>1, <2>2
<1>4. \A q \in DOMAIN run : (worker'[q] = "working" => run'[q].status = "running") /\ Quiet(q)
  <2>1. CASE run' = run /\ worker' = worker
    BY <2>1, RunState DEF RowOK, Quiet
  <2>2. CASE worker' = [r \in RunIds |-> "none"] /\ run' = [r \in DOMAIN run |-> Cancelled(run[r])]
    BY <2>2, RunState DEF Quiet, Cancelled
  <2> QED
    BY <1>1, <2>1, <2>2
<1>5. RunsTypeOK'
  <2>1. worker' \in [RunIds -> {"none", "scheduled", "working"}] /\ \A r \in RunIds : worker'[r] # "none" => r \in DOMAIN run'
    BY <1>1, <1>3, RunState DEF RunsTypeOK, RowsChange
  <2>2. \A v \in Users : request'[v].op \in {"cancel", "cancelled", "retry"} => request'[v].run \in DOMAIN run'
    BY <1>2, <1>3, RunState DEF RowsChange, Idle
  <2> QED
    BY <1>1, <1>2, <1>3, <2>1, <2>2, RunState DEF RunsTypeOK, RowsChange, Requests
<1>6. \A v \in Users : RequestOK(v)'
  <2>1. RequestOK(u)'
    BY <1>2 DEF RequestOK, Idle
  <2>2. ASSUME NEW v \in Users, v # u PROVE RequestOK(v)'
    BY <1>2, <1>3, <2>2, RunState DEF RequestOK, RowsChange, Becomes
  <2> QED
    BY <2>1, <2>2
<1>7. \A v \in Users : request'[v].op = "retry" => request[v].op = "retry"
  BY <1>2 DEF Idle
<1> QED
  BY <1>1, <1>3, <1>4, <1>5, <1>6, <1>7, RunFrame

-----------------------------------------------------------------------------
(* The steps of a task, and the requests about a batch *)

LEMMA BatchSaved ==
  ASSUME BatchTypes, NEW b \in Batches, NEW row \in BatchRows, batch' = [batch EXCEPT ![b] = row]
  PROVE  /\ batch' \in [Batches -> BatchRows] /\ batch'[b] = row
         /\ \A c \in Batches : c # b => batch'[c] = batch[c]
         /\ \A p \in Beats : It(b, p)' = row.item[p]
BY DEF BatchTypes, It

\* A step of one task, or a request about one batch, with no change of the rows.
LEMMA BatchFrame ==
  ASSUME Inv, NEW b \in Batches, UNCHANGED <<run, worker, request, trashed>>,
         BatchTypes',
         \A c \in Batches : c # b => batch'[c] = batch[c] /\ task'[c] = task[c] /\ child'[c] = child[c],
         batch'[b].status # "none",
         BatchOK(b)', \A p \in Beats : ItemOK(b, p)',
         batch'[b].status \in {"completed", "partial", "cancelled"}
           => \A p \in Beats : It(b, p)'.status \notin {"pending", "running"},
         batch'[b].status = "completed" => \A p \in Beats : It(b, p)'.status \in {"completed", "skipped"},
         RoomOK'
  PROVE  Inv'
<1>1. TypeOK'
  <2>1. RunsTypeOK'
    BY RunState DEF RunsTypeOK
  <2> QED
    BY <2>1, TypesTogether
<1>2. RowsOK'
  <2>1. \A u \in Users : RequestOK(u)'
    BY RunState DEF RequestOK
  <2>2. \A c \in Batches : batch[c].status # "none" => batch'[c].status # "none"
    OBVIOUS
  <2> QED
    BY <2>1, <2>2, RowsSame
<1>3. \A c \in Batches, q \in Beats : c # b => It(c, q)' = It(c, q)
  BY DEF It
<1>4. ItemsOK'
  <2>1. ASSUME NEW c \in Batches, c # b PROVE BatchOK(c)'
    BY <1>3, <2>1 DEF Inv, ItemsOK, BatchOK
  <2>2. ASSUME NEW c \in Batches, NEW q \in Beats, c # b PROVE ItemOK(c, q)'
    BY <1>3, <2>2 DEF Inv, ItemsOK, ItemOK
  <2> QED
    BY <2>1, <2>2 DEF ItemsOK
<1>5. EndedIsSettled'
  BY <1>3 DEF Inv, EndedIsSettled
<1> QED
  BY <1>1, <1>2, <1>4, <1>5 DEF Inv

LEMMA RoomInFrame ==
  ASSUME Inv, NEW b \in Batches, UNCHANGED <<run, request>>, BatchTypes',
         \A c \in Batches : c # b => batch'[c] = batch[c] /\ task'[c] = task[c] /\ child'[c] = child[c],
         \A p \in Beats : Owes(b, p)' => Owes(b, p)
  PROVE  RoomOK'
<1>1. \A c \in Batches, p \in Beats : Owes(c, p)' => Owes(c, p)
  BY DEF Owes, It
<1>2. Owing' \subseteq Owing /\ Retrying' = Retrying
  BY <1>1 DEF Owing, Retrying
<1>3. Cardinality(Owing') <= Cardinality(Owing) /\ Cardinality(Owing') \in Nat
  BY <1>2, OwingFinite, FS_Subset, FS_CardinalityType
<1> QED
  BY <1>2, <1>3, OwingFinite, Shape DEF Inv, RoomOK

LEMMA TaskStartStep ==
  ASSUME Inv, NEW b \in Batches, TaskStart(b)
  PROVE  Inv'
<1> DEFINE kids == [p \in Beats |-> IF It(b, p).status \in {"pending", "running"}
                                    THEN [at |-> "waiting", run |-> It(b, p).run] ELSE NoChild]
<1>1. /\ task[b] = "scheduled" /\ task' = [task EXCEPT ![b] = "running"] /\ child' = [child EXCEPT ![b] = kids]
      /\ UNCHANGED <<run, worker, request, trashed, batch, made, troubles>>
  BY DEF TaskStart, runVars
<1>2. BatchTypes /\ BatchOK(b) /\ \A p \in Beats : ItemOK(b, p) /\ It(b, p) \in ItemRows
  BY Shape DEF Inv, ItemsOK
<1>3. kids \in [Beats -> ChildRows]
  BY <1>2 DEF ItemRows, ChildRows, NoChild
<1>4. \A p \in Beats : kids[p] = IF It(b, p).status \in {"pending", "running"}
                                 THEN [at |-> "waiting", run |-> It(b, p).run] ELSE NoChild
  OBVIOUS
<1> HIDE DEF kids
<1>5. /\ task' \in [Batches -> TaskStates] /\ task'[b] = "running"
      /\ child' \in [Batches -> [Beats -> ChildRows]] /\ child'[b] = kids
      /\ \A c \in Batches : c # b => task'[c] = task[c] /\ child'[c] = child[c]
  BY <1>1, <1>2, <1>3 DEF BatchTypes, TaskStates
<1>6. BatchTypes'
  BY <1>1, <1>2, <1>5 DEF BatchTypes, BatchRows, ItemRows, ChildRows
<1>7. batch[b].status \in OPEN
  BY <1>1, <1>2 DEF BatchOK
<1>8. \A p \in Beats : It(b, p)' = It(b, p)
  BY <1>1 DEF It
<1>9. BatchOK(b)'
  BY <1>1, <1>2, <1>4, <1>5, <1>7, <1>8 DEF BatchOK, OPEN
<1>10. ASSUME NEW p \in Beats PROVE ItemOK(b, p)'
  BY <1>1, <1>2, <1>4, <1>5, <1>8 DEF ItemOK, NoChild
<1>11. RoomOK'
  <2>1. \A p \in Beats : Owes(b, p)' => Owes(b, p)
    BY <1>1, <1>8 DEF Owes
  <2> QED
    BY <1>1, <1>5, <1>6, <2>1, RoomInFrame
<1> QED
  BY <1>1, <1>5, <1>6, <1>7, <1>8, <1>9, <1>10, <1>11, BatchFrame DEF OPEN

LEMMA EndStep ==
  ASSUME Inv, NEW b \in Batches, NEW s \in BatchStatus \ (OPEN \cup {"none"}), NEW items \in [Beats -> ItemRows],
         task[b] # "none", EndTask(b, s, items), UNCHANGED <<run, worker, request, trashed, made>>,
         child' \in [Batches -> [Beats -> ChildRows]], \A c \in Batches : c # b => child'[c] = child[c],
         \A p \in Beats : child'[b][p] = NoChild,
         troubles' \in 0..MaxTroubles,
         \A p \in Beats : items[p] = It(b, p) \/ items[p] = Broken(It(b, p)),
         s # "interrupted" => \A p \in Beats : items[p].status \notin {"pending", "running"},
         s = "completed" => \A p \in Beats : items[p].status \in {"completed", "skipped"}
  PROVE  Inv'
<1> DEFINE row == [status |-> s, item |-> items]
<1>1. BatchTypes /\ BatchOK(b) /\ \A p \in Beats : ItemOK(b, p) /\ It(b, p) \in ItemRows
  BY Shape DEF Inv, ItemsOK
<1>2. row \in BatchRows /\ batch' = [batch EXCEPT ![b] = row] /\ task' = [task EXCEPT ![b] = "none"]
  BY DEF BatchRows, EndTask
<1>3. /\ batch' \in [Batches -> BatchRows] /\ batch'[b] = row
      /\ \A c \in Batches : c # b => batch'[c] = batch[c]
      /\ \A p \in Beats : It(b, p)' = items[p]
  <2>1. row.item = items
    OBVIOUS
  <2> HIDE DEF row
  <2>2. \A p \in Beats : It(b, p)' = row.item[p]
    BY <1>1, <1>2, BatchSaved
  <2>3. batch' \in [Batches -> BatchRows] /\ batch'[b] = row /\ \A c \in Batches : c # b => batch'[c] = batch[c]
    BY <1>1, <1>2, BatchSaved
  <2> QED
    BY <2>1, <2>2, <2>3
<1>4. task' \in [Batches -> TaskStates] /\ task'[b] = "none" /\ \A c \in Batches : c # b => task'[c] = task[c]
  BY <1>1, <1>2 DEF BatchTypes, TaskStates
<1>5. BatchTypes'
  BY <1>1, <1>3, <1>4 DEF BatchTypes, BatchRows, ItemRows, ChildRows
<1>6. batch'[b].status = s
  BY <1>3
<1>7. BatchOK(b)'
  BY <1>3, <1>4, <1>6 DEF BatchOK, OPEN, NoChild
<1>8. ASSUME NEW p \in Beats PROVE ItemOK(b, p)'
  <2>1. ItemOK(b, p) /\ It(b, p) \in ItemRows
    BY <1>1
  <2>2. /\ items[p].run = It(b, p).run
        /\ items[p].status = "pending" => It(b, p).status = "pending"
        /\ items[p].status = "running" => It(b, p).status = "running"
    BY DEF Broken, Item
  <2> QED
    BY <1>3, <2>1, <2>2 DEF ItemOK, NoChild
<1>9. RoomOK'
  <2>1. \A p \in Beats : ~ Owes(b, p)'
    BY <1>6 DEF Owes, OPEN
  <2> QED
    BY <1>3, <1>4, <1>5, <2>1, RoomInFrame
<1> QED
  BY <1>3, <1>4, <1>5, <1>6, <1>7, <1>8, <1>9, BatchFrame DEF BatchStatus

LEMMA TaskFinishStep ==
  ASSUME Inv, NEW b \in Batches, TaskFinish(b)
  PROVE  Inv'
<1> DEFINE items == batch[b].item
           s == FinalStatus(items)
<1>1. /\ task[b] = "running" /\ Childless(b) /\ EndTask(b, s, items)
      /\ UNCHANGED <<run, worker, request, trashed, made, child, troubles>>
  BY DEF TaskFinish, runVars
<1>2. /\ BatchTypes /\ BatchOK(b) /\ items \in [Beats -> ItemRows]
      /\ \A p \in Beats : items[p] = It(b, p) /\ It(b, p) \in ItemRows
  BY Shape DEF Inv, ItemsOK, BatchRows, It
<1>3. \A p \in Beats : items[p].status \notin {"pending", "running"}
  BY <1>1, <1>2 DEF BatchOK, Childless, NoChild
<1>4. s \in {"completed", "partial", "cancelled"}
  BY DEF FinalStatus
<1>5. s = "completed" => \A p \in Beats : items[p].status \in {"completed", "skipped"}
  <2>1. ASSUME NEW p \in Beats, items[p].status \in {"failed", "unknown", "cancelled"} PROVE s # "completed"
    BY <2>1 DEF FinalStatus
  <2> QED
    BY <1>2, <1>3, <2>1 DEF ItemRows, ItemStatus
<1>6. /\ child' \in [Batches -> [Beats -> ChildRows]] /\ \A c \in Batches : c # b => child'[c] = child[c]
      /\ \A p \in Beats : child'[b][p] = NoChild
      /\ troubles' \in 0..MaxTroubles
  BY <1>1, <1>2 DEF BatchTypes, Childless
<1> HIDE DEF s, items
<1> QED
  BY <1>1, <1>2, <1>3, <1>4, <1>5, <1>6, EndStep DEF BatchStatus, OPEN

LEMMA TaskInterruptedStep ==
  ASSUME Inv, NEW b \in Batches, TaskInterrupted(b)
  PROVE  Inv'
<1> DEFINE items == batch[b].item
<1>1. /\ task[b] = "cancelling" /\ EndTask(b, "interrupted", items)
      /\ UNCHANGED <<run, worker, request, trashed, made, child, troubles>>
  BY DEF TaskInterrupted, runVars
<1>2. /\ BatchTypes /\ BatchOK(b) /\ items \in [Beats -> ItemRows] /\ \A p \in Beats : items[p] = It(b, p)
  BY Shape DEF Inv, ItemsOK, BatchRows, It
<1>3. /\ child' \in [Batches -> [Beats -> ChildRows]] /\ \A c \in Batches : c # b => child'[c] = child[c]
      /\ \A p \in Beats : child'[b][p] = NoChild
      /\ troubles' \in 0..MaxTroubles
  BY <1>1, <1>2 DEF BatchTypes, BatchOK
<1> HIDE DEF items
<1> QED
  BY <1>1, <1>2, <1>3, EndStep DEF BatchStatus, OPEN

LEMMA TaskFailsStep ==
  ASSUME Inv, NEW b \in Batches, TaskFails(b)
  PROVE  Inv'
<1> DEFINE items == [p \in Beats |-> Broken(It(b, p))]
           none == [p \in Beats |-> NoChild]
<1>1. /\ task[b] = "running" /\ EndTask(b, "interrupted", items) /\ child' = [child EXCEPT ![b] = none]
      /\ UNCHANGED <<run, worker, request, trashed, made>>
  BY DEF TaskFails, runVars
<1>2. /\ BatchTypes /\ \A p \in Beats : It(b, p) \in ItemRows
  BY Shape DEF Inv
<1>3. items \in [Beats -> ItemRows] /\ \A p \in Beats : items[p] = Broken(It(b, p))
  BY <1>2 DEF Broken, Item, ItemRows, ItemStatus
<1>4. none \in [Beats -> ChildRows] /\ \A p \in Beats : none[p] = NoChild
  BY DEF NoChild, ChildRows
<1> HIDE DEF none
<1>5. /\ child' \in [Batches -> [Beats -> ChildRows]] /\ \A c \in Batches : c # b => child'[c] = child[c]
      /\ \A p \in Beats : child'[b][p] = NoChild
  BY <1>1, <1>2, <1>4 DEF BatchTypes
<1>6. troubles' \in 0..MaxTroubles
  BY TroubleCounted DEF TaskFails
<1> HIDE DEF items
<1> QED
  BY <1>1, <1>3, <1>5, <1>6, EndStep DEF BatchStatus, OPEN

LEMMA StopStep ==
  ASSUME Inv, NEW b \in Batches, Stop(b)
  PROVE  Inv'
<1> DEFINE items == [p \in Beats |-> IF p \in Pending(b) THEN Item("cancelled", It(b, p).run) ELSE It(b, p)]
           row == [status |-> "stopping", item |-> items]
<1>1. /\ LockFree(b) /\ batch[b].status = "running" /\ batch' = [batch EXCEPT ![b] = row]
      /\ UNCHANGED <<run, worker, request, trashed, made, task, child, troubles>>
  BY DEF Stop, runVars
<1>2. BatchTypes /\ BatchOK(b) /\ \A p \in Beats : ItemOK(b, p) /\ It(b, p) \in ItemRows
  BY Shape DEF Inv, ItemsOK
<1>3. \A p \in Beats : /\ It(b, p).status = "pending" => items[p].status = "cancelled" /\ items[p].run = It(b, p).run
                       /\ It(b, p).status # "pending" => items[p] = It(b, p)
  BY DEF Pending, Item
<1>4. items \in [Beats -> ItemRows]
  BY <1>2 DEF Item, ItemRows, ItemStatus
<1> HIDE DEF items
<1>5. row \in BatchRows /\ row.item = items /\ row.status = "stopping"
  BY <1>4 DEF BatchRows, BatchStatus, OPEN
<1> HIDE DEF row
<1>6. /\ batch' \in [Batches -> BatchRows] /\ batch'[b] = row
      /\ \A c \in Batches : c # b => batch'[c] = batch[c]
  BY <1>1, <1>2, <1>5, BatchSaved
<1>7. \A p \in Beats : It(b, p)' = items[p]
  BY <1>5, <1>6 DEF It
<1>8. BatchTypes'
  BY <1>1, <1>2, <1>6 DEF BatchTypes, BatchRows, ItemRows, ChildRows
<1>9. BatchOK(b)'
  <2>1. \A p \in Beats : child'[b][p] = child[b][p] /\ child[b][p].at # "checked"
    BY <1>1 DEF LockFree
  <2> QED
    BY <1>1, <1>2, <1>3, <1>5, <1>6, <1>7, <2>1 DEF BatchOK, OPEN
<1>10. ASSUME NEW p \in Beats PROVE ItemOK(b, p)'
  <2>1. ItemOK(b, p) /\ It(b, p) \in ItemRows /\ child[b][p].at \notin {"checked", "enqueued"}
    BY <1>1, <1>2 DEF LockFree
  <2>2. /\ items[p].run = It(b, p).run
        /\ items[p].status # "pending"
        /\ It(b, p).status # "pending" => items[p] = It(b, p)
        /\ items[p].status = "running" => It(b, p).status = "running"
    BY <1>3
  <2> QED
    BY <1>1, <1>7, <2>1, <2>2 DEF ItemOK
<1>11. RoomOK'
  <2>1. \A p \in Beats : ~ Owes(b, p)'
    BY <1>5, <1>6 DEF Owes
  <2> QED
    BY <1>1, <1>6, <1>8, <2>1, RoomInFrame
<1> QED
  BY <1>1, <1>5, <1>6, <1>8, <1>9, <1>10, <1>11, BatchFrame

\* A batch is made, or resumed, with room for what it may insert.
LEMMA StartStep ==
  ASSUME Inv, NEW b \in Batches, NEW items \in [Beats -> ItemRows], batch[b].status \notin OPEN,
         batch' = [batch EXCEPT ![b] = [status |-> "running", item |-> items]],
         task' = [task EXCEPT ![b] = "scheduled"], made' \in Seq(Batches),
         UNCHANGED <<run, worker, request, trashed, child, troubles>>,
         \A p \in Beats : /\ items[p].status = "pending" => items[p].run = 0
                          /\ items[p].status = "running" => items[p].run # 0
                          /\ items[p].run # 0 => run[items[p].run].beat = p,
         NEW n, n = Cardinality({p \in Beats : items[p].status = "pending"}), Room(n)
  PROVE  Inv' /\ task[b] = "none" /\ batch'[b].status = "running" /\ \A p \in Beats : It(b, p)' = items[p]
<1> DEFINE row == [status |-> "running", item |-> items]
           due == {p \in Beats : items[p].status = "pending"}
<1>1. BatchTypes /\ BatchOK(b) /\ \A p \in Beats : ItemOK(b, p)
  BY Shape DEF Inv, ItemsOK
<1>2. row \in BatchRows /\ row.item = items /\ row.status = "running"
  BY DEF BatchRows, BatchStatus, OPEN
<1> HIDE DEF row
<1>3. /\ batch' \in [Batches -> BatchRows] /\ batch'[b] = row /\ \A c \in Batches : c # b => batch'[c] = batch[c]
  BY <1>1, <1>2, BatchSaved DEF row
<1>4. \A p \in Beats : It(b, p)' = items[p]
  BY <1>2, <1>3 DEF It
<1>5. task' \in [Batches -> TaskStates] /\ task'[b] = "scheduled" /\ \A c \in Batches : c # b => task'[c] = task[c]
  BY <1>1 DEF BatchTypes, TaskStates
<1>6. BatchTypes'
  BY <1>1, <1>3, <1>5 DEF BatchTypes, BatchRows, ItemRows, ChildRows
<1>7. task[b] = "none" /\ \A p \in Beats : child[b][p] = NoChild
  BY <1>1 DEF BatchOK
<1>8. BatchOK(b)'
  BY <1>2, <1>3, <1>5, <1>7 DEF BatchOK, OPEN
<1>9. ASSUME NEW p \in Beats PROVE ItemOK(b, p)'
  BY <1>4, <1>7 DEF ItemOK, NoChild
<1>10. RoomOK'
  <2>1. Owing' \subseteq Owing \cup ({b} \X due)
    <3>1. ASSUME NEW c \in Batches, NEW p \in Beats, Owes(c, p)'
          PROVE  Owes(c, p) \/ (c = b /\ p \in due)
      BY <1>3, <1>4, <1>5, <3>1 DEF Owes, It
    <3> QED
      BY <3>1 DEF Owing
  <2>2. IsFiniteSet(due) /\ Cardinality(due) \in Nat
    BY FS_Subset, FS_CardinalityType
  <2> HIDE DEF due
  <2>3. IsFiniteSet({b} \X due) /\ Cardinality({b} \X due) = Cardinality(due)
    <3>1. IsFiniteSet({b}) /\ Cardinality({b}) = 1
      BY FS_Singleton
    <3>2. IsFiniteSet({b} \X due) /\ Cardinality({b} \X due) = Cardinality({b}) * Cardinality(due)
      BY <2>2, <3>1, FS_Product
    <3> QED
      BY <2>2, <3>1, <3>2
  <2>4. /\ IsFiniteSet(Owing \cup ({b} \X due))
        /\ Cardinality(Owing \cup ({b} \X due)) <= Cardinality(Owing) + Cardinality(due)
    <3> DEFINE both == Owing \cap ({b} \X due)
    <3>1. Cardinality(both) \in Nat
      BY OwingFinite, FS_Subset, FS_CardinalityType
    <3>2. Cardinality(Owing \cup ({b} \X due)) = Cardinality(Owing) + Cardinality({b} \X due) - Cardinality(both)
      BY <2>3, OwingFinite, FS_Union
    <3>3. IsFiniteSet(Owing \cup ({b} \X due))
      BY <2>3, OwingFinite, FS_Union
    <3> HIDE DEF both
    <3> QED
      BY <2>2, <2>3, <3>1, <3>2, <3>3, OwingFinite
  <2>5. Cardinality(Owing') <= Cardinality(Owing) + Cardinality(due) /\ Cardinality(Owing') \in Nat
    <3>1. Cardinality(Owing') <= Cardinality(Owing \cup ({b} \X due)) /\ Cardinality(Owing') \in Nat
      BY <2>1, <2>4, FS_Subset, FS_CardinalityType
    <3>2. Cardinality(Owing \cup ({b} \X due)) \in Nat
      BY <2>4, FS_CardinalityType
    <3> QED
      BY <2>2, <2>4, <3>1, <3>2, OwingFinite
  <2>6. Len(run) \in Nat /\ Len(run) + Cardinality(Promised) + Cardinality(Retrying) + Cardinality(due) <= MaxRuns
    BY Shape DEF Inv, Room, due
  <2>7. Retrying' = Retrying
    BY DEF Retrying
  <2> QED
    BY <2>2, <2>5, <2>6, <2>7, OwingFinite, OwedIsPromised DEF RoomOK
<1>11. batch'[b].status = "running"
  BY <1>2, <1>3
<1> QED
  BY <1>3, <1>4, <1>5, <1>6, <1>7, <1>8, <1>9, <1>10, <1>11, BatchFrame

\* What preview says of a picture names a run of that picture.
LEMMA FreshItem ==
  ASSUME TypeOK, NEW p \in Beats, NEW w \in {"pending", "failed", "skipped"}
  PROVE  LET i == Fresh(p, w)
         IN  /\ i \in ItemRows
             /\ Live(p) # {} => /\ i.status = "running" /\ i.run \in Live(p) /\ i.run # 0
                                /\ \A q \in Live(p) : i.run <= q
             /\ Live(p) = {} => \/ i.status = "unknown" /\ i.run \in Of(p) /\ i.run # 0
                                \/ i = Item(w, 0)
             /\ i.run # 0 => run[i.run].beat = p
<1>1. /\ Len(run) \in Nat /\ DOMAIN run = 1..Len(run)
      /\ Live(p) \in SUBSET (1..Len(run)) /\ Of(p) \in SUBSET (1..Len(run))
  BY Shape DEF Live, Of
<1>2. CASE Live(p) # {}
  <2>1. First(Live(p)) \in Live(p) /\ \A q \in Live(p) : First(Live(p)) <= q
    BY <1>1, <1>2, FirstLast
  <2>2. Fresh(p, w) = Item("running", First(Live(p)))
    BY <1>2 DEF Fresh
  <2>3. First(Live(p)) \in DOMAIN run /\ First(Live(p)) # 0 /\ run[First(Live(p))].beat = p
    BY <1>1, <2>1 DEF Live, Of
  <2> QED
    BY <1>2, <2>1, <2>2, <2>3 DEF Item, ItemRows, ItemStatus
<1>3. CASE Live(p) = {} /\ Of(p) # {} /\ run[Last(Of(p))].status \in UNSAFE
  <2>1. Last(Of(p)) \in Of(p)
    BY <1>1, <1>3, FirstLast
  <2>2. Fresh(p, w) = Item("unknown", Last(Of(p)))
    BY <1>3 DEF Fresh
  <2>3. Last(Of(p)) \in DOMAIN run /\ Last(Of(p)) # 0 /\ run[Last(Of(p))].beat = p
    BY <1>1, <2>1 DEF Of
  <2> QED
    BY <1>3, <2>1, <2>2, <2>3 DEF Item, ItemRows, ItemStatus
<1>4. CASE Live(p) = {} /\ ~ (Of(p) # {} /\ run[Last(Of(p))].status \in UNSAFE)
  <2>1. Fresh(p, w) = Item(w, 0)
    BY <1>4 DEF Fresh
  <2> QED
    BY <1>4, <2>1 DEF Item, ItemRows, ItemStatus
<1> QED
  BY <1>2, <1>3, <1>4

LEMMA ResumedItemOK ==
  ASSUME Inv, NEW b \in Batches, NEW p \in Beats, NEW w \in {"pending", "failed", "skipped", "gone"}
  PROVE  LET i == It(b, p)
             j == ResumedItem(b, p, w)
         IN  /\ j \in ItemRows
             /\ j.status = "pending" => j.run = 0
             /\ j.status = "running" => j.run # 0
             /\ j.run # 0 => run[j.run].beat = p
             /\ i.status \in {"completed", "skipped"} => j = i
             /\ i.run # 0 /\ j.run # i.run => run[i.run].status = "failed" /\ i.status # "unknown"
             /\ i.run # 0 /\ run[i.run].status = "failed" /\ i.status = "unknown" => j.status = "unknown"
             /\ i.run = 0 /\ i.status \notin {"completed", "skipped"} => j = Fresh(p, w) \/ j = Item("skipped", 0)
<1> DEFINE i == It(b, p)
           j == ResumedItem(b, p, w)
<1>1. /\ i \in ItemRows /\ ItemOK(b, p) /\ TypeOK /\ i.run \in {0} \cup DOMAIN run
      /\ i.run # 0 => run[i.run] \in RunRow /\ run[i.run].beat = p
  <2>1. i \in ItemRows /\ ItemOK(b, p) /\ TypeOK
    BY Shape DEF Inv, ItemsOK
  <2>2. i.run \in {0} \cup DOMAIN run
    BY <2>1 DEF ItemRows
  <2> QED
    BY <2>1, <2>2, RunState DEF ItemOK
<1>2. CASE i.status \in {"completed", "skipped"}
  <2>1. j = i
    BY <1>2 DEF ResumedItem
  <2> QED
    BY <1>1, <1>2, <2>1
<1>3. CASE i.status \notin {"completed", "skipped"} /\ i.run # 0 /\ run[i.run].status \in ACTIVE \cup UNSAFE \cup {"completed"}
  <2>1. j \in {Item("completed", i.run), Item("running", i.run), Item("unknown", i.run)}
    BY <1>3 DEF ResumedItem
  <2>2. j.run = i.run /\ j.status \in {"completed", "running", "unknown"} /\ j \in ItemRows
    BY <1>1, <2>1 DEF Item, ItemRows, ItemStatus
  <2>3. run[i.run].status # "failed"
    BY <1>3 DEF ACTIVE, UNSAFE
  <2> QED
    BY <1>1, <1>3, <2>2, <2>3
<1>4. CASE i.status = "unknown" /\ i.run # 0 /\ run[i.run].status \notin ACTIVE \cup UNSAFE \cup {"completed"}
  <2>1. j = Item("unknown", i.run)
    BY <1>4 DEF ResumedItem
  <2>2. j.run = i.run /\ j.status = "unknown" /\ j \in ItemRows
    BY <1>1, <2>1 DEF Item, ItemRows, ItemStatus
  <2> QED
    BY <1>1, <1>4, <2>2
<1>5. CASE /\ i.status \notin {"completed", "skipped"}
           /\ i.run # 0 => i.status # "unknown" /\ run[i.run].status \notin ACTIVE \cup UNSAFE \cup {"completed"}
  <2>1. i.run # 0 => run[i.run].status = "failed"
    BY <1>1, <1>5 DEF RunRow, Terminal
  <2>2. j = IF w = "gone" THEN Item("skipped", i.run) ELSE Fresh(p, w)
    BY <1>5 DEF ResumedItem
  <2>3. CASE w = "gone"
    <3>1. j = Item("skipped", i.run) /\ j.run = i.run /\ j.status = "skipped" /\ j \in ItemRows
      BY <1>1, <2>2, <2>3 DEF Item, ItemRows, ItemStatus
    <3> QED
      BY <1>1, <1>5, <2>1, <3>1
  <2>4. CASE w # "gone"
    <3>1. j = Fresh(p, w) /\ w \in {"pending", "failed", "skipped"}
      BY <2>2, <2>4
    <3>2. /\ j \in ItemRows
          /\ j.run # 0 => run[j.run].beat = p
          /\ (j.status = "running" /\ j.run # 0) \/ j.status = "unknown" \/ j = Item(w, 0)
      BY <1>1, <3>1, FreshItem
    <3>3. j.status = "pending" => j.run = 0
      BY <3>1, <3>2 DEF Item
    <3>4. j.status = "running" => j.run # 0
      BY <3>1, <3>2 DEF Item
    <3>5. i.status = "unknown" => i.run = 0
      BY <1>5
    <3>6. i.status \notin {"completed", "skipped"}
      BY <1>5
    <3>7. i.run # 0 /\ j.run # i.run => run[i.run].status = "failed" /\ i.status # "unknown"
      BY <2>1, <3>5
    <3>8. i.run = 0 /\ i.status \notin {"completed", "skipped"} => j = Fresh(p, w) \/ j = Item("skipped", 0)
      BY <3>1
    <3>9. j \in ItemRows /\ (j.run # 0 => run[j.run].beat = p)
      BY <3>2
    <3> HIDE DEF i, j
    <3>10. i.run # 0 /\ run[i.run].status = "failed" /\ i.status = "unknown" => j.status = "unknown"
      BY <3>5
    <3>11. i.status \in {"completed", "skipped"} => j = i
      BY <3>6
    <3> USE DEF i, j
    <3> QED
      BY <3>3, <3>4, <3>7, <3>8, <3>9, <3>10, <3>11
  <2> QED
    BY <2>3, <2>4
<1> QED
  BY <1>2, <1>3, <1>4, <1>5

LEMMA ResumeStep ==
  ASSUME Inv, NEW b \in Batches, NEW want \in Wants, Resume(b, want)
  PROVE  /\ Inv' /\ UNCHANGED <<run, worker, child>> /\ batch[b].status \notin OPEN \cup {"none"}
         /\ task[b] = "none" /\ batch'[b].status = "running"
         /\ \A p \in Beats : It(b, p)' = ResumedItem(b, p, want[p])
         /\ \A c \in Batches : c # b => batch'[c] = batch[c] /\ task'[c] = task[c]
<1> DEFINE items == [p \in Beats |-> ResumedItem(b, p, want[p])]
<1>1. /\ batch[b].status \notin OPEN \cup {"none"}
      /\ Room(Cardinality({p \in Beats : items[p].status = "pending"}))
      /\ batch' = [batch EXCEPT ![b] = [status |-> "running", item |-> items]]
      /\ task' = [task EXCEPT ![b] = IF @ = "none" THEN "scheduled" ELSE @]
      /\ UNCHANGED <<run, worker, request, trashed, made, child, troubles>>
  BY DEF Resume, runVars
<1>2. \A p \in Beats : want[p] \in {"pending", "failed", "skipped", "gone"} /\ items[p] = ResumedItem(b, p, want[p])
  BY DEF Wants
<1> HIDE DEF items
<1>3. \A p \in Beats : /\ items[p] \in ItemRows
                       /\ items[p].status = "pending" => items[p].run = 0
                       /\ items[p].status = "running" => items[p].run # 0
                       /\ items[p].run # 0 => run[items[p].run].beat = p
  BY <1>2, ResumedItemOK
<1>4. items \in [Beats -> ItemRows]
  BY <1>3 DEF items
<1>5. BatchTypes /\ BatchOK(b)
  BY Shape DEF Inv, ItemsOK
<1>6. task[b] = "none" /\ task' = [task EXCEPT ![b] = "scheduled"] /\ made' \in Seq(Batches)
  BY <1>1, <1>5 DEF BatchOK, BatchTypes
<1>7. Inv' /\ batch'[b].status = "running" /\ \A p \in Beats : It(b, p)' = items[p]
  <2>1. batch[b].status \notin OPEN
    BY <1>1
  <2>2. PICK n : n = Cardinality({p \in Beats : items[p].status = "pending"}) /\ Room(n)
    BY <1>1
  <2>3. batch' = [batch EXCEPT ![b] = [status |-> "running", item |-> items]]
    BY <1>1
  <2>4. UNCHANGED <<run, worker, request, trashed, child, troubles>>
    BY <1>1
  <2> QED
    BY <1>3, <1>4, <1>6, <2>1, <2>2, <2>3, <2>4, StartStep DEF OPEN
<1>8. \A c \in Batches : c # b => batch'[c] = batch[c] /\ task'[c] = task[c]
  BY <1>1, <1>5, <1>6 DEF BatchTypes
<1> QED
  BY <1>1, <1>2, <1>6, <1>7, <1>8

LEMMA CreateStep ==
  ASSUME Inv, NEW b \in Batches, NEW want \in Wants, Create(b, want)
  PROVE  /\ Inv' /\ UNCHANGED <<run, worker, child>> /\ batch[b].status = "none"
         /\ \A c \in Batches : c # b => batch'[c] = batch[c] /\ task'[c] = task[c]
<1> DEFINE items == [p \in Beats |-> Fresh(p, want[p])]
<1>1. /\ batch[b].status = "none" /\ \A p \in Beats : items[p].status \in {"pending", "skipped"}
      /\ Room(Cardinality({p \in Beats : items[p].status = "pending"}))
      /\ batch' = [batch EXCEPT ![b] = [status |-> "running", item |-> items]]
      /\ task' = [task EXCEPT ![b] = "scheduled"] /\ made' = Append(made, b)
      /\ UNCHANGED <<run, worker, request, trashed, child, troubles>>
  BY DEF Create, runVars
<1>2. BatchTypes /\ TypeOK
  BY Shape DEF Inv
<1>3. \A p \in Beats : items[p] \in ItemRows /\ items[p].run = 0
  <2>1. ASSUME NEW p \in Beats PROVE items[p] = Item(want[p], 0) /\ want[p] \in {"pending", "skipped"}
    <3>1. want[p] \in {"pending", "failed", "skipped", "gone"} /\ Fresh(p, want[p]).status \in {"pending", "skipped"}
      BY <1>1 DEF Wants
    <3>2. Fresh(p, want[p]) = Item(want[p], 0)
      BY <3>1 DEF Fresh, Item
    <3>3. want[p] \in {"pending", "skipped"}
      BY <3>1, <3>2 DEF Item
    <3> QED
      BY <3>2, <3>3
  <2>2. \A w \in {"pending", "skipped"} : Item(w, 0) \in ItemRows /\ Item(w, 0).run = 0
    BY DEF Item, ItemRows, ItemStatus
  <2> HIDE DEF items
  <2> QED
    BY <2>1, <2>2
<1>4. items \in [Beats -> ItemRows] /\ made' \in Seq(Batches)
  BY <1>1, <1>2, <1>3, AppendProperties DEF BatchTypes
<1> HIDE DEF items
<1>5. Inv'
  <2>1. \A p \in Beats : /\ items[p].status = "pending" => items[p].run = 0
                         /\ items[p].status = "running" => items[p].run # 0
                         /\ items[p].run # 0 => run[items[p].run].beat = p
    BY <1>1, <1>3
  <2>2. PICK n : n = Cardinality({p \in Beats : items[p].status = "pending"}) /\ Room(n)
    BY <1>1
  <2> QED
    BY <1>1, <1>4, <2>1, <2>2, StartStep DEF OPEN
<1>6. \A c \in Batches : c # b => batch'[c] = batch[c] /\ task'[c] = task[c]
  BY <1>1, <1>2 DEF BatchTypes
<1> QED
  BY <1>1, <1>5, <1>6

LEMMA TrashBeginStep ==
  ASSUME Inv, NEW u \in Users, TrashBegin(u)
  PROVE  /\ Inv' /\ UNCHANGED <<run, worker, batch>> /\ "trash" \in Hazards
         /\ \A b \in Batches : task[b] # "scheduled" /\ task'[b] = Paused(task[b])
         /\ \A b \in Batches, p \in Beats : child'[b][p] = NoChild
<1>1. /\ UNCHANGED <<run, worker, trashed, batch, made>> /\ \A b \in Batches : task[b] # "scheduled"
      /\ request' = [request EXCEPT ![u] = [op |-> "trash", run |-> 0]]
      /\ task' = [b \in Batches |-> Paused(task[b])]
      /\ child' = [b \in Batches |-> [p \in Beats |-> NoChild]]
      /\ "trash" \in Hazards
  BY DEF TrashBegin, Ask, Trouble
<1>2. /\ request' \in [Users -> Requests] /\ request'[u] = [op |-> "trash", run |-> 0]
      /\ \A v \in Users : v # u => request'[v] = request[v]
  BY <1>1, RunState DEF Requests
<1>3. /\ \A b \in Batches : task'[b] = Paused(task[b])
      /\ \A b \in Batches, p \in Beats : child'[b][p] = NoChild
      /\ task' \in [Batches -> TaskStates] /\ child' \in [Batches -> [Beats -> ChildRows]]
  BY <1>1 DEF Paused, TaskStates, ChildRows, NoChild
<1>4. \A b \in Batches, p \in Beats : It(b, p)' = It(b, p)
  BY <1>1 DEF It
<1>5. TypeOK'
  <2>1. RunsTypeOK'
    <3>1. \A v \in Users : request'[v].op \in {"cancel", "cancelled", "retry"} => request'[v].run \in DOMAIN run'
      BY <1>1, <1>2, RunState
    <3> QED
      BY <1>1, <1>2, <3>1, RunState DEF RunsTypeOK, Requests
  <2>2. BatchTypes'
    <3>1. troubles' \in 0..MaxTroubles
      BY TroubleCounted DEF TrashBegin
    <3> QED
      BY <1>1, <1>3, <3>1, Shape DEF Inv, BatchTypes, BatchRows, ItemRows, ChildRows
  <2> QED
    BY <2>1, <2>2, TypesTogether
<1>6. RowsOK'
  <2>1. ASSUME NEW v \in Users PROVE RequestOK(v)'
    BY <1>1, <1>2, RunState DEF RequestOK
  <2> QED
    BY <1>1, <2>1, RowsSame
<1>7. ItemsOK'
  <2>1. ASSUME NEW b \in Batches PROVE BatchOK(b)'
    <3>1. BatchOK(b)
      BY DEF Inv, ItemsOK
    <3>2. task'[b] # "running" /\ (task[b] = "none" => task'[b] = "none")
      BY <1>3 DEF Paused
    <3> QED
      BY <1>1, <1>3, <1>4, <3>1, <3>2 DEF BatchOK, NoChild
  <2>2. ASSUME NEW b \in Batches, NEW p \in Beats PROVE ItemOK(b, p)'
    BY <1>1, <1>3, <1>4 DEF Inv, ItemsOK, ItemOK, NoChild
  <2> QED
    BY <2>1, <2>2 DEF ItemsOK
<1>8. RoomOK'
  <2>1. \A b \in Batches, p \in Beats : Owes(b, p)' => Owes(b, p)
    BY <1>3 DEF Owes, Paused, NoChild
  <2>2. \A v \in Users : request'[v].op = "retry" => request[v].op = "retry"
    BY <1>2
  <2> QED
    BY <1>1, <1>5, <2>1, <2>2, RoomKept
<1>9. EndedIsSettled'
  BY <1>1, <1>4 DEF Inv, EndedIsSettled
<1> QED
  BY <1>1, <1>3, <1>5, <1>6, <1>7, <1>8, <1>9 DEF Inv

\* What a restart makes of an item names a run of its picture.
LEMMA RecoveredItemOK ==
  ASSUME Inv, NEW b \in Batches, NEW p \in Beats
  PROVE  LET i == It(b, p)
             j == RecoveredItem(b, p)
         IN  /\ j \in ItemRows
             /\ j.run # 0 => run[j.run].beat = p
             /\ i.run # 0 => j.run = i.run
             /\ i.run = 0 => /\ Tagged(b, p) = {} => j.run = 0
                             /\ Tagged(b, p) # {} => /\ j.run \in Tagged(b, p) /\ j.run # 0
                                                     /\ \A q \in Tagged(b, p) : j.run <= q
             /\ j.status = IF j.run # 0 /\ i.status \notin {"completed", "skipped"} THEN "unknown" ELSE i.status
<1> DEFINE i == It(b, p)
           j == RecoveredItem(b, p)
           r == IF i.run = 0 THEN LinkedRun(b, p) ELSE i.run
<1>1. /\ i \in ItemRows /\ ItemOK(b, p) /\ Len(run) \in Nat /\ DOMAIN run = 1..Len(run)
      /\ Tagged(b, p) \in SUBSET (1..Len(run))
  BY Shape DEF Inv, ItemsOK, Tagged, Of
<1>2. j.run = r /\ j.status = IF r # 0 /\ i.status \notin {"completed", "skipped"} THEN "unknown" ELSE i.status
  BY DEF RecoveredItem, Item
<1>3. Tagged(b, p) # {} => /\ First(Tagged(b, p)) \in Tagged(b, p)
                           /\ \A q \in Tagged(b, p) : First(Tagged(b, p)) <= q
  BY <1>1, FirstLast
<1>4. i.run = 0 => /\ Tagged(b, p) = {} => r = 0
                   /\ Tagged(b, p) # {} => /\ r \in Tagged(b, p) /\ r # 0
                                           /\ \A q \in Tagged(b, p) : r <= q
  BY <1>1, <1>3 DEF LinkedRun
<1>5. i.run # 0 => r = i.run
  OBVIOUS
<1>6. r \in {0} \cup DOMAIN run /\ (r # 0 => run[r].beat = p)
  <2>1. CASE i.run = 0
    <3>1. r # 0 => r \in Tagged(b, p)
      BY <1>4, <2>1
    <3>2. r # 0 => r \in DOMAIN run /\ run[r].beat = p
      BY <3>1 DEF Tagged, Of
    <3> QED
      BY <3>2
  <2>2. CASE i.run # 0
    BY <1>1, <1>5, <2>2 DEF ItemOK, ItemRows
  <2> QED
    BY <2>1, <2>2
<1>7. j \in ItemRows
  <2>1. j = [status |-> IF r # 0 /\ i.status \notin {"completed", "skipped"} THEN "unknown" ELSE i.status, run |-> r]
    BY DEF RecoveredItem, Item
  <2>2. i.status \in ItemStatus /\ "unknown" \in ItemStatus
    BY <1>1 DEF ItemRows, ItemStatus
  <2> HIDE DEF r
  <2> QED
    BY <1>6, <2>1, <2>2 DEF ItemRows
<1> HIDE DEF r
<1> QED
  BY <1>2, <1>4, <1>5, <1>6, <1>7

RestartedBatch(b) ==
    IF batch[b].status \in OPEN \cup {"interrupted"}
    THEN [status |-> "interrupted", item |-> [p \in Beats |-> RecoveredItem(b, p)]]
    ELSE batch[b]

LEMMA RestartRows ==
  ASSUME Inv, RestartRuns
  PROVE  /\ RowsChange /\ RunsTypeOK' /\ \A u \in Users : RequestOK(u)'
         /\ \A r \in DOMAIN run : worker'[r] # "working"
         /\ request' = [u \in Users |-> Idle]
<1>1. /\ worker' = [r \in RunIds |-> IF ~trashed /\ r \in DOMAIN run /\ run[r].status = "queued" /\ run[r].batch = NoBatch
                                     THEN "scheduled" ELSE "none"]
      /\ request' = [u \in Users |-> Idle] /\ trashed' = trashed
      /\ \/ run' = run
         \/ run' = [r \in DOMAIN run |-> [run[r] EXCEPT !.status = Recovered(@)]]
  BY DEF RestartRuns
<1>2. RowsChange
  <2>1. CASE run' = run
    BY <2>1, RowsUnchanged
  <2>2. CASE run' = [r \in DOMAIN run |-> [run[r] EXCEPT !.status = Recovered(@)]]
    <3> DEFINE f == [r \in DOMAIN run |-> [run[r] EXCEPT !.status = Recovered(@)]]
    <3>1. ASSUME NEW r \in DOMAIN run
          PROVE  /\ f[r] \in RunRow
                 /\ f[r].beat = run[r].beat /\ f[r].batch = run[r].batch /\ f[r].by = run[r].by
                 /\ \/ f[r] = run[r]
                    \/ run[r].status \in ACTIVE /\ f[r].status = "cancelled" /\ f[r].bought = run[r].bought
                    \/ run[r].status = "running" /\ f[r].status = "uncertain" /\ f[r].bought = "maybe"
      <4>1. run[r] \in RunRow /\ RowOK(r)
        BY RunState
      <4>2. f[r] = [beat |-> run[r].beat, batch |-> run[r].batch, by |-> run[r].by,
                    status |-> Recovered(run[r].status), bought |-> run[r].bought]
        BY <4>1 DEF RunRow
      <4>3. CASE run[r].status = "cancellation_requested"
        <5>1. Recovered(run[r].status) = "cancelled"
          BY <4>3 DEF Recovered
        <5> HIDE DEF f
        <5> QED
          BY <4>1, <4>2, <4>3, <5>1 DEF RunRow, ACTIVE, Terminal, UNSAFE
      <4>4. CASE run[r].status = "running"
        <5>1. Recovered(run[r].status) = "uncertain" /\ run[r].bought = "maybe"
          BY <4>1, <4>4 DEF Recovered, RowOK
        <5> HIDE DEF f
        <5> QED
          BY <4>1, <4>2, <4>4, <5>1 DEF RunRow, ACTIVE, Terminal, UNSAFE
      <4>5. CASE run[r].status \notin {"cancellation_requested", "running"}
        <5>1. Recovered(run[r].status) = run[r].status
          BY <4>5 DEF Recovered
        <5>2. run[r] = [beat |-> run[r].beat, batch |-> run[r].batch, by |-> run[r].by,
                        status |-> run[r].status, bought |-> run[r].bought]
          BY <4>1 DEF RunRow
        <5> HIDE DEF f
        <5> QED
          BY <4>1, <4>2, <5>1, <5>2
      <4> QED
        BY <4>3, <4>4, <4>5
    <3>2. f \in [DOMAIN run -> RunRow]
      BY <3>1
    <3> HIDE DEF f
    <3>3. /\ run' \in Seq(RunRow) /\ Len(run') = Len(run) /\ DOMAIN run' = DOMAIN run /\ SameRows
          /\ \A r \in DOMAIN run : run'[r] = f[r]
      BY <2>2, <3>1, <3>2, RunState, RowsRewritten DEF f
    <3> QED
      BY <3>1, <3>3 DEF RowsChange, Becomes
  <2> QED
    BY <1>1, <2>1, <2>2
<1>3. /\ worker' \in [RunIds -> {"none", "scheduled", "working"}]
      /\ \A r \in RunIds : worker'[r] # "working" /\ (worker'[r] # "none" => r \in DOMAIN run)
  BY <1>1
<1>4. \A u \in Users : request'[u] = Idle
  BY <1>1
<1>5. RunsTypeOK'
  BY <1>1, <1>2, <1>3, <1>4, RunState DEF RunsTypeOK, RowsChange, Idle
<1>6. \A u \in Users : RequestOK(u)'
  BY <1>4 DEF RequestOK, Idle
<1> QED
  BY <1>1, <1>2, <1>3, <1>5, <1>6, RunState

LEMMA RestartStep ==
  ASSUME Inv, Restart
  PROVE  /\ Inv' /\ RowsChange /\ \A b \in Batches : batch'[b] = RestartedBatch(b) /\ task'[b] = "none"
         /\ \A b \in Batches, p \in Beats : child'[b][p] = NoChild
<1>1. /\ RowsChange /\ RunsTypeOK' /\ \A u \in Users : RequestOK(u)'
      /\ \A r \in DOMAIN run : worker'[r] # "working"
      /\ request' = [u \in Users |-> Idle]
  BY RestartRows DEF Restart
<1>2. /\ batch' = [b \in Batches |-> RestartedBatch(b)] /\ made' = made
      /\ task' = [b \in Batches |-> "none"] /\ child' = [b \in Batches |-> [p \in Beats |-> NoChild]]
  BY DEF Restart, RestartedBatch
<1>3. /\ \A b \in Batches : batch'[b] = RestartedBatch(b) /\ task'[b] = "none"
      /\ \A b \in Batches, p \in Beats : child'[b][p] = NoChild
  BY <1>2
<1>4. BatchTypes
  BY Shape DEF Inv
<1>5. /\ ItemRows = ItemRows' /\ BatchRows = BatchRows' /\ ChildRows = ChildRows'
  BY <1>1 DEF RowsChange, ItemRows, BatchRows, ChildRows
<1>6. ASSUME NEW b \in Batches
      PROVE  /\ RestartedBatch(b) \in BatchRows
             /\ batch[b].status \in OPEN \cup {"interrupted"}
                  => batch'[b].status = "interrupted" /\ \A p \in Beats : It(b, p)' = RecoveredItem(b, p)
             /\ batch[b].status \notin OPEN \cup {"interrupted"}
                  => batch'[b] = batch[b] /\ \A p \in Beats : It(b, p)' = It(b, p)
  <2>1. [p \in Beats |-> RecoveredItem(b, p)] \in [Beats -> ItemRows]
    BY RecoveredItemOK
  <2>2. RestartedBatch(b) \in BatchRows
    BY <1>4, <2>1 DEF RestartedBatch, BatchTypes, BatchRows, BatchStatus
  <2> QED
    BY <1>3, <2>2 DEF RestartedBatch, It
<1>7. TypeOK'
  <2>1. batch' \in [Batches -> BatchRows'] /\ task' \in [Batches -> TaskStates] /\ child' \in [Batches -> [Beats -> ChildRows']]
    BY <1>2, <1>5, <1>6 DEF TaskStates, ChildRows, NoChild
  <2>2. BatchTypes'
    <3>1. troubles' \in 0..MaxTroubles
      BY TroubleCounted DEF Restart
    <3> QED
      BY <1>2, <1>4, <2>1, <3>1 DEF BatchTypes
  <2> QED
    BY <1>1, <2>2, TypesTogether
<1>8. RowsOK'
  <2>1. \A b \in Batches : batch[b].status # "none" => batch'[b].status # "none"
    BY <1>6
  <2> QED
    BY <1>1, <2>1, RowsChanged
<1>9. ItemsOK'
  <2>1. ASSUME NEW b \in Batches PROVE BatchOK(b)'
    <3>1. BatchOK(b)
      BY DEF Inv, ItemsOK
    <3> QED
      BY <1>3, <1>6, <3>1 DEF BatchOK, OPEN, NoChild
  <2>2. ASSUME NEW b \in Batches, NEW p \in Beats PROVE ItemOK(b, p)'
    <3>1. CASE batch[b].status \notin OPEN \cup {"interrupted"}
      <4>1. It(b, p)' = It(b, p) /\ ItemOK(b, p) /\ It(b, p) \in ItemRows
        BY <1>6, <3>1, Shape DEF Inv, ItemsOK
      <4> QED
        BY <1>1, <1>3, <4>1 DEF ItemOK, NoChild, RowsChange, SameRows, ItemRows
    <3>2. CASE batch[b].status \in OPEN \cup {"interrupted"}
      <4> DEFINE j == RecoveredItem(b, p)
      <4>1. It(b, p)' = j
        BY <1>6, <3>2
      <4>2. /\ j.run # 0 => run[j.run].beat = p
            /\ j.run \in {0} \cup DOMAIN run
            /\ j.status = "pending" => j.run = 0
            /\ j.status = "running" => j.run # 0
        <5>1. /\ j \in ItemRows /\ ItemOK(b, p)
              /\ It(b, p).run # 0 => j.run = It(b, p).run
              /\ j.status = IF j.run # 0 /\ It(b, p).status \notin {"completed", "skipped"} THEN "unknown" ELSE It(b, p).status
          BY RecoveredItemOK DEF Inv, ItemsOK
        <5>2. j.run # 0 => run[j.run].beat = p
          BY RecoveredItemOK
        <5> HIDE DEF j
        <5> QED
          BY <5>1, <5>2 DEF ItemRows, ItemOK
      <4> HIDE DEF j
      <4>3. j.run # 0 => run'[j.run].beat = p
        BY <1>1, <4>2 DEF RowsChange, SameRows
      <4> QED
        BY <1>3, <4>1, <4>2, <4>3 DEF ItemOK, NoChild
    <3> QED
      BY <3>1, <3>2
  <2> QED
    BY <2>1, <2>2 DEF ItemsOK
<1>10. RoomOK'
  <2>1. \A b \in Batches, p \in Beats : Owes(b, p)' => Owes(b, p)
    BY <1>3 DEF Owes, NoChild
  <2>2. \A u \in Users : request'[u].op # "retry"
    BY <1>1 DEF Idle
  <2> QED
    BY <1>1, <1>7, <2>1, <2>2, RoomKept DEF RowsChange
<1>11. EndedIsSettled'
  BY <1>6 DEF Inv, EndedIsSettled, OPEN
<1> QED
  BY <1>1, <1>3, <1>7, <1>8, <1>9, <1>10, <1>11 DEF Inv

-----------------------------------------------------------------------------
(* The invariant *)

LEMMA InvInit ==
  Init => Inv
<1> SUFFICES ASSUME Init PROVE Inv
  OBVIOUS
<1>1. /\ run = <<>> /\ Len(run) = 0 /\ DOMAIN run = {}
      /\ \A r \in RunIds : worker[r] = "none" /\ \A u \in Users : request[u] = Idle
      /\ made = <<>> /\ troubles = 0 /\ trashed = FALSE
      /\ \A b \in Batches : batch[b].status = "none" /\ task[b] = "none"
      /\ \A b \in Batches, p \in Beats : It(b, p) = NoItem /\ child[b][p] = NoChild
  BY DEF Init, RunsInit, It
<1>2. TypeOK
  <2>1. NoItem \in ItemRows /\ NoChild \in ChildRows
    BY DEF NoItem, NoChild, Item, ItemRows, ChildRows, ItemStatus
  <2>2. batch \in [Batches -> BatchRows] /\ child \in [Batches -> [Beats -> ChildRows]]
    BY <2>1 DEF Init, BatchRows, BatchStatus
  <2>3. task \in [Batches -> TaskStates] /\ made \in Seq(Batches) /\ troubles \in 0..MaxTroubles
    BY <1>1, EmptySeq DEF Init, TaskStates
  <2>4. RunsTypeOK
    <3>1. run \in Seq(RunRow) /\ Len(run) <= MaxRuns
      BY <1>1, EmptySeq
    <3>2. worker \in [RunIds -> {"none", "scheduled", "working"}] /\ request \in [Users -> Requests]
      BY DEF Init, RunsInit, Requests, Idle
    <3>3. \A u \in Users : request[u].op = "idle"
      BY DEF Init, RunsInit, Idle
    <3> QED
      BY <1>1, <3>1, <3>2, <3>3 DEF RunsTypeOK, Requests, Init, RunsInit
  <2> QED
    BY <2>2, <2>3, <2>4 DEF TypeOK, BatchRows, ItemRows, ChildRows, TaskStates
<1>3. \A u \in Users : request[u].op = "idle"
  BY DEF Init, RunsInit, Idle
<1>4. RowsOK
  BY <1>1, <1>3 DEF RowsOK, RequestOK
<1>5. ItemsOK /\ EndedIsSettled
  BY <1>1 DEF ItemsOK, BatchOK, ItemOK, EndedIsSettled, NoItem, NoChild, Item, OPEN
<1>6. RoomOK
  <2>1. Owing = {} /\ Retrying = {}
    BY <1>1, <1>3 DEF Owing, Owes, Retrying
  <2> QED
    BY <1>1, <2>1, FS_EmptySet DEF RoomOK
<1> QED
  BY <1>2, <1>4, <1>5, <1>6 DEF Inv

LEMMA ChildSteps ==
  ASSUME Inv, NEW b \in Batches, NEW p \in Beats, ChildStep(b, p)
  PROVE  Inv'
BY FollowStep, LeaveAloneStep, DispatchCheckStep, DispatchStep, DispatchRefusedStep, SaveMembershipStep, SettleStep, StoreFaultStep
   DEF ChildStep

LEMMA TaskSteps ==
  ASSUME Inv, NEW b \in Batches, TaskStep(b) \/ BatchRequest(b)
  PROVE  Inv'
<1>1. CASE TaskStep(b)
  BY <1>1, TaskStartStep, TaskFinishStep, TaskInterruptedStep, TaskFailsStep DEF TaskStep
<1>2. CASE BatchRequest(b)
  BY <1>2, StopStep, CreateStep, ResumeStep DEF BatchRequest
<1> QED
  BY <1>1, <1>2

\* A step on the runs alone changes rows, or adds a user's.
LEMMA RunSteps ==
  ASSUME Inv, RunStep, UNCHANGED batchVars
  PROVE  /\ Inv'
         /\ \/ RowsChange /\ \A q \in DOMAIN run : Quiet(q)
            \/ /\ \E p \in Beats, b \in Batches \cup {NoBatch} :
                     AddsRow(p, b, "user") /\ (Live(p) = {} \/ "retry" \in Hazards)
               /\ \A r \in DOMAIN run : worker'[r] = worker[r]
<1>1. ASSUME NEW r \in DOMAIN run, Claim(r) \/ Finish(r) \/ RecoverOutput(r)
      PROVE  Inv' /\ RowsChange /\ \A q \in DOMAIN run : Quiet(q)
  BY <1>1, ClaimStep, FinishStep, RecoverOutputStep
<1>2. ASSUME "generate" \in Hazards, UserRoom, NEW p \in Beats, Generate(p)
      PROVE  Inv' /\ AddsRow(p, NoBatch, "user") /\ Live(p) = {} /\ \A r \in DOMAIN run : worker'[r] = worker[r]
  BY <1>2, GenerateStep DEF Generate
<1>3. ASSUME "cancel" \in Hazards, NEW u \in Users, NEW r \in DOMAIN run, CancelRead(u, r)
      PROVE  Inv' /\ RowsChange /\ \A q \in DOMAIN run : Quiet(q)
  BY <1>3, CancelReadStep
<1>4. ASSUME NEW u \in Users, CancelSave(u) \/ CancelFinish(u)
      PROVE  Inv' /\ RowsChange /\ \A q \in DOMAIN run : Quiet(q)
  BY <1>4, CancelSaveStep, CancelFinishStep
<1>5. ASSUME NEW u \in Users, RetrySave(u)
      PROVE  /\ Inv' /\ "retry" \in Hazards /\ \A r \in DOMAIN run : worker'[r] = worker[r]
             /\ \E p \in Beats, b \in Batches \cup {NoBatch} : AddsRow(p, b, "user")
  <2>1. run[request[u].run] \in RunRow
    BY <1>5, RunState DEF RetrySave
  <2>2. run[request[u].run].beat \in Beats /\ run[request[u].run].batch \in Batches \cup {NoBatch}
    BY <2>1 DEF RunRow
  <2> QED
    BY <1>5, <2>2, RetrySaveStep
<1>6. ASSUME "retry" \in Hazards, UserRoom, NEW u \in Users, NEW r \in DOMAIN run, RetryCheck(u, r)
      PROVE  Inv' /\ RowsChange /\ \A q \in DOMAIN run : Quiet(q)
  BY <1>6, RetryCheckStep
<1>7. CASE Restore
  BY <1>7, RestoreStep
<1> QED
  BY <1>1, <1>2, <1>3, <1>4, <1>5, <1>6, <1>7 DEF RunStep

LEMMA Stutter ==
  ASSUME Inv, UNCHANGED vars
  PROVE  Inv'
<1>1. UNCHANGED <<run, worker, request, trashed, batch, made, task, child, troubles>>
  BY DEF vars, runVars, batchVars
<1>2. TypeOK'
  BY <1>1 DEF Inv, TypeOK, RunsTypeOK
<1>3. RowsOK'
  BY <1>1 DEF Inv, RowsOK, RowOK, RequestOK
<1>4. ItemsOK'
  BY <1>1 DEF Inv, ItemsOK, BatchOK, ItemOK, It
<1>5. RoomOK'
  BY <1>1 DEF Inv, RoomOK, Owing, Owes, It, Retrying
<1>6. EndedIsSettled'
  BY <1>1 DEF Inv, EndedIsSettled, It
<1> QED
  BY <1>2, <1>3, <1>4, <1>5, <1>6 DEF Inv

LEMMA InvNext ==
  Inv /\ [Next]_vars => Inv'
<1> SUFFICES ASSUME Inv, [Next]_vars PROVE Inv'
  OBVIOUS
<1>1. ASSUME NEW b \in Batches, TaskStep(b) \/ BatchRequest(b) PROVE Inv'
  BY <1>1, TaskSteps
<1>2. ASSUME NEW b \in Batches, NEW p \in Beats, ChildStep(b, p) PROVE Inv'
  BY <1>2, ChildSteps
<1>3. CASE RunStep /\ UNCHANGED batchVars
  BY <1>3, RunSteps
<1>4. ASSUME NEW u \in Users, TrashBegin(u) \/ TrashFinish(u) PROVE Inv'
  BY <1>4, TrashBeginStep, TrashFinishStep
<1>5. CASE Restart
  BY <1>5, RestartStep
<1>6. CASE UNCHANGED vars
  BY <1>6, Stutter
<1> QED
  BY <1>1, <1>2, <1>3, <1>4, <1>5, <1>6 DEF Next

LEMMA InvHolds ==
  Spec => []Inv
BY InvInit, InvNext, PTL DEF Spec

(* The rows, the tasks and the requests, the batches with their items and    *)
(* children are well typed, for any number of pictures, batches and users;   *)
(* and what running batches may still insert always has room.                *)
THEOREM TypeCorrect ==
  Spec => []TypeOK
<1>1. Inv => TypeOK
  BY DEF Inv
<1> QED
  BY <1>1, InvHolds, PTL

(* ImageBatchService.run ends a batch when every child is done: what it      *)
(* calls completed, partial or cancelled has no item left to do.             *)
THEOREM EndedBatchIsSettled ==
  Spec => []EndedIsSettled
<1>1. Inv => EndedIsSettled
  BY DEF Inv
<1> QED
  BY <1>1, InvHolds, PTL

-----------------------------------------------------------------------------
(* What a step does to the rows and to the items *)

LEMMA RowSteps ==
  ASSUME Inv, [Next]_vars
  PROVE  \/ RowsChange
         \/ \E p \in Beats, b \in Batches \cup {NoBatch} :
               AddsRow(p, b, "user") /\ (Live(p) = {} \/ "retry" \in Hazards)
         \/ \E b \in Batches, p \in Beats : Dispatch(b, p)
<1>1. ASSUME NEW b \in Batches, TaskStep(b) \/ BatchRequest(b) PROVE run' = run
  BY <1>1 DEF TaskStep, BatchRequest, TaskStart, TaskFinish, TaskInterrupted, TaskFails, Stop, Create, Resume, runVars
<1>2. ASSUME NEW b \in Batches, NEW p \in Beats, ChildStep(b, p) PROVE run' = run \/ Dispatch(b, p)
  BY <1>2 DEF ChildStep, Follow, LeaveAlone, DispatchCheck, DispatchRefused, SaveMembership, Settle, StoreFault, Excepted, runVars
<1>3. CASE RunStep /\ UNCHANGED batchVars
  BY <1>3, RunSteps
<1>4. ASSUME NEW u \in Users, TrashBegin(u) \/ TrashFinish(u) PROVE RowsChange
  BY <1>4, TrashBeginStep, TrashFinishStep, RowsUnchanged
<1>5. CASE Restart
  BY <1>5, RestartStep
<1>6. CASE UNCHANGED vars
  BY <1>6, RowsUnchanged DEF vars, runVars
<1> QED
  BY <1>1, <1>2, <1>3, <1>4, <1>5, <1>6, RowsUnchanged DEF Next

(* stop() and dispatch serialize under the batch lock: a batch that is       *)
(* stopping, interrupted or ended inserts no run.  The check of dispatch and *)
(* its insertion are two steps: in between, whoever saves another status     *)
(* waits for the lock or has ended the child (BatchOK).                      *)
THEOREM StoppedForGood ==
  Spec => StopIsFinal
<1> DEFINE Kept == \A b \in Batches : batch[b].status # "running"
                     => \A p \in Beats : Len(run') > Len(run) /\ run'[Len(run')].by = "batch"
                          => run'[Len(run')].batch # b
<1>1. Inv /\ [Next]_vars => Kept
  <2> SUFFICES ASSUME Inv, [Next]_vars, NEW b \in Batches, batch[b].status # "running",
                      Len(run') > Len(run), run'[Len(run')].by = "batch"
               PROVE  run'[Len(run')].batch # b
    OBVIOUS
  <2>1. CASE RowsChange
    BY <2>1, Shape DEF Inv, RowsChange
  <2>2. ASSUME NEW p \in Beats, NEW c \in Batches \cup {NoBatch}, AddsRow(p, c, "user") PROVE FALSE
    BY <2>2 DEF AddsRow, NewRow
  <2>3. ASSUME NEW c \in Batches, NEW p \in Beats, Dispatch(c, p) PROVE run'[Len(run')].batch # b
    <3>1. AddsRow(p, c, "batch") /\ batch[c].status = "running"
      BY <2>3, DispatchStep, StillMay DEF Dispatch, MayDispatch
    <3> QED
      BY <3>1 DEF AddsRow, NewRow
  <2> QED
    BY <2>1, <2>2, <2>3, RowSteps
<1>2. Spec => [][Kept]_vars
  BY <1>1, InvHolds, PTL DEF Spec
<1> QED
  BY <1>2 DEF StopIsFinal

\* An item with a run never loses it, unless that run has bought nothing.
KeepsRun(b, p) ==
    LET r == It(b, p).run IN
    r # 0 /\ run'[r].bought # "no" => It(b, p)'.run # 0 /\ It(b, p)'.status # "pending"

LEMMA ItemKeepsRun ==
  ASSUME Inv, NEW b \in Batches, NEW p \in Beats,
         It(b, p).run # 0 => It(b, p)'.run = It(b, p).run /\ (It(b, p)'.status = "pending" => It(b, p).status = "pending")
  PROVE  KeepsRun(b, p)
BY DEF Inv, ItemsOK, ItemOK, KeepsRun

LEMMA ChildKeepsRuns ==
  ASSUME Inv, NEW c \in Batches, NEW q \in Beats, ChildStep(c, q), NEW b \in Batches, NEW p \in Beats
  PROVE  KeepsRun(b, p)
<1>1. BatchTypes /\ TypeOK /\ child[c][q].at # "none"
  BY Shape DEF Inv, ChildStep, Follow, LeaveAlone, DispatchCheck, Dispatch, DispatchRefused, DispatchTurn, SaveMembership, Settle, StoreFault
<1>2. /\ ItemOK(c, q) /\ It(c, q) \in ItemRows /\ child[c][q] \in ChildRows
      /\ child[c][q].run \in {0} \cup DOMAIN run
  <2>1. ItemOK(c, q) /\ It(c, q) \in ItemRows /\ child[c][q] \in ChildRows
    BY <1>1, AtWork
  <2> QED
    BY <2>1 DEF ChildRows
<1>3. ASSUME NEW i \in ItemRows, SetItem(c, q, i), It(c, q).run # 0 => i.run # 0 /\ i.status # "pending"
      PROVE  KeepsRun(b, p)
  <2>1. It(c, q)' = i /\ (b # c \/ p # q => It(b, p)' = It(b, p))
    BY <1>1, <1>3, ItemSaved
  <2>2. CASE b = c /\ p = q
    BY <1>3, <2>1, <2>2 DEF KeepsRun
  <2>3. CASE b # c \/ p # q
    BY <2>1, <2>3, ItemKeepsRun
  <2> QED
    BY <2>2, <2>3
<1>4. CASE Follow(c, q) \/ LeaveAlone(c, q) \/ DispatchCheck(c, q) \/ Dispatch(c, q)
  <2>1. It(b, p)' = It(b, p)
    BY <1>4 DEF Follow, LeaveAlone, DispatchCheck, Dispatch, It
  <2> QED
    BY <2>1, ItemKeepsRun
<1>5. CASE SaveMembership(c, q)
  <2> DEFINE i == Item("running", child[c][q].run)
  <2>1. SetItem(c, q, i) /\ It(c, q).run = 0
    BY <1>2, <1>5 DEF SaveMembership, ItemOK
  <2>2. i \in ItemRows
    BY <1>2 DEF Item, ItemRows, ItemStatus
  <2> QED
    BY <1>3, <2>1, <2>2
<1>6. CASE Settle(c, q)
  <2> DEFINE r == child[c][q].run
             i == Item(Outcome(run[r].status), r)
  <2>1. SetItem(c, q, i) /\ It(c, q).run = r
    BY <1>2, <1>6 DEF Settle, ItemOK
  <2>2. i \in ItemRows /\ i.run = r /\ i.status # "pending"
    BY <1>2 DEF Item, ItemRows, ItemStatus, Outcome
  <2> HIDE DEF i, r
  <2> QED
    BY <1>3, <2>1, <2>2
<1>7. ASSUME NEW known \in {0} \cup DOMAIN run, Excepted(c, q, known), It(c, q).run # 0 => known # 0
      PROVE  KeepsRun(b, p)
  <2> DEFINE i == Retained(c, q, known)
             linked == Tagged(c, q) \cap Live(q)
  <2>1. SetItem(c, q, i)
    BY <1>7 DEF Excepted, Retained
  <2>2. i \in ItemRows /\ i.status # "pending" /\ (linked # {} => i.run \in linked)
        /\ (linked = {} => i = Item("failed", known))
    BY <1>1, RetainedItem
  <2>3. \A r \in linked : r # 0
    BY <1>1, Shape DEF Live, Of
  <2>4. It(c, q).run # 0 => i.run # 0
    <3> HIDE DEF i, linked
    <3>1. CASE linked # {}
      BY <2>2, <2>3, <3>1
    <3>2. CASE linked = {}
      BY <1>7, <2>2, <3>2 DEF Item
    <3> QED
      BY <3>1, <3>2
  <2> HIDE DEF i
  <2> QED
    BY <1>3, <2>1, <2>2, <2>4
<1>8. CASE DispatchRefused(c, q)
  <2>1. Excepted(c, q, 0) /\ It(c, q).run = 0
    BY <1>8, StillMay DEF DispatchRefused
  <2> QED
    BY <1>7, <2>1
<1>9. CASE StoreFault(c, q)
  <2>1. CASE child[c][q].at = "enqueued" /\ Excepted(c, q, 0)
    BY <1>2, <1>7, <2>1 DEF ItemOK
  <2>2. CASE child[c][q].at = "polling" /\ Excepted(c, q, child[c][q].run)
    BY <1>2, <1>7, <2>2 DEF ItemOK
  <2> QED
    BY <1>9, <2>1, <2>2 DEF StoreFault
<1> QED
  BY <1>4, <1>5, <1>6, <1>8, <1>9 DEF ChildStep

LEMMA TaskKeepsRuns ==
  ASSUME Inv, NEW c \in Batches, TaskStep(c) \/ BatchRequest(c), NEW b \in Batches, NEW p \in Beats
  PROVE  KeepsRun(b, p)
<1>1. /\ BatchTypes /\ BatchOK(b) /\ ItemOK(b, p) /\ It(b, p) \in ItemRows
      /\ \A r \in DOMAIN run : RowOK(r)
  BY Shape, RunState DEF Inv, ItemsOK
<1>2. ASSUME NEW s, NEW items, batch' = [batch EXCEPT ![c] = [status |-> s, item |-> items]],
             It(c, p).run # 0 => items[p].run = It(c, p).run /\ (items[p].status = "pending" => It(c, p).status = "pending")
      PROVE  KeepsRun(b, p)
  <2>1. It(b, p)' = IF b = c THEN items[p] ELSE It(b, p)
    BY <1>1, <1>2 DEF It, BatchTypes
  <2> QED
    BY <1>2, <2>1, ItemKeepsRun
<1>3. CASE TaskStart(c)
  <2>1. It(b, p)' = It(b, p)
    BY <1>3 DEF TaskStart, It
  <2> QED
    BY <2>1, ItemKeepsRun
<1>4. CASE TaskFinish(c) \/ TaskInterrupted(c)
  <2>1. PICK s : batch' = [batch EXCEPT ![c] = [status |-> s, item |-> batch[c].item]]
    BY <1>4 DEF TaskFinish, TaskInterrupted, EndTask
  <2> QED
    BY <1>2, <2>1 DEF It
<1>5. CASE TaskFails(c)
  <2> DEFINE items == [q \in Beats |-> Broken(It(c, q))]
  <2>1. batch' = [batch EXCEPT ![c] = [status |-> "interrupted", item |-> items]]
    BY <1>5 DEF TaskFails, EndTask
  <2>2. items[p].run = It(c, p).run /\ (items[p].status = "pending" => It(c, p).status = "pending")
    BY DEF Broken, Item
  <2> HIDE DEF items
  <2> QED
    BY <1>2, <2>1, <2>2
<1>6. CASE Stop(c)
  <2> DEFINE items == [q \in Beats |-> IF q \in Pending(c) THEN Item("cancelled", It(c, q).run) ELSE It(c, q)]
  <2>1. batch' = [batch EXCEPT ![c] = [status |-> "stopping", item |-> items]]
    BY <1>6 DEF Stop
  <2>2. items[p].run = It(c, p).run /\ (items[p].status = "pending" => It(c, p).status = "pending")
    BY DEF Item
  <2> HIDE DEF items
  <2> QED
    BY <1>2, <2>1, <2>2
<1>7. ASSUME NEW want \in Wants, Create(c, want) PROVE KeepsRun(b, p)
  <2>1. /\ batch[c].status = "none" /\ \A a \in Batches : a # c => batch'[a] = batch[a]
    BY <1>7, CreateStep
  <2>2. CASE b = c
    BY <1>1, <2>1, <2>2 DEF KeepsRun, BatchOK, NoItem, Item
  <2>3. CASE b # c
    <3>1. It(b, p)' = It(b, p)
      BY <2>1, <2>3 DEF It
    <3> QED
      BY <3>1, ItemKeepsRun
  <2> QED
    BY <2>2, <2>3
<1>8. ASSUME NEW want \in Wants, Resume(c, want) PROVE KeepsRun(b, p)
  <2>1. /\ \A q \in Beats : It(c, q)' = ResumedItem(c, q, want[q])
        /\ \A a \in Batches : a # c => batch'[a] = batch[a]
        /\ run' = run
    BY <1>8, ResumeStep
  <2>2. CASE b = c
    <3> DEFINE i == It(b, p)
               j == ResumedItem(b, p, want[p])
    <3>1. /\ j.status = "pending" => j.run = 0
          /\ i.run # 0 /\ j.run # i.run => run[i.run].status = "failed"
      <4>1. want[p] \in {"pending", "failed", "skipped", "gone"}
        BY DEF Wants
      <4> QED
        BY <4>1, ResumedItemOK
    <3>2. i.run # 0 => i.run \in DOMAIN run
      BY <1>1 DEF ItemRows
    <3>3. i.run # 0 /\ run[i.run].bought # "no" => run[i.run].status # "failed"
      BY <1>1, <3>2 DEF RowOK
    <3>4. It(b, p)' = j
      BY <2>1, <2>2
    <3> HIDE DEF j
    <3> QED
      BY <2>1, <3>1, <3>3, <3>4 DEF KeepsRun
  <2>3. CASE b # c
    <3>1. It(b, p)' = It(b, p)
      BY <2>1, <2>3 DEF It
    <3> QED
      BY <3>1, ItemKeepsRun
  <2> QED
    BY <2>2, <2>3
<1> QED
  BY <1>3, <1>4, <1>5, <1>6, <1>7, <1>8 DEF TaskStep, BatchRequest

LEMMA RestartKeepsRuns ==
  ASSUME Inv, Restart, NEW b \in Batches, NEW p \in Beats
  PROVE  KeepsRun(b, p)
<1>1. batch'[b] = RestartedBatch(b)
  BY RestartStep
<1>2. CASE batch[b].status \notin OPEN \cup {"interrupted"}
  <2>1. It(b, p)' = It(b, p)
    BY <1>1, <1>2 DEF RestartedBatch, It
  <2> QED
    BY <2>1, ItemKeepsRun
<1>3. CASE batch[b].status \in OPEN \cup {"interrupted"}
  <2> DEFINE j == RecoveredItem(b, p)
  <2>1. It(b, p)' = j
    BY <1>1, <1>3 DEF RestartedBatch, It
  <2>2. /\ It(b, p).run # 0 => j.run = It(b, p).run
        /\ j.status = IF j.run # 0 /\ It(b, p).status \notin {"completed", "skipped"} THEN "unknown" ELSE It(b, p).status
    BY RecoveredItemOK
  <2> HIDE DEF j
  <2>3. It(b, p).run # 0 => j.run = It(b, p).run /\ (j.status = "pending" => It(b, p).status = "pending")
    BY <2>2
  <2> QED
    BY <2>1, <2>3, ItemKeepsRun
<1> QED
  BY <1>2, <1>3

(* An item never lets go of a run whose work may have been bought, whatever  *)
(* the except branch of execute_item, run, resume or recover save of it.     *)
THEOREM NeverLetGo ==
  Spec => UnresolvedKept
<1> DEFINE Keep == \A b \in Batches, p \in Beats :
                     LET r == It(b, p).run IN
                     r # 0 /\ run'[r].bought # "no"
                       => batch'[b].item[p].run # 0 /\ batch'[b].item[p].status # "pending"
<1>1. ASSUME Inv, [Next]_vars, NEW b \in Batches, NEW p \in Beats PROVE KeepsRun(b, p)
  <2>1. ASSUME batch' = batch PROVE KeepsRun(b, p)
    <3>1. It(b, p)' = It(b, p)
      BY <2>1 DEF It
    <3> QED
      BY <1>1, <3>1, ItemKeepsRun
  <2>2. ASSUME NEW c \in Batches, TaskStep(c) \/ BatchRequest(c) PROVE KeepsRun(b, p)
    BY <1>1, <2>2, TaskKeepsRuns
  <2>3. ASSUME NEW c \in Batches, NEW q \in Beats, ChildStep(c, q) PROVE KeepsRun(b, p)
    BY <1>1, <2>3, ChildKeepsRuns
  <2>4. CASE RunStep /\ UNCHANGED batchVars
    BY <2>1, <2>4 DEF batchVars
  <2>5. ASSUME NEW u \in Users, TrashBegin(u) \/ TrashFinish(u) PROVE KeepsRun(b, p)
    BY <2>1, <2>5 DEF TrashBegin, TrashFinish, batchVars
  <2>6. CASE Restart
    BY <1>1, <2>6, RestartKeepsRuns
  <2>7. CASE UNCHANGED vars
    BY <2>1, <2>7 DEF vars, batchVars
  <2> QED
    BY <1>1, <2>2, <2>3, <2>4, <2>5, <2>6, <2>7 DEF Next
<1>2. Inv /\ [Next]_vars => Keep
  BY <1>1 DEF KeepsRun, It
<1>3. Spec => [][Keep]_vars
  BY <1>2, InvHolds, PTL DEF Spec
<1> QED
  BY <1>3 DEF UnresolvedKept

\* No step but a cancellation or a retry gives a picture a second live run.
LEMMA LiveApart ==
  ASSUME Inv, [Next]_vars, Hazards \cap {"cancel", "retry"} = {}, NEW p \in Beats,
         \A r, q \in Live(p) : r = q
  PROVE  \A r, q \in Live(p)' : r = q
<1>1. CASE RowsChange
  <2>1. ASSUME NEW r \in Live(p)' PROVE r \in Live(p)
    <3>1. r \in DOMAIN run /\ run[r].beat = p /\ Becomes(r) /\ run'[r].status \in ACTIVE
      BY <1>1, <2>1 DEF Live, Of, RowsChange, SameRows
    <3>2. run[r].status \in ACTIVE
      BY <3>1 DEF Becomes, ACTIVE
    <3> QED
      BY <3>1, <3>2 DEF Live, Of
  <2> QED
    BY <2>1
<1>2. ASSUME NEW q \in Beats, NEW b \in Batches \cup {NoBatch}, NEW who \in {"batch", "user"},
             AddsRow(q, b, who), Live(q) = {}
      PROVE  \A r, s \in Live(p)' : r = s
  <2>1. Len(run) \in Nat /\ DOMAIN run = 1..Len(run)
    BY Shape DEF Inv
  <2>2. ASSUME NEW r \in Live(p)' PROVE r \in Live(p) \/ (r = Len(run) + 1 /\ p = q)
    <3>1. r \in DOMAIN run' /\ run'[r].beat = p /\ run'[r].status \in ACTIVE
      BY <2>2 DEF Live, Of
    <3>2. CASE r \in DOMAIN run
      BY <1>2, <3>1, <3>2 DEF AddsRow, Live, Of
    <3>3. CASE r = Len(run) + 1
      BY <1>2, <3>1, <3>3 DEF AddsRow, NewRow
    <3> QED
      BY <1>2, <2>1, <3>1, <3>2, <3>3 DEF AddsRow
  <2> QED
    BY <1>2, <2>2
<1>3. ASSUME NEW c \in Batches, NEW q \in Beats, Dispatch(c, q)
      PROVE  AddsRow(q, c, "batch") /\ Live(q) = {}
  BY <1>3, DispatchStep DEF Dispatch
<1> QED
  BY <1>1, <1>2, <1>3, RowSteps

(* Without cancellations, which put back to work a row that had ended, and   *)
(* without retries, which do not hold the project lock, a picture never has  *)
(* two live runs: dispatch and create_image_run both refuse a second one.    *)
THEOREM OneRunAtATime ==
  ASSUME Hazards \cap {"cancel", "retry"} = {}
  PROVE  Spec => []OneLiveRun
<1> DEFINE One == \A p \in Beats : \A r, q \in Live(p) : r = q
<1>1. Init => One
  BY DEF Init, RunsInit, Live, Of
<1>2. Inv /\ One /\ [Next]_vars => One'
  BY LiveApart
<1>3. Inv /\ One => OneLiveRun
  <2> SUFFICES ASSUME Inv, One, NEW p \in Beats PROVE Cardinality(Live(p)) <= 1
    BY DEF OneLiveRun
  <2>1. CASE Live(p) = {}
    <3>1. Cardinality(Live(p)) = 0
      BY <2>1, FS_EmptySet
    <3> QED
      BY <3>1
  <2>2. CASE Live(p) # {}
    <3>1. PICK r \in Live(p) : TRUE
      BY <2>2
    <3>2. Live(p) = {r}
      BY <3>1
    <3>3. Cardinality(Live(p)) = 1
      BY <3>2, FS_Singleton
    <3> QED
      BY <3>3
  <2> QED
    BY <2>1, <2>2
<1> QED
  BY <1>1, <1>2, <1>3, InvHolds, PTL DEF Spec

-----------------------------------------------------------------------------
(* What a batch has bought for a picture *)

Alone == \A b, c \in Batches : b = c

\* A run that has bought nothing and will not.
Dead(r) == run[r].bought = "no" /\ run[r].status # "queued"

Open(b, p) == {r \in Sent(<<b, p>>) : ~Dead(r)}

\* A run that resume never takes for a harmless failure.
Stuck(r) == run[r].status \notin {"queued", "running", "failed"}

Sticky(b, p) ==
    LET i == It(b, p) IN
    i.run # 0 /\ (Stuck(i.run) \/ (i.status = "unknown" /\ run[i.run].status = "failed"))

Unclaimed(r) == run[r].status = "queued" /\ worker[r] = "none"

\* A run inserted by a child that did not live to save its membership.
Orphan(b, p, r) ==
    /\ Alone /\ Unclaimed(r)
    /\ It(b, p).run = 0 /\ task[b] \in {"none", "cancelling"}
    /\ batch[b].status \in OPEN \cup {"interrupted"}

Inserted(b, p, r) ==
    child[b][p].at = "enqueued" /\ r = child[b][p].run /\ (Alone => Unclaimed(r))

\* What keeps a picture from being submitted again while r is open.
Held(b, p, r) ==
    \/ r = It(b, p).run
    \/ Inserted(b, p, r)
    \/ Sticky(b, p)
    \/ It(b, p).status \in {"completed", "skipped"}
    \/ Orphan(b, p, r)

\* One submission of a picture is open at a time, and something holds it.
OneOpen(b, p) ==
    /\ \A r, q \in Open(b, p) : r = q
    /\ \A r \in Open(b, p) : Held(b, p, r)

LEMMA OpenRow ==
  ASSUME NEW b \in Batches, NEW p \in Beats
  PROVE  /\ \A r : r \in Open(b, p) <=> /\ r \in DOMAIN run /\ run[r].beat = p /\ run[r].batch = b
                                        /\ run[r].by = "batch" /\ ~Dead(r)
         /\ \A r : r \in Open(b, p)' <=> /\ r \in DOMAIN run' /\ run'[r].beat = p /\ run'[r].batch = b
                                         /\ run'[r].by = "batch" /\ ~Dead(r)'
BY DEF Open, Sent, Of

\* A row that goes on from what it is: what has bought nothing stays so.
LEMMA DeadForGood ==
  ASSUME Inv, NEW r \in DOMAIN run, Becomes(r), Dead(r)
  PROVE  Dead(r)'
<1>1. RowOK(r) /\ run[r] \in RunRow
  BY RunState
<1> QED
  BY <1>1 DEF Becomes, Dead, RowOK, ACTIVE

LEMMA StuckForGood ==
  ASSUME NEW r \in DOMAIN run, Becomes(r), Stuck(r)
  PROVE  Stuck(r)'
BY DEF Becomes, Stuck

LEMMA OpenShrinks ==
  ASSUME Inv, RowsChange, NEW b \in Batches, NEW p \in Beats
  PROVE  Open(b, p)' \subseteq Open(b, p) /\ \A r \in DOMAIN run : Becomes(r)
<1>1. SUFFICES ASSUME NEW r \in Open(b, p)' PROVE r \in Open(b, p)
  BY DEF RowsChange
<1>2. /\ r \in DOMAIN run /\ run'[r].beat = p /\ run'[r].batch = b /\ run'[r].by = "batch"
      /\ ~Dead(r)' /\ Becomes(r)
  BY <1>1, OpenRow DEF RowsChange
<1>3. run[r].beat = p /\ run[r].batch = b /\ run[r].by = "batch"
  BY <1>2 DEF RowsChange, SameRows
<1> QED
  BY <1>2, <1>3, DeadForGood, OpenRow

LEMMA OpenGrows ==
  ASSUME Inv, NEW q \in Beats, NEW c \in Batches \cup {NoBatch}, NEW who \in {"batch", "user"}, AddsRow(q, c, who),
         NEW b \in Batches, NEW p \in Beats
  PROVE  /\ \A r \in Open(b, p)' : \/ r \in Open(b, p)
                                   \/ r = Len(run) + 1 /\ who = "batch" /\ b = c /\ p = q
         /\ \A r \in DOMAIN run : Becomes(r)
<1>0. Len(run) \in Nat /\ DOMAIN run = 1..Len(run)
  BY Shape DEF Inv
<1>1. \A r \in DOMAIN run : Becomes(r)
  BY DEF AddsRow, Becomes
<1>2. ASSUME NEW r \in Open(b, p)' PROVE r \in Open(b, p) \/ (r = Len(run) + 1 /\ who = "batch" /\ b = c /\ p = q)
  <2>1. r \in DOMAIN run' /\ run'[r].beat = p /\ run'[r].batch = b /\ run'[r].by = "batch" /\ ~Dead(r)'
    BY <1>2, OpenRow
  <2>2. CASE r \in DOMAIN run
    <3>1. run'[r] = run[r]
      BY <2>2 DEF AddsRow
    <3>2. ~Dead(r)
      BY <2>1, <3>1 DEF Dead
    <3> QED
      BY <2>1, <2>2, <3>1, <3>2, OpenRow
  <2>3. CASE r = Len(run) + 1
    BY <2>1, <2>3 DEF AddsRow, NewRow
  <2> QED
    BY <1>0, <2>1, <2>2, <2>3 DEF AddsRow
<1> QED
  BY <1>1, <1>2

\* What held an item's run holds it still.
LEMMA StickyKept ==
  ASSUME Inv, NEW b \in Batches, NEW p \in Beats, \A r \in DOMAIN run : Becomes(r), Sticky(b, p),
         It(b, p)'.run = It(b, p).run,
         It(b, p).status = "unknown" => It(b, p)'.status = "unknown"
  PROVE  Sticky(b, p)'
<1> DEFINE s == It(b, p).run
<1>1. s \in DOMAIN run /\ s # 0
  <2>1. It(b, p) \in ItemRows
    BY Shape DEF Inv
  <2> QED
    BY <2>1 DEF Sticky, ItemRows
<1>2. Becomes(s)
  BY <1>1
<1>3. CASE Stuck(s)
  BY <1>1, <1>2, <1>3, StuckForGood DEF Sticky, Stuck
<1>4. CASE It(b, p).status = "unknown" /\ run[s].status = "failed"
  <2>1. run'[s].status \in {"failed", "cancellation_requested"}
    BY <1>2, <1>4 DEF Becomes, ACTIVE
  <2> QED
    BY <1>1, <1>4, <2>1 DEF Sticky, Stuck
<1> QED
  BY <1>3, <1>4 DEF Sticky

\* An unclaimed run that no task is told of stays in the queue, or is given up.
LEMMA StaysUnclaimed ==
  ASSUME NEW r \in DOMAIN run, Becomes(r), Quiet(r), Unclaimed(r), Inv, ~Dead(r)'
  PROVE  Unclaimed(r)'
<1>1. RowOK(r) /\ run[r] \in RunRow
  BY RunState
<1> QED
  BY <1>1 DEF Becomes, Quiet, Unclaimed, Dead, RowOK, ACTIVE

\* An item and its child that a step leaves alone.
LEMMA HeldStill ==
  ASSUME Inv, NEW b \in Batches, NEW p \in Beats, OneOpen(b, p),
         \A r \in DOMAIN run : Becomes(r), Open(b, p)' \subseteq Open(b, p),
         It(b, p)' = It(b, p), child'[b][p] = child[b][p],
         task[b] \in {"none", "cancelling"} => task'[b] \in {"none", "cancelling"},
         batch[b].status \in OPEN \cup {"interrupted"} => batch'[b].status \in OPEN \cup {"interrupted"},
         \A r \in Open(b, p) : Inserted(b, p, r) \/ Orphan(b, p, r) => (Alone => Quiet(r))
  PROVE  OneOpen(b, p)'
<1> SUFFICES ASSUME NEW r \in Open(b, p)' PROVE Held(b, p, r)'
  BY DEF OneOpen
<1>1. r \in Open(b, p) /\ r \in DOMAIN run /\ ~Dead(r)' /\ Held(b, p, r) /\ Becomes(r)
  BY OpenRow DEF OneOpen
<1>2. CASE r = It(b, p).run
  BY <1>2 DEF Held
<1>3. CASE Inserted(b, p, r)
  <2>1. Alone => Unclaimed(r)'
    BY <1>1, <1>3, StaysUnclaimed DEF Inserted
  <2> QED
    BY <1>3, <2>1 DEF Held, Inserted
<1>4. CASE Sticky(b, p)
  BY <1>4, StickyKept DEF Held
<1>5. CASE It(b, p).status \in {"completed", "skipped"}
  BY <1>5 DEF Held
<1>6. CASE Orphan(b, p, r)
  <2>1. Unclaimed(r)'
    BY <1>1, <1>6, StaysUnclaimed DEF Orphan
  <2> QED
    BY <1>6, <2>1 DEF Held, Orphan
<1> QED
  BY <1>1, <1>2, <1>3, <1>4, <1>5, <1>6 DEF Held

\* Nothing happens to any run.
LEMMA AllQuiet ==
  ASSUME Inv, run' = run, NEW b \in Batches, NEW p \in Beats
  PROVE  /\ \A r \in DOMAIN run : Becomes(r) /\ (worker'[r] = worker[r] => Quiet(r))
         /\ Open(b, p)' = Open(b, p)
<1>1. \A r \in DOMAIN run : Becomes(r) /\ (worker'[r] = worker[r] => Quiet(r))
  BY DEF Becomes, Quiet
<1>2. \A r : r \in Open(b, p)' <=> r \in Open(b, p)
  BY OpenRow DEF Dead
<1>3. Open(b, p)' = Open(b, p)
  BY <1>2
<1> QED
  BY <1>1, <1>3

\* Scheduling the run of one item leaves the runs of the others unclaimed.
LEMMA ScheduledBeside ==
  ASSUME Inv, NEW c \in Batches, NEW q \in Beats, child[c][q].at # "none",
         NEW s \in DOMAIN run, run[s].beat = q, run' = run, \A t \in RunIds : t # s => worker'[t] = worker[t],
         NEW b \in Batches, NEW p \in Beats, b # c \/ p # q \/ child[c][q].at # "enqueued",
         NEW r \in Open(b, p), Inserted(b, p, r) \/ Orphan(b, p, r), Alone
  PROVE  Quiet(r)
<1>1. task[c] = "running" /\ b = c
  BY AtWork DEF Alone
<1>2. Inserted(b, p, r) /\ p # q
  BY <1>1 DEF Orphan, Inserted
<1>3. r \in DOMAIN run /\ run[r].beat = p /\ r \in RunIds
  BY OpenRow, RunState
<1>4. worker'[r] = worker[r]
  BY <1>2, <1>3
<1> QED
  BY <1>3, <1>4, AllQuiet

\* A child inserts nothing, saves no item, and no task is told of a run.
LEMMA LeaveAloneHolds ==
  ASSUME Inv, NEW c \in Batches, NEW q \in Beats, LeaveAlone(c, q) \/ DispatchCheck(c, q),
         NEW b \in Batches, NEW p \in Beats, OneOpen(b, p)
  PROVE  OneOpen(b, p)'
<1>1. UNCHANGED <<run, worker, batch, task>> /\ child[c][q].at = "waiting"
  BY DEF LeaveAlone, DispatchCheck, DispatchTurn, runVars
<1>2. \A d \in Batches, o \in Beats : d # c \/ o # q => child'[d][o] = child[d][o]
  <2>1. PICK k \in {NoChild, [at |-> "checked", run |-> 0]} : SetChild(c, q, k)
    BY DEF LeaveAlone, DispatchCheck
  <2>2. BatchTypes /\ k \in ChildRows
    BY <2>1, Shape DEF Inv, NoChild, ChildRows
  <2> QED
    BY <2>1, <2>2, ChildSet
<1>3. It(b, p)' = It(b, p)
  BY <1>1 DEF It
<1>4. /\ \A r \in DOMAIN run : Becomes(r) /\ Quiet(r)
      /\ Open(b, p)' = Open(b, p) /\ Open(b, p) \subseteq DOMAIN run
  BY <1>1, AllQuiet, OpenRow
<1>5. CASE b # c \/ p # q
  <2>1. child'[b][p] = child[b][p]
    BY <1>2, <1>5
  <2> QED
    BY <1>1, <1>3, <1>4, <2>1, HeldStill
<1>6. CASE b = c /\ p = q
  <2>1. ASSUME NEW r \in Open(b, p)' PROVE Held(b, p, r)'
    <3>1. Held(b, p, r) /\ ~Inserted(b, p, r)
      BY <1>1, <1>4, <1>6, <2>1 DEF OneOpen, Inserted
    <3> QED
      BY <1>1, <1>3, <3>1 DEF Held, Sticky, Stuck, Orphan, Unclaimed
  <2> QED
    BY <1>4, <2>1 DEF OneOpen
<1> QED
  BY <1>5, <1>6

LEMMA FollowHolds ==
  ASSUME Inv, NEW c \in Batches, NEW q \in Beats, Follow(c, q), NEW b \in Batches, NEW p \in Beats, OneOpen(b, p)
  PROVE  OneOpen(b, p)'
<1> DEFINE s == It(c, q).run
           k == [at |-> "polling", run |-> s]
<1>1. /\ UNCHANGED <<run, batch, task>> /\ SetChild(c, q, k) /\ child[c][q].at = "waiting"
      /\ It(c, q).status = "running"
  BY DEF Follow
<1>2. s \in DOMAIN run /\ run[s].beat = q
  BY <1>1, AtWork DEF ItemOK, ItemRows
<1>3. /\ child'[c][q] = k
      /\ \A d \in Batches, o \in Beats : d # c \/ o # q => child'[d][o] = child[d][o]
  <2>1. BatchTypes /\ k \in ChildRows
    BY <1>2, Shape DEF Inv, ChildRows
  <2> QED
    BY <1>1, <2>1, ChildSet
<1>4. It(b, p)' = It(b, p)
  BY <1>1 DEF It
<1>5. \A t \in RunIds : t # s => worker'[t] = worker[t]
  <2>1. CASE worker' = worker
    BY <2>1
  <2>2. CASE worker' = Scheduled(s)
    BY <1>2, <2>2, RunState DEF Scheduled
  <2> QED
    BY <2>1, <2>2 DEF Follow
<1>6. /\ \A r \in DOMAIN run : Becomes(r)
      /\ Open(b, p)' = Open(b, p) /\ Open(b, p) \subseteq DOMAIN run
  BY <1>1, AllQuiet, OpenRow
<1>7. \A r \in Open(b, p) : Inserted(b, p, r) \/ Orphan(b, p, r) => (Alone => Quiet(r))
  BY <1>1, <1>2, <1>5, ScheduledBeside
<1>8. CASE b # c \/ p # q
  <2>1. child'[b][p] = child[b][p]
    BY <1>3, <1>8
  <2> QED
    BY <1>1, <1>4, <1>6, <1>7, <2>1, HeldStill
<1>9. CASE b = c /\ p = q
  <2>1. ASSUME NEW r \in Open(b, p)' PROVE Held(b, p, r)'
    <3>1. Held(b, p, r) /\ ~Inserted(b, p, r) /\ ~Orphan(b, p, r)
      BY <1>1, <1>6, <1>9, <2>1, AtWork DEF OneOpen, Inserted, Orphan
    <3> QED
      BY <1>1, <1>4, <3>1 DEF Held, Sticky, Stuck
  <2> QED
    BY <1>6, <2>1 DEF OneOpen
<1> QED
  BY <1>8, <1>9

\* An item that may be dispatched has no submission open.
LEMMA NothingOpen ==
  ASSUME Inv, NEW b \in Batches, NEW p \in Beats, OneOpen(b, p), child[b][p].at = "checked"
  PROVE  Open(b, p) = {}
<1> SUFFICES ASSUME NEW r \in Open(b, p) PROVE FALSE
  OBVIOUS
<1>1. It(b, p).run = 0 /\ task[b] = "running" /\ It(b, p).status = "pending"
  BY StillMay DEF MayDispatch
<1>2. r # 0
  BY OpenRow, RunState DEF RunIds
<1>3. ~Inserted(b, p, r) /\ ~Sticky(b, p) /\ ~Orphan(b, p, r)
  BY <1>1 DEF Inserted, Sticky, Orphan
<1> QED
  BY <1>1, <1>2, <1>3 DEF OneOpen, Held

LEMMA DispatchHolds ==
  ASSUME Inv, NEW c \in Batches, NEW q \in Beats, Dispatch(c, q), NEW b \in Batches, NEW p \in Beats, OneOpen(b, p)
  PROVE  OneOpen(b, p)'
<1>0. PICK n : n = Len(run) + 1
  OBVIOUS
<1> DEFINE k == [at |-> "enqueued", run |-> n]
<1>1. /\ UNCHANGED <<worker, batch, task>> /\ SetChild(c, q, k) /\ AddsRow(q, c, "batch")
      /\ child[c][q].at = "checked"
  BY <1>0, DispatchStep DEF Dispatch
<1>2. Len(run) \in Nat /\ DOMAIN run = 1..Len(run) /\ BatchTypes /\ DOMAIN run' = 1..n /\ n \in RunIds
  BY <1>0, <1>1, Shape DEF Inv, AddsRow, RunIds
<1>3. /\ child'[c][q] = k
      /\ \A d \in Batches, o \in Beats : d # c \/ o # q => child'[d][o] = child[d][o]
  <2> DEFINE S == ChildRows \cup {k}
  <2>1. k \in S /\ ChildRows \subseteq S
    OBVIOUS
  <2> HIDE DEF S, k
  <2> QED
    BY <1>1, <1>2, <2>1, ChildSet
<1>4. It(b, p)' = It(b, p)
  BY <1>1 DEF It
<1>5. /\ \A r \in Open(b, p)' : r \in Open(b, p) \/ (r = n /\ b = c /\ p = q)
      /\ \A r \in DOMAIN run : Becomes(r)
  BY <1>0, <1>1, OpenGrows
<1>6. CASE b # c \/ p # q
  <2>1. child'[b][p] = child[b][p]
    BY <1>3, <1>6
  <2>2. \A r \in Open(b, p) : Quiet(r)
    BY <1>1, OpenRow DEF Quiet, AddsRow
  <2> QED
    BY <1>1, <1>4, <1>5, <1>6, <2>1, <2>2, HeldStill
<1>7. CASE b = c /\ p = q
  <2>1. \A r \in Open(b, p)' : r = n
    BY <1>1, <1>5, <1>7, NothingOpen
  <2>2. Inserted(b, p, n)'
    <3>1. worker[n] = "none"
      BY <1>0, <1>2, RunState DEF RunsTypeOK
    <3>2. run'[n].status = "queued"
      BY <1>0, <1>1 DEF AddsRow, NewRow
    <3>3. Unclaimed(n)'
      BY <1>1, <3>1, <3>2 DEF Unclaimed
    <3> QED
      BY <1>0, <1>2, <1>3, <1>7, <3>3 DEF Inserted
  <2> QED
    BY <2>1, <2>2 DEF OneOpen, Held
<1> QED
  BY <1>6, <1>7

\* An item that is saved as i holds r.
HeldBy(i, r) ==
    \/ r = i.run
    \/ i.run # 0 /\ (Stuck(i.run) \/ (i.status = "unknown" /\ run[i.run].status = "failed"))

LEMMA ItemStepHolds ==
  ASSUME Inv, NEW c \in Batches, NEW q \in Beats, NEW i \in ItemRows, NEW k \in ChildRows,
         SetItem(c, q, i), SetChild(c, q, k), UNCHANGED <<run, task>>,
         \A r \in Open(c, q) : HeldBy(i, r),
         NEW b \in Batches, NEW p \in Beats, OneOpen(b, p),
         \A r \in Open(b, p) : /\ b # c \/ p # q
                               /\ Inserted(b, p, r) \/ Orphan(b, p, r)
                               => (Alone => Quiet(r))
  PROVE  OneOpen(b, p)'
<1>1. BatchTypes
  BY Shape DEF Inv
<1>2. /\ child'[c][q] = k
      /\ \A d \in Batches, o \in Beats : d # c \/ o # q => child'[d][o] = child[d][o]
  BY <1>1, ChildSet
<1>3. /\ It(c, q)' = i /\ batch'[b].status = batch[b].status
      /\ \A d \in Batches, o \in Beats : d # c \/ o # q => It(d, o)' = It(d, o)
  BY <1>1, ItemSaved
<1>4. /\ \A r \in DOMAIN run : Becomes(r)
      /\ Open(b, p)' = Open(b, p) /\ Open(b, p) \subseteq DOMAIN run
  BY AllQuiet, OpenRow
<1>5. CASE b # c \/ p # q
  <2>1. child'[b][p] = child[b][p] /\ It(b, p)' = It(b, p)
    BY <1>2, <1>3, <1>5
  <2> QED
    BY <1>3, <1>4, <1>5, <2>1, HeldStill
<1>6. CASE b = c /\ p = q
  <2>1. ASSUME NEW r \in Open(b, p)' PROVE Held(b, p, r)'
    <3>1. HeldBy(i, r)
      BY <1>4, <1>6
    <3> QED
      BY <1>3, <1>6, <3>1 DEF Held, HeldBy, Sticky, Stuck
  <2> QED
    BY <1>4, <2>1 DEF OneOpen
<1> QED
  BY <1>5, <1>6

LEMMA SaveMembershipHolds ==
  ASSUME Inv, NEW c \in Batches, NEW q \in Beats, SaveMembership(c, q), OneOpen(c, q),
         NEW b \in Batches, NEW p \in Beats, OneOpen(b, p)
  PROVE  OneOpen(b, p)'
<1>0. PICK s : s = child[c][q].run
  OBVIOUS
<1> DEFINE i == Item("running", s)
           k == [at |-> "polling", run |-> s]
<1>1. /\ child[c][q].at = "enqueued" /\ ItemOK(c, q) /\ child[c][q] \in ChildRows
      /\ It(c, q).status = "pending" /\ It(c, q).run = 0 /\ task[c] = "running"
  BY AtWork DEF SaveMembership, ItemOK
<1>2. s \in DOMAIN run /\ s # 0 /\ run[s].beat = q
  BY <1>0, <1>1 DEF ItemOK, ChildRows
<1>3. i \in ItemRows /\ k \in ChildRows /\ i.run = s
  BY <1>2 DEF ItemRows, ChildRows, Item, ItemStatus
<1>4. SetItem(c, q, i) /\ SetChild(c, q, k) /\ UNCHANGED <<run, task>> /\ worker' = Scheduled(s)
  BY <1>0 DEF SaveMembership
<1>5. \A t \in RunIds : t # s => worker'[t] = worker[t]
  BY <1>2, <1>4, RunState DEF Scheduled
<1>6. \A r \in Open(c, q) : HeldBy(i, r)
  <2> SUFFICES ASSUME NEW r \in Open(c, q) PROVE r = s
    BY <1>3 DEF HeldBy
  <2>1. r # 0
    BY OpenRow, RunState DEF RunIds
  <2> QED
    BY <1>0, <1>1, <2>1 DEF OneOpen, Held, Inserted, Sticky, Orphan
<1>7. \A r \in Open(b, p) : /\ b # c \/ p # q
                            /\ Inserted(b, p, r) \/ Orphan(b, p, r)
                            => (Alone => Quiet(r))
  BY <1>1, <1>2, <1>4, <1>5, ScheduledBeside
<1> HIDE DEF i, k
<1> QED
  BY <1>3, <1>4, <1>6, <1>7, ItemStepHolds

LEMMA SettleHolds ==
  ASSUME Inv, NEW c \in Batches, NEW q \in Beats, Settle(c, q), OneOpen(c, q),
         NEW b \in Batches, NEW p \in Beats, OneOpen(b, p)
  PROVE  OneOpen(b, p)'
<1>0. PICK s : s = child[c][q].run
  OBVIOUS
<1> DEFINE i == Item(Outcome(run[s].status), s)
<1>1. /\ child[c][q].at = "polling" /\ ItemOK(c, q) /\ child[c][q] \in ChildRows
      /\ It(c, q).status = "running" /\ It(c, q).run = s /\ task[c] = "running"
  BY <1>0, AtWork DEF Settle, ItemOK
<1>2. s \in DOMAIN run /\ s # 0
  BY <1>0, <1>1 DEF ItemOK, ChildRows
<1>3. i \in ItemRows /\ NoChild \in ChildRows /\ i.run = s
  BY <1>2 DEF ItemRows, ChildRows, Item, ItemStatus, NoChild, Outcome
<1>4. SetItem(c, q, i) /\ SetChild(c, q, NoChild) /\ UNCHANGED <<run, worker, task>>
  BY <1>0 DEF Settle, runVars
<1>5. \A r \in Open(c, q) : HeldBy(i, r)
  <2> SUFFICES ASSUME NEW r \in Open(c, q) PROVE HeldBy(i, r)
    OBVIOUS
  <2>1. r = s \/ Stuck(s)
    BY <1>1 DEF OneOpen, Held, Inserted, Sticky, Orphan
  <2> HIDE DEF i
  <2> QED
    BY <1>2, <1>3, <2>1 DEF HeldBy
<1>6. \A r \in Open(b, p) : Quiet(r)
  BY <1>4, AllQuiet, OpenRow
<1> HIDE DEF i
<1> QED
  BY <1>3, <1>4, <1>5, <1>6, ItemStepHolds

\* What the except branch retains holds what is open.
LEMMA ExceptedHolds ==
  ASSUME Inv, NEW c \in Batches, NEW q \in Beats, NEW known \in {0} \cup DOMAIN run, Excepted(c, q, known),
         UNCHANGED worker, \A r \in Open(c, q) : HeldBy(Retained(c, q, known), r),
         NEW b \in Batches, NEW p \in Beats, OneOpen(b, p)
  PROVE  OneOpen(b, p)'
<1> DEFINE i == Retained(c, q, known)
<1>1. i \in ItemRows /\ NoChild \in ChildRows
  BY RunState, RetainedItem DEF NoChild, ChildRows
<1>2. SetItem(c, q, i) /\ SetChild(c, q, NoChild) /\ UNCHANGED <<run, task>>
  BY DEF Excepted, Retained, runVars
<1>3. \A r \in Open(b, p) : Quiet(r)
  BY <1>2, AllQuiet, OpenRow
<1> HIDE DEF i
<1> QED
  BY <1>1, <1>2, <1>3, ItemStepHolds DEF i

LEMMA DispatchRefusedHolds ==
  ASSUME Inv, NEW c \in Batches, NEW q \in Beats, DispatchRefused(c, q), OneOpen(c, q),
         NEW b \in Batches, NEW p \in Beats, OneOpen(b, p)
  PROVE  OneOpen(b, p)'
<1>1. Excepted(c, q, 0) /\ Open(c, q) = {} /\ UNCHANGED worker
  BY NothingOpen DEF DispatchRefused, Excepted, runVars
<1> QED
  BY <1>1, ExceptedHolds

LEMMA StoreFaultHolds ==
  ASSUME Inv, "fault" \in Hazards => Alone /\ "retry" \notin Hazards,
         NEW c \in Batches, NEW q \in Beats, StoreFault(c, q), OneOpen(c, q),
         NEW b \in Batches, NEW p \in Beats, OneOpen(b, p)
  PROVE  OneOpen(b, p)'
<1> DEFINE linked == Tagged(c, q) \cap Live(q)
<1>1. "fault" \in Hazards /\ child[c][q].at \in {"enqueued", "polling"} /\ Alone /\ "retry" \notin Hazards
  BY DEF StoreFault, Trouble
<1>2. ItemOK(c, q) /\ child[c][q] \in ChildRows /\ task[c] = "running" /\ TypeOK
  BY <1>1, AtWork, RunState
<1>3. linked \subseteq DOMAIN run /\ 0 \notin DOMAIN run
      /\ \A f \in linked : run[f].beat = q /\ run[f].batch = c /\ run[f].status \in ACTIVE
  BY RunState DEF Tagged, Live, Of, RunIds
<1>4. CASE child[c][q].at = "enqueued" /\ Excepted(c, q, 0)
  <2> DEFINE i == Retained(c, q, 0)
  <2>1. /\ linked # {} => i.status = "unknown" /\ i.run \in linked /\ \A f \in linked : i.run <= f
    BY <1>2, RetainedItem
  <2>2. ASSUME NEW r \in Open(c, q) PROVE HeldBy(i, r)
    <3>1. /\ r \in DOMAIN run /\ run[r].beat = q /\ run[r].batch = c /\ run[r].by = "batch"
          /\ RowOK(r)
      BY <2>2, OpenRow, RunState
    <3>2. run[r].status = "queued"
      BY <1>1, <1>2, <1>3, <1>4, <2>2, <3>1 DEF ItemOK, OneOpen, Held, Inserted, Sticky, Orphan, Unclaimed
    <3>3. r \in linked
      BY <3>1, <3>2 DEF Tagged, Live, Of, ACTIVE
    <3>4. i.run \in linked /\ i.run <= r
      BY <2>1, <3>3
    <3> HIDE DEF i
    <3>5. CASE i.run # r
      <4>1. i.run \in 1..(r - 1)
        BY <1>3, <3>1, <3>4, <3>5, Shape DEF Inv
      <4>2. run[i.run].status \notin {"queued", "running"} /\ run[i.run].status \in ACTIVE
        BY <1>3, <3>1, <3>4, <4>1 DEF RowOK
      <4> QED
        BY <1>3, <3>4, <4>2 DEF HeldBy, Stuck, ACTIVE
    <3> QED
      BY <3>5 DEF HeldBy
  <2>3. UNCHANGED worker
    BY <1>4 DEF Excepted, runVars
  <2> HIDE DEF i
  <2> QED
    BY <1>4, <2>2, <2>3, ExceptedHolds DEF i
<1>5. CASE child[c][q].at = "polling" /\ Excepted(c, q, child[c][q].run)
  <2>0. PICK s : s = child[c][q].run
    OBVIOUS
  <2> DEFINE i == Retained(c, q, s)
  <2>1. s \in DOMAIN run /\ s # 0 /\ It(c, q).run = s /\ It(c, q).status = "running"
    BY <1>2, <1>5, <2>0 DEF ItemOK, ChildRows
  <2>2. /\ linked # {} => i.run \in linked
        /\ linked = {} => i = Item("failed", s)
    BY <1>2, <2>1, RetainedItem
  <2>3. ASSUME NEW r \in Open(c, q) PROVE HeldBy(i, r)
    <3>1. CASE linked = {}
      <4>1. r = s \/ Stuck(s)
        BY <1>2, <1>5, <2>1, <2>3 DEF OneOpen, Held, Inserted, Sticky, Orphan
      <4>2. i.run = s
        BY <2>2, <3>1 DEF Item
      <4> HIDE DEF i
      <4> QED
        BY <2>1, <4>1, <4>2 DEF HeldBy
    <3>2. CASE linked # {}
      <4>0. PICK f : f = i.run
        OBVIOUS
      <4>1. f \in DOMAIN run /\ f # 0 /\ run[f].beat = q /\ run[f].batch = c /\ run[f].status \in ACTIVE
        BY <1>3, <2>2, <3>2, <4>0
      <4>2. RowOK(f) /\ run[f] \in RunRow
        BY <4>1, RunState
      <4>3. run[f].by = "batch"
        BY <1>1, <4>1, <4>2 DEF RowOK, RunRow
      <4>4. CASE Dead(f)
        <5>1. Stuck(f)
          BY <4>1, <4>2, <4>4 DEF Dead, RowOK, Stuck, ACTIVE
        <5> HIDE DEF i
        <5> QED
          BY <4>0, <4>1, <5>1 DEF HeldBy
      <4>5. CASE ~Dead(f)
        <5>1. f = r
          BY <2>3, <4>1, <4>3, <4>5, OpenRow DEF OneOpen
        <5> HIDE DEF i
        <5> QED
          BY <4>0, <5>1 DEF HeldBy
      <4> QED
        BY <4>4, <4>5
    <3> QED
      BY <3>1, <3>2
  <2>4. UNCHANGED worker /\ Excepted(c, q, s)
    BY <1>5, <2>0 DEF Excepted, runVars
  <2> HIDE DEF i
  <2> QED
    BY <2>1, <2>3, <2>4, ExceptedHolds DEF i
<1> QED
  BY <1>4, <1>5 DEF StoreFault

\* No run changes, and what was open is held.
LEMMA HeldAnew ==
  ASSUME Inv, UNCHANGED run, NEW b \in Batches, NEW p \in Beats, OneOpen(b, p),
         \A r \in Open(b, p) : Held(b, p, r)'
  PROVE  OneOpen(b, p)'
BY AllQuiet DEF OneOpen

LEMMA OtherBatchHolds ==
  ASSUME Inv, UNCHANGED <<run, worker>>, NEW b \in Batches, NEW p \in Beats, OneOpen(b, p),
         batch'[b] = batch[b], task'[b] = task[b], child'[b] = child[b]
  PROVE  OneOpen(b, p)'
<1>1. /\ \A r \in DOMAIN run : Becomes(r) /\ Quiet(r)
      /\ Open(b, p)' = Open(b, p) /\ Open(b, p) \subseteq DOMAIN run
  BY AllQuiet, OpenRow
<1>2. It(b, p)' = It(b, p)
  BY DEF It
<1> QED
  BY <1>1, <1>2, HeldStill

\* Who holds an open run, when its batch has no child.
LEMMA HeldChildless ==
  ASSUME Inv, NEW b \in Batches, NEW p \in Beats, NEW r \in Open(b, p), OneOpen(b, p),
         task[b] # "running" \/ LockFree(b)
  PROVE  /\ \/ r = It(b, p).run
            \/ Sticky(b, p)
            \/ It(b, p).status \in {"completed", "skipped"}
            \/ Orphan(b, p, r) /\ task[b] # "running"
         /\ ItemOK(b, p)
<1>1. ItemOK(b, p) /\ BatchOK(b)
  BY DEF Inv, ItemsOK
<1>2. ~Inserted(b, p, r)
  BY <1>1 DEF Inserted, LockFree, BatchOK, NoChild
<1> QED
  BY <1>1, <1>2 DEF OneOpen, Held, Orphan

LEMMA TaskStartHolds ==
  ASSUME Inv, NEW c \in Batches, TaskStart(c), NEW b \in Batches, NEW p \in Beats, OneOpen(b, p)
  PROVE  OneOpen(b, p)'
<1>1. /\ UNCHANGED <<run, worker, batch>> /\ task[c] = "scheduled"
      /\ \A d \in Batches : d # c => task'[d] = task[d] /\ child'[d] = child[d]
  BY Shape DEF Inv, BatchTypes, TaskStart, runVars
<1>2. CASE b = c
  <2>1. ASSUME NEW r \in Open(b, p) PROVE Held(b, p, r)'
    <3>1. r = It(b, p).run \/ Sticky(b, p) \/ It(b, p).status \in {"completed", "skipped"}
      BY <1>1, <1>2, <2>1, HeldChildless DEF Orphan
    <3>2. It(b, p)' = It(b, p)
      BY <1>1 DEF It
    <3> QED
      BY <1>1, <3>1, <3>2 DEF Held, Sticky, Stuck
  <2> QED
    BY <1>1, <2>1, HeldAnew
<1> QED
  BY <1>1, <1>2, OtherBatchHolds

\* A task ends: what its items name stays, and an open run is left an orphan.
LEMMA EndHolds ==
  ASSUME Inv, NEW c \in Batches, NEW s, NEW items, EndTask(c, s, items), UNCHANGED <<run, worker>>,
         \A d \in Batches : d # c => child'[d] = child[d],
         \A q \in Beats : /\ items[q].run = It(c, q).run
                          /\ It(c, q).status \notin {"pending", "running"} => items[q].status = It(c, q).status,
         task[c] # "running" => s = "interrupted",
         NEW b \in Batches, NEW p \in Beats, OneOpen(b, p),
         \A r \in Open(b, p) : b = c /\ Inserted(b, p, r) => Alone /\ s = "interrupted"
  PROVE  OneOpen(b, p)'
<1>1. /\ task'[c] = "none" /\ batch'[c].status = s /\ \A q \in Beats : It(c, q)' = items[q]
      /\ \A d \in Batches : d # c => task'[d] = task[d] /\ batch'[d] = batch[d]
  BY Shape DEF Inv, BatchTypes, EndTask, It
<1>2. CASE b = c
  <2>1. ASSUME NEW r \in Open(b, p) PROVE Held(b, p, r)'
    <3>1. /\ Held(b, p, r) /\ ItemOK(b, p)
      BY <2>1 DEF OneOpen, Inv, ItemsOK
    <3>2. It(b, p)' = items[p] /\ items[p].run = It(b, p).run
      BY <1>1, <1>2
    <3>3. CASE r = It(b, p).run
      BY <3>2, <3>3 DEF Held
    <3>4. CASE Inserted(b, p, r)
      BY <1>1, <1>2, <2>1, <3>1, <3>2, <3>4 DEF Held, Inserted, Orphan, Unclaimed, ItemOK
    <3>5. CASE Sticky(b, p)
      BY <1>2, <3>2, <3>5 DEF Held, Sticky, Stuck
    <3>6. CASE It(b, p).status \in {"completed", "skipped"}
      BY <1>2, <3>2, <3>6 DEF Held
    <3>7. CASE Orphan(b, p, r)
      BY <1>1, <1>2, <3>2, <3>7 DEF Held, Orphan, Unclaimed
    <3> QED
      BY <3>1, <3>3, <3>4, <3>5, <3>6, <3>7 DEF Held
  <2> QED
    BY <2>1, HeldAnew
<1> QED
  BY <1>1, <1>2, OtherBatchHolds

LEMMA TaskEndHolds ==
  ASSUME Inv, "fault" \in Hazards => Alone,
         NEW c \in Batches, TaskFinish(c) \/ TaskInterrupted(c) \/ TaskFails(c),
         NEW b \in Batches, NEW p \in Beats, OneOpen(b, p)
  PROVE  OneOpen(b, p)'
<1>1. CASE TaskFinish(c)
  <2>1. /\ EndTask(c, FinalStatus(batch[c].item), batch[c].item) /\ UNCHANGED <<run, worker, child>>
        /\ task[c] = "running" /\ Childless(c)
    BY <1>1 DEF TaskFinish, runVars
  <2>2. \A r : ~(b = c /\ Inserted(b, p, r))
    BY <2>1 DEF Childless, Inserted, NoChild
  <2>3. \A q \in Beats : batch[c].item[q] = It(c, q)
    BY DEF It
  <2> QED
    BY <2>1, <2>2, <2>3, EndHolds
<1>2. CASE TaskInterrupted(c)
  <2>1. /\ EndTask(c, "interrupted", batch[c].item) /\ UNCHANGED <<run, worker, child>>
        /\ task[c] = "cancelling"
    BY <1>2 DEF TaskInterrupted, runVars
  <2>2. \A r : ~(b = c /\ Inserted(b, p, r))
    BY <2>1, AtWork DEF Inserted
  <2>3. \A q \in Beats : batch[c].item[q] = It(c, q)
    BY DEF It
  <2> QED
    BY <2>1, <2>2, <2>3, EndHolds
<1>3. CASE TaskFails(c)
  <2> DEFINE items == [q \in Beats |-> Broken(It(c, q))]
  <2>1. /\ EndTask(c, "interrupted", items) /\ UNCHANGED <<run, worker>> /\ Alone
        /\ \A d \in Batches : d # c => child'[d] = child[d]
    BY <1>3, Shape DEF Inv, BatchTypes, TaskFails, Trouble, runVars
  <2>2. \A q \in Beats : /\ items[q].run = It(c, q).run
                         /\ It(c, q).status \notin {"pending", "running"} => items[q].status = It(c, q).status
    BY DEF Broken, Item
  <2> HIDE DEF items
  <2> QED
    BY <2>1, <2>2, EndHolds
<1> QED
  BY <1>1, <1>2, <1>3

LEMMA StopHolds ==
  ASSUME Inv, NEW c \in Batches, Stop(c), NEW b \in Batches, NEW p \in Beats, OneOpen(b, p)
  PROVE  OneOpen(b, p)'
<1> DEFINE items == [q \in Beats |-> IF q \in Pending(c) THEN Item("cancelled", It(c, q).run) ELSE It(c, q)]
<1>1. /\ UNCHANGED <<run, worker, task, child>> /\ LockFree(c)
      /\ batch' = [batch EXCEPT ![c] = [status |-> "stopping", item |-> items]]
  BY DEF Stop, runVars
<1>2. \A q \in Beats : /\ items[q].run = It(c, q).run
                       /\ It(c, q).status # "pending" => items[q] = It(c, q)
  BY DEF Item, Pending
<1> HIDE DEF items
<1>3. /\ batch'[c].status = "stopping" /\ \A q \in Beats : It(c, q)' = items[q]
      /\ \A d \in Batches : d # c => batch'[d] = batch[d]
  BY <1>1, Shape DEF Inv, BatchTypes, It
<1>4. CASE b = c
  <2>1. ASSUME NEW r \in Open(b, p) PROVE Held(b, p, r)'
    <3>1. /\ \/ r = It(b, p).run \/ Sticky(b, p) \/ It(b, p).status \in {"completed", "skipped"}
             \/ Orphan(b, p, r)
          /\ ItemOK(b, p)
      BY <1>1, <1>4, <2>1, HeldChildless
    <3>2. It(b, p)' = items[p] /\ items[p].run = It(b, p).run
          /\ (It(b, p).status # "pending" => items[p] = It(b, p))
      BY <1>2, <1>3, <1>4
    <3> QED
      BY <1>1, <1>3, <1>4, <3>1, <3>2 DEF Held, Sticky, Stuck, Orphan, Unclaimed, OPEN
  <2> QED
    BY <1>1, <2>1, HeldAnew
<1> QED
  BY <1>1, <1>3, <1>4, OtherBatchHolds

LEMMA CreateHolds ==
  ASSUME Inv, NEW c \in Batches, NEW want \in Wants, Create(c, want), NEW b \in Batches, NEW p \in Beats, OneOpen(b, p)
  PROVE  OneOpen(b, p)'
<1>1. /\ UNCHANGED <<run, worker, child>> /\ batch[c].status = "none"
      /\ \A d \in Batches : d # c => batch'[d] = batch[d] /\ task'[d] = task[d]
  BY CreateStep
<1>2. CASE b = c
  <2>1. Open(b, p) = {}
    BY <1>1, <1>2, OpenRow, RunState DEF RowOK
  <2> QED
    BY <1>1, <2>1, HeldAnew
<1> QED
  BY <1>1, <1>2, OtherBatchHolds

LEMMA ResumeHolds ==
  ASSUME Inv, NEW c \in Batches, NEW want \in Wants, Resume(c, want), NEW b \in Batches, NEW p \in Beats, OneOpen(b, p)
  PROVE  OneOpen(b, p)'
<1>1. /\ UNCHANGED <<run, worker, child>> /\ task[c] = "none"
      /\ \A q \in Beats : It(c, q)' = ResumedItem(c, q, want[q])
      /\ \A d \in Batches : d # c => batch'[d] = batch[d] /\ task'[d] = task[d]
  BY ResumeStep
<1>2. CASE b = c
  <2> DEFINE i == It(b, p)
  <2>0. PICK j : j = ResumedItem(b, p, want[p])
    OBVIOUS
  <2>1. ASSUME NEW r \in Open(b, p) PROVE Held(b, p, r)'
    <3>1. /\ r = i.run \/ Sticky(b, p) \/ i.status \in {"completed", "skipped"} \/ Orphan(b, p, r)
          /\ r # 0 /\ r \in DOMAIN run /\ RowOK(r) /\ ItemOK(b, p) /\ ~Dead(r) /\ run[r].beat = p
      <4>1. r \in DOMAIN run /\ ~Dead(r) /\ run[r].beat = p /\ RowOK(r) /\ r # 0 /\ ItemOK(b, p)
        BY <2>1, OpenRow, RunState DEF Inv, ItemsOK, RunIds
      <4> QED
        BY <1>1, <1>2, <2>1, <4>1, HeldChildless
    <3>2. It(b, p)' = j
      BY <1>1, <1>2, <2>0
    <3>3. /\ i.status \in {"completed", "skipped"} => j = i
          /\ i.run # 0 /\ j.run # i.run => run[i.run].status = "failed" /\ i.status # "unknown"
          /\ i.run # 0 /\ run[i.run].status = "failed" /\ i.status = "unknown" => j.status = "unknown"
          /\ i.run = 0 /\ i.status \notin {"completed", "skipped"} => j = Fresh(p, want[p]) \/ j = Item("skipped", 0)
      <4>1. want[p] \in {"pending", "failed", "skipped", "gone"}
        BY DEF Wants
      <4> QED
        BY <2>0, <4>1, ResumedItemOK
    <3>4. CASE r = i.run
      <4>1. j.run = r
        BY <3>1, <3>3, <3>4 DEF RowOK, Dead
      <4> QED
        BY <3>2, <4>1 DEF Held
    <3>5. CASE i.status \in {"completed", "skipped"}
      BY <3>2, <3>3, <3>5 DEF Held
    <3>6. CASE Sticky(b, p)
      <4>1. j.run = i.run /\ i.run # 0
        BY <3>3, <3>6 DEF Sticky, Stuck
      <4>2. Stuck(i.run) \/ (j.status = "unknown" /\ run[i.run].status = "failed")
        BY <3>3, <3>6 DEF Sticky
      <4> QED
        BY <1>1, <3>2, <4>1, <4>2 DEF Held, Sticky, Stuck
    <3>7. CASE Orphan(b, p, r) /\ i.status \notin {"completed", "skipped"}
      <4>1. i.run = 0 /\ run[r].status = "queued"
        BY <3>7 DEF Orphan, Unclaimed
      <4>2. CASE j = Item("skipped", 0)
        BY <3>2, <4>2 DEF Held, Item
      <4>3. CASE j = Fresh(p, want[p])
        <5>0. PICK f : f = First(Live(p))
          OBVIOUS
        <5>1. r \in Live(p) /\ Live(p) \subseteq DOMAIN run
          BY <3>1, <4>1 DEF Live, Of, ACTIVE
        <5>2. Len(run) \in Nat /\ Live(p) \in SUBSET (1..Len(run)) /\ Live(p) # {}
          BY <5>1, Shape DEF Inv
        <5>3. f \in Live(p) /\ f <= r
          BY <5>0, <5>1, <5>2, FirstLast
        <5>4. j = Item("running", f)
          BY <4>3, <5>0, <5>2 DEF Fresh
        <5>5. CASE f # r
          <6>1. f \in 1..(r - 1) /\ f # 0 /\ f \in DOMAIN run
            BY <5>1, <5>2, <5>3, <5>5
          <6>2. run[r].by = "batch" /\ run[f].beat = run[r].beat /\ run[f].status \in ACTIVE
            BY <2>1, <3>1, <5>3, OpenRow DEF Live, Of
          <6>3. run[f].status = "cancellation_requested"
            BY <3>1, <6>1, <6>2 DEF RowOK, ACTIVE
          <6> QED
            BY <1>1, <3>2, <5>4, <6>1, <6>3 DEF Held, Sticky, Stuck, Item
        <5> QED
          BY <3>2, <5>4, <5>5 DEF Held, Item
      <4> QED
        BY <3>3, <3>7, <4>1, <4>2, <4>3
    <3> QED
      BY <3>1, <3>4, <3>5, <3>6, <3>7
  <2> QED
    BY <1>1, <2>1, HeldAnew
<1> QED
  BY <1>1, <1>2, OtherBatchHolds

LEMMA TrashBeginHolds ==
  ASSUME Inv, "trash" \in Hazards => Alone, NEW u \in Users, TrashBegin(u),
         NEW b \in Batches, NEW p \in Beats, OneOpen(b, p)
  PROVE  OneOpen(b, p)'
<1>1. /\ UNCHANGED <<run, worker, batch>> /\ Alone
      /\ task[b] # "scheduled" /\ task'[b] = Paused(task[b])
  BY TrashBeginStep
<1>2. ASSUME NEW r \in Open(b, p) PROVE Held(b, p, r)'
  <2>1. Held(b, p, r) /\ It(b, p)' = It(b, p)
    BY <1>1, <1>2 DEF OneOpen, It
  <2>2. CASE Inserted(b, p, r)
    <3>1. task[b] = "running" /\ batch[b].status \in OPEN /\ It(b, p).run = 0
      BY <2>2, AtWork DEF Inserted, ItemOK
    <3> QED
      BY <1>1, <2>1, <2>2, <3>1 DEF Held, Inserted, Orphan, Unclaimed, Paused
  <2>3. CASE Orphan(b, p, r)
    BY <1>1, <2>1, <2>3 DEF Held, Orphan, Unclaimed, Paused
  <2>4. CASE r = It(b, p).run \/ Sticky(b, p) \/ It(b, p).status \in {"completed", "skipped"}
    BY <1>1, <2>1, <2>4 DEF Held, Sticky, Stuck
  <2> QED
    BY <2>1, <2>2, <2>3, <2>4 DEF Held
<1> QED
  BY <1>1, <1>2, HeldAnew

\* The rows change under tasks that do not.
LEMMA RowsHold ==
  ASSUME Inv, UNCHANGED batchVars, NEW b \in Batches, NEW p \in Beats, OneOpen(b, p),
         \/ RowsChange /\ \A q \in DOMAIN run : Quiet(q)
         \/ /\ \E q \in Beats, c \in Batches \cup {NoBatch} : AddsRow(q, c, "user")
            /\ \A r \in DOMAIN run : worker'[r] = worker[r]
  PROVE  OneOpen(b, p)'
<1>1. UNCHANGED <<batch, task, child>> /\ It(b, p)' = It(b, p)
  BY DEF batchVars, It
<1>2. CASE RowsChange /\ \A q \in DOMAIN run : Quiet(q)
  <2>1. /\ \A r \in DOMAIN run : Becomes(r)
        /\ Open(b, p)' \subseteq Open(b, p) /\ Open(b, p) \subseteq DOMAIN run
    BY <1>2, OpenShrinks, OpenRow
  <2> QED
    BY <1>1, <1>2, <2>1, HeldStill
<1>3. CASE /\ \E q \in Beats, c \in Batches \cup {NoBatch} : AddsRow(q, c, "user")
           /\ \A r \in DOMAIN run : worker'[r] = worker[r]
  <2>1. PICK q \in Beats, c \in Batches \cup {NoBatch} : AddsRow(q, c, "user")
    BY <1>3
  <2>2. /\ \A r \in DOMAIN run : Becomes(r)
        /\ Open(b, p)' \subseteq Open(b, p) /\ Open(b, p) \subseteq DOMAIN run
    BY <2>1, OpenGrows, OpenRow
  <2>3. \A r \in DOMAIN run : Quiet(r)
    BY <1>3, <2>1 DEF Quiet, AddsRow
  <2> QED
    BY <1>1, <2>2, <2>3, HeldStill
<1> QED
  BY <1>2, <1>3

\* A restart gives an item without a run the first run tagged with it.
LEMMA RestartHolds ==
  ASSUME Inv, Restart, NEW b \in Batches, NEW p \in Beats, OneOpen(b, p)
  PROVE  OneOpen(b, p)'
<1>1. /\ batch'[b] = RestartedBatch(b) /\ RowsChange
      /\ \A r \in DOMAIN run : Becomes(r)
      /\ Open(b, p)' \subseteq Open(b, p) /\ Open(b, p) \subseteq DOMAIN run
  BY RestartStep, OpenShrinks, OpenRow
<1> SUFFICES ASSUME NEW r \in Open(b, p)' PROVE Held(b, p, r)'
  BY <1>1 DEF OneOpen
<1>2. /\ r \in Open(b, p) /\ Held(b, p, r) /\ ItemOK(b, p) /\ RowOK(r) /\ It(b, p) \in ItemRows
      /\ r \in DOMAIN run /\ run[r].beat = p /\ run[r].batch = b /\ run[r].by = "batch"
  BY <1>1, OpenRow, RunState, Shape DEF OneOpen, Inv, ItemsOK
<1>3. CASE batch[b].status \notin OPEN \cup {"interrupted"}
  <2>1. It(b, p)' = It(b, p)
    BY <1>1, <1>3 DEF RestartedBatch, It
  <2>2. r = It(b, p).run \/ Sticky(b, p) \/ It(b, p).status \in {"completed", "skipped"}
    BY <1>2, <1>3, AtWork DEF Held, Inserted, Orphan
  <2>3. Sticky(b, p) => Sticky(b, p)'
    BY <1>1, <2>1, StickyKept
  <2> QED
    BY <2>1, <2>2, <2>3 DEF Held
<1>4. CASE batch[b].status \in OPEN \cup {"interrupted"}
  <2>0. PICK j : j = RecoveredItem(b, p)
    OBVIOUS
  <2>1. It(b, p)' = j
    BY <1>1, <1>4, <2>0 DEF RestartedBatch, It
  <2>2. /\ It(b, p).run # 0 => j.run = It(b, p).run
        /\ It(b, p).run = 0 /\ Tagged(b, p) # {} =>
             j.run \in Tagged(b, p) /\ j.run # 0 /\ \A q \in Tagged(b, p) : j.run <= q
        /\ j.status = IF j.run # 0 /\ It(b, p).status \notin {"completed", "skipped"} THEN "unknown" ELSE It(b, p).status
    BY <2>0, RecoveredItemOK
  <2>3. CASE It(b, p).status \in {"completed", "skipped"}
    BY <2>1, <2>2, <2>3 DEF Held
  <2>4. CASE It(b, p).run # 0 /\ It(b, p).status \notin {"completed", "skipped"}
    <3>1. r = It(b, p).run \/ Sticky(b, p)
      BY <1>2, <2>4 DEF Held, Inserted, Orphan, ItemOK
    <3>2. Sticky(b, p) => Sticky(b, p)'
      BY <1>1, <2>1, <2>2, <2>4, StickyKept
    <3> QED
      BY <2>1, <2>2, <2>4, <3>1, <3>2 DEF Held
  <2>5. CASE It(b, p).run = 0 /\ It(b, p).status \notin {"completed", "skipped"}
    <3>0. PICK f : f = j.run
      OBVIOUS
    <3>1. r \in Tagged(b, p) /\ Tagged(b, p) \subseteq DOMAIN run
      BY <1>2 DEF Tagged, Of
    <3>2. f \in Tagged(b, p) /\ f # 0 /\ f <= r /\ j.status = "unknown"
      BY <2>2, <2>5, <3>0, <3>1
    <3>3. CASE f # r
      <4>1. f \in 1..(r - 1) /\ f \in DOMAIN run /\ run[f].beat = p
        BY <3>1, <3>2, <3>3, Shape DEF Inv, Tagged, Of
      <4>2. run[f].status \notin {"queued", "running"} /\ Becomes(f)
        BY <1>1, <1>2, <4>1 DEF RowOK
      <4>3. run'[f].status \notin {"queued", "running"}
        BY <4>2 DEF Becomes
      <4> QED
        BY <2>1, <3>0, <3>2, <4>3 DEF Held, Sticky, Stuck
    <3> QED
      BY <2>1, <3>0, <3>3 DEF Held
  <2> QED
    BY <2>3, <2>4, <2>5
<1> QED
  BY <1>3, <1>4

\* The hazards under which a picture is submitted once; see the README.
Sole ==
    /\ Hazards \cap {"fault", "trash"} # {} => Alone
    /\ "fault" \in Hazards => "retry" \notin Hazards

AllOneOpen == \A b \in Batches, p \in Beats : OneOpen(b, p)

LEMMA OneOpenNext ==
  ASSUME Sole, Inv, AllOneOpen, [Next]_vars
  PROVE  AllOneOpen'
<1> SUFFICES ASSUME NEW b \in Batches, NEW p \in Beats PROVE OneOpen(b, p)'
  BY DEF AllOneOpen
<1>1. OneOpen(b, p) /\ \A c \in Batches, q \in Beats : OneOpen(c, q)
  BY DEF AllOneOpen
<1>2. ASSUME NEW c \in Batches, TaskStep(c) PROVE OneOpen(b, p)'
  BY <1>1, <1>2, TaskStartHolds, TaskEndHolds DEF TaskStep, Sole
<1>3. ASSUME NEW c \in Batches, BatchRequest(c) PROVE OneOpen(b, p)'
  BY <1>1, <1>3, StopHolds, CreateHolds, ResumeHolds DEF BatchRequest
<1>4. ASSUME NEW c \in Batches, NEW q \in Beats, ChildStep(c, q) PROVE OneOpen(b, p)'
  <2>1. CASE Follow(c, q) \/ LeaveAlone(c, q) \/ DispatchCheck(c, q) \/ Dispatch(c, q)
    BY <1>1, <2>1, FollowHolds, LeaveAloneHolds, DispatchHolds
  <2>2. CASE DispatchRefused(c, q) \/ SaveMembership(c, q) \/ Settle(c, q)
    BY <1>1, <2>2, DispatchRefusedHolds, SaveMembershipHolds, SettleHolds
  <2>3. CASE StoreFault(c, q)
    BY <1>1, <2>3, StoreFaultHolds DEF Sole
  <2> QED
    BY <1>4, <2>1, <2>2, <2>3 DEF ChildStep
<1>5. CASE RunStep /\ UNCHANGED batchVars
  BY <1>1, <1>5, RunSteps, RowsHold
<1>6. ASSUME NEW u \in Users, TrashBegin(u) PROVE OneOpen(b, p)'
  BY <1>1, <1>6, TrashBeginHolds DEF Sole
<1>7. ASSUME NEW u \in Users, TrashFinish(u) PROVE OneOpen(b, p)'
  BY <1>1, <1>7, TrashFinishStep, RowsHold DEF TrashFinish
<1>8. CASE Restart
  BY <1>1, <1>8, RestartHolds
<1>9. CASE UNCHANGED vars
  <2>1. UNCHANGED <<run, worker, batch, task, child>>
    BY <1>9 DEF vars, runVars, batchVars
  <2> QED
    BY <1>1, <2>1, OtherBatchHolds
<1> QED
  BY <1>2, <1>3, <1>4, <1>5, <1>6, <1>7, <1>8, <1>9 DEF Next

LEMMA OneOpenHolds ==
  ASSUME Sole
  PROVE  Spec => []AllOneOpen
<1>1. Init => AllOneOpen
  <2> SUFFICES ASSUME Init PROVE AllOneOpen
    OBVIOUS
  <2>1. run = << >>
    BY DEF Init, RunsInit
  <2>2. \A b \in Batches, p \in Beats : Open(b, p) = {}
    BY <2>1 DEF Open, Sent, Of
  <2> QED
    BY <2>2 DEF AllOneOpen, OneOpen
<1> QED
  BY <1>1, OneOpenNext, InvHolds, PTL DEF Spec

-----------------------------------------------------------------------------
(* The submissions of a picture implement PaidSubmission *)

Keys == Batches \X Beats

\* What PaysOnce makes of the runs of a key.
OutcomeAt(k) ==
    IF StatusesOf(k) \cap ACTIVE # {} THEN "out"
    ELSE IF "yes" \in BoughtOf(k) THEN "won"
    ELSE IF "maybe" \in BoughtOf(k) THEN "unknown" ELSE "open"

LEMMA SentRows ==
  ASSUME Inv, NEW k \in Keys
  PROVE  /\ Sent(k) \subseteq DOMAIN run /\ IsFiniteSet(Sent(k)) /\ Cardinality(Sent(k)) \in Nat
         /\ \A r : r \in Sent(k) <=> r \in DOMAIN run /\ run[r].beat = k[2] /\ run[r].batch = k[1] /\ run[r].by = "batch"
         /\ \A r : r \in Sent(k)' <=> r \in DOMAIN run' /\ run'[r].beat = k[2] /\ run'[r].batch = k[1] /\ run'[r].by = "batch"
<1>1. IsFiniteSet(DOMAIN run)
  BY FS_Interval, Shape DEF Inv
<1>2. Sent(k) \subseteq DOMAIN run
  BY DEF Sent, Of
<1>3. IsFiniteSet(Sent(k)) /\ Cardinality(Sent(k)) \in Nat
  BY <1>1, <1>2, FS_Subset, FS_CardinalityType
<1> QED
  BY <1>2, <1>3 DEF Sent, Of

LEMMA OutcomeOpen ==
  ASSUME Inv, NEW k \in Keys
  PROVE  /\ OutcomeAt(k) = "open" => \A r \in Sent(k) : run[r].bought = "no" /\ run[r].status \notin ACTIVE
         /\ (\A r \in Sent(k) : run[r].bought = "no" /\ run[r].status \notin ACTIVE) => OutcomeAt(k) = "open"
         /\ (\E r \in Sent(k) : run[r].status \in ACTIVE) => OutcomeAt(k) = "out"
         /\ OutcomeAt(k) \in {"open", "out", "won", "unknown"}
<1>1. \A r \in Sent(k) : run[r] \in RunRow
  BY SentRows, RunState
<1> QED
  BY <1>1 DEF OutcomeAt, StatusesOf, BoughtOf, RunRow

\* Rows that go on from what they are make nothing open again.
LEMMA HearStep ==
  ASSUME Inv, Inv', NEW k \in Keys, \A r \in DOMAIN run : Becomes(r), Sent(k)' = Sent(k)
  PROVE  /\ OutcomeAt(k)' = "open" => OutcomeAt(k) \in {"open", "out"}
         /\ Cardinality(Sent(k))' = Cardinality(Sent(k))
<1>1. ASSUME OutcomeAt(k)' = "open", OutcomeAt(k) \notin {"open", "out"} PROVE FALSE
  <2>1. \A r \in Sent(k) : run'[r].bought = "no" /\ run'[r].status \notin ACTIVE
    <3>1. OutcomeAt(k)' = "open" => \A r \in Sent(k)' : run'[r].bought = "no" /\ run'[r].status \notin ACTIVE
      <4>1. \A r \in Sent(k)' : run'[r].bought \in {"no", "maybe", "yes"}
        <5>1. RunsTypeOK'
          BY DEF Inv, TypeOK
        <5>2. run' \in Seq(RunRow)
          BY <5>1 DEF RunsTypeOK
        <5>3. \A r \in DOMAIN run' : run'[r] \in RunRow
          BY <5>2, LenProperties, ElementOfSeq
        <5> QED
          BY <5>3, SentRows DEF RunRow
      <4> QED
        BY <4>1 DEF OutcomeAt, StatusesOf, BoughtOf
    <3> QED
      BY <1>1, <3>1
  <2>2. \A r \in Sent(k) : run[r].bought = "no" /\ run[r].status \notin ACTIVE
    <3> SUFFICES ASSUME NEW r \in Sent(k), ~(run[r].bought = "no" /\ run[r].status \notin ACTIVE) PROVE FALSE
      OBVIOUS
    <3>1. r \in DOMAIN run /\ Becomes(r) /\ run'[r].bought = "no" /\ run'[r].status \notin ACTIVE
      BY <2>1, SentRows
    <3>2. run[r].status \notin ACTIVE
      BY <1>1, OutcomeOpen
    <3> QED
      BY <3>1, <3>2 DEF Becomes, ACTIVE
  <2> QED
    BY <1>1, <2>2, OutcomeOpen
<1> QED
  BY <1>1

LEMMA SubmitStep ==
  ASSUME Inv, Inv', NEW c \in Batches, NEW q \in Beats, Dispatch(c, q), OneOpen(c, q), NEW k \in Keys
  PROVE  \/ /\ OutcomeAt(k) = "open" /\ OutcomeAt(k)' = "out"
            /\ Cardinality(Sent(k))' = Cardinality(Sent(k)) + 1
         \/ /\ OutcomeAt(k)' = "open" => OutcomeAt(k) \in {"open", "out"}
            /\ Cardinality(Sent(k))' = Cardinality(Sent(k))
<1>0. PICK n : n = Len(run) + 1
  OBVIOUS
<1>1. /\ AddsRow(q, c, "batch") /\ Live(q) = {} /\ Open(c, q) = {}
      /\ Len(run) \in Nat /\ DOMAIN run = 1..Len(run)
  BY DispatchStep, NothingOpen, Shape DEF Inv, Dispatch
<1>2. n \notin DOMAIN run /\ DOMAIN run' = DOMAIN run \cup {n} /\ run'[n] = NewRow(q, c, "batch")
      /\ \A r \in DOMAIN run : run'[r] = run[r] /\ Becomes(r)
  BY <1>0, <1>1 DEF AddsRow, Becomes
<1>3. CASE k = <<c, q>>
  <2>1. Sent(k)' = Sent(k) \cup {n}
    <3>1. \A r : r \in Sent(k)' <=> r \in Sent(k) \/ r = n
      BY <1>2, <1>3, SentRows DEF NewRow
    <3> QED
      BY <3>1
  <2>2. n \notin Sent(k)
    BY <1>2, SentRows
  <2>3. Cardinality(Sent(k))' = Cardinality(Sent(k)) + 1
    BY <2>1, <2>2, SentRows, FS_AddElement
  <2>4. OutcomeAt(k) = "open"
    <3>1. ASSUME NEW r \in Sent(k) PROVE run[r].bought = "no" /\ run[r].status \notin ACTIVE
      <4>1. r \in DOMAIN run /\ run[r].beat = q /\ run[r].batch = c /\ run[r].by = "batch"
        BY <1>3, <3>1, SentRows
      <4>2. Dead(r)
        BY <1>1, <4>1, OpenRow
      <4>3. run[r].status \notin ACTIVE
        BY <1>1, <4>1 DEF Live, Of
      <4> QED
        BY <4>2, <4>3 DEF Dead
    <3> QED
      BY <3>1, OutcomeOpen
  <2>5. OutcomeAt(k)' = "out"
    <3>1. n \in Sent(k)' /\ run'[n].status \in ACTIVE
      BY <1>2, <2>1 DEF NewRow, ACTIVE
    <3>2. run'[n].status \in StatusesOf(k)'
      BY <3>1 DEF StatusesOf
    <3> QED
      BY <3>1, <3>2 DEF OutcomeAt
  <2> QED
    BY <2>3, <2>4, <2>5
<1>4. CASE k # <<c, q>>
  <2>1. \A r : r \in Sent(k)' <=> r \in Sent(k)
    BY <1>2, <1>4, SentRows DEF NewRow, Keys
  <2>2. Sent(k)' = Sent(k)
    BY <2>1
  <2> QED
    BY <1>2, <2>2, HearStep
<1> QED
  BY <1>3, <1>4

\* Every step is a submission or news of one, for each key.
LEMMA KeySteps ==
  ASSUME Sole, Inv, Inv', AllOneOpen, [Next]_vars, NEW k \in Keys
  PROVE  \/ /\ OutcomeAt(k) = "open" /\ OutcomeAt(k)' = "out"
            /\ Cardinality(Sent(k))' = Cardinality(Sent(k)) + 1
         \/ /\ OutcomeAt(k)' = "open" => OutcomeAt(k) \in {"open", "out"}
            /\ Cardinality(Sent(k))' = Cardinality(Sent(k))
<1>1. CASE RowsChange
  <2>1. \A r : r \in Sent(k)' <=> r \in Sent(k)
    BY <1>1, SentRows DEF RowsChange, SameRows
  <2>2. Sent(k)' = Sent(k)
    BY <2>1
  <2> QED
    BY <1>1, <2>2, HearStep DEF RowsChange
<1>2. ASSUME NEW p \in Beats, NEW b \in Batches \cup {NoBatch}, AddsRow(p, b, "user")
      PROVE  /\ OutcomeAt(k)' = "open" => OutcomeAt(k) \in {"open", "out"}
             /\ Cardinality(Sent(k))' = Cardinality(Sent(k))
  <2>0. Len(run) \in Nat /\ DOMAIN run = 1..Len(run)
    BY Shape DEF Inv
  <2>1. \A r : r \in Sent(k)' <=> r \in Sent(k)
    BY <1>2, <2>0, SentRows DEF AddsRow, NewRow
  <2>2. Sent(k)' = Sent(k) /\ \A r \in DOMAIN run : Becomes(r)
    BY <1>2, <2>1 DEF AddsRow, Becomes
  <2> QED
    BY <2>2, HearStep
<1>3. ASSUME NEW c \in Batches, NEW q \in Beats, Dispatch(c, q)
      PROVE  \/ /\ OutcomeAt(k) = "open" /\ OutcomeAt(k)' = "out"
                /\ Cardinality(Sent(k))' = Cardinality(Sent(k)) + 1
             \/ /\ OutcomeAt(k)' = "open" => OutcomeAt(k) \in {"open", "out"}
                /\ Cardinality(Sent(k))' = Cardinality(Sent(k))
  BY <1>3, SubmitStep DEF AllOneOpen
<1> QED
  BY <1>1, <1>2, <1>3, RowSteps

(* "Unknown remote outcomes are never resubmitted automatically": the runs   *)
(* that the dispatches of a batch create for a picture implement             *)
(* PaidSubmission, across stop, resume, cancellations and restarts.  Faults  *)
(* of the store and the pause of a trashed project can lose a membership     *)
(* that was about to be saved: with them it takes a single batch, and with   *)
(* faults no retry either.                                                   *)
THEOREM SubmittedOnce ==
  ASSUME Hazards \cap {"fault", "trash"} # {} => \A b, c \in Batches : b = c,
         "fault" \in Hazards => "retry" \notin Hazards
  PROVE  Spec => PaysOnce
<1>0. Sole
  BY DEF Sole, Alone
<1>1. Init => Submission!Init
  <2> SUFFICES ASSUME Init PROVE Submission!Init
    OBVIOUS
  <2>1. \A k \in Keys : Sent(k) = {}
    BY DEF Init, RunsInit, Sent, Of
  <2>2. \A k \in Keys : OutcomeAt(k) = "open" /\ Cardinality(Sent(k)) = 0
    BY <2>1, FS_EmptySet DEF OutcomeAt, StatusesOf, BoughtOf
  <2> QED
    BY <2>2 DEF Submission!Init, Keys, OutcomeAt
<1>2. Inv /\ AllOneOpen /\ [Next]_vars /\ Inv' => Submission!Next
  <2> SUFFICES ASSUME Inv, AllOneOpen, [Next]_vars, Inv' PROVE Submission!Next
    OBVIOUS
  <2>1. \A k \in Keys : OutcomeAt(k)' \in {"open", "out", "won", "unknown"} /\ Cardinality(Sent(k))' \in Nat
    <3> SUFFICES ASSUME NEW k \in Keys
                 PROVE  OutcomeAt(k)' \in {"open", "out", "won", "unknown"} /\ Cardinality(Sent(k))' \in Nat
      OBVIOUS
    <3>1. OutcomeAt(k)' \in {"open", "out", "won", "unknown"}
      BY DEF OutcomeAt
    <3>2. Cardinality(Sent(k)) \in Nat
      BY SentRows
    <3>3. Cardinality(Sent(k))' \in Nat
      BY <1>0, <3>2, KeySteps
    <3> QED
      BY <3>1, <3>3
  <2>2. \A k \in Keys :
          \/ /\ OutcomeAt(k) = "open" /\ OutcomeAt(k)' = "out"
             /\ Cardinality(Sent(k))' = Cardinality(Sent(k)) + 1
          \/ /\ OutcomeAt(k)' = "open" => OutcomeAt(k) \in {"open", "out"}
             /\ Cardinality(Sent(k))' = Cardinality(Sent(k))
    BY <1>0, KeySteps
  <2> QED
    BY <2>1, <2>2 DEF Submission!Next, Submission!Submit, Submission!Hear, Submission!Outcomes, Keys, OutcomeAt
<1>3. Spec => Submission!Init /\ [][Submission!Next]_(Submission!vars)
  BY <1>0, <1>1, <1>2, InvHolds, OneOpenHolds, PTL DEF Spec
<1> QED
  BY <1>3 DEF PaysOnce, Submission!Spec

=============================================================================
