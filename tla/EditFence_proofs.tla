-------------------------- MODULE EditFence_proofs --------------------------
(***************************************************************************)
(* Requests are clients of the identity database like any other, and a     *)
(* write commits only under its own leases: for any number of users,       *)
(* sessions, tabs, requests and projects and any durations.                *)
(***************************************************************************)
EXTENDS EditFence, Accounts_proofs, TLAPS

USE AccountsAssumption, NoRowAssumption, EditFenceAssumption
    DEF AccountsAssumption, NoRowAssumption, EditFenceAssumption

-----------------------------------------------------------------------------
(* Type correctness *)

\* A step of a request that leaves the identity database alone.
LEMMA RequestStepType ==
  ASSUME TypeOK, UNCHANGED accountVars,
         writer' \in Req \cup {NoReq}, req' \in [Req -> ReqRow],
         \A r \in Req : req'[r].phase \in Serving =>
                          req'[r].session \in Session /\ req'[r].editor \in Editor
  PROVE  TypeOK'
BY DEF TypeOK, AccountsTypeOK, accountVars, identityVars

\* What is left of a request that was broken off.
LEMMA BrokenOffRow ==
  ASSUME TypeOK, NEW phase \in {"abandoned", "killed"}
  PROVE  BrokenOff(phase) \in ReqRow /\ BrokenOff(phase).phase = phase /\ BrokenOff(phase).over = now
<1>1. now \in Nat
  BY DEF TypeOK, AccountsTypeOK
<1>2. Idle(phase) \in ReqRow /\ Idle(phase).phase = phase
  BY DEF Idle, ReqRow, Phase, Over
<1>3. ASSUME NEW row \in ReqRow, NEW t \in Nat
      PROVE  [row EXCEPT !.over = t] \in ReqRow /\ [row EXCEPT !.over = t].phase = row.phase
             /\ [row EXCEPT !.over = t].over = t
  BY DEF ReqRow
<1> QED
  BY <1>1, <1>2, <1>3 DEF BrokenOff

\* Every step of a request, lease calls included, keeps the types.
LEMMA ReqStepType ==
  ASSUME TypeOK, NEW r \in Req, ReqStep(r)
  PROVE  TypeOK'
<1> DEFINE Row == req[r]
<1>1. /\ Row \in ReqRow
      /\ Row.phase \in Serving => Row.session \in Session /\ Row.editor \in Editor
      /\ writer \in Req \cup {NoReq} /\ r \in Editor
  BY DEF TypeOK
<1>2. ASSUME NEW row \in ReqRow, row.phase \in Serving => row.session \in Session /\ row.editor \in Editor,
             req' = [req EXCEPT ![r] = row]
      PROVE  /\ req' \in [Req -> ReqRow]
             /\ \A q \in Req : req'[q].phase \in Serving =>
                                 req'[q].session \in Session /\ req'[q].editor \in Editor
  BY <1>2 DEF TypeOK
<1>3. ASSUME NEW s \in Session, NEW e \in Tab, NEW ids \in SUBSET Project \ {{}},
             NEW transient \in BOOLEAN, Begin(r, s, e, ids, transient)
      PROVE  TypeOK'
  <2>1. PICK row \in ReqRow : row.session = s /\ row.editor = e /\ req' = [req EXCEPT ![r] = row]
    BY <1>3 DEF Begin, ReqRow, Phase, Serving
  <2> QED
    BY <1>1, <1>2, <1>3, <2>1, RequestStepType DEF Begin
<1>4. ASSUME NEW p \in Project, NEW t \in Recent, Peek(r, p, t) PROVE TypeOK'
  <2>1. /\ req' \in [Req -> ReqRow]
        /\ \A q \in Req : req'[q].phase \in Serving =>
                            req'[q].session \in Session /\ req'[q].editor \in Editor
    BY <1>1, <1>4 DEF Peek, TypeOK, ReqRow, Phase, Serving
  <2> QED
    BY <1>1, <1>4, <2>1, RequestStepType DEF Peek
<1>5. ASSUME NEW p \in Project, NEW t \in Recent, Take(r, p, t) PROVE TypeOK'
  <2>1. /\ req' \in [Req -> ReqRow]
        /\ \A q \in Req : req'[q].phase \in Serving =>
                            req'[q].session \in Session /\ req'[q].editor \in Editor
    BY <1>1, <1>5 DEF Take, TypeOK, ReqRow, Phase, Serving
  <2>2. Row.session \in Session
    BY <1>1, <1>5 DEF Take, Serving
  <2>3. AccountsTypeOK'
    BY <1>1, <1>5, <2>2, LeaseStepType DEF Take, TypeOK
  <2> QED
    BY <1>5, <2>1, <2>3 DEF Take, TypeOK
<1>6. ASSUME NEW p \in Project, NEW t \in Recent, Require(r, p, t) PROVE TypeOK'
  <2>1. /\ req' \in [Req -> ReqRow]
        /\ \A q \in Req : req'[q].phase \in Serving =>
                            req'[q].session \in Session /\ req'[q].editor \in Editor
    BY <1>1, <1>6 DEF Require, TypeOK, ReqRow, Phase, Serving
  <2> QED
    BY <1>1, <1>6, <2>1, RequestStepType DEF Require
<1>7. ASSUME NEW p \in Project, NEW t \in Recent, DoorFails(r, p, t) PROVE TypeOK'
  <2>1. /\ req' \in [Req -> ReqRow]
        /\ \A q \in Req : req'[q].phase \in Serving =>
                            req'[q].session \in Session /\ req'[q].editor \in Editor
    BY <1>1, <1>7 DEF DoorFails, Refused, TypeOK, ReqRow, Phase, Serving
  <2> QED
    BY <1>1, <1>7, <2>1, RequestStepType DEF DoorFails
<1>8. ASSUME NEW p \in Project, NEW t \in Recent, Release(r, p, t) PROVE TypeOK'
  <2>1. /\ req' \in [Req -> ReqRow]
        /\ \A q \in Req : req'[q].phase \in Serving =>
                            req'[q].session \in Session /\ req'[q].editor \in Editor
    BY <1>1, <1>8 DEF Release, TypeOK, ReqRow
  <2>2. CASE ReleaseLease(Row.session, r, p, t)
    <3>1. Row.session \in Session
      BY <1>1, <1>8 DEF Release, Serving
    <3>2. AccountsTypeOK'
      BY <1>1, <2>2, <3>1, LeaseStepType DEF TypeOK
    <3> QED
      BY <1>8, <2>1, <3>2 DEF Release, TypeOK
  <2>3. CASE UNCHANGED accountVars
    BY <1>1, <1>8, <2>1, <2>3, RequestStepType DEF Release
  <2> QED
    BY <1>8, <2>2, <2>3 DEF Release
<1>9. CASE BeginWrite(r)
  <2>1. /\ req' \in [Req -> ReqRow]
        /\ \A q \in Req : req'[q].phase \in Serving =>
                            req'[q].session \in Session /\ req'[q].editor \in Editor
    BY <1>1, <1>9 DEF BeginWrite, TypeOK, ReqRow, Phase, Serving
  <2> QED
    BY <1>1, <1>9, <2>1, RequestStepType DEF BeginWrite
<1>10. CASE BeginWriteFails(r)
  <2>1. /\ req' \in [Req -> ReqRow]
        /\ \A q \in Req : req'[q].phase \in Serving =>
                            req'[q].session \in Session /\ req'[q].editor \in Editor
    BY <1>1, <1>10 DEF BeginWriteFails, TypeOK, ReqRow, Phase, Serving
  <2> QED
    BY <1>1, <1>10, <2>1, RequestStepType DEF BeginWriteFails
<1>11. CASE NextStatementFails(r)
  <2>1. /\ req' \in [Req -> ReqRow]
        /\ \A q \in Req : req'[q].phase \in Serving =>
                            req'[q].session \in Session /\ req'[q].editor \in Editor
    BY <1>1, <1>11 DEF NextStatementFails, TypeOK, ReqRow, Phase, Serving
  <2> QED
    BY <1>1, <1>11, <2>1, RequestStepType DEF NextStatementFails
<1>12. CASE Commit(r)
  <2>1. /\ req' \in [Req -> ReqRow]
        /\ \A q \in Req : req'[q].phase \in Serving =>
                            req'[q].session \in Session /\ req'[q].editor \in Editor
    BY <1>1, <1>12 DEF Commit, TypeOK, ReqRow, Phase, Serving
  <2> QED
    BY <1>1, <1>12, <2>1, RequestStepType DEF Commit
<1>13. CASE Finish(r)
  <2>1. /\ req' \in [Req -> ReqRow]
        /\ \A q \in Req : req'[q].phase \in Serving =>
                            req'[q].session \in Session /\ req'[q].editor \in Editor
    BY <1>1, <1>13 DEF Finish, TypeOK, ReqRow, Phase, Serving
  <2> QED
    BY <1>1, <1>13, <2>1, RequestStepType DEF Finish
<1>14. CASE End(r)
  <2>1. /\ req' \in [Req -> ReqRow]
        /\ \A q \in Req : req'[q].phase \in Serving =>
                            req'[q].session \in Session /\ req'[q].editor \in Editor
    BY <1>1, <1>14 DEF End, Idle, TypeOK, ReqRow, Phase, Over, Serving
  <2> QED
    BY <1>1, <1>14, <2>1, RequestStepType DEF End
<1>15. CASE CallRaises(r)
  <2>1. /\ req' \in [Req -> ReqRow]
        /\ \A q \in Req : req'[q].phase \in Serving =>
                            req'[q].session \in Session /\ req'[q].editor \in Editor
    BY <1>1, <1>15 DEF CallRaises, TypeOK, ReqRow, Phase, Serving
  <2> QED
    BY <1>1, <1>15, <2>1, RequestStepType DEF CallRaises
<1>16. CASE ReleaseRaises(r)
  <2>1. BrokenOff("abandoned") \in ReqRow /\ BrokenOff("abandoned").phase = "abandoned"
    BY BrokenOffRow
  <2>2. \A q \in Req : q # r => req'[q] = req[q]
    BY <1>16 DEF ReleaseRaises, TypeOK
  <2>3. req' \in [Req -> ReqRow] /\ req'[r].phase = "abandoned"
    BY <1>16, <2>1 DEF ReleaseRaises, TypeOK
  <2>4. \A q \in Req : req'[q].phase \in Serving =>
                        req'[q].session \in Session /\ req'[q].editor \in Editor
    BY <2>2, <2>3 DEF TypeOK, Serving
  <2> QED
    BY <1>1, <1>16, <2>3, <2>4, RequestStepType DEF ReleaseRaises
<1> QED
  BY <1>15, <1>16, <1>3, <1>4, <1>5, <1>6, <1>7, <1>8, <1>9, <1>10, <1>11, <1>12, <1>13, <1>14 DEF ReqStep

\* Every step keeps the types.
LEMMA TypeCorrectStep ==
  ASSUME TypeOK, [Next]_vars
  PROVE  TypeOK'
<1>1. CASE UNCHANGED vars
  BY <1>1 DEF TypeOK, vars, accountVars, identityVars, fenceVars, AccountsTypeOK
<1>2. ASSUME NEW r \in Req, ReqStep(r) PROVE TypeOK'
  BY <1>2, ReqStepType
<1>3. CASE Restart
  <2>1. /\ writer' = NoReq
        /\ req' \in [Req -> ReqRow]
        /\ \A q \in Req : req'[q].phase \notin Serving
    <3>1. BrokenOff("killed") \in ReqRow /\ BrokenOff("killed").phase = "killed"
      BY BrokenOffRow
    <3> QED
      BY <1>3, <3>1 DEF Restart, TypeOK, Serving
  <2> QED
    BY <1>3, <2>1, RequestStepType DEF Restart
<1>4. CASE IdentityStep /\ UNCHANGED fenceVars
  BY <1>4, IdentityStepType DEF fenceVars, TypeOK
<1>5. CASE LeaseStep(Tab) /\ UNCHANGED fenceVars
  <2>1. Tab \subseteq Editor
    OBVIOUS
  <2>2. AccountsTypeOK'
    BY <1>5, <2>1, LeaseStepType DEF LeaseStep, TypeOK
  <2> QED
    BY <1>5, <2>2 DEF fenceVars, TypeOK
<1>6. CASE Tick /\ UNCHANGED fenceVars
  BY <1>6 DEF Tick, fenceVars, identityVars, TypeOK, AccountsTypeOK
<1> QED
  BY <1>1, <1>2, <1>3, <1>4, <1>5, <1>6 DEF Next

\* Every variable keeps its type in every behaviour of the requests, the accounts
\* and the clock.
THEOREM TypeCorrect == Spec => []TypeOK
<1>1. Init => TypeOK
  BY DEF Init, AccountsInit, TypeOK, AccountsTypeOK, UserRow, ReqRow, Phase, Over, Serving, Idle
<1>2. TypeOK /\ [Next]_vars => TypeOK'
  BY TypeCorrectStep
<1> QED
  BY <1>1, <1>2, PTL DEF Spec

-----------------------------------------------------------------------------
(* Requests are clients of the identity database *)

\* A step of a request is a lease call or leaves the identity database alone.
LEMMA ReqStepIsClient ==
  ASSUME TypeOK, NEW r \in Req, ReqStep(r)
  PROVE  [AccountsNext]_accountVars
<1>1. r \in Editor /\ (req[r].phase \in {"take", "cleanup"} => req[r].session \in Session)
  BY DEF TypeOK, Serving
<1>2. ASSUME NEW p \in Project, NEW t \in Recent, NEW s \in Session,
             AcquireLease(s, r, p, t) \/ ReleaseLease(s, r, p, t)
      PROVE  AccountsNext
  BY <1>1, <1>2 DEF AccountsNext, LeaseStep
<1>3. CASE \E p \in Project, t \in Recent : Take(r, p, t)
  BY <1>1, <1>2, <1>3 DEF Take
<1>4. CASE \E p \in Project, t \in Recent : Release(r, p, t)
  BY <1>1, <1>2, <1>4 DEF Release
<1> QED
  BY <1>3, <1>4
  DEF ReqStep, Begin, Peek, Require, DoorFails, BeginWrite, BeginWriteFails, NextStatementFails,
      Commit, Finish, CallRaises, ReleaseRaises, End

\* Every step is a step of the identity database, or leaves it alone.
LEMMA StepIsClient ==
  ASSUME TypeOK, [Next]_vars
  PROVE  [AccountsNext]_accountVars
<1>1. ASSUME NEW r \in Req, ReqStep(r) PROVE [AccountsNext]_accountVars
  BY <1>1, ReqStepIsClient
<1>2. CASE LeaseStep(Tab)
  <2>1. Tab \subseteq Editor
    OBVIOUS
  <2> QED
    BY <1>2, <2>1 DEF AccountsNext, LeaseStep
<1>3. CASE Restart \/ UNCHANGED vars
  BY <1>3 DEF Restart, vars
<1>4. CASE IdentityStep \/ Tick
  BY <1>4 DEF AccountsNext
<1> QED
  BY <1>1, <1>2, <1>3, <1>4 DEF Next

\* What the requests do to the identity database, with their batches, clean-ups
\* and process stops, is something its users could do: all its properties hold.
THEOREM RequestsAreClients == Spec => AccountsSpec
<1>1. Init => AccountsInit
  BY DEF Init
<1>2. TypeOK /\ [Next]_vars => [AccountsNext]_accountVars
  BY StepIsClient
<1> QED
  BY <1>1, <1>2, TypeCorrect, PTL DEF Spec, AccountsSpec

-----------------------------------------------------------------------------
(* The fence *)

\* An open transaction holds the write lock.
WriterHoldsLock == \A r \in Req : req[r].phase = "tx" => writer = r

\* The inductive invariant: while a transaction is open, nothing has moved its
\* leases since it checked them, because whoever moves a lease takes the lock.
Inv == TypeOK /\ WriterOwnsLeases /\ WriterHoldsLock

\* No step outside the transactions can disturb an open one: either it leaves
\* the leases alone, or the lock was free and no transaction was open.
LEMMA OpenTransactionsKept ==
  ASSUME Inv, UNCHANGED lease \/ writer = NoReq,
         \A r \in Req : req'[r].phase = "tx" =>
           /\ req[r].phase = "tx"
           /\ writer' = writer
           /\ req'[r].targets = req[r].targets
           /\ req'[r].session = req[r].session
           /\ req'[r].editor = req[r].editor
  PROVE  WriterOwnsLeases' /\ WriterHoldsLock'
BY DEF Inv, WriterOwnsLeases, WriterHoldsLock

\* Every step of a request keeps the leases of the open transactions and the lock.
LEMMA ReqStepKeepsFence ==
  ASSUME Inv, NEW q \in Req, ReqStep(q)
  PROVE  WriterOwnsLeases' /\ WriterHoldsLock'
<1>1. req \in [Req -> ReqRow]
  BY DEF Inv, TypeOK
<1>2. \A r \in Req : req[r].phase = "tx" => writer = r
  BY DEF Inv, WriterHoldsLock
<1>3. ASSUME NEW s \in Session, NEW e \in Tab, NEW ids \in SUBSET Project \ {{}},
             NEW transient \in BOOLEAN, Begin(q, s, e, ids, transient)
      PROVE  WriterOwnsLeases' /\ WriterHoldsLock'
  BY <1>1, <1>3, OpenTransactionsKept DEF Begin, accountVars
<1>4. ASSUME NEW p \in Project, NEW t \in Recent, Peek(q, p, t)
      PROVE  WriterOwnsLeases' /\ WriterHoldsLock'
  BY <1>1, <1>4, OpenTransactionsKept DEF Peek, accountVars, ReqRow
<1>5. ASSUME NEW p \in Project, NEW t \in Recent, Take(q, p, t)
      PROVE  WriterOwnsLeases' /\ WriterHoldsLock'
  BY <1>1, <1>5, OpenTransactionsKept DEF Take, ReqRow
<1>6. ASSUME NEW p \in Project, NEW t \in Recent, Require(q, p, t)
      PROVE  WriterOwnsLeases' /\ WriterHoldsLock'
  BY <1>1, <1>6, OpenTransactionsKept DEF Require, accountVars, ReqRow
<1>7. ASSUME NEW p \in Project, NEW t \in Recent, DoorFails(q, p, t)
      PROVE  WriterOwnsLeases' /\ WriterHoldsLock'
  BY <1>1, <1>7, OpenTransactionsKept DEF DoorFails, accountVars, ReqRow
<1>8. ASSUME NEW p \in Project, NEW t \in Recent, Release(q, p, t)
      PROVE  WriterOwnsLeases' /\ WriterHoldsLock'
  BY <1>1, <1>8, OpenTransactionsKept DEF Release, ReqRow
<1>9. CASE BeginWrite(q)
  <2>1. \A p \in req[q].targets : /\ lease[p] # NoRow
                                  /\ lease[p].session = req[q].session
                                  /\ lease[p].editor = req[q].editor
    BY <1>9 DEF BeginWrite, FenceHolds, Owns, Occupied
  <2>2. \A r \in Req : req[r].phase # "tx"
    BY <1>2, <1>9 DEF BeginWrite
  <2>3. /\ writer' = q /\ lease' = lease
        /\ req' = [req EXCEPT ![q].phase = "tx"]
    BY <1>9 DEF BeginWrite, accountVars
  <2> QED
    BY <1>1, <2>1, <2>2, <2>3 DEF WriterOwnsLeases, WriterHoldsLock, ReqRow
<1>10. CASE BeginWriteFails(q)
  BY <1>1, <1>10, OpenTransactionsKept DEF BeginWriteFails, accountVars, ReqRow
<1>11. CASE NextStatementFails(q) \/ Commit(q)
  <2>1. \A r \in Req : req'[r].phase # "tx"
    BY <1>1, <1>2, <1>11 DEF NextStatementFails, Commit, ReqRow
  <2> QED
    BY <2>1 DEF WriterOwnsLeases, WriterHoldsLock
<1>12. CASE Finish(q)
  BY <1>1, <1>12, OpenTransactionsKept DEF Finish, accountVars, ReqRow
<1>13. CASE End(q)
  BY <1>1, <1>13, OpenTransactionsKept DEF End, Idle, accountVars, ReqRow
<1>14. CASE CallRaises(q)
  BY <1>1, <1>14, OpenTransactionsKept DEF CallRaises, accountVars, ReqRow
<1>15. CASE ReleaseRaises(q)
  BY <1>1, <1>15, OpenTransactionsKept DEF ReleaseRaises, BrokenOff, Idle, accountVars, ReqRow
<1> QED
  BY <1>14, <1>15, <1>3, <1>4, <1>5, <1>6, <1>7, <1>8, <1>9, <1>10, <1>11, <1>12, <1>13 DEF ReqStep

\* The fence's invariant holds in every behaviour.
LEMMA Invariance == Spec => []Inv
<1>1. Init => WriterOwnsLeases /\ WriterHoldsLock
  BY DEF Init, Idle, WriterOwnsLeases, WriterHoldsLock
<1>2. ASSUME Inv, [Next]_vars PROVE WriterOwnsLeases' /\ WriterHoldsLock'
  <2>1. CASE UNCHANGED vars
    BY <1>2, <2>1 DEF Inv, WriterOwnsLeases, WriterHoldsLock, vars, accountVars, fenceVars
  <2>2. ASSUME NEW r \in Req, ReqStep(r) PROVE WriterOwnsLeases' /\ WriterHoldsLock'
    BY <1>2, <2>2, ReqStepKeepsFence
  <2>3. CASE Restart
    BY <2>3 DEF Restart, BrokenOff, Idle, Serving, WriterOwnsLeases, WriterHoldsLock
  <2>4. CASE (writer = NoReq \/ Tick) /\ UNCHANGED fenceVars
    BY <1>2, <2>4, OpenTransactionsKept DEF fenceVars, Tick
  <2> QED
    BY <1>2, <2>1, <2>2, <2>3, <2>4 DEF Next
<1> QED
  BY <1>1, <1>2, TypeCorrect, PTL DEF Spec, Inv

\* While a fenced transaction is open, every lease it checked stays its own.
THEOREM WriterKeepsLeases == Spec => []WriterOwnsLeases
BY Invariance, PTL DEF Inv

\* Whatever a fenced transaction commits, it commits under its own leases and a
\* session that still exists: a page that lost its lease or its login saves nothing.
THEOREM FencedCommits == Spec => CommitsOwnLeases
<1>1. ASSUME Inv, SessionsCurrent, LeasesBacked, NEW r \in Req, req[r].phase = "tx", NEW p \in req[r].targets
      PROVE  /\ lease[p] # NoRow
             /\ lease[p].session = req[r].session
             /\ lease[p].editor = req[r].editor
             /\ session[req[r].session] # NoRow
             /\ Active(session[req[r].session].user)
  <2>1. /\ lease[p] # NoRow
        /\ lease[p].session = req[r].session
        /\ lease[p].editor = req[r].editor
    BY <1>1 DEF Inv, WriterOwnsLeases
  <2>2. p \in Project /\ req[r].session \in Session
    BY <1>1 DEF Inv, TypeOK, ReqRow, Serving
  <2>3. session[req[r].session] # NoRow
    BY <1>1, <2>1, <2>2 DEF LeasesBacked
  <2> QED
    BY <1>1, <2>1, <2>2, <2>3 DEF SessionsCurrent
<1>2. Inv /\ SessionsCurrent /\ LeasesBacked
      => [\A r \in Req : req[r].phase = "tx" /\ req'[r].phase = "handler" =>
               \A p \in req[r].targets :
                 /\ lease[p] # NoRow
                 /\ lease[p].session = req[r].session
                 /\ lease[p].editor = req[r].editor
                 /\ session[req[r].session] # NoRow
                 /\ Active(session[req[r].session].user)]_vars
  BY <1>1
<1> QED
  BY <1>2, Invariance, RequestsAreClients, RevocationComplete, NoLeaseLeftBehind, PTL DEF CommitsOwnLeases

-----------------------------------------------------------------------------
(* Short leases *)

\* A session that stopped being valid while it exists is not made valid again.
LEMMA InvalidStays ==
  ASSUME AccountsTypeOK, Revocation, [AccountsNext]_accountVars,
         NEW s \in Session, session[s] # NoRow, ~SessionValid(s, now)
  PROVE  ~SessionValid(s, now)'
<1>1. now' >= now /\ now \in Nat /\ now' \in Nat
  <2>1. now' = now \/ Tick
    BY DEF AccountsNext, IdentityStep, Login, RenewSession, Logout, ChangePassword, CreateMember, Invite,
           SetMemberPassword, ChangeMemberPhone, RemoveMember, ResetLink, RestoreMember, Activate,
           DisableAccount, EnableAccount, LeaseStep, AcquireLease, RenewLease, ReleaseLease, accountVars
  <2> QED
    BY <2>1 DEF Tick, AccountsTypeOK
<1>2. session[s] \in SessionRow /\ holder[s] # NoRow /\ Active(session[s].user)
  BY DEF AccountsTypeOK, Revocation, TokensRemembered, SessionsCurrent
<1>3. session'[s] \in {session[s], NoRow}
  <2>1. ASSUME NEW u \in User, NEW h \in 1..MaxHash, NEW ph \in 1..MaxPhone, NEW x \in Session,
               NEW prev \in Replaced, Login(u, h, ph, x, prev)
        PROVE  session'[s] \in {session[s], NoRow}
    <3>1. holder[x] = NoRow /\ \A y \in Session \ {x} : session'[y] \in {session[y], NoRow}
      BY <2>1, LoginOpens DEF Revocation
    <3> QED
      BY <1>2, <3>1
  <2>2. ASSUME NEW x \in Session, RenewSession(x) PROVE session'[s] \in {session[s], NoRow}
    BY <2>2 DEF RenewSession, AccountsTypeOK
  <2>3. CASE SessionsOnlyEnd
    BY <2>3 DEF SessionsOnlyEnd
  <2>4. CASE UNCHANGED accountVars
    BY <2>4 DEF accountVars, identityVars
  <2> QED
    BY <2>1, <2>2, <2>3, <2>4, OthersOnlyEnd
<1>4. session[s].expires <= now \/ session[s].created <= now - SESSION_MAX_SECONDS
  BY <1>1, <1>2 DEF SessionValid, SessionRow
<1>5. CASE session'[s] = session[s]
  BY <1>1, <1>2, <1>4, <1>5 DEF SessionValid, SessionRow
<1> QED
  BY <1>3, <1>5 DEF SessionValid

\* A request at work holds its short leases under its own session, and one that
\* has not begun has none to give back.
OwnSession ==
  \A p \in Project, r \in Req :
    Occupied(p, now) /\ lease[p].editor = r /\ req[r].phase \in Serving => lease[p].session = req[r].session

NothingTaken == \A r \in Req : req[r].phase = "new" => req[r].taken = {}

\* Whatever time a caller had read, a lease ends LEASE_SECONDS from now or earlier.
LeasesAhead == \A p \in Project : lease[p] # NoRow => lease[p].expires <= now + LEASE_SECONDS

\* Identity transactions delete leases and change none.
LEMMA IdentityOnlyDeletes ==
  ASSUME AccountsTypeOK, IdentityStep
  PROVE  now' = now /\ \A p \in Project : lease'[p] \in {lease[p], NoRow}
BY DEF AccountsTypeOK, IdentityStep, Login, RenewSession, Logout, LeasesWithoutSession, ChangePassword, CreateMember,
       Invite, SetMemberPassword, ChangeMemberPhone, RemoveMember, ResetLink, RestoreMember, Activate, DropAccess,
       LeasesWithoutUser, DisableAccount, EnableAccount

\* A lease call counts from a time that has passed.
LEMMA LeasesAheadKept ==
  ASSUME AccountsTypeOK, LeasesAhead, [AccountsNext]_accountVars
  PROVE  LeasesAhead'
<1> USE DEF AccountsTypeOK, LeaseRow, LeasesAhead
<1>1. /\ now \in Nat /\ \A p \in Project : lease[p] # NoRow => lease[p].expires \in Nat
  OBVIOUS
<1>2. ASSUME now' = now, \A p \in Project : lease'[p] \in {lease[p], NoRow} PROVE LeasesAhead'
  BY <1>2
<1>3. CASE IdentityStep
  BY <1>2, <1>3, IdentityOnlyDeletes
<1>4. CASE LeaseStep(Editor)
  <2>1. PICK s \in Session, e \in Editor, x \in Project, t \in Recent :
          AcquireLease(s, e, x, t) \/ RenewLease(s, e, x, t) \/ ReleaseLease(s, e, x, t)
    BY <1>4 DEF LeaseStep
  <2>2. now' = now /\ t \in Nat /\ t <= now /\ \A p \in Project : p # x => lease'[p] = lease[p]
    BY <1>1, <2>1 DEF AcquireLease, RenewLease, ReleaseLease, Recent
  <2>3. lease'[x].expires \in {t + LEASE_SECONDS, 0}
    BY <2>1 DEF AcquireLease, RenewLease, ReleaseLease, Owns, Occupied
  <2> QED
    BY <1>1, <2>2, <2>3
<1>5. CASE Tick
  BY <1>1, <1>5 DEF Tick
<1>6. CASE UNCHANGED accountVars
  BY <1>2, <1>6 DEF accountVars
<1> QED
  BY <1>3, <1>4, <1>5, <1>6 DEF AccountsNext

Short == ShortLeasesEnd /\ OwnSession /\ NothingTaken /\ LeasesAhead

\* The request is broken off in this step, by a release that raises or a stop.
BreaksOff(r) == req'[r].phase \in {"abandoned", "killed"} /\ req'[r].over = now

\* Only the request takes a lease under its own editor id.
LEMMA ShortLeaseSteps ==
  ASSUME TypeOK, [Next]_vars, NEW p \in Project, NEW r \in Req, Occupied(p, now)', lease'[p].editor = r
  PROVE  \/ Occupied(p, now) /\ lease'[p] = lease[p]
         \/ \E t \in Recent : Take(r, p, t)
<1>0. /\ now \in Nat /\ now' \in Nat /\ lease \in [Project -> LeaseRow \cup {NoRow}]
      /\ lease'[p] # NoRow /\ lease'[p].expires > now' /\ lease'[p] \in LeaseRow
  <2>1. TypeOK'
    BY TypeCorrectStep
  <2> QED
    BY <2>1 DEF TypeOK, AccountsTypeOK, Occupied
<1>1. ASSUME lease'[p] = lease[p], now' = now \/ now' = now + 1 PROVE Occupied(p, now)
  BY <1>0, <1>1 DEF Occupied, LeaseRow
<1>2. ASSUME NEW q \in Req, ReqStep(q)
      PROVE  (lease'[p] = lease[p] /\ now' = now) \/ \E t \in Recent : Take(r, p, t)
  <2>1. ASSUME NEW x \in Project, NEW t \in Recent, Take(q, x, t)
        PROVE  (lease'[p] = lease[p] /\ now' = now) \/ Take(r, p, t)
    <3>1. now' = now /\ (x # p => lease'[p] = lease[p])
      BY <1>0, <2>1 DEF Take, AcquireLease
    <3>2. x = p => lease'[p].editor = q
      BY <1>0, <2>1 DEF Take, AcquireLease, Owns, LeaseRow
    <3> QED
      BY <2>1, <3>1, <3>2
  <2>2. ASSUME NEW x \in Project, NEW t \in Recent, Release(q, x, t)
        PROVE  lease'[p] = lease[p] /\ now' = now
    <3>1. CASE UNCHANGED accountVars
      BY <3>1 DEF accountVars
    <3>2. CASE ReleaseLease(req[q].session, q, x, t)
      BY <1>0, <3>2 DEF ReleaseLease
    <3> QED
      BY <2>2, <3>1, <3>2 DEF Release
  <2>3. ASSUME UNCHANGED accountVars PROVE lease'[p] = lease[p] /\ now' = now
    BY <2>3 DEF accountVars
  <2> QED
    BY <1>2, <2>1, <2>2, <2>3
    DEF ReqStep, Begin, Peek, Require, DoorFails, BeginWrite, BeginWriteFails, NextStatementFails,
        Commit, Finish, CallRaises, ReleaseRaises, End
<1>3. CASE IdentityStep
  <2>1. now' = now /\ lease'[p] \in {lease[p], NoRow}
    BY <1>3, IdentityOnlyDeletes DEF TypeOK
  <2> QED
    BY <1>0, <1>1, <2>1
<1>4. CASE LeaseStep(Tab)
  <2>1. PICK s \in Session, e \in Tab, x \in Project, t \in Recent :
          AcquireLease(s, e, x, t) \/ RenewLease(s, e, x, t) \/ ReleaseLease(s, e, x, t)
    BY <1>4 DEF LeaseStep
  <2>2. now' = now /\ (x # p => lease'[p] = lease[p])
    BY <1>0, <2>1 DEF AcquireLease, RenewLease, ReleaseLease
  <2>3. x = p => lease'[p].editor = e
    BY <1>0, <2>1 DEF AcquireLease, RenewLease, ReleaseLease, Owns, LeaseRow
  <2>4. e # r
    OBVIOUS
  <2> QED
    BY <1>1, <2>2, <2>3, <2>4
<1>5. CASE Tick \/ Restart \/ UNCHANGED vars
  BY <1>1, <1>5 DEF Tick, Restart, vars, accountVars
<1> QED
  BY <1>1, <1>2, <1>3, <1>4, <1>5 DEF Next

\* A request goes forward; it gives a lease up only by releasing it.
LEMMA RequestMoves ==
  ASSUME TypeOK, NothingTaken, [Next]_vars, NEW r \in Req
  PROVE  /\ \A p \in req[r].taken : \/ p \in req'[r].taken \/ BreaksOff(r)
                                    \/ \E t \in Recent : Release(r, p, t)
         /\ req[r].phase \in {"abandoned", "killed"} => req'[r] = req[r]
         /\ req[r].phase \in {"cleanup", "done"} => req'[r].phase \in {"cleanup", "done"} \/ BreaksOff(r)
         /\ req'[r].phase \in Serving /\ req[r].phase # "new" =>
              req[r].phase \in Serving /\ req'[r].session = req[r].session
         /\ req'[r].phase = "new" => req'[r] = req[r]
<1>1. req \in [Req -> ReqRow]
  BY DEF TypeOK
<1>2. CASE req'[r] = req[r]
  BY <1>1, <1>2 DEF ReqRow, Phase
<1>11. ASSUME req'[r] = BrokenOff("abandoned") \/ req'[r] = BrokenOff("killed"), req[r].phase \in Serving
       PROVE  BreaksOff(r) /\ req'[r].phase \notin Serving \cup {"new"}
  BY <1>11 DEF BrokenOff, Idle, BreaksOff, Serving
<1>3. ASSUME NEW q \in Req, ReqStep(q), q # r PROVE req'[r] = req[r]
  BY <1>1, <1>3
  DEF ReqStep, Begin, Peek, Take, Require, DoorFails, Release, BeginWrite, BeginWriteFails,
      NextStatementFails, Commit, Finish, CallRaises, ReleaseRaises, End
<1>4. ASSUME NEW s \in Session, NEW e \in Tab, NEW ids \in SUBSET Project \ {{}}, NEW transient \in BOOLEAN,
             Begin(r, s, e, ids, transient)
      PROVE  req[r].phase = "new" /\ req[r].taken = {} /\ req'[r].phase \in {"peek", "require"}
  BY <1>1, <1>4 DEF Begin, NothingTaken
<1>5. ASSUME NEW p \in Project, NEW t \in Recent, Release(r, p, t)
      PROVE  /\ req[r].phase = "cleanup" /\ req'[r].phase = "cleanup" /\ req'[r].session = req[r].session
             /\ req'[r].taken = req[r].taken \ {p}
  BY <1>1, <1>5 DEF Release, ReqRow
<1>6. CASE End(r)
  <2>1. req[r].phase = "cleanup" /\ req[r].taken = {} /\ req'[r].phase = "done"
    BY <1>1, <1>6 DEF End, Idle
  <2> QED
    BY <2>1 DEF Serving
<1>7. CASE \/ \E p \in Project, t \in Recent :
                Peek(r, p, t) \/ Take(r, p, t) \/ Require(r, p, t) \/ DoorFails(r, p, t)
           \/ BeginWrite(r) \/ BeginWriteFails(r) \/ NextStatementFails(r) \/ Commit(r) \/ Finish(r)
           \/ CallRaises(r)
  <2>1. /\ req[r].phase \in {"peek", "take", "require", "handler", "tx"}
        /\ req'[r].phase \in Serving /\ req'[r].session = req[r].session /\ req[r].taken \subseteq req'[r].taken
    <3>1. ASSUME NEW p \in Project, NEW t \in Recent,
                 Peek(r, p, t) \/ Take(r, p, t) \/ Require(r, p, t) \/ DoorFails(r, p, t)
          PROVE  /\ req[r].phase \in {"peek", "take", "require", "handler", "tx"}
                 /\ req'[r].phase \in Serving /\ req'[r].session = req[r].session
                 /\ req[r].taken \subseteq req'[r].taken
      BY <1>1, <3>1 DEF Peek, Take, Require, DoorFails, Refused, ReqRow, Serving
    <3>2. CASE \/ BeginWrite(r) \/ BeginWriteFails(r) \/ NextStatementFails(r) \/ Commit(r) \/ Finish(r)
               \/ CallRaises(r)
      BY <1>1, <3>2
      DEF BeginWrite, BeginWriteFails, NextStatementFails, Commit, Finish, CallRaises, ReqRow, Serving
    <3> QED
      BY <1>7, <3>1, <3>2
  <2> QED
    BY <2>1 DEF Serving
<1>8. CASE ReqStep(r)
  <2>1. CASE \E p \in Project, t \in Recent : Release(r, p, t)
    BY <1>5, <2>1 DEF Serving
  <2>2. CASE \E s \in Session, e \in Tab, ids \in SUBSET Project \ {{}}, transient \in BOOLEAN :
               Begin(r, s, e, ids, transient)
    <3>1. req[r].phase = "new" /\ req[r].taken = {} /\ req'[r].phase \in {"peek", "require"}
      BY <1>4, <2>2
    <3> QED
      BY <3>1
  <2>3. CASE ReleaseRaises(r)
    <3>1. req'[r] = BrokenOff("abandoned") /\ req[r].phase \in Serving
      BY <1>1, <2>3 DEF ReleaseRaises, Serving
    <3> QED
      BY <1>11, <3>1 DEF Serving
  <2> QED
    BY <1>6, <1>7, <1>8, <2>1, <2>2, <2>3 DEF ReqStep
<1>9. CASE Restart
  <2>1. CASE req[r].phase \in Serving
    <3>1. req'[r] = BrokenOff("killed")
      BY <1>1, <1>9, <2>1 DEF Restart
    <3> QED
      BY <1>11, <2>1, <3>1 DEF Serving
  <2>2. CASE req[r].phase \notin Serving
    BY <1>1, <1>2, <1>9, <2>2 DEF Restart
  <2> QED
    BY <2>1, <2>2
<1>10. CASE UNCHANGED fenceVars \/ UNCHANGED vars
  <2>1. req' = req
    BY <1>10 DEF fenceVars, vars
  <2> QED
    BY <1>2, <2>1
<1> QED
  BY <1>2, <1>3, <1>8, <1>9, <1>10 DEF Next

\* A short lease that outlives its release had lost its session.
LEMMA ShortNext ==
  ASSUME TypeOK, Revocation, Short, [Next]_vars
  PROVE  Short'
<1>1. NothingTaken'
  <2> SUFFICES ASSUME NEW r \in Req, req'[r].phase = "new" PROVE req'[r].taken = {}
    BY DEF NothingTaken
  <2> QED
    BY RequestMoves DEF Short, NothingTaken
<1>0. LeasesAhead'
  BY LeasesAheadKept, StepIsClient DEF TypeOK, Short
<1> SUFFICES ASSUME NEW p \in Project, NEW r \in Req, Occupied(p, now)', lease'[p].editor = r
             PROVE  /\ \/ p \in req'[r].taken
                       \/ req'[r].phase \in {"cleanup", "done"} /\ ~SessionValid(lease[p].session, now)'
                       \/ /\ req'[r].phase \in {"abandoned", "killed"}
                          /\ lease'[p].expires <= req'[r].over + LEASE_SECONDS
                    /\ req'[r].phase \in Serving => lease'[p].session = req'[r].session
  BY <1>0, <1>1 DEF Short, ShortLeasesEnd, OwnSession
<1>2. /\ req \in [Req -> ReqRow] /\ now \in Nat /\ lease \in [Project -> LeaseRow \cup {NoRow}]
      /\ AccountsTypeOK /\ NothingTaken
  BY DEF TypeOK, AccountsTypeOK, Short
<1>3. ASSUME NEW t \in Recent, Take(r, p, t)
      PROVE  p \in req'[r].taken /\ lease'[p].session = req'[r].session
  <2>1. p \in req'[r].taken /\ req'[r].session = req[r].session
    BY <1>2, <1>3 DEF Take, ReqRow
  <2>2. lease'[p].session = req[r].session
    BY <1>2, <1>3 DEF Take, AcquireLease, Owns, LeaseRow, Occupied
  <2> QED
    BY <2>1, <2>2
<1>4. CASE Occupied(p, now) /\ lease'[p] = lease[p]
  <2> DEFINE s == lease[p].session
  <2>0. PICK x : x = s
    OBVIOUS
  <2>1. /\ lease[p] # NoRow /\ lease[p] \in LeaseRow /\ x \in Session /\ session[x] # NoRow
        /\ lease'[p].session = x
    BY <1>2, <1>4, <2>0 DEF Occupied, LeaseRow, Revocation, LeasesBacked
  <2>2. /\ \/ p \in req[r].taken
           \/ req[r].phase \in {"cleanup", "done"} /\ ~SessionValid(x, now)
           \/ /\ req[r].phase \in {"abandoned", "killed"}
              /\ lease[p].expires <= req[r].over + LEASE_SECONDS
        /\ req[r].phase \in Serving => x = req[r].session
    BY <1>4, <2>0 DEF Short, ShortLeasesEnd, OwnSession
  <2>3. ~SessionValid(x, now) => ~SessionValid(x, now)'
    BY <1>2, <2>1, InvalidStays, StepIsClient
  <2>4. req'[r].phase \in Serving => req[r].phase \in Serving /\ req'[r].session = req[r].session
    <3>1. req[r].phase = "new" => FALSE
      BY <1>2, <2>2 DEF NothingTaken
    <3> QED
      BY <1>2, <3>1, RequestMoves
  <2>5. ASSUME NEW t \in Recent, Release(r, p, t)
        PROVE  req'[r].phase = "cleanup" /\ ~SessionValid(x, now)'
    <3>1. req[r].phase = "cleanup" /\ req'[r].phase = "cleanup" /\ req[r].session = x
      BY <1>2, <2>2, <2>5 DEF Release, ReqRow, Serving
    <3>2. ~ReleaseLease(x, r, p, t)
      <4> SUFFICES ASSUME ReleaseLease(x, r, p, t) PROVE FALSE
        OBVIOUS
      <4>1. lease'[p].expires = 0 /\ now' = now
        BY <1>2, <2>1 DEF ReleaseLease, LeaseRow
      <4> QED
        BY <1>2, <4>1 DEF Occupied
    <3>3. ~SessionValid(x, t) \/ ~Owns(p, x, r, t)
      BY <2>5, <3>1, <3>2 DEF Release
    <3>4. t \in Nat /\ t <= now
      BY <1>2 DEF Recent
    <3>5. Owns(p, x, r, t)
      BY <1>4, <2>0, <2>1, <3>4, <1>2 DEF Owns, Occupied, LeaseRow
    <3>6. session[x] \in SessionRow
      BY <1>2, <2>1 DEF AccountsTypeOK
    <3>7. ~SessionValid(x, now)
      BY <1>2, <3>3, <3>4, <3>5, <3>6 DEF SessionValid, SessionRow
    <3> QED
      BY <2>3, <3>1, <3>7
  <2>6. req'[r].phase \in Serving => lease'[p].session = req'[r].session
    BY <2>1, <2>2, <2>4
  <2>7. SessionValid(lease[p].session, now)' = SessionValid(x, now)'
    BY <2>1 DEF SessionValid
  <2>8. \/ p \in req'[r].taken
        \/ req'[r].phase \in {"cleanup", "done"} /\ ~SessionValid(x, now)'
        \/ /\ req'[r].phase \in {"abandoned", "killed"}
           /\ lease'[p].expires <= req'[r].over + LEASE_SECONDS
    <3>0. BreaksOff(r) => /\ req'[r].phase \in {"abandoned", "killed"}
                          /\ lease'[p].expires <= req'[r].over + LEASE_SECONDS
      BY <1>4, <2>1 DEF BreaksOff, Short, LeasesAhead
    <3>1. CASE p \in req[r].taken
      <4>1. CASE \E t \in Recent : Release(r, p, t)
        BY <2>5, <4>1
      <4> QED
        BY <1>2, <3>0, <3>1, <4>1, RequestMoves
    <3>2. CASE req[r].phase \in {"cleanup", "done"} /\ ~SessionValid(x, now)
      BY <1>2, <2>3, <3>0, <3>2, RequestMoves
    <3>3. CASE /\ req[r].phase \in {"abandoned", "killed"}
               /\ lease[p].expires <= req[r].over + LEASE_SECONDS
      BY <1>2, <1>4, <3>3, RequestMoves
    <3> QED
      BY <2>2, <3>1, <3>2, <3>3
  <2> QED
    BY <2>6, <2>7, <2>8
<1> QED
  BY <1>3, <1>4, ShortLeaseSteps

(* The lease a batch or list request takes for itself ends with the request, *)
(* unless its session was lost before the finally block of authorize came to *)
(* release it, a release raises there or the process stops.  Even then it    *)
(* is gone LEASE_SECONDS after the request: nobody extends it.               *)
THEOREM ShortLeasesGivenBack == Spec => []ShortLeasesEnd
<1>1. Init => Short
  BY DEF Init, AccountsInit, Idle, Serving, Occupied, Short, ShortLeasesEnd, OwnSession, NothingTaken, LeasesAhead
<1>2. TypeOK /\ Revocation /\ Short /\ [Next]_vars => Short'
  BY ShortNext
<1>3. Short => ShortLeasesEnd
  BY DEF Short
<1> QED
  BY <1>1, <1>2, <1>3, TypeCorrect, RequestsAreClients, RevocationInvariant, PTL DEF Spec

(* The finally block of authorize gives back what the request took, and      *)
(* leaves alone the lease of whoever has the project by then.                *)
THEOREM SuccessorSpared == Spec => CleanupSparesSuccessor
<1> DEFINE Spared == \A r \in Req, p \in Project :
                       /\ req[r].phase = "cleanup" /\ req'[r].phase = "cleanup"
                       /\ p \in req[r].taken \ req'[r].taken
                       /\ lease[p] # NoRow /\ lease[p].editor # r
                       => lease'[p] = lease[p]
<1>1. TypeOK /\ NothingTaken /\ [Next]_vars => Spared
  <2> SUFFICES ASSUME TypeOK, NothingTaken, [Next]_vars, NEW r \in Req, NEW p \in Project,
                      req'[r].phase = "cleanup", p \in req[r].taken, p \notin req'[r].taken, lease[p].editor # r
               PROVE  lease'[p] = lease[p]
    OBVIOUS
  <2>1. PICK t \in Recent : Release(r, p, t)
    BY RequestMoves DEF BreaksOff
  <2>2. ~ReleaseLease(req[r].session, r, p, t)
    BY DEF ReleaseLease, Owns
  <2> QED
    BY <2>1, <2>2 DEF Release, accountVars
<1>2. Init => NothingTaken
  BY DEF Init, Idle, NothingTaken
<1>3. TypeOK /\ NothingTaken /\ [Next]_vars => NothingTaken'
  <2> SUFFICES ASSUME TypeOK, NothingTaken, [Next]_vars, NEW r \in Req, req'[r].phase = "new" PROVE req'[r].taken = {}
    BY DEF NothingTaken
  <2> QED
    BY RequestMoves DEF NothingTaken
<1>4. Spec => [][Spared]_vars
  BY <1>1, <1>2, <1>3, TypeCorrect, PTL DEF Spec
<1> QED
  BY <1>4 DEF CleanupSparesSuccessor

=============================================================================
