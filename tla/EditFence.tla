----------------------------- MODULE EditFence -----------------------------
(***************************************************************************)
(* HTTP requests that write to projects, over the identity database:       *)
(* accounts/authorization.py (create_project_authorizer) decides at the    *)
(* door, accounts/fencing.py (FencedConnection) decides again inside each  *)
(* business transaction.                                                   *)
(*                                                                         *)
(* A request names the projects it touches.  It presents the lease of its  *)
(* tab, or, for list and batch operations ("transient"), takes short       *)
(* leases under an editor id of its own; the id is fresh and random, so    *)
(* the request itself stands for it.  A business transaction attaches the  *)
(* identity database and begins IMMEDIATE, so it holds that database's     *)
(* write lock (`writer') from its first checked statement to its commit.   *)
(***************************************************************************)
EXTENDS Accounts

CONSTANTS
  Tab,      \* editors of browser tabs
  Req,      \* requests; each is served once
  NoReq

ASSUME EditFenceAssumption ==
  /\ Editor = Tab \cup Req
  /\ Tab \cap Req = {}
  /\ NoReq \notin Req

VARIABLES
  writer,   \* the request whose business transaction holds the write lock
  req       \* the requests

fenceVars == <<writer, req>>
vars == <<accountVars, fenceVars>>

Serving == {"peek", "take", "require", "handler", "tx", "cleanup"}
Over == {"done", "abandoned", "killed"}  \* abandoned: its release loop was broken off
Phase == Serving \cup Over \cup {"new"}

ReqRow == [phase : Phase, session : Session \cup {NoRow}, editor : Editor \cup {NoRow},
           targets : SUBSET Project,   \* ids
           todo : SUBSET Project,      \* ids the current loop has still to visit
           owned : BOOLEAN,            \* all(state["editable"]) so far
           taken : SUBSET Project,     \* temporary
           over : Nat]                 \* history: when it was abandoned or killed

TypeOK ==
  /\ AccountsTypeOK
  /\ writer \in Req \cup {NoReq}
  /\ req \in [Req -> ReqRow]
  /\ \A r \in Req : req[r].phase \in Serving => req[r].session \in Session /\ req[r].editor \in Editor

\* A request that holds nothing: not yet received, or over.
Idle(phase) == [phase |-> phase, session |-> NoRow, editor |-> NoRow,
                targets |-> {}, todo |-> {}, owned |-> TRUE, taken |-> {}, over |-> 0]
BrokenOff(phase) == [Idle(phase) EXCEPT !.over = now]

Init ==
  /\ AccountsInit
  /\ writer = NoReq
  /\ req = [r \in Req |-> Idle("new")]

\* sorted(ids) visits the least id first.
First(S, p) == p \in S /\ \A q \in S : p <= q

-----------------------------------------------------------------------------
(* check(): the door *)

\* The authentication middleware has validated the session; authorize starts.
Begin(r, s, e, ids, transient) ==
  /\ req[r].phase = "new"
  /\ SessionValid(s, now)
  /\ req' = [req EXCEPT ![r] =
               [phase |-> IF transient THEN "peek" ELSE "require", session |-> s, editor |-> e,
                targets |-> ids, todo |-> ids,
                owned |-> TRUE, taken |-> {}, over |-> 0]]
  /\ UNCHANGED <<accountVars, writer>>

\* First loop of a transient request: does the tab itself hold every lease?  If
\* not, the request goes on under the editor id of its own.
Peek(r, p, t) ==
  /\ req[r].phase = "peek"
  /\ First(req[r].todo, p)
  /\ SessionValid(req[r].session, t)
  /\ LET owned == req[r].owned /\ Owns(p, req[r].session, req[r].editor, t)
         rest == req[r].todo \ {p}
     IN \/ /\ rest # {}
           /\ req' = [req EXCEPT ![r].todo = rest, ![r].owned = owned]
        \/ /\ rest = {} /\ owned
           /\ req' = [req EXCEPT ![r].phase = "require", ![r].todo = req[r].targets]
        \/ /\ rest = {} /\ ~owned
           /\ req' = [req EXCEPT ![r].phase = "take", ![r].todo = req[r].targets,
                                 ![r].editor = r]
  /\ UNCHANGED <<accountVars, writer>>

\* Second loop: acquire them one by one.
Take(r, p, t) ==
  /\ req[r].phase = "take"
  /\ First(req[r].todo, p)
  /\ writer = NoReq
  /\ AcquireLease(req[r].session, r, p, t)
  /\ LET rest == req[r].todo \ {p}
         taken == req[r].taken \cup {p}
     IN \/ /\ rest # {}
           /\ req' = [req EXCEPT ![r].todo = rest, ![r].taken = taken]
        \/ /\ rest = {}
           /\ req' = [req EXCEPT ![r].phase = "require", ![r].todo = req[r].targets,
                                 ![r].taken = taken]
  /\ UNCHANGED writer

\* require_lease for every id, in no order; then the fence is set.
Require(r, p, t) ==
  /\ req[r].phase = "require"
  /\ p \in req[r].todo
  /\ SessionValid(req[r].session, t)
  /\ Owns(p, req[r].session, req[r].editor, t)
  /\ req' = [req EXCEPT ![r].todo = @ \ {p},
                        ![r].phase = IF req[r].todo = {p} THEN "handler" ELSE "require"]
  /\ UNCHANGED <<accountVars, writer>>

\* Any of the three loops ends at the first lease call that is refused.
Refused(r, p, t) ==
  \/ req[r].phase = "peek" /\ First(req[r].todo, p) /\ ~SessionValid(req[r].session, t)
  \/ /\ req[r].phase = "take" /\ First(req[r].todo, p)
     /\ writer = NoReq
     /\ SessionValid(req[r].session, t) => Occupied(p, t) /\ ~Owns(p, req[r].session, r, t)
  \/ /\ req[r].phase = "require" /\ p \in req[r].todo
     /\ ~(SessionValid(req[r].session, t) /\ Owns(p, req[r].session, req[r].editor, t))

DoorFailsAndEnds(r, p, t) ==
  /\ Refused(r, p, t)
  /\ req' = [req EXCEPT ![r] = Idle("done")]
  /\ UNCHANGED <<accountVars, writer>>

DoorFails(r, p, t) ==
  /\ Refused(r, p, t)
  /\ req' = [req EXCEPT ![r].phase = "cleanup"]
  /\ UNCHANGED <<accountVars, writer>>

\* A lease call of one of the loops raises: the identity database stays locked for
\* longer than sqlite waits, or cannot be read or written.
CallRaises(r) ==
  /\ req[r].phase \in {"peek", "take", "require"}
  /\ req' = [req EXCEPT ![r].phase = "cleanup"]
  /\ UNCHANGED <<accountVars, writer>>

-----------------------------------------------------------------------------
(* The fence in the business transaction *)

FenceLeftToDoor(r) == TRUE

\* FencedConnection._check, for every project of the fence.
FenceHolds(r) ==
  \A p \in req[r].targets :
    /\ Owns(p, req[r].session, req[r].editor, now)
    /\ session[req[r].session] # NoRow
    /\ session[req[r].session].expires > now
    /\ session[req[r].session].created > now - SESSION_MAX_SECONDS
    /\ Active(lease[p].user)

\* The first INSERT, UPDATE, DELETE or REPLACE: BEGIN IMMEDIATE, then the check.
BeginWrite(r) ==
  /\ req[r].phase = "handler"
  /\ writer = NoReq
  /\ FenceHolds(r)
  /\ writer' = r
  /\ req' = [req EXCEPT ![r].phase = "tx"]
  /\ UNCHANGED accountVars

\* The check fails there: the transaction never writes, the handler fails.
BeginWriteFails(r) ==
  /\ req[r].phase = "handler"
  /\ writer = NoReq
  /\ ~FenceHolds(r)
  /\ req' = [req EXCEPT ![r].phase = "cleanup"]
  /\ UNCHANGED <<accountVars, writer>>

\* A later statement of the transaction is checked again: time may have passed.
NextStatementFails(r) ==
  /\ req[r].phase = "tx"
  /\ ~FenceHolds(r)
  /\ writer' = NoReq
  /\ req' = [req EXCEPT ![r].phase = "cleanup"]
  /\ UNCHANGED accountVars

Commit(r) ==
  /\ req[r].phase = "tx"
  /\ writer' = NoReq
  /\ req' = [req EXCEPT ![r].phase = "handler"]
  /\ UNCHANGED accountVars

\* The handler returns or fails for a reason of its own.
Finish(r) ==
  /\ req[r].phase = "handler"
  /\ req' = [req EXCEPT ![r].phase = "cleanup"]
  /\ UNCHANGED <<accountVars, writer>>

-----------------------------------------------------------------------------
(* authorize(): the finally block *)

Release(r, p, t) ==
  /\ req[r].phase = "cleanup"
  /\ p \in req[r].taken
  /\ writer = NoReq
  /\ \/ ReleaseLease(req[r].session, r, p, t)
     \/ /\ ~(SessionValid(req[r].session, t) /\ Owns(p, req[r].session, r, t))
        /\ UNCHANGED accountVars
  /\ req' = [req EXCEPT ![r].taken = @ \ {p}]
  /\ UNCHANGED writer

\* A release raises for the same reason.  Only AccountError is caught: the loop ends
\* there, and this lease and the ones after it are left as they are.
ReleaseRaises(r) ==
  /\ req[r].phase = "cleanup"
  /\ req[r].taken # {}
  /\ req' = [req EXCEPT ![r] = BrokenOff("abandoned")]
  /\ UNCHANGED <<accountVars, writer>>

End(r) ==
  /\ req[r].phase = "cleanup"
  /\ req[r].taken = {}
  /\ req' = [req EXCEPT ![r] = Idle("done")]
  /\ UNCHANGED <<accountVars, writer>>

\* The API process stops: requests are gone, an open transaction rolls back,
\* the identity database stays.
Restart ==
  /\ \E r \in Req : req[r].phase \in Serving
  /\ req' = [r \in Req |-> IF req[r].phase \in Serving THEN BrokenOff("killed") ELSE req[r]]
  /\ writer' = NoReq
  /\ UNCHANGED accountVars

-----------------------------------------------------------------------------
ReqStep(r) ==
  \/ \E s \in Session, e \in Tab, ids \in SUBSET Project \ {{}}, transient \in BOOLEAN :
       Begin(r, s, e, ids, transient)
  \/ \E p \in Project, t \in Recent :
       \/ Peek(r, p, t)
       \/ Take(r, p, t)
       \/ Require(r, p, t)
       \/ DoorFails(r, p, t)
       \/ Release(r, p, t)
  \/ CallRaises(r)
  \/ ReleaseRaises(r)
  \/ BeginWrite(r)
  \/ BeginWriteFails(r)
  \/ NextStatementFails(r)
  \/ Commit(r)
  \/ Finish(r)
  \/ End(r)

\* Writers of the identity database wait while a business transaction holds it.
Next ==
  \/ \E r \in Req : ReqStep(r)
  \/ Restart
  \/ writer = NoReq /\ (IdentityStep \/ LeaseStep(Tab)) /\ UNCHANGED fenceVars
  \/ Tick /\ UNCHANGED fenceVars

Spec == Init /\ [][Next]_vars

-----------------------------------------------------------------------------
(* Properties *)

\* A write reaches the business database only while the lease rows of all its
\* projects name the request's own session and editor and the session exists:
\* a page that lost its lease cannot save, whatever it was granted at the door.
CommitsOwnLeases ==
  [][\A r \in Req : req[r].phase = "tx" /\ req'[r].phase = "handler" =>
       \A p \in req[r].targets :
         /\ lease[p] # NoRow
         /\ lease[p].session = req[r].session
         /\ lease[p].editor = req[r].editor
         /\ session[req[r].session] # NoRow
         /\ Active(session[req[r].session].user)
    ]_vars

\* The state it rests on: an open transaction still owns every row it checked,
\* because nothing else is granted the write lock of the identity database.
WriterOwnsLeases ==
  \A r \in Req : req[r].phase = "tx" =>
    \A p \in req[r].targets :
      /\ lease[p] # NoRow
      /\ lease[p].session = req[r].session
      /\ lease[p].editor = req[r].editor

\* A request's short lease ends with the request, however it ends.  It is there
\* afterwards only if the session expired before the release, or if a release
\* raised or the process stopped: nobody extends it then, so the project is free
\* again LEASE_SECONDS later.
ShortLeasesEnd ==
  \A p \in Project, r \in Req :
    Occupied(p, now) /\ lease[p].editor = r =>
      \/ p \in req[r].taken
      \/ req[r].phase \in {"cleanup", "done"} /\ ~SessionValid(lease[p].session, now)
      \/ /\ req[r].phase \in {"abandoned", "killed"}
         /\ lease[p].expires <= req[r].over + LEASE_SECONDS

\* The release in the finally block spares a successor: when the short lease
\* expired while the handler ran and a tab took the project over, the tab's lease
\* is left alone.
CleanupSparesSuccessor ==
  [][\A r \in Req, p \in Project :
       /\ req[r].phase = "cleanup" /\ req'[r].phase = "cleanup"
       /\ p \in req[r].taken \ req'[r].taken
       /\ lease[p] # NoRow /\ lease[p].editor # r
       => lease'[p] = lease[p]
    ]_vars
=============================================================================
