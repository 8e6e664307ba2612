------------------------------ MODULE Accounts ------------------------------
(***************************************************************************)
(* The identity database of one account: accounts/repository.py.           *)
(*                                                                         *)
(* Every operation of AccountRepository that writes runs in one            *)
(* BEGIN IMMEDIATE transaction, so an operation is one action.  What an    *)
(* operation reads BEFORE its transaction (a password hash, the time) is a *)
(* parameter of the action and ranges over the values it could have read.  *)
(*                                                                         *)
(* Rows are records, a missing row is NoRow.  A password hash is salted    *)
(* afresh each time, so hashes are numbered in the order they are stored;  *)
(* 0 stands for SQL NULL.  Login names are phone numbers, unique over all  *)
(* users: a user's are numbered in the order he first had them, and he may *)
(* get an earlier one back.                                                *)
(***************************************************************************)
EXTENDS Integers, FiniteSets

CONSTANTS
  User,                     \* rows of auth_users that may ever exist
  Owner,                    \* the account's owner
  Session,                  \* session token hashes
  Editor,                   \* (editor_id, token) pairs that may name a lease holder
  Project,                  \* outer projects, ordered as their ids are sorted
  NoRow,
  SESSION_SECONDS, SESSION_MAX_SECONDS, SESSION_RENEW_INTERVAL,
  LEASE_SECONDS, INVITATION_SECONDS,
  BUSY_TIMEOUT,             \* longest wait of a caller for the write lock
  MaxTime, MaxHash, MaxPhone, MaxLinks  \* bounds: the clock; a user's hashes, phones; invitations

ASSUME AccountsAssumption ==
  /\ Owner \in User
  /\ Project \subseteq Nat
  /\ SESSION_SECONDS \in Nat \ {0} /\ SESSION_MAX_SECONDS \in Nat \ {0}
  /\ SESSION_RENEW_INTERVAL \in Nat /\ LEASE_SECONDS \in Nat \ {0}
  /\ SESSION_SECONDS <= SESSION_MAX_SECONDS
  /\ INVITATION_SECONDS \in Nat /\ BUSY_TIMEOUT \in Nat
  /\ MaxTime \in Nat /\ MaxHash \in Nat \ {0} /\ MaxPhone \in Nat \ {0}
  /\ MaxLinks \in Nat

VARIABLES
  now,            \* time.time(), in units the constants share
  accountActive,  \* auth_accounts.status = 'active'
  user,           \* auth_users
  invite,         \* auth_invitations, at most one row for a user
  links,          \* how many invitations were ever issued (bound only)
  session,        \* auth_sessions
  holder,         \* the user a session token was ever issued to (tokens are never reused)
  lease           \* project_edit_leases

identityVars == <<accountActive, user, invite, links, session, holder>>
accountVars == <<now, identityVars, lease>>

-----------------------------------------------------------------------------
MinOf(a, b) == IF a <= b THEN a ELSE b
MaxOf(a, b) == IF a >= b THEN a ELSE b

\* The times a caller may have read before it was granted the write lock.
Recent == {t \in 0..now : now <= t + BUSY_TIMEOUT}

UserRow == [status : {"absent", "pending", "active", "disabled"},
            hash : 0..MaxHash, last : 0..MaxHash,       \* stored; newest ever
            phone : 0..MaxPhone, phones : 0..MaxPhone]  \* username; newest ever
InviteRow == [expires : Nat, used : BOOLEAN]
\* hash and phone are history: what the login that opened the session had read.
SessionRow == [user : User, created : Nat, expires : Nat, hash : 1..MaxHash, phone : 1..MaxPhone]
LeaseRow == [user : User, session : Session, editor : Editor, expires : Nat]

ASSUME NoRowAssumption == NoRow \notin InviteRow \cup SessionRow \cup LeaseRow \cup User

AccountsTypeOK ==
  /\ now \in 0..MaxTime
  /\ accountActive \in BOOLEAN
  /\ user \in [User -> UserRow]
  /\ invite \in [User -> InviteRow \cup {NoRow}]
  /\ links \in 0..MaxLinks
  /\ session \in [Session -> SessionRow \cup {NoRow}]
  /\ holder \in [Session -> User \cup {NoRow}]
  /\ lease \in [Project -> LeaseRow \cup {NoRow}]

AccountsInit ==
  /\ now = 0
  /\ accountActive = TRUE
  /\ user = [u \in User |-> IF u = Owner
                            THEN [status |-> "active", hash |-> 1, last |-> 1,
                                  phone |-> 1, phones |-> 1]
                            ELSE [status |-> "absent", hash |-> 0, last |-> 0,
                                  phone |-> 0, phones |-> 0]]
  /\ invite = [u \in User |-> NoRow]
  /\ links = 0
  /\ session = [s \in Session |-> NoRow]
  /\ holder = [s \in Session |-> NoRow]
  /\ lease = [p \in Project |-> NoRow]

-----------------------------------------------------------------------------
(* Sessions *)

Active(u) == user[u].status = "active" /\ accountActive

\* The query that AccountRepository.lease and _session share: the row is there,
\* neither limit has passed at time t, and user and account are active.
SessionValid(s, t) ==
  /\ session[s] # NoRow
  /\ session[s].expires > t
  /\ session[s].created > t - SESSION_MAX_SECONDS
  /\ Active(session[s].user)

SessionsWithout(S) == [s \in Session |-> IF s \in S THEN NoRow ELSE session[s]]
SessionsOf(u) == {s \in Session : session[s] # NoRow /\ session[s].user = u}
LeasesWithoutUser(u) ==
  [p \in Project |-> IF lease[p] # NoRow /\ lease[p].user = u THEN NoRow ELSE lease[p]]
LeasesWithoutSession(s) ==
  [p \in Project |-> IF lease[p] # NoRow /\ lease[p].session = s THEN NoRow ELSE lease[p]]

\* The tail of every credential change: the user's sessions and leases go.
DropAccess(u) ==
  /\ session' = SessionsWithout(SessionsOf(u))
  /\ lease' = LeasesWithoutUser(u)

StoreHash(u, status) ==
  user' = [user EXCEPT ![u] = [@ EXCEPT !.status = status, !.hash = user[u].last + 1, !.last = user[u].last + 1]]

\* A password verified against hash h counts only if h is still stored.
HashUnchanged(u, h) == user[u].hash = h

PhoneAsRead(u, ph) == TRUE

\* Nor does it count if the phone that found the row is no longer the user's.
PhoneUnchanged(u, ph) == user[u].phone = ph

\* login: an earlier transaction found the row by the phone ph and read the hash h,
\* which was verified in between; the second transaction fetches the row by its id
\* and compares both again.  prev is the session a re-login replaces.
Login(u, h, ph, s, prev) ==
  /\ holder[s] = NoRow
  /\ h \in 1..user[u].last /\ ph \in 1..user[u].phones
  /\ HashUnchanged(u, h)
  /\ PhoneUnchanged(u, ph)
  /\ Active(u)
  /\ holder' = [holder EXCEPT ![s] = u]
  /\ LET gone == {r \in prev : session[r] # NoRow /\ session[r].user = u}
     IN /\ session' = [SessionsWithout(gone) EXCEPT
                         ![s] = [user |-> u, created |-> now, hash |-> h, phone |-> ph,
                                 expires |-> now + SESSION_SECONDS]]
        /\ lease' = [p \in Project |->
                       IF lease[p] # NoRow /\ lease[p].session \in gone
                       THEN NoRow ELSE lease[p]]
  /\ UNCHANGED <<now, accountActive, user, invite, links>>

RenewIfPresent(s) ==
  /\ session[s] # NoRow
  /\ session' = [session EXCEPT ![s].expires = MaxOf(@, now + SESSION_SECONDS)]
  /\ UNCHANGED <<now, accountActive, user, invite, links, holder, lease>>

\* renew_session reads the time and the row under the write lock.
RenewSession(s) ==
  /\ SessionValid(s, now)
  /\ LET limit == session[s].created + SESSION_MAX_SECONDS
         renewAfter == IF session[s].expires >= limit THEN limit
                       ELSE MaxOf(session[s].created, session[s].expires - SESSION_SECONDS)
                            + SESSION_RENEW_INTERVAL
     IN /\ now >= renewAfter
        /\ session' = [session EXCEPT ![s].expires =
                         MaxOf(@, MinOf(now + SESSION_SECONDS, limit))]
  /\ UNCHANGED <<now, accountActive, user, invite, links, holder, lease>>

LogoutKeepsLeases(s) ==
  /\ session[s] # NoRow
  /\ session' = SessionsWithout({s})
  /\ UNCHANGED <<now, accountActive, user, invite, links, holder, lease>>

Logout(s) ==
  /\ session[s] # NoRow
  /\ session' = SessionsWithout({s})
  /\ lease' = LeasesWithoutSession(s)
  /\ UNCHANGED <<now, accountActive, user, invite, links, holder>>

\* change_password checks the session and reads the hash h beforehand; only the
\* comparison with h is repeated in the transaction.
ChangePassword(u, h) ==
  /\ \E s \in Session : holder[s] = u
  /\ h \in 1..user[u].last
  /\ HashUnchanged(u, h)
  /\ user[u].last < MaxHash
  /\ StoreHash(u, user[u].status)
  /\ DropAccess(u)
  /\ UNCHANGED <<now, accountActive, invite, links, holder>>

-----------------------------------------------------------------------------
(* Administration *)

NewLink(u) ==
  /\ links < MaxLinks
  /\ links' = links + 1
  /\ invite' = [invite EXCEPT ![u] = [expires |-> now + INVITATION_SECONDS, used |-> FALSE]]

CreateMember(u) ==
  /\ user[u].status = "absent"
  /\ Active(Owner)
  /\ user' = [user EXCEPT ![u] = [status |-> "active", hash |-> 1, last |-> 1,
                                  phone |-> 1, phones |-> 1]]
  /\ UNCHANGED <<now, accountActive, invite, links, session, holder, lease>>

Invite(u) ==
  /\ user[u].status = "absent"
  /\ accountActive
  /\ NewLink(u)
  /\ user' = [user EXCEPT ![u] = [@ EXCEPT !.status = "pending", !.phone = 1, !.phones = 1]]
  /\ UNCHANGED <<now, accountActive, session, holder, lease>>

\* set_member_password, with restore for a removed member.
SetMemberPassword(u, restore) ==
  /\ u # Owner
  /\ Active(Owner)
  /\ IF restore THEN user[u].status = "disabled"
                ELSE user[u].status \in {"active", "pending"}
  /\ user[u].last < MaxHash
  /\ StoreHash(u, "active")
  /\ DropAccess(u)
  /\ invite' = [invite EXCEPT ![u] = NoRow]
  /\ UNCHANGED <<now, accountActive, links, holder>>

\* The platform administrator moves the user to a phone nobody has: a new one, or
\* one he had before.  The old phone is not usable from this transaction on.
ChangeMemberPhone(u, n) ==
  /\ user[u].status # "absent"
  /\ n # user[u].phone /\ n <= user[u].phones + 1
  /\ user' = [user EXCEPT ![u] = [@ EXCEPT !.phone = n, !.phones = MaxOf(user[u].phones, n)]]
  /\ DropAccess(u)
  /\ invite' = [invite EXCEPT ![u] = NoRow]
  /\ UNCHANGED <<now, accountActive, links, holder>>

RemoveMember(u) ==
  /\ u # Owner
  /\ user[u].status # "absent"
  /\ user' = [user EXCEPT ![u].status = "disabled"]
  /\ DropAccess(u)
  /\ invite' = [invite EXCEPT ![u] = NoRow]
  /\ UNCHANGED <<now, accountActive, links, holder>>

ResetLink(u) ==
  /\ user[u].status \notin {"absent", "disabled"}
  /\ NewLink(u)
  /\ UNCHANGED <<now, accountActive, user, session, holder, lease>>

RestoreMember(u) ==
  /\ u # Owner
  /\ user[u].status = "disabled"
  /\ NewLink(u)
  /\ user' = [user EXCEPT ![u] = [@ EXCEPT !.status = "pending", !.hash = 0]]
  /\ UNCHANGED <<now, accountActive, session, holder, lease>>

\* activate: the link of an invitation or of a password reset is used.
Activate(u) ==
  /\ invite[u] # NoRow
  /\ ~invite[u].used
  /\ invite[u].expires > now
  /\ user[u].status # "disabled"
  /\ accountActive
  /\ user[u].last < MaxHash
  /\ StoreHash(u, "active")
  /\ invite' = [invite EXCEPT ![u].used = TRUE]
  /\ DropAccess(u)
  /\ UNCHANGED <<now, accountActive, links, holder>>

DisableAccount ==
  /\ accountActive' = FALSE
  /\ session' = [s \in Session |-> NoRow]
  /\ lease' = [p \in Project |-> NoRow]
  /\ UNCHANGED <<now, user, invite, links, holder>>

EnableAccount ==
  /\ ~accountActive
  /\ accountActive' = TRUE
  /\ UNCHANGED <<now, user, invite, links, session, holder, lease>>

-----------------------------------------------------------------------------
(* Edit leases: AccountRepository.lease with time t read before the lock *)

Occupied(p, t) == lease[p] # NoRow /\ lease[p].expires > t

OwnsBySession(p, s, e, t) == Occupied(p, t) /\ lease[p].session = s

Owns(p, s, e, t) ==
  /\ Occupied(p, t)
  /\ lease[p].session = s
  /\ lease[p].editor = e

AcquireUnlessOwned(s, e, p, t) ==
  /\ SessionValid(s, t)
  /\ lease' = [lease EXCEPT ![p] = [user |-> session[s].user, session |-> s,
                                    editor |-> e, expires |-> t + LEASE_SECONDS]]
  /\ UNCHANGED <<now, identityVars>>

AcquireLease(s, e, p, t) ==
  /\ SessionValid(s, t)
  /\ \/ /\ ~Occupied(p, t)
        /\ lease' = [lease EXCEPT ![p] = [user |-> session[s].user, session |-> s,
                                          editor |-> e, expires |-> t + LEASE_SECONDS]]
     \/ /\ Owns(p, s, e, t)
        /\ lease' = [lease EXCEPT ![p].expires = t + LEASE_SECONDS]
  /\ UNCHANGED <<now, identityVars>>

RenewLease(s, e, p, t) ==
  /\ SessionValid(s, t)
  /\ Owns(p, s, e, t)
  /\ lease' = [lease EXCEPT ![p].expires = t + LEASE_SECONDS]
  /\ UNCHANGED <<now, identityVars>>

ReleaseByBackdating(s, e, p, t) ==
  /\ SessionValid(s, t)
  /\ Owns(p, s, e, t)
  /\ lease' = [lease EXCEPT ![p].expires = t - LEASE_SECONDS]
  /\ UNCHANGED <<now, identityVars>>

ReleaseLease(s, e, p, t) ==
  /\ SessionValid(s, t)
  /\ Owns(p, s, e, t)
  /\ lease' = [lease EXCEPT ![p].expires = 0]
  /\ UNCHANGED <<now, identityVars>>

Tick ==
  /\ now < MaxTime
  /\ now' = now + 1
  /\ UNCHANGED <<identityVars, lease>>

-----------------------------------------------------------------------------
\* prev of Login: no session, or the one the browser still has a cookie for.
Replaced == {{}} \cup {{s} : s \in Session}

IdentityStep ==
  \/ \E u \in User, h \in 1..MaxHash, ph \in 1..MaxPhone, s \in Session, prev \in Replaced :
       Login(u, h, ph, s, prev)
  \/ \E s \in Session : RenewSession(s)
  \/ \E s \in Session : Logout(s)
  \/ \E u \in User, h \in 1..MaxHash : ChangePassword(u, h)
  \/ \E u \in User : CreateMember(u)
  \/ \E u \in User : Invite(u)
  \/ \E u \in User, restore \in BOOLEAN : SetMemberPassword(u, restore)
  \/ \E u \in User, n \in 1..MaxPhone : ChangeMemberPhone(u, n)
  \/ \E u \in User : RemoveMember(u)
  \/ \E u \in User : ResetLink(u)
  \/ \E u \in User : RestoreMember(u)
  \/ \E u \in User : Activate(u)
  \/ DisableAccount
  \/ EnableAccount

LeaseStep(E) ==
  \E s \in Session, e \in E, p \in Project, t \in Recent :
    \/ AcquireLease(s, e, p, t)
    \/ RenewLease(s, e, p, t)
    \/ ReleaseLease(s, e, p, t)

AccountsNext == IdentityStep \/ LeaseStep(Editor) \/ Tick

-----------------------------------------------------------------------------
(* Properties *)

\* Every session was opened with the password and the phone that are stored now,
\* for a user and an account that are active: disabling an account, removing a
\* member, changing a phone and setting a password leave no session of before,
\* even when a login read the old phone and verified the old password first.
SessionsCurrent ==
  \A s \in Session : session[s] # NoRow =>
    /\ session[s].hash = user[session[s].user].hash
    /\ session[s].phone = user[session[s].user].phone
    /\ Active(session[s].user)

\* Every lease row, live or expired, belongs to a session that still exists: no
\* revocation leaves a lease behind that blocks the project.
LeasesBacked ==
  \A p \in Project : lease[p] # NoRow =>
    /\ session[lease[p].session] # NoRow
    /\ session[lease[p].session].user = lease[p].user

\* renew_session: "revocation always wins, and simultaneous tabs cannot recreate a
\* deleted/expired session"; nor does a session outlive its absolute limit.
RenewalNeverRevives ==
  [][\A s \in Session :
       /\ holder[s] # NoRow /\ session[s] = NoRow => session'[s] = NoRow
       /\ session[s] # NoRow /\ session'[s] # NoRow =>
            /\ session[s].expires <= now => session'[s] = session[s]
            /\ session'[s].created = session[s].created
            /\ session'[s].expires <= session[s].created + SESSION_MAX_SECONDS
    ]_accountVars

\* A live lease keeps its holder as long as the holder's session exists, whatever
\* time the other callers read before they got the write lock.
HolderKeepsLease ==
  [][\A p \in Project :
       Occupied(p, now) /\ session'[lease[p].session] # NoRow =>
         /\ lease'[p] # NoRow
         /\ lease'[p].session = lease[p].session
         /\ lease'[p].editor = lease[p].editor
    ]_accountVars

-----------------------------------------------------------------------------
AccountsSpec == AccountsInit /\ [][AccountsNext]_accountVars
=============================================================================
