-------------------------- MODULE Accounts_proofs --------------------------
(***************************************************************************)
(* Revocation is complete, renewal revives nothing and a live lease keeps  *)
(* its holder, for any number of users, sessions, editors and projects and *)
(* any durations.                                                          *)
(***************************************************************************)
EXTENDS Accounts, TLAPS

USE AccountsAssumption, NoRowAssumption DEF AccountsAssumption, NoRowAssumption

-----------------------------------------------------------------------------
(* Type correctness *)

\* Whatever a transaction stores of a user is a row.
LEMMA UsersStored ==
  ASSUME AccountsTypeOK, NEW u \in User
  PROVE  /\ user[u].last < MaxHash =>
              /\ StoreHash(u, "active") => user' \in [User -> UserRow]
              /\ StoreHash(u, user[u].status) => user' \in [User -> UserRow]
         /\ \A n \in 1..MaxPhone : ChangeMemberPhone(u, n) => user' \in [User -> UserRow]
         /\ Invite(u) \/ RemoveMember(u) \/ RestoreMember(u) => user' \in [User -> UserRow]
<1>1. user \in [User -> UserRow] /\ user[u] \in UserRow
  BY DEF AccountsTypeOK
<1>2. /\ user[u].status \in {"absent", "pending", "active", "disabled"}
      /\ user[u].last \in 0..MaxHash /\ user[u].phones \in 0..MaxPhone
  BY <1>1 DEF UserRow
<1>3. ASSUME NEW row \in UserRow, user' = [user EXCEPT ![u] = row] PROVE user' \in [User -> UserRow]
  BY <1>1, <1>3
<1>4. ASSUME user[u].last < MaxHash, NEW st \in {"absent", "pending", "active", "disabled"}, StoreHash(u, st)
      PROVE  user' \in [User -> UserRow]
  <2>1. user[u].last + 1 \in 0..MaxHash
    BY <1>2, <1>4
  <2>2. [user[u] EXCEPT !.status = st, !.hash = user[u].last + 1, !.last = user[u].last + 1] \in UserRow
    BY <1>1, <2>1 DEF UserRow
  <2> QED
    BY <1>3, <1>4, <2>2 DEF StoreHash
<1>5. ASSUME NEW n \in 1..MaxPhone, ChangeMemberPhone(u, n) PROVE user' \in [User -> UserRow]
  <2>1. PICK m \in 0..MaxPhone : m = MaxOf(user[u].phones, n)
    BY <1>2 DEF MaxOf
  <2>2. ASSUME NEW row \in UserRow, NEW k \in 0..MaxPhone
        PROVE  [row EXCEPT !.phone = k, !.phones = m] \in UserRow
    BY DEF UserRow
  <2>3. n \in 0..MaxPhone
    OBVIOUS
  <2>4. [user[u] EXCEPT !.phone = n, !.phones = m] \in UserRow
    BY <1>1, <2>2, <2>3
  <2>5. user' = [user EXCEPT ![u] = [user[u] EXCEPT !.phone = n, !.phones = m]]
    BY <1>5, <2>1 DEF ChangeMemberPhone
  <2> QED
    BY <1>3, <2>4, <2>5
<1>6. ASSUME Invite(u) PROVE user' \in [User -> UserRow]
  <2>1. 1 \in 0..MaxPhone /\ "pending" \in {"absent", "pending", "active", "disabled"}
    OBVIOUS
  <2>2. [user[u] EXCEPT !.status = "pending", !.phone = 1, !.phones = 1] \in UserRow
    BY <1>1, <2>1 DEF UserRow
  <2> QED
    BY <1>3, <1>6, <2>2 DEF Invite
<1>7. ASSUME RemoveMember(u) PROVE user' \in [User -> UserRow]
  BY <1>1, <1>7 DEF RemoveMember, UserRow
<1>8. ASSUME RestoreMember(u) PROVE user' \in [User -> UserRow]
  <2>1. 0 \in 0..MaxHash /\ "pending" \in {"absent", "pending", "active", "disabled"}
    OBVIOUS
  <2>2. [user[u] EXCEPT !.status = "pending", !.hash = 0] \in UserRow
    BY <1>1, <2>1 DEF UserRow
  <2> QED
    BY <1>3, <1>8, <2>2 DEF RestoreMember
<1> QED
  BY <1>2, <1>4, <1>5, <1>6, <1>7, <1>8

\* What every identity transaction leaves of the right type.
LEMMA IdentityStepType ==
  ASSUME AccountsTypeOK, IdentityStep
  PROVE  AccountsTypeOK'
<1> USE DEF AccountsTypeOK, InviteRow, SessionRow, LeaseRow
<1>1. ASSUME NEW u \in User, NEW h \in 1..MaxHash, NEW ph \in 1..MaxPhone, NEW s \in Session,
             NEW prev \in Replaced, Login(u, h, ph, s, prev)
      PROVE  AccountsTypeOK'
  BY <1>1 DEF Login, SessionsWithout
<1>2. ASSUME NEW s \in Session, RenewSession(s) PROVE AccountsTypeOK'
  BY <1>2 DEF RenewSession, SessionValid, MaxOf, MinOf
<1>3. ASSUME NEW s \in Session, Logout(s) PROVE AccountsTypeOK'
  BY <1>3 DEF Logout, SessionsWithout, LeasesWithoutSession
<1>4. ASSUME NEW u \in User, NEW h \in 1..MaxHash, ChangePassword(u, h) PROVE AccountsTypeOK'
  <2>1. user' \in [User -> UserRow]
    BY <1>4, UsersStored DEF ChangePassword
  <2>2. /\ invite' \in [User -> InviteRow \cup {NoRow}] /\ links' \in 0..MaxLinks
        /\ session' \in [Session -> SessionRow \cup {NoRow}]
        /\ lease' \in [Project -> LeaseRow \cup {NoRow}]
    BY <1>4 DEF ChangePassword, DropAccess, SessionsWithout, LeasesWithoutUser
  <2> QED
    BY <1>4, <2>1, <2>2 DEF ChangePassword
<1>5. ASSUME NEW u \in User, CreateMember(u) PROVE AccountsTypeOK'
  BY <1>5 DEF CreateMember, UserRow
<1>6. ASSUME NEW u \in User, Invite(u) PROVE AccountsTypeOK'
  <2>1. user' \in [User -> UserRow]
    BY <1>6, UsersStored
  <2>2. /\ invite' \in [User -> InviteRow \cup {NoRow}] /\ links' \in 0..MaxLinks
        /\ session' \in [Session -> SessionRow \cup {NoRow}]
        /\ lease' \in [Project -> LeaseRow \cup {NoRow}]
    BY <1>6 DEF Invite, NewLink
  <2> QED
    BY <1>6, <2>1, <2>2 DEF Invite
<1>7. ASSUME NEW u \in User, NEW restore \in BOOLEAN, SetMemberPassword(u, restore)
      PROVE  AccountsTypeOK'
  <2>1. user' \in [User -> UserRow]
    BY <1>7, UsersStored DEF SetMemberPassword
  <2>2. /\ invite' \in [User -> InviteRow \cup {NoRow}] /\ links' \in 0..MaxLinks
        /\ session' \in [Session -> SessionRow \cup {NoRow}]
        /\ lease' \in [Project -> LeaseRow \cup {NoRow}]
    BY <1>7 DEF SetMemberPassword, DropAccess, SessionsWithout, LeasesWithoutUser
  <2> QED
    BY <1>7, <2>1, <2>2 DEF SetMemberPassword
<1>8. ASSUME NEW u \in User, NEW n \in 1..MaxPhone, ChangeMemberPhone(u, n) PROVE AccountsTypeOK'
  <2>1. user' \in [User -> UserRow]
    BY <1>8, UsersStored
  <2>2. /\ invite' \in [User -> InviteRow \cup {NoRow}] /\ links' \in 0..MaxLinks
        /\ session' \in [Session -> SessionRow \cup {NoRow}]
        /\ lease' \in [Project -> LeaseRow \cup {NoRow}]
    BY <1>8 DEF ChangeMemberPhone, DropAccess, SessionsWithout, LeasesWithoutUser
  <2> QED
    BY <1>8, <2>1, <2>2 DEF ChangeMemberPhone
<1>9. ASSUME NEW u \in User, RemoveMember(u) PROVE AccountsTypeOK'
  <2>1. user' \in [User -> UserRow]
    BY <1>9, UsersStored
  <2>2. /\ invite' \in [User -> InviteRow \cup {NoRow}] /\ links' \in 0..MaxLinks
        /\ session' \in [Session -> SessionRow \cup {NoRow}]
        /\ lease' \in [Project -> LeaseRow \cup {NoRow}]
    BY <1>9 DEF RemoveMember, DropAccess, SessionsWithout, LeasesWithoutUser
  <2> QED
    BY <1>9, <2>1, <2>2 DEF RemoveMember
<1>10. ASSUME NEW u \in User, ResetLink(u) PROVE AccountsTypeOK'
  BY <1>10 DEF ResetLink, NewLink
<1>11. ASSUME NEW u \in User, RestoreMember(u) PROVE AccountsTypeOK'
  <2>1. user' \in [User -> UserRow]
    BY <1>11, UsersStored
  <2>2. invite' \in [User -> InviteRow \cup {NoRow}] /\ links' \in 0..MaxLinks
    BY <1>11 DEF RestoreMember, NewLink
  <2> QED
    BY <1>11, <2>1, <2>2 DEF RestoreMember
<1>12. ASSUME NEW u \in User, Activate(u) PROVE AccountsTypeOK'
  <2>1. user' \in [User -> UserRow]
    BY <1>12, UsersStored DEF Activate
  <2>2. invite' \in [User -> InviteRow \cup {NoRow}]
    BY <1>12 DEF Activate
  <2>3. session' \in [Session -> SessionRow \cup {NoRow}]
    BY <1>12 DEF Activate, DropAccess, SessionsWithout
  <2>4. lease' \in [Project -> LeaseRow \cup {NoRow}]
    BY <1>12 DEF Activate, DropAccess, LeasesWithoutUser
  <2> QED
    BY <1>12, <2>1, <2>2, <2>3, <2>4 DEF Activate
<1>13. CASE DisableAccount
  BY <1>13 DEF DisableAccount
<1>14. CASE EnableAccount
  BY <1>14 DEF EnableAccount
<1> QED
  BY <1>1, <1>2, <1>3, <1>4, <1>5, <1>6, <1>7, <1>8, <1>9, <1>10, <1>11, <1>12, <1>13, <1>14
  DEF IdentityStep

\* What every lease call leaves of the right type.
LEMMA LeaseStepType ==
  ASSUME AccountsTypeOK, NEW s \in Session, NEW e \in Editor, NEW p \in Project, NEW t \in Recent,
         \/ AcquireLease(s, e, p, t)
         \/ RenewLease(s, e, p, t)
         \/ ReleaseLease(s, e, p, t)
  PROVE  AccountsTypeOK' /\ UNCHANGED <<now, identityVars>>
<1> USE DEF AccountsTypeOK, LeaseRow, Recent, identityVars
<1>1. t \in Nat /\ t + LEASE_SECONDS \in Nat
  OBVIOUS
<1>2. SessionValid(s, t) => session[s].user \in User
  BY DEF SessionValid, SessionRow
<1>3. CASE AcquireLease(s, e, p, t)
  BY <1>1, <1>2, <1>3 DEF AcquireLease, Owns, Occupied
<1>4. CASE RenewLease(s, e, p, t)
  BY <1>1, <1>4 DEF RenewLease, Owns, Occupied
<1>5. CASE ReleaseLease(s, e, p, t)
  BY <1>5 DEF ReleaseLease, Owns, Occupied
<1> QED
  BY <1>3, <1>4, <1>5

\* The identity database keeps its types under every transaction.
THEOREM AccountsTypeCorrect == AccountsSpec => []AccountsTypeOK
<1>1. AccountsInit => AccountsTypeOK
  BY DEF AccountsInit, AccountsTypeOK, UserRow
<1>2. ASSUME AccountsTypeOK, [AccountsNext]_accountVars PROVE AccountsTypeOK'
  <2>1. CASE IdentityStep
    BY <1>2, <2>1, IdentityStepType
  <2>2. CASE LeaseStep(Editor)
    BY <1>2, <2>2, LeaseStepType DEF LeaseStep
  <2>3. CASE Tick
    BY <1>2, <2>3 DEF Tick, identityVars, AccountsTypeOK
  <2>4. CASE UNCHANGED accountVars
    BY <1>2, <2>4 DEF accountVars, identityVars, AccountsTypeOK
  <2> QED
    BY <1>2, <2>1, <2>2, <2>3, <2>4 DEF AccountsNext
<1> QED
  BY <1>1, <1>2, PTL DEF AccountsSpec

-----------------------------------------------------------------------------
(* Revocation leaves nothing behind *)

\* Deleting all sessions and leases of a user keeps the others as they were.
LEMMA DropAccessEffect ==
  ASSUME AccountsTypeOK, LeasesBacked, NEW u \in User, DropAccess(u)
  PROVE  /\ \A s \in Session : session'[s] # NoRow =>
              session'[s] = session[s] /\ session[s].user \in User \ {u}
         /\ \A p \in Project : lease'[p] # NoRow =>
              /\ lease'[p] = lease[p]
              /\ session'[lease[p].session] # NoRow
              /\ session'[lease[p].session].user = lease[p].user
BY DEF AccountsTypeOK, SessionRow, LeaseRow, LeasesBacked, DropAccess, SessionsWithout,
       SessionsOf, LeasesWithoutUser

\* A token that opened a session is remembered, so no login issues it again.
TokensRemembered == \A s \in Session : session[s] # NoRow => holder[s] # NoRow

Revocation == SessionsCurrent /\ LeasesBacked /\ TokensRemembered

\* Every transaction on users and sessions leaves no stale session or lease.
LEMMA IdentityStepRevokes ==
  ASSUME AccountsTypeOK, Revocation, IdentityStep
  PROVE  Revocation'
<1> USE DEF Revocation, TokensRemembered, AccountsTypeOK, SessionsCurrent, LeasesBacked, SessionRow, LeaseRow, UserRow
<1>1. ASSUME NEW u \in User, NEW h \in 1..MaxHash, NEW ph \in 1..MaxPhone, NEW s \in Session, NEW prev \in Replaced,
             Login(u, h, ph, s, prev)
      PROVE  Revocation'
  <2> DEFINE gone == {r \in prev : session[r] # NoRow /\ session[r].user = u}
             row == [user |-> u, created |-> now, hash |-> h, phone |-> ph,
                     expires |-> now + SESSION_SECONDS]
  <2>1. /\ \A p \in Project : lease[p] # NoRow => lease[p].session # s
        /\ user' = user /\ accountActive' = accountActive
        /\ holder' = [holder EXCEPT ![s] = u]
    BY <1>1 DEF Login
  <2>2. /\ session' = [r \in Session |-> IF r = s THEN row
                                         ELSE IF r \in gone THEN NoRow ELSE session[r]]
        /\ lease' = [p \in Project |-> IF lease[p] # NoRow /\ lease[p].session \in gone
                                       THEN NoRow ELSE lease[p]]
    BY <1>1 DEF Login, SessionsWithout
  <2>3. row # NoRow /\ row.user = u /\ row.hash = user[u].hash /\ row.phone = user[u].phone
        /\ Active(u)
    BY <1>1 DEF Login, HashUnchanged, PhoneUnchanged
  <2>4. SessionsCurrent'
    BY <2>1, <2>2, <2>3 DEF Active
  <2>5. LeasesBacked'
    BY <2>1, <2>2, <2>3
  <2>6. TokensRemembered'
    BY <2>1, <2>2
  <2> QED
    BY <2>4, <2>5, <2>6
<1>2. ASSUME NEW s \in Session, RenewSession(s)
      PROVE  Revocation'
  <2> DEFINE x == MaxOf(session[s].expires,
                        MinOf(now + SESSION_SECONDS, session[s].created + SESSION_MAX_SECONDS))
  <2>0. x \in Nat
    BY <1>2 DEF RenewSession, SessionValid, MaxOf, MinOf
  <2> HIDE DEF x
  <2>1. /\ session[s] # NoRow
        /\ session' = [session EXCEPT ![s].expires = x]
        /\ UNCHANGED <<user, accountActive, lease, holder>>
    BY <1>2 DEF RenewSession, SessionValid, x
  <2> QED
    BY <2>0, <2>1 DEF Active
<1>3. ASSUME NEW s \in Session, Logout(s)
      PROVE  Revocation'
  <2>1. SessionsCurrent'
    BY <1>3 DEF Logout, SessionsWithout, Active
  <2>2. LeasesBacked'
    BY <1>3 DEF Logout, SessionsWithout, LeasesWithoutSession
  <2>3. TokensRemembered'
    BY <1>3 DEF Logout, SessionsWithout
  <2> QED
    BY <2>1, <2>2, <2>3
<1>4. ASSUME NEW u \in User, NEW h \in 1..MaxHash, ChangePassword(u, h)
      PROVE  Revocation'
  <2>1. /\ DropAccess(u) /\ UNCHANGED <<accountActive, holder>>
        /\ \A v \in User \ {u} : user'[v] = user[v]
    BY <1>4 DEF ChangePassword, StoreHash
  <2> QED
    BY <2>1, DropAccessEffect DEF Active
<1>5. ASSUME NEW u \in User, CreateMember(u)
      PROVE  Revocation'
  BY <1>5 DEF CreateMember, StoreHash, Active
<1>6. ASSUME NEW u \in User, Invite(u)
      PROVE  Revocation'
  BY <1>6 DEF Invite, Active
<1>7. ASSUME NEW u \in User, NEW restore \in BOOLEAN, SetMemberPassword(u, restore)
      PROVE  Revocation'
  BY <1>7, DropAccessEffect DEF SetMemberPassword, StoreHash, Active
<1>8. ASSUME NEW u \in User, NEW n \in 1..MaxPhone, ChangeMemberPhone(u, n)
      PROVE  Revocation'
  BY <1>8, DropAccessEffect DEF ChangeMemberPhone, Active
<1>9. ASSUME NEW u \in User, RemoveMember(u)
      PROVE  Revocation'
  BY <1>9, DropAccessEffect DEF RemoveMember, Active
<1>10. ASSUME NEW u \in User, ResetLink(u)
      PROVE  Revocation'
  BY <1>10 DEF ResetLink, Active
<1>11. ASSUME NEW u \in User, RestoreMember(u)
      PROVE  Revocation'
  BY <1>11 DEF RestoreMember, Active
<1>12. ASSUME NEW u \in User, Activate(u)
      PROVE  Revocation'
  BY <1>12, DropAccessEffect DEF Activate, StoreHash, Active
<1>13. CASE DisableAccount
  BY <1>13 DEF DisableAccount
<1>14. CASE EnableAccount
  BY <1>14 DEF EnableAccount, Active
<1> QED
  BY <1>1, <1>2, <1>3, <1>4, <1>5, <1>6, <1>7, <1>8, <1>9, <1>10, <1>11, <1>12, <1>13, <1>14 DEF IdentityStep

\* A lease call binds the row to a session that exists at that moment.
LEMMA LeaseStepBacked ==
  ASSUME AccountsTypeOK, Revocation,
         NEW s \in Session, NEW e \in Editor, NEW p \in Project, NEW t \in Recent,
         \/ AcquireLease(s, e, p, t)
         \/ RenewLease(s, e, p, t)
         \/ ReleaseLease(s, e, p, t)
  PROVE  Revocation'
<1> USE DEF Revocation, SessionsCurrent, TokensRemembered, LeasesBacked, Active, AccountsTypeOK,
            LeaseRow, identityVars
<1>1. CASE AcquireLease(s, e, p, t)
  BY <1>1 DEF AcquireLease, SessionValid, Owns, Occupied
<1>2. CASE RenewLease(s, e, p, t)
  BY <1>2 DEF RenewLease, Owns, Occupied
<1>3. CASE ReleaseLease(s, e, p, t)
  BY <1>3 DEF ReleaseLease, Owns, Occupied
<1> QED
  BY <1>1, <1>2, <1>3

\* Revocation holds of the sessions and leases a step leaves alone.
LEMMA RevocationKept ==
  ASSUME Revocation, UNCHANGED <<identityVars, lease>>
  PROVE  Revocation'
BY DEF Revocation, SessionsCurrent, LeasesBacked, TokensRemembered, Active, identityVars

\* Revocation is an invariant of the identity database.
LEMMA RevocationInvariant == AccountsSpec => []Revocation
<1>1. AccountsInit => Revocation
  BY DEF AccountsInit, Revocation, SessionsCurrent, LeasesBacked, TokensRemembered
<1>2. ASSUME AccountsTypeOK, Revocation, [AccountsNext]_accountVars PROVE Revocation'
  <2>1. CASE IdentityStep
    BY <1>2, <2>1, IdentityStepRevokes
  <2>2. CASE LeaseStep(Editor)
    BY <1>2, <2>2, LeaseStepBacked DEF LeaseStep
  <2>3. CASE Tick \/ UNCHANGED accountVars
    BY <1>2, <2>3, RevocationKept DEF Tick, accountVars
  <2> QED
    BY <1>2, <2>1, <2>2, <2>3 DEF AccountsNext
<1> QED
  BY <1>1, <1>2, AccountsTypeCorrect, PTL DEF AccountsSpec

\* No session survives a change of its user's password, phone or status, whatever login
\* or password change was under way: revocation is complete in every behaviour.
THEOREM RevocationComplete == AccountsSpec => []SessionsCurrent
BY RevocationInvariant, PTL DEF Revocation

\* No revocation leaves a lease row behind that would block its project: every
\* row names a session that still exists, and that session's user.
THEOREM NoLeaseLeftBehind == AccountsSpec => []LeasesBacked
BY RevocationInvariant, PTL DEF Revocation

-----------------------------------------------------------------------------
(* Sessions are opened once and end *)

\* No session outlives its absolute limit.
SessionsBounded ==
  \A s \in Session : session[s] # NoRow => session[s].expires <= session[s].created + SESSION_MAX_SECONDS

\* What every step but a login and a renewal may do to sessions.
SessionsOnlyEnd == \A s \in Session : session'[s] \in {session[s], NoRow}

\* Only a login opens a session, and only a renewal changes one that stays.
LEMMA OthersOnlyEnd ==
  ASSUME AccountsTypeOK, AccountsNext,
         ~ \E u \in User, h \in 1..MaxHash, ph \in 1..MaxPhone, s \in Session, prev \in Replaced : Login(u, h, ph, s, prev),
         ~ \E s \in Session : RenewSession(s)
  PROVE  SessionsOnlyEnd
<1> USE DEF SessionsOnlyEnd, AccountsTypeOK, identityVars
<1>1. ASSUME NEW u \in User, DropAccess(u) PROVE SessionsOnlyEnd
  BY <1>1 DEF DropAccess, SessionsWithout
<1>2. CASE \E s \in Session : Logout(s)
  BY <1>2 DEF Logout, SessionsWithout
<1>3. CASE \E u \in User : \/ \E h \in 1..MaxHash : ChangePassword(u, h)
                            \/ \E restore \in BOOLEAN : SetMemberPassword(u, restore)
                            \/ \E n \in 1..MaxPhone : ChangeMemberPhone(u, n)
                            \/ RemoveMember(u) \/ Activate(u)
  BY <1>1, <1>3 DEF ChangePassword, SetMemberPassword, ChangeMemberPhone, RemoveMember, Activate
<1>4. CASE \E u \in User : CreateMember(u) \/ Invite(u) \/ ResetLink(u) \/ RestoreMember(u)
  BY <1>4 DEF CreateMember, Invite, ResetLink, RestoreMember
<1>5. CASE DisableAccount \/ EnableAccount
  BY <1>5 DEF DisableAccount, EnableAccount
<1>6. CASE LeaseStep(Editor)
  BY <1>6 DEF LeaseStep, AcquireLease, RenewLease, ReleaseLease
<1>7. CASE Tick
  BY <1>7 DEF Tick
<1> QED
  BY <1>2, <1>3, <1>4, <1>5, <1>6, <1>7 DEF AccountsNext, IdentityStep

\* A login opens a session under a token that was never used.
LEMMA LoginOpens ==
  ASSUME AccountsTypeOK, TokensRemembered,
         NEW u \in User, NEW h \in 1..MaxHash, NEW ph \in 1..MaxPhone, NEW s \in Session,
         NEW prev \in Replaced, Login(u, h, ph, s, prev)
  PROVE  /\ holder[s] = NoRow /\ session[s] = NoRow
         /\ session'[s] # NoRow => session'[s].expires <= session'[s].created + SESSION_MAX_SECONDS
         /\ \A r \in Session \ {s} : session'[r] \in {session[r], NoRow}
BY DEF AccountsTypeOK, TokensRemembered, Login, SessionsWithout

\* A renewal moves the expiry of a live session, at most to its limit.
LEMMA RenewalExtends ==
  ASSUME AccountsTypeOK, SessionsBounded, NEW s \in Session, RenewSession(s)
  PROVE  /\ session[s] # NoRow /\ session[s].expires > now
         /\ session'[s] # NoRow /\ session'[s].created = session[s].created
         /\ session'[s].expires <= session[s].created + SESSION_MAX_SECONDS
         /\ \A r \in Session \ {s} : session'[r] = session[r]
<1> DEFINE x == MaxOf(session[s].expires,
                      MinOf(now + SESSION_SECONDS, session[s].created + SESSION_MAX_SECONDS))
<1>1. session[s] # NoRow /\ session[s].expires > now /\ session[s] \in SessionRow
  BY DEF RenewSession, SessionValid, AccountsTypeOK
<1>2. session' = [session EXCEPT ![s].expires = x]
  BY DEF RenewSession
<1>3. x \in Nat /\ x <= session[s].created + SESSION_MAX_SECONDS
  BY <1>1 DEF SessionsBounded, SessionRow, AccountsTypeOK, MaxOf, MinOf
<1> HIDE DEF x
<1>4. session'[s] = [session[s] EXCEPT !.expires = x] /\ \A r \in Session \ {s} : session'[r] = session[r]
  BY <1>2 DEF AccountsTypeOK
<1>5. [session[s] EXCEPT !.expires = x] \in SessionRow
  BY <1>1, <1>3 DEF SessionRow
<1> QED
  BY <1>1, <1>3, <1>4, <1>5 DEF SessionRow

\* No session is ever extended beyond the absolute limit of its creation.
LEMMA BoundedInvariant == AccountsSpec => []SessionsBounded
<1>1. AccountsInit => SessionsBounded
  BY DEF AccountsInit, SessionsBounded
<1>2. ASSUME AccountsTypeOK, Revocation, SessionsBounded, [AccountsNext]_accountVars
      PROVE  SessionsBounded'
  <2>1. ASSUME NEW u \in User, NEW h \in 1..MaxHash, NEW ph \in 1..MaxPhone, NEW s \in Session,
               NEW prev \in Replaced, Login(u, h, ph, s, prev)
        PROVE  SessionsBounded'
    BY <1>2, <2>1, LoginOpens DEF SessionsBounded, Revocation
  <2>2. ASSUME NEW s \in Session, RenewSession(s) PROVE SessionsBounded'
    BY <1>2, <2>2, RenewalExtends DEF SessionsBounded
  <2>3. CASE SessionsOnlyEnd
    BY <1>2, <2>3 DEF SessionsBounded, SessionsOnlyEnd
  <2>4. CASE UNCHANGED accountVars
    BY <1>2, <2>4 DEF SessionsBounded, accountVars, identityVars
  <2> QED
    BY <1>2, <2>1, <2>2, <2>3, <2>4, OthersOnlyEnd
<1> QED
  BY <1>1, <1>2, AccountsTypeCorrect, RevocationInvariant, PTL DEF AccountsSpec

\* Revocation always wins: a session that is gone stays gone, an expired one is
\* not renewed, and renewals never pass the absolute limit.
THEOREM RevocationWins == AccountsSpec => RenewalNeverRevives
<1> DEFINE Good == \A s \in Session :
       /\ holder[s] # NoRow /\ session[s] = NoRow => session'[s] = NoRow
       /\ session[s] # NoRow /\ session'[s] # NoRow =>
            /\ session[s].expires <= now => session'[s] = session[s]
            /\ session'[s].created = session[s].created
            /\ session'[s].expires <= session[s].created + SESSION_MAX_SECONDS
<1>1. ASSUME AccountsTypeOK, Revocation, SessionsBounded, AccountsNext PROVE Good
  <2>1. SessionsOnlyEnd => Good
    BY <1>1 DEF SessionsOnlyEnd, SessionsBounded
  <2>2. ASSUME NEW u \in User, NEW h \in 1..MaxHash, NEW ph \in 1..MaxPhone, NEW s \in Session,
               NEW prev \in Replaced, Login(u, h, ph, s, prev)
        PROVE  Good
    BY <1>1, <2>2, LoginOpens DEF SessionsBounded, Revocation
  <2>3. ASSUME NEW s \in Session, RenewSession(s) PROVE Good
    <3>1. now \in Nat /\ session[s] # NoRow => session[s].expires \in Nat
      BY <1>1 DEF AccountsTypeOK, SessionRow
    <3> QED
      BY <1>1, <2>3, <3>1, RenewalExtends DEF SessionsBounded, AccountsTypeOK
  <2> QED
    BY <1>1, <2>1, <2>2, <2>3, OthersOnlyEnd
<1>2. AccountsTypeOK /\ Revocation /\ SessionsBounded /\ [AccountsNext]_accountVars => [Good]_accountVars
  BY <1>1
<1> QED
  BY <1>2, AccountsTypeCorrect, RevocationInvariant, BoundedInvariant, PTL
  DEF AccountsSpec, RenewalNeverRevives

-----------------------------------------------------------------------------
(* A live lease keeps its holder *)

\* Identity transactions delete leases only together with their sessions.
LEMMA LeasesFollowSessions ==
  ASSUME AccountsTypeOK, Revocation, IdentityStep, NEW p \in Project, lease[p] # NoRow,
         session'[lease[p].session] # NoRow
  PROVE  lease'[p] = lease[p]
<1> USE DEF AccountsTypeOK, LeaseRow, SessionRow
<1>1. /\ lease[p].session \in Session /\ session[lease[p].session] # NoRow
      /\ session[lease[p].session].user = lease[p].user
  BY DEF Revocation, LeasesBacked
<1>2. ASSUME NEW u \in User, DropAccess(u) PROVE lease'[p] = lease[p]
  BY <1>1, <1>2 DEF DropAccess, SessionsWithout, SessionsOf, LeasesWithoutUser
<1>3. ASSUME NEW u \in User, NEW h \in 1..MaxHash, NEW ph \in 1..MaxPhone, NEW s \in Session,
             NEW prev \in Replaced, Login(u, h, ph, s, prev)
      PROVE  lease'[p] = lease[p]
  <2>1. lease[p].session # s
    BY <1>1, <1>3 DEF Login, Revocation, TokensRemembered
  <2> QED
    BY <1>1, <1>3, <2>1 DEF Login, SessionsWithout
<1>4. CASE \E s \in Session : Logout(s)
  BY <1>1, <1>4 DEF Logout, SessionsWithout, LeasesWithoutSession
<1>5. CASE \E u \in User : \/ \E h \in 1..MaxHash : ChangePassword(u, h)
                            \/ \E restore \in BOOLEAN : SetMemberPassword(u, restore)
                            \/ \E n \in 1..MaxPhone : ChangeMemberPhone(u, n)
                            \/ RemoveMember(u) \/ Activate(u)
  BY <1>2, <1>5 DEF ChangePassword, SetMemberPassword, ChangeMemberPhone, RemoveMember, Activate
<1>6. CASE DisableAccount
  BY <1>1, <1>6 DEF DisableAccount
<1>7. CASE \/ EnableAccount
           \/ \E s \in Session : RenewSession(s)
           \/ \E u \in User : CreateMember(u) \/ Invite(u) \/ ResetLink(u) \/ RestoreMember(u)
  BY <1>7 DEF EnableAccount, RenewSession, CreateMember, Invite, ResetLink, RestoreMember
<1> QED
  BY <1>3, <1>4, <1>5, <1>6, <1>7 DEF IdentityStep

\* Whatever time a caller read before it got the write lock, a lease that is live
\* now was live then, so it is renewed or given back by its holder only.
LEMMA LeaseCallsRespectHolder ==
  ASSUME AccountsTypeOK, NEW s \in Session, NEW e \in Editor, NEW q \in Project, NEW t \in Recent,
         \/ AcquireLease(s, e, q, t)
         \/ RenewLease(s, e, q, t)
         \/ ReleaseLease(s, e, q, t),
         NEW p \in Project, Occupied(p, now)
  PROVE  /\ lease'[p] # NoRow
         /\ lease'[p].session = lease[p].session
         /\ lease'[p].editor = lease[p].editor
<1> USE DEF AccountsTypeOK, LeaseRow, Recent
<1>1. Occupied(p, t) /\ lease[p] \in LeaseRow
  <2>1. lease[p] \in LeaseRow /\ lease[p] # NoRow /\ lease[p].expires > now
    BY DEF Occupied
  <2>2. t <= now /\ t \in Int /\ now \in Int /\ lease[p].expires \in Int
    BY <2>1
  <2> QED
    BY <2>1, <2>2 DEF Occupied
<1>2. CASE AcquireLease(s, e, q, t)
  BY <1>1, <1>2 DEF AcquireLease, Owns
<1>3. CASE RenewLease(s, e, q, t)
  BY <1>1, <1>3 DEF RenewLease, Owns
<1>4. CASE ReleaseLease(s, e, q, t)
  BY <1>1, <1>4 DEF ReleaseLease, Owns
<1> QED
  BY <1>2, <1>3, <1>4

\* A live lease keeps its holder as long as the holder's session exists.
THEOREM LeasesKeepHolders == AccountsSpec => HolderKeepsLease
<1> DEFINE Kept == \A p \in Project :
       Occupied(p, now) /\ session'[lease[p].session] # NoRow =>
         /\ lease'[p] # NoRow
         /\ lease'[p].session = lease[p].session
         /\ lease'[p].editor = lease[p].editor
<1>1. ASSUME AccountsTypeOK, Revocation, AccountsNext PROVE Kept
  <2>1. CASE IdentityStep
    BY <1>1, <2>1, LeasesFollowSessions DEF Occupied
  <2>2. CASE LeaseStep(Editor)
    BY <1>1, <2>2, LeaseCallsRespectHolder DEF LeaseStep
  <2>3. CASE Tick
    BY <2>3 DEF Tick, Occupied
  <2> QED
    BY <1>1, <2>1, <2>2, <2>3 DEF AccountsNext
<1>2. AccountsTypeOK /\ Revocation /\ [AccountsNext]_accountVars => [Kept]_accountVars
  BY <1>1
<1> QED
  BY <1>2, AccountsTypeCorrect, RevocationInvariant, PTL DEF AccountsSpec, HolderKeepsLease
=============================================================================
