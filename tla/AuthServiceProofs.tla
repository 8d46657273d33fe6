------------------------- MODULE AuthServiceProofs -------------------------
(***************************************************************************)
(* Theorems about AuthService, for any number of accounts, sessions and    *)
(* requests in flight: its invariant, and the ledger it implements.        *)
(***************************************************************************)
EXTENDS AuthService, IdentityStoreProofs, TLAPS

-----------------------------------------------------------------------------
(* What the shared operators preserve.                                     *)

(* A request that moves on to another stage keeps a well-formed frame.     *)
LEMMA GotoType ==
  ASSUME frames \in [Reqs -> Frame], NEW r \in Reqs, NEW pc \in Stages, Goto(r, pc)
  PROVE  frames' \in [Reqs -> Frame]
  BY DEF Goto, Frame

(* A request that ends leaves an idle slot behind.                         *)
LEMMA FinishType ==
  ASSUME frames \in [Reqs -> Frame], sawActive \in [Reqs -> BOOLEAN], NEW r \in Reqs, Finish(r)
  PROVE  /\ frames' \in [Reqs -> Frame]
         /\ sawActive' \in [Reqs -> BOOLEAN]
  BY DEF Finish, Frame, Idle, Stages

(* A request that starts takes the account and the session of its lookup.  *)
LEMMA StartType ==
  ASSUME frames \in [Reqs -> Frame], sawActive \in [Reqs -> BOOLEAN],
         NEW r \in Reqs, NEW pc \in Stages, NEW u \in UserIds \cup {Null},
         NEW s \in SessionIds \cup {Null}, Start(r, pc, u, s)
  PROVE  /\ frames' \in [Reqs -> Frame]
         /\ sawActive' \in [Reqs -> BOOLEAN]
  BY DEF Start, Frame

(* The statements of a login keep the table well formed ...                *)
LEMMA AttemptsType ==
  ASSUME StoreTypeOK, NEW u \in UserIds,
         IncrementFailedAttempts(u) \/ ResetFailedAttempts(u) \/ UNCHANGED users
  PROVE  users' \in [UserIds -> UserRow]
<1>1. [users[u] EXCEPT !.failed = TRUE] \in UserRow /\ [users[u] EXCEPT !.failed = FALSE] \in UserRow
  BY DEF StoreTypeOK, UserRow
<1>2. QED
  BY <1>1, UpdateUserType DEF IncrementFailedAttempts, ResetFailedAttempts, StoreTypeOK

(* ... and the statements on identity_sessions.                            *)
LEMMA RevokeType ==
  ASSUME StoreTypeOK, NEW s \in SessionIds, Revoke(s)
  PROVE  sessions' \in [SessionIds -> SessionRow]
  BY DEF StoreTypeOK, SessionRow, Revoke

(* INSERT INTO identity_sessions writes a well-formed row.                  *)
LEMMA CreateSessionType ==
  ASSUME StoreTypeOK, NEW s \in SessionIds, NEW u \in UserIds, CreateSession(s, u)
  PROVE  sessions' \in [SessionIds -> SessionRow]
  BY DEF StoreTypeOK, SessionRow, CreateSession

-----------------------------------------------------------------------------
(* Type correctness.                                                       *)

(* The initial states are well formed.                                     *)
LEMMA InitType == AuthInit => AuthTypeOK
<1> SUFFICES ASSUME AuthInit PROVE AuthTypeOK
  OBVIOUS
<1>1. users \in [UserIds -> UserRow]
  <2>1. \A u \in UserIds : users[u] \in [row : {"live"}, email : Emails, status : OperatorStatuses,
                     pwd : Passwords, hasRole : {TRUE}, failed : {FALSE}]
    BY DEF AuthInit
  <2>2. \A u \in UserIds : users[u] \in UserRow
    BY <2>1, OperatorAssumption DEF UserRow
  <2>3. QED
    BY <2>2 DEF AuthInit
<1>2. BlankSession("unborn") \in SessionRow /\ BlankToken("unborn") \in TokenRow
  BY DEF BlankSession, BlankToken, SessionRow, TokenRow
<1>3. Idle \in Frame
  BY DEF Idle, Frame, Stages
<1>4. QED
  BY <1>1, <1>2, <1>3 DEF AuthInit, AuthTypeOK, StoreTypeOK, NoLineage

(* Every step keeps the tables, the frames and the history well formed.    *)
LEMMA StepType == AuthTypeOK /\ (\A r \in Reqs : FrameShape(r)) /\ [AuthNext]_authVars => AuthTypeOK'
<1> SUFFICES ASSUME AuthTypeOK, \A r \in Reqs : FrameShape(r), [AuthNext]_authVars
             PROVE  AuthTypeOK'
  OBVIOUS
<1> USE DEF AuthTypeOK
<1>0. {"idle", "countFailure", "recordLogin", "findOwner", "revoke", "issue", "reply"} \subseteq Stages
  BY DEF Stages
<1>1. ASSUME NEW r \in Reqs, NEW e \in Emails, NEW p \in Passwords, LoginLookup(r, e, p)
      PROVE  AuthTypeOK'
  <2>1. PICK u \in FindByEmail(e) :
          Start(r, IF users[u].pwd = p THEN "recordLogin" ELSE "countFailure", u, Null)
    BY <1>1 DEF LoginLookup
  <2>2. u \in UserIds
    BY DEF FindByEmail
  <2>3. /\ frames' \in [Reqs -> Frame]
        /\ sawActive' \in [Reqs -> BOOLEAN]
    BY <1>0, <2>1, <2>2, StartType
  <2>4. QED
    BY <2>1, <2>3 DEF Start, store, StoreTypeOK
<1>2. ASSUME NEW r \in Reqs, NEW s \in SessionIds, RefreshLookup(r, s)
      PROVE  AuthTypeOK'
  <2>1. sessions[s].user \in UserIds \cup {Null}
    BY DEF StoreTypeOK, SessionRow
  <2>2. QED
    BY <1>0, <1>2, <2>1, StartType DEF RefreshLookup, Start, store, StoreTypeOK
<1>3. ASSUME NEW r \in Reqs, LoginFailed(r)
      PROVE  AuthTypeOK'
  <2>1. frames[r].user \in UserIds
    BY <1>3 DEF LoginFailed, FrameShape
  <2>2. QED
    BY <1>3, <2>1, AttemptsType, FinishType DEF LoginFailed, StoreTypeOK
<1>4. ASSUME NEW r \in Reqs, LoginRecord(r)
      PROVE  AuthTypeOK'
  <2>1. frames[r].user \in UserIds
    BY <1>4 DEF LoginRecord, FrameShape
  <2>2. QED
    BY <1>0, <1>4, <2>1, AttemptsType, GotoType DEF LoginRecord, Goto, StoreTypeOK
<1>5. ASSUME NEW r \in Reqs, RefreshOwner(r)
      PROVE  AuthTypeOK'
  <2>1. (Goto(r, "revoke") \/ Finish(r)) /\ UNCHANGED <<store, held, lineage>>
    BY <1>5 DEF RefreshOwner
  <2>2. QED
    BY <1>0, <2>1, GotoType, FinishType DEF Goto, store, StoreTypeOK
<1>6. ASSUME NEW r \in Reqs, RefreshRevoke(r)
      PROVE  AuthTypeOK'
  <2>1. frames[r].from \in SessionIds
    BY <1>6 DEF RefreshRevoke, FrameShape, Frame
  <2>2. QED
    BY <1>0, <1>6, <2>1, RevokeType, GotoType DEF RefreshRevoke, Goto, StoreTypeOK
<1>7. ASSUME NEW r \in Reqs, IssueSession(r)
      PROVE  AuthTypeOK'
  <2>1. PICK s \in FreshSessions :
          /\ CreateSession(s, frames[r].user)
          /\ lineage' = [lineage EXCEPT ![s] = [parent |-> frames[r].from, by |-> r]]
          /\ frames'  = [frames EXCEPT ![r].pc = "reply", ![r].new = s]
    BY <1>7 DEF IssueSession
  <2>2. s \in SessionIds /\ frames[r].user \in UserIds /\ frames[r].from \in SessionIds \cup {Null}
    BY <1>7 DEF IssueSession, FreshSessions, FrameShape, Frame
  <2>3. frames' \in [Reqs -> Frame]
    <3>1. [frames[r] EXCEPT !.pc = "reply", !.new = s] \in Frame
      BY <1>0, <2>2 DEF Frame
    <3>2. QED
      BY <2>1, <3>1
  <2>4. lineage' \in [SessionIds -> [parent : SessionIds \cup {Null}, by : Reqs \cup {Null}]]
    BY <2>1, <2>2
  <2>5. QED
    BY <1>7, <2>1, <2>2, <2>3, <2>4, CreateSessionType DEF IssueSession, StoreTypeOK
<1>8. ASSUME NEW r \in Reqs, IssueRefused(r) \/ Abandon(r)
      PROVE  AuthTypeOK'
  BY <1>8, FinishType DEF IssueRefused, Abandon, store, StoreTypeOK
<1>9. ASSUME NEW r \in Reqs, Reply(r)
      PROVE  AuthTypeOK'
  <2>1. frames[r].new \in SessionIds
    BY <1>9 DEF Reply, FrameShape
  <2>2. QED
    BY <1>9, <2>1, FinishType DEF Reply, store, StoreTypeOK
<1>10. ASSUME NEW u \in UserIds, NEW status \in OperatorStatuses, SetStatus(u, status)
       PROVE  AuthTypeOK'
  BY <1>10, OperatorAssumption DEF SetStatus, OperatorSetStatus, UserRow, StoreTypeOK
<1>11. ASSUME NEW u \in UserIds, SoftDelete(u)
       PROVE  AuthTypeOK'
  BY <1>11 DEF SoftDelete, OperatorSoftDelete, UserRow, StoreTypeOK
<1>12. ASSUME NEW s \in SessionIds, Expire(s)
       PROVE  AuthTypeOK'
  BY <1>12 DEF Expire, SessionExpires, SessionRow, StoreTypeOK
<1>13. ASSUME Wipe
       PROVE  AuthTypeOK'
  <2>1. DeleteAllData /\ UNCHANGED <<frames, held, lineage, sawActive>>
    BY <1>13 DEF Wipe
  <2>2. StoreTypeOK'
    BY <2>1, DeleteAllDataType
  <2>3. QED
    BY <2>1, <2>2
<1>14. CASE UNCHANGED authVars
  BY <1>14 DEF authVars, StoreTypeOK
<1>15. QED
  BY <1>1, <1>2, <1>3, <1>4, <1>5, <1>6, <1>7, <1>8, <1>9, <1>10, <1>11, <1>12, <1>13, <1>14
  DEF AuthNext, Arrive, Serve, Environment

-----------------------------------------------------------------------------
(* The inductive invariant.                                                *)

(* The step changes no row in a way that matters to a request in flight.   *)
SameRows ==
    /\ \A u \in UserIds : users'[u].row = users[u].row /\ users'[u].status = users[u].status
    /\ \A s \in SessionIds : /\ sessions'[s].row = sessions[s].row
                             /\ sessions'[s].user = sessions[s].user
                             /\ sessions'[s].revoked = sessions[s].revoked
    /\ lineage' = lineage

(* A step that moves no session keeps what the invariant says of the tables. *)
LEMMA SameTables ==
  ASSUME AuthTypeOK, TableInv, SameRows
  PROVE  TableInv'
<1> USE DEF AuthTypeOK, StoreTypeOK, SessionRow
<1>1. ForeignKey'
  BY DEF TableInv, SameRows, ForeignKey, Stored
<1>2. ParentsRevoked'
  BY DEF TableInv, SameRows, ParentsRevoked, Parent
<1>3. RotatedParentRevoked'
  BY DEF TableInv, SameRows, RotatedParentRevoked, Parent
<1>4. OnePairPerRequest'
  BY DEF TableInv, SameRows, OnePairPerRequest, Parent
<1>5. QED
  BY <1>1, <1>2, <1>3, <1>4 DEF TableInv

(* A request that did not move keeps its invariant ...                     *)
LEMMA SameFrame ==
  ASSUME AuthTypeOK, SameRows, NEW r \in Reqs, FrameInv(r),
         frames'[r] = frames[r], sawActive'[r] = sawActive[r]
  PROVE  FrameInv(r)'
<1> USE DEF AuthTypeOK, Frame
<1>1. FrameShape(r)'
  BY DEF FrameInv, FrameShape
<1>2. FrameSession(r)'
  BY DEF FrameInv, SameRows, FrameShape, FrameSession
<1>3. IssueAfterRevoke(r)'
  BY DEF FrameInv, SameRows, IssueAfterRevoke
<1>4. SlotHasNoPair(r)'
  BY DEF FrameInv, SameRows, SlotHasNoPair, Parent
<1>5. ActiveSeen(r)'
  BY DEF FrameInv, SameRows, FrameShape, ActiveSeen
<1>6. QED
  BY <1>1, <1>2, <1>3, <1>4, <1>5 DEF FrameInv

(* ... and an idle slot has nothing to keep.                               *)
LEMMA IdleFrame ==
  ASSUME NEW r \in Reqs, frames'[r] = Idle
  PROVE  FrameInv(r)'
  BY DEF Idle, FrameInv, FrameShape, FrameSession, IssueAfterRevoke, SlotHasNoPair, ActiveSeen

(* A request that ends without touching a row keeps the whole invariant.   *)
LEMMA FinishInv ==
  ASSUME AuthInv, SameRows, NEW r \in Reqs, Finish(r)
  PROVE  TableInv' /\ \A q \in Reqs : FrameInv(q)'
<1>1. TableInv'
  BY SameTables DEF AuthInv
<1>2. FrameInv(r)'
  BY IdleFrame DEF Finish, AuthInv, AuthTypeOK
<1>3. ASSUME NEW q \in Reqs, q # r
      PROVE  FrameInv(q)'
  BY <1>3, SameFrame DEF Finish, AuthInv, AuthTypeOK
<1>4. QED
  BY <1>1, <1>2, <1>3

(* The counter of failed attempts matters to nobody.                       *)
LEMMA AttemptsSameRows ==
  ASSUME AuthTypeOK, NEW u \in UserIds,
         IncrementFailedAttempts(u) \/ ResetFailedAttempts(u) \/ UNCHANGED users,
         UNCHANGED <<sessions, lineage>>
  PROVE  SameRows
  BY DEF IncrementFailedAttempts, ResetFailedAttempts, UpdateUser, SameRows, AuthTypeOK,
     StoreTypeOK, UserRow

(* Neither does a step that leaves the tables alone move a row.            *)
LEMMA UnchangedSameRows ==
  ASSUME UNCHANGED <<store, lineage>>
  PROVE  SameRows
  BY DEF store, SameRows

(* Every initial state satisfies the invariant.                            *)
LEMMA InitInv == AuthInit => AuthInv
<1> SUFFICES ASSUME AuthInit PROVE AuthInv
  OBVIOUS
<1>1. AuthTypeOK
  BY InitType
<1>2. \A r \in Reqs : FrameInv(r)
  BY DEF AuthInit, Idle, FrameInv, FrameShape, FrameSession, IssueAfterRevoke, SlotHasNoPair,
     ActiveSeen
<1>3. TableInv
  BY DEF AuthInit, BlankSession, NoLineage, TableInv, ForeignKey, ParentsRevoked,
     RotatedParentRevoked, OnePairPerRequest, Parent
<1>4. QED
  BY <1>1, <1>2, <1>3 DEF AuthInv

(* Every step keeps it: one case per action, and under it the parts of the *)
(* invariant the action can disturb.                                       *)
LEMMA StepInv == AuthInv /\ [AuthNext]_authVars => AuthInv'
<1> SUFFICES ASSUME AuthInv, [AuthNext]_authVars
             PROVE  AuthInv'
  OBVIOUS
<1>a. AuthTypeOK'
  BY StepType DEF AuthInv, FrameInv
<1> SUFFICES TableInv' /\ \A q \in Reqs : FrameInv(q)'
  BY <1>a DEF AuthInv
<1> USE DEF AuthInv, AuthTypeOK
<1>1. ASSUME NEW r \in Reqs, NEW e \in Emails, NEW p \in Passwords, LoginLookup(r, e, p)
      PROVE  TableInv' /\ \A q \in Reqs : FrameInv(q)'
  <2>1. PICK u \in FindByEmail(e) :
          /\ CanLogin(users[u].status)
          /\ Start(r, IF users[u].pwd = p THEN "recordLogin" ELSE "countFailure", u, Null)
    BY <1>1 DEF LoginLookup
  <2>2. SameRows
    BY <2>1, UnchangedSameRows DEF Start, store
  <2>3. PICK pc \in {"recordLogin", "countFailure"} :
          frames'[r] = [pc |-> pc, user |-> u, from |-> Null, new |-> Null]
    BY <2>1 DEF Start
  <2>4. u \in UserIds /\ sawActive'[r] = TRUE
    BY <2>1 DEF FindByEmail, CanLogin, Start
  <2>5. FrameInv(r)'
    BY <2>3, <2>4 DEF FrameInv, FrameShape, FrameSession, IssueAfterRevoke, SlotHasNoPair, ActiveSeen
  <2>6. ASSUME NEW q \in Reqs, q # r
        PROVE  FrameInv(q)'
    BY <2>1, <2>2, <2>6, SameFrame DEF Start
  <2>7. QED
    BY <2>2, <2>5, <2>6, SameTables
<1>2. ASSUME NEW r \in Reqs, NEW s \in SessionIds, RefreshLookup(r, s)
      PROVE  TableInv' /\ \A q \in Reqs : FrameInv(q)'
  <2>1. /\ sessions[s].row = "stored"
        /\ ~ sessions[s].revoked
        /\ Start(r, "findOwner", sessions[s].user, s)
    BY <1>2 DEF RefreshLookup, FindByRefreshTokenHash
  <2>2. SameRows
    BY <2>1, UnchangedSameRows DEF Start, store
  <2>3. frames'[r] = [pc |-> "findOwner", user |-> sessions[s].user, from |-> s, new |-> Null]
    BY <2>1 DEF Start
  <2>4. sessions[s].user \in UserIds /\ s # Null
    BY <2>1, NullIsFresh DEF TableInv, ForeignKey
  <2>5. FrameShape(r)' /\ IssueAfterRevoke(r)'
    BY <2>3, <2>4 DEF FrameShape, IssueAfterRevoke
  <2>6. FrameSession(r)'
    BY <2>1, <2>2, <2>3 DEF FrameSession, SameRows
  <2>7. SlotHasNoPair(r)'
    <3>1. \A c \in SessionIds : Parent(c) # s
      BY <2>1, <2>4 DEF TableInv, ParentsRevoked
    <3>2. QED
      BY <2>2, <2>3, <3>1 DEF SlotHasNoPair, SameRows, Parent
  <2>8. ActiveSeen(r)'
    <3>1. users[sessions[s].user].status = "ACTIVE" => sawActive'[r]
      BY <2>1 DEF Start
    <3>2. QED
      BY <2>2, <2>3, <2>4, <3>1 DEF ActiveSeen, SameRows
  <2>9. ASSUME NEW q \in Reqs, q # r
        PROVE  FrameInv(q)'
    BY <2>1, <2>2, <2>9, SameFrame DEF Start
  <2>10. QED
    BY <2>2, <2>5, <2>6, <2>7, <2>8, <2>9, SameTables DEF FrameInv
<1>3. ASSUME NEW r \in Reqs, LoginFailed(r)
      PROVE  TableInv' /\ \A q \in Reqs : FrameInv(q)'
  <2>1. frames[r].user \in UserIds
    BY <1>3 DEF LoginFailed, FrameInv, FrameShape
  <2>2. SameRows
    BY <1>3, <2>1, AttemptsSameRows DEF LoginFailed
  <2>3. QED
    BY <1>3, <2>2, FinishInv DEF LoginFailed
<1>4. ASSUME NEW r \in Reqs, LoginRecord(r)
      PROVE  TableInv' /\ \A q \in Reqs : FrameInv(q)'
  <2>1. /\ frames[r].pc = "recordLogin"
        /\ frames[r].user \in UserIds
        /\ frames[r].from = Null
        /\ sawActive[r]
    BY <1>4 DEF LoginRecord, FrameInv, FrameShape, ActiveSeen
  <2>2. SameRows
    BY <1>4, <2>1, AttemptsSameRows DEF LoginRecord
  <2>3. /\ frames' = [frames EXCEPT ![r].pc = "issue"]
        /\ sawActive' = sawActive
    BY <1>4 DEF LoginRecord, Goto
  <2>4. frames'[r] = [frames[r] EXCEPT !.pc = "issue"]
    BY <2>3
  <2>5. FrameInv(r)'
    BY <2>1, <2>3, <2>4
    DEF Frame, FrameInv, FrameShape, FrameSession, IssueAfterRevoke, SlotHasNoPair, ActiveSeen
  <2>6. ASSUME NEW q \in Reqs, q # r
        PROVE  FrameInv(q)'
    BY <2>2, <2>3, <2>6, SameFrame
  <2>7. QED
    BY <2>2, <2>5, <2>6, SameTables
<1>5. ASSUME NEW r \in Reqs, RefreshOwner(r)
      PROVE  TableInv' /\ \A q \in Reqs : FrameInv(q)'
  <2>1. frames[r].pc = "findOwner" /\ SameRows
    BY <1>5, UnchangedSameRows DEF RefreshOwner, store
  <2>2. CASE Finish(r)
    BY <2>1, <2>2, FinishInv
  <2>3. CASE Goto(r, "revoke") /\ \E u \in FindByID(frames[r].user) : CanLogin(users[u].status)
    <3>1. users[frames[r].user].status = "ACTIVE"
      BY <2>3 DEF FindByID, CanLogin
    <3>2. sawActive[r]
      BY <2>1, <3>1 DEF FrameInv, ActiveSeen
    <3>3. /\ frames' = [frames EXCEPT ![r].pc = "revoke"]
          /\ sawActive' = sawActive
      BY <2>3 DEF Goto
    <3>4. frames'[r] = [frames[r] EXCEPT !.pc = "revoke"]
      BY <3>3
    <3>5. FrameShape(r)' /\ IssueAfterRevoke(r)'
      BY <2>1, <3>4 DEF Frame, FrameInv, FrameShape, IssueAfterRevoke
    <3>6. FrameSession(r)'
      BY <2>1, <3>4 DEF Frame, FrameInv, FrameShape, FrameSession, SameRows
    <3>7. SlotHasNoPair(r)'
      BY <2>1, <3>4 DEF Frame, FrameInv, SlotHasNoPair, SameRows, Parent
    <3>8. ActiveSeen(r)'
      BY <3>2, <3>3 DEF ActiveSeen
    <3>9. ASSUME NEW q \in Reqs, q # r
          PROVE  FrameInv(q)'
      BY <2>1, <3>3, <3>9, SameFrame
    <3>10. QED
      BY <2>1, <3>5, <3>6, <3>7, <3>8, <3>9, SameTables DEF FrameInv
  <2>4. QED
    BY <1>5, <2>2, <2>3 DEF RefreshOwner
<1>6. ASSUME NEW r \in Reqs, RefreshRevoke(r)
      PROVE  TableInv' /\ \A q \in Reqs : FrameInv(q)'
  <2> DEFINE from == frames[r].from
  <2>1. frames[r].pc = "revoke" /\ from \in SessionIds
    BY <1>6 DEF RefreshRevoke, FrameInv, FrameShape, Frame
  <2>2. /\ frames' = [frames EXCEPT ![r].pc = "issue"]
        /\ UNCHANGED <<users, lineage, sawActive>>
    BY <1>6 DEF RefreshRevoke, Goto
  <2>3. \A s \in SessionIds :
           /\ sessions'[s].row = sessions[s].row
           /\ sessions'[s].user = sessions[s].user
           /\ sessions[s].revoked => sessions'[s].revoked
    BY <1>6, <2>1 DEF RefreshRevoke, Revoke, StoreTypeOK, SessionRow
  <2>4. sessions[from].row = "stored" => sessions'[from].revoked
    BY <1>6, <2>1 DEF RefreshRevoke, Revoke, StoreTypeOK, SessionRow
  <2>5. TableInv'
    <3>1. ForeignKey'
      BY <2>2, <2>3 DEF TableInv, ForeignKey, Stored
    <3>2. ParentsRevoked'
      BY <2>2, <2>3 DEF TableInv, ParentsRevoked, Parent
    <3>3. RotatedParentRevoked'
      BY <2>2, <2>3 DEF TableInv, RotatedParentRevoked, Parent
    <3>4. OnePairPerRequest'
      BY <2>2 DEF TableInv, OnePairPerRequest, Parent
    <3>5. QED
      BY <3>1, <3>2, <3>3, <3>4 DEF TableInv
  <2>6. ASSUME NEW q \in Reqs
        PROVE  /\ frames'[q].user = frames[q].user
               /\ frames'[q].from = frames[q].from
               /\ frames'[q].new = frames[q].new
               /\ frames'[q].pc = IF q = r THEN "issue" ELSE frames[q].pc
    BY <2>2 DEF Frame
  <2>7. ASSUME NEW q \in Reqs
        PROVE  FrameInv(q)'
    <3>1. FrameInv(q) /\ sawActive'[q] = sawActive[q] /\ frames[q].from \in SessionIds \cup {Null}
      BY <2>2 DEF Frame
    <3>2. FrameShape(q)'
      BY <2>1, <2>6, <3>1 DEF FrameInv, FrameShape
    <3>3. FrameSession(q)'
      BY <2>2, <2>3, <2>6, <3>1 DEF FrameInv, FrameSession
    <3>4. IssueAfterRevoke(q)'
      BY <2>3, <2>4, <2>6, <3>1 DEF FrameInv, IssueAfterRevoke
    <3>5. SlotHasNoPair(q)'
      BY <2>1, <2>2, <2>6, <3>1 DEF FrameInv, SlotHasNoPair, Parent
    <3>6. ActiveSeen(q)'
      BY <2>1, <2>2, <2>6, <3>1 DEF FrameInv, ActiveSeen
    <3>7. QED
      BY <3>2, <3>3, <3>4, <3>5, <3>6 DEF FrameInv
  <2>8. QED
    BY <2>5, <2>7
<1>7. ASSUME NEW r \in Reqs, IssueSession(r)
      PROVE  TableInv' /\ \A q \in Reqs : FrameInv(q)'
  <2> DEFINE from == frames[r].from
             user == frames[r].user
  <2>1. PICK s \in FreshSessions :
          /\ CreateSession(s, user)
          /\ lineage' = [lineage EXCEPT ![s] = [parent |-> from, by |-> r]]
          /\ frames'  = [frames EXCEPT ![r].pc = "reply", ![r].new = s]
    BY <1>7 DEF IssueSession
  <2>2. /\ s \in SessionIds
        /\ sessions[s].row = "unborn"
        /\ frames[r].pc = "issue"
        /\ UNCHANGED <<users, sawActive>>
    BY <1>7, <2>1 DEF IssueSession, FreshSessions
  <2>3. /\ Stored(user)
        /\ \A t \in SessionIds \ {s} : sessions'[t] = sessions[t] /\ lineage'[t] = lineage[t]
        /\ sessions'[s] = [row |-> "stored", user |-> user, revoked |-> FALSE, expired |-> FALSE]
        /\ lineage'[s] = [parent |-> from, by |-> r]
    BY <2>1, <2>2 DEF CreateSession, StoreTypeOK
  <2>4. user \in UserIds /\ from \in SessionIds \cup {Null}
    BY <2>2 DEF FrameInv, FrameShape, Frame
  <2>5. \A t \in SessionIds : Parent(t) # s
    BY <2>2, NullIsFresh DEF TableInv, ParentsRevoked
  <2>6. from # Null => /\ sessions[from].row = "stored"
                       /\ sessions[from].user = user
                       /\ sessions[from].revoked
                       /\ from # s
    BY <2>2, <2>3, <2>4 DEF FrameInv, FrameSession, IssueAfterRevoke, Stored
  <2>7. TableInv'
    <3>1. ForeignKey'
      BY <2>2, <2>3, <2>4 DEF TableInv, ForeignKey, Stored
    <3>2. ParentsRevoked'
      BY <2>2, <2>3, <2>4, <2>5, <2>6 DEF TableInv, ParentsRevoked, Parent
    <3>3. RotatedParentRevoked'
      BY <2>2, <2>3, <2>4, <2>5, <2>6 DEF TableInv, RotatedParentRevoked, Parent
    <3>4. OnePairPerRequest'
      <4>1. \A t \in SessionIds : from # Null /\ Parent(t) = from => lineage[t].by # r
        BY <2>2 DEF FrameInv, SlotHasNoPair
      <4>2. QED
        BY <2>3, <4>1 DEF TableInv, OnePairPerRequest, Parent
    <3>5. QED
      BY <3>1, <3>2, <3>3, <3>4 DEF TableInv
  <2>8. FrameInv(r)'
    <3>1. frames'[r] = [[frames[r] EXCEPT !.pc = "reply"] EXCEPT !.new = s]
      BY <2>1
    <3>2. frames'[r].pc = "reply" /\ frames'[r].user = user /\ frames'[r].from = from
            /\ frames'[r].new = s
      BY <3>1 DEF Frame
    <3>3. FrameSession(r)'
      BY <2>2, <2>3, <2>4, <2>6, <3>2 DEF FrameSession
    <3>4. QED
      BY <2>2, <2>4, <3>2, <3>3
      DEF FrameInv, FrameShape, IssueAfterRevoke, SlotHasNoPair, ActiveSeen
  <2>9. ASSUME NEW q \in Reqs, q # r
        PROVE  FrameInv(q)'
    <3>1. frames'[q] = frames[q] /\ FrameInv(q) /\ frames[q].from \in SessionIds \cup {Null}
      BY <2>1, <2>9 DEF Frame
    <3>2. frames[q].from # s
      BY <2>2, <3>1, NullIsFresh DEF FrameInv, FrameSession
    <3>3. FrameShape(q)' /\ ActiveSeen(q)'
      BY <2>2, <3>1 DEF FrameInv, FrameShape, ActiveSeen
    <3>4. FrameSession(q)' /\ IssueAfterRevoke(q)'
      BY <2>2, <2>3, <3>1, <3>2 DEF FrameInv, FrameSession, IssueAfterRevoke
    <3>5. SlotHasNoPair(q)'
      BY <2>3, <2>9, <3>1 DEF FrameInv, SlotHasNoPair, Parent
    <3>6. QED
      BY <3>3, <3>4, <3>5 DEF FrameInv
  <2>10. QED
    BY <2>7, <2>8, <2>9
<1>8. ASSUME NEW r \in Reqs, IssueRefused(r) \/ Abandon(r) \/ Reply(r)
      PROVE  TableInv' /\ \A q \in Reqs : FrameInv(q)'
  <2>1. SameRows
    BY <1>8, UnchangedSameRows DEF IssueRefused, Abandon, Reply, store
  <2>2. QED
    BY <1>8, <2>1, FinishInv DEF IssueRefused, Abandon, Reply
<1>9. ASSUME NEW u \in UserIds, NEW status \in OperatorStatuses, SetStatus(u, status)
      PROVE  TableInv' /\ \A q \in Reqs : FrameInv(q)'
  <2>1. /\ users' = [users EXCEPT ![u].status = status]
        /\ sawActive' = [r \in Reqs |->
                           sawActive[r] \/ (frames[r].user = u /\ status = "ACTIVE")]
        /\ UNCHANGED <<sessions, frames, lineage>>
    BY <1>9 DEF SetStatus, OperatorSetStatus
  <2>2. \A v \in UserIds : /\ users'[v].row = users[v].row
                           /\ v # u => users'[v].status = users[v].status
                           /\ v = u => users'[v].status = status
    BY <2>1 DEF StoreTypeOK, UserRow
  <2>3. TableInv'
    BY <2>1, <2>2 DEF TableInv, ForeignKey, ParentsRevoked, RotatedParentRevoked,
       OnePairPerRequest, Parent, Stored
  <2>4. ASSUME NEW q \in Reqs
        PROVE  FrameInv(q)'
    <3>1. FrameInv(q) /\ frames'[q] = frames[q]
      BY <2>1
    <3>2. FrameShape(q)' /\ IssueAfterRevoke(q)' /\ SlotHasNoPair(q)'
      BY <2>1, <3>1 DEF FrameInv, FrameShape, IssueAfterRevoke, SlotHasNoPair, Parent
    <3>3. FrameSession(q)'
      BY <2>1, <2>2, <3>1 DEF FrameInv, FrameShape, FrameSession, Frame
    <3>4. sawActive[q] => sawActive'[q]
      BY <2>1, Zenon
    <3>5. frames[q].user = u /\ status = "ACTIVE" => sawActive'[q]
      BY <2>1, Zenon
    <3>6. ActiveSeen(q)'
      BY <2>2, <3>1, <3>4, <3>5 DEF FrameInv, FrameShape, ActiveSeen
    <3>7. QED
      BY <3>2, <3>3, <3>6 DEF FrameInv
  <2>5. QED
    BY <2>3, <2>4
<1>10. ASSUME NEW u \in UserIds, SoftDelete(u)
       PROVE  TableInv' /\ \A q \in Reqs : FrameInv(q)'
  <2>1. /\ users[u].row = "live"
        /\ users' = [users EXCEPT ![u].row = "softDeleted"]
        /\ UNCHANGED <<sessions, frames, lineage, sawActive>>
    BY <1>10 DEF SoftDelete, OperatorSoftDelete, Visible
  <2>2. \A v \in UserIds : /\ users'[v].status = users[v].status
                           /\ Stored(v) => Stored(v)'
                           /\ users[v].row = "gone" => users'[v].row = "gone"
    BY <2>1 DEF StoreTypeOK, UserRow, Stored
  <2>3. TableInv'
    BY <2>1, <2>2 DEF TableInv, ForeignKey, ParentsRevoked, RotatedParentRevoked,
       OnePairPerRequest, Parent
  <2>4. ASSUME NEW q \in Reqs
        PROVE  FrameInv(q)'
    <3>1. FrameInv(q) /\ frames'[q] = frames[q]
      BY <2>1
    <3>2. FrameShape(q)' /\ IssueAfterRevoke(q)' /\ SlotHasNoPair(q)'
      BY <2>1, <3>1 DEF FrameInv, FrameShape, IssueAfterRevoke, SlotHasNoPair, Parent
    <3>3. FrameSession(q)' /\ ActiveSeen(q)'
      BY <2>1, <2>2, <3>1 DEF FrameInv, FrameShape, FrameSession, ActiveSeen, Frame
    <3>4. QED
      BY <3>2, <3>3 DEF FrameInv
  <2>5. QED
    BY <2>3, <2>4
<1>11. ASSUME NEW s \in SessionIds, Expire(s)
       PROVE  TableInv' /\ \A q \in Reqs : FrameInv(q)'
  <2>1. SameRows
    BY <1>11 DEF Expire, SessionExpires, SameRows, StoreTypeOK, SessionRow
  <2>2. QED
    BY <1>11, <2>1, SameTables, SameFrame DEF Expire
<1>12. ASSUME Wipe
       PROVE  TableInv' /\ \A q \in Reqs : FrameInv(q)'
  <2>1. DeleteAllData /\ UNCHANGED <<frames, lineage, sawActive>>
    BY <1>12 DEF Wipe
  <2>2. \A u \in UserIds : /\ users'[u].row = IF Stored(u) THEN "gone" ELSE users[u].row
                           /\ users'[u].status = "ACTIVE" => users[u].status = "ACTIVE"
    BY <2>1 DEF DeleteAllData, BlankUser
  <2>3. \A s \in SessionIds :
           /\ sessions'[s].row = IF sessions[s].row = "stored" THEN "gone" ELSE sessions[s].row
           /\ sessions'[s].row # "stored"
    BY <2>1 DEF DeleteAllData, BlankSession
  <2>4. TableInv'
    <3>1. ForeignKey' /\ RotatedParentRevoked'
      BY <2>3 DEF ForeignKey, RotatedParentRevoked
    <3>2. ParentsRevoked'
      BY <2>1, <2>3 DEF TableInv, ParentsRevoked, Parent
    <3>3. OnePairPerRequest'
      BY <2>1 DEF TableInv, OnePairPerRequest, Parent
    <3>4. QED
      BY <3>1, <3>2, <3>3 DEF TableInv
  <2>5. ASSUME NEW q \in Reqs
        PROVE  FrameInv(q)'
    <3>1. /\ FrameInv(q)
          /\ frames'[q] = frames[q]
          /\ sawActive'[q] = sawActive[q]
          /\ frames[q].from \in SessionIds \cup {Null}
      BY <2>1 DEF Frame
    <3>2. FrameShape(q)' /\ SlotHasNoPair(q)'
      BY <2>1, <3>1 DEF FrameInv, FrameShape, SlotHasNoPair, Parent
    <3>3. IssueAfterRevoke(q)'
      BY <2>3, <3>1 DEF IssueAfterRevoke
    <3>4. FrameSession(q)'
      <4>1. frames[q].from # Null => frames[q].user \in UserIds
        BY <3>1 DEF FrameInv, FrameShape, Frame, Stages
      <4>2. ForeignKey
        BY DEF TableInv
      <4>3. QED
        BY <2>2, <2>3, <3>1, <4>1, <4>2 DEF FrameInv, FrameSession, ForeignKey, Stored
    <3>5. ActiveSeen(q)'
      BY <2>2, <3>1 DEF FrameInv, FrameShape, ActiveSeen
    <3>6. QED
      BY <3>2, <3>3, <3>4, <3>5 DEF FrameInv
  <2>6. QED
    BY <2>4, <2>5
<1>13. CASE UNCHANGED authVars
  <2>1. SameRows
    BY <1>13, UnchangedSameRows DEF authVars, store
  <2>2. QED
    BY <1>13, <2>1, SameTables, SameFrame DEF authVars
<1>14. QED
  BY <1>1, <1>2, <1>3, <1>4, <1>5, <1>6, <1>7, <1>8, <1>9, <1>10, <1>11, <1>12, <1>13
  DEF AuthNext, Arrive, Serve, Environment

-----------------------------------------------------------------------------
(* The theorems.                                                           *)

(* The invariant holds of every reachable state.                           *)
LEMMA Invariance == AuthSpec => []AuthInv
  BY InitInv, StepInv, PTL DEF AuthSpec

(* Tables, frames and history always have the shapes the code gives them.  *)
THEOREM TypeCorrect == AuthSpec => []AuthTypeOK
<1>1. AuthInv => AuthTypeOK
  BY DEF AuthInv
<1>2. QED
  BY <1>1, Invariance, PTL

(* RefreshToken (auth_service.go:144-149): a rotated session always sits   *)
(* next to its revoked predecessor, of the same account.                   *)
THEOREM RotationSafe == AuthSpec => []RotatedParentRevoked
<1>1. AuthInv => RotatedParentRevoked
  BY DEF AuthInv, TableInv
<1>2. QED
  BY <1>1, Invariance, PTL

(* RefreshToken (auth_service.go:121-149): the pairs obtained from one     *)
(* refresh token come from pairwise different requests.                    *)
THEOREM RaceBounded == AuthSpec => []OnePairPerRequest
<1>1. AuthInv => OnePairPerRequest
  BY DEF AuthInv, TableInv
<1>2. QED
  BY <1>1, Invariance, PTL

(* Only issueTokenPair inserts a session, and only for the account of its  *)
(* own frame.                                                              *)
LEMMA IssuedByRequest ==
  ASSUME AuthInv, [AuthNext]_authVars,
         NEW s \in SessionIds, sessions[s].row = "unborn", sessions'[s].row = "stored"
  PROVE  \E r \in Reqs : /\ lineage'[s].by = r
                         /\ frames[r].user = sessions'[s].user
                         /\ frames[r].pc = "issue"
<1>1. sessions' # sessions
  OBVIOUS
<1>2. ASSUME NEW t \in SessionIds, Expire(t)
      PROVE  FALSE
  BY <1>2 DEF Expire, SessionExpires, AuthInv, AuthTypeOK, StoreTypeOK, SessionRow
<1>3. ASSUME NEW r \in Reqs, RefreshRevoke(r)
      PROVE  FALSE
  BY <1>3 DEF RefreshRevoke, Revoke, AuthInv, AuthTypeOK, StoreTypeOK, SessionRow
<1>4. ASSUME Wipe
      PROVE  FALSE
  BY <1>4 DEF Wipe, DeleteAllData, BlankSession
<1>5. PICK r \in Reqs : IssueSession(r)
  BY <1>1, <1>2, <1>3, <1>4
  DEF AuthNext, Arrive, Serve, Environment, LoginLookup, RefreshLookup, Start, LoginFailed,
      LoginRecord, RefreshOwner, IssueRefused, Reply, Abandon, SetStatus, OperatorSetStatus,
      SoftDelete, OperatorSoftDelete, authVars, store
<1>6. PICK t \in FreshSessions :
        /\ CreateSession(t, frames[r].user)
        /\ lineage' = [lineage EXCEPT ![t] = [parent |-> frames[r].from, by |-> r]]
  BY <1>5 DEF IssueSession
<1>7. t = s
  BY <1>6 DEF CreateSession, AuthInv, AuthTypeOK, StoreTypeOK
<1>8. lineage'[s].by = r /\ sessions'[s].user = frames[r].user
  BY <1>6, <1>7 DEF CreateSession, AuthInv, AuthTypeOK, StoreTypeOK
<1>9. frames[r].pc = "issue"
  BY <1>5 DEF IssueSession
<1>10. QED
  BY <1>8, <1>9

(* By then its account was ACTIVE at an instant of the request.            *)
LEMMA IssueStep == AuthInv /\ [AuthNext]_authVars => IssuedUnderActive
<1>1. AuthInv => \A r \in Reqs : frames[r].pc = "issue" => sawActive[r]
  BY DEF AuthInv, FrameInv, ActiveSeen
<1>2. QED
  BY <1>1, IssuedByRequest DEF IssuedUnderActive

(* CanLogin (auth_service.go:81, 140): a session is only ever inserted by  *)
(* a request during which its account was ACTIVE.                          *)
THEOREM IssueSafe == AuthSpec => IssueNeedsActive
<1>1. AuthInv /\ [AuthNext]_authVars => [IssuedUnderActive]_authVars
  BY IssueStep
<1>2. QED
  BY <1>1, Invariance, PTL DEF AuthSpec, IssueNeedsActive
-----------------------------------------------------------------------------
(* What the calls of a request do to the rows and to the frames.           *)

(* The counter of failed attempts is no other column of an account.        *)
LEMMA AttemptsKeepRows ==
  ASSUME StoreTypeOK, NEW u \in UserIds,
         IncrementFailedAttempts(u) \/ ResetFailedAttempts(u) \/ UNCHANGED users
  PROVE  \A v \in UserIds :
            /\ users'[v].row = users[v].row /\ users'[v].status = users[v].status
            /\ users'[v].email = users[v].email /\ users'[v].pwd = users[v].pwd
            /\ users'[v].hasRole = users[v].hasRole
  BY DEF IncrementFailedAttempts, ResetFailedAttempts, UpdateUser, StoreTypeOK, UserRow

(* No call of a login or a refresh changes more of identity_users, a token *)
(* or another request.                                                     *)
LEMMA RequestKeepsRows ==
  ASSUME AuthInv, NEW r \in Reqs, Arrive(r) \/ Serve(r) \/ Abandon(r)
  PROVE  /\ \A u \in UserIds :
               /\ users'[u].row = users[u].row /\ users'[u].status = users[u].status
               /\ users'[u].email = users[u].email /\ users'[u].pwd = users[u].pwd
               /\ users'[u].hasRole = users[u].hasRole
         /\ tokens' = tokens
         /\ \A q \in Reqs : q # r => frames'[q] = frames[q]
<1> USE DEF AuthInv, AuthTypeOK, StoreTypeOK
<1>1. \A u \in UserIds :
         /\ users'[u].row = users[u].row /\ users'[u].status = users[u].status
         /\ users'[u].email = users[u].email /\ users'[u].pwd = users[u].pwd
         /\ users'[u].hasRole = users[u].hasRole
  <2>1. CASE LoginFailed(r) \/ LoginRecord(r)
    <3>1. frames[r].user \in UserIds
      BY <2>1 DEF LoginFailed, LoginRecord, FrameInv, FrameShape
    <3>2. IncrementFailedAttempts(frames[r].user) \/ ResetFailedAttempts(frames[r].user)
             \/ UNCHANGED users
      BY <2>1 DEF LoginFailed, LoginRecord
    <3>3. QED
      BY <3>1, <3>2, AttemptsKeepRows
  <2>2. CASE ~ (LoginFailed(r) \/ LoginRecord(r))
    BY <2>2 DEF Arrive, Serve, LoginLookup, RefreshLookup, Start, RefreshOwner, RefreshRevoke,
       IssueSession, IssueRefused, Reply, Abandon, store
  <2>3. QED
    BY <2>1, <2>2
<1>2. \A q \in Reqs : q # r => frames'[q] = frames[q]
  BY DEF Arrive, Serve, LoginLookup, RefreshLookup, Start, Goto, Finish, LoginFailed, LoginRecord,
     RefreshOwner, RefreshRevoke, IssueSession, IssueRefused, Reply, Abandon
<1>3. tokens' = tokens
  BY DEF Arrive, Serve, LoginLookup, RefreshLookup, Start, LoginFailed, LoginRecord, RefreshOwner,
     RefreshRevoke, IssueSession, IssueRefused, Reply, Abandon, store
<1>4. QED
  BY <1>1, <1>2, <1>3

(* A request comes to a stage past the check of the status from another    *)
(* such stage, for the same account, or by seeing the account ACTIVE.      *)
LEMMA RequestPassesCheck ==
  ASSUME AuthInv, NEW r \in Reqs, Arrive(r) \/ Serve(r) \/ Abandon(r),
         frames'[r].pc \in {"countFailure", "recordLogin", "revoke", "issue"}
  PROVE  /\ frames'[r].user \in UserIds
         /\ \/ Active(frames'[r].user)
            \/ /\ frames[r].pc \in {"countFailure", "recordLogin", "revoke", "issue"}
               /\ frames[r].user = frames'[r].user
<1> USE DEF AuthInv, AuthTypeOK
<1>1. ASSUME NEW e \in Emails, NEW p \in Passwords, LoginLookup(r, e, p)
      PROVE  frames'[r].user \in UserIds /\ Active(frames'[r].user)
  <2>1. PICK u \in FindByEmail(e) :
          /\ CanLogin(users[u].status)
          /\ Start(r, IF users[u].pwd = p THEN "recordLogin" ELSE "countFailure", u, Null)
    BY <1>1 DEF LoginLookup
  <2>2. u \in UserIds /\ Active(u)
    BY <2>1 DEF FindByEmail, Active
  <2>3. frames'[r].user = u
    BY <2>1 DEF Start
  <2>4. QED
    BY <2>2, <2>3
<1>2. ASSUME NEW s \in SessionIds, RefreshLookup(r, s)
      PROVE  FALSE
  BY <1>2 DEF RefreshLookup, Start
<1>3. ASSUME Finish(r)
      PROVE  FALSE
  BY <1>3 DEF Finish, Idle
<1>4. ASSUME LoginRecord(r) \/ RefreshRevoke(r)
      PROVE  /\ frames[r].user \in UserIds /\ frames[r].user = frames'[r].user
             /\ frames[r].pc \in {"recordLogin", "revoke"}
  <2>1. frames' = [frames EXCEPT ![r].pc = "issue"]
    BY <1>4 DEF LoginRecord, RefreshRevoke, Goto
  <2>2. QED
    BY <1>4, <2>1 DEF LoginRecord, RefreshRevoke, FrameInv, FrameShape, Frame
<1>5. ASSUME RefreshOwner(r)
      PROVE  frames'[r].user \in UserIds /\ Active(frames'[r].user)
  <2>1. /\ \E u \in FindByID(frames[r].user) : CanLogin(users[u].status)
        /\ Goto(r, "revoke")
    BY <1>3, <1>5 DEF RefreshOwner
  <2>2. frames[r].user \in UserIds /\ Active(frames[r].user)
    BY <2>1 DEF FindByID, Active
  <2>3. frames'[r].user = frames[r].user
    BY <2>1 DEF Goto, Frame
  <2>4. QED
    BY <2>2, <2>3
<1>6. ASSUME IssueSession(r)
      PROVE  FALSE
  <2>1. PICK s \in FreshSessions : frames' = [frames EXCEPT ![r].pc = "reply", ![r].new = s]
    BY <1>6 DEF IssueSession
  <2>2. frames'[r].pc = "reply"
    BY <2>1 DEF Frame
  <2>3. QED
    BY <2>2
<1>7. QED
  BY <1>1, <1>2, <1>3, <1>4, <1>5, <1>6
  DEF Arrive, Serve, LoginFailed, IssueRefused, Reply, Abandon

-----------------------------------------------------------------------------
(* Complete rotations.                                                     *)

(* A request that neither leaves the stage before the INSERT nor moves a   *)
(* row keeps the successors of the revoked sessions.                       *)
LEMMA SameRotation ==
  ASSUME RotationInv, SameRows,
         \A r \in Reqs : frames[r].pc = "issue" => frames'[r] = frames[r]
  PROVE  RotationInv'
<1>1. RowsBlank'
  BY DEF RotationInv, RowsBlank, SameRows, Parent
<1>2. RevokedHasSuccessor'
  BY DEF RotationInv, RevokedHasSuccessor, SameRows, Parent
<1>3. QED
  BY <1>1, <1>2 DEF RotationInv

(* Nor does a step of the request r that is not at that stage.             *)
LEMMA OtherStageRotation ==
  ASSUME RotationInv, SameRows, NEW r \in Reqs, frames[r].pc # "issue",
         \A q \in Reqs : q # r => frames'[q] = frames[q]
  PROVE  RotationInv'
  BY SameRotation

(* Every step keeps them: the INSERT is refused only to a login, and to a  *)
(* refresh whose session was truncated away together with its account.     *)
LEMMA RotationStep ==
  ASSUME ~ Faults, AuthInv, RotationInv, [AuthNext]_authVars
  PROVE  RotationInv'
<1> USE DEF AuthInv, AuthTypeOK, StoreTypeOK
<1>1. ASSUME NEW r \in Reqs, Arrive(r)
      PROVE  RotationInv'
  <2>1. /\ frames[r].pc = "idle" /\ UNCHANGED <<store, lineage>>
        /\ \A q \in Reqs : q # r => frames'[q] = frames[q]
    BY <1>1 DEF Arrive, LoginLookup, RefreshLookup, Start
  <2>2. QED
    BY <2>1, UnchangedSameRows, OtherStageRotation
<1>2. ASSUME NEW r \in Reqs, LoginFailed(r) \/ LoginRecord(r)
      PROVE  RotationInv'
  <2>1. frames[r].user \in UserIds /\ frames[r].pc # "issue"
    BY <1>2 DEF LoginFailed, LoginRecord, FrameInv, FrameShape
  <2>2. SameRows
    BY <1>2, <2>1, AttemptsSameRows DEF LoginFailed, LoginRecord
  <2>3. \A q \in Reqs : q # r => frames'[q] = frames[q]
    BY <1>2 DEF LoginFailed, LoginRecord, Goto, Finish
  <2>4. QED
    BY <2>1, <2>2, <2>3, OtherStageRotation
<1>3. ASSUME NEW r \in Reqs, RefreshOwner(r) \/ Reply(r)
      PROVE  RotationInv'
  <2>1. /\ frames[r].pc # "issue" /\ UNCHANGED <<store, lineage>>
        /\ \A q \in Reqs : q # r => frames'[q] = frames[q]
    BY <1>3 DEF RefreshOwner, Reply, Goto, Finish
  <2>2. QED
    BY <2>1, UnchangedSameRows, OtherStageRotation
<1>4. ASSUME NEW r \in Reqs, RefreshRevoke(r)
      PROVE  RotationInv'
  <2> DEFINE from == frames[r].from
  <2>1. frames[r].pc = "revoke" /\ from \in SessionIds
    BY <1>4 DEF RefreshRevoke, FrameInv, FrameShape, Frame
  <2>2. /\ frames' = [frames EXCEPT ![r].pc = "issue"]
        /\ lineage' = lineage
    BY <1>4 DEF RefreshRevoke, Goto
  <2>3. /\ frames'[r].pc = "issue" /\ frames'[r].from = from
        /\ \A q \in Reqs : q # r => frames'[q] = frames[q]
    BY <2>2 DEF Frame
  <2>4. \A s \in SessionIds :
           /\ sessions'[s].row = sessions[s].row
           /\ s # from \/ sessions[s].row # "stored" => sessions'[s].revoked = sessions[s].revoked
    BY <1>4, <2>1 DEF RefreshRevoke, Revoke, SessionRow
  <2>5. RowsBlank'
    BY <2>2, <2>4 DEF RotationInv, RowsBlank, Parent
  <2>6. RevokedHasSuccessor'
    <3> SUFFICES ASSUME NEW s \in SessionIds, sessions'[s].revoked
                 PROVE  \/ \E c \in SessionIds : lineage'[c].parent = s
                        \/ \E q \in Reqs : frames'[q].from = s /\ frames'[q].pc = "issue"
      BY DEF RevokedHasSuccessor, Parent
    <3>1. CASE s = from
      BY <2>3, <3>1
    <3>2. CASE s # from
      <4>1. sessions[s].revoked
        BY <2>4, <3>2
      <4>2. \/ \E c \in SessionIds : lineage[c].parent = s
            \/ \E q \in Reqs : frames[q].from = s /\ frames[q].pc = "issue"
        BY <4>1 DEF RotationInv, RevokedHasSuccessor, Parent
      <4>3. QED
        BY <2>1, <2>2, <2>3, <4>2
    <3>3. QED
      BY <3>1, <3>2
  <2>7. QED
    BY <2>5, <2>6 DEF RotationInv
<1>5. ASSUME NEW r \in Reqs, IssueSession(r)
      PROVE  RotationInv'
  <2> DEFINE from == frames[r].from
  <2>1. PICK s \in FreshSessions :
          /\ CreateSession(s, frames[r].user)
          /\ lineage' = [lineage EXCEPT ![s] = [parent |-> from, by |-> r]]
          /\ frames'  = [frames EXCEPT ![r].pc = "reply", ![r].new = s]
    BY <1>5 DEF IssueSession
  <2>2. s \in SessionIds /\ sessions[s].row = "unborn"
    BY <2>1 DEF FreshSessions
  <2>3. /\ \A t \in SessionIds : t # s => sessions'[t] = sessions[t] /\ lineage'[t] = lineage[t]
        /\ sessions'[s].row = "stored" /\ ~ sessions'[s].revoked
        /\ lineage'[s].parent = from
    BY <2>1, <2>2 DEF CreateSession
  <2>4. \A q \in Reqs : q # r => frames'[q] = frames[q]
    BY <2>1
  <2>5. RowsBlank'
    BY <2>3 DEF RotationInv, RowsBlank, Parent
  <2>6. RevokedHasSuccessor'
    <3> SUFFICES ASSUME NEW t \in SessionIds, sessions'[t].revoked
                 PROVE  \/ \E c \in SessionIds : lineage'[c].parent = t
                        \/ \E q \in Reqs : frames'[q].from = t /\ frames'[q].pc = "issue"
      BY DEF RevokedHasSuccessor, Parent
    <3>1. t # s /\ sessions[t].revoked
      BY <2>3
    <3>2. CASE \E c \in SessionIds : Parent(c) = t
      <4>1. PICK c \in SessionIds : lineage[c].parent = t
        BY <3>2 DEF Parent
      <4>2. c # s
        BY <2>2, <4>1, NullIsFresh DEF RotationInv, RowsBlank, Parent
      <4>3. QED
        BY <2>3, <4>1, <4>2
    <3>3. CASE \E q \in Reqs : frames[q].from = t /\ frames[q].pc = "issue"
      BY <2>2, <2>3, <2>4, <3>3
    <3>4. QED
      BY <3>1, <3>2, <3>3 DEF RotationInv, RevokedHasSuccessor
  <2>7. QED
    BY <2>5, <2>6 DEF RotationInv
<1>6. ASSUME NEW r \in Reqs, IssueRefused(r)
      PROVE  RotationInv'
  <2>1. /\ frames[r].pc = "issue" /\ Refusable(r)
        /\ UNCHANGED <<store, lineage>>
        /\ \A q \in Reqs : q # r => frames'[q] = frames[q]
    BY <1>6 DEF IssueRefused, Finish
  <2>2. frames[r].from \in SessionIds => ~ sessions[frames[r].from].revoked
    <3> SUFFICES ASSUME frames[r].from \in SessionIds
                 PROVE  ~ sessions[frames[r].from].revoked
      OBVIOUS
    <3>1. frames[r].from # Null /\ frames[r].user \in UserIds
      BY <2>1, NullIsFresh DEF FrameInv, FrameShape
    <3>2. ~ Stored(frames[r].user)
      BY <2>1, <3>1 DEF Refusable
    <3>3. sessions[frames[r].from].row # "stored"
      BY <3>1, <3>2 DEF FrameInv, FrameSession, TableInv, ForeignKey
    <3>4. QED
      BY <3>3 DEF RotationInv, RowsBlank
  <2>3. RowsBlank'
    BY <2>1 DEF store, RotationInv, RowsBlank, Parent
  <2>4. RevokedHasSuccessor'
    <3> SUFFICES ASSUME NEW s \in SessionIds, sessions[s].revoked
                 PROVE  \/ \E c \in SessionIds : Parent(c) = s
                        \/ \E q \in Reqs : frames'[q].from = s /\ frames'[q].pc = "issue"
      BY <2>1 DEF store, RevokedHasSuccessor, Parent
    <3>1. \/ \E c \in SessionIds : Parent(c) = s
          \/ \E q \in Reqs : frames[q].from = s /\ frames[q].pc = "issue"
      BY DEF RotationInv, RevokedHasSuccessor
    <3>2. frames[r].from # s
      BY <2>2
    <3>3. QED
      BY <2>1, <3>1, <3>2
  <2>5. QED
    BY <2>3, <2>4 DEF RotationInv
<1>7. ASSUME NEW r \in Reqs, Abandon(r)
      PROVE  RotationInv'
  BY <1>7 DEF Abandon
<1>8. ASSUME \/ \E u \in UserIds, status \in OperatorStatuses : SetStatus(u, status)
             \/ \E u \in UserIds : SoftDelete(u)
             \/ \E s \in SessionIds : Expire(s)
             \/ UNCHANGED authVars
      PROVE  RotationInv'
  <2>1. UNCHANGED <<frames, lineage>>
    BY <1>8 DEF SetStatus, SoftDelete, Expire, authVars
  <2>2. \A s \in SessionIds : /\ sessions'[s].row = sessions[s].row
                              /\ sessions'[s].revoked = sessions[s].revoked
    BY <1>8 DEF SetStatus, OperatorSetStatus, SoftDelete, OperatorSoftDelete, Expire,
       SessionExpires, SessionRow, authVars
  <2>3. QED
    BY <2>1, <2>2 DEF RotationInv, RowsBlank, RevokedHasSuccessor, Parent
<1>9. ASSUME Wipe
      PROVE  RotationInv'
  <2>1. \A s \in SessionIds :
           sessions'[s] = IF sessions[s].row = "stored" THEN BlankSession("gone") ELSE sessions[s]
    BY <1>9 DEF Wipe, DeleteAllData
  <2>2. lineage' = lineage
    BY <1>9 DEF Wipe
  <2>3. \A s \in SessionIds : /\ ~ sessions'[s].revoked
                              /\ sessions'[s].row = "unborn" => sessions[s].row = "unborn"
    BY <2>1 DEF BlankSession, RotationInv, RowsBlank
  <2>4. QED
    BY <2>2, <2>3 DEF RotationInv, RowsBlank, RevokedHasSuccessor, Parent
<1>10. QED
  BY <1>1, <1>2, <1>3, <1>4, <1>5, <1>6, <1>7, <1>8, <1>9
  DEF AuthNext, Serve, Environment

(* RefreshToken (auth_service.go:144-149): when no call fails, a session   *)
(* that was revoked has a successor as soon as its request has ended.      *)
THEOREM RotationComplete ==
  ASSUME ~ Faults
  PROVE  AuthSpec => []RevokedHasSuccessor
<1>1. AuthInit => RotationInv
  BY DEF AuthInit, BlankSession, NoLineage, RotationInv, RowsBlank, RevokedHasSuccessor, Parent
<1>2. AuthInv /\ RotationInv /\ [AuthNext]_authVars => RotationInv'
  BY RotationStep
<1>3. RotationInv => RevokedHasSuccessor
  BY DEF RotationInv
<1>4. QED
  BY <1>1, <1>2, <1>3, Invariance, PTL DEF AuthSpec

-----------------------------------------------------------------------------
(* AuthService implements SessionLedger: the mapped initial states are     *)
(* initial, and under the inductive invariant every step maps to a step of *)
(* the ledger or to none.                                                  *)

(* What the mapping depends on.                                            *)

Claiming == {"findOwner", "revoke", "issue"}

ClaimOf(f) == IF f.pc \in Claiming THEN f.from ELSE Null

(* The claims show nothing but the frames ...                              *)
LEMMA ClaimsShowFrames == ClaimsOfFrames = [r \in Reqs |-> ClaimOf(frames[r])]
  BY DEF ClaimsOfFrames, ClaimOf, Claiming

(* ... and the ledger nothing but the sessions and their lineage.          *)
LEMMA SameLedger ==
  ASSUME UNCHANGED <<sessions, lineage>>
  PROVE  LedgerOfTables' = LedgerOfTables
  BY DEF LedgerOfTables, LedgerState, Parent

(* The claim of one request changes as its frame does.                     *)
LEMMA OneClaim ==
  ASSUME AuthTypeOK, NEW r \in Reqs, NEW f \in Frame, frames' = [frames EXCEPT ![r] = f]
  PROVE  ClaimsOfFrames' = [ClaimsOfFrames EXCEPT ![r] = ClaimOf(f)]
<1>1. ClaimsOfFrames' = [q \in Reqs |-> ClaimOf(frames'[q])]
  BY DEF ClaimsOfFrames, ClaimOf, Claiming
<1>2. \A q \in Reqs : frames'[q] = IF q = r THEN f ELSE frames[q]
  BY DEF AuthTypeOK
<1>3. QED
  BY <1>1, <1>2, ClaimsShowFrames

(* A frame that keeps its claim keeps all claims.                          *)
LEMMA KeptClaim ==
  ASSUME AuthTypeOK, NEW r \in Reqs, NEW f \in Frame, frames' = [frames EXCEPT ![r] = f],
         ClaimOf(f) = ClaimOf(frames[r])
  PROVE  ClaimsOfFrames' = ClaimsOfFrames
<1>1. ClaimsOfFrames' = [ClaimsOfFrames EXCEPT ![r] = ClaimOf(frames[r])]
  BY OneClaim
<1>2. QED
  BY <1>1, ClaimsShowFrames

(* A request that ends gives up its claim, if it has one.                  *)
LEMMA EndOfRequest ==
  ASSUME AuthTypeOK, NEW r \in Reqs, Finish(r), UNCHANGED <<sessions, lineage>>
  PROVE  Ledger!Withdraw(r) \/ UNCHANGED Ledger!ledgerVars
<1>1. Idle \in Frame /\ ClaimOf(Idle) = Null
  BY DEF Idle, Frame, Stages, ClaimOf, Claiming
<1>2. ClaimsOfFrames' = [ClaimsOfFrames EXCEPT ![r] = Null]
  BY <1>1, OneClaim DEF Finish
<1>3. LedgerOfTables' = LedgerOfTables
  BY SameLedger
<1>4. CASE ClaimsOfFrames[r] = Null
  <2>1. ClaimsOfFrames' = ClaimsOfFrames
    BY <1>2, <1>4, ClaimsShowFrames
  <2>2. QED
    BY <1>3, <2>1 DEF Ledger!ledgerVars
<1>5. CASE ClaimsOfFrames[r] # Null
  BY <1>2, <1>3, <1>5 DEF Ledger!Withdraw
<1>6. QED
  BY <1>4, <1>5

(* A step that writes one session changes one entry.                       *)
LEMMA OneEntry ==
  ASSUME NEW s \in SessionIds, NEW e,
         \A t \in SessionIds \ {s} : sessions'[t] = sessions[t] /\ lineage'[t] = lineage[t],
         LedgerOfTables'[s] = e
  PROVE  LedgerOfTables' = [LedgerOfTables EXCEPT ![s] = e]
<1>1. \A t \in SessionIds \ {s} : LedgerOfTables'[t] = LedgerOfTables[t]
  BY DEF LedgerOfTables, LedgerState, Parent
<1>2. /\ LedgerOfTables = [t \in SessionIds |-> LedgerOfTables[t]]
      /\ LedgerOfTables' = [t \in SessionIds |-> LedgerOfTables'[t]]
  BY DEF LedgerOfTables
<1>3. QED
  BY <1>1, <1>2

-----------------------------------------------------------------------------
(* The simulation.                                                         *)

(* No session, no request: an empty ledger without claims.                 *)
LEMMA InitLedger == AuthInit => Ledger!LedgerInit
<1> SUFFICES ASSUME AuthInit PROVE Ledger!LedgerInit
  OBVIOUS
<1>1. LedgerOfTables = [s \in SessionIds |-> Ledger!Unissued]
  BY DEF AuthInit, LedgerOfTables, LedgerState, Parent, BlankSession, NoLineage,
         Ledger!Unissued
<1>2. ClaimsOfFrames = [r \in Reqs |-> Null]
  BY DEF AuthInit, ClaimsOfFrames, Idle
<1>3. QED
  BY <1>1, <1>2 DEF Ledger!LedgerInit

(* Issuing enters the new session: as a grant to a login, as the successor *)
(* of the claimed session to a refresh.                                    *)
LEMMA IssueEnters ==
  ASSUME AuthInv, NEW r \in Reqs, IssueSession(r)
  PROVE  \E s \in SessionIds :
            Ledger!Succeed(r, s) \/ \E u \in UserIds : Ledger!Grant(s, u)
<1> DEFINE f == frames[r]
<1>1. PICK s \in FreshSessions :
        /\ CreateSession(s, f.user)
        /\ lineage' = [lineage EXCEPT ![s] = [parent |-> f.from, by |-> r]]
        /\ frames'  = [frames EXCEPT ![r].pc = "reply", ![r].new = s]
  BY DEF IssueSession
<1>2. /\ s \in SessionIds /\ sessions[s].row = "unborn"
      /\ f \in Frame /\ f.pc = "issue" /\ f.user \in UserIds /\ Stored(f.user)
  BY <1>1 DEF FreshSessions, AuthInv, AuthTypeOK, FrameInv, FrameShape, IssueSession, CreateSession
<1>3. /\ sessions' = [sessions EXCEPT ![s] = [row |-> "stored", user |-> f.user,
                                              revoked |-> FALSE, expired |-> FALSE]]
      /\ sessions \in [SessionIds -> SessionRow]
      /\ DOMAIN lineage = SessionIds
  BY <1>1 DEF CreateSession, AuthInv, AuthTypeOK, StoreTypeOK
<1> DEFINE e == [state |-> "live", owner |-> f.user, parent |-> f.from, lapsed |-> FALSE]
<1>4. LedgerOfTables' = [LedgerOfTables EXCEPT ![s] = e]
  <2>1. LedgerOfTables'[s] = e
    BY <1>1, <1>2, <1>3 DEF LedgerOfTables, LedgerState, Parent
  <2>2. \A t \in SessionIds \ {s} : sessions'[t] = sessions[t] /\ lineage'[t] = lineage[t]
    BY <1>1, <1>3
  <2> HIDE DEF e
  <2>3. QED
    BY <1>2, <2>1, <2>2, OneEntry
<1>5. LedgerOfTables[s].state = "unissued"
  BY <1>2 DEF LedgerOfTables, LedgerState
<1>6. ClaimsOfFrames[r] = f.from
  BY <1>2 DEF ClaimsOfFrames
<1>7. ClaimsOfFrames' = [ClaimsOfFrames EXCEPT ![r] = Null]
  <2> DEFINE g == [f EXCEPT !.pc = "reply", !.new = s]
  <2>1. g \in Frame /\ frames' = [frames EXCEPT ![r] = g]
    BY <1>1, <1>2 DEF Frame, Stages, AuthInv, AuthTypeOK
  <2>2. ClaimOf(g) = Null
    BY <1>2 DEF ClaimOf, Claiming, Frame
  <2>3. AuthTypeOK
    BY DEF AuthInv
  <2> HIDE DEF g
  <2>4. QED
    BY <2>1, <2>2, <2>3, OneClaim
<1>8. CASE f.from = Null
  <2>1. ClaimsOfFrames' = ClaimsOfFrames
    BY <1>6, <1>7, <1>8, ClaimsShowFrames
  <2>2. Ledger!Grant(s, f.user)
    BY <1>4, <1>5, <1>8, <2>1 DEF Ledger!Grant, Ledger!Enter
  <2>3. QED
    BY <1>2, <2>2
<1>9. CASE f.from # Null
  <2>1. f.from \in SessionIds
    BY <1>2, <1>9 DEF Frame
  <2>2. sessions[f.from].row = "stored" /\ sessions[f.from].user = f.user
    BY <1>2, <1>9 DEF AuthInv, FrameInv, FrameSession, Stored
  <2>3. sessions[f.from].revoked
    BY <1>2, <1>9, <2>2 DEF AuthInv, FrameInv, IssueAfterRevoke
  <2>4. LedgerOfTables[f.from].state = "spent" /\ LedgerOfTables[f.from].owner = f.user
    BY <2>1, <2>2, <2>3 DEF LedgerOfTables, LedgerState
  <2>5. Ledger!Succeed(r, s)
    BY <1>4, <1>5, <1>6, <1>7, <1>9, <2>4 DEF Ledger!Succeed, Ledger!Enter
  <2>6. QED
    BY <1>2, <2>5
<1>10. QED
  BY <1>8, <1>9

(* Revoking spends the claimed session, unless a racing refresh or a       *)
(* truncation came first, when it changes nothing.                         *)
LEMMA RevokeSpends ==
  ASSUME AuthInv, NEW r \in Reqs, RefreshRevoke(r)
  PROVE  Ledger!Spend(r) \/ UNCHANGED Ledger!ledgerVars
<1> DEFINE f == frames[r]
           s == f.from
<1>1. /\ f \in Frame /\ f.pc = "revoke" /\ s \in SessionIds /\ s # Null
      /\ Revoke(s) /\ UNCHANGED lineage
  BY DEF AuthInv, AuthTypeOK, FrameInv, FrameShape, RefreshRevoke, Frame
<1>2. ClaimsOfFrames[r] = s
  BY <1>1 DEF ClaimsOfFrames
<1>3. ClaimsOfFrames' = ClaimsOfFrames
  <2> DEFINE g == [f EXCEPT !.pc = "issue"]
  <2>1. g \in Frame /\ frames' = [frames EXCEPT ![r] = g]
    BY <1>1 DEF RefreshRevoke, Goto, Frame, Stages, AuthInv, AuthTypeOK
  <2>2. ClaimOf(g) = ClaimOf(frames[r])
    BY <1>1 DEF ClaimOf, Claiming, Frame
  <2>3. AuthTypeOK
    BY DEF AuthInv
  <2> HIDE DEF g
  <2>4. QED
    BY <2>1, <2>2, <2>3, KeptClaim
<1>4. sessions \in [SessionIds -> SessionRow]
  BY DEF AuthInv, AuthTypeOK, StoreTypeOK
<1>5. CASE sessions[s].row = "stored" /\ ~ sessions[s].revoked
  <2> DEFINE e == [LedgerOfTables[s] EXCEPT !.state = "spent"]
  <2>1. LedgerOfTables'[s] = e
    BY <1>1, <1>4, <1>5 DEF Revoke, LedgerOfTables, LedgerState, Parent, SessionRow
  <2>2. \A t \in SessionIds \ {s} : sessions'[t] = sessions[t] /\ lineage'[t] = lineage[t]
    BY <1>1, <1>4 DEF Revoke
  <2>3. LedgerOfTables' = [LedgerOfTables EXCEPT ![s] = e]
    <3> HIDE DEF e, s, f
    <3>1. QED
      BY <1>1, <2>1, <2>2, OneEntry
  <2>4. LedgerOfTables[s].state = "live"
    BY <1>1, <1>5 DEF LedgerOfTables, LedgerState
  <2>5. QED
    BY <1>1, <1>2, <1>3, <2>3, <2>4 DEF Ledger!Spend
<1>6. CASE sessions[s].row # "stored" \/ sessions[s].revoked
  <2>1. sessions' = sessions
    BY <1>1, <1>4, <1>6 DEF Revoke, SessionRow
  <2>2. LedgerOfTables' = LedgerOfTables
    BY <1>1, <2>1, SameLedger
  <2>3. QED
    BY <1>3, <2>2 DEF Ledger!ledgerVars
<1>7. QED
  BY <1>5, <1>6

(* A refresh that passes its lookup claims the session it presents.        *)
LEMMA LookupClaims ==
  ASSUME AuthInv, NEW r \in Reqs, NEW s \in SessionIds, RefreshLookup(r, s)
  PROVE  Ledger!Claim(r, s)
<1> DEFINE g == [pc |-> "findOwner", user |-> sessions[s].user, from |-> s, new |-> Null]
<1>1. /\ frames[r].pc = "idle" /\ frames' = [frames EXCEPT ![r] = g]
      /\ UNCHANGED <<sessions, lineage>>
  BY DEF RefreshLookup, Start, store
<1>2. g \in Frame
  BY DEF Frame, Stages, AuthInv, AuthTypeOK, StoreTypeOK, SessionRow
<1>3. ClaimOf(g) = s
  BY DEF ClaimOf, Claiming
<1>4. ClaimsOfFrames[r] = Null
  BY <1>1 DEF ClaimsOfFrames
<1>5. AuthTypeOK
  BY DEF AuthInv
<1>6. ClaimsOfFrames' = [ClaimsOfFrames EXCEPT ![r] = s]
  <2> HIDE DEF g
  <2>1. QED
    BY <1>1, <1>2, <1>3, <1>5, OneClaim
<1>7. LedgerOfTables[s].state = "live" /\ ~ LedgerOfTables[s].lapsed
  BY DEF RefreshLookup, FindByRefreshTokenHash, LedgerOfTables, LedgerState
<1>8. LedgerOfTables' = LedgerOfTables
  BY <1>1, SameLedger
<1>9. QED
  BY <1>4, <1>6, <1>7, <1>8 DEF Ledger!Claim

(* A login has no claim before its session exists.                         *)
LEMMA LoginClaimsNothing ==
  ASSUME AuthInv, NEW r \in Reqs,
         LoginRecord(r) \/ \E e \in Emails, p \in Passwords : LoginLookup(r, e, p)
  PROVE  UNCHANGED Ledger!ledgerVars
<1>1. AuthTypeOK /\ frames[r] \in Frame /\ frames[r].from \in SessionIds \cup {Null}
  BY DEF AuthInv, AuthTypeOK, Frame
<1>2. UNCHANGED <<sessions, lineage>>
  BY DEF LoginRecord, LoginLookup, Start, store
<1>3. PICK g \in Frame : /\ frames' = [frames EXCEPT ![r] = g]
                         /\ ClaimOf(g) = ClaimOf(frames[r])
  <2>1. CASE LoginRecord(r)
    <3> DEFINE g == [frames[r] EXCEPT !.pc = "issue"]
    <3>1. frames[r].pc = "recordLogin" /\ frames[r].from = Null
      BY <2>1 DEF LoginRecord, AuthInv, FrameInv, FrameShape
    <3>2. g \in Frame /\ frames' = [frames EXCEPT ![r] = g]
      BY <1>1, <2>1 DEF LoginRecord, Goto, Frame, Stages, AuthTypeOK
    <3>3. ClaimOf(g) = ClaimOf(frames[r])
      BY <1>1, <3>1 DEF ClaimOf, Claiming, Frame
    <3>4. QED
      BY <3>2, <3>3
  <2>2. ASSUME NEW e \in Emails, NEW p \in Passwords, LoginLookup(r, e, p)
        PROVE  \E g \in Frame : /\ frames' = [frames EXCEPT ![r] = g]
                                /\ ClaimOf(g) = ClaimOf(frames[r])
    <3>1. PICK pc \in Stages, u \in UserIds : Start(r, pc, u, Null)
      BY <2>2 DEF LoginLookup, FindByEmail, Stages
    <3> DEFINE g == [pc |-> pc, user |-> u, from |-> Null, new |-> Null]
    <3>2. g \in Frame /\ frames' = [frames EXCEPT ![r] = g]
      BY <3>1 DEF Start, Frame
    <3>3. ClaimOf(g) = Null /\ ClaimOf(frames[r]) = Null
      BY <3>1 DEF Start, ClaimOf, Claiming
    <3>4. QED
      BY <3>2, <3>3
  <2>3. QED
    BY <2>1, <2>2
<1>4. ClaimsOfFrames' = ClaimsOfFrames
  BY <1>1, <1>3, KeptClaim
<1>5. QED
  BY <1>2, <1>4, SameLedger DEF Ledger!ledgerVars

(* A refresh that finds its account keeps its claim, another gives it up.  *)
LEMMA OwnerKeepsClaim ==
  ASSUME AuthInv, NEW r \in Reqs, RefreshOwner(r)
  PROVE  Ledger!Withdraw(r) \/ UNCHANGED Ledger!ledgerVars
<1>1. AuthTypeOK /\ frames[r] \in Frame /\ frames[r].pc = "findOwner"
  BY DEF AuthInv, AuthTypeOK, RefreshOwner
<1>2. UNCHANGED <<sessions, lineage>>
  BY DEF RefreshOwner, store
<1>3. CASE Goto(r, "revoke")
  <2> DEFINE g == [frames[r] EXCEPT !.pc = "revoke"]
  <2>1. g \in Frame /\ frames' = [frames EXCEPT ![r] = g]
    BY <1>1, <1>3 DEF Goto, Frame, Stages, AuthTypeOK
  <2>2. ClaimOf(g) = ClaimOf(frames[r])
    BY <1>1 DEF ClaimOf, Claiming, Frame
  <2> HIDE DEF g
  <2>3. ClaimsOfFrames' = ClaimsOfFrames
    BY <1>1, <2>1, <2>2, KeptClaim
  <2>4. QED
    BY <1>2, <2>3, SameLedger DEF Ledger!ledgerVars
<1>4. CASE Finish(r)
  BY <1>1, <1>2, <1>4, EndOfRequest
<1>5. QED
  BY <1>3, <1>4 DEF RefreshOwner

(* A lapsed entry keeps the rest of itself.                                *)
LEMMA LapsedEntry ==
  ASSUME NEW e \in Ledger!Entry
  PROVE  [e EXCEPT !.lapsed = TRUE] =
            [state |-> e.state, owner |-> e.owner, parent |-> e.parent, lapsed |-> TRUE]
<1> DEFINE x == [e EXCEPT !.lapsed = TRUE]
<1>1. x \in Ledger!Entry
  BY DEF Ledger!Entry
<1>2. x.state = e.state /\ x.owner = e.owner /\ x.parent = e.parent /\ x.lapsed = TRUE
  BY DEF Ledger!Entry
<1> HIDE DEF x
<1>3. x = [state |-> x.state, owner |-> x.owner, parent |-> x.parent, lapsed |-> x.lapsed]
  BY <1>1 DEF Ledger!Entry
<1>4. QED
  BY <1>2, <1>3 DEF x

(* The clock lapses one entry.                                             *)
LEMMA ExpiryLapses ==
  ASSUME AuthInv, NEW s \in SessionIds, Expire(s)
  PROVE  Ledger!Lapse(s)
<1>1. /\ sessions \in [SessionIds -> SessionRow]
      /\ sessions[s].row = "stored"
      /\ sessions' = [sessions EXCEPT ![s].expired = TRUE]
      /\ UNCHANGED <<frames, lineage>>
  BY DEF AuthInv, AuthTypeOK, StoreTypeOK, Expire, SessionExpires
<1> DEFINE e == [LedgerOfTables[s] EXCEPT !.lapsed = TRUE]
<1>2. LedgerOfTables'[s] = e
  <2>1. /\ sessions'[s].row = sessions[s].row
        /\ sessions'[s].user = sessions[s].user
        /\ sessions'[s].revoked = sessions[s].revoked
        /\ sessions'[s].expired = TRUE
    BY <1>1 DEF SessionRow
  <2>2. LedgerState(s)' = LedgerState(s) /\ Parent(s)' = Parent(s)
    BY <1>1, <2>1 DEF LedgerState, Parent
  <2>3. LedgerOfTables'[s] = [state |-> LedgerState(s)', owner |-> sessions'[s].user,
                             parent |-> Parent(s)', lapsed |-> sessions'[s].expired]
    BY DEF LedgerOfTables
  <2>4. LedgerOfTables[s] = [state |-> LedgerState(s), owner |-> sessions[s].user,
                             parent |-> Parent(s), lapsed |-> sessions[s].expired]
    BY DEF LedgerOfTables
  <2>5. LedgerOfTables[s] \in Ledger!Entry
    BY <2>4 DEF Ledger!Entry, LedgerState, Parent, SessionRow,
       AuthInv, AuthTypeOK, StoreTypeOK
  <2>6. e = [state |-> LedgerState(s), owner |-> sessions[s].user,
             parent |-> Parent(s), lapsed |-> TRUE]
    BY <2>4, <2>5, LapsedEntry
  <2>7. QED
    BY <2>1, <2>2, <2>3, <2>6
<1>3. \A t \in SessionIds \ {s} : sessions'[t] = sessions[t] /\ lineage'[t] = lineage[t]
  BY <1>1
<1>4. LedgerOfTables' = [LedgerOfTables EXCEPT ![s] = e]
  <2> HIDE DEF e
  <2>1. QED
    BY <1>2, <1>3, OneEntry
<1>5. LedgerOfTables[s].state \in {"live", "spent"}
  BY <1>1 DEF LedgerOfTables, LedgerState
<1>6. ClaimsOfFrames' = ClaimsOfFrames
  BY <1>1 DEF ClaimsOfFrames
<1>7. QED
  BY <1>4, <1>5, <1>6 DEF Ledger!Lapse

(* A truncation erases the live and the spent entries.                     *)
LEMMA WipeErases ==
  ASSUME AuthInv, Wipe
  PROVE  Ledger!Erase
<1>1. /\ sessions \in [SessionIds -> SessionRow]
      /\ UNCHANGED <<frames, lineage>>
      /\ sessions' = [s \in SessionIds |->
                        IF sessions[s].row = "stored" THEN BlankSession("gone") ELSE sessions[s]]
  BY DEF AuthInv, AuthTypeOK, StoreTypeOK, Wipe, DeleteAllData
<1>2. ASSUME NEW s \in SessionIds
      PROVE  LedgerOfTables'[s] =
                IF LedgerOfTables[s].state \in {"live", "spent"}
                THEN [state |-> "gone", owner |-> Null,
                      parent |-> LedgerOfTables[s].parent, lapsed |-> FALSE]
                ELSE LedgerOfTables[s]
  <2>1. CASE sessions[s].row = "stored"
    <3>1. sessions'[s] = [row |-> "gone", user |-> Null, revoked |-> FALSE, expired |-> FALSE]
      BY <1>1, <2>1 DEF BlankSession
    <3>2. LedgerOfTables[s].state \in {"live", "spent"} /\ LedgerOfTables[s].parent = Parent(s)
      BY <2>1 DEF LedgerOfTables, LedgerState
    <3>3. LedgerState(s)' = "gone" /\ Parent(s)' = Parent(s)
      BY <1>1, <3>1 DEF LedgerState, Parent
    <3>4. LedgerOfTables'[s] = [state |-> LedgerState(s)', owner |-> sessions'[s].user,
                               parent |-> Parent(s)', lapsed |-> sessions'[s].expired]
      BY DEF LedgerOfTables
    <3>5. LedgerOfTables'[s] = [state |-> "gone", owner |-> Null,
                               parent |-> Parent(s), lapsed |-> FALSE]
      BY <3>1, <3>3, <3>4
    <3>6. QED
      BY <3>2, <3>5
  <2>2. CASE sessions[s].row # "stored"
    <3>1. sessions'[s] = sessions[s] /\ lineage'[s] = lineage[s]
      BY <1>1, <2>2
    <3>2. LedgerOfTables'[s] = LedgerOfTables[s]
      BY <3>1 DEF LedgerOfTables, LedgerState, Parent
    <3>3. LedgerOfTables[s].state \notin {"live", "spent"}
      BY <2>2 DEF LedgerOfTables, LedgerState
    <3>4. QED
      BY <3>2, <3>3
  <2>3. QED
    BY <2>1, <2>2
<1>3. LedgerOfTables' = [s \in SessionIds |-> LedgerOfTables'[s]]
  BY DEF LedgerOfTables
<1>4. ClaimsOfFrames' = ClaimsOfFrames
  BY <1>1 DEF ClaimsOfFrames
<1>5. QED
  BY <1>2, <1>3, <1>4 DEF Ledger!Erase

(* Every step of AuthService is a step of the ledger, or none.             *)
LEMMA StepLedger == AuthInv /\ [AuthNext]_authVars => [Ledger!LedgerNext]_(Ledger!ledgerVars)
<1> SUFFICES ASSUME AuthInv, [AuthNext]_authVars
             PROVE  Ledger!LedgerNext \/ UNCHANGED Ledger!ledgerVars
  OBVIOUS
<1>1. AuthTypeOK
  BY DEF AuthInv
<1>2. ASSUME NEW r \in Reqs,
             LoginRecord(r) \/ \E e \in Emails, p \in Passwords : LoginLookup(r, e, p)
      PROVE  UNCHANGED Ledger!ledgerVars
  BY <1>2, LoginClaimsNothing
<1>3. ASSUME NEW r \in Reqs, NEW s \in SessionIds, RefreshLookup(r, s)
      PROVE  Ledger!LedgerNext
  BY <1>3, LookupClaims DEF Ledger!LedgerNext
<1>4. ASSUME NEW r \in Reqs, RefreshOwner(r)
      PROVE  Ledger!LedgerNext \/ UNCHANGED Ledger!ledgerVars
  BY <1>4, OwnerKeepsClaim DEF Ledger!LedgerNext
<1>5. ASSUME NEW r \in Reqs, RefreshRevoke(r)
      PROVE  Ledger!LedgerNext \/ UNCHANGED Ledger!ledgerVars
  BY <1>5, RevokeSpends DEF Ledger!LedgerNext
<1>6. ASSUME NEW r \in Reqs, IssueSession(r)
      PROVE  Ledger!LedgerNext
  BY <1>6, IssueEnters DEF Ledger!LedgerNext
<1>7. ASSUME NEW r \in Reqs, LoginFailed(r) \/ IssueRefused(r) \/ Reply(r) \/ Abandon(r)
      PROVE  Ledger!LedgerNext \/ UNCHANGED Ledger!ledgerVars
  <2>1. Finish(r) /\ UNCHANGED <<sessions, lineage>>
    BY <1>7 DEF LoginFailed, IssueRefused, Reply, Abandon, store
  <2>2. QED
    BY <1>1, <2>1, EndOfRequest DEF Ledger!LedgerNext
<1>8. ASSUME NEW s \in SessionIds, Expire(s)
      PROVE  Ledger!LedgerNext
  BY <1>8, ExpiryLapses DEF Ledger!LedgerNext
<1>9. CASE Wipe
  BY <1>9, WipeErases DEF Ledger!LedgerNext
<1>10. ASSUME UNCHANGED <<sessions, frames, lineage>>
       PROVE  UNCHANGED Ledger!ledgerVars
  <2>1. ClaimsOfFrames' = ClaimsOfFrames
    BY <1>10 DEF ClaimsOfFrames
  <2>2. QED
    BY <1>10, <2>1, SameLedger DEF Ledger!ledgerVars
<1>11. ASSUME NEW u \in UserIds,
              SoftDelete(u) \/ \E status \in OperatorStatuses : SetStatus(u, status)
       PROVE  UNCHANGED <<sessions, frames, lineage>>
  BY <1>11 DEF SoftDelete, OperatorSoftDelete, SetStatus, OperatorSetStatus
<1>12. CASE UNCHANGED authVars
  BY <1>10, <1>12 DEF authVars
<1>13. QED
  BY <1>2, <1>3, <1>4, <1>5, <1>6, <1>7, <1>8, <1>9, <1>10, <1>11, <1>12
  DEF AuthNext, Arrive, Serve, Environment

(* Login and RefreshToken (auth_service.go:65-156), with every race and    *)
(* every failure, do to refresh tokens what SessionLedger allows.          *)
THEOREM LedgerImplemented == AuthSpec => ImplementsLedger
<1>1. AuthInit => Ledger!LedgerInit
  BY InitLedger
<1>2. AuthInv /\ [AuthNext]_authVars => [Ledger!LedgerNext]_(Ledger!ledgerVars)
  BY StepLedger
<1>3. QED
  BY <1>1, <1>2, Invariance, PTL DEF AuthSpec, ImplementsLedger, Ledger!LedgerSpec
=============================================================================
