--------------------------- MODULE IdentityProofs ---------------------------
(***************************************************************************)
(* Theorems about Identity: the two services over one store, for any       *)
(* number of accounts, sessions, tokens and requests in flight.  What each *)
(* service guarantees by itself holds next to the other one, too.          *)
(***************************************************************************)
EXTENDS Identity, AuthServiceProofs, AccountServiceProofs

-----------------------------------------------------------------------------
(* The steps of each service as the other one sees them.                   *)

AuthMove ==
    /\ (\E r \in Reqs : Arrive(r) \/ Serve(r)) \/ \E s \in SessionIds : Expire(s)
    /\ AuthStep

AccountMove == AccountNext /\ AccountStep

(* Every step is one of AuthService or one of AccountService.              *)
LEMMA EitherService ==
  ASSUME [IdentityNext]_identityVars
  PROVE  AuthMove \/ AccountMove \/ UNCHANGED identityVars
  BY DEF IdentityNext, HandleAuth, HandleCreate, HandleReset, AuthMove, AccountMove, AccountNext

(* A step of AuthService is one in AuthService.                            *)
LEMMA AuthMoveNext ==
  ASSUME AuthMove
  PROVE  AuthNext
  BY DEF AuthMove, AuthNext, Environment

(* To AccountService it is a step that touches none of what it looks at:   *)
(* login and refresh change sessions and the counter of failed attempts.   *)
LEMMA AuthMoveRows ==
  ASSUME AuthInv, AuthMove
  PROVE  /\ \A u \in UserIds :
              /\ users'[u].row = users[u].row /\ users'[u].status = users[u].status
              /\ users'[u].email = users[u].email /\ users'[u].pwd = users[u].pwd
              /\ users'[u].hasRole = users[u].hasRole
         /\ tokens' = tokens
<1>1. ASSUME NEW s \in SessionIds, Expire(s)
      PROVE  UNCHANGED <<users, tokens>>
  BY <1>1 DEF Expire, SessionExpires
<1>2. QED
  BY <1>1, RequestKeepsRows DEF AuthMove

(* To AuthService, AccountService leaves sessions and rows where they are, *)
(* unless it truncates the tables, and moves rows only forward.            *)
Persist == \A x \in UserIds : Stored(x) => Stored(x)'

(* The steps of CreateUser, ...                                            *)
LEMMA CreateMoveRows ==
  ASSUME AccountInv, NEW c \in Creators,
         \/ \E e \in Emails, roleKnown \in BOOLEAN : CreateLookup(c, e, roleKnown)
         \/ ServeCreate(c)
         \/ CreateAbandon(c)
  PROVE  UNCHANGED sessions /\ Persist /\ Forward
<1> USE DEF AccountInv, AccountTypeOK, StoreTypeOK
<1>1. ASSUME UNCHANGED store
      PROVE  UNCHANGED sessions /\ Persist /\ Forward
  BY <1>1, UntouchedStore DEF store, Persist, Stored
<1>2. ASSUME CreateInsert(c)
      PROVE  UNCHANGED sessions /\ Persist /\ Forward
  <2>1. PICK u \in FreshUsers : CreateUser(u, creates[c].email)
    BY <1>2 DEF CreateInsert
  <2>2. creates[c].email \in Emails \cup {Null} /\ UNCHANGED <<sessions, tokens, delivered>>
    BY <1>2 DEF CreateInsert, CreateFrame, resetVars
  <2>3. Forward
    BY <2>1, <2>2, AccountInserted
  <2>4. Persist
    BY <2>1 DEF CreateUser, FreshUsers, Persist, Stored
  <2>5. QED
    BY <2>2, <2>3, <2>4
<1>3. ASSUME CreateAssignRole(c)
      PROVE  UNCHANGED sessions /\ Persist /\ Forward
  <2>1. creates[c].user \in UserIds /\ AssignRole(creates[c].user) /\ UNCHANGED <<sessions, tokens>>
    BY <1>3 DEF CreateAssignRole, CreateInv
  <2>2. "ACTIVE" \in UserStatus
    BY DEF UserStatus
  <2>3. Forward
    BY <2>1, <2>2, AccountStatements
  <2>4. Persist
    BY <2>1 DEF AssignRole, Persist, Stored, UserRow
  <2>5. QED
    BY <2>1, <2>3, <2>4
<1>4. ASSUME CreateMint(c)
      PROVE  UNCHANGED sessions /\ Persist /\ Forward
  <2>1. UNCHANGED <<users, sessions, delivered>>
    BY <1>4 DEF CreateMint, resetVars
  <2>2. ASSUME NEW t \in FreshTokens, CreateToken(t, creates[c].user)
        PROVE  Forward
    <3>1. /\ creates[c].user \in UserIds /\ Stored(creates[c].user)
          /\ users[creates[c].user].hasRole
      BY <1>4, <2>2 DEF CreateMint, CreateInv, CreateToken
    <3>2. QED
      BY <2>1, <2>2, <3>1, TokenInserted
  <2>3. ASSUME UNCHANGED tokens
        PROVE  Forward
    BY <2>1, <2>3, UntouchedStore
  <2>4. Forward
    BY <1>4, <2>2, <2>3 DEF CreateMint
  <2>5. QED
    BY <2>1, <2>4 DEF Persist, Stored
<1>5. QED
  BY <1>1, <1>2, <1>3, <1>4 DEF ServeCreate, CreateLookup, CreateConflict, CreateRoleRefused,
     CreateAudit, CreateAbandon

(* ... of ResetPass, ...                                                   *)
LEMMA ResetMoveRows ==
  ASSUME AccountInv, NEW r \in Resets,
         \/ \E t \in TokenIds, p \in Passwords \cup {Null} : ResetLookup(r, t, p)
         \/ ServeReset(r)
         \/ ResetAbandon(r)
  PROVE  UNCHANGED sessions /\ Persist /\ Forward
<1> USE DEF AccountInv, AccountTypeOK, StoreTypeOK
<1>1. ASSUME UNCHANGED store
      PROVE  UNCHANGED sessions /\ Persist /\ Forward
  BY <1>1, UntouchedStore DEF store, Persist, Stored
<1>2. ASSUME ResetMarkUsed(r)
      PROVE  UNCHANGED sessions /\ Persist /\ Forward
  <2>1. /\ resets[r].token \in TokenIds /\ MarkUsed(resets[r].token)
        /\ UNCHANGED <<users, sessions>>
    BY <1>2 DEF ResetMarkUsed, ResetInv, ResetHasToken
  <2>2. Forward
    BY <2>1, TokenStatements
  <2>3. QED
    BY <2>1, <2>2 DEF Persist, Stored
<1>3. ASSUME ResetStatus(r)
      PROVE  UNCHANGED sessions /\ Persist /\ Forward
  <2>1. /\ resets[r].user \in UserIds /\ UpdateStatus(resets[r].user, "ACTIVE")
        /\ UNCHANGED <<sessions, tokens>>
    BY <1>3 DEF ResetStatus, ResetInv, ResetHasToken
  <2>2. "ACTIVE" \in UserStatus
    BY DEF UserStatus
  <2>3. Forward
    BY <2>1, <2>2, AccountStatements
  <2>4. Persist
    BY <2>1 DEF UpdateStatus, UpdateUser, Persist, Stored, UserRow
  <2>5. QED
    BY <2>1, <2>3, <2>4
<1>4. ASSUME ResetPassword(r)
      PROVE  UNCHANGED sessions /\ Persist /\ Forward
  <2>1. /\ resets[r].user \in UserIds /\ resets[r].pc = "setPassword"
        /\ UpdatePasswordHash(resets[r].user, resets[r].pwd)
        /\ UNCHANGED <<sessions, tokens, delivered>>
    BY <1>4 DEF ResetPassword, ResetInv, ResetHasToken
  <2>2. Forward
    BY <2>1, PasswordStored
  <2>3. Persist
    BY <2>1 DEF UpdatePasswordHash, UpdateUser, Persist, Stored, UserRow
  <2>4. QED
    BY <2>1, <2>2, <2>3
<1>5. QED
  BY <1>1, <1>2, <1>3, <1>4 DEF ServeReset, ResetLookup, ResetFindUser, ResetValidate, ResetAbandon

(* ... and of the operator and the clock.                                  *)
LEMMA WorldMoveRows ==
  ASSUME AccountInv, (\E u \in UserIds : OperatorMint(u)) \/ OperatorOrClock
  PROVE  UNCHANGED sessions /\ Persist /\ Forward
<1> USE DEF AccountInv, AccountTypeOK, StoreTypeOK
<1>1. ASSUME NEW u \in UserIds, OperatorMint(u)
      PROVE  UNCHANGED sessions /\ Persist /\ Forward
  <2>1. PICK t \in FreshTokens : CreateToken(t, u) /\ delivered' = delivered \cup {t}
    BY <1>1 DEF OperatorMint
  <2>2. UNCHANGED <<users, sessions>>
    BY <1>1 DEF OperatorMint
  <2>3. Forward
    BY <2>1, <2>2, TokenInserted
  <2>4. QED
    BY <2>2, <2>3 DEF Persist, Stored
<1>2. ASSUME NEW u \in UserIds,
             OperatorSoftDelete(u) \/ \E status \in OperatorStatuses : OperatorSetStatus(u, status)
      PROVE  UNCHANGED sessions /\ Persist /\ Forward
  <2>1. PICK status \in UserStatus : OperatorSoftDelete(u) \/ OperatorSetStatus(u, status)
    BY <1>2, OperatorAssumption DEF UserStatus
  <2>2. UNCHANGED <<sessions, tokens>>
    BY <2>1 DEF OperatorSoftDelete, OperatorSetStatus
  <2>3. Forward
    BY <2>1, <2>2, AccountStatements
  <2>4. Persist
    BY <2>1 DEF OperatorSoftDelete, OperatorSetStatus, Persist, Stored, UserRow
  <2>5. QED
    BY <2>2, <2>3, <2>4
<1>3. ASSUME NEW t \in TokenIds, TokenExpires(t) \/ OperatorRevokeToken(t)
      PROVE  UNCHANGED sessions /\ Persist /\ Forward
  <2>1. UNCHANGED <<users, sessions>>
    BY <1>3 DEF TokenExpires, OperatorRevokeToken
  <2>2. Forward
    BY <1>3, <2>1, TokenStatements
  <2>3. QED
    BY <2>1, <2>2 DEF Persist, Stored
<1>4. QED
  BY <1>1, <1>2, <1>3 DEF OperatorOrClock

(* So sessions stay, with their accounts, or they are truncated.           *)
LEMMA AccountMoveRows ==
  ASSUME AccountInv, AccountNext
  PROVE  /\ Forward
         /\ WipeAccounts \/ (UNCHANGED sessions /\ Persist)
<1>1. CASE WipeAccounts
  BY <1>1, Truncation DEF WipeAccounts, AccountInv, AccountTypeOK
<1>2. QED
  BY <1>1, CreateMoveRows, ResetMoveRows, WorldMoveRows DEF AccountNext

-----------------------------------------------------------------------------
(* Each service keeps the invariant of the other one.                      *)

(* What AuthService relies on survives rows that move on: accounts that    *)
(* stay or appear, or that are truncated together with every session.      *)
LEMMA RowsMoveOn ==
  ASSUME AuthInv, AuthTypeOK', UNCHANGED <<frames, lineage>>,
         \/ /\ sessions' = sessions
            /\ \A u \in UserIds : Stored(u) => Stored(u)'
         \/ \A s \in SessionIds :
               /\ sessions'[s].row = IF sessions[s].row = "stored" THEN "gone" ELSE sessions[s].row
               /\ sessions[s].row = "stored" =>
                     \A u \in UserIds : Stored(u) => users'[u].row = "gone",
         \A u \in UserIds : users[u].row = "gone" => users'[u].row = "gone",
         \A r \in Reqs : sawActive[r] => sawActive'[r],
         \A r \in Reqs :
            Busy(r) /\ users'[frames[r].user].status = "ACTIVE" => sawActive'[r]
  PROVE  AuthInv'
<1> USE DEF AuthInv, AuthTypeOK
<1>1. ForeignKey' /\ ParentsRevoked' /\ RotatedParentRevoked' /\ OnePairPerRequest'
  <2>1. OnePairPerRequest'
    BY DEF TableInv, OnePairPerRequest, Parent
  <2>2. CASE sessions' = sessions /\ \A u \in UserIds : Stored(u) => Stored(u)'
    <3>1. ForeignKey'
      <4> SUFFICES ASSUME NEW s \in SessionIds, sessions[s].row = "stored"
                   PROVE  sessions[s].user \in UserIds /\ Stored(sessions[s].user)'
        BY <2>2 DEF ForeignKey
      <4>1. QED
        BY <2>2 DEF TableInv, ForeignKey
    <3>2. ParentsRevoked' /\ RotatedParentRevoked'
      BY <2>2 DEF TableInv, ParentsRevoked, RotatedParentRevoked, Parent
    <3>3. QED
      BY <2>1, <3>1, <3>2
  <2>3. CASE \A s \in SessionIds :
               sessions'[s].row = IF sessions[s].row = "stored" THEN "gone" ELSE sessions[s].row
    <3>1. \A s \in SessionIds : sessions'[s].row # "stored"
      BY <2>3
    <3>2. ForeignKey' /\ RotatedParentRevoked'
      BY <3>1 DEF ForeignKey, RotatedParentRevoked
    <3>3. ParentsRevoked'
      BY <2>3, <3>1 DEF TableInv, ParentsRevoked, Parent
    <3>4. QED
      BY <2>1, <3>2, <3>3
  <2>4. QED
    BY <2>2, <2>3
<1>2. ASSUME NEW q \in Reqs
      PROVE  FrameInv(q)'
  <2>1. /\ FrameInv(q) /\ frames'[q] = frames[q]
        /\ frames[q].from \in SessionIds \cup {Null} /\ frames[q].pc \in Stages
    BY DEF Frame
  <2>2. FrameShape(q)' /\ SlotHasNoPair(q)'
    BY <2>1 DEF FrameInv, FrameShape, SlotHasNoPair, Parent
  <2>3. frames[q].from # Null => frames[q].user \in UserIds /\ frames[q].from \in SessionIds
    BY <2>1 DEF FrameInv, FrameShape, Stages
  <2>4. FrameSession(q)'
    <3> SUFFICES ASSUME frames[q].from # Null
                 PROVE  \/ /\ sessions'[frames[q].from].row = "stored"
                           /\ sessions'[frames[q].from].user = frames[q].user
                        \/ /\ sessions'[frames[q].from].row = "gone"
                           /\ users'[frames[q].user].row = "gone"
      BY <2>1 DEF FrameSession
    <3>1. CASE /\ sessions[frames[q].from].row = "stored"
               /\ sessions[frames[q].from].user = frames[q].user
      BY <2>3, <3>1 DEF TableInv, ForeignKey
    <3>2. CASE /\ sessions[frames[q].from].row = "gone"
               /\ users[frames[q].user].row = "gone"
      BY <2>3, <3>2
    <3>3. QED
      BY <2>1, <3>1, <3>2 DEF FrameInv, FrameSession
  <2>5. IssueAfterRevoke(q)'
    BY <2>1, <2>3 DEF FrameInv, IssueAfterRevoke
  <2>6. ActiveSeen(q)'
    <3>1. /\ frames[q].pc \in {"countFailure", "recordLogin", "revoke", "issue", "reply"}
                => sawActive[q]
          /\ sawActive[q] => sawActive'[q]
          /\ frames[q].pc # "idle" /\ users'[frames[q].user].status = "ACTIVE" => sawActive'[q]
      BY <2>1 DEF FrameInv, ActiveSeen, Busy
    <3>2. QED
      BY <2>1, <3>1 DEF ActiveSeen
  <2>7. QED
    BY <2>2, <2>4, <2>5, <2>6 DEF FrameInv
<1>3. QED
  BY <1>1, <1>2 DEF TableInv

(* So AccountService keeps the invariant of AuthService ...                *)
LEMMA AccountKeepsAuth ==
  ASSUME AuthInv, AccountInv, AccountTypeOK', AccountMove
  PROVE  AuthInv'
<1>1. /\ UNCHANGED <<frames, held, lineage>>
      /\ sawActive' = [r \in Reqs |->
                         sawActive[r] \/ (Busy(r) /\ users'[frames[r].user].status = "ACTIVE")]
  BY DEF AccountMove, AccountStep, authLocals
<1>2. AuthTypeOK'
  BY <1>1 DEF AuthInv, AuthTypeOK, AccountTypeOK
<1>3. ASSUME NEW r \in Reqs
      PROVE  /\ sawActive[r] => sawActive'[r]
             /\ Busy(r) /\ users'[frames[r].user].status = "ACTIVE" => sawActive'[r]
  BY <1>1, Zenon
<1>4. CASE WipeAccounts
  <2>1. /\ \A u \in UserIds : users'[u] = IF Stored(u) THEN BlankUser("gone") ELSE users[u]
        /\ \A s \in SessionIds :
             sessions'[s] = IF sessions[s].row = "stored" THEN BlankSession("gone") ELSE sessions[s]
    BY <1>4 DEF WipeAccounts, DeleteAllData
  <2>2. \A u \in UserIds : /\ users[u].row = "gone" => users'[u].row = "gone"
                           /\ Stored(u) => users'[u].row = "gone"
    BY <2>1 DEF BlankUser
  <2>3. \A s \in SessionIds :
           sessions'[s].row = IF sessions[s].row = "stored" THEN "gone" ELSE sessions[s].row
    BY <2>1 DEF BlankSession
  <2>4. QED
    BY <1>1, <1>2, <1>3, <2>2, <2>3, RowsMoveOn
<1>5. CASE ~ WipeAccounts
  <2>1. sessions' = sessions /\ Persist /\ Forward
    BY <1>5, AccountMoveRows DEF AccountMove
  <2>2. \A u \in UserIds : users'[u].row \in {"unborn", "live", "softDeleted", "gone"}
    BY DEF AccountTypeOK, StoreTypeOK, UserRow
  <2>3. \A u \in UserIds : users[u].row = "gone" => users'[u].row = "gone"
    BY <2>1, <2>2 DEF Forward, Stored
  <2>4. \A u \in UserIds : Stored(u) => Stored(u)'
    BY <2>1 DEF Persist
  <2>5. QED
    BY <1>1, <1>2, <1>3, <2>1, <2>3, <2>4, RowsMoveOn
<1>6. QED
  BY <1>4, <1>5

(* ... and AuthService the one of AccountService.                          *)
LEMMA AuthKeepsAccount ==
  ASSUME AuthInv, AccountInv, AuthTypeOK', AuthMove
  PROVE  AccountInv'
<1>1. UNCHANGED <<creates, resets, audited, delivered, openAtStart, redeemers>>
  BY DEF AuthMove, AuthStep, accountLocals
<1>2. /\ \A u \in UserIds :
           /\ users'[u].row = users[u].row /\ users'[u].status = users[u].status
           /\ users'[u].email = users[u].email /\ users'[u].pwd = users[u].pwd
           /\ users'[u].hasRole = users[u].hasRole
      /\ tokens' = tokens
  BY AuthMoveRows
<1>3. AccountTypeOK'
  BY <1>1 DEF AccountInv, AccountTypeOK, AuthTypeOK
<1>4. \A u \in UserIds : Stored(u)' = Stored(u)
  BY <1>2 DEF Stored
<1>5. Forward
  BY <1>2, <1>4 DEF Forward, Open
<1>6. Settled
  <2>1. \A u \in UserIds : Stored(u) => users[u].row # "unborn"
    BY DEF Stored
  <2>2. QED
    BY <1>2, <1>4, <2>1 DEF Settled
<1>7. AccountTables'
  BY <1>1, <1>5, <1>6, TablesKept DEF AccountInv
<1>8. QED
  BY <1>1, <1>3, <1>5, <1>7, OthersKept

(* All accounts start unborn and every slot idle.                          *)
LEMMA IdentityInitInv == IdentityInit => IdentityInv
<1> SUFFICES ASSUME IdentityInit PROVE IdentityInv
  OBVIOUS
<1>1. AccountInv
  BY AccountInitInv DEF IdentityInit
<1>2. Idle \in Frame /\ NoLineage \in [parent : SessionIds \cup {Null}, by : Reqs \cup {Null}]
  BY DEF Idle, Frame, Stages, NoLineage
<1>3. AuthTypeOK
  BY <1>1, <1>2 DEF IdentityInit, AuthTypeOK, AccountInv, AccountTypeOK
<1>4. \A r \in Reqs : FrameInv(r)
  BY DEF IdentityInit, Idle, FrameInv, FrameShape, FrameSession, IssueAfterRevoke, SlotHasNoPair,
     ActiveSeen
<1>5. TableInv /\ SessionNeedsToken
  BY DEF IdentityInit, AccountInit, BlankSession, NoLineage, TableInv, ForeignKey, ParentsRevoked,
     RotatedParentRevoked, OnePairPerRequest, Parent, SessionNeedsToken
<1>6. unsettled \subseteq UserIds /\ sawUsable \in [Reqs -> BOOLEAN]
  BY DEF IdentityInit
<1>7. \A r \in Reqs : RequestRedeemed(r) /\ RequestUsable(r)
  BY DEF IdentityInit, Idle, RequestRedeemed, RequestUsable
<1>8. QED
  BY <1>1, <1>3, <1>4, <1>5, <1>6, <1>7 DEF IdentityInv, AuthInv

(* The history variables keep their types.                                 *)
LEMMA ObserveType ==
  ASSUME unsettled \subseteq UserIds, Observe
  PROVE  unsettled' \subseteq UserIds /\ sawUsable' \in [Reqs -> BOOLEAN]
<1>1. unsettled' \subseteq UserIds
  BY DEF Observe
<1>2. sawUsable' \in [Reqs -> BOOLEAN]
  BY Zenon DEF Observe
<1>3. QED
  BY <1>1, <1>2

(* A redeemed token stays one while its account stays.                     *)
LEMMA RedeemedStays ==
  ASSUME Forward, NEW u \in UserIds, Redeemed(u), Stored(u), Stored(u)'
  PROVE  Redeemed(u)'
<1>1. PICK t \in TokenIds : tokens[t].row = "stored" /\ tokens[t].user = u /\ tokens[t].used
  BY DEF Redeemed
<1>2. tokens'[t].row = "stored"
  BY <1>1 DEF Forward
<1>3. QED
  BY <1>1, <1>2 DEF Forward, Redeemed

-----------------------------------------------------------------------------
(* What each service knows of the other one: steps of AccountService.      *)

LEMMA AccountKeepsRequests ==
  ASSUME IdentityInv, AccountMove, NEW r \in Reqs
  PROVE  RequestRedeemed(r)' /\ RequestUsable(r)'
<1>1. frames' = frames /\ Observe /\ Forward
  BY AccountMoveRows DEF AccountMove, AccountStep, authLocals, IdentityInv
<1>2. frames[r].pc # "idle" => frames[r].user \in UserIds
  BY DEF IdentityInv, AuthInv, FrameInv, FrameShape
<1>3. RequestRedeemed(r)'
  <2> SUFFICES ASSUME frames[r].pc \in {"recordLogin", "findOwner", "revoke", "issue"}
               PROVE  /\ users'[frames[r].user].row # "unborn"
                      /\ Stored(frames[r].user)' => Redeemed(frames[r].user)'
    BY <1>1 DEF RequestRedeemed, Stored, Redeemed
  <2>1. PICK u \in UserIds : u = frames[r].user
    BY <1>2
  <2>2. users[u].row # "unborn" /\ (Stored(u) => Redeemed(u))
    BY <2>1 DEF IdentityInv, RequestRedeemed
  <2>3. users'[u].row # "unborn" /\ (Stored(u)' => Stored(u))
    BY <1>1, <2>2 DEF Forward
  <2>4. Stored(u)' => Redeemed(u)'
    BY <1>1, <2>2, <2>3, RedeemedStays
  <2>5. QED
    BY <1>1, <2>1, <2>3, <2>4 DEF Stored, Redeemed
<1>4. RequestUsable(r)'
  <2> SUFFICES ASSUME frames[r].pc \in {"countFailure", "recordLogin", "revoke", "issue"}
               PROVE  sawUsable'[r]
    BY <1>1 DEF RequestUsable
  <2>1. Busy(r) /\ Busy(r)' /\ sawUsable[r]
    BY <1>1 DEF Busy, IdentityInv, RequestUsable
  <2>2. QED
    BY <1>1, <2>1, Zenon DEF Observe
<1>5. QED
  BY <1>3, <1>4

LEMMA AccountKeepsSessions ==
  ASSUME IdentityInv, AccountMove
  PROVE  SessionNeedsToken'
<1> SUFFICES ASSUME NEW s \in SessionIds, sessions'[s].row = "stored"
             PROVE  Redeemed(sessions[s].user)'
  BY DEF SessionNeedsToken, Redeemed
<1>1. Forward /\ (WipeAccounts \/ (UNCHANGED sessions /\ Persist))
  BY AccountMoveRows DEF AccountMove, IdentityInv
<1>2. ~ WipeAccounts
  BY DEF WipeAccounts, DeleteAllData, BlankSession
<1>3. sessions'[s] = sessions[s]
  BY <1>1, <1>2
<1>4. PICK u \in UserIds : u = sessions[s].user /\ Stored(u) /\ Redeemed(u)
  BY <1>3 DEF IdentityInv, AuthInv, TableInv, ForeignKey, SessionNeedsToken
<1>5. Stored(u)'
  BY <1>1, <1>2, <1>4 DEF Persist, Stored
<1>6. QED
  BY <1>1, <1>3, <1>4, <1>5, RedeemedStays DEF Redeemed

-----------------------------------------------------------------------------
(* ... and steps of AuthService.                                           *)

LEMMA AuthKeepsRedeemed ==
  ASSUME AuthInv, AuthMove
  PROVE  \A u : (Redeemed(u)' <=> Redeemed(u))
  BY AuthMoveRows DEF Redeemed

(* Login compares with the password, which is nobody's before a token is   *)
(* consumed; RefreshToken reads a session, which needs one, too.           *)
LEMMA RequestIsRedeemed ==
  ASSUME IdentityInv, NEW r \in Reqs, Arrive(r) \/ Serve(r),
         frames'[r].pc \in {"recordLogin", "findOwner", "revoke", "issue"}
  PROVE  /\ frames'[r].user \in UserIds
         /\ users[frames'[r].user].row # "unborn"
         /\ Stored(frames'[r].user) => Redeemed(frames'[r].user)
<1> USE DEF IdentityInv, AuthInv, AuthTypeOK, StoreTypeOK
<1>1. ASSUME NEW e \in Emails, NEW p \in Passwords, LoginLookup(r, e, p)
      PROVE  /\ frames'[r].user \in UserIds
             /\ users[frames'[r].user].row # "unborn"
             /\ Redeemed(frames'[r].user)
  <2>1. PICK u \in FindByEmail(e) :
          Start(r, IF users[u].pwd = p THEN "recordLogin" ELSE "countFailure", u, Null)
    BY <1>1 DEF LoginLookup
  <2>2. u \in UserIds /\ Stored(u) /\ users[u].row = "live"
    BY DEF FindByEmail, Visible, Stored
  <2>3. frames'[r].user = u /\ users[u].pwd = p
    BY <2>1 DEF Start
  <2>4. users[u].pwd # Placeholder
    BY <2>3, PlaceholderIsFresh
  <2>5. Redeemed(u)
    BY <2>2, <2>4 DEF AccountInv, AccountTables, PasswordNeedsToken, Redeemed
  <2>6. QED
    BY <2>2, <2>3, <2>5
<1>2. ASSUME NEW s \in SessionIds, RefreshLookup(r, s)
      PROVE  /\ frames'[r].user \in UserIds
             /\ users[frames'[r].user].row # "unborn"
             /\ Redeemed(frames'[r].user)
  <2>1. sessions[s].row = "stored" /\ Start(r, "findOwner", sessions[s].user, s)
    BY <1>2 DEF RefreshLookup, FindByRefreshTokenHash
  <2>2. frames'[r].user = sessions[s].user
    BY <2>1 DEF Start
  <2>3. sessions[s].user \in UserIds /\ Stored(sessions[s].user) /\ Redeemed(sessions[s].user)
    BY <2>1 DEF TableInv, ForeignKey, SessionNeedsToken
  <2>4. QED
    BY <2>2, <2>3 DEF Stored
<1>3. ASSUME Serve(r)
      PROVE  /\ frames[r].pc \in {"recordLogin", "findOwner", "revoke", "issue"}
             /\ frames'[r].user = frames[r].user
  BY <1>3 DEF Serve, LoginFailed, LoginRecord, RefreshOwner, RefreshRevoke, IssueSession,
     IssueRefused, Reply, Goto, Finish, Idle, Frame
<1>4. CASE Serve(r)
  BY <1>3, <1>4 DEF RequestRedeemed, FrameInv, FrameShape
<1>5. QED
  BY <1>1, <1>2, <1>4 DEF Arrive

LEMMA AuthKeepsRequests ==
  ASSUME IdentityInv, AuthMove, NEW q \in Reqs
  PROVE  RequestRedeemed(q)' /\ RequestUsable(q)'
<1>1. /\ \A u \in UserIds : users'[u].row = users[u].row /\ users'[u].status = users[u].status
      /\ Observe
  BY AuthMoveRows DEF AuthMove, AuthStep, IdentityInv
<1>2. frames[q].pc # "idle" => frames[q].user \in UserIds
  BY DEF IdentityInv, AuthInv, FrameInv, FrameShape
<1>3. frames'[q] = frames[q] \/ Arrive(q) \/ Serve(q)
  BY RequestKeepsRows DEF AuthMove, Expire, IdentityInv
<1>4. RequestRedeemed(q)'
  <2> SUFFICES ASSUME frames'[q].pc \in {"recordLogin", "findOwner", "revoke", "issue"}
               PROVE  /\ users'[frames'[q].user].row # "unborn"
                      /\ Stored(frames[q].user)' => Redeemed(frames[q].user)'
    BY DEF RequestRedeemed
  <2>1. PICK u \in UserIds : u = frames'[q].user /\ users[u].row # "unborn"
                             /\ (Stored(u) => Redeemed(u))
    BY <1>2, <1>3, RequestIsRedeemed DEF IdentityInv, RequestRedeemed
  <2>2. Stored(u)' => Redeemed(u)'
    BY <1>1, <2>1, AuthKeepsRedeemed DEF Stored, IdentityInv
  <2>3. QED
    BY <1>1, <2>1, <2>2 DEF Stored, Redeemed
<1>5. RequestUsable(q)'
  <2> SUFFICES ASSUME frames'[q].pc \in {"countFailure", "recordLogin", "revoke", "issue"}
               PROVE  sawUsable'[q]
    BY DEF RequestUsable
  <2>1. Busy(q)'
    BY DEF Busy
  <2>2. \/ frames'[q].user \in UserIds /\ Active(frames'[q].user)
        \/ frames[q].pc \in {"countFailure", "recordLogin", "revoke", "issue"}
    BY <1>3, RequestPassesCheck DEF IdentityInv
  <2>3. CASE frames'[q].user \in UserIds /\ Active(frames'[q].user)
    <3>1. Active(frames[q].user)'
      BY <1>1, <2>3 DEF Active, Visible, CanLogin
    <3>2. QED
      BY <1>1, <2>1, <3>1, Zenon DEF Observe
  <2>4. CASE frames[q].pc \in {"countFailure", "recordLogin", "revoke", "issue"}
    <3>1. Busy(q) /\ sawUsable[q]
      BY <2>4 DEF Busy, IdentityInv, RequestUsable
    <3>2. QED
      BY <1>1, <2>1, <3>1, Zenon DEF Observe
  <2>5. QED
    BY <2>2, <2>3, <2>4
<1>6. QED
  BY <1>4, <1>5

(* A session is inserted for an account with a redeemed token, or it was   *)
(* there before.                                                           *)
LEMMA AuthKeepsSessions ==
  ASSUME IdentityInv, AuthMove, AuthInv'
  PROVE  SessionNeedsToken'
<1> SUFFICES ASSUME NEW s \in SessionIds, sessions'[s].row = "stored"
             PROVE  Redeemed(sessions[s].user)'
  BY DEF SessionNeedsToken, Redeemed
<1> USE DEF IdentityInv
<1>1. \/ sessions[s].row = "unborn"
      \/ sessions[s].row = "stored" /\ sessions'[s].user = sessions[s].user
  <2> USE DEF AuthInv, AuthTypeOK, StoreTypeOK, SessionRow
  <2>1. ASSUME NEW t \in SessionIds, Revoke(t) \/ SessionExpires(t)
        PROVE  sessions'[s].row = sessions[s].row /\ sessions'[s].user = sessions[s].user
    BY <2>1 DEF Revoke, SessionExpires
  <2>2. ASSUME NEW r \in Reqs, RefreshRevoke(r)
        PROVE  frames[r].from \in SessionIds /\ Revoke(frames[r].from)
    BY <2>2 DEF RefreshRevoke, FrameInv, FrameShape, Frame
  <2>3. ASSUME NEW r \in Reqs, IssueSession(r)
        PROVE  sessions[s].row = "unborn" \/ sessions'[s] = sessions[s]
    BY <2>3 DEF IssueSession, CreateSession, FreshSessions
  <2>4. ASSUME NEW r \in Reqs, Arrive(r) \/ Serve(r), ~ RefreshRevoke(r), ~ IssueSession(r)
        PROVE  sessions' = sessions
    BY <2>4 DEF Arrive, Serve, LoginLookup, LoginFailed, LoginRecord, RefreshLookup, RefreshOwner,
       IssueRefused, Reply, Start, store
  <2>5. QED
    BY <2>1, <2>2, <2>3, <2>4 DEF AuthMove, Expire
<1>2. Redeemed(sessions'[s].user)
  <2>1. CASE sessions[s].row = "unborn"
    <3>1. PICK r \in Reqs : frames[r].user = sessions'[s].user /\ frames[r].pc = "issue"
      BY <2>1, AuthMoveNext, IssuedByRequest
    <3>2. PICK u \in UserIds : u = sessions'[s].user /\ Stored(u)'
      BY DEF AuthInv, TableInv, ForeignKey, Stored
    <3>3. Stored(u)
      BY <3>2, AuthMoveRows DEF Stored
    <3>4. QED
      BY <3>1, <3>2, <3>3 DEF RequestRedeemed
  <2>2. QED
    BY <1>1, <2>1 DEF SessionNeedsToken
<1>3. QED
  BY <1>2, AuthKeepsRedeemed DEF Redeemed

-----------------------------------------------------------------------------
(* The invariant.                                                          *)

LEMMA IdentityStepInv == IdentityInv /\ [IdentityNext]_identityVars => IdentityInv'
<1> SUFFICES ASSUME IdentityInv, [IdentityNext]_identityVars
             PROVE  IdentityInv'
  OBVIOUS
<1>0. AuthInv /\ AccountInv
  BY DEF IdentityInv
<1>1. CASE AuthMove
  <2>1. AuthInv'
    BY <1>0, <1>1, AuthMoveNext, StepInv
  <2>2. AccountInv'
    BY <1>0, <1>1, <2>1, AuthKeepsAccount DEF AuthInv
  <2>3. unsettled' \subseteq UserIds /\ sawUsable' \in [Reqs -> BOOLEAN]
    BY <1>1, ObserveType DEF AuthMove, AuthStep, IdentityInv
  <2>4. QED
    BY <1>1, <2>1, <2>2, <2>3, AuthKeepsRequests, AuthKeepsSessions DEF IdentityInv
<1>2. CASE AccountMove
  <2>1. AccountInv'
    BY <1>0, <1>2, CreateStep, ResetStep, WorldStep DEF AccountMove, AccountNext
  <2>2. AuthInv'
    BY <1>0, <1>2, <2>1, AccountKeepsAuth DEF AccountInv
  <2>3. unsettled' \subseteq UserIds /\ sawUsable' \in [Reqs -> BOOLEAN]
    BY <1>2, ObserveType DEF AccountMove, AccountStep, IdentityInv
  <2>4. QED
    BY <1>2, <2>1, <2>2, <2>3, AccountKeepsRequests, AccountKeepsSessions DEF IdentityInv
<1>3. CASE UNCHANGED identityVars
  <2>1. UNCHANGED authVars /\ UNCHANGED accountVars /\ UNCHANGED <<unsettled, sawUsable>>
    BY <1>3 DEF identityVars
  <2>2. AuthInv' /\ AccountInv'
    BY <1>0, <2>1, StepInv, WorldStep
  <2>3. QED
    BY <2>1, <2>2 DEF IdentityInv, authVars, accountVars, RequestRedeemed, RequestUsable,
       SessionNeedsToken, Redeemed, Stored
<1>4. QED
  BY <1>1, <1>2, <1>3, EitherService

(* Beside each other, the two services keep what each of them keeps by     *)
(* itself, although each changes rows that the other one is working on.    *)
THEOREM BothServices == IdentitySpec => [](AuthInv /\ AccountInv)
<1>1. IdentityInv => AuthInv /\ AccountInv
  BY DEF IdentityInv
<1>2. QED
  BY <1>1, IdentityInitInv, IdentityStepInv, PTL DEF IdentitySpec

(* A session goes back to a person who redeemed a token of its account     *)
(* (activation_service.go:75-95, auth_service.go:85, 144-149).             *)
THEOREM SessionsNeedTokens == IdentitySpec => []SessionNeedsToken
<1>1. IdentityInv => SessionNeedsToken
  BY DEF IdentityInv
<1>2. QED
  BY <1>1, IdentityInitInv, IdentityStepInv, PTL DEF IdentitySpec

(* Only issueTokenPair inserts sessions, and only for an account that was  *)
(* live and ACTIVE since the request began (auth_service.go:81, 140),      *)
(* while others are activated, suspended and deleted.                      *)
THEOREM IssuesNeedUsable == IdentitySpec => IssueNeedsUsable
<1>1. IdentityInv /\ [IdentityNext]_identityVars => [IssuedUnderUsable]_identityVars
  <2> SUFFICES ASSUME IdentityInv, [IdentityNext]_identityVars, NEW s \in SessionIds,
                      sessions[s].row = "unborn", sessions'[s].row = "stored"
               PROVE  LET r == lineage'[s].by
                      IN  sawUsable[r] /\ frames[r].user = sessions'[s].user
    BY DEF IssuedUnderUsable
  <2>1. CASE AuthMove
    <3>1. PICK r \in Reqs : /\ lineage'[s].by = r /\ frames[r].user = sessions'[s].user
                            /\ frames[r].pc = "issue"
      BY <2>1, AuthMoveNext, IssuedByRequest DEF IdentityInv
    <3>2. sawUsable[r]
      BY <3>1 DEF IdentityInv, RequestUsable
    <3>3. QED
      BY <3>1, <3>2
  <2>2. ~ AccountMove
    <3> SUFFICES ASSUME AccountMove PROVE FALSE
      OBVIOUS
    <3>1. WipeAccounts \/ UNCHANGED sessions
      BY AccountMoveRows DEF AccountMove, IdentityInv
    <3>2. QED
      BY <3>1 DEF WipeAccounts, DeleteAllData, BlankSession
  <2>3. ~ UNCHANGED identityVars
    BY DEF identityVars, authVars
  <2>4. QED
    BY <2>1, <2>2, <2>3, EitherService
<1>2. QED
  BY <1>1, IdentityInitInv, IdentityStepInv, PTL DEF IdentitySpec, IssueNeedsUsable

-----------------------------------------------------------------------------
(* ActivateUser (activation_service.go): first the status, then the        *)
(* password.                                                               *)

(* Only ResetPass makes an account ACTIVE, and it is about to store a      *)
(* password when it has.                                                   *)
LEMMA OpenedByReset ==
  ASSUME "ACTIVE" \notin OperatorStatuses, AuthInv, AccountInv, IdentityNext, NEW u \in UserIds,
         Stored(u)', users'[u].status = "ACTIVE", ~ (Stored(u) /\ users[u].status = "ACTIVE")
  PROVE  \E r \in Resets : resets'[r].user = u /\ resets'[r].pc = "setPassword"
<1> USE DEF AccountInv, AccountTypeOK, StoreTypeOK
<1>1. ~ AuthMove
  BY AuthMoveRows DEF Stored
<1>2. users'[u] # users[u]
  BY DEF Stored
<1>3. ASSUME NEW c \in Creators, CreateInsert(c)
      PROVE  FALSE
  <2>1. PICK v \in FreshUsers : CreateUser(v, creates[c].email)
    BY <1>3 DEF CreateInsert
  <2>2. users'[v].status = "PENDING_ACTIVATION" /\ \A x \in UserIds : x # v => users'[x] = users[x]
    BY <2>1 DEF CreateUser, BlankUser, FreshUsers
  <2>3. QED
    BY <1>2, <2>2
<1>4. ASSUME NEW v \in UserIds, AssignRole(v) \/ OperatorSoftDelete(v)
      PROVE  FALSE
  <2>1. \A x \in UserIds : users'[x].status = users[x].status /\ (Stored(x)' => Stored(x))
    BY <1>4 DEF AssignRole, OperatorSoftDelete, Stored, Visible, UserRow
  <2>2. QED
    BY <2>1
<1>5. ASSUME NEW c \in Creators, CreateAssignRole(c)
      PROVE  FALSE
  BY <1>4, <1>5 DEF CreateAssignRole, CreateInv
<1>6. ASSUME NEW c \in Creators
      PROVE  ~ HandleCreate(c) /\ \A e \in Emails, k \in BOOLEAN : ~ CreateLookup(c, e, k)
  BY <1>2, <1>3, <1>5 DEF HandleCreate, ServeCreate, CreateLookup, CreateConflict,
     CreateRoleRefused, CreateAudit, CreateMint, store
<1>7. ~ OperatorOrClock /\ ~ WipeAccounts /\ \A v \in UserIds : ~ OperatorMint(v)
  BY <1>2, <1>4 DEF OperatorOrClock, OperatorSetStatus, TokenExpires,
     OperatorRevokeToken, WipeAccounts, DeleteAllData, BlankUser, OperatorMint, Stored, UserRow
<1>8. PICK r \in Resets : ServeReset(r) \/ \E t \in TokenIds, p \in Passwords \cup {Null} :
                                               ResetLookup(r, t, p)
  BY <1>1, <1>6, <1>7 DEF IdentityNext, AuthMove, HandleAuth, HandleReset
<1>9. ResetStatus(r) \/ ResetPassword(r)
  BY <1>2, <1>8 DEF ServeReset, ResetLookup, ResetFindUser, ResetValidate, ResetMarkUsed, store
<1>10. resets[r].user \in UserIds
  BY <1>9 DEF ResetStatus, ResetPassword, ResetInv, ResetHasToken
<1>11. ~ ResetPassword(r)
  BY <1>2, <1>10 DEF ResetPassword, UpdatePasswordHash, UpdateUser, Stored, UserRow
<1>12. resets[r].user = u
  BY <1>2, <1>9, <1>10, <1>11 DEF ResetStatus, UpdateStatus, UpdateUser
<1>13. QED
  BY <1>9, <1>11, <1>12 DEF ResetStatus, ResetGoto, ResetFrame

(* A ResetPass leaves the slot in which it stores a password only by       *)
(* storing it.                                                             *)
LEMMA SetPasswordStays ==
  ASSUME AccountInv, IdentityNext, NEW r \in Resets, resets[r].pc = "setPassword"
  PROVE  resets'[r] = resets[r] \/ resets'[r].pc = "idle"
<1> USE DEF AccountInv, AccountTypeOK
<1>1. ASSUME NEW q \in Resets, ServeReset(q) \/ \E t \in TokenIds, p \in Passwords \cup {Null} :
                                                      ResetLookup(q, t, p)
      PROVE  q = r => ResetPassword(r)
  BY <1>1 DEF ServeReset, ResetLookup, ResetFindUser, ResetValidate, ResetMarkUsed, ResetStatus
<1>2. ASSUME NEW q \in Resets, ServeReset(q) \/ \E t \in TokenIds, p \in Passwords \cup {Null} :
                                                      ResetLookup(q, t, p)
      PROVE  q # r => resets'[r] = resets[r]
  BY <1>2 DEF ServeReset, ResetLookup, ResetFindUser, ResetValidate, ResetMarkUsed, ResetStatus,
     ResetPassword, ResetGoto, ResetEnd
<1>3. ResetPassword(r) => resets'[r].pc = "idle"
  BY DEF ResetPassword, ResetEnd, NoReset
<1>4. \/ resets' = resets
      \/ \E q \in Resets : ServeReset(q) \/ \E t \in TokenIds, p \in Passwords \cup {Null} :
                                                      ResetLookup(q, t, p)
  BY DEF IdentityNext, AuthStep, accountLocals, HandleAuth, HandleCreate, HandleReset, ServeCreate,
     CreateLookup, CreateInsert, CreateConflict, CreateAssignRole, CreateRoleRefused, CreateAudit,
     CreateMint, OperatorMint, OperatorOrClock, WipeAccounts, resetVars
<1>5. QED
  BY <1>1, <1>2, <1>3, <1>4

(* An account that is ACTIVE under an old password is about to get a new   *)
(* one, if nothing but the code makes accounts ACTIVE.                     *)
THEOREM ReopenedUnderNew ==
  ASSUME "ACTIVE" \notin OperatorStatuses
  PROVE  IdentitySpec => []ReopenedUnderNewPassword
<1>1. IdentityInit => ReopenedUnderNewPassword
  BY DEF IdentityInit, AccountInit, BlankUser, Stored, ReopenedUnderNewPassword
<1>2. IdentityInv /\ ReopenedUnderNewPassword /\ [IdentityNext]_identityVars
        => ReopenedUnderNewPassword'
  <2> SUFFICES ASSUME IdentityInv, ReopenedUnderNewPassword, [IdentityNext]_identityVars,
                      NEW u \in UserIds, Stored(u)', users'[u].status = "ACTIVE",
                      u \in unsettled'
               PROVE  \E r \in Resets : resets'[r].user = u /\ resets'[r].pc = "setPassword"
    BY DEF ReopenedUnderNewPassword
  <2>1. CASE UNCHANGED identityVars
    BY <2>1 DEF identityVars, authVars, accountVars, ReopenedUnderNewPassword, Stored
  <2>2. CASE IdentityNext /\ ~ (Stored(u) /\ users[u].status = "ACTIVE")
    BY <2>2, OpenedByReset DEF IdentityInv
  <2>3. CASE IdentityNext /\ Stored(u) /\ users[u].status = "ACTIVE"
    <3>1. Observe
      BY <2>3 DEF IdentityNext, HandleAuth, HandleCreate, HandleReset, AuthStep, AccountStep
    <3>2. u \in unsettled /\ u \notin Chosen
      BY <3>1 DEF Observe
    <3>3. PICK r \in Resets : resets[r].user = u /\ resets[r].pc = "setPassword"
      BY <2>3, <3>2 DEF ReopenedUnderNewPassword
    <3>4. resets'[r].pc # "idle"
      BY <3>2, <3>3 DEF Chosen
    <3>5. resets'[r] = resets[r]
      BY <2>3, <3>3, <3>4, SetPasswordStays DEF IdentityInv
    <3>6. QED
      BY <3>3, <3>5
  <2>4. QED
    BY <2>1, <2>2, <2>3
<1>3. QED
  BY <1>1, <1>2, IdentityInitInv, IdentityStepInv, PTL DEF IdentitySpec
=============================================================================
