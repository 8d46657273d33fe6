---------------------------- MODULE AuthService ----------------------------
(***************************************************************************)
(* Login and refresh: the requests of AuthService over the shared tables.  *)
(* A request is a goroutine whose locals are its frame; it takes one step  *)
(* per repository call, and other requests, an operator and the clock act  *)
(* between any two of them.  A request that is turned away before it has   *)
(* written anything (unknown e-mail, account not ACTIVE, unknown, revoked  *)
(* or expired refresh token) changes nothing and is not a step.            *)
(*                                                                         *)
(* The role lookup of issueTokenPair cannot stop a request (it fails open) *)
(* and the JWT is stateless, so neither has a step here; AccessControl     *)
(* adds both.                                                              *)
(***************************************************************************)
EXTENDS IdentityStore, Integers, FiniteSets

CONSTANT
    Reqs  \* slots for requests in flight

ASSUME ReqsAssumption == Null \notin Reqs

VARIABLES
    frames,    \* the locals of each request
    held,      \* the sessions whose refresh token a client was given
    lineage,   \* history: the session each session was rotated from, and the slot that issued it
    sawActive  \* history: was the request's account ACTIVE at an instant since the request began

authVars == <<users, sessions, tokens, frames, held, lineage, sawActive>>

Stages == {"idle", "countFailure", "recordLogin", "findOwner", "revoke", "issue", "reply"}

Frame ==
    [pc   : Stages,
     user : UserIds \cup {Null},
     from : SessionIds \cup {Null},   \* the session a refresh rotates, Null for a login
     new  : SessionIds \cup {Null}]

Idle == [pc |-> "idle", user |-> Null, from |-> Null, new |-> Null]

NoLineage == [parent |-> Null, by |-> Null]

AuthTypeOK ==
    /\ StoreTypeOK
    /\ frames    \in [Reqs -> Frame]
    /\ held      \subseteq SessionIds
    /\ lineage   \in [SessionIds -> [parent : SessionIds \cup {Null}, by : Reqs \cup {Null}]]
    /\ sawActive \in [Reqs -> BOOLEAN]

(* Deployments start with accounts that chose a password and may be in any *)
(* of the operator's statuses, without sessions.                           *)
AuthInit ==
    /\ users \in [UserIds ->
                    [row : {"live"}, email : Emails, status : OperatorStatuses,
                     pwd : Passwords, hasRole : {TRUE}, failed : {FALSE}]]
    /\ \A u, v \in UserIds : users[u].email = users[v].email => u = v
    /\ sessions  = [s \in SessionIds |-> BlankSession("unborn")]
    /\ tokens    = [t \in TokenIds |-> BlankToken("unborn")]
    /\ frames    = [r \in Reqs |-> Idle]
    /\ held      = {}
    /\ lineage   = [s \in SessionIds |-> NoLineage]
    /\ sawActive = [r \in Reqs |-> FALSE]

-----------------------------------------------------------------------------
(* Starting and ending a request                                           *)

(* Bound: a request starts only while every request in flight still has a  *)
(* session id of its own left to issue.                                    *)
SpareSession ==
    Cardinality(FreshSessions) > Cardinality({r \in Reqs : frames[r].pc # "idle"})

Start(r, pc, u, from) ==
    /\ frames[r].pc = "idle"
    /\ SpareSession
    /\ frames'    = [frames EXCEPT ![r] = [pc |-> pc, user |-> u, from |-> from, new |-> Null]]
    /\ sawActive' = [sawActive EXCEPT ![r] = users[u].status = "ACTIVE"]
    /\ UNCHANGED <<store, held, lineage>>

Goto(r, pc) ==
    /\ frames' = [frames EXCEPT ![r].pc = pc]
    /\ UNCHANGED sawActive

Finish(r) ==
    /\ frames'    = [frames EXCEPT ![r] = Idle]
    /\ sawActive' = [sawActive EXCEPT ![r] = FALSE]

(* Outcomes of a statement whose error the caller ignores.                 *)
Outcomes == IF Faults THEN BOOLEAN ELSE {TRUE}

(* Whom Login and RefreshToken let in.                                     *)
Active(u) == Visible(u) /\ CanLogin(users[u].status)

-----------------------------------------------------------------------------
(* Login(email, password)                                                  *)

(* FindByEmail, CanLogin and the bcrypt comparison, all on one snapshot.   *)
LoginLookup(r, e, p) ==
    \E u \in FindByEmail(e) :
       /\ CanLogin(users[u].status)
       /\ Start(r, IF users[u].pwd = p THEN "recordLogin" ELSE "countFailure", u, Null)

LoginFailed(r) ==
    /\ frames[r].pc = "countFailure"
    /\ \E ok \in Outcomes :
         IF ok THEN IncrementFailedAttempts(frames[r].user) ELSE UNCHANGED users
    /\ Finish(r)
    /\ UNCHANGED <<sessions, tokens, held, lineage>>

(* ResetFailedAttempts and UpdateLastLogin; no statement reads either      *)
(* column, so the two are one step.                                        *)
LoginRecord(r) ==
    /\ frames[r].pc = "recordLogin"
    /\ \E ok \in Outcomes :
         IF ok THEN ResetFailedAttempts(frames[r].user) ELSE UNCHANGED users
    /\ Goto(r, "issue")
    /\ UNCHANGED <<sessions, tokens, held, lineage>>

-----------------------------------------------------------------------------
(* RefreshToken(rawRefreshToken)                                           *)

(* Mutant: revoked_at is not looked at.                                    *)
RefreshLookupNoRevokedCheck(r, s) ==
    /\ s \in held
    /\ s \in FindByRefreshTokenHash(s)
    /\ ~ sessions[s].expired
    /\ Start(r, "findOwner", sessions[s].user, s)

RefreshLookup(r, s) ==
    /\ s \in held
    /\ s \in FindByRefreshTokenHash(s)
    /\ ~ sessions[s].revoked
    /\ ~ sessions[s].expired
    /\ Start(r, "findOwner", sessions[s].user, s)

(* Mutant: the account only has to exist.                                  *)
RefreshOwnerAnyStatus(r) ==
    /\ frames[r].pc = "findOwner"
    /\ IF FindByID(frames[r].user) # {} THEN Goto(r, "revoke") ELSE Finish(r)
    /\ UNCHANGED <<store, held, lineage>>

(* Mutant: the session is revoked before the account is looked up.         *)
RefreshOwnerRevokesFirst(r) ==
    /\ frames[r].pc = "findOwner"
    /\ Revoke(frames[r].from)
    /\ IF \E u \in FindByID(frames[r].user) : CanLogin(users[u].status)
       THEN Goto(r, "issue")
       ELSE Finish(r)
    /\ UNCHANGED <<users, tokens, held, lineage>>

RefreshOwner(r) ==
    /\ frames[r].pc = "findOwner"
    /\ IF \E u \in FindByID(frames[r].user) : CanLogin(users[u].status)
       THEN Goto(r, "revoke")
       ELSE Finish(r)
    /\ UNCHANGED <<store, held, lineage>>

(* Mutant: the presented session stays valid.                              *)
RefreshWithoutRevoke(r) ==
    /\ frames[r].pc = "revoke"
    /\ Goto(r, "issue")
    /\ UNCHANGED <<store, held, lineage>>

RefreshRevoke(r) ==
    /\ frames[r].pc = "revoke"
    /\ Revoke(frames[r].from)
    /\ Goto(r, "issue")
    /\ UNCHANGED <<users, tokens, held, lineage>>

-----------------------------------------------------------------------------
(* issueTokenPair and the reply                                            *)

(* Mutant: a refresh answers with the token it was given.                  *)
IssueSessionRepliesOld(r) ==
    /\ frames[r].pc = "issue"
    /\ \E s \in FreshSessions :
         /\ CreateSession(s, frames[r].user)
         /\ lineage' = [lineage EXCEPT ![s] = [parent |-> frames[r].from, by |-> r]]
         /\ frames'  = [frames EXCEPT ![r].pc = "reply",
                          ![r].new = IF frames[r].from = Null THEN s ELSE frames[r].from]
    /\ UNCHANGED <<users, tokens, held, sawActive>>

IssueSession(r) ==
    /\ frames[r].pc = "issue"
    /\ \E s \in FreshSessions :
         /\ CreateSession(s, frames[r].user)
         /\ lineage' = [lineage EXCEPT ![s] = [parent |-> frames[r].from, by |-> r]]
         /\ frames'  = [frames EXCEPT ![r].pc = "reply", ![r].new = s]
    /\ UNCHANGED <<users, tokens, held, sawActive>>

(* The INSERT breaks a constraint: the account was truncated away, or the  *)
(* client of a login named a device_type that the CHECK does not list.  (A *)
(* refresh copies the device of a stored session.)                         *)
Refusable(r) == ~ Stored(frames[r].user) \/ frames[r].from = Null

(* Mutant: the INSERT is retried for ever.                                 *)
IssueRefusedRetries(r) ==
    /\ frames[r].pc = "issue"
    /\ Refusable(r)
    /\ UNCHANGED authVars

IssueRefused(r) ==
    /\ frames[r].pc = "issue"
    /\ Refusable(r)
    /\ Finish(r)
    /\ UNCHANGED <<store, held, lineage>>

Reply(r) ==
    /\ frames[r].pc = "reply"
    /\ held' = held \cup {frames[r].new}
    /\ Finish(r)
    /\ UNCHANGED <<store, lineage>>

(* A statement fails (with or without having taken effect), the client     *)
(* goes away and its context is cancelled, the reply is lost, or the       *)
(* process dies: whatever the request did stays done.                      *)
Abandon(r) ==
    /\ Faults
    /\ frames[r].pc # "idle"
    /\ Finish(r)
    /\ UNCHANGED <<store, held, lineage>>

-----------------------------------------------------------------------------
(* The rest of the world                                                   *)

SetStatus(u, status) ==
    /\ OperatorSetStatus(u, status)
    /\ sawActive' = [r \in Reqs |->
                       sawActive[r] \/ (frames[r].user = u /\ status = "ACTIVE")]
    /\ UNCHANGED <<frames, held, lineage>>

SoftDelete(u) == OperatorSoftDelete(u) /\ UNCHANGED <<frames, held, lineage, sawActive>>

Expire(s) == SessionExpires(s) /\ UNCHANGED <<frames, held, lineage, sawActive>>

Wipe ==
    /\ DeleteEnabled
    /\ \E u \in UserIds : Visible(u)
    /\ DeleteAllData
    /\ UNCHANGED <<frames, held, lineage, sawActive>>

-----------------------------------------------------------------------------
Serve(r) ==
    \/ LoginFailed(r)
    \/ LoginRecord(r)
    \/ RefreshOwner(r)
    \/ RefreshRevoke(r)
    \/ IssueSession(r)
    \/ IssueRefused(r)
    \/ Reply(r)

Arrive(r) ==
    \/ \E e \in Emails, p \in Passwords : LoginLookup(r, e, p)
    \/ \E s \in SessionIds : RefreshLookup(r, s)

Environment ==
    \/ \E u \in UserIds, status \in OperatorStatuses : SetStatus(u, status)
    \/ \E u \in UserIds : SoftDelete(u)
    \/ \E s \in SessionIds : Expire(s)
    \/ Wipe

AuthNext ==
    \/ \E r \in Reqs : Arrive(r) \/ Serve(r) \/ Abandon(r)
    \/ Environment

AuthSpec == AuthInit /\ [][AuthNext]_authVars

(* net/http runs every handler to its end; nobody promises that clients    *)
(* call, operators act or statements fail.                                 *)
FairAuthSpec == AuthSpec /\ \A r \in Reqs : WF_authVars(Serve(r))

-----------------------------------------------------------------------------
(* Properties                                                              *)

Parent(s) == lineage[s].parent

(* RefreshToken revokes before it inserts: a session that was rotated into *)
(* existence sits next to its revoked predecessor, of the same account,    *)
(* whatever raced with the rotation and wherever requests stopped.         *)
RotatedParentRevoked ==
    \A s \in SessionIds :
       sessions[s].row = "stored" /\ Parent(s) # Null =>
          LET p == sessions[Parent(s)]
          IN  p.row = "stored" /\ p.revoked /\ p.user = sessions[s].user

(* The revocation check is not atomic with the revocation, so a refresh    *)
(* token presented twice at once yields two pairs.  What the order of the  *)
(* calls does bound: the pairs of one refresh token come from different    *)
(* requests that were all in flight when the first of them revoked it, so  *)
(* a slot never obtains a second pair from the same token.                 *)
OnePairPerRequest ==
    \A s, t \in SessionIds :
       s # t /\ Parent(s) # Null /\ Parent(s) = Parent(t) => lineage[s].by # lineage[t].by

(* The status is read before the statements that follow from it.  A        *)
(* suspended account can still gain a session, but only through a request  *)
(* that overlapped a moment at which it was ACTIVE.                        *)
IssuedUnderActive ==
    \A s \in SessionIds :
       sessions[s].row = "unborn" /\ sessions'[s].row = "stored" =>
          \E r \in Reqs : /\ lineage'[s].by = r
                          /\ frames[r].user = sessions'[s].user
                          /\ sawActive[r]

IssueNeedsActive == [][IssuedUnderActive]_authVars

(* A rotation is complete: once the request that revoked a session has     *)
(* ended, a successor of the session exists.  It holds only when no call   *)
(* fails between Revoke and Create.                                        *)
RevokedHasSuccessor ==
    \A s \in SessionIds :
       sessions[s].revoked =>
          \/ \E c \in SessionIds : Parent(c) = s
          \/ \E r \in Reqs : frames[r].from = s /\ frames[r].pc = "issue"

(* "Rotate: revoke the old session and issue a new pair": a refresh token  *)
(* is exchanged for one new pair.                                          *)
RefreshTokenUsedOnce ==
    \A s, t \in SessionIds : Parent(s) # Null /\ Parent(s) = Parent(t) => s = t

(* Every request that got past its lookup is answered or cut short, with   *)
(* an operator, the clock and a truncation interfering at any point.       *)
EveryRequestEnds ==
    \A r \in Reqs : frames[r].pc # "idle" ~> frames[r].pc = "idle"

(* Without failures the client whose token was rotated away ends up with a *)
(* successor of it, unless the tables are truncated first.                 *)
RotationReachesClient ==
    \A s \in SessionIds :
       sessions[s].revoked ~> (\E c \in held : Parent(c) = s) \/ sessions[s].row = "gone"
-----------------------------------------------------------------------------
(* The inductive invariant behind the safety properties: what holds of     *)
(* each request in flight, and what holds of the tables.                   *)

FrameShape(r) ==
    /\ frames[r].pc # "idle" => frames[r].user \in UserIds
    /\ frames[r].pc \in {"idle", "countFailure", "recordLogin"} => frames[r].from = Null
    /\ frames[r].pc \in {"findOwner", "revoke"} => frames[r].from # Null
    /\ frames[r].pc = "reply" => frames[r].new \in SessionIds

(* A refresh in flight still points at the session it read, of the account *)
(* it read, unless both were truncated.                                    *)
FrameSession(r) ==
    frames[r].from # Null =>
       \/ /\ sessions[frames[r].from].row = "stored"
          /\ sessions[frames[r].from].user = frames[r].user
       \/ /\ sessions[frames[r].from].row = "gone"
          /\ users[frames[r].user].row = "gone"

IssueAfterRevoke(r) ==
    /\ frames[r].pc = "issue"
    /\ frames[r].from # Null
    /\ sessions[frames[r].from].row = "stored"
    => sessions[frames[r].from].revoked

(* The slot has not had a pair from the session it is about to rotate.     *)
SlotHasNoPair(r) ==
    \A s \in SessionIds :
       /\ frames[r].pc \in {"findOwner", "revoke", "issue"}
       /\ frames[r].from # Null
       /\ Parent(s) = frames[r].from
       => lineage[s].by # r

ActiveSeen(r) ==
    /\ frames[r].pc \in {"countFailure", "recordLogin", "revoke", "issue", "reply"}
          => sawActive[r]
    /\ frames[r].pc # "idle" /\ users[frames[r].user].status = "ACTIVE"
          => sawActive[r]

FrameInv(r) ==
    /\ FrameShape(r)
    /\ FrameSession(r)
    /\ IssueAfterRevoke(r)
    /\ SlotHasNoPair(r)
    /\ ActiveSeen(r)

(* identity_sessions.user_id REFERENCES identity_users(id).                *)
ForeignKey ==
    \A s \in SessionIds :
       sessions[s].row = "stored" => sessions[s].user \in UserIds /\ Stored(sessions[s].user)

ParentsRevoked ==
    \A s \in SessionIds :
       Parent(s) # Null =>
          /\ sessions[Parent(s)].row # "unborn"
          /\ sessions[Parent(s)].row = "stored" => sessions[Parent(s)].revoked

TableInv ==
    /\ ForeignKey
    /\ ParentsRevoked
    /\ RotatedParentRevoked
    /\ OnePairPerRequest

AuthInv ==
    /\ AuthTypeOK
    /\ \A r \in Reqs : FrameInv(r)
    /\ TableInv

(* Without failures, more holds: a row that is not stored says nothing,    *)
(* and a session without a row was rotated from none.                      *)
RowsBlank ==
    \A s \in SessionIds :
       /\ sessions[s].row # "stored" => ~ sessions[s].revoked
       /\ sessions[s].row = "unborn" => Parent(s) = Null

RotationInv == RowsBlank /\ RevokedHasSuccessor

-----------------------------------------------------------------------------
(* AuthService implements SessionLedger: a row of identity_sessions is the *)
(* entry of its refresh token, and a refresh claims its token from its     *)
(* lookup to the INSERT of the successor.                                  *)

LedgerState(s) ==
    IF sessions[s].row = "stored"
    THEN IF sessions[s].revoked THEN "spent" ELSE "live"
    ELSE IF sessions[s].row = "gone" THEN "gone" ELSE "unissued"

LedgerOfTables ==
    [s \in SessionIds |->
       [state  |-> LedgerState(s),
        owner  |-> sessions[s].user,
        parent |-> Parent(s),
        lapsed |-> sessions[s].expired]]

ClaimsOfFrames ==
    [r \in Reqs |->
       IF frames[r].pc \in {"findOwner", "revoke", "issue"} THEN frames[r].from ELSE Null]

Ledger == INSTANCE SessionLedger
          WITH Owners <- UserIds, Entries <- SessionIds, Claimants <- Reqs, Nobody <- Null,
               ledger <- LedgerOfTables, claims <- ClaimsOfFrames

(* Whatever races and fails, what Login and RefreshToken do to sessions is *)
(* what the ledger allows: a refresh token is succeeded only by requests   *)
(* that were admitted with it while it was neither revoked nor expired,    *)
(* once each, after it was revoked, and for the same account.              *)
ImplementsLedger == Ledger!LedgerSpec
=============================================================================
