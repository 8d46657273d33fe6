--------------------------- MODULE IdentityStore ---------------------------
(***************************************************************************)
(* The PostgreSQL tables the identity backend shares between its requests, *)
(* and the repository methods that read and write them.  A repository      *)
(* method runs one SQL statement on a pooled connection, outside any       *)
(* explicit transaction, so each method is atomic by itself and nothing    *)
(* larger is.                                                              *)
(*                                                                         *)
(* Ids are uuid.New() values: the row of an id is "unborn" until the       *)
(* INSERT that uses it and "gone" once the table was truncated; an id is   *)
(* never used twice.  A user row may also be "softDeleted" (deleted_at is  *)
(* set): the SELECTs skip it, the UPDATEs, the foreign keys and UNIQUE     *)
(* (email) do not.                                                         *)
(***************************************************************************)
CONSTANTS
    UserIds,     \* ids of identity_users
    SessionIds,  \* ids of identity_sessions, one refresh token each
    TokenIds,    \* ids of identity_tokens, one raw one-use token each
    Emails,      \* CITEXT e-mail addresses
    Passwords,   \* passwords people choose
    Placeholder, \* the random password of an account nobody has redeemed yet
    OperatorStatuses, \* statuses an operator sets
    Faults,           \* whether statements, connections and processes may fail
    DeleteEnabled,    \* whether the delete-all-data endpoint is enabled
    Null

ASSUME NullIsFresh ==
    Null \notin UserIds \cup SessionIds \cup TokenIds \cup Emails \cup Passwords

ASSUME PlaceholderIsFresh == Placeholder \notin Passwords \cup {Null}

ASSUME SettingsAssumption == Faults \in BOOLEAN /\ DeleteEnabled \in BOOLEAN

VARIABLES
    users,     \* identity_users, with the row of identity_user_roles as "hasRole"
    sessions,  \* identity_sessions
    tokens     \* identity_tokens

store == <<users, sessions, tokens>>

UserStatus ==
    {"PENDING_ACTIVATION", "ACTIVE", "INACTIVE", "SUSPENDED", "LOCKED", "DELETED"}

ASSUME OperatorAssumption == OperatorStatuses \subseteq UserStatus

CanLogin(status) == status = "ACTIVE"

(* "failed" abstracts failed_login_attempts to whether it is positive: no  *)
(* statement compares the counter with anything.                           *)
UserRow ==
    [row     : {"unborn", "live", "softDeleted", "gone"},
     email   : Emails \cup {Null},
     status  : UserStatus,
     pwd     : Passwords \cup {Placeholder},
     hasRole : BOOLEAN,
     failed  : BOOLEAN]

SessionRow ==
    [row     : {"unborn", "stored", "gone"},
     user    : UserIds \cup {Null},
     revoked : BOOLEAN,
     expired : BOOLEAN]

(* Every token the code creates has type ACTIVATION, so there is no type.  *)
TokenRow ==
    [row     : {"unborn", "stored", "gone"},
     user    : UserIds \cup {Null},
     used    : BOOLEAN,
     revoked : BOOLEAN,
     expired : BOOLEAN]

StoreTypeOK ==
    /\ users    \in [UserIds -> UserRow]
    /\ sessions \in [SessionIds -> SessionRow]
    /\ tokens   \in [TokenIds -> TokenRow]

BlankUser(row) ==
    [row |-> row, email |-> Null, status |-> "PENDING_ACTIVATION",
     pwd |-> Placeholder, hasRole |-> FALSE, failed |-> FALSE]

BlankSession(row) ==
    [row |-> row, user |-> Null, revoked |-> FALSE, expired |-> FALSE]

BlankToken(row) ==
    [row |-> row, user |-> Null, used |-> FALSE, revoked |-> FALSE, expired |-> FALSE]

-----------------------------------------------------------------------------
(* identity_users *)

Visible(u) == users[u].row = "live"
Stored(u)  == users[u].row \in {"live", "softDeleted"}

(* Mutant: deleted_at is not looked at.                                    *)
FindByIDWithDeleted(u) == {x \in UserIds : x = u /\ users[x].row \in {"live", "softDeleted"}}

FindByEmail(e) == {u \in UserIds : Visible(u) /\ users[u].email = e}
FindByID(u)    == {x \in UserIds : x = u /\ Visible(u)}

FreshUsers == {u \in UserIds : users[u].row = "unborn"}

(* Mutant: a partial unique index, over the rows that are not deleted.      *)
EmailTakenByLive(e) == FindByEmail(e) # {}

(* UNIQUE (email) spans the soft-deleted rows, which FindByEmail skips.    *)
EmailTaken(e) == \E u \in UserIds : Stored(u) /\ users[u].email = e

CreateUser(u, e) ==
    /\ ~ EmailTaken(e)
    /\ users' = [users EXCEPT ![u] = [BlankUser("live") EXCEPT !.email = e]]

(* UPDATE ... WHERE id = u; a statement that matches no row is no error.   *)
UpdateUser(u, row) ==
    users' = [users EXCEPT ![u] = IF Stored(u) THEN row ELSE @]

UpdateStatus(u, status) == UpdateUser(u, [users[u] EXCEPT !.status = status])
UpdatePasswordHash(u, pwd) == UpdateUser(u, [users[u] EXCEPT !.pwd = pwd])

(* Mutant: a failed attempt sets a status the CHECK constraint rejects.    *)
IncrementAndBlock(u) ==
    UpdateUser(u, [users[u] EXCEPT !.status = "BLOCKED", !.failed = TRUE])

IncrementFailedAttempts(u) == UpdateUser(u, [users[u] EXCEPT !.failed = TRUE])

ResetFailedAttempts(u) == UpdateUser(u, [users[u] EXCEPT !.failed = FALSE])

(* INSERT INTO identity_user_roles; the caller checked that the role is    *)
(* known, the foreign key that the account is.                             *)
AssignRole(u) ==
    /\ Stored(u)
    /\ users' = [users EXCEPT ![u].hasRole = TRUE]

-----------------------------------------------------------------------------
(* identity_sessions *)

FreshSessions == {s \in SessionIds : sessions[s].row = "unborn"}

FindByRefreshTokenHash(s) == {x \in SessionIds : x = s /\ sessions[s].row = "stored"}

(* The INSERT needs the owner's row: user_id references identity_users.    *)
CreateSession(s, u) ==
    /\ Stored(u)
    /\ sessions' = [sessions EXCEPT ![s] =
                      [row |-> "stored", user |-> u, revoked |-> FALSE, expired |-> FALSE]]

Revoke(s) ==
    sessions' = [sessions EXCEPT ![s] =
                   IF @.row = "stored" THEN [@ EXCEPT !.revoked = TRUE] ELSE @]

-----------------------------------------------------------------------------
(* identity_tokens *)

FreshTokens == {t \in TokenIds : tokens[t].row = "unborn"}

FindByHash(t) == {x \in TokenIds : x = t /\ tokens[t].row = "stored"}

(* What ValidateAndConsumeToken asks of a row.                             *)
Open(t) ==
    /\ tokens[t].row = "stored"
    /\ ~ tokens[t].used
    /\ ~ tokens[t].revoked
    /\ ~ tokens[t].expired

CreateToken(t, u) ==
    /\ Stored(u)
    /\ tokens' = [tokens EXCEPT ![t] = [BlankToken("stored") EXCEPT !.user = u]]

MarkUsed(t) ==
    tokens' = [tokens EXCEPT ![t] =
                 IF @.row = "stored" THEN [@ EXCEPT !.used = TRUE] ELSE @]

-----------------------------------------------------------------------------
(* What changes the tables besides the services.                           *)

(* An operator with a database console: the code never sets INACTIVE,      *)
(* SUSPENDED, LOCKED or DELETED, and never sets deleted_at.                *)
OperatorSetStatus(u, status) ==
    /\ Stored(u)
    /\ users[u].status # status
    /\ users' = [users EXCEPT ![u].status = status]
    /\ UNCHANGED <<sessions, tokens>>

OperatorSoftDelete(u) ==
    /\ Visible(u)
    /\ users' = [users EXCEPT ![u].row = "softDeleted"]
    /\ UNCHANGED <<sessions, tokens>>

(* The clock passes expires_at of a row.                                   *)
SessionExpires(s) ==
    /\ sessions[s].row = "stored"
    /\ ~ sessions[s].expired
    /\ sessions' = [sessions EXCEPT ![s].expired = TRUE]
    /\ UNCHANGED <<users, tokens>>

TokenExpires(t) ==
    /\ tokens[t].row = "stored"
    /\ ~ tokens[t].expired
    /\ tokens' = [tokens EXCEPT ![t].expired = TRUE]
    /\ UNCHANGED <<users, sessions>>

(* No code sets revoked_at of a token either.                              *)
OperatorRevokeToken(t) ==
    /\ tokens[t].row = "stored"
    /\ ~ tokens[t].revoked
    /\ tokens' = [tokens EXCEPT ![t].revoked = TRUE]
    /\ UNCHANGED <<users, sessions>>

(* TRUNCATE ... CASCADE of every table, the endpoint of development and    *)
(* test deployments.                                                       *)
DeleteAllData ==
    /\ users' = [u \in UserIds |->
                   IF Stored(u) THEN BlankUser("gone") ELSE users[u]]
    /\ sessions' = [s \in SessionIds |->
                      IF sessions[s].row = "stored" THEN BlankSession("gone") ELSE sessions[s]]
    /\ tokens' = [t \in TokenIds |->
                    IF tokens[t].row = "stored" THEN BlankToken("gone") ELSE tokens[t]]
=============================================================================
