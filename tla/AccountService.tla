--------------------------- MODULE AccountService ---------------------------
(***************************************************************************)
(* How an account comes to life: UserService.CreateUser inserts it, gives  *)
(* it a role and mints an activation token; ResetPass redeems a token for  *)
(* a password and the status ACTIVE.  Both are sequences of repository     *)
(* calls without a transaction, so each request keeps a frame and takes    *)
(* one step per call.                                                      *)
(***************************************************************************)
EXTENDS IdentityStore, Integers, FiniteSets

CONSTANTS
    Creators,  \* slots for CreateUser requests in flight
    Resets     \* slots for ResetPass requests in flight

VARIABLES
    creates,     \* the locals of each CreateUser request
    resets,      \* the locals of each ResetPass request
    audited,     \* accounts with a USER_CREATED entry in identity_audit_log
    delivered,   \* tokens whose raw value reached a person
    openAtStart, \* history: was the request's token redeemable when the request began
    redeemers    \* history: the requests that consumed each token

accountVars ==
    <<users, sessions, tokens, creates, resets, audited, delivered, openAtStart, redeemers>>

CreateFrame ==
    [pc        : {"idle", "insert", "assignRole", "audit", "mint"},
     email     : Emails \cup {Null},
     roleKnown : BOOLEAN,              \* does role_code name a row of identity_roles
     user      : UserIds \cup {Null}]

(* The password Null is one that bcrypt refuses to hash: over 72 bytes.    *)
ResetFrame ==
    [pc    : {"idle", "findUser", "validate", "markUsed", "setStatus", "setPassword"},
     token : TokenIds \cup {Null},
     user  : UserIds \cup {Null},
     pwd   : Passwords \cup {Null}]

NoCreate == [pc |-> "idle", email |-> Null, roleKnown |-> FALSE, user |-> Null]
NoReset  == [pc |-> "idle", token |-> Null, user |-> Null, pwd |-> Null]

AccountTypeOK ==
    /\ StoreTypeOK
    /\ creates     \in [Creators -> CreateFrame]
    /\ resets      \in [Resets -> ResetFrame]
    /\ audited     \subseteq UserIds
    /\ delivered   \subseteq TokenIds
    /\ openAtStart \in [Resets -> BOOLEAN]
    /\ redeemers   \in [TokenIds -> SUBSET Resets]

(* A migrated database: roles, but no accounts.  (The administrator that   *)
(* db/seeds inserts with a password of its own is left out.)               *)
AccountInit ==
    /\ users       = [u \in UserIds |-> BlankUser("unborn")]
    /\ sessions    = [s \in SessionIds |-> BlankSession("unborn")]
    /\ tokens      = [t \in TokenIds |-> BlankToken("unborn")]
    /\ creates     = [c \in Creators |-> NoCreate]
    /\ resets      = [r \in Resets |-> NoReset]
    /\ audited     = {}
    /\ delivered   = {}
    /\ openAtStart = [r \in Resets |-> FALSE]
    /\ redeemers   = [t \in TokenIds |-> {}]

Creating == {c \in Creators : creates[c].pc # "idle"}

resetVars  == <<resets, delivered, openAtStart, redeemers>>

-----------------------------------------------------------------------------
(* UserService.CreateUser                                                  *)

CreateEnd(c) == creates' = [creates EXCEPT ![c] = NoCreate]

(* A lookup that fails counts as "no such account".  Bound: every CreateUser *)
(* in flight has an account id and a token id left.                        *)
CreateLookup(c, e, roleKnown) ==
    /\ creates[c].pc = "idle"
    /\ FindByEmail(e) = {} \/ Faults
    /\ Cardinality(FreshUsers) > Cardinality(Creating)
    /\ Cardinality(FreshTokens) > Cardinality(Creating)
    /\ creates' = [creates EXCEPT ![c] =
                     [pc |-> "insert", email |-> e, roleKnown |-> roleKnown, user |-> Null]]
    /\ UNCHANGED <<store, audited, resetVars>>

CreateInsert(c) ==
    /\ creates[c].pc = "insert"
    /\ \E u \in FreshUsers :
         /\ CreateUser(u, creates[c].email)
         /\ creates' = [creates EXCEPT ![c].pc = "assignRole", ![c].user = u]
    /\ UNCHANGED <<sessions, tokens, audited, resetVars>>

CreateConflict(c) ==
    /\ creates[c].pc = "insert"
    /\ EmailTaken(creates[c].email)
    /\ CreateEnd(c)
    /\ UNCHANGED <<store, audited, resetVars>>

CreateAssignRole(c) ==
    /\ creates[c].pc = "assignRole"
    /\ creates[c].roleKnown
    /\ AssignRole(creates[c].user)
    /\ creates' = [creates EXCEPT ![c].pc = "audit"]
    /\ UNCHANGED <<sessions, tokens, audited, resetVars>>

(* Mutant: a failure to assign the role is only logged.                    *)
CreateRoleIgnored(c) ==
    /\ creates[c].pc = "assignRole"
    /\ ~ creates[c].roleKnown \/ ~ Stored(creates[c].user)
    /\ creates' = [creates EXCEPT ![c].pc = "audit"]
    /\ UNCHANGED <<store, audited, resetVars>>

(* Mutant: an INSERT that is refused is retried for ever.                  *)
CreateRoleRetries(c) ==
    /\ creates[c].pc = "assignRole"
    /\ ~ creates[c].roleKnown \/ ~ Stored(creates[c].user)
    /\ UNCHANGED accountVars

(* No role of that code, or the account was truncated meanwhile: the       *)
(* request ends with an error and the account stays as it is.              *)
CreateRoleRefused(c) ==
    /\ creates[c].pc = "assignRole"
    /\ ~ creates[c].roleKnown \/ ~ Stored(creates[c].user)
    /\ CreateEnd(c)
    /\ UNCHANGED <<store, audited, resetVars>>

(* No caller of Append fills AuditEntry.IPAddress, and ip_address is an    *)
(* INET column, which takes an address or NULL but not an empty string.    *)
AuditAddress == ""

AppendAudit(u, address) ==
    audited' = IF address = "" THEN audited ELSE audited \cup {u}

(* Audit and token failures are only logged.                               *)
CreateAudit(c) ==
    /\ creates[c].pc = "audit"
    /\ AppendAudit(creates[c].user, AuditAddress)
    /\ creates' = [creates EXCEPT ![c].pc = "mint"]
    /\ UNCHANGED <<store, resetVars>>

(* GenerateActivationToken; its raw token is discarded by the caller.      *)
CreateMint(c) ==
    /\ creates[c].pc = "mint"
    /\ \/ \E t \in FreshTokens : CreateToken(t, creates[c].user)
       \/ Faults /\ UNCHANGED tokens
       \/ ~ Stored(creates[c].user) /\ UNCHANGED tokens
    /\ CreateEnd(c)
    /\ UNCHANGED <<users, sessions, audited, resetVars>>

CreateAbandon(c) ==
    /\ Faults
    /\ creates[c].pc # "idle"
    /\ CreateEnd(c)
    /\ UNCHANGED <<store, audited, resetVars>>

-----------------------------------------------------------------------------
(* ActivationHandler.ResetPass                                             *)

ResetGoto(r, pc) ==
    /\ resets' = [resets EXCEPT ![r].pc = pc]
    /\ UNCHANGED openAtStart

ResetEnd(r) ==
    /\ resets'      = [resets EXCEPT ![r] = NoReset]
    /\ openAtStart' = [openAtStart EXCEPT ![r] = FALSE]

(* FindUserByTokenHash: the token ...                                      *)
ResetLookup(r, t, p) ==
    /\ resets[r].pc = "idle"
    /\ t \in delivered
    /\ t \in FindByHash(t)
    /\ resets' = [resets EXCEPT ![r] =
                    [pc |-> "findUser", token |-> t, user |-> tokens[t].user, pwd |-> p]]
    /\ openAtStart' = [openAtStart EXCEPT ![r] = Open(t)]
    /\ UNCHANGED <<store, creates, audited, delivered, redeemers>>

(* ... and its account, of any status.                                     *)
ResetFindUser(r) ==
    /\ resets[r].pc = "findUser"
    /\ IF FindByID(resets[r].user) # {} THEN ResetGoto(r, "validate") ELSE ResetEnd(r)
    /\ UNCHANGED <<store, creates, audited, delivered, redeemers>>

(* Mutant: the token only has to exist.                                    *)
ResetValidateExistence(r) ==
    /\ resets[r].pc = "validate"
    /\ IF FindByHash(resets[r].token) # {} THEN ResetGoto(r, "markUsed") ELSE ResetEnd(r)
    /\ UNCHANGED <<store, creates, audited, delivered, redeemers>>

(* ValidateAndConsumeToken reads the token again ...                       *)
ResetValidate(r) ==
    /\ resets[r].pc = "validate"
    /\ IF Open(resets[r].token) THEN ResetGoto(r, "markUsed") ELSE ResetEnd(r)
    /\ UNCHANGED <<store, creates, audited, delivered, redeemers>>

(* Mutant: the token stays unused.                                         *)
ResetWithoutMark(r) ==
    /\ resets[r].pc = "markUsed"
    /\ redeemers' = [redeemers EXCEPT ![resets[r].token] = @ \cup {r}]
    /\ IF resets[r].pwd = Null THEN ResetEnd(r) ELSE ResetGoto(r, "setStatus")
    /\ UNCHANGED <<store, creates, audited, delivered>>

(* ... and marks it used, whoever else did so since; then the password is  *)
(* hashed, which may fail.                                                 *)
ResetMarkUsed(r) ==
    /\ resets[r].pc = "markUsed"
    /\ MarkUsed(resets[r].token)
    /\ redeemers' = [redeemers EXCEPT ![resets[r].token] = @ \cup {r}]
    /\ IF resets[r].pwd = Null THEN ResetEnd(r) ELSE ResetGoto(r, "setStatus")
    /\ UNCHANGED <<users, sessions, creates, audited, delivered>>

(* Mutant: a status the CHECK constraint of identity_users rejects.        *)
ResetStatusMisspelt(r) ==
    /\ resets[r].pc = "setStatus"
    /\ UpdateStatus(resets[r].user, "ACTIVATED")
    /\ ResetGoto(r, "setPassword")
    /\ UNCHANGED <<sessions, tokens, creates, audited, delivered, redeemers>>

(* Mutant: ActivateUser returns after the status.                          *)
ResetStatusOnly(r) ==
    /\ resets[r].pc = "setStatus"
    /\ UpdateStatus(resets[r].user, "ACTIVE")
    /\ ResetEnd(r)
    /\ UNCHANGED <<sessions, tokens, creates, audited, delivered, redeemers>>

(* ActivateUser: first the status, whatever it was, ...                    *)
ResetStatus(r) ==
    /\ resets[r].pc = "setStatus"
    /\ UpdateStatus(resets[r].user, "ACTIVE")
    /\ ResetGoto(r, "setPassword")
    /\ UNCHANGED <<sessions, tokens, creates, audited, delivered, redeemers>>

(* ... then the password.                                                  *)
ResetPassword(r) ==
    /\ resets[r].pc = "setPassword"
    /\ UpdatePasswordHash(resets[r].user, resets[r].pwd)
    /\ ResetEnd(r)
    /\ UNCHANGED <<sessions, tokens, creates, audited, delivered, redeemers>>

ResetAbandon(r) ==
    /\ Faults
    /\ resets[r].pc # "idle"
    /\ ResetEnd(r)
    /\ UNCHANGED <<store, creates, audited, delivered, redeemers>>

-----------------------------------------------------------------------------
(* The rest of the world                                                   *)

(* ActivationService.GenerateActivationToken, which no handler calls: an   *)
(* operator mints a token and hands its raw value to the account's owner.  *)
(* Bound: it leaves a token id to every CreateUser in flight.              *)
OperatorMint(u) ==
    /\ Cardinality(FreshTokens) > Cardinality(Creating)
    /\ \E t \in FreshTokens :
         /\ CreateToken(t, u)
         /\ delivered' = delivered \cup {t}
    /\ UNCHANGED <<users, sessions, creates, resets, audited, openAtStart, redeemers>>

OperatorOrClock ==
    /\ \/ \E u \in UserIds, status \in OperatorStatuses : OperatorSetStatus(u, status)
       \/ \E u \in UserIds : OperatorSoftDelete(u)
       \/ \E t \in TokenIds : TokenExpires(t) \/ OperatorRevokeToken(t)
    /\ UNCHANGED <<creates, audited, resetVars>>

WipeAccounts ==
    /\ DeleteEnabled
    /\ \E u \in UserIds : Visible(u)
    /\ DeleteAllData
    /\ audited' = {}
    /\ UNCHANGED <<creates, resetVars>>

-----------------------------------------------------------------------------
ServeCreate(c) ==
    \/ CreateInsert(c)
    \/ CreateConflict(c)
    \/ CreateAssignRole(c)
    \/ CreateRoleRefused(c)
    \/ CreateAudit(c)
    \/ CreateMint(c)

ServeReset(r) ==
    \/ ResetFindUser(r)
    \/ ResetValidate(r)
    \/ ResetMarkUsed(r)
    \/ ResetStatus(r)
    \/ ResetPassword(r)

AccountNext ==
    \/ \E c \in Creators :
         \/ \E e \in Emails, roleKnown \in BOOLEAN : CreateLookup(c, e, roleKnown)
         \/ ServeCreate(c)
         \/ CreateAbandon(c)
    \/ \E r \in Resets :
         \/ \E t \in TokenIds, p \in Passwords \cup {Null} : ResetLookup(r, t, p)
         \/ ServeReset(r)
         \/ ResetAbandon(r)
    \/ \E u \in UserIds : OperatorMint(u)
    \/ OperatorOrClock
    \/ WipeAccounts

AccountSpec == AccountInit /\ [][AccountNext]_accountVars

-----------------------------------------------------------------------------
(* Properties                                                              *)

(* Two CreateUser requests can both find an address free; only the UNIQUE  *)
(* constraint, which also spans soft-deleted rows, keeps addresses unique. *)
EmailUnique ==
    \A u, v \in UserIds :
       Stored(u) /\ Stored(v) /\ users[u].email = users[v].email => u = v

(* An account has a password of somebody's choice only if a token of that  *)
(* very account was consumed: ResetPass consumes before it activates.      *)
PasswordNeedsToken ==
    \A u \in UserIds :
       Stored(u) /\ users[u].pwd # Placeholder =>
          \E t \in TokenIds :
             tokens[t].row = "stored" /\ tokens[t].user = u /\ tokens[t].used

(* The check of a token is not atomic with its consumption, so one token   *)
(* can be consumed twice.  But whoever consumes it began while it was      *)
(* still redeemable: a token consumed, revoked or expired before a request *)
(* began is never consumed by that request.                                *)
ConsumedWhileOpen ==
    \A t \in TokenIds, r \in Resets :
       r \in redeemers'[t] /\ r \notin redeemers[t] => openAtStart[r]

LateReuseRejected == [][ConsumedWhileOpen]_accountVars

(* CreateUser mints its token last: an account whose token exists, and so  *)
(* can be activated, has its role, whatever raced or failed before.        *)
(* Tokens an operator minted (those delivered) are not CreateUser's.       *)
MintedAccountHasRole ==
    \A t \in TokenIds :
       tokens[t].row = "stored" /\ t \notin delivered => users[tokens[t].user].hasRole

(* The inductive invariant: what each request may rely on, and what the    *)
(* tables keep.                                                            *)

(* A CreateUser past its INSERT has an account, and past AssignRole one    *)
(* with a role, unless the tables were truncated.                          *)
CreateInv(c) ==
    /\ creates[c].pc \in {"assignRole", "audit", "mint"} =>
          creates[c].user \in UserIds /\ users[creates[c].user].row # "unborn"
    /\ creates[c].pc \in {"audit", "mint"} /\ Stored(creates[c].user) =>
          users[creates[c].user].hasRole

(* A ResetPass has a token and its account, which only a truncation takes  *)
(* away, and then both.                                                    *)
ResetHasToken(r) ==
    resets[r].pc # "idle" =>
       /\ resets[r].token \in TokenIds /\ tokens[resets[r].token].row # "unborn"
       /\ resets[r].user \in UserIds /\ users[resets[r].user].row # "unborn"
       /\ Stored(resets[r].user) =>
             /\ tokens[resets[r].token].row = "stored"
             /\ tokens[resets[r].token].user = resets[r].user

(* A token that is open now was open when the request began, and one that  *)
(* is about to be consumed was so in any case.                             *)
ResetBeganOpen(r) ==
    /\ resets[r].pc \in {"findUser", "validate"} /\ Open(resets[r].token) => openAtStart[r]
    /\ resets[r].pc = "markUsed" => openAtStart[r]

(* ActivateUser comes after the consumption and bcrypt.                    *)
ResetConsumed(r) ==
    resets[r].pc \in {"setStatus", "setPassword"} =>
       /\ resets[r].pwd \in Passwords
       /\ Stored(resets[r].user) => tokens[resets[r].token].used

ResetInv(r) == ResetHasToken(r) /\ ResetBeganOpen(r) /\ ResetConsumed(r)

TokenOwnerStored ==
    \A t \in TokenIds :
       tokens[t].row = "stored" => tokens[t].user \in UserIds /\ Stored(tokens[t].user)

AccountTables ==
    TokenOwnerStored /\ EmailUnique /\ PasswordNeedsToken /\ MintedAccountHasRole

AccountInv ==
    /\ AccountTypeOK
    /\ \A c \in Creators : CreateInv(c)
    /\ \A r \in Resets : ResetInv(r)
    /\ AccountTables

(* "has already been consumed": a one-use token is consumed once.          *)
TokenConsumedOnce ==
    \A t \in TokenIds : Cardinality(redeemers[t]) <= 1

(* "The user insert and role assignment are logically atomic": an account  *)
(* without a role belongs to a CreateUser still in flight.                 *)
AccountHasRole ==
    \A u \in UserIds :
       Stored(u) /\ ~ users[u].hasRole => \E c \in Creators : creates[c].user = u

(* Every request ends, whatever the operator, the clock and a truncation   *)
(* do to the rows it works on.                                             *)
EveryAccountRequestEnds ==
    /\ \A c \in Creators : creates[c].pc # "idle" ~> creates[c].pc = "idle"
    /\ \A r \in Resets : resets[r].pc # "idle" ~> resets[r].pc = "idle"
=============================================================================
