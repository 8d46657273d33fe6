------------------------ MODULE AccountServiceProofs ------------------------
(***************************************************************************)
(* Theorems about AccountService, for any number of accounts, tokens and   *)
(* requests in flight, with failures and truncation enabled or not.        *)
(***************************************************************************)
EXTENDS AccountService, IdentityStoreProofs

(* No process, no accounts: the invariant holds.                           *)
LEMMA AccountInitInv == AccountInit => AccountInv
<1> SUFFICES ASSUME AccountInit PROVE AccountInv
  OBVIOUS
<1>1. /\ BlankUser("unborn") \in UserRow /\ BlankSession("unborn") \in SessionRow
      /\ BlankToken("unborn") \in TokenRow
  BY DEF BlankUser, BlankSession, BlankToken, UserRow, UserStatus, SessionRow, TokenRow
<1>2. NoCreate \in CreateFrame /\ NoReset \in ResetFrame
  BY DEF NoCreate, NoReset, CreateFrame, ResetFrame
<1>3. AccountTypeOK
  BY <1>1, <1>2 DEF AccountInit, AccountTypeOK, StoreTypeOK
<1>4. \A c \in Creators : CreateInv(c)
  BY DEF AccountInit, NoCreate, CreateInv
<1>5. \A r \in Resets : ResetInv(r)
  BY DEF AccountInit, NoReset, ResetInv, ResetHasToken, ResetBeganOpen, ResetConsumed
<1>6. AccountTables
  BY DEF AccountInit, BlankUser, BlankToken, Stored, AccountTables, TokenOwnerStored,
         EmailUnique, PasswordNeedsToken, MintedAccountHasRole
<1>7. QED
  BY <1>3, <1>4, <1>5, <1>6 DEF AccountInv

(* A request that did not move keeps what it relies on.                    *)
LEMMA CreateKept ==
  ASSUME AccountTypeOK, Forward, NEW c \in Creators, CreateInv(c), creates'[c] = creates[c]
  PROVE  CreateInv(c)'
  BY DEF CreateInv, Forward, Stored

(* So does a ResetPass, whose token may not be opened again.               *)
LEMMA ResetKept ==
  ASSUME AccountTypeOK, Forward, NEW r \in Resets, ResetInv(r),
         resets'[r] = resets[r], openAtStart'[r] = openAtStart[r]
  PROVE  ResetInv(r)'
<1>1. ResetHasToken(r)'
  BY DEF ResetInv, ResetHasToken, Forward
<1>2. ResetBeganOpen(r)'
  BY DEF ResetInv, ResetHasToken, ResetBeganOpen, Forward
<1>3. ResetConsumed(r)'
  BY DEF ResetInv, ResetHasToken, ResetConsumed, Forward
<1>4. QED
  BY <1>1, <1>2, <1>3 DEF ResetInv

(* An idle slot relies on nothing.                                         *)
LEMMA CreateIdle ==
  ASSUME NEW c \in Creators, creates \in [Creators -> CreateFrame], CreateEnd(c)
  PROVE  /\ creates' \in [Creators -> CreateFrame]
         /\ CreateInv(c)'
         /\ \A d \in Creators : d # c => creates'[d] = creates[d]
  BY DEF CreateEnd, NoCreate, CreateFrame, CreateInv

(* Neither does one of ResetPass.                                          *)
LEMMA ResetIdle ==
  ASSUME NEW r \in Resets, resets \in [Resets -> ResetFrame],
         openAtStart \in [Resets -> BOOLEAN], ResetEnd(r)
  PROVE  /\ resets' \in [Resets -> ResetFrame] /\ openAtStart' \in [Resets -> BOOLEAN]
         /\ ResetInv(r)'
         /\ \A q \in Resets : q # r => resets'[q] = resets[q] /\ openAtStart'[q] = openAtStart[q]
  BY DEF ResetEnd, NoReset, ResetFrame, ResetInv, ResetHasToken, ResetBeganOpen, ResetConsumed

(* A request that moves on keeps its locals.                               *)
LEMMA ResetMoves ==
  ASSUME NEW r \in Resets, resets \in [Resets -> ResetFrame],
         NEW pc \in {"idle", "findUser", "validate", "markUsed", "setStatus", "setPassword"},
         ResetGoto(r, pc)
  PROVE  /\ resets' \in [Resets -> ResetFrame] /\ openAtStart' = openAtStart
         /\ resets'[r].pc = pc /\ resets'[r].token = resets[r].token
         /\ resets'[r].user = resets[r].user /\ resets'[r].pwd = resets[r].pwd
         /\ \A q \in Resets : q # r => resets'[q] = resets[q] /\ openAtStart'[q] = openAtStart[q]
  BY DEF ResetGoto, ResetFrame

(* A step that inserts no row and stores no password keeps what holds of   *)
(* the tables.                                                             *)
LEMMA TablesKept ==
  ASSUME AccountTables, Forward, Settled, delivered' = delivered
  PROVE  AccountTables'
<1>1. \A t \in TokenIds : tokens'[t].row = "stored" =>
         /\ tokens[t].row = "stored" /\ tokens'[t].user = tokens[t].user
         /\ tokens[t].user \in UserIds /\ Stored(tokens[t].user) /\ Stored(tokens[t].user)'
  <2> SUFFICES ASSUME NEW t \in TokenIds, tokens'[t].row = "stored"
               PROVE  /\ tokens[t].row = "stored" /\ tokens'[t].user = tokens[t].user
                      /\ tokens[t].user \in UserIds
                      /\ Stored(tokens[t].user) /\ Stored(tokens[t].user)'
    OBVIOUS
  <2>1. tokens[t].row = "stored" /\ \A u \in UserIds : Stored(u) => Stored(u)'
    BY DEF Settled
  <2>2. tokens[t].user \in UserIds /\ Stored(tokens[t].user)
    BY <2>1 DEF AccountTables, TokenOwnerStored
  <2>3. tokens'[t].user = tokens[t].user
    BY <2>1 DEF Forward
  <2>4. QED
    BY <2>1, <2>2, <2>3
<1>2. \A u \in UserIds : Stored(u)' =>
         Stored(u) /\ users'[u].email = users[u].email /\ users'[u].pwd = users[u].pwd
                   /\ (users[u].hasRole => users'[u].hasRole)
  BY DEF Forward, Settled
<1>3. TokenOwnerStored'
  <2> SUFFICES ASSUME NEW t \in TokenIds, tokens'[t].row = "stored"
               PROVE  tokens'[t].user \in UserIds /\ Stored(tokens[t].user)'
    BY <1>1 DEF TokenOwnerStored
  <2>1. QED
    BY <1>1
<1>4. EmailUnique'
  BY <1>2 DEF AccountTables, EmailUnique
<1>5. PasswordNeedsToken'
  <2> SUFFICES ASSUME NEW u \in UserIds, Stored(u)', users'[u].pwd # Placeholder
               PROVE  \E t \in TokenIds : tokens'[t].row = "stored" /\ tokens'[t].user = u
                                          /\ tokens'[t].used
    BY DEF PasswordNeedsToken
  <2>1. Stored(u) /\ users[u].pwd # Placeholder
    BY <1>2
  <2>2. PICK t \in TokenIds : tokens[t].row = "stored" /\ tokens[t].user = u /\ tokens[t].used
    BY <2>1 DEF AccountTables, PasswordNeedsToken
  <2>3. tokens'[t].row = "stored"
    BY <2>1, <2>2 DEF Forward
  <2>4. QED
    BY <2>2, <2>3 DEF Forward
<1>6. MintedAccountHasRole'
  BY <1>1, <1>2 DEF AccountTables, MintedAccountHasRole
<1>7. QED
  BY <1>3, <1>4, <1>5, <1>6 DEF AccountTables
-----------------------------------------------------------------------------
(* The three statements that do insert a row or store a password.          *)

(* INSERT INTO identity_users: UNIQUE (email) spans all stored rows.       *)
LEMMA AccountInserted ==
  ASSUME AccountInv, NEW u \in FreshUsers, NEW e \in Emails \cup {Null}, CreateUser(u, e),
         UNCHANGED <<tokens, delivered>>
  PROVE  users' \in [UserIds -> UserRow] /\ Forward /\ AccountTables'
<1> USE DEF AccountInv, AccountTypeOK, StoreTypeOK
<1> DEFINE row == [BlankUser("live") EXCEPT !.email = e]
<1>1. u \in UserIds /\ users[u].row = "unborn"
  BY DEF FreshUsers
<1>2. /\ row \in UserRow
      /\ row.row = "live" /\ row.email = e /\ row.pwd = Placeholder
  BY DEF BlankUser, UserRow, UserStatus
<1>3. users' = [users EXCEPT ![u] = row] /\ ~ EmailTaken(e)
  BY DEF CreateUser
<1> HIDE DEF row
<1>4. users' \in [UserIds -> UserRow] /\ users'[u] = row
      /\ \A x \in UserIds : x # u => users'[x] = users[x]
  BY <1>1, <1>2, <1>3
<1>5. ~ Stored(u) /\ \A x \in UserIds : x # u => Stored(x)' = Stored(x)
  BY <1>1, <1>4 DEF Stored
<1>6. Forward
  BY <1>1, <1>4, <1>5 DEF Forward, Open
<1>7. \A t \in TokenIds : tokens[t].row = "stored" =>
         tokens[t].user \in UserIds /\ tokens[t].user # u /\ Stored(tokens[t].user)
  BY <1>5 DEF AccountTables, TokenOwnerStored
<1>8. TokenOwnerStored'
  <2> SUFFICES ASSUME NEW t \in TokenIds, tokens[t].row = "stored"
               PROVE  tokens[t].user \in UserIds /\ Stored(tokens[t].user)'
    BY DEF TokenOwnerStored
  <2>1. QED
    BY <1>5, <1>7
<1>9. EmailUnique'
  BY <1>2, <1>3, <1>4, <1>5 DEF AccountTables, EmailUnique, EmailTaken
<1>10. PasswordNeedsToken'
  BY <1>2, <1>4, <1>5 DEF AccountTables, PasswordNeedsToken
<1>11. MintedAccountHasRole'
  BY <1>4, <1>7 DEF AccountTables, MintedAccountHasRole
<1>12. QED
  BY <1>4, <1>6, <1>8, <1>9, <1>10, <1>11 DEF AccountTables

(* INSERT INTO identity_tokens, by a CreateUser that has assigned a role   *)
(* or by an operator who hands the raw token on.                           *)
LEMMA TokenInserted ==
  ASSUME AccountInv, NEW t \in FreshTokens, NEW u \in UserIds, CreateToken(t, u),
         UNCHANGED users, delivered \subseteq delivered', users[u].hasRole \/ t \in delivered'
  PROVE  tokens' \in [TokenIds -> TokenRow] /\ Forward /\ AccountTables'
<1> USE DEF AccountInv, AccountTypeOK, StoreTypeOK
<1> DEFINE row == [BlankToken("stored") EXCEPT !.user = u]
<1>1. t \in TokenIds /\ tokens[t].row = "unborn"
  BY DEF FreshTokens
<1>2. row \in TokenRow /\ row.row = "stored" /\ row.user = u
  BY DEF BlankToken, TokenRow
<1>3. tokens' = [tokens EXCEPT ![t] = row] /\ Stored(u)
  BY DEF CreateToken
<1> HIDE DEF row
<1>4. tokens' \in [TokenIds -> TokenRow] /\ tokens'[t] = row
      /\ \A x \in TokenIds : x # t => tokens'[x] = tokens[x]
  BY <1>1, <1>2, <1>3
<1>5. Forward
  BY <1>1, <1>4 DEF Forward, Open, Stored
<1>6. TokenOwnerStored' /\ EmailUnique' /\ MintedAccountHasRole'
  BY <1>2, <1>3, <1>4 DEF AccountTables, TokenOwnerStored, EmailUnique, MintedAccountHasRole,
     Stored
<1>7. PasswordNeedsToken'
  BY <1>1, <1>4 DEF AccountTables, PasswordNeedsToken, Stored
<1>8. QED
  BY <1>4, <1>5, <1>6, <1>7 DEF AccountTables

(* UPDATE of the password, by a ResetPass that consumed its token.         *)
LEMMA PasswordStored ==
  ASSUME AccountInv, NEW r \in Resets, resets[r].pc = "setPassword",
         UpdatePasswordHash(resets[r].user, resets[r].pwd), UNCHANGED <<tokens, delivered>>
  PROVE  users' \in [UserIds -> UserRow] /\ Forward /\ AccountTables'
<1> USE DEF AccountInv, AccountTypeOK, StoreTypeOK
<1>1. PICK u, t, p : u = resets[r].user /\ t = resets[r].token /\ p = resets[r].pwd
  OBVIOUS
<1>2. /\ u \in UserIds /\ t \in TokenIds /\ p \in Passwords
      /\ Stored(u) => tokens[t].row = "stored" /\ tokens[t].user = u /\ tokens[t].used
  BY <1>1 DEF ResetInv, ResetHasToken, ResetConsumed
<1>3. [users[u] EXCEPT !.pwd = p] \in UserRow
  BY <1>2 DEF UserRow
<1>4. users' = [users EXCEPT ![u] = IF Stored(u) THEN [users[u] EXCEPT !.pwd = p] ELSE users[u]]
  BY <1>1, <1>2 DEF UpdatePasswordHash, UpdateUser
<1>5. users' \in [UserIds -> UserRow]
  BY <1>2, <1>3, <1>4
<1>6. \A x \in UserIds : /\ users'[x].row = users[x].row /\ users'[x].email = users[x].email
                         /\ users'[x].hasRole = users[x].hasRole
                         /\ x # u \/ ~ Stored(u) => users'[x].pwd = users[x].pwd
  BY <1>2, <1>4 DEF UserRow
<1>7. \A x \in UserIds : Stored(x)' = Stored(x)
  BY <1>6 DEF Stored
<1>8. Forward
  BY <1>6, <1>7 DEF Forward, Open
<1>9. TokenOwnerStored' /\ EmailUnique' /\ MintedAccountHasRole'
  BY <1>6, <1>7 DEF AccountTables, TokenOwnerStored, EmailUnique, MintedAccountHasRole, Stored
<1>10. PasswordNeedsToken'
  <2> SUFFICES ASSUME NEW x \in UserIds, Stored(x), users'[x].pwd # Placeholder
               PROVE  \E s \in TokenIds : tokens[s].row = "stored" /\ tokens[s].user = x
                                          /\ tokens[s].used
    BY <1>7 DEF PasswordNeedsToken
  <2>1. CASE x = u
    BY <1>2, <2>1
  <2>2. CASE x # u
    BY <1>6, <2>2 DEF AccountTables, PasswordNeedsToken
  <2>3. QED
    BY <2>1, <2>2
<1>11. QED
  BY <1>5, <1>8, <1>9, <1>10 DEF AccountTables
-----------------------------------------------------------------------------
(* The invariant.                                                          *)

(* What a step of one request leaves to the others.                        *)
LEMMA OthersKept ==
  ASSUME AccountInv, AccountTypeOK', Forward, AccountTables',
         \A c \in Creators : creates'[c] = creates[c] \/ CreateInv(c)',
         \A r \in Resets : \/ resets'[r] = resets[r] /\ openAtStart'[r] = openAtStart[r]
                           \/ ResetInv(r)'
  PROVE  AccountInv'
<1>1. \A c \in Creators : CreateInv(c)'
  BY CreateKept DEF AccountInv
<1>2. \A r \in Resets : ResetInv(r)'
  BY ResetKept DEF AccountInv
<1>3. QED
  BY <1>1, <1>2 DEF AccountInv

(* Every step of a CreateUser keeps the invariant ...                      *)
LEMMA CreateStep ==
  ASSUME AccountInv, NEW c \in Creators,
         \/ \E e \in Emails, roleKnown \in BOOLEAN : CreateLookup(c, e, roleKnown)
         \/ ServeCreate(c)
         \/ CreateAbandon(c)
  PROVE  AccountInv'
<1> USE DEF AccountTypeOK, StoreTypeOK
<1>0. AccountTypeOK /\ AccountTables /\ CreateInv(c) /\ creates[c] \in CreateFrame
  BY DEF AccountInv
<1>1. ASSUME UNCHANGED <<store, audited, resetVars>>, CreateEnd(c)
      PROVE  AccountInv'
  <2>1. creates' \in [Creators -> CreateFrame] /\ CreateInv(c)'
        /\ \A d \in Creators : d # c => creates'[d] = creates[d]
    BY <1>0, <1>1, CreateIdle
  <2>2. AccountTypeOK' /\ Forward /\ Settled
    BY <1>0, <1>1, <2>1, UntouchedStore DEF store, resetVars
  <2>3. AccountTables'
    BY <1>0, <1>1, <2>2, TablesKept DEF resetVars
  <2>4. QED
    BY <1>1, <2>1, <2>2, <2>3, OthersKept DEF resetVars
<1>2. ASSUME NEW e \in Emails, NEW roleKnown \in BOOLEAN, CreateLookup(c, e, roleKnown)
      PROVE  AccountInv'
  <2>1. /\ creates' = [creates EXCEPT ![c] =
                         [pc |-> "insert", email |-> e, roleKnown |-> roleKnown, user |-> Null]]
        /\ UNCHANGED <<store, audited, resetVars>>
    BY <1>2 DEF CreateLookup
  <2>2. creates' \in [Creators -> CreateFrame] /\ CreateInv(c)'
    BY <1>0, <2>1 DEF CreateFrame, CreateInv
  <2>3. AccountTypeOK' /\ Forward /\ Settled
    BY <1>0, <2>1, <2>2, UntouchedStore DEF store, resetVars
  <2>4. AccountTables'
    BY <1>0, <2>1, <2>3, TablesKept DEF resetVars
  <2>5. QED
    BY <1>0, <2>1, <2>2, <2>3, <2>4, OthersKept DEF resetVars
<1>3. ASSUME CreateInsert(c) PROVE AccountInv'
  <2>1. PICK u \in FreshUsers :
          /\ CreateUser(u, creates[c].email)
          /\ creates' = [creates EXCEPT ![c].pc = "assignRole", ![c].user = u]
    BY <1>3 DEF CreateInsert
  <2>2. UNCHANGED <<sessions, tokens, audited, resetVars>>
    BY <1>3 DEF CreateInsert
  <2>3. creates[c].email \in Emails \cup {Null} /\ u \in UserIds
    BY <1>0 DEF CreateFrame, FreshUsers
  <2>4. users' \in [UserIds -> UserRow] /\ Forward /\ AccountTables'
    BY <2>1, <2>2, <2>3, AccountInserted DEF resetVars
  <2>5. [creates[c] EXCEPT !.pc = "assignRole", !.user = u] \in CreateFrame
    BY <1>0, <2>3 DEF CreateFrame
  <2>6. creates' \in [Creators -> CreateFrame] /\ creates'[c].pc = "assignRole"
        /\ creates'[c].user = u /\ \A d \in Creators : d # c => creates'[d] = creates[d]
    BY <1>0, <2>1, <2>5 DEF CreateFrame
  <2>7. users'[u].row = "live"
    BY <1>0, <2>1, <2>3 DEF CreateUser, BlankUser
  <2>8. CreateInv(c)'
    BY <2>3, <2>6, <2>7 DEF CreateInv
  <2>9. AccountTypeOK'
    BY <1>0, <2>2, <2>4, <2>6 DEF resetVars
  <2>10. QED
    BY <2>2, <2>4, <2>6, <2>8, <2>9, OthersKept DEF resetVars
<1>4. ASSUME CreateAssignRole(c) PROVE AccountInv'
  <2>1. /\ creates[c].pc = "assignRole" /\ AssignRole(creates[c].user)
        /\ creates' = [creates EXCEPT ![c].pc = "audit"]
        /\ UNCHANGED <<sessions, tokens, audited, resetVars>>
    BY <1>4 DEF CreateAssignRole
  <2>2. creates[c].user \in UserIds /\ users[creates[c].user].row # "unborn"
    BY <1>0, <2>1 DEF CreateInv
  <2>3. users' \in [UserIds -> UserRow] /\ Forward /\ Settled
    <3>1. "ACTIVE" \in UserStatus
      BY DEF UserStatus
    <3>2. QED
      BY <1>0, <2>1, <2>2, <3>1, AccountStatements
  <2>4. AccountTables'
    BY <1>0, <2>1, <2>3, TablesKept DEF resetVars
  <2>5. creates' \in [Creators -> CreateFrame] /\ creates'[c].user = creates[c].user
        /\ \A d \in Creators : d # c => creates'[d] = creates[d]
    BY <1>0, <2>1 DEF CreateFrame
  <2>6. users'[creates[c].user].hasRole
    BY <1>0, <2>1, <2>2 DEF AssignRole, UserRow
  <2>7. CreateInv(c)'
    BY <2>2, <2>3, <2>5, <2>6 DEF CreateInv, Forward
  <2>8. AccountTypeOK'
    BY <1>0, <2>1, <2>3, <2>5 DEF resetVars
  <2>9. QED
    BY <2>1, <2>3, <2>4, <2>5, <2>7, <2>8, OthersKept DEF resetVars
<1>5. ASSUME CreateAudit(c) PROVE AccountInv'
  <2>1. /\ creates[c].pc = "audit" /\ audited' = audited
        /\ creates' = [creates EXCEPT ![c].pc = "mint"]
        /\ UNCHANGED <<store, resetVars>>
    BY <1>5 DEF CreateAudit, AppendAudit, AuditAddress
  <2>2. creates' \in [Creators -> CreateFrame] /\ CreateInv(c)'
        /\ \A d \in Creators : d # c => creates'[d] = creates[d]
    BY <1>0, <2>1 DEF CreateFrame, CreateInv, store, Stored
  <2>3. AccountTypeOK' /\ Forward /\ Settled
    BY <1>0, <2>1, <2>2, UntouchedStore DEF store, resetVars
  <2>4. AccountTables'
    BY <1>0, <2>1, <2>3, TablesKept DEF resetVars
  <2>5. QED
    BY <2>1, <2>2, <2>3, <2>4, OthersKept DEF resetVars
<1>6. ASSUME CreateMint(c) PROVE AccountInv'
  <2>1. CASE UNCHANGED tokens
    <3>1. UNCHANGED <<store, audited, resetVars>> /\ CreateEnd(c)
      BY <1>6, <2>1 DEF CreateMint, store
    <3>2. QED
      BY <1>1, <3>1
  <2>2. CASE \E t \in FreshTokens : CreateToken(t, creates[c].user)
    <3>1. PICK t \in FreshTokens : CreateToken(t, creates[c].user)
      BY <2>2
    <3>2. /\ creates[c].pc = "mint" /\ CreateEnd(c)
          /\ UNCHANGED <<users, sessions, audited, resetVars>>
      BY <1>6 DEF CreateMint
    <3>3. creates[c].user \in UserIds /\ users[creates[c].user].hasRole
      BY <1>0, <3>1, <3>2 DEF CreateInv, CreateToken
    <3>4. tokens' \in [TokenIds -> TokenRow] /\ Forward /\ AccountTables'
      BY <3>1, <3>2, <3>3, TokenInserted DEF resetVars
    <3>5. creates' \in [Creators -> CreateFrame] /\ CreateInv(c)'
          /\ \A d \in Creators : d # c => creates'[d] = creates[d]
      BY <1>0, <3>2, CreateIdle
    <3>6. AccountTypeOK'
      BY <1>0, <3>2, <3>4, <3>5 DEF resetVars
    <3>7. QED
      BY <3>2, <3>4, <3>5, <3>6, OthersKept DEF resetVars
  <2>3. QED
    BY <1>6, <2>1, <2>2 DEF CreateMint
<1>7. ASSUME CreateConflict(c) \/ CreateRoleRefused(c) \/ CreateAbandon(c) PROVE AccountInv'
  BY <1>1, <1>7 DEF CreateConflict, CreateRoleRefused, CreateAbandon
<1>8. QED
  BY <1>2, <1>3, <1>4, <1>5, <1>6, <1>7 DEF ServeCreate

(* ... so does every step of a ResetPass ...                               *)
LEMMA ResetStep ==
  ASSUME AccountInv, NEW r \in Resets,
         \/ \E t \in TokenIds, p \in Passwords \cup {Null} : ResetLookup(r, t, p)
         \/ ServeReset(r)
         \/ ResetAbandon(r)
  PROVE  AccountInv'
<1> USE DEF AccountTypeOK, StoreTypeOK
<1>0. AccountTypeOK /\ AccountTables /\ ResetInv(r) /\ resets[r] \in ResetFrame
  BY DEF AccountInv
<1>a. ASSUME UNCHANGED <<store, creates, audited, delivered, redeemers>>,
             resets' \in [Resets -> ResetFrame], openAtStart' \in [Resets -> BOOLEAN],
             \A q \in Resets : q # r => resets'[q] = resets[q] /\ openAtStart'[q] = openAtStart[q],
             ResetInv(r)'
      PROVE  AccountInv'
  <2>1. AccountTypeOK' /\ Forward /\ Settled
    BY <1>0, <1>a, UntouchedStore DEF store
  <2>2. AccountTables'
    BY <1>0, <1>a, <2>1, TablesKept
  <2>3. QED
    BY <1>a, <2>1, <2>2, OthersKept
<1>b. ASSUME UNCHANGED <<store, creates, audited, delivered, redeemers>>, ResetEnd(r)
      PROVE  AccountInv'
  BY <1>0, <1>a, <1>b, ResetIdle
<1>1. ASSUME NEW t \in TokenIds, NEW p \in Passwords \cup {Null}, ResetLookup(r, t, p)
      PROVE  AccountInv'
  <2>1. /\ tokens[t].row = "stored"
        /\ resets' = [resets EXCEPT ![r] =
                        [pc |-> "findUser", token |-> t, user |-> tokens[t].user, pwd |-> p]]
        /\ openAtStart' = [openAtStart EXCEPT ![r] = Open(t)]
        /\ UNCHANGED <<store, creates, audited, delivered, redeemers>>
    BY <1>1 DEF ResetLookup, FindByHash
  <2>2. tokens[t].user \in UserIds /\ Stored(tokens[t].user)
    BY <1>0, <2>1 DEF AccountTables, TokenOwnerStored
  <2>3. Open(t) \in BOOLEAN
    BY DEF Open
  <2>4. /\ resets' \in [Resets -> ResetFrame] /\ openAtStart' \in [Resets -> BOOLEAN]
        /\ resets'[r].pc = "findUser" /\ resets'[r].token = t
        /\ resets'[r].user = tokens[t].user /\ openAtStart'[r] = Open(t)
        /\ \A q \in Resets : q # r => resets'[q] = resets[q] /\ openAtStart'[q] = openAtStart[q]
    BY <1>0, <2>1, <2>2, <2>3 DEF ResetFrame
  <2>5. ResetHasToken(r)'
    BY <2>1, <2>2, <2>4 DEF ResetHasToken, store, Stored
  <2>6. ResetBeganOpen(r)' /\ ResetConsumed(r)'
    BY <2>1, <2>4 DEF ResetBeganOpen, ResetConsumed, store, Open
  <2>7. QED
    BY <1>a, <2>1, <2>4, <2>5, <2>6 DEF ResetInv
<1>2. ASSUME ResetFindUser(r) \/ ResetValidate(r) PROVE AccountInv'
  <2>1. CASE ResetEnd(r)
    BY <1>2, <1>b, <2>1 DEF ResetFindUser, ResetValidate
  <2>2. CASE resets[r].pc = "findUser" /\ ResetGoto(r, "validate")
    <3>1. /\ resets' \in [Resets -> ResetFrame] /\ openAtStart' = openAtStart
          /\ resets'[r].pc = "validate" /\ resets'[r].token = resets[r].token
          /\ resets'[r].user = resets[r].user
          /\ \A q \in Resets : q # r => resets'[q] = resets[q] /\ openAtStart'[q] = openAtStart[q]
      BY <1>0, <2>2, ResetMoves
    <3>2. UNCHANGED <<store, creates, audited, delivered, redeemers>>
      BY <1>2 DEF ResetFindUser, ResetValidate
    <3>3. ResetInv(r)'
      BY <1>0, <2>2, <3>1, <3>2 DEF ResetInv, ResetHasToken, ResetBeganOpen, ResetConsumed,
         store, Stored, Open
    <3>4. QED
      BY <1>0, <1>a, <3>1, <3>2, <3>3
  <2>3. CASE resets[r].pc = "validate" /\ Open(resets[r].token) /\ ResetGoto(r, "markUsed")
    <3>1. /\ resets' \in [Resets -> ResetFrame] /\ openAtStart' = openAtStart
          /\ resets'[r].pc = "markUsed" /\ resets'[r].token = resets[r].token
          /\ resets'[r].user = resets[r].user
          /\ \A q \in Resets : q # r => resets'[q] = resets[q] /\ openAtStart'[q] = openAtStart[q]
      BY <1>0, <2>3, ResetMoves
    <3>2. UNCHANGED <<store, creates, audited, delivered, redeemers>>
      BY <1>2 DEF ResetFindUser, ResetValidate
    <3>3. ResetInv(r)'
      BY <1>0, <2>3, <3>1, <3>2 DEF ResetInv, ResetHasToken, ResetBeganOpen, ResetConsumed,
         store, Stored, Open
    <3>4. QED
      BY <1>0, <1>a, <3>1, <3>2, <3>3
  <2>4. QED
    BY <1>2, <2>1, <2>2, <2>3 DEF ResetFindUser, ResetValidate
<1>3. ASSUME ResetMarkUsed(r) PROVE AccountInv'
  <2>1. /\ resets[r].pc = "markUsed" /\ MarkUsed(resets[r].token)
        /\ redeemers' = [redeemers EXCEPT ![resets[r].token] = @ \cup {r}]
        /\ UNCHANGED <<users, sessions, creates, audited, delivered>>
    BY <1>3 DEF ResetMarkUsed
  <2>2. resets[r].token \in TokenIds
    BY <1>0, <2>1 DEF ResetInv, ResetHasToken
  <2>3. tokens' \in [TokenIds -> TokenRow] /\ Forward /\ Settled
    BY <1>0, <2>1, <2>2, TokenStatements
  <2>4. AccountTables'
    BY <1>0, <2>1, <2>3, TablesKept
  <2>5. redeemers' \in [TokenIds -> SUBSET Resets]
    BY <1>0, <2>1, <2>2
  <2>6. CASE ResetEnd(r)
    <3>1. /\ resets' \in [Resets -> ResetFrame] /\ openAtStart' \in [Resets -> BOOLEAN]
          /\ ResetInv(r)'
          /\ \A q \in Resets : q # r => resets'[q] = resets[q] /\ openAtStart'[q] = openAtStart[q]
      BY <1>0, <2>6, ResetIdle
    <3>2. AccountTypeOK'
      BY <1>0, <2>1, <2>3, <2>5, <3>1
    <3>3. QED
      BY <2>1, <2>3, <2>4, <3>1, <3>2, OthersKept
  <2>7. CASE resets[r].pwd # Null /\ ResetGoto(r, "setStatus")
    <3>1. /\ resets' \in [Resets -> ResetFrame] /\ openAtStart' = openAtStart
          /\ resets'[r].pc = "setStatus" /\ resets'[r].token = resets[r].token
          /\ resets'[r].user = resets[r].user /\ resets'[r].pwd = resets[r].pwd
          /\ \A q \in Resets : q # r => resets'[q] = resets[q] /\ openAtStart'[q] = openAtStart[q]
      BY <1>0, <2>7, ResetMoves
    <3>2. AccountTypeOK'
      BY <1>0, <2>1, <2>3, <2>5, <3>1
    <3>3. resets[r].pwd \in Passwords
      BY <1>0, <2>7 DEF ResetFrame
    <3>4. ResetHasToken(r)'
      BY <1>0, <2>1, <2>3, <3>1 DEF ResetInv, ResetHasToken, Forward, Stored
    <3>5. tokens[resets[r].token].row = "stored" => tokens'[resets[r].token].used
      BY <1>0, <2>1, <2>2 DEF MarkUsed, TokenRow
    <3>6. ResetBeganOpen(r)' /\ ResetConsumed(r)'
      BY <1>0, <2>1, <3>1, <3>3, <3>5 DEF ResetInv, ResetHasToken, ResetBeganOpen,
         ResetConsumed, Stored
    <3>7. QED
      BY <2>1, <2>3, <2>4, <3>1, <3>2, <3>4, <3>6, OthersKept DEF ResetInv
  <2>8. QED
    BY <1>3, <2>6, <2>7 DEF ResetMarkUsed
<1>4. ASSUME ResetStatus(r) PROVE AccountInv'
  <2>1. /\ resets[r].pc = "setStatus" /\ UpdateStatus(resets[r].user, "ACTIVE")
        /\ ResetGoto(r, "setPassword")
        /\ UNCHANGED <<sessions, tokens, creates, audited, delivered, redeemers>>
    BY <1>4 DEF ResetStatus
  <2>2. resets[r].user \in UserIds
    BY <1>0, <2>1 DEF ResetInv, ResetHasToken
  <2>3. users' \in [UserIds -> UserRow] /\ Forward /\ Settled
    <3>1. "ACTIVE" \in UserStatus
      BY DEF UserStatus
    <3>2. QED
      BY <1>0, <2>1, <2>2, <3>1, AccountStatements
  <2>4. AccountTables'
    BY <1>0, <2>1, <2>3, TablesKept
  <2>5. /\ resets' \in [Resets -> ResetFrame] /\ openAtStart' = openAtStart
        /\ resets'[r].pc = "setPassword" /\ resets'[r].token = resets[r].token
        /\ resets'[r].user = resets[r].user /\ resets'[r].pwd = resets[r].pwd
        /\ \A q \in Resets : q # r => resets'[q] = resets[q] /\ openAtStart'[q] = openAtStart[q]
    BY <1>0, <2>1, ResetMoves
  <2>6. AccountTypeOK'
    BY <1>0, <2>1, <2>3, <2>5
  <2>7. ResetHasToken(r)'
    BY <1>0, <2>1, <2>3, <2>5 DEF ResetInv, ResetHasToken, Forward
  <2>8. ResetBeganOpen(r)' /\ ResetConsumed(r)'
    BY <1>0, <2>1, <2>2, <2>3, <2>5 DEF ResetInv, ResetHasToken, ResetBeganOpen, ResetConsumed,
       Forward
  <2>9. QED
    BY <2>1, <2>3, <2>4, <2>5, <2>6, <2>7, <2>8, OthersKept DEF ResetInv
<1>5. ASSUME ResetPassword(r) PROVE AccountInv'
  <2>1. /\ resets[r].pc = "setPassword"
        /\ UpdatePasswordHash(resets[r].user, resets[r].pwd) /\ ResetEnd(r)
        /\ UNCHANGED <<sessions, tokens, creates, audited, delivered, redeemers>>
    BY <1>5 DEF ResetPassword
  <2>2. users' \in [UserIds -> UserRow] /\ Forward /\ AccountTables'
    BY <2>1, PasswordStored
  <2>3. /\ resets' \in [Resets -> ResetFrame] /\ openAtStart' \in [Resets -> BOOLEAN]
        /\ ResetInv(r)'
        /\ \A q \in Resets : q # r => resets'[q] = resets[q] /\ openAtStart'[q] = openAtStart[q]
    BY <1>0, <2>1, ResetIdle
  <2>4. AccountTypeOK'
    BY <1>0, <2>1, <2>2, <2>3
  <2>5. QED
    BY <2>1, <2>2, <2>3, <2>4, OthersKept
<1>6. ASSUME ResetAbandon(r) PROVE AccountInv'
  BY <1>6, <1>b DEF ResetAbandon
<1>7. QED
  BY <1>1, <1>2, <1>3, <1>4, <1>5, <1>6 DEF ServeReset

(* ... and what operators, the clock and a truncation do.                  *)
LEMMA WorldStep ==
  ASSUME AccountInv,
         (\E u \in UserIds : OperatorMint(u)) \/ OperatorOrClock \/ WipeAccounts
            \/ UNCHANGED accountVars
  PROVE  AccountInv'
<1> USE DEF AccountTypeOK, StoreTypeOK
<1>0. AccountTypeOK /\ AccountTables
  BY DEF AccountInv
<1>a. ASSUME StoreTypeOK', Forward, Settled, UNCHANGED <<creates, resetVars>>,
             audited' \subseteq UserIds
      PROVE  AccountInv'
  <2>1. AccountTypeOK'
    BY <1>0, <1>a DEF resetVars
  <2>2. AccountTables'
    BY <1>0, <1>a, TablesKept DEF resetVars
  <2>3. QED
    BY <1>a, <2>1, <2>2, OthersKept DEF resetVars
<1>1. ASSUME NEW u \in UserIds, OperatorMint(u) PROVE AccountInv'
  <2>1. PICK t \in FreshTokens : CreateToken(t, u) /\ delivered' = delivered \cup {t}
    BY <1>1 DEF OperatorMint
  <2>2. UNCHANGED <<users, sessions, creates, resets, audited, openAtStart, redeemers>>
    BY <1>1 DEF OperatorMint
  <2>3. tokens' \in [TokenIds -> TokenRow] /\ Forward /\ AccountTables'
    BY <2>1, <2>2, TokenInserted
  <2>4. delivered' \subseteq TokenIds
    BY <1>0, <2>1 DEF FreshTokens
  <2>5. AccountTypeOK'
    BY <1>0, <2>2, <2>3, <2>4
  <2>6. QED
    BY <2>2, <2>3, <2>5, OthersKept
<1>2. ASSUME OperatorOrClock PROVE AccountInv'
  <2>0. UNCHANGED <<creates, audited, resetVars>>
    BY <1>2 DEF OperatorOrClock
  <2>1. ASSUME NEW u \in UserIds, NEW status \in OperatorStatuses, OperatorSetStatus(u, status)
        PROVE  StoreTypeOK' /\ Forward /\ Settled
    <3>1. status \in UserStatus
      BY OperatorAssumption
    <3>2. UNCHANGED <<sessions, tokens>>
      BY <2>1 DEF OperatorSetStatus
    <3>3. users' \in [UserIds -> UserRow] /\ Forward /\ Settled
      BY <1>0, <2>1, <3>1, <3>2, AccountStatements
    <3>4. QED
      BY <1>0, <3>2, <3>3
  <2>2. ASSUME NEW u \in UserIds, OperatorSoftDelete(u)
        PROVE  StoreTypeOK' /\ Forward /\ Settled
    <3>1. "ACTIVE" \in UserStatus
      BY DEF UserStatus
    <3>2. UNCHANGED <<sessions, tokens>>
      BY <2>2 DEF OperatorSoftDelete
    <3>3. users' \in [UserIds -> UserRow] /\ Forward /\ Settled
      BY <1>0, <2>2, <3>1, <3>2, AccountStatements
    <3>4. QED
      BY <1>0, <3>2, <3>3
  <2>3. ASSUME NEW t \in TokenIds, TokenExpires(t) \/ OperatorRevokeToken(t)
        PROVE  StoreTypeOK' /\ Forward /\ Settled
    <3>1. UNCHANGED <<users, sessions>>
      BY <2>3 DEF TokenExpires, OperatorRevokeToken
    <3>2. tokens' \in [TokenIds -> TokenRow] /\ Forward /\ Settled
      BY <1>0, <2>3, <3>1, TokenStatements
    <3>3. QED
      BY <1>0, <3>1, <3>2
  <2>4. StoreTypeOK' /\ Forward /\ Settled
    BY <1>2, <2>1, <2>2, <2>3 DEF OperatorOrClock
  <2>5. QED
    BY <1>0, <1>a, <2>0, <2>4
<1>3. ASSUME WipeAccounts PROVE AccountInv'
  <2>1. DeleteAllData /\ audited' = {} /\ UNCHANGED <<creates, resetVars>>
    BY <1>3 DEF WipeAccounts
  <2>2. StoreTypeOK' /\ Forward /\ Settled
    BY <1>0, <2>1, DeleteAllDataType, Truncation
  <2>3. QED
    BY <1>a, <2>1, <2>2
<1>4. CASE UNCHANGED accountVars
  <2>1. StoreTypeOK' /\ Forward /\ Settled
    BY <1>0, <1>4, UntouchedStore DEF accountVars
  <2>2. QED
    BY <1>0, <1>4, <1>a, <2>1 DEF accountVars, resetVars
<1>5. QED
  BY <1>1, <1>2, <1>3, <1>4

(* The invariant holds throughout.                                         *)
THEOREM AccountInvariant == AccountSpec => []AccountInv
<1>1. AccountInv /\ [AccountNext]_accountVars => AccountInv'
  BY CreateStep, ResetStep, WorldStep DEF AccountNext
<1>2. QED
  BY <1>1, AccountInitInv, PTL DEF AccountSpec

(* Tables, frames and history keep their shapes.                           *)
THEOREM AccountTypeCorrect == AccountSpec => []AccountTypeOK
<1>1. AccountInv => AccountTypeOK
  BY DEF AccountInv
<1>2. QED
  BY <1>1, AccountInvariant, PTL

(* No two stored accounts have one address, whatever CreateUser requests   *)
(* race and whoever was deleted softly.                                    *)
THEOREM EmailsUnique == AccountSpec => []EmailUnique
<1>1. AccountInv => EmailUnique
  BY DEF AccountInv, AccountTables
<1>2. QED
  BY <1>1, AccountInvariant, PTL

(* A password of somebody's choice needs a consumed token of the account.  *)
THEOREM PasswordsNeedTokens == AccountSpec => []PasswordNeedsToken
<1>1. AccountInv => PasswordNeedsToken
  BY DEF AccountInv, AccountTables
<1>2. QED
  BY <1>1, AccountInvariant, PTL

(* An account that CreateUser minted a token for has its role.             *)
THEOREM MintedAccountsHaveRoles == AccountSpec => []MintedAccountHasRole
<1>1. AccountInv => MintedAccountHasRole
  BY DEF AccountInv, AccountTables
<1>2. QED
  BY <1>1, AccountInvariant, PTL

(* A request consumes only a token that was redeemable when it began.      *)
THEOREM LateReuseIsRejected == AccountSpec => LateReuseRejected
<1>1. AccountInv /\ [AccountNext]_accountVars => [ConsumedWhileOpen]_accountVars
  <2> SUFFICES ASSUME AccountInv, AccountNext, NEW t \in TokenIds, NEW r \in Resets,
                      r \in redeemers'[t], r \notin redeemers[t]
               PROVE  openAtStart[r]
    BY DEF ConsumedWhileOpen
  <2>1. redeemers' # redeemers
    OBVIOUS
  <2>2. PICK q \in Resets : ResetMarkUsed(q)
    BY <2>1 DEF AccountNext, ServeCreate, CreateLookup, CreateInsert, CreateConflict,
       CreateAssignRole, CreateRoleRefused, CreateAudit, CreateMint, CreateAbandon, ServeReset,
       ResetLookup, ResetFindUser, ResetValidate, ResetStatus, ResetPassword, ResetAbandon,
       OperatorMint, OperatorOrClock, WipeAccounts, resetVars
  <2>3. q = r /\ resets[r].pc = "markUsed"
    BY <2>2 DEF ResetMarkUsed, AccountInv, AccountTypeOK
  <2>4. QED
    BY <2>3 DEF AccountInv, ResetInv, ResetBeganOpen
<1>2. QED
  BY <1>1, AccountInvariant, PTL DEF AccountSpec, LateReuseRejected
=============================================================================
