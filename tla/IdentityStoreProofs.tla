------------------------ MODULE IdentityStoreProofs ------------------------
(***************************************************************************)
(* Lemmas about the statements of IdentityStore, for any number of         *)
(* accounts, sessions and tokens, which the proofs about the services cite. *)
(***************************************************************************)
EXTENDS IdentityStore, TLAPS

(* An UPDATE of one account keeps the table well formed.                   *)
LEMMA UpdateUserType ==
  ASSUME StoreTypeOK, NEW u \in UserIds, NEW row \in UserRow, UpdateUser(u, row)
  PROVE  users' \in [UserIds -> UserRow]
  BY DEF StoreTypeOK, UpdateUser

(* Truncating the tables only turns stored rows into gone ones.            *)
LEMMA DeleteAllDataType ==
  ASSUME StoreTypeOK, DeleteAllData
  PROVE  StoreTypeOK'
<1>1. BlankUser("gone") \in UserRow
  BY DEF BlankUser, UserRow, UserStatus
<1>2. BlankSession("gone") \in SessionRow /\ BlankToken("gone") \in TokenRow
  BY DEF BlankSession, BlankToken, SessionRow, TokenRow
<1>3. QED
  BY <1>1, <1>2 DEF StoreTypeOK, DeleteAllData

-----------------------------------------------------------------------------
(* What no statement does to a row that exists: bring it back, take its    *)
(* role, reopen a token, give it to another account, or remove tokens and  *)
(* leave accounts.                                                         *)
Forward ==
    /\ \A u \in UserIds : users[u].row # "unborn" =>
          /\ users'[u].row # "unborn"
          /\ Stored(u)' => Stored(u) /\ (users[u].hasRole => users'[u].hasRole)
    /\ \A t \in TokenIds : tokens[t].row # "unborn" =>
          /\ tokens'[t].row # "unborn"
          /\ Open(t)' => Open(t)
          /\ tokens'[t].row = "stored" =>
                /\ tokens[t].row = "stored" /\ tokens'[t].user = tokens[t].user
                /\ tokens[t].used => tokens'[t].used
    /\ \A u \in UserIds, t \in TokenIds :
          Stored(u) /\ Stored(u)' /\ tokens[t].row = "stored" => tokens'[t].row = "stored"

(* What most statements do not do: insert, rename or remove a row, or      *)
(* store a password; only a truncation removes rows, and it removes all.   *)
Settled ==
    /\ \A u \in UserIds : Stored(u)' =>
          /\ users[u].row # "unborn"
          /\ users'[u].email = users[u].email /\ users'[u].pwd = users[u].pwd
    /\ \A t \in TokenIds : tokens'[t].row = "stored" =>
          /\ tokens[t].row = "stored"
          /\ \A u \in UserIds : Stored(u) => Stored(u)'

(* A step that changes neither table is both.                              *)
LEMMA UntouchedStore ==
  ASSUME UNCHANGED <<users, tokens>>, StoreTypeOK
  PROVE  Forward /\ Settled
  BY DEF Forward, Settled, Stored, Open, StoreTypeOK, TokenRow, UserRow

(* So are the statements that change the role or the status of an account, *)
(* or delete it softly ...                                                 *)
LEMMA AccountStatements ==
  ASSUME StoreTypeOK, NEW u \in UserIds, NEW status \in UserStatus, UNCHANGED tokens,
         AssignRole(u) \/ UpdateStatus(u, status) \/ OperatorSetStatus(u, status)
            \/ OperatorSoftDelete(u)
  PROVE  users' \in [UserIds -> UserRow] /\ Forward /\ Settled
<1> USE DEF StoreTypeOK
<1>1. PICK row \in UserRow :
        /\ users' = [users EXCEPT ![u] = row]
        /\ users[u].row \in {"live", "softDeleted"} => row.row \in {"live", "softDeleted"}
        /\ users[u].row \in {"unborn", "gone"} => row = users[u]
        /\ row.email = users[u].email /\ row.pwd = users[u].pwd
        /\ users[u].hasRole => row.hasRole
  <2>1. CASE AssignRole(u)
    <3> DEFINE row == [users[u] EXCEPT !.hasRole = TRUE]
    <3>1. row \in UserRow
      BY DEF UserRow
    <3>2. users' = [users EXCEPT ![u] = row] /\ Stored(u)
      BY <2>1 DEF AssignRole
    <3>3. WITNESS row \in UserRow
    <3>4. QED
      BY <3>1, <3>2 DEF UserRow, Stored
  <2>2. CASE UpdateStatus(u, status) \/ OperatorSetStatus(u, status)
    <3> DEFINE row == IF Stored(u) THEN [users[u] EXCEPT !.status = status] ELSE users[u]
    <3>1. row \in UserRow
      BY DEF UserRow
    <3>2. users' = [users EXCEPT ![u] = row]
      BY <2>2 DEF UpdateStatus, UpdateUser, OperatorSetStatus
    <3>3. WITNESS row \in UserRow
    <3>4. QED
      BY <3>1, <3>2 DEF UserRow, Stored
  <2>3. CASE OperatorSoftDelete(u)
    <3> DEFINE row == [users[u] EXCEPT !.row = "softDeleted"]
    <3>1. row \in UserRow
      BY DEF UserRow
    <3>2. users' = [users EXCEPT ![u] = row] /\ Visible(u)
      BY <2>3 DEF OperatorSoftDelete
    <3>3. WITNESS row \in UserRow
    <3>4. QED
      BY <3>1, <3>2 DEF UserRow, Visible
  <2>4. QED
    BY <2>1, <2>2, <2>3
<1>2. users' \in [UserIds -> UserRow]
  BY <1>1
<1>3. \A x \in UserIds : users[x].row \in {"unborn", "live", "softDeleted", "gone"}
  BY DEF UserRow
<1>4. Forward
  BY <1>1, <1>3 DEF Forward, Stored, Open
<1>5. Settled
  BY <1>1, <1>3 DEF Settled, Stored
<1>6. QED
  BY <1>2, <1>4, <1>5

(* ... and those that mark a token used, revoked or expired ...            *)
LEMMA TokenStatements ==
  ASSUME StoreTypeOK, NEW t \in TokenIds, UNCHANGED users,
         MarkUsed(t) \/ TokenExpires(t) \/ OperatorRevokeToken(t)
  PROVE  tokens' \in [TokenIds -> TokenRow] /\ Forward /\ Settled
<1> USE DEF StoreTypeOK
<1>1. PICK row \in TokenRow :
        /\ tokens' = [tokens EXCEPT ![t] = row]
        /\ row.row = tokens[t].row /\ row.user = tokens[t].user
        /\ tokens[t].used => row.used
        /\ tokens[t].revoked => row.revoked
        /\ tokens[t].expired => row.expired
  <2>1. CASE MarkUsed(t)
    <3> DEFINE row == IF tokens[t].row = "stored" THEN [tokens[t] EXCEPT !.used = TRUE]
                                                  ELSE tokens[t]
    <3>1. row \in TokenRow
      BY DEF TokenRow
    <3>2. tokens' = [tokens EXCEPT ![t] = row]
      BY <2>1 DEF MarkUsed
    <3>3. WITNESS row \in TokenRow
    <3>4. QED
      BY <3>1, <3>2 DEF TokenRow
  <2>2. CASE TokenExpires(t)
    <3> DEFINE row == [tokens[t] EXCEPT !.expired = TRUE]
    <3>1. row \in TokenRow
      BY DEF TokenRow
    <3>2. tokens' = [tokens EXCEPT ![t] = row]
      BY <2>2 DEF TokenExpires
    <3>3. WITNESS row \in TokenRow
    <3>4. QED
      BY <3>1, <3>2 DEF TokenRow
  <2>3. CASE OperatorRevokeToken(t)
    <3> DEFINE row == [tokens[t] EXCEPT !.revoked = TRUE]
    <3>1. row \in TokenRow
      BY DEF TokenRow
    <3>2. tokens' = [tokens EXCEPT ![t] = row]
      BY <2>3 DEF OperatorRevokeToken
    <3>3. WITNESS row \in TokenRow
    <3>4. QED
      BY <3>1, <3>2 DEF TokenRow
  <2>4. QED
    BY <2>1, <2>2, <2>3
<1>2. tokens' \in [TokenIds -> TokenRow]
  BY <1>1
<1>3. Forward
  BY <1>1 DEF Forward, Stored, Open
<1>4. Settled
  BY <1>1 DEF Settled, Stored
<1>5. QED
  BY <1>2, <1>3, <1>4

(* ... and the truncation.                                                 *)
LEMMA Truncation ==
  ASSUME StoreTypeOK, DeleteAllData
  PROVE  Forward /\ Settled
<1>1. \A u \in UserIds : users[u].row \in {"unborn", "live", "softDeleted", "gone"}
  BY DEF StoreTypeOK, UserRow
<1>2. \A u \in UserIds : users'[u] = IF Stored(u) THEN BlankUser("gone") ELSE users[u]
  BY DEF DeleteAllData
<1>3. \A u \in UserIds : /\ users'[u].row \notin {"live", "softDeleted"}
                         /\ users[u].row # "unborn" => users'[u].row # "unborn"
  BY <1>1, <1>2 DEF Stored, BlankUser
<1>4. \A t \in TokenIds : tokens'[t] = IF tokens[t].row = "stored" THEN BlankToken("gone")
                                                                  ELSE tokens[t]
  BY DEF DeleteAllData
<1>5. \A t \in TokenIds : /\ tokens'[t].row # "stored"
                          /\ tokens[t].row # "unborn" => tokens'[t].row # "unborn"
  BY <1>4 DEF BlankToken
<1>6. QED
  BY <1>3, <1>5 DEF Forward, Settled, Stored, Open
=============================================================================
