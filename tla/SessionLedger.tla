---------------------------- MODULE SessionLedger ----------------------------
(***************************************************************************)
(* What AuthService promises of refresh tokens, without its requests,      *)
(* accounts and tables.  Each token is entered in a ledger.  A request     *)
(* claims a token while it is live; a claimed token may be spent; a spent  *)
(* token is succeeded by one new token per claim, for the same owner.      *)
(* Claims are the reason why a token may have several successors: as many  *)
(* as requests that claimed it before it was spent.  A token that was      *)
(* spent is never claimed again.                                           *)
(***************************************************************************)
CONSTANTS
    Owners,   \* accounts
    Entries,  \* refresh tokens
    Claimants,  \* requests
    Nobody

VARIABLES
    ledger,  \* what is known of each token
    claims   \* the token each request has claimed, if any

ledgerVars == <<ledger, claims>>

Entry ==
    [state  : {"unissued", "live", "spent", "gone"},
     owner  : Owners \cup {Nobody},
     parent : Entries \cup {Nobody},  \* the token it succeeds
     lapsed : BOOLEAN]

Unissued == [state |-> "unissued", owner |-> Nobody, parent |-> Nobody, lapsed |-> FALSE]

LedgerInit ==
    /\ ledger = [s \in Entries |-> Unissued]
    /\ claims = [r \in Claimants |-> Nobody]

Enter(s, owner, parent) ==
    /\ ledger[s].state = "unissued"
    /\ ledger' = [ledger EXCEPT ![s] =
                    [state |-> "live", owner |-> owner, parent |-> parent, lapsed |-> FALSE]]

(* A login.                                                                *)
Grant(s, u) == Enter(s, u, Nobody) /\ UNCHANGED claims

(* A refresh is admitted.                                                  *)
Claim(r, s) ==
    /\ claims[r] = Nobody
    /\ ledger[s].state = "live"
    /\ ~ ledger[s].lapsed
    /\ claims' = [claims EXCEPT ![r] = s]
    /\ UNCHANGED ledger

Spend(r) ==
    /\ claims[r] # Nobody
    /\ ledger[claims[r]].state = "live"
    /\ ledger' = [ledger EXCEPT ![claims[r]].state = "spent"]
    /\ UNCHANGED claims

Succeed(r, s) ==
    /\ claims[r] # Nobody
    /\ ledger[claims[r]].state = "spent"
    /\ Enter(s, ledger[claims[r]].owner, claims[r])
    /\ claims' = [claims EXCEPT ![r] = Nobody]

(* A refresh ends without a successor, whether or not it spent its token.  *)
Withdraw(r) ==
    /\ claims[r] # Nobody
    /\ claims' = [claims EXCEPT ![r] = Nobody]
    /\ UNCHANGED ledger

Lapse(s) ==
    /\ ledger[s].state \in {"live", "spent"}
    /\ ledger' = [ledger EXCEPT ![s].lapsed = TRUE]
    /\ UNCHANGED claims

(* All data is deleted; which token succeeded which is remembered.         *)
Erase ==
    /\ ledger' = [s \in Entries |->
                    IF ledger[s].state \in {"live", "spent"}
                    THEN [state |-> "gone", owner |-> Nobody,
                          parent |-> ledger[s].parent, lapsed |-> FALSE]
                    ELSE ledger[s]]
    /\ UNCHANGED claims

LedgerNext ==
    \/ \E s \in Entries, u \in Owners : Grant(s, u)
    \/ \E r \in Claimants, s \in Entries : Claim(r, s) \/ Succeed(r, s)
    \/ \E r \in Claimants : Spend(r) \/ Withdraw(r)
    \/ \E s \in Entries : Lapse(s)
    \/ Erase

LedgerSpec == LedgerInit /\ [][LedgerNext]_ledgerVars
=============================================================================
