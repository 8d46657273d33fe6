------------------------------ MODULE Identity ------------------------------
(***************************************************************************)
(* AuthService and AccountService over one store: accounts are created,    *)
(* activated, suspended and deleted while people log in to them, refresh   *)
(* their sessions and reset their passwords.  Bound: no request is cut     *)
(* short here, which the modules of the two services look at.              *)
(***************************************************************************)
EXTENDS AuthService, AccountService

VARIABLES
    unsettled, \* history: accounts without a password stored while ACTIVE, or since
    sawUsable  \* history: was the request's account live and ACTIVE at an instant since it began

identityVars == <<authVars, accountVars, unsettled, sawUsable>>

authLocals    == <<frames, held, lineage>>
accountLocals == <<creates, resets, audited, delivered, openAtStart, redeemers>>

IdentityInit ==
    /\ AccountInit
    /\ frames    = [r \in Reqs |-> Idle]
    /\ held      = {}
    /\ lineage   = [s \in SessionIds |-> NoLineage]
    /\ sawActive = [r \in Reqs |-> FALSE]
    /\ unsettled = UserIds
    /\ sawUsable = [r \in Reqs |-> FALSE]

-----------------------------------------------------------------------------
Busy(r) == frames[r].pc # "idle"

(* The accounts whose password this step stores.                           *)
Chosen ==
    {resets[r].user : r \in {x \in Resets : /\ resets[x].pc = "setPassword"
                                            /\ resets'[x].pc = "idle"}}

Observe ==
    /\ unsettled' = {u \in UserIds : users'[u].status # "ACTIVE"} \cup (unsettled \ Chosen)
    /\ sawUsable' = [r \in Reqs |->
                       /\ Busy(r)'
                       /\ (Busy(r) /\ sawUsable[r]) \/ Active(frames[r].user)']

(* A step of AuthService, and one of AccountService.                       *)
AuthStep == UNCHANGED accountLocals /\ Observe

AccountStep ==
    /\ UNCHANGED authLocals
    /\ sawActive' = [r \in Reqs |->
                       sawActive[r] \/ (Busy(r) /\ users'[frames[r].user].status = "ACTIVE")]
    /\ Observe

HandleAuth(r)   == Serve(r) /\ AuthStep
HandleCreate(c) == ServeCreate(c) /\ AccountStep
HandleReset(r)  == ServeReset(r) /\ AccountStep

IdentityNext ==
    \/ \E r \in Reqs : (Arrive(r) /\ AuthStep) \/ HandleAuth(r)
    \/ \E s \in SessionIds : Expire(s) /\ AuthStep
    \/ \E c \in Creators :
         \/ \E e \in Emails, roleKnown \in BOOLEAN : CreateLookup(c, e, roleKnown) /\ AccountStep
         \/ HandleCreate(c)
    \/ \E r \in Resets :
         \/ \E t \in TokenIds, p \in Passwords \cup {Null} : ResetLookup(r, t, p) /\ AccountStep
         \/ HandleReset(r)
    \/ \E u \in UserIds : OperatorMint(u) /\ AccountStep
    \/ OperatorOrClock /\ AccountStep
    \/ WipeAccounts /\ AccountStep

IdentitySpec == IdentityInit /\ [][IdentityNext]_identityVars

(* net/http runs every handler to its end.                                 *)
FairIdentitySpec ==
    /\ IdentitySpec
    /\ \A r \in Reqs : WF_identityVars(HandleAuth(r))
    /\ \A c \in Creators : WF_identityVars(HandleCreate(c))
    /\ \A r \in Resets : WF_identityVars(HandleReset(r))

-----------------------------------------------------------------------------
(* Properties                                                              *)

(* One of the account's own tokens was consumed.                           *)
Redeemed(u) ==
    \E t \in TokenIds :
       tokens[t].row = "stored" /\ tokens[t].user = u /\ tokens[t].used

(* A session, however often it was rotated and whatever became of the      *)
(* account since, goes back to a person who redeemed one of the account's  *)
(* own tokens: there is no other way to a password, and none to a session  *)
(* without a password.                                                     *)
SessionNeedsToken ==
    \A s \in SessionIds :
       sessions[s].row = "stored" => Redeemed(sessions[s].user)

(* ResetPass reopens an account of any status, under the password it had,  *)
(* and stores the new one afterwards.  An account that is ACTIVE under a   *)
(* password from before it was last closed, or under its placeholder, is   *)
(* in the hands of a ResetPass that is about to store a password.  It      *)
(* holds only when no call fails between the two updates of ActivateUser,  *)
(* and no operator makes an account ACTIVE.                                *)
ReopenedUnderNewPassword ==
    \A u \in UserIds :
       Stored(u) /\ users[u].status = "ACTIVE" /\ u \in unsettled =>
          \E r \in Resets : resets[r].user = u /\ resets[r].pc = "setPassword"

(* A session is issued only by a request during which its account was, at  *)
(* one and the same instant, ACTIVE and not deleted, while the account is  *)
(* activated, suspended and deleted by others.                             *)
IssuedUnderUsable ==
    \A s \in SessionIds :
       sessions[s].row = "unborn" /\ sessions'[s].row = "stored" =>
          LET r == lineage'[s].by
          IN  sawUsable[r] /\ frames[r].user = sessions'[s].user

IssueNeedsUsable == [][IssuedUnderUsable]_identityVars

-----------------------------------------------------------------------------
(* The inductive invariant, beside AuthInv and AccountInv: what the        *)
(* requests of one service know that those of the other made true.         *)

(* A login that saw the right password, and a refresh, work for an account *)
(* whose token was redeemed, unless it was truncated since.                *)
RequestRedeemed(r) ==
    frames[r].pc \in {"recordLogin", "findOwner", "revoke", "issue"} =>
       /\ users[frames[r].user].row # "unborn"
       /\ Stored(frames[r].user) => Redeemed(frames[r].user)

RequestUsable(r) ==
    frames[r].pc \in {"countFailure", "recordLogin", "revoke", "issue"} => sawUsable[r]

IdentityInv ==
    /\ AuthInv
    /\ AccountInv
    /\ unsettled \subseteq UserIds /\ sawUsable \in [Reqs -> BOOLEAN]
    /\ \A r \in Reqs : RequestRedeemed(r) /\ RequestUsable(r)
    /\ SessionNeedsToken
=============================================================================
