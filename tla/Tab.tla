--------------------------------- MODULE Tab --------------------------------
(***************************************************************************)
(* The session of WebSession next to the query cache of the same tab.      *)
(* Sign out empties authStore and leaves the cache alone, and a fetch goes *)
(* on when its page is left: what an account sees may have been fetched    *)
(* with the token of another one.  The query is ['users'], whose fetches   *)
(* never fail as a whole (UserListing has what is in their answers).       *)
(***************************************************************************)
EXTENDS WebSession

VARIABLES
    list,  \* whose token the data of the query was fetched with, Null without data
    fetch, \* whose token the running fetch carries, Null when none is running
    mixed  \* history: did an account sign in over a session or a fetch of another

cacheVars == <<list, fetch, mixed>>

tabVars == <<webVars, cacheVars>>

TabTypeOK ==
    /\ WebTypeOK
    /\ list  \in Accounts \cup {Null}
    /\ fetch \in Accounts \cup {Null}
    /\ mixed \in BOOLEAN

TabInit ==
    /\ WebInit
    /\ list  = Null
    /\ fetch = Null
    /\ mixed = FALSE

-----------------------------------------------------------------------------
(* The query                                                               *)

(* Mutant: data that is there counts as fresh.                             *)
FetchesIfEmpty(token) == IF fetch = Null /\ list = Null THEN token ELSE fetch

(* Data is stale at once, so a page that mounts the query fetches it, with *)
(* the stored token, unless a fetch is running already.                    *)
Fetches(token) == IF fetch = Null THEN token ELSE fetch

(* DashboardPage, where every login ends, mounts the query.                *)
MountsDashboard == Page # "dashboard" /\ Page' = "dashboard"

SignsIn == accessToken' \notin {Null, accessToken}

(* What a step of the session does to the cache.                           *)
Carry ==
    /\ UNCHANGED list
    /\ fetch' = IF MountsDashboard THEN Fetches(accessToken') ELSE fetch
    /\ mixed' = \/ mixed
                \/ SignsIn /\ {accessToken, fetch} \ {accessToken', Null} # {}

(* The window gains the focus, or another page that uses the query is      *)
(* mounted.                                                                *)
Focus ==
    /\ Page \in Protected
    /\ fetch' = Fetches(accessToken)
    /\ UNCHANGED <<webVars, list, mixed>>

(* The fetch is over, whichever page is on display.                        *)
Fetched ==
    /\ fetch # Null
    /\ list'  = fetch
    /\ fetch' = Null
    /\ mixed' = (mixed /\ fetch # accessToken)
    /\ UNCHANGED webVars

(* Data that no page uses is dropped after five minutes.                   *)
Collect ==
    /\ Page # "dashboard"
    /\ fetch = Null /\ list # Null
    /\ list' = Null
    /\ UNCHANGED <<webVars, fetch, mixed>>

(* The cache is in memory, too.                                            *)
ReloadTab ==
    /\ Reload
    /\ list'  = Null
    /\ fetch' = Null
    /\ mixed' = FALSE

-----------------------------------------------------------------------------
SessionStep ==
    \/ \E l \in Logins :
         \/ \E a \in Accounts : Submit(l, a)
         \/ LoginAnswered(l)
         \/ MeAnswered(l)
         \/ LoginFailed(l)
    \/ Logout
    \/ \E page \in Protected : Follow(page)
    \/ \E step \in {-1, 1} : Traverse(step)
    \/ CreateUser
    \/ UserCreated
    \/ Redeem

TabNext ==
    \/ SessionStep /\ Carry
    \/ Focus
    \/ Fetched
    \/ Collect
    \/ ReloadTab

TabSpec == TabInit /\ [][TabNext]_tabVars

-----------------------------------------------------------------------------
(* Properties                                                              *)

(* The dashboard shows the list of an account that signed out only while   *)
(* the list of the account that signed in is being fetched.  The exception *)
(* is an account that signed in over a session or a running fetch of       *)
(* another one: the query takes that fetch for its own, and the foreign    *)
(* list stays until the query is fetched again.                            *)
ForeignListIsBrief ==
    Page = "dashboard" /\ ~ mixed => list \in {Null, accessToken} \/ fetch = accessToken

(* The inductive invariant: a fetch that runs while somebody is signed in  *)
(* is theirs.                                                              *)
OwnFetch == accessToken # Null /\ ~ mixed => fetch \in {Null, accessToken}

TabInv == TabTypeOK /\ WebInv /\ OwnFetch /\ ForeignListIsBrief
=============================================================================
