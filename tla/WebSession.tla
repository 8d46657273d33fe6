---------------------------- MODULE WebSession ----------------------------
(***************************************************************************)
(* The session of the single-page frontend: the access token and the user  *)
(* that authStore keeps in memory, the logins that LoginPage has in flight,*)
(* and the browser history that ProtectedRoute guards.  A login is two     *)
(* requests, POST /auth/login/ and GET /auth/me/; everything the person at *)
(* the browser can do may happen while one is in flight.                   *)
(***************************************************************************)
EXTENDS Integers, Sequences

CONSTANTS
    Accounts,   \* whom people sign in as; an access token stands for its account
    Logins,     \* slots for logins in flight
    MaxEntries, \* entries the history of the tab may have
    Null

ASSUME NullIsNobody == Null \notin Accounts \cup Logins
ASSUME MaxEntriesAssumption == MaxEntries \in Nat \ {0}

VARIABLES
    accessToken, \* authStore.accessToken
    user,        \* authStore.user
    logins,      \* the locals of each call of handleSubmit
    waiting,     \* the login the mounted LoginPage waits for (isLoading), if any
    entries,     \* the history of the tab, as pages
    at,          \* the current entry
    creating,    \* will a CreateUserPage that was submitted still navigate
    overlapped   \* history: was a login answered while somebody was signed in

webVars == <<accessToken, user, logins, waiting, entries, at, creating, overlapped>>

store == <<accessToken, user>>
place == <<waiting, entries, at>>

(* "reset" stands for the two public pages that redeem a token, "users"    *)
(* for the protected pages besides the dashboard.                          *)
Protected == {"dashboard", "users"}
Pages == {"login", "reset"} \cup Protected

Login ==
    [pc      : {"idle", "login", "me"},
     account : Accounts \cup {Null},
     bearer  : Accounts \cup {Null}]  \* whose token GET /auth/me/ carried

NoLogin == [pc |-> "idle", account |-> Null, bearer |-> Null]

WebTypeOK ==
    /\ accessToken \in Accounts \cup {Null}
    /\ user        \in Accounts \cup {Null}
    /\ logins      \in [Logins -> Login]
    /\ waiting     \in Logins \cup {Null}
    /\ entries     \in Seq(Pages) /\ Len(entries) <= MaxEntries
    /\ at          \in 1 .. Len(entries)
    /\ creating    \in BOOLEAN
    /\ overlapped  \in BOOLEAN

isAuthenticated == user # Null

Page == entries[at]

(* A tab opened at a public page; a protected one leads to /login.         *)
WebInit ==
    /\ accessToken = Null
    /\ user        = Null
    /\ logins      = [l \in Logins |-> NoLogin]
    /\ waiting     = Null
    /\ entries     \in {<<"login">>, <<"reset">>}
    /\ at          = 1
    /\ creating    = FALSE
    /\ overlapped  = FALSE

-----------------------------------------------------------------------------
(* Navigation                                                              *)

(* Mutant: the guard renders its children whoever is there.                *)
GuardedAnybody(page, signedIn) == page

(* ProtectedRoute replaces an entry that needs a session by /login.        *)
Guarded(page, signedIn) ==
    IF page \in Protected /\ ~ signedIn THEN "login" ELSE page

(* navigate(page, { replace: true })                                       *)
Replace(page) == entries' = [entries EXCEPT ![at] = page] /\ UNCHANGED at

(* navigate(page), which drops the entries ahead.                          *)
Follow(page) ==
    /\ Page \in Protected
    /\ at < MaxEntries
    /\ entries' = Append(SubSeq(entries, 1, at), page)
    /\ at'      = at + 1
    /\ UNCHANGED <<store, logins, waiting, creating, overlapped>>

(* Between two entries for /login the same LoginPage stays mounted; any    *)
(* other move mounts a new one, which waits for nothing.                   *)
Traverse(step) ==
    /\ at + step \in 1 .. Len(entries)
    /\ at'      = at + step
    /\ entries' = [entries EXCEPT ![at + step] = Guarded(@, isAuthenticated)]
    /\ waiting' = IF entries[at + step] = "login" THEN waiting ELSE Null
    /\ UNCHANGED <<store, logins, creating, overlapped>>

(* A page redeems its token and leads to /login.  Nothing else can be done *)
(* meanwhile: these pages are opened from an e-mail, and link to nothing.  *)
Redeem ==
    /\ Page = "reset"
    /\ Replace("login")
    /\ UNCHANGED <<store, logins, waiting, creating, overlapped>>

(* A CreateUserPage, one of the pages that "users" stands for, sends its   *)
(* form; its button is disabled from then on, unless the request fails.    *)
(* Bound: one such page at a time.                                         *)
CreateUser ==
    /\ Page = "users"
    /\ ~ creating
    /\ creating' = TRUE
    /\ UNCHANGED <<store, logins, place, overlapped>>

(* 1.5 seconds after the answer the page navigates to the list, wherever   *)
(* the tab is by then and whoever is signed in; or the request has failed. *)
UserCreated ==
    /\ creating
    /\ creating' = FALSE
    /\ \/ /\ Replace(Guarded("users", isAuthenticated))
          /\ waiting' = Null
       \/ UNCHANGED place
    /\ UNCHANGED <<store, logins, overlapped>>

(* Everything but the history is in memory.                                *)
Reload ==
    /\ accessToken' = Null
    /\ user'        = Null
    /\ logins'      = [l \in Logins |-> NoLogin]
    /\ waiting'     = Null
    /\ Replace(Guarded(Page, FALSE))
    /\ creating'    = FALSE
    /\ overlapped'  = FALSE

-----------------------------------------------------------------------------
(* Signing in and out                                                      *)

(* The button is disabled while this LoginPage waits; one that was left    *)
(* behind goes on with its login unseen.                                   *)
Submit(l, a) ==
    /\ Page = "login"
    /\ waiting = Null
    /\ logins[l].pc = "idle"
    /\ logins'  = [logins EXCEPT ![l] = [pc |-> "login", account |-> a, bearer |-> Null]]
    /\ waiting' = l
    /\ UNCHANGED <<store, entries, at, creating, overlapped>>

(* The request interceptor sets the Authorization header to the stored     *)
(* token, if there is one, over the header that meWithToken asked for.     *)
Bearer(a) == IF accessToken # Null THEN accessToken ELSE a

(* The answer to POST /auth/login/; GET /auth/me/ is sent at once.         *)
LoginAnswered(l) ==
    /\ logins[l].pc = "login"
    /\ logins' = [logins EXCEPT ![l].pc = "me", ![l].bearer = Bearer(logins[l].account)]
    /\ overlapped' = (overlapped \/ isAuthenticated)
    /\ UNCHANGED <<store, place, creating>>

(* Mutant: the answer has no field of the name that is stored.             *)
MeAnsweredUndefined(l) ==
    /\ logins[l].pc = "me"
    /\ accessToken' = "undefined"
    /\ user'        = logins[l].bearer
    /\ logins'      = [logins EXCEPT ![l] = NoLogin]
    /\ Replace("dashboard")
    /\ waiting'     = Null
    /\ UNCHANGED <<creating, overlapped>>

(* The answer to GET /auth/me/: the user the header belongs to.  setAuth   *)
(* and navigate happen even if the LoginPage is no longer mounted.         *)
MeAnswered(l) ==
    /\ logins[l].pc = "me"
    /\ accessToken' = logins[l].account
    /\ user'        = logins[l].bearer
    /\ logins'      = [logins EXCEPT ![l] = NoLogin]
    /\ Replace("dashboard")
    /\ waiting'     = Null
    /\ UNCHANGED <<creating, overlapped>>

(* Mutant: isLoading is reset only after a success.                        *)
LoginFailedWaits(l) ==
    /\ logins[l].pc # "idle"
    /\ logins' = [logins EXCEPT ![l] = NoLogin]
    /\ UNCHANGED <<store, place, creating, overlapped>>

(* Either request fails: wrong password, no network, an expired token.     *)
LoginFailed(l) ==
    /\ logins[l].pc # "idle"
    /\ logins'  = [logins EXCEPT ![l] = NoLogin]
    /\ waiting' = IF waiting = l THEN Null ELSE waiting
    /\ UNCHANGED <<store, entries, at, creating, overlapped>>

(* Mutant: the token is forgotten only with the next login.                *)
LogoutKeepsToken ==
    /\ Page \in Protected
    /\ user' = Null
    /\ Replace("login")
    /\ UNCHANGED <<accessToken, logins, waiting, creating, overlapped>>

Logout ==
    /\ Page \in Protected
    /\ accessToken' = Null
    /\ user'        = Null
    /\ Replace("login")
    /\ UNCHANGED <<logins, waiting, creating, overlapped>>

-----------------------------------------------------------------------------
WebNext ==
    \/ \E l \in Logins :
         \/ \E a \in Accounts : Submit(l, a)
         \/ LoginAnswered(l)
         \/ MeAnswered(l)
         \/ LoginFailed(l)
    \/ Logout
    \/ \E page \in Protected : Follow(page)
    \/ \E step \in {-1, 1} : Traverse(step)
    \/ CreateUser
    \/ UserCreated
    \/ Redeem
    \/ Reload

WebSpec == WebInit /\ [][WebNext]_webVars

-----------------------------------------------------------------------------
(* Properties                                                              *)

(* Whatever answers late and however one moves through the history, a      *)
(* protected page is on display only with a token and a user in the store. *)
ProtectedNeedsAuth ==
    Page \in Protected => accessToken # Null /\ user # Null

(* The token and the user in the store belong to one account, unless a     *)
(* login was answered while somebody was signed in.                        *)
PairUnlessOverlapped ==
    isAuthenticated /\ ~ overlapped => accessToken = user

(* A LoginPage never waits for a login that has ended: it can always be    *)
(* used again.                                                             *)
WaitingHasLogin ==
    waiting # Null => Page = "login" /\ logins[waiting].pc # "idle"

(* The inductive invariant: besides the above, the store is filled and     *)
(* emptied as a whole, and GET /auth/me/ carries the login's own token     *)
(* unless it overlapped with a session.                                    *)
StoreIsWhole == accessToken # Null <=> user # Null

OwnBearer ==
    \A l \in Logins :
       /\ logins[l].pc # "idle" => logins[l].account \in Accounts
       /\ logins[l].pc = "me" =>
             /\ logins[l].bearer \in Accounts
             /\ ~ overlapped => logins[l].bearer = logins[l].account

WebInv ==
    /\ WebTypeOK
    /\ StoreIsWhole
    /\ OwnBearer
    /\ ProtectedNeedsAuth
    /\ PairUnlessOverlapped
    /\ WaitingHasLogin

(* "sends explicit Authorization header when token is passed": a login     *)
(* stores the user its own token belongs to.                               *)
PairBelongsTogether == isAuthenticated => accessToken = user
=============================================================================
