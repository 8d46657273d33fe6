----------------------------- MODULE TabProofs ------------------------------
(***************************************************************************)
(* Theorems about WebSession and Tab, for any number of accounts, of logins *)
(* in flight and of history entries.  What WebSession guarantees holds of   *)
(* Tab too, because no step of the cache touches the session.               *)
(***************************************************************************)
EXTENDS Tab, TLAPS

-----------------------------------------------------------------------------
(* The session alone.                                                      *)

(* The guard of the routes leads to a page.                                *)
LEMMA GuardedPage ==
  ASSUME NEW page \in Pages, NEW signedIn \in BOOLEAN
  PROVE  /\ Guarded(page, signedIn) \in Pages
         /\ Guarded(page, signedIn) \in Protected => signedIn
  BY DEF Guarded, Pages, Protected

(* Replacing the current entry keeps the history and its length.           *)
LEMMA ReplaceEntry ==
  ASSUME WebTypeOK, NEW page \in Pages, Replace(page)
  PROVE  /\ entries' \in Seq(Pages) /\ Len(entries') = Len(entries)
         /\ at' = at /\ at' \in 1 .. Len(entries')
         /\ Page' = page
<1>1. entries \in Seq(Pages) /\ at \in 1 .. Len(entries)
  BY DEF WebTypeOK
<1>2. entries' = [entries EXCEPT ![at] = page] /\ at' = at
  BY DEF Replace
<1>3. entries' \in Seq(Pages) /\ Len(entries') = Len(entries) /\ entries'[at] = page
  BY <1>1, <1>2
<1>4. QED
  BY <1>1, <1>2, <1>3 DEF Page

(* A new tab satisfies the invariant.                                      *)
LEMMA InitInv == WebInit => WebInv
<1> SUFFICES ASSUME WebInit PROVE WebInv
  OBVIOUS
<1>1. entries \in Seq(Pages) /\ Len(entries) = 1 /\ Page \notin Protected
  <2>1. CASE entries = <<"login">>
    BY <2>1 DEF WebInit, Page, Pages, Protected
  <2>2. CASE entries = <<"reset">>
    BY <2>2 DEF WebInit, Page, Pages, Protected
  <2>3. QED
    BY <2>1, <2>2 DEF WebInit
<1>2. NoLogin \in Login
  BY DEF NoLogin, Login
<1>3. WebTypeOK
  <2>1. logins \in [Logins -> Login]
    BY <1>2 DEF WebInit
  <2>2. Len(entries) <= MaxEntries /\ at \in 1 .. Len(entries)
    BY <1>1, MaxEntriesAssumption DEF WebInit
  <2>3. QED
    BY <1>1, <2>1, <2>2 DEF WebInit, WebTypeOK
<1>4. QED
  BY <1>1, <1>3 DEF WebInit, WebInv, NoLogin, StoreIsWhole, OwnBearer, ProtectedNeedsAuth,
                    PairUnlessOverlapped, WaitingHasLogin, isAuthenticated

(* Every step keeps the invariant.                                         *)
LEMMA StepInv == WebInv /\ [WebNext]_webVars => WebInv'
<1> SUFFICES ASSUME WebInv, [WebNext]_webVars PROVE WebInv'
  OBVIOUS
<1> USE DEF WebInv
<1>0. Page \in Pages /\ isAuthenticated \in BOOLEAN
  BY DEF WebTypeOK, Page, isAuthenticated
<1>1. ASSUME NEW l \in Logins, NEW a \in Accounts, Submit(l, a)
      PROVE  WebInv'
  <2>1. Page' = Page /\ logins' \in [Logins -> Login] /\ l # Null
    BY <1>1, NullIsNobody DEF Submit, WebTypeOK, Login, Page
  <2>2. WebTypeOK'
    BY <1>1, <2>1 DEF Submit, WebTypeOK, store
  <2>3. OwnBearer' /\ WaitingHasLogin'
    BY <1>1, <2>1 DEF Submit, WebTypeOK, OwnBearer, WaitingHasLogin
  <2>4. QED
    BY <1>1, <2>1, <2>2, <2>3 DEF Submit, store, StoreIsWhole, ProtectedNeedsAuth,
                                  PairUnlessOverlapped, isAuthenticated
<1>2. ASSUME NEW l \in Logins, LoginAnswered(l)
      PROVE  WebInv'
  <2>1. logins[l].account \in Accounts /\ logins[l].account # Null
    BY <1>2, NullIsNobody DEF LoginAnswered, OwnBearer
  <2>2. /\ Bearer(logins[l].account) \in Accounts
        /\ ~ overlapped' => Bearer(logins[l].account) = logins[l].account
    BY <1>2, <2>1 DEF LoginAnswered, Bearer, WebTypeOK, StoreIsWhole, isAuthenticated
  <2>3. WebTypeOK'
    BY <1>0, <1>2, <2>2 DEF LoginAnswered, WebTypeOK, Login, store, place
  <2>4. OwnBearer'
    BY <1>2, <2>1, <2>2 DEF LoginAnswered, WebTypeOK, OwnBearer
  <2>5. Page' = Page
    BY <1>2 DEF LoginAnswered, place, Page
  <2>6. WaitingHasLogin'
    BY <1>2, <2>5 DEF LoginAnswered, WebTypeOK, WaitingHasLogin, place
  <2>7. QED
    BY <1>2, <2>3, <2>4, <2>5, <2>6 DEF LoginAnswered, store, StoreIsWhole, ProtectedNeedsAuth,
                                        PairUnlessOverlapped, isAuthenticated
<1>3. ASSUME NEW l \in Logins, MeAnswered(l)
      PROVE  WebInv'
  <2>1. /\ logins[l].account \in Accounts /\ logins[l].bearer \in Accounts
        /\ logins[l].account # Null /\ logins[l].bearer # Null
    BY <1>3, NullIsNobody DEF MeAnswered, OwnBearer
  <2>2. "dashboard" \in Pages /\ Replace("dashboard")
    BY <1>3 DEF MeAnswered, Pages, Protected
  <2>3. logins' \in [Logins -> Login]
    BY <1>3 DEF MeAnswered, WebTypeOK, NoLogin, Login
  <2>4. WebTypeOK'
    BY <1>3, <2>1, <2>2, <2>3, ReplaceEntry DEF MeAnswered, WebTypeOK
  <2>5. OwnBearer'
    BY <1>3 DEF MeAnswered, WebTypeOK, OwnBearer, NoLogin
  <2>6. PairUnlessOverlapped'
    BY <1>3 DEF MeAnswered, OwnBearer, PairUnlessOverlapped
  <2>7. QED
    BY <1>3, <2>1, <2>4, <2>5, <2>6 DEF MeAnswered, StoreIsWhole, ProtectedNeedsAuth,
                                        WaitingHasLogin
<1>4. ASSUME NEW l \in Logins, LoginFailed(l)
      PROVE  WebInv'
  <2>1. Page' = Page /\ logins' \in [Logins -> Login]
    BY <1>4 DEF LoginFailed, WebTypeOK, NoLogin, Login, Page
  <2>2. WebTypeOK'
    BY <1>4, <2>1 DEF LoginFailed, WebTypeOK, store
  <2>3. OwnBearer' /\ WaitingHasLogin'
    BY <1>4, <2>1 DEF LoginFailed, WebTypeOK, OwnBearer, WaitingHasLogin, NoLogin
  <2>4. QED
    BY <1>4, <2>1, <2>2, <2>3 DEF LoginFailed, store, StoreIsWhole, ProtectedNeedsAuth,
                                  PairUnlessOverlapped, isAuthenticated
<1>5. ASSUME Logout
      PROVE  WebInv'
  <2>1. "login" \in Pages /\ "login" \notin Protected /\ Replace("login")
    BY <1>5 DEF Logout, Pages, Protected
  <2>2. WebTypeOK' /\ Page' = "login"
    BY <1>5, <2>1, ReplaceEntry DEF Logout, WebTypeOK
  <2>3. waiting = Null
    BY <1>5 DEF Logout, WaitingHasLogin, Protected
  <2>4. QED
    BY <1>5, <2>1, <2>2, <2>3 DEF Logout, StoreIsWhole, OwnBearer, ProtectedNeedsAuth,
                                  PairUnlessOverlapped, WaitingHasLogin, isAuthenticated
<1>6. ASSUME NEW page \in Protected, Follow(page)
      PROVE  WebInv'
  <2>1. SubSeq(entries, 1, at) \in Seq(Pages) /\ Len(SubSeq(entries, 1, at)) = at
    BY DEF WebTypeOK
  <2>2. entries' \in Seq(Pages) /\ Len(entries') = at + 1 /\ at' = at + 1
    BY <1>6, <2>1 DEF Follow, Pages
  <2>3. waiting = Null
    BY <1>6 DEF Follow, WaitingHasLogin, Protected
  <2>4. WebTypeOK'
    BY <1>6, <2>2, MaxEntriesAssumption DEF Follow, WebTypeOK, store
  <2>5. accessToken # Null /\ user # Null
    BY <1>6 DEF Follow, ProtectedNeedsAuth
  <2>6. QED
    BY <1>6, <2>3, <2>4, <2>5 DEF Follow, store, StoreIsWhole, OwnBearer, ProtectedNeedsAuth,
                                  PairUnlessOverlapped, WaitingHasLogin, isAuthenticated
<1>7. ASSUME NEW step \in {-1, 1}, Traverse(step)
      PROVE  WebInv'
  <2> DEFINE next == entries[at + step]
  <2>1. next \in Pages /\ at + step \in 1 .. Len(entries)
    BY <1>7 DEF Traverse, WebTypeOK
  <2>2. /\ Guarded(next, isAuthenticated) \in Pages
        /\ Guarded(next, isAuthenticated) \in Protected => isAuthenticated
    BY <1>0, <2>1, GuardedPage
  <2>3. /\ entries' = [entries EXCEPT ![at + step] = Guarded(next, isAuthenticated)]
        /\ at' = at + step
    BY <1>7 DEF Traverse
  <2>4. /\ entries' \in Seq(Pages) /\ Len(entries') = Len(entries)
        /\ Page' = Guarded(next, isAuthenticated)
    BY <2>1, <2>2, <2>3 DEF WebTypeOK, Page
  <2>5. WebTypeOK'
    BY <1>7, <2>1, <2>3, <2>4 DEF Traverse, WebTypeOK, store
  <2>6. ProtectedNeedsAuth'
    BY <1>7, <2>2, <2>4 DEF Traverse, store, ProtectedNeedsAuth, StoreIsWhole, isAuthenticated
  <2>7. WaitingHasLogin'
    BY <1>7, <2>4 DEF Traverse, WaitingHasLogin, Guarded, Protected
  <2>8. QED
    BY <1>7, <2>5, <2>6, <2>7 DEF Traverse, store, StoreIsWhole, OwnBearer,
                                  PairUnlessOverlapped, isAuthenticated
<1>8. ASSUME Redeem
      PROVE  WebInv'
  <2>1. "login" \in Pages /\ "login" \notin Protected /\ Replace("login")
    BY <1>8 DEF Redeem, Pages, Protected
  <2>2. WebTypeOK' /\ Page' = "login"
    BY <1>8, <2>1, ReplaceEntry DEF Redeem, WebTypeOK, store
  <2>3. QED
    BY <1>8, <2>1, <2>2 DEF Redeem, store, StoreIsWhole, OwnBearer, ProtectedNeedsAuth,
                            PairUnlessOverlapped, WaitingHasLogin, isAuthenticated
<1>9. ASSUME Reload
      PROVE  WebInv'
  <2>1. /\ Guarded(Page, FALSE) \in Pages /\ Guarded(Page, FALSE) \notin Protected
        /\ Replace(Guarded(Page, FALSE))
    BY <1>0, <1>9, GuardedPage DEF Reload
  <2>2. logins' \in [Logins -> Login]
    BY <1>9 DEF Reload, NoLogin, Login
  <2>3. WebTypeOK' /\ Page' \notin Protected
    BY <1>9, <2>1, <2>2, ReplaceEntry DEF Reload, WebTypeOK
  <2>4. QED
    BY <1>9, <2>3 DEF Reload, StoreIsWhole, OwnBearer, NoLogin, ProtectedNeedsAuth,
                      PairUnlessOverlapped, WaitingHasLogin, isAuthenticated
<1>10. ASSUME CreateUser
       PROVE  WebInv'
  BY <1>10 DEF CreateUser, place, store, WebTypeOK, StoreIsWhole, OwnBearer,
               ProtectedNeedsAuth, PairUnlessOverlapped, WaitingHasLogin, isAuthenticated,
               Page
<1>11. ASSUME UserCreated
       PROVE  WebInv'
  <2>1. CASE UNCHANGED place
    BY <1>11, <2>1 DEF UserCreated, place, store, WebTypeOK, StoreIsWhole, OwnBearer,
                       ProtectedNeedsAuth, PairUnlessOverlapped, WaitingHasLogin,
                       isAuthenticated, Page
  <2>2. CASE Replace(Guarded("users", isAuthenticated)) /\ waiting' = Null
    <3>1. /\ Guarded("users", isAuthenticated) \in Pages
          /\ Guarded("users", isAuthenticated) \in Protected => isAuthenticated
      BY <1>0, GuardedPage DEF Pages, Protected
    <3>2. WebTypeOK' /\ Page' = Guarded("users", isAuthenticated)
      BY <1>11, <2>2, <3>1, ReplaceEntry DEF UserCreated, WebTypeOK, store
    <3>3. QED
      BY <1>11, <2>2, <3>1, <3>2 DEF UserCreated, store, StoreIsWhole, OwnBearer,
                                     ProtectedNeedsAuth, PairUnlessOverlapped,
                                     WaitingHasLogin, isAuthenticated
  <2>3. QED
    BY <1>11, <2>1, <2>2 DEF UserCreated
<1>12. CASE UNCHANGED webVars
  BY <1>12 DEF webVars, WebTypeOK, StoreIsWhole, OwnBearer, ProtectedNeedsAuth,
               PairUnlessOverlapped, WaitingHasLogin, isAuthenticated, Page
<1>13. QED
  BY <1>1, <1>2, <1>3, <1>4, <1>5, <1>6, <1>7, <1>8, <1>9, <1>10, <1>11, <1>12
     DEF WebNext

(* The invariant holds throughout.                                         *)
THEOREM WebInvariant == WebSpec => []WebInv
<1>1. QED
  BY InitInv, StepInv, PTL DEF WebSpec

(* No late answer and no move through the history displays a protected     *)
(* page without a session.                                                 *)
THEOREM PagesGuarded == WebSpec => []ProtectedNeedsAuth
<1>1. WebInv => ProtectedNeedsAuth
  BY DEF WebInv
<1>2. QED
  BY <1>1, WebInvariant, PTL

(* Token and user belong together unless a login overlapped with a session. *)
THEOREM PairsConsistent == WebSpec => []PairUnlessOverlapped
<1>1. WebInv => PairUnlessOverlapped
  BY DEF WebInv
<1>2. QED
  BY <1>1, WebInvariant, PTL

(* No LoginPage waits for ever for a login that has ended.                 *)
THEOREM WaitingEnds == WebSpec => []WaitingHasLogin
<1>1. WebInv => WaitingHasLogin
  BY DEF WebInv
<1>2. QED
  BY <1>1, WebInvariant, PTL

-----------------------------------------------------------------------------
(* The session with the query cache.                                       *)

(* Each step is one of the session, or leaves the session alone.           *)
LEMMA SessionStepsOrStutters ==
  ASSUME [TabNext]_tabVars
  PROVE  [WebNext]_webVars
<1>1. CASE SessionStep
  BY <1>1 DEF SessionStep, WebNext
<1>2. CASE ReloadTab
  BY <1>2 DEF ReloadTab, WebNext
<1>3. CASE Focus \/ Fetched \/ Collect \/ UNCHANGED tabVars
  BY <1>3 DEF Focus, Fetched, Collect, tabVars
<1>4. QED
  BY <1>1, <1>2, <1>3 DEF TabNext

(* A tab that is opened satisfies the invariant.                           *)
LEMMA TabInit_Inv == TabInit => TabInv
<1> SUFFICES ASSUME TabInit PROVE TabInv
  OBVIOUS
<1>1. WebInv
  BY InitInv DEF TabInit
<1>2. QED
  BY <1>1 DEF TabInit, TabInv, TabTypeOK, WebInv, OwnFetch, ForeignListIsBrief

(* A step of the session that carries the cache along keeps the invariant. *)
LEMMA CarryInv ==
  ASSUME TabInv, WebInv', Carry
  PROVE  TabInv'
<1>1. /\ accessToken' \in Accounts \cup {Null}
      /\ fetch \in Accounts \cup {Null} /\ list' = list
      /\ list \in Accounts \cup {Null}
      /\ WebTypeOK'
  BY DEF Carry, TabInv, TabTypeOK, WebInv, WebTypeOK
<1>2. fetch' = fetch \/ (fetch = Null /\ fetch' = accessToken')
  BY DEF Carry, Fetches
<1>3. TabTypeOK'
  <2>1. mixed' \in BOOLEAN
    BY DEF Carry
  <2>2. QED
    BY <1>1, <1>2, <2>1 DEF TabTypeOK
(* Without a clean change of accounts, token and fetch are those of before,*)
(* or of the account that signs in.                                        *)
<1>4. ASSUME accessToken' # Null, ~ mixed'
      PROVE  /\ ~ mixed
             /\ accessToken' = accessToken \/ accessToken = Null
             /\ fetch \in {Null, accessToken'}
  <2>1. ~ mixed
    BY <1>4 DEF Carry
  <2>2. CASE SignsIn
    <3>1. {accessToken, fetch} \ {accessToken', Null} = {}
      BY <1>4, <2>2 DEF Carry
    <3>2. QED
      BY <2>1, <3>1
  <2>3. CASE ~ SignsIn
    BY <1>4, <2>1, <2>3 DEF SignsIn, TabInv, OwnFetch
  <2>4. QED
    BY <2>2, <2>3
<1>5. OwnFetch'
  BY <1>2, <1>4 DEF OwnFetch
<1>6. ForeignListIsBrief'
  <2> SUFFICES ASSUME Page' = "dashboard", ~ mixed'
               PROVE  list' \in {Null, accessToken'} \/ fetch' = accessToken'
    BY DEF ForeignListIsBrief
  <2>1. accessToken' # Null
    BY DEF WebInv, ProtectedNeedsAuth, Protected
  <2>2. CASE MountsDashboard
    BY <1>4, <2>1, <2>2 DEF Carry, Fetches
  <2>3. CASE ~ MountsDashboard
    <3>1. Page = "dashboard"
      BY <2>3 DEF MountsDashboard
    <3>2. accessToken # Null
      BY <3>1 DEF TabInv, WebInv, ProtectedNeedsAuth, Protected
    <3>3. accessToken' = accessToken /\ fetch' = fetch
      BY <1>4, <2>1, <2>3, <3>2 DEF Carry
    <3>4. QED
      BY <1>1, <1>4, <2>1, <3>1, <3>3 DEF TabInv, ForeignListIsBrief
  <2>4. QED
    BY <2>2, <2>3
<1>7. QED
  BY <1>3, <1>5, <1>6 DEF TabInv

(* Every step keeps the invariant.                                         *)
LEMMA TabStep == TabInv /\ [TabNext]_tabVars => TabInv'
<1> SUFFICES ASSUME TabInv, [TabNext]_tabVars PROVE TabInv'
  OBVIOUS
<1>0. WebInv'
  BY SessionStepsOrStutters, StepInv DEF TabInv
<1>1. CASE SessionStep /\ Carry
  BY <1>0, <1>1, CarryInv
<1>2. CASE Focus
  <2>1. UNCHANGED <<accessToken, Page>> /\ accessToken # Null
    BY <1>2 DEF Focus, webVars, Page, TabInv, WebInv, ProtectedNeedsAuth
  <2>2. TabTypeOK'
    BY <1>0, <1>2 DEF Focus, Fetches, TabInv, TabTypeOK, WebInv, WebTypeOK
  <2>3. QED
    BY <1>0, <1>2, <2>1, <2>2 DEF Focus, Fetches, TabInv, OwnFetch, ForeignListIsBrief
<1>3. CASE Fetched
  <2>1. UNCHANGED <<accessToken, Page>>
    BY <1>3 DEF Fetched, webVars, Page
  <2>2. TabTypeOK'
    BY <1>0, <1>3 DEF Fetched, TabInv, TabTypeOK, WebInv
  <2>3. OwnFetch'
    BY <1>3 DEF Fetched, OwnFetch
  <2>4. ForeignListIsBrief'
    <3>1. Page = "dashboard" => accessToken # Null
      BY DEF TabInv, WebInv, ProtectedNeedsAuth, Protected
    <3>2. QED
      BY <1>3, <2>1, <3>1 DEF Fetched, TabInv, OwnFetch, ForeignListIsBrief
  <2>5. QED
    BY <1>0, <2>2, <2>3, <2>4 DEF TabInv
<1>4. CASE Collect
  <2>1. UNCHANGED <<accessToken, Page>>
    BY <1>4 DEF Collect, webVars, Page
  <2>2. QED
    BY <1>0, <1>4, <2>1 DEF Collect, TabInv, TabTypeOK, WebInv, OwnFetch, ForeignListIsBrief
<1>5. CASE ReloadTab
  <2>1. accessToken' = Null
    BY <1>5 DEF ReloadTab, Reload
  <2>2. Page' # "dashboard"
    BY <1>0, <2>1 DEF WebInv, ProtectedNeedsAuth, Protected
  <2>3. QED
    BY <1>0, <1>5, <2>1, <2>2
       DEF ReloadTab, TabInv, TabTypeOK, WebInv, OwnFetch, ForeignListIsBrief
<1>6. CASE UNCHANGED tabVars
  <2>1. UNCHANGED <<accessToken, Page>>
    BY <1>6 DEF tabVars, webVars, Page
  <2>2. QED
    BY <1>0, <1>6, <2>1
       DEF tabVars, cacheVars, TabInv, TabTypeOK, WebInv, OwnFetch, ForeignListIsBrief
<1>7. QED
  BY <1>1, <1>2, <1>3, <1>4, <1>5, <1>6 DEF TabNext

(* The invariant holds in every behaviour of the tab.                      *)
THEOREM TabInvariant == TabSpec => []TabInv
<1>1. QED
  BY TabInit_Inv, TabStep, PTL DEF TabSpec

(* Session and cache keep their shapes, for any number of accounts, logins *)
(* and history entries.                                                    *)
THEOREM TabTypeCorrect == TabSpec => []TabTypeOK
<1>1. TabInv => TabTypeOK
  BY DEF TabInv
<1>2. QED
  BY <1>1, TabInvariant, PTL

(* The dashboard shows the list of another account only while the list of  *)
(* the own one is being fetched, unless a session or fetch of the other    *)
(* account was still there when this one signed in (DashboardPage).        *)
THEOREM ForeignListsAreBrief == TabSpec => []ForeignListIsBrief
<1>1. TabInv => ForeignListIsBrief
  BY DEF TabInv
<1>2. QED
  BY <1>1, TabInvariant, PTL

(* With its cache, too, every behaviour of the tab is one of the session.  *)
THEOREM SessionImplemented == TabSpec => WebSpec
<1>1. TabInit => WebInit
  BY DEF TabInit
<1>2. [TabNext]_tabVars => [WebNext]_webVars
  BY SessionStepsOrStutters
<1>3. QED
  BY <1>1, <1>2, PTL DEF TabSpec, WebSpec
=============================================================================
