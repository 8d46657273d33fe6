--------------------------- MODULE AccessControl ---------------------------
(***************************************************************************)
(* Who is served what.  An access token is a JWT signed by issueTokenPair: *)
(* a snapshot of an account that the middleware never compares with the    *)
(* tables again.  The module adds to the requests of AuthService the role  *)
(* they read, the JWT they sign, the clock, and the gates of the routes.   *)
(***************************************************************************)
EXTENDS AuthService

CONSTANTS
    Roles,     \* codes of identity_roles that accounts are given
    AccessTTL, \* lifetime of a JWT, in ticks
    AgeBound   \* ages stop counting here

ASSUME AccessTTLAssumption == AccessTTL \in Nat \ {0}
ASSUME AgeBoundAssumption == AgeBound \in Nat /\ AgeBound > AccessTTL

VARIABLES
    role,      \* the code of each account's primary role
    found,     \* the role each request has read and not yet signed, if any
    claims,    \* the JWT each request has signed and not yet handed out
    access,    \* the JWT issued together with each session
    adminAge,  \* history: ticks since each account last had an administrator's role
    activeAge, \* history: ticks since each account was last visible and ACTIVE
    reqAge     \* history: ticks since each request began

ages == <<adminAge, activeAge, reqAge>>

accessVars == <<authVars, role, found, claims, access, ages>>

NoRole == ""

Codes == Roles \cup {NoRole}

Ages == 0 .. AgeBound

(* "age" is history: the ticks since the role was read.                    *)
RoleFound == [role : Codes, age : Ages]

(* "left" is the ticks until exp; "lag" and "late" are history: how long   *)
(* the request had been running when it signed, and how long before that   *)
(* it had read the role.                                                   *)
Claims ==
    [user : UserIds \cup {Null}, role : Codes, left : 0 .. AccessTTL,
     lag : Ages, late : Ages]

NoClaims == [user |-> Null, role |-> NoRole, left |-> 0, lag |-> 0, late |-> 0]

AccessTypeOK ==
    /\ AuthTypeOK
    /\ role      \in [UserIds -> Codes]
    /\ found     \in [Reqs -> SUBSET RoleFound]
    /\ claims    \in [Reqs -> Claims]
    /\ access    \in [SessionIds -> Claims]
    /\ adminAge  \in [UserIds -> Ages]
    /\ activeAge \in [UserIds -> Ages]
    /\ reqAge    \in [Reqs -> Ages]

(* The lists of administrators' roles: the router's for the routes under   *)
(* /api/users, which is also the handlers', and for those under /api/roles. *)
UserAdmins == {"AdminCheckOn", "Administrador"}
RoleAdmins == {"ADMIN_CHECK_ON", "ADMINISTRADOR"}
AdminRoles == UserAdmins \cup RoleAdmins

AccessInit ==
    /\ AuthInit
    /\ role      \in [UserIds -> Codes]
    /\ found     = [r \in Reqs |-> {}]
    /\ claims    = [r \in Reqs |-> NoClaims]
    /\ access    = [s \in SessionIds |-> NoClaims]
    /\ adminAge  = [u \in UserIds |-> IF role[u] \in AdminRoles THEN 0 ELSE AgeBound]
    /\ activeAge = [u \in UserIds |-> IF Active(u) THEN 0 ELSE AgeBound]
    /\ reqAge    = [r \in Reqs |-> 0]

-----------------------------------------------------------------------------
(* issueTokenPair in three steps: role, signature, session                 *)

Signed(r) == claims[r].user # Null

(* Mutant: a refresh copies the role of the JWT it replaces.               *)
FindPrimaryRoleCodeKept(r) ==
    /\ frames[r].pc = "issue"
    /\ ~ Signed(r) /\ found[r] = {}
    /\ found' = [found EXCEPT ![r] =
                    {[role |-> IF frames[r].from = Null THEN role[frames[r].user]
                               ELSE access[frames[r].from].role,
                      age |-> 0]}]
    /\ UNCHANGED <<authVars, role, claims, access, ages>>

(* A lookup that fails is ignored: the JWT will be without a role.         *)
FindPrimaryRoleCode(r) ==
    /\ frames[r].pc = "issue"
    /\ ~ Signed(r) /\ found[r] = {}
    /\ \E c \in {role[frames[r].user]} \cup (IF Faults THEN {NoRole} ELSE {}) :
         found' = [found EXCEPT ![r] = {[role |-> c, age |-> 0]}]
    /\ UNCHANGED <<authVars, role, claims, access, ages>>

(* Mutant: the JWT is given the lifetime of the refresh token.             *)
SignRefreshTTL(r) ==
    /\ frames[r].pc = "issue"
    /\ ~ Signed(r)
    /\ \E f \in found[r] :
         claims' = [claims EXCEPT ![r] =
                      [user |-> frames[r].user, role |-> f.role,
                       left |-> AccessTTL + 1, lag |-> reqAge[r], late |-> f.age]]
    /\ found' = [found EXCEPT ![r] = {}]
    /\ UNCHANGED <<authVars, role, access, ages>>

(* The role may have been withdrawn and time have passed since the lookup; *)
(* the lifetime of the JWT begins now.                                     *)
Sign(r) ==
    /\ frames[r].pc = "issue"
    /\ ~ Signed(r)
    /\ \E f \in found[r] :
         claims' = [claims EXCEPT ![r] =
                      [user |-> frames[r].user, role |-> f.role,
                       left |-> AccessTTL, lag |-> reqAge[r], late |-> f.age]]
    /\ found' = [found EXCEPT ![r] = {}]
    /\ UNCHANGED <<authVars, role, access, ages>>

(* The INSERT of the session; the pair is what the request will reply.     *)
Issue(r) ==
    /\ Signed(r)
    /\ IssueSession(r)
    /\ access' = [access EXCEPT ![frames'[r].new] = claims[r]]
    /\ claims' = [claims EXCEPT ![r] = NoClaims]
    /\ UNCHANGED <<role, found, ages>>

(* The other calls of a request.                                           *)
Proceed(r) ==
    /\ \/ LoginFailed(r)
       \/ LoginRecord(r)
       \/ RefreshOwner(r)
       \/ RefreshRevoke(r)
       \/ Signed(r) /\ IssueRefused(r)
       \/ Reply(r)
       \/ Abandon(r)
    /\ found'  = [found EXCEPT ![r] = IF frames'[r].pc = "idle" THEN {} ELSE @]
    /\ claims' = [claims EXCEPT ![r] = IF frames'[r].pc = "idle" THEN NoClaims ELSE @]
    /\ UNCHANGED <<role, access, ages>>

Begin(r) ==
    /\ Arrive(r)
    /\ reqAge' = [reqAge EXCEPT ![r] = 0]
    /\ UNCHANGED <<role, found, claims, access, adminAge, activeAge>>

-----------------------------------------------------------------------------
(* The rest of the world                                                   *)

(* An operator's UPDATE of identity_user_roles.                            *)
SetRole(u, c) ==
    /\ Stored(u)
    /\ role[u] # c
    /\ role'     = [role EXCEPT ![u] = c]
    /\ adminAge' = [adminAge EXCEPT ![u] = IF c \in AdminRoles THEN 0 ELSE @]
    /\ UNCHANGED <<authVars, found, claims, access, activeAge, reqAge>>

(* DeleteAllData truncates the roles, too, and the JWTs stay with the      *)
(* clients.  The other steps are operators' and the clock's.               *)
Elsewhere ==
    /\ Environment
    /\ activeAge' = [u \in UserIds |-> IF Active(u)' THEN 0 ELSE activeAge[u]]
    /\ role'      = [u \in UserIds |-> IF Stored(u)' THEN role[u] ELSE NoRole]
    /\ UNCHANGED <<found, claims, access, adminAge, reqAge>>

Older(age) == IF age = AgeBound THEN age ELSE age + 1

(* The history of a JWT is kept while it lasts.                            *)
Shorter(c) ==
    IF c.left > 1 THEN [c EXCEPT !.left = @ - 1]
                  ELSE [c EXCEPT !.left = 0, !.lag = 0, !.late = 0]

Tick ==
    /\ found'     = [r \in Reqs |-> {[f EXCEPT !.age = Older(@)] : f \in found[r]}]
    /\ claims'    = [r \in Reqs |-> Shorter(claims[r])]
    /\ access'    = [s \in SessionIds |-> Shorter(access[s])]
    /\ adminAge'  = [u \in UserIds |->
                       IF role[u] \in AdminRoles THEN 0 ELSE Older(adminAge[u])]
    /\ activeAge' = [u \in UserIds |-> IF Active(u) THEN 0 ELSE Older(activeAge[u])]
    /\ reqAge'    = [r \in Reqs |-> IF frames[r].pc = "idle" THEN 0 ELSE Older(reqAge[r])]
    /\ UNCHANGED <<authVars, role>>

AccessNext ==
    \/ \E r \in Reqs :
         Begin(r) \/ FindPrimaryRoleCode(r) \/ Sign(r) \/ Issue(r) \/ Proceed(r)
    \/ \E u \in UserIds, c \in Codes : SetRole(u, c)
    \/ Elsewhere
    \/ Tick

AccessSpec == AccessInit /\ [][AccessNext]_accessVars

-----------------------------------------------------------------------------
(* The gates, as functions of the JWT that comes with a request            *)

(* The signature and exp.                                                  *)
ParseAccessToken(s) == s \in held /\ access[s].left > 0

(* What JWTAuth stores in the context of a request, under keys of the      *)
(* middleware's type; the user handlers read CtxUserID, a key of theirs.   *)
ContextKeys == {"middleware.userID", "middleware.tenantID", "middleware.email",
                "middleware.role"}
CtxUserID == "handler.userID"

RequireRoles(s, allowed) == access[s].role # NoRole /\ access[s].role \in allowed

IsAdmin(s) == access[s].role \in UserAdmins

(* What the handlers themselves require of the caller.                     *)
MeAdmits(s) == "middleware.userID" \in ContextKeys /\ Visible(access[s].user)
CreateUserAdmits(s) == IsAdmin(s)
GetFirebaseTokenAdmits(s) == IsAdmin(s)
UpdateFirebaseTokenAdmits == CtxUserID \in ContextKeys
DeleteAllDataAdmits(s) == DeleteEnabled /\ IsAdmin(s)

OpenRoutes == {"me", "listByRole", "getLastCreatedID", "updateFirebaseToken"}
AdminRoutes == {"createUser", "getFirebaseToken", "deleteAllData", "roles"}

(* The router: behind JWTAuth, a middleware for some routes, the handler.  *)
Served(s, route) ==
    /\ ParseAccessToken(s)
    /\ CASE route = "me" -> MeAdmits(s)
         [] route \in {"listByRole", "getLastCreatedID"} -> TRUE
         [] route = "updateFirebaseToken" -> UpdateFirebaseTokenAdmits
         [] route = "createUser" -> RequireRoles(s, UserAdmins) /\ CreateUserAdmits(s)
         [] route = "getFirebaseToken" ->
              RequireRoles(s, UserAdmins) /\ GetFirebaseTokenAdmits(s)
         [] route = "deleteAllData" -> DeleteAllDataAdmits(s)
         [] route = "roles" -> RequireRoles(s, RoleAdmins)

-----------------------------------------------------------------------------
(* Properties                                                              *)

(* A role outlives its withdrawal only by the lifetime of a JWT and the    *)
(* time its request took from reading the role to signing: whoever is      *)
(* served a route for administrators had such a role no longer ago than    *)
(* that, however often the token was refreshed since.                      *)
RoleAgesOut ==
    \A s \in SessionIds, route \in AdminRoutes :
       Served(s, route) =>
          adminAge[access[s].user] <= AccessTTL - access[s].left + access[s].late

(* So does the status ACTIVE, up to the time the request that signed the   *)
(* JWT had been running: it checks the status first and the JWT carries    *)
(* the time of the signature.                                              *)
StatusAgesOut ==
    \A s \in SessionIds, route \in OpenRoutes \cup AdminRoutes :
       Served(s, route) =>
          activeAge[access[s].user] <= AccessTTL - access[s].left + access[s].lag

-----------------------------------------------------------------------------
(* The inductive invariant: how old what a JWT says can be while it lasts. *)

(* An administrator's role and the status ACTIVE of now are no time ago.   *)
Dated ==
    \A u \in UserIds :
       /\ role[u] \in AdminRoles => adminAge[u] = 0
       /\ Active(u) => activeAge[u] = 0

(* Past the check of the status, the account was ACTIVE while the request  *)
(* was running.                                                            *)
RequestDated(r) ==
    frames[r].pc \in {"countFailure", "recordLogin", "revoke", "issue"} =>
       activeAge[frames[r].user] <= reqAge[r]

(* Between the lookup and the signature, the role is as old as the lookup. *)
FoundDated(r) ==
    \A f \in found[r] :
       /\ frames[r].pc = "issue" /\ ~ Signed(r)
       /\ f.role \in AdminRoles => adminAge[frames[r].user] <= f.age

(* The role of a JWT was read a while before it was signed, the status     *)
(* before that.                                                            *)
ClaimsDated(c) ==
    c.left > 0 =>
       /\ c.user \in UserIds
       /\ c.role \in AdminRoles => adminAge[c.user] <= AccessTTL - c.left + c.late
       /\ activeAge[c.user] <= AccessTTL - c.left + c.lag

AccessInv ==
    /\ AccessTypeOK
    /\ Dated
    /\ \A r \in Reqs : RequestDated(r) /\ FoundDated(r) /\ ClaimsDated(claims[r])
    /\ \A s \in SessionIds : ClaimsDated(access[s])
=============================================================================
