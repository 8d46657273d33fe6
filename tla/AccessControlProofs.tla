------------------------ MODULE AccessControlProofs -------------------------
(***************************************************************************)
(* Theorems about AccessControl, for any number of accounts, sessions,     *)
(* requests in flight and roles, and for any lifetime of a JWT.            *)
(***************************************************************************)
EXTENDS AccessControl, AuthServiceProofs

-----------------------------------------------------------------------------
(* What is known of AuthService holds here: the clock, the roles and the   *)
(* signatures touch neither its tables nor its requests.                   *)

(* Each step is one of AuthService, or leaves it alone.                    *)
LEMMA AuthStepsOrStutters ==
  ASSUME [AccessNext]_accessVars
  PROVE  [AuthNext]_authVars
<1>1. ASSUME NEW r \in Reqs, Begin(r) \/ Issue(r) \/ Proceed(r)
      PROVE  AuthNext
  BY <1>1 DEF Begin, Issue, Proceed, AuthNext, Serve
<1>2. ASSUME NEW r \in Reqs, FindPrimaryRoleCode(r) \/ Sign(r)
      PROVE  UNCHANGED authVars
  BY <1>2 DEF FindPrimaryRoleCode, Sign
<1>3. ASSUME NEW u \in UserIds, NEW c \in Codes, SetRole(u, c)
      PROVE  UNCHANGED authVars
  BY <1>3 DEF SetRole
<1>4. ASSUME Elsewhere
      PROVE  AuthNext
  BY <1>4 DEF Elsewhere, AuthNext
<1>5. CASE Tick
  BY <1>5 DEF Tick
<1>6. CASE UNCHANGED accessVars
  BY <1>6 DEF accessVars
<1>7. QED
  BY <1>1, <1>2, <1>3, <1>4, <1>5, <1>6 DEF AccessNext

(* Every behaviour of the module is one of AuthService, whatever is        *)
(* signed and however the roles change (auth_service.go:183-231).          *)
THEOREM AuthImplemented == AccessSpec => AuthSpec
<1>1. AccessInit => AuthInit
  BY DEF AccessInit
<1>2. [AccessNext]_accessVars => [AuthNext]_authVars
  BY AuthStepsOrStutters
<1>3. QED
  BY <1>1, <1>2, PTL DEF AccessSpec, AuthSpec

-----------------------------------------------------------------------------
(* Clocks and JWTs.                                                        *)

(* A tick makes nothing younger than it was by more than a tick.           *)
LEMMA OlderAge ==
  ASSUME NEW age \in Ages
  PROVE  /\ Older(age) \in Ages
         /\ age <= Older(age) /\ Older(age) <= age + 1
         /\ Older(age) # age + 1 => Older(age) = AgeBound
  BY AgeBoundAssumption DEF Older, Ages

(* A JWT keeps what it says and loses a tick of its lifetime, and while it *)
(* lasts it keeps its history.                                             *)
LEMMA ShorterClaims ==
  ASSUME NEW c \in Claims
  PROVE  /\ Shorter(c) \in Claims
         /\ Shorter(c).user = c.user /\ Shorter(c).role = c.role
         /\ Shorter(c).left > 0 => /\ Shorter(c).left = c.left - 1
                                   /\ Shorter(c).lag = c.lag /\ Shorter(c).late = c.late
<1>1. 0 \in Ages /\ 0 \in 0 .. AccessTTL
  BY AccessTTLAssumption, AgeBoundAssumption DEF Ages
<1>2. CASE c.left > 1
  <2>1. c.left - 1 \in 0 .. AccessTTL
    BY <1>2, AccessTTLAssumption DEF Claims
  <2>2. QED
    BY <1>2, <2>1 DEF Shorter, Claims
<1>3. CASE ~ (c.left > 1)
  <2>1. Shorter(c) = [c EXCEPT !.left = 0, !.lag = 0, !.late = 0]
    BY <1>3 DEF Shorter
  <2>2. Shorter(c) = [user |-> c.user, role |-> c.role, left |-> 0, lag |-> 0, late |-> 0]
    BY <2>1 DEF Claims
  <2>3. Shorter(c) \in Claims
    BY <1>1, <2>2 DEF Claims
  <2>4. Shorter(c).user = c.user /\ Shorter(c).role = c.role /\ Shorter(c).left = 0
    BY <2>2
  <2>5. QED
    BY <2>3, <2>4
<1>4. QED
  BY <1>2, <1>3

(* No JWT is a JWT of nobody that has expired.                             *)
LEMMA NoClaimsType == NoClaims \in Claims /\ ~ (NoClaims.left > 0)
  BY AccessTTLAssumption, AgeBoundAssumption DEF NoClaims, Claims, Codes, Ages

(* While an account is ACTIVE its history says so, and when it was         *)
(* ACTIVE it is no further back than before.                               *)
LEMMA ActiveByRow ==
  ASSUME NEW u \in UserIds,
         users'[u].row = users[u].row, users'[u].status = users[u].status
  PROVE  Active(u)' = Active(u)
  BY DEF Active, Visible, CanLogin

(* A JWT of before the step stays dated when no age grew.                  *)
LEMMA ClaimsStayDated ==
  ASSUME AccessTypeOK, AccessTypeOK', NEW c \in Claims, ClaimsDated(c),
         \A u \in UserIds : adminAge'[u] <= adminAge[u] /\ activeAge'[u] <= activeAge[u]
  PROVE  ClaimsDated(c)'
<1> SUFFICES ASSUME c.left > 0
             PROVE  /\ c.user \in UserIds
                    /\ c.role \in AdminRoles => adminAge'[c.user] <= AccessTTL - c.left + c.late
                    /\ activeAge'[c.user] <= AccessTTL - c.left + c.lag
  BY DEF ClaimsDated
<1>1. c.user \in UserIds
  BY DEF ClaimsDated
<1>2. /\ adminAge[c.user] \in Nat /\ adminAge'[c.user] \in Nat
      /\ activeAge[c.user] \in Nat /\ activeAge'[c.user] \in Nat
      /\ c.left \in Nat /\ c.lag \in Nat /\ c.late \in Nat
  BY <1>1, AgeBoundAssumption, AccessTTLAssumption DEF AccessTypeOK, Claims, Ages
<1>3. QED
  BY <1>1, <1>2, AccessTTLAssumption DEF ClaimsDated

-----------------------------------------------------------------------------
(* The inductive invariant.                                                *)

(* The initial states satisfy it: nothing is signed.                       *)
LEMMA AccessInitInv == AccessInit => AccessInv
<1> SUFFICES ASSUME AccessInit PROVE AccessInv
  OBVIOUS
<1>1. 0 \in Ages /\ AgeBound \in Ages
  BY AgeBoundAssumption DEF Ages
<1>2. AccessTypeOK
  BY <1>1, InitType, NoClaimsType DEF AccessInit, AccessTypeOK
<1>3. Dated
  BY DEF AccessInit, Dated
<1>4. \A r \in Reqs : RequestDated(r) /\ FoundDated(r)
  BY DEF AccessInit, AuthInit, Idle, RequestDated, FoundDated
<1>5. /\ \A r \in Reqs : ClaimsDated(claims[r])
      /\ \A s \in SessionIds : ClaimsDated(access[s])
  BY NoClaimsType DEF AccessInit, ClaimsDated
<1>6. QED
  BY <1>2, <1>3, <1>4, <1>5 DEF AccessInv

(* A step that changes no role and no age, and adds no JWT but one that is *)
(* dated, keeps the invariant if the other requests stay past the check.   *)
LEMMA SameAges ==
  ASSUME AccessInv, AuthTypeOK', UNCHANGED <<role, adminAge, activeAge>>,
         reqAge' \in [Reqs -> Ages], found' \in [Reqs -> SUBSET RoleFound],
         claims' \in [Reqs -> Claims], access' \in [SessionIds -> Claims],
         \A u \in UserIds : Active(u)' = Active(u),
         \A r \in Reqs : RequestDated(r)', \A r \in Reqs : FoundDated(r)',
         \A r \in Reqs : claims'[r] = claims[r] \/ ClaimsDated(claims'[r]),
         \A s \in SessionIds : access'[s] = access[s] \/ ClaimsDated(access'[s])
  PROVE  AccessInv'
<1>1. AccessTypeOK'
  BY DEF AccessInv, AccessTypeOK
<1>2. Dated'
  <2>1. \A u \in UserIds : /\ role'[u] \in AdminRoles => adminAge'[u] = 0
                           /\ Active(u)' => activeAge'[u] = 0
    BY DEF AccessInv, Dated
  <2>2. QED
    BY <2>1 DEF Dated
<1>3. \A c : ClaimsDated(c) => ClaimsDated(c)'
  BY DEF ClaimsDated
<1>4. /\ \A r \in Reqs : ClaimsDated(claims'[r])
      /\ \A s \in SessionIds : ClaimsDated(access'[s])
  BY DEF AccessInv
<1>5. /\ \A r \in Reqs : ClaimsDated(claims[r])'
      /\ \A s \in SessionIds : ClaimsDated(access[s])'
  BY <1>4 DEF ClaimsDated
<1>6. QED
  BY <1>1, <1>2, <1>5 DEF AccessInv

(* The next call of a request keeps what the invariant says of requests.   *)
LEMMA RequestsStayDated ==
  ASSUME AuthInv, AccessInv, NEW r \in Reqs, Arrive(r) \/ Serve(r) \/ Abandon(r),
         activeAge' = activeAge, reqAge' \in [Reqs -> Ages],
         \A q \in Reqs : reqAge'[q] = reqAge[q] \/ (q = r /\ frames[q].pc = "idle")
  PROVE  \A q \in Reqs : RequestDated(q)'
<1>1. ASSUME NEW q \in Reqs, q # r
      PROVE  RequestDated(q)'
  <2>1. frames'[q] = frames[q] /\ reqAge'[q] = reqAge[q]
    BY <1>1, RequestKeepsRows
  <2>2. QED
    BY <2>1 DEF AccessInv, RequestDated
<1>2. ASSUME frames'[r].pc \in {"countFailure", "recordLogin", "revoke", "issue"}
      PROVE  activeAge'[frames'[r].user] <= reqAge'[r]
  <2>1. /\ frames'[r].user \in UserIds
        /\ \/ Active(frames'[r].user)
           \/ /\ frames[r].pc \in {"countFailure", "recordLogin", "revoke", "issue"}
              /\ frames[r].user = frames'[r].user
    BY <1>2, RequestPassesCheck
  <2>2. CASE Active(frames'[r].user)
    <3>1. activeAge[frames'[r].user] = 0
      BY <2>1, <2>2 DEF AccessInv, Dated
    <3>2. reqAge'[r] \in Nat
      BY AgeBoundAssumption DEF Ages
    <3>3. QED
      BY <3>1, <3>2
  <2>3. CASE /\ frames[r].pc \in {"countFailure", "recordLogin", "revoke", "issue"}
             /\ frames[r].user = frames'[r].user
    BY <2>3 DEF AccessInv, RequestDated
  <2>4. QED
    BY <2>1, <2>2, <2>3
<1>3. RequestDated(r)'
  BY <1>2 DEF RequestDated
<1>4. QED
  BY <1>1, <1>3

(* It keeps the roles that other requests have read, and has none itself   *)
(* but between the lookup and the signature.                               *)
LEMMA FoundStaysDated ==
  ASSUME AuthInv, AccessInv, NEW r \in Reqs, Arrive(r) \/ Serve(r) \/ Abandon(r),
         adminAge' = adminAge, found'[r] = {},
         \A q \in Reqs : q # r => found'[q] = found[q] /\ claims'[q] = claims[q]
  PROVE  \A q \in Reqs : FoundDated(q)'
<1>1. ASSUME NEW q \in Reqs, q # r
      PROVE  FoundDated(q)'
  <2>1. /\ frames'[q] = frames[q] /\ found'[q] = found[q] /\ claims'[q] = claims[q]
    BY <1>1, RequestKeepsRows
  <2>2. QED
    BY <2>1 DEF AccessInv, FoundDated, Signed
<1>2. FoundDated(r)'
  BY DEF FoundDated
<1>3. QED
  BY <1>1, <1>2

(* A tick brings everybody's age and every JWT's end one tick nearer.      *)
LEMMA TickInv ==
  ASSUME AuthInv, AccessInv, Tick
  PROVE  AccessInv'
<1> USE DEF AccessInv, AccessTypeOK
<1>1. /\ \A u \in UserIds : adminAge[u] \in Ages /\ activeAge[u] \in Ages
      /\ \A r \in Reqs : reqAge[r] \in Ages /\ claims[r] \in Claims /\ found[r] \in SUBSET RoleFound
      /\ \A s \in SessionIds : access[s] \in Claims
      /\ 0 \in Ages
  BY AgeBoundAssumption DEF Ages
<1>2. UNCHANGED <<authVars, role>>
  BY DEF Tick
<1>3. \A u \in UserIds : /\ adminAge'[u] = (IF role[u] \in AdminRoles THEN 0 ELSE Older(adminAge[u]))
                         /\ activeAge'[u] = (IF Active(u) THEN 0 ELSE Older(activeAge[u]))
  BY DEF Tick
<1>4. \A u \in UserIds : /\ adminAge'[u] \in Ages /\ adminAge'[u] <= adminAge[u] + 1
                         /\ activeAge'[u] \in Ages /\ activeAge'[u] <= activeAge[u] + 1
  <2> SUFFICES ASSUME NEW u \in UserIds
               PROVE  /\ adminAge'[u] \in Ages /\ adminAge'[u] <= adminAge[u] + 1
                      /\ activeAge'[u] \in Ages /\ activeAge'[u] <= activeAge[u] + 1
    OBVIOUS
  <2>1. 0 <= adminAge[u] + 1 /\ 0 <= activeAge[u] + 1
    BY <1>1, AgeBoundAssumption DEF Ages
  <2>2. QED
    BY <1>1, <1>3, <2>1, OlderAge
<1>5. AccessTypeOK'
  <2>1. AuthTypeOK'
    BY <1>2 DEF authVars, AuthTypeOK, StoreTypeOK
  <2>2. adminAge' \in [UserIds -> Ages] /\ activeAge' \in [UserIds -> Ages]
    BY <1>4 DEF Tick
  <2>3. reqAge' \in [Reqs -> Ages]
    <3>1. \A r \in Reqs : (IF frames[r].pc = "idle" THEN 0 ELSE Older(reqAge[r])) \in Ages
      BY <1>1, OlderAge
    <3>2. QED
      BY <3>1 DEF Tick
  <2>4. claims' \in [Reqs -> Claims] /\ access' \in [SessionIds -> Claims]
    <3>1. /\ \A r \in Reqs : Shorter(claims[r]) \in Claims
          /\ \A s \in SessionIds : Shorter(access[s]) \in Claims
      BY <1>1, ShorterClaims
    <3>2. QED
      BY <3>1 DEF Tick
  <2>5. found' \in [Reqs -> SUBSET RoleFound]
    <3>1. ASSUME NEW f \in RoleFound
          PROVE  [f EXCEPT !.age = Older(@)] \in RoleFound
      <4>1. Older(f.age) \in Ages
        BY OlderAge DEF RoleFound
      <4>2. QED
        BY <4>1 DEF RoleFound
    <3>2. \A r \in Reqs :
             {[f EXCEPT !.age = Older(@)] : f \in found[r]} \in SUBSET RoleFound
      BY <1>1, <3>1
    <3>3. QED
      BY <3>2 DEF Tick
  <2>6. QED
    BY <1>2, <2>1, <2>2, <2>3, <2>4, <2>5
<1>6. \A u \in UserIds : Active(u)' = Active(u)
  BY <1>2 DEF authVars, Active, Visible
<1>7. Dated'
  BY <1>2, <1>3, <1>6 DEF Dated
<1>8. ASSUME NEW r \in Reqs
      PROVE  RequestDated(r)'
  <2> SUFFICES ASSUME frames[r].pc \in {"countFailure", "recordLogin", "revoke", "issue"}
               PROVE  activeAge'[frames[r].user] <= reqAge'[r]
    BY <1>2 DEF authVars, RequestDated
  <2>1. frames[r].user \in UserIds
    BY DEF AuthInv, FrameInv, FrameShape
  <2>2. activeAge[frames[r].user] <= reqAge[r]
    BY DEF RequestDated
  <2>3. reqAge'[r] = Older(reqAge[r])
    BY DEF Tick
  <2>4. \/ reqAge'[r] = reqAge[r] + 1
        \/ reqAge'[r] = AgeBound
    BY <1>1, <2>3, OlderAge
  <2>5. QED
    BY <1>1, <1>4, <2>1, <2>2, <2>4, AgeBoundAssumption DEF Ages
<1>9. ASSUME NEW c \in Claims, ClaimsDated(c)
      PROVE  Shorter(c).left > 0 =>
                /\ Shorter(c).user \in UserIds
                /\ Shorter(c).role \in AdminRoles =>
                      adminAge'[Shorter(c).user] <=
                         AccessTTL - Shorter(c).left + Shorter(c).late
                /\ activeAge'[Shorter(c).user] <=
                      AccessTTL - Shorter(c).left + Shorter(c).lag
  <2> DEFINE d == Shorter(c)
  <2>1. /\ d \in Claims /\ d.user = c.user /\ d.role = c.role
        /\ d.left > 0 => d.left = c.left - 1 /\ d.lag = c.lag /\ d.late = c.late
    BY ShorterClaims
  <2> HIDE DEF d
  <2>2. c.left \in Nat /\ c.lag \in Nat /\ c.late \in Nat /\ d.left \in Nat
    BY <2>1, AccessTTLAssumption, AgeBoundAssumption DEF Claims, Ages
  <2> SUFFICES ASSUME d.left > 0
               PROVE  /\ d.user \in UserIds
                      /\ d.role \in AdminRoles =>
                            adminAge'[d.user] <= AccessTTL - d.left + d.late
                      /\ activeAge'[d.user] <= AccessTTL - d.left + d.lag
    BY DEF d
  <2>3. d.left = c.left - 1 /\ c.left > 0 /\ d.lag = c.lag /\ d.late = c.late
    BY <2>1, <2>2
  <2>4. /\ c.user \in UserIds
        /\ c.role \in AdminRoles => adminAge[c.user] <= AccessTTL - c.left + c.late
        /\ activeAge[c.user] <= AccessTTL - c.left + c.lag
    BY <1>9, <2>3 DEF ClaimsDated
  <2>5. QED
    BY <1>1, <1>4, <2>1, <2>2, <2>3, <2>4, AccessTTLAssumption, AgeBoundAssumption DEF Ages
<1>10. \A r \in Reqs : ClaimsDated(claims[r])'
  <2>1. \A r \in Reqs : claims'[r] = Shorter(claims[r])
    BY DEF Tick
  <2>2. QED
    BY <1>1, <1>9, <2>1 DEF ClaimsDated
<1>11. \A s \in SessionIds : ClaimsDated(access[s])'
  <2>1. \A s \in SessionIds : access'[s] = Shorter(access[s])
    BY DEF Tick
  <2>2. QED
    BY <1>1, <1>9, <2>1 DEF ClaimsDated
<1>12. ASSUME NEW r \in Reqs
       PROVE  FoundDated(r)'
  <2> SUFFICES ASSUME NEW f \in found'[r]
               PROVE  /\ frames'[r].pc = "issue" /\ claims'[r].user = Null
                      /\ f.role \in AdminRoles => adminAge'[frames'[r].user] <= f.age
    BY DEF FoundDated, Signed
  <2>1. PICK g \in found[r] : f = [g EXCEPT !.age = Older(@)]
    BY DEF Tick
  <2>2. g \in RoleFound /\ g.age \in Ages
    BY <1>1 DEF RoleFound
  <2>3. f.role = g.role /\ f.age = Older(g.age)
    BY <2>1, <2>2 DEF RoleFound
  <2>4. /\ frames[r].pc = "issue" /\ claims[r].user = Null
        /\ g.role \in AdminRoles => adminAge[frames[r].user] <= g.age
    BY DEF FoundDated, Signed
  <2>5. frames' = frames /\ claims'[r].user = Null
    <3>1. frames' = frames /\ claims'[r] = Shorter(claims[r])
      BY <1>2 DEF Tick, authVars
    <3>2. QED
      BY <1>1, <2>4, <3>1, ShorterClaims
  <2>6. frames[r].user \in UserIds
    BY <2>4 DEF AuthInv, FrameInv, FrameShape
  <2>7. f.age = g.age + 1 \/ f.age = AgeBound
    BY <2>2, <2>3, OlderAge
  <2>8. QED
    BY <1>1, <1>4, <2>2, <2>3, <2>4, <2>5, <2>6, <2>7, AgeBoundAssumption DEF Ages
<1>13. QED
  BY <1>5, <1>7, <1>8, <1>10, <1>11, <1>12

(* An operator and a truncation change who is ACTIVE, and with it only the *)
(* history of it; a change of role, only the history of that.              *)
LEMMA WorldInv ==
  ASSUME AuthInv, AccessInv, AuthTypeOK',
         Elsewhere \/ \E u \in UserIds, c \in Codes : SetRole(u, c)
  PROVE  AccessInv'
<1> USE DEF AccessInv, AccessTypeOK
<1>0. 0 \in Ages /\ NoRole \in Codes /\ NoRole \notin AdminRoles
  <2>1. 0 \in Ages
    BY AgeBoundAssumption DEF Ages
  <2>2. NoRole \in Codes
    BY DEF Codes
  <2>3. NoRole \notin AdminRoles
    BY DEF NoRole, AdminRoles, UserAdmins, RoleAdmins
  <2>4. QED
    BY <2>1, <2>2, <2>3
<1>1. UNCHANGED <<frames, found, claims, access, reqAge>>
  BY DEF Elsewhere, Environment, SetStatus, SoftDelete, Expire, Wipe, SetRole, authVars
<1>2. ASSUME role' \in [UserIds -> Codes], adminAge' \in [UserIds -> Ages],
             activeAge' \in [UserIds -> Ages], Dated',
             \A u \in UserIds : adminAge'[u] <= adminAge[u] /\ activeAge'[u] <= activeAge[u]
      PROVE  AccessInv'
  <2>1. AccessTypeOK'
    BY <1>1, <1>2
  <2>2. \A c \in Claims : ClaimsDated(c) => ClaimsDated(c)'
    BY <1>2, <2>1, ClaimsStayDated
  <2>3. /\ \A r \in Reqs : ClaimsDated(claims[r])'
        /\ \A s \in SessionIds : ClaimsDated(access[s])'
    BY <1>1, <2>2 DEF ClaimsDated
  <2>4. ASSUME NEW r \in Reqs
        PROVE  RequestDated(r)'
    <3> SUFFICES ASSUME frames[r].pc \in {"countFailure", "recordLogin", "revoke", "issue"}
                 PROVE  activeAge'[frames[r].user] <= reqAge[r]
      BY <1>1 DEF RequestDated
    <3>1. frames[r].user \in UserIds /\ activeAge[frames[r].user] <= reqAge[r]
      BY DEF AuthInv, FrameInv, FrameShape, RequestDated
    <3>2. QED
      BY <1>2, <3>1 DEF Ages
  <2>5. ASSUME NEW r \in Reqs
        PROVE  FoundDated(r)'
    <3> SUFFICES ASSUME NEW f \in found[r]
                 PROVE  /\ frames[r].pc = "issue" /\ claims[r].user = Null
                        /\ f.role \in AdminRoles => adminAge'[frames[r].user] <= f.age
      BY <1>1 DEF FoundDated, Signed
    <3>1. /\ frames[r].pc = "issue" /\ claims[r].user = Null
          /\ f.role \in AdminRoles => adminAge[frames[r].user] <= f.age
      BY DEF FoundDated, Signed
    <3>2. frames[r].user \in UserIds
      BY <3>1 DEF AuthInv, FrameInv, FrameShape
    <3>3. f.age \in Ages
      BY DEF RoleFound
    <3>4. QED
      BY <1>2, <3>1, <3>2, <3>3, AgeBoundAssumption DEF Ages
  <2>6. QED
    BY <1>2, <2>1, <2>3, <2>4, <2>5
<1>3. CASE Elsewhere
  <2>1. /\ activeAge' = [u \in UserIds |-> IF Active(u)' THEN 0 ELSE activeAge[u]]
        /\ role'      = [u \in UserIds |-> IF Stored(u)' THEN role[u] ELSE NoRole]
        /\ adminAge'  = adminAge
    BY <1>3 DEF Elsewhere
  <2>2. \A u \in UserIds : activeAge[u] \in Nat /\ adminAge[u] \in Nat
    BY AgeBoundAssumption DEF Ages
  <2>3. role' \in [UserIds -> Codes] /\ activeAge' \in [UserIds -> Ages]
    BY <1>0, <2>1
  <2>4. Dated'
    BY <1>0, <2>1 DEF Dated
  <2>5. \A u \in UserIds : adminAge'[u] <= adminAge[u] /\ activeAge'[u] <= activeAge[u]
    BY <2>1, <2>2
  <2>6. QED
    BY <1>2, <2>1, <2>3, <2>4, <2>5
<1>4. ASSUME NEW u \in UserIds, NEW c \in Codes, SetRole(u, c)
      PROVE  AccessInv'
  <2>1. /\ role'     = [role EXCEPT ![u] = c]
        /\ adminAge' = [adminAge EXCEPT ![u] = IF c \in AdminRoles THEN 0 ELSE @]
        /\ activeAge' = activeAge /\ users' = users
    BY <1>4 DEF SetRole, authVars
  <2>2. \A v \in UserIds : activeAge[v] \in Nat /\ adminAge[v] \in Nat
    BY AgeBoundAssumption DEF Ages
  <2>3. role' \in [UserIds -> Codes] /\ adminAge' \in [UserIds -> Ages]
    BY <1>0, <2>1
  <2>4. Dated'
    BY <2>1 DEF Dated, Active, Visible
  <2>5. \A v \in UserIds : adminAge'[v] <= adminAge[v] /\ activeAge'[v] <= activeAge[v]
    BY <2>1, <2>2
  <2>6. QED
    BY <1>2, <2>1, <2>3, <2>4, <2>5
<1>5. QED
  BY <1>3, <1>4

(* Every step keeps the invariant.                                         *)
LEMMA AccessStepInv ==
  ASSUME AuthInv, AccessInv, AuthTypeOK', [AccessNext]_accessVars
  PROVE  AccessInv'
<1>0. /\ AuthTypeOK /\ claims \in [Reqs -> Claims] /\ access \in [SessionIds -> Claims]
      /\ reqAge \in [Reqs -> Ages] /\ role \in [UserIds -> Codes] /\ 0 \in Ages
      /\ found \in [Reqs -> SUBSET RoleFound]
  BY AgeBoundAssumption DEF AccessInv, AccessTypeOK, Ages
<1>1. ASSUME NEW r \in Reqs, Begin(r)
      PROVE  AccessInv'
  <2>1. /\ Arrive(r)
        /\ reqAge' = [reqAge EXCEPT ![r] = 0]
        /\ UNCHANGED <<role, found, claims, access, adminAge, activeAge>>
    BY <1>1 DEF Begin
  <2>2. frames[r].pc = "idle"
    BY <2>1 DEF Arrive, LoginLookup, RefreshLookup, Start
  <2>3. reqAge' \in [Reqs -> Ages] /\ \A q \in Reqs : q # r => reqAge'[q] = reqAge[q]
    BY <1>0, <2>1
  <2>4. \A q \in Reqs : RequestDated(q)'
    BY <2>1, <2>2, <2>3, RequestsStayDated
  <2>5. \A u \in UserIds : Active(u)' = Active(u)
    BY <2>1, RequestKeepsRows, ActiveByRow
  <2>6. \A q \in Reqs : FoundDated(q)'
    <3>1. found[r] = {}
      BY <2>2 DEF AccessInv, FoundDated
    <3>2. QED
      BY <2>1, <3>1, FoundStaysDated
  <2>7. QED
    BY <1>0, <2>1, <2>3, <2>4, <2>5, <2>6, SameAges
<1>2. ASSUME NEW r \in Reqs, Sign(r)
      PROVE  AccessInv'
  <2>1. PICK f \in found[r] :
          claims' = [claims EXCEPT ![r] =
                       [user |-> frames[r].user, role |-> f.role,
                        left |-> AccessTTL, lag |-> reqAge[r], late |-> f.age]]
    BY <1>2 DEF Sign
  <2> DEFINE jwt == [user |-> frames[r].user, role |-> f.role,
                     left |-> AccessTTL, lag |-> reqAge[r], late |-> f.age]
  <2>2. /\ frames[r].pc = "issue" /\ found' = [found EXCEPT ![r] = {}]
        /\ UNCHANGED <<authVars, role, access, ages>>
    BY <1>2 DEF Sign
  <2>3. frames[r].user \in UserIds
    BY <2>2 DEF AuthInv, FrameInv, FrameShape
  <2>4. f \in RoleFound
    BY <1>0
  <2>5. f.role \in AdminRoles => adminAge[frames[r].user] <= f.age
    BY DEF AccessInv, FoundDated
  <2>6. activeAge[frames[r].user] <= reqAge[r]
    BY <2>2 DEF AccessInv, RequestDated
  <2>7. jwt \in Claims
    BY <1>0, <2>3, <2>4, AccessTTLAssumption DEF Claims, RoleFound
  <2>8. ClaimsDated(jwt)
    <3>1. /\ AccessTTL - AccessTTL = 0 /\ AccessTTL > 0
          /\ reqAge[r] \in Nat /\ f.age \in Nat
      BY <1>0, <2>4, AccessTTLAssumption, AgeBoundAssumption DEF RoleFound, Ages
    <3>2. 0 + reqAge[r] = reqAge[r] /\ 0 + f.age = f.age
      BY <3>1
    <3>3. QED
      BY <2>3, <2>5, <2>6, <3>1, <3>2 DEF ClaimsDated
  <2> HIDE DEF jwt
  <2>9. claims' = [claims EXCEPT ![r] = jwt]
    BY <2>1 DEF jwt
  <2>10. claims' \in [Reqs -> Claims] /\ found' \in [Reqs -> SUBSET RoleFound]
         /\ \A q \in Reqs : claims'[q] = claims[q] \/ ClaimsDated(claims'[q])
    BY <1>0, <2>2, <2>7, <2>8, <2>9
  <2>11. AuthTypeOK' /\ \A u \in UserIds : Active(u)' = Active(u)
    BY <1>0, <2>2 DEF authVars, AuthTypeOK, StoreTypeOK, Active, Visible
  <2>12. \A q \in Reqs : RequestDated(q)'
    BY <2>2 DEF authVars, ages, AccessInv, RequestDated
  <2>13. \A q \in Reqs : FoundDated(q)'
    <3>1. found'[r] = {}
      BY <1>0, <2>2
    <3>2. \A q \in Reqs : q # r => found'[q] = found[q] /\ claims'[q] = claims[q]
      BY <1>0, <2>2, <2>9
    <3>3. frames' = frames /\ adminAge' = adminAge
      BY <2>2 DEF authVars, ages
    <3>4. QED
      BY <3>1, <3>2, <3>3 DEF AccessInv, FoundDated, Signed
  <2>14. QED
    BY <1>0, <2>2, <2>10, <2>11, <2>12, <2>13, SameAges DEF ages
<1>3. ASSUME NEW r \in Reqs, Issue(r)
      PROVE  AccessInv'
  <2>1. /\ IssueSession(r)
        /\ access' = [access EXCEPT ![frames'[r].new] = claims[r]]
        /\ claims' = [claims EXCEPT ![r] = NoClaims]
        /\ Signed(r) /\ UNCHANGED <<role, found, ages>>
    BY <1>3 DEF Issue
  <2>2. Serve(r)
    BY <2>1 DEF Serve
  <2>3. \A q \in Reqs : RequestDated(q)'
    BY <1>0, <2>1, <2>2, RequestsStayDated DEF ages
  <2>4. \A u \in UserIds : Active(u)' = Active(u)
    BY <2>2, RequestKeepsRows, ActiveByRow
  <2>5. access' \in [SessionIds -> Claims]
        /\ \A s \in SessionIds : access'[s] = access[s] \/ ClaimsDated(access'[s])
    BY <1>0, <2>1 DEF AccessInv
  <2>6. claims' \in [Reqs -> Claims]
        /\ \A q \in Reqs : claims'[q] = claims[q] \/ ClaimsDated(claims'[q])
    BY <1>0, <2>1, NoClaimsType DEF ClaimsDated
  <2>7. \A q \in Reqs : FoundDated(q)'
    <3>1. found'[r] = {}
      BY <2>1 DEF AccessInv, FoundDated
    <3>2. \A q \in Reqs : q # r => found'[q] = found[q] /\ claims'[q] = claims[q]
      BY <1>0, <2>1
    <3>3. QED
      BY <2>1, <2>2, <3>1, <3>2, FoundStaysDated DEF ages
  <2>8. QED
    BY <1>0, <2>1, <2>3, <2>4, <2>5, <2>6, <2>7, SameAges DEF ages
<1>4. ASSUME NEW r \in Reqs, Proceed(r)
      PROVE  AccessInv'
  <2>1. /\ Serve(r) \/ Abandon(r)
        /\ found'  = [found EXCEPT ![r] = IF frames'[r].pc = "idle" THEN {} ELSE @]
        /\ claims' = [claims EXCEPT ![r] = IF frames'[r].pc = "idle" THEN NoClaims ELSE @]
        /\ UNCHANGED <<role, access, ages>>
    BY <1>4 DEF Proceed, Serve
  <2>2. \A q \in Reqs : RequestDated(q)'
    BY <1>0, <2>1, RequestsStayDated DEF ages
  <2>3. \A u \in UserIds : Active(u)' = Active(u)
    BY <2>1, RequestKeepsRows, ActiveByRow
  <2>4. claims' \in [Reqs -> Claims]
        /\ \A q \in Reqs : claims'[q] = claims[q] \/ ClaimsDated(claims'[q])
    BY <1>0, <2>1, NoClaimsType DEF ClaimsDated
  <2>5. found' \in [Reqs -> SUBSET RoleFound]
    BY <1>0, <2>1
  <2>6. \A q \in Reqs : FoundDated(q)'
    <3>1. CASE frames'[r].pc = "idle"
      <4>1. found'[r] = {}
        BY <1>0, <2>1, <3>1
      <4>2. \A q \in Reqs : q # r => found'[q] = found[q] /\ claims'[q] = claims[q]
        BY <1>0, <2>1
      <4>3. QED
        BY <2>1, <4>1, <4>2, FoundStaysDated DEF ages
    <3>2. CASE frames'[r].pc # "idle"
      <4>1. LoginRecord(r) \/ RefreshOwner(r) \/ RefreshRevoke(r)
        BY <1>0, <1>4, <3>2 DEF AuthTypeOK, Proceed, LoginFailed, IssueRefused, Reply, Abandon,
           Finish, Idle
      <4>2. frames[r].pc # "issue"
        BY <4>1 DEF LoginRecord, RefreshOwner, RefreshRevoke
      <4>3. found'[r] = {}
        BY <1>0, <2>1, <3>2, <4>2 DEF AccessInv, FoundDated
      <4>4. \A q \in Reqs : q # r => found'[q] = found[q] /\ claims'[q] = claims[q]
        BY <1>0, <2>1
      <4>5. QED
        BY <2>1, <4>3, <4>4, FoundStaysDated DEF ages
    <3>3. QED
      BY <3>1, <3>2
  <2>7. QED
    BY <1>0, <2>1, <2>2, <2>3, <2>4, <2>5, <2>6, SameAges DEF ages
<1>5. CASE UNCHANGED accessVars
  <2>1. \A u \in UserIds : Active(u)' = Active(u)
    BY <1>5 DEF accessVars, authVars, Active, Visible
  <2>2. \A q \in Reqs : RequestDated(q)'
    BY <1>5 DEF accessVars, authVars, ages, AccessInv, RequestDated
  <2>3. \A q \in Reqs : FoundDated(q)'
    BY <1>5 DEF accessVars, authVars, ages, AccessInv, FoundDated, Signed
  <2>4. QED
    BY <1>0, <1>5, <2>1, <2>2, <2>3, SameAges DEF accessVars, ages
<1>6. ASSUME NEW r \in Reqs, FindPrimaryRoleCode(r)
      PROVE  AccessInv'
  <2>1. /\ frames[r].pc = "issue" /\ ~ Signed(r)
        /\ UNCHANGED <<authVars, role, claims, access, ages>>
    BY <1>6 DEF FindPrimaryRoleCode
  <2>2. PICK c \in {role[frames[r].user]} \cup (IF Faults THEN {NoRole} ELSE {}) :
          found' = [found EXCEPT ![r] = {[role |-> c, age |-> 0]}]
    BY <1>6 DEF FindPrimaryRoleCode
  <2>3. frames[r].user \in UserIds /\ (c = role[frames[r].user] \/ c = NoRole)
    BY <2>1, <2>2 DEF AuthInv, FrameInv, FrameShape
  <2>4. c \in Codes
    BY <1>0, <2>3 DEF Codes
  <2>5. c \in AdminRoles => adminAge[frames[r].user] <= 0
    <3>1. c \in AdminRoles => adminAge[frames[r].user] = 0
      BY <2>3 DEF AccessInv, Dated, AdminRoles, UserAdmins, RoleAdmins, NoRole
    <3>2. QED
      BY <3>1
  <2>6. found' \in [Reqs -> SUBSET RoleFound]
    BY <1>0, <2>2, <2>4 DEF RoleFound
  <2>7. ASSUME NEW q \in Reqs
        PROVE  FoundDated(q)'
    <3>1. frames' = frames /\ claims' = claims /\ adminAge' = adminAge
      BY <2>1 DEF authVars, ages
    <3>2. CASE q = r
      <4>1. found'[r] = {[role |-> c, age |-> 0]}
        BY <1>0, <2>2
      <4>2. QED
        BY <2>1, <2>5, <3>1, <3>2, <4>1 DEF FoundDated, Signed
    <3>3. CASE q # r
      <4>1. found'[q] = found[q]
        BY <1>0, <2>2, <3>3
      <4>2. QED
        BY <3>1, <4>1 DEF AccessInv, FoundDated, Signed
    <3>4. QED
      BY <3>2, <3>3
  <2>8. AuthTypeOK' /\ \A u \in UserIds : Active(u)' = Active(u)
    BY <1>0, <2>1 DEF authVars, AuthTypeOK, StoreTypeOK, Active, Visible
  <2>9. \A q \in Reqs : RequestDated(q)'
    BY <2>1 DEF authVars, ages, AccessInv, RequestDated
  <2>10. QED
    BY <1>0, <2>1, <2>6, <2>7, <2>8, <2>9, SameAges DEF ages
<1>7. QED
  BY <1>1, <1>2, <1>3, <1>4, <1>5, <1>6, TickInv, WorldInv DEF AccessNext

-----------------------------------------------------------------------------
(* The theorems.                                                           *)

(* The invariant holds of every reachable state.                           *)
LEMMA AccessInvariance == AccessSpec => [](AuthInv /\ AccessInv)
<1>1. AccessInit => AuthInv /\ AccessInv
  BY AccessInitInv, InitInv DEF AccessInit
<1>2. AuthInv /\ AccessInv /\ [AccessNext]_accessVars => (AuthInv /\ AccessInv)'
  <2> SUFFICES ASSUME AuthInv, AccessInv, [AccessNext]_accessVars
               PROVE  AuthInv' /\ AccessInv'
    OBVIOUS
  <2>1. AuthInv'
    BY AuthStepsOrStutters, StepInv
  <2>2. AuthTypeOK'
    BY <2>1 DEF AuthInv
  <2>3. QED
    BY <2>1, <2>2, AccessStepInv
<1>3. QED
  BY <1>1, <1>2, PTL DEF AccessSpec

(* Roles, JWTs and ages keep the shapes the code gives them; in particular *)
(* no JWT ever lasts longer than AccessTTL.                                *)
THEOREM AccessTypeCorrect == AccessSpec => []AccessTypeOK
<1>1. AccessInv => AccessTypeOK
  BY DEF AccessInv
<1>2. QED
  BY <1>1, AccessInvariance, PTL

(* RequireRoles and IsAdmin (rbac.go, user_handler.go): whoever passes a   *)
(* gate for administrators had such a role no longer ago than the JWT was  *)
(* signed, plus the time its request took from reading the role to the     *)
(* signature, however many refreshes there were since.                     *)
THEOREM RolesAgeOut == AccessSpec => []RoleAgesOut
<1>1. AccessInv => RoleAgesOut
  <2> SUFFICES ASSUME AccessInv, NEW s \in SessionIds, NEW route \in AdminRoutes, Served(s, route)
               PROVE  adminAge[access[s].user] <= AccessTTL - access[s].left + access[s].late
    BY DEF RoleAgesOut
  <2>1. access[s].left > 0
    BY DEF Served, ParseAccessToken
  <2>2. access[s].role \in AdminRoles
    BY DEF Served, AdminRoutes, RequireRoles, DeleteAllDataAdmits, IsAdmin, AdminRoles
  <2>3. QED
    BY <2>1, <2>2 DEF AccessInv, ClaimsDated
<1>2. QED
  BY <1>1, AccessInvariance, PTL

(* JWTAuth (jwt.go): whoever passes it was ACTIVE no longer ago than the   *)
(* JWT was signed, plus the time its request took from the check to the    *)
(* signature.                                                              *)
THEOREM StatusesAgeOut == AccessSpec => []StatusAgesOut
<1>1. AccessInv => StatusAgesOut
  <2> SUFFICES ASSUME AccessInv, NEW s \in SessionIds,
                      NEW route \in OpenRoutes \cup AdminRoutes, Served(s, route)
               PROVE  activeAge[access[s].user] <= AccessTTL - access[s].left + access[s].lag
    BY DEF StatusAgesOut
  <2>1. access[s].left > 0
    BY DEF Served, ParseAccessToken
  <2>2. QED
    BY <2>1 DEF AccessInv, ClaimsDated
<1>2. QED
  BY <1>1, AccessInvariance, PTL
=============================================================================
