------------------------------ MODULE RateLimit ------------------------------
(***************************************************************************)
(* The login rate limiter: RateLimitMiddleware counts the requests of one  *)
(* client in one Redis key.  INCR and EXPIRE are two calls, and the key    *)
(* carries no expiry between them.  Keys do not influence one another, so  *)
(* the module has one.                                                     *)
(***************************************************************************)
EXTENDS Integers

CONSTANTS
    Reqs,    \* slots for requests in flight
    Limit,   \* requests admitted per window
    Window,  \* the window, in ticks
    Faults   \* whether a Redis call or the process may fail

ASSUME LimitAssumption == Limit \in Nat \ {0}
ASSUME WindowAssumption == Window \in Nat \ {0}
ASSUME FaultsAssumption == Faults \in BOOLEAN

VARIABLES
    count,    \* the value of the key, 0 while there is no key
    ttl,      \* ticks until the key expires
    expiring, \* requests between their INCR and their EXPIRE
    admitted, \* history: requests admitted in the last n ticks, the current one included
    orphaned  \* history: did the request that created the key fail before its EXPIRE

rateVars == <<count, ttl, expiring, admitted, orphaned>>

NoTTL == -1

Spans == 0 .. Window

(* Bound: the counter stops at Limit + 1, beyond which no comparison tells *)
(* its values apart.                                                       *)
RateTypeOK ==
    /\ count    \in 0 .. Limit + 1
    /\ ttl      \in {NoTTL} \cup 1 .. Window
    /\ expiring \subseteq Reqs
    /\ admitted \in [Spans -> Nat]
    /\ orphaned \in BOOLEAN

RateInit ==
    /\ count    = 0
    /\ ttl      = NoTTL
    /\ expiring = {}
    /\ admitted = [n \in Spans |-> 0]
    /\ orphaned = FALSE

Saturated(n) == IF n > Limit + 1 THEN Limit + 1 ELSE n

(* The request that INCR answers with n is admitted or refused.            *)
Admit(n) ==
    admitted' = [span \in Spans |->
                   IF n <= Limit /\ span # 0 THEN admitted[span] + 1 ELSE admitted[span]]

(* Mutant: the limit is exceeded before it is enforced.                    *)
IncrOffByOne(r) ==
    /\ r \notin expiring
    /\ count'    = Saturated(count + 1)
    /\ Admit(count)
    /\ expiring' = IF count = 0 THEN expiring \cup {r} ELSE expiring
    /\ UNCHANGED <<ttl, orphaned>>

(* Mutant: what INCR returns is compared with 0.                           *)
IncrExpiryNever(r) ==
    /\ r \notin expiring
    /\ count' = Saturated(count + 1)
    /\ Admit(count + 1)
    /\ UNCHANGED <<ttl, expiring, orphaned>>

(* Mutant: every request sets the expiry anew.                             *)
IncrExpiryAlways(r) ==
    /\ r \notin expiring
    /\ count' = Saturated(count + 1)
    /\ Admit(count + 1)
    /\ expiring' = expiring \cup {r}
    /\ UNCHANGED <<ttl, orphaned>>

(* INCR creates the key without an expiry.  What it returns decides the    *)
(* request; the request that created the key goes on to set its expiry.    *)
Incr(r) ==
    /\ r \notin expiring
    /\ count' = Saturated(count + 1)
    /\ Admit(count + 1)
    /\ expiring' = IF count = 0 THEN expiring \cup {r} ELSE expiring
    /\ UNCHANGED <<ttl, orphaned>>

(* Mutant: the window is passed in another unit.                           *)
SetExpiryOtherUnit(r) ==
    /\ r \in expiring
    /\ ttl' = IF count = 0 THEN NoTTL ELSE 1000 * Window
    /\ expiring' = expiring \ {r}
    /\ UNCHANGED <<count, admitted, orphaned>>

SetExpiry(r) ==
    /\ r \in expiring
    /\ ttl' = IF count = 0 THEN NoTTL ELSE Window
    /\ expiring' = expiring \ {r}
    /\ UNCHANGED <<count, admitted, orphaned>>

(* INCR took effect but its answer was lost: the request is let through    *)
(* uncounted and sets no expiry.  (An INCR without effect changes nothing.) *)
FailOpen(r) ==
    /\ Faults
    /\ r \notin expiring
    /\ count' = Saturated(count + 1)
    /\ orphaned' = (orphaned \/ count = 0)
    /\ UNCHANGED <<ttl, expiring, admitted>>

(* EXPIRE failed, which is only logged, or the process died.               *)
ExpiryLost(r) ==
    /\ Faults
    /\ r \in expiring
    /\ expiring' = expiring \ {r}
    /\ orphaned' = TRUE
    /\ UNCHANGED <<count, ttl, admitted>>

(* Redis deletes the key at the end of its last tick.                      *)
Tick ==
    /\ count' = IF ttl = 1 THEN 0 ELSE count
    /\ ttl'   = IF ttl \in {NoTTL, 1} THEN NoTTL ELSE ttl - 1
    /\ admitted' = [n \in Spans |-> IF n = 0 THEN 0 ELSE admitted[n - 1]]
    /\ UNCHANGED <<expiring, orphaned>>

RateNext ==
    \/ \E r \in Reqs : Incr(r) \/ SetExpiry(r) \/ FailOpen(r) \/ ExpiryLost(r)
    \/ Tick

RateSpec == RateInit /\ [][RateNext]_rateVars

(* Time passes, and a request that created the key makes its second call.  *)
FairRateSpec ==
    /\ RateSpec
    /\ WF_rateVars(Tick)
    /\ \A r \in Reqs : WF_rateVars(SetExpiry(r))

-----------------------------------------------------------------------------
(* Properties                                                              *)

(* The window is fixed, not sliding: it starts with the first request that *)
(* finds no key.  So the end of one window and the start of the next may   *)
(* both fill up, but never three windows at once: what is counted in any   *)
(* Window ticks is at most twice the limit.                                *)
AtMostTwiceLimit == admitted[Window] <= 2 * Limit

(* The key has an expiry, or is about to get one: whoever stops between    *)
(* INCR and EXPIRE, and only the request that created the key, can leave a *)
(* key that never expires.                                                 *)
KeyExpires ==
    count > 0 => ttl # NoTTL \/ expiring # {} \/ orphaned

(* The inductive invariant: a longer span admits no less, and ...          *)
SpansGrow ==
    /\ admitted[0] = 0
    /\ \A n \in 1 .. Window : admitted[n - 1] <= admitted[n]

(* ... what a window admits is counted by the key, but for one Limit from  *)
(* before the key was created; what was admitted since its expiry was set  *)
(* is counted, and there is none from before it once the key expires.      *)
Counted == IF count < Limit THEN count ELSE Limit

WindowCounted ==
    /\ admitted[Window] <= Limit + Counted
    /\ ttl # NoTTL => admitted[Window - ttl] <= Counted

RateInv == RateTypeOK /\ SpansGrow /\ WindowCounted /\ KeyExpires

(* At most one request is between INCR and EXPIRE, since no other finds the *)
(* key missing meanwhile; and the key has no expiry yet then.               *)
LoneCreator ==
    /\ count = 0 \/ expiring # {} => ttl = NoTTL
    /\ expiring # {} => count > 0
    /\ \A r, s \in expiring : r = s

(* A client that keeps trying is not refused for ever: trying does not     *)
(* renew the window.                                                       *)
RefusalEnds == count > Limit ~> count = 0 \/ orphaned
=============================================================================
