---------------------------- MODULE ServerProofs ----------------------------
(***************************************************************************)
(* Theorems about RateLimit, for every limit, window and number of         *)
(* requests in flight, with Redis failing at any call; and about Server,   *)
(* which runs it, for any number of connections, any limit and window, and *)
(* any time a shutdown may take.                                           *)
(***************************************************************************)
EXTENDS Server, SequenceTheorems, TLAPS

-----------------------------------------------------------------------------
(* The limiter by itself                                                   *)

(* INCR counts one request, and admits it while the limit is not reached.  *)
LEMMA IncrCounts ==
  ASSUME RateTypeOK, count' = Saturated(count + 1)
  PROVE  /\ count' \in 1 .. Limit + 1
         /\ count <= count'
         /\ count + 1 <= Limit => count' = count + 1
  BY LimitAssumption DEF RateTypeOK, Saturated

(* A request that is admitted is counted, and no other changes the history. *)
LEMMA AdmitCounts ==
  ASSUME RateTypeOK, count' = Saturated(count + 1), Admit(count + 1)
  PROVE  \/ /\ Counted' = Counted + 1
            /\ admitted' = [n \in Spans |-> IF n # 0 THEN admitted[n] + 1 ELSE admitted[n]]
         \/ admitted' = admitted /\ Counted' = Counted
<1> USE DEF RateTypeOK
<1>1. CASE count + 1 <= Limit
  <2>1. count' = count + 1
    BY <1>1, IncrCounts
  <2>2. Counted' = Counted + 1
    BY <1>1, <2>1, LimitAssumption DEF Counted
  <2>3. QED
    BY <1>1, <2>2 DEF Admit
<1>2. CASE ~ (count + 1 <= Limit)
  <2>1. admitted' = admitted
    BY <1>2 DEF Admit
  <2>2. count >= Limit /\ count' >= Limit
    BY <1>2, IncrCounts, LimitAssumption
  <2>3. QED
    BY <2>1, <2>2, LimitAssumption, IncrCounts DEF Counted
<1>3. QED
  BY <1>1, <1>2

(* A count that grows counts no less.                                      *)
LEMMA CountedGrows ==
  ASSUME count \in Nat, count' \in Nat, count <= count'
  PROVE  Counted <= Counted' /\ Counted \in 0 .. Limit /\ Counted' \in 0 .. Limit
  BY LimitAssumption DEF Counted

(* The initial state satisfies the invariant.                              *)
LEMMA InitInv == RateInit => RateInv
<1> SUFFICES ASSUME RateInit PROVE RateInv
  OBVIOUS
<1>1. admitted \in [Spans -> Nat] /\ \A n \in 0 .. Window : admitted[n] = 0
  BY DEF RateInit, Spans
<1>2. RateTypeOK
  <2>1. count \in 0 .. Limit + 1
    BY LimitAssumption DEF RateInit
  <2>2. ttl \in {NoTTL} \cup 1 .. Window /\ expiring \subseteq Reqs /\ orphaned \in BOOLEAN
    BY Zenon DEF RateInit
  <2>3. QED
    BY <1>1, <2>1, <2>2 DEF RateTypeOK
<1>3. SpansGrow
  BY <1>1, WindowAssumption DEF SpansGrow
<1>4. WindowCounted
  BY <1>1, WindowAssumption, LimitAssumption DEF RateInit, WindowCounted, Counted
<1>5. KeyExpires
  BY DEF RateInit, KeyExpires
<1>6. QED
  BY <1>2, <1>3, <1>4, <1>5 DEF RateInv

(* A step that counts no less and leaves the history and the expiry alone  *)
(* keeps what a window admits counted.                                     *)
LEMMA HistoryKept ==
  ASSUME RateInv, count' \in 0 .. Limit + 1, count <= count', UNCHANGED <<ttl, admitted>>
  PROVE  SpansGrow' /\ WindowCounted'
<1>1. /\ admitted \in [Spans -> Nat] /\ ttl \in {NoTTL} \cup 1 .. Window
      /\ SpansGrow /\ WindowCounted /\ count \in Nat /\ count' \in Nat
  BY LimitAssumption DEF RateInv, RateTypeOK
<1>2. Counted <= Counted' /\ Counted \in 0 .. Limit /\ Counted' \in 0 .. Limit
  BY <1>1, CountedGrows
<1>3. admitted[Window] \in Nat
  BY <1>1, WindowAssumption DEF Spans
<1>4. admitted[Window] <= Limit + Counted'
  BY <1>1, <1>2, <1>3, LimitAssumption DEF WindowCounted
<1>5. ttl # NoTTL => admitted[Window - ttl] <= Counted'
  <2> SUFFICES ASSUME ttl # NoTTL PROVE admitted[Window - ttl] <= Counted'
    OBVIOUS
  <2>1. Window - ttl \in Spans
    BY <1>1, WindowAssumption DEF Spans
  <2>2. QED
    BY <1>1, <1>2, <2>1 DEF WindowCounted
<1>6. QED
  BY <1>1, <1>4, <1>5 DEF SpansGrow, WindowCounted

(* So does a step that admits one request and counts it.                   *)
LEMMA HistoryAdmits ==
  ASSUME RateInv, Counted' = Counted + 1, ttl' = ttl,
         admitted' = [n \in Spans |-> IF n # 0 THEN admitted[n] + 1 ELSE admitted[n]]
  PROVE  SpansGrow' /\ WindowCounted'
<1>1. /\ admitted \in [Spans -> Nat] /\ ttl \in {NoTTL} \cup 1 .. Window
      /\ SpansGrow /\ WindowCounted /\ Counted \in Nat
  BY LimitAssumption DEF RateInv, RateTypeOK, Counted
<1>2. \A n \in 0 .. Window : /\ admitted[n] \in Nat
                             /\ admitted'[n] = IF n # 0 THEN admitted[n] + 1 ELSE admitted[n]
  BY <1>1 DEF Spans
<1>3. SpansGrow'
  <2>1. admitted'[0] = 0
    BY <1>1, <1>2, WindowAssumption DEF SpansGrow
  <2>2. ASSUME NEW n \in 1 .. Window
        PROVE  admitted'[n - 1] <= admitted'[n]
    <3>1. n - 1 \in 0 .. Window /\ n \in 0 .. Window /\ n # 0
      BY WindowAssumption
    <3>2. admitted[n - 1] <= admitted[n]
      BY <1>1 DEF SpansGrow
    <3>3. admitted'[n] = admitted[n] + 1
      BY <1>2, <3>1
    <3>4. admitted'[n - 1] \in {admitted[n - 1], admitted[n - 1] + 1}
      BY <1>2, <3>1
    <3>5. admitted[n - 1] \in Nat /\ admitted[n] \in Nat
      BY <1>2, <3>1
    <3>6. QED
      BY <3>2, <3>3, <3>4, <3>5
  <2>3. QED
    BY <2>1, <2>2 DEF SpansGrow
<1>4. admitted'[Window] <= Limit + Counted'
  BY <1>1, <1>2, WindowAssumption, LimitAssumption DEF WindowCounted
<1>5. ttl # NoTTL => admitted'[Window - ttl] <= Counted'
  <2> SUFFICES ASSUME ttl # NoTTL PROVE admitted'[Window - ttl] <= Counted'
    OBVIOUS
  <2>1. Window - ttl \in 0 .. Window
    BY <1>1, WindowAssumption
  <2>2. QED
    BY <1>1, <1>2, <2>1 DEF WindowCounted
<1>6. QED
  BY <1>3, <1>4, <1>5 DEF WindowCounted

(* The clock moves every span back by a tick.  A key that expires now has  *)
(* counted all that the window still holds.                                *)
LEMMA HistoryTicks ==
  ASSUME RateInv, Tick
  PROVE  admitted' \in [Spans -> Nat] /\ SpansGrow' /\ WindowCounted'
<1>1. /\ admitted \in [Spans -> Nat] /\ ttl \in {NoTTL} \cup 1 .. Window
      /\ SpansGrow /\ WindowCounted /\ count \in Nat /\ Counted \in 0 .. Limit
  BY LimitAssumption DEF RateInv, RateTypeOK, Counted
<1>2. /\ count' = IF ttl = 1 THEN 0 ELSE count
      /\ ttl' = IF ttl \in {NoTTL, 1} THEN NoTTL ELSE ttl - 1
      /\ admitted' = [n \in Spans |-> IF n = 0 THEN 0 ELSE admitted[n - 1]]
  BY DEF Tick
<1>3. \A n \in 0 .. Window : admitted[n] \in Nat
  BY <1>1 DEF Spans
<1>4. admitted'[0] = 0 /\ \A n \in 1 .. Window : admitted'[n] = admitted[n - 1]
  BY <1>2, WindowAssumption DEF Spans
<1>5. admitted' \in [Spans -> Nat]
  BY <1>2, <1>3, WindowAssumption DEF Spans
<1>6. SpansGrow'
  <2>1. ASSUME NEW n \in 1 .. Window
        PROVE  admitted'[n - 1] <= admitted'[n]
    <3>1. CASE n = 1
      <4>1. admitted'[0] = 0 /\ admitted'[1] = admitted[0] /\ admitted[0] \in Nat
        BY <1>3, <1>4, WindowAssumption
      <4>2. QED
        BY <3>1, <4>1
    <3>2. CASE n # 1
      <4>1. n - 1 \in 1 .. Window /\ n - 1 - 1 = n - 2
        BY <3>2, WindowAssumption
      <4>2. admitted[n - 2] <= admitted[n - 1]
        BY <1>1, <4>1 DEF SpansGrow
      <4>3. QED
        BY <1>4, <4>1, <4>2
    <3>3. QED
      BY <3>1, <3>2
  <2>2. QED
    BY <1>4, <2>1 DEF SpansGrow
<1>7. admitted'[Window] = admitted[Window - 1] /\ admitted[Window - 1] <= admitted[Window]
  BY <1>1, <1>4, WindowAssumption DEF SpansGrow
<1>8. CASE ttl = 1
  <2>1. Counted' = 0 /\ ttl' = NoTTL
    BY <1>2, <1>8, LimitAssumption DEF Counted
  <2>2. admitted[Window - 1] <= Counted
    BY <1>1, <1>8 DEF WindowCounted, NoTTL
  <2>3. admitted[Window - 1] \in Nat
    BY <1>3, WindowAssumption
  <2>4. admitted'[Window] <= Limit + Counted'
    BY <1>1, <1>7, <2>1, <2>2, <2>3, LimitAssumption
  <2>5. QED
    BY <1>5, <1>6, <2>1, <2>4 DEF WindowCounted
<1>9. CASE ttl # 1
  <2>1. Counted' = Counted
    BY <1>2, <1>9 DEF Counted
  <2>2. admitted[Window] \in Nat /\ admitted[Window - 1] \in Nat
    BY <1>3, WindowAssumption
  <2>3. admitted'[Window] <= Limit + Counted'
    BY <1>1, <1>7, <2>1, <2>2, LimitAssumption DEF WindowCounted
  <2>4. ttl' # NoTTL => admitted'[Window - ttl'] <= Counted'
    <3> SUFFICES ASSUME ttl' # NoTTL PROVE admitted'[Window - ttl'] <= Counted'
      OBVIOUS
    <3>1. ttl \in 2 .. Window /\ ttl # NoTTL /\ ttl' = ttl - 1
      BY <1>1, <1>2, <1>9, WindowAssumption DEF NoTTL
    <3>2. Window - ttl' \in 1 .. Window /\ Window - ttl' - 1 = Window - ttl
      BY <3>1, WindowAssumption
    <3>3. admitted'[Window - ttl'] = admitted[Window - ttl]
      BY <1>4, <3>2
    <3>4. QED
      BY <1>1, <2>1, <3>1, <3>3 DEF WindowCounted
  <2>5. QED
    BY <1>5, <1>6, <2>3, <2>4 DEF WindowCounted
<1>10. QED
  BY <1>8, <1>9

(* Every step keeps the invariant.                                         *)
LEMMA StepInv == RateInv /\ [RateNext]_rateVars => RateInv'
<1> SUFFICES ASSUME RateInv, [RateNext]_rateVars PROVE RateInv'
  OBVIOUS
<1> USE DEF RateInv
<1>0. /\ count \in 0 .. Limit + 1 /\ admitted \in [Spans -> Nat]
      /\ ttl \in {NoTTL} \cup 1 .. Window /\ expiring \subseteq Reqs /\ orphaned \in BOOLEAN
  BY DEF RateTypeOK
<1>1. ASSUME NEW r \in Reqs, Incr(r)
      PROVE  RateInv'
  <2>1. count' \in 1 .. Limit + 1 /\ count <= count'
    BY <1>1, IncrCounts DEF Incr
  <2>2. UNCHANGED <<ttl, orphaned>> /\ expiring' = IF count = 0 THEN expiring \cup {r} ELSE expiring
    BY <1>1 DEF Incr
  <2>3. admitted' \in [Spans -> Nat]
    BY <1>0, <1>1 DEF Incr, Admit
  <2>4. SpansGrow' /\ WindowCounted'
    <3>1. count' \in 0 .. Limit + 1
      BY <2>1
    <3>2. CASE admitted' = admitted
      BY <2>1, <2>2, <3>1, <3>2, HistoryKept
    <3>3. CASE admitted' # admitted
      BY <1>1, <2>2, <3>3, AdmitCounts, HistoryAdmits DEF Incr
    <3>4. QED
      BY <3>2, <3>3
  <2>5. RateTypeOK'
    BY <1>0, <2>1, <2>2, <2>3 DEF RateTypeOK
  <2>6. KeyExpires'
    BY <1>0, <2>2 DEF KeyExpires
  <2>7. QED
    BY <2>4, <2>5, <2>6
<1>2. ASSUME NEW r \in Reqs, SetExpiry(r)
      PROVE  RateInv'
  <2>1. RateTypeOK'
    BY <1>0, <1>2, WindowAssumption DEF SetExpiry, RateTypeOK
  <2>2. ttl' = NoTTL \/ (ttl' = Window /\ Window # NoTTL)
    BY <1>2, WindowAssumption DEF SetExpiry, NoTTL
  <2>3. UNCHANGED <<count, admitted>>
    BY <1>2 DEF SetExpiry
  <2>4. KeyExpires'
    <3>1. CASE count = 0
      BY <2>3, <3>1 DEF KeyExpires
    <3>2. CASE count # 0
      <4>1. ttl' # NoTTL
        BY <1>2, <3>2, WindowAssumption DEF SetExpiry, NoTTL
      <4>2. QED
        BY <4>1 DEF KeyExpires
    <3>3. QED
      BY <3>1, <3>2
  <2>5. SpansGrow'
    BY <2>3 DEF SpansGrow
  <2>6. WindowCounted'
    <3>1. Counted' = Counted /\ Counted \in Nat
      BY <1>0, <2>3, LimitAssumption DEF Counted
    <3>2. admitted[Window - Window] = 0
      BY WindowAssumption DEF SpansGrow
    <3>3. QED
      BY <2>2, <2>3, <3>1, <3>2 DEF WindowCounted
  <2>7. QED
    BY <2>1, <2>4, <2>5, <2>6
<1>3. ASSUME NEW r \in Reqs, FailOpen(r)
      PROVE  RateInv'
  <2>1. count' \in 1 .. Limit + 1 /\ count <= count'
    BY <1>3, IncrCounts DEF FailOpen
  <2>2. RateTypeOK'
    <3>1. orphaned' \in BOOLEAN
      BY <1>3, Zenon DEF FailOpen
    <3>2. QED
      BY <1>0, <1>3, <2>1, <3>1 DEF FailOpen, RateTypeOK
  <2>3. SpansGrow' /\ WindowCounted'
    <3>1. count' \in 0 .. Limit + 1
      BY <2>1
    <3>2. QED
      BY <1>3, <2>1, <3>1, HistoryKept DEF FailOpen
  <2>4. KeyExpires'
    <3>1. CASE count = 0
      <4>1. orphaned'
        BY <1>3, <3>1, Zenon DEF FailOpen
      <4>2. QED
        BY <4>1 DEF KeyExpires
    <3>2. CASE count # 0
      <4>1. count > 0
        BY <1>0, <3>2, LimitAssumption
      <4>2. orphaned => orphaned'
        BY <1>3, Zenon DEF FailOpen
      <4>3. QED
        BY <1>3, <4>1, <4>2 DEF FailOpen, KeyExpires
    <3>3. QED
      BY <3>1, <3>2
  <2>5. QED
    BY <2>2, <2>3, <2>4
<1>4. ASSUME NEW r \in Reqs, ExpiryLost(r)
      PROVE  RateInv'
  <2>1. UNCHANGED <<count, ttl, admitted>> /\ expiring' = expiring \ {r} /\ orphaned' = TRUE
    BY <1>4 DEF ExpiryLost
  <2>2. SpansGrow' /\ WindowCounted'
    BY <1>0, <2>1, HistoryKept
  <2>3. QED
    BY <1>0, <2>1, <2>2 DEF RateTypeOK, KeyExpires
<1>5. ASSUME Tick
      PROVE  RateInv'
  <2>1. /\ count' = IF ttl = 1 THEN 0 ELSE count
        /\ ttl' = IF ttl \in {NoTTL, 1} THEN NoTTL ELSE ttl - 1
        /\ UNCHANGED <<expiring, orphaned>>
    BY <1>5 DEF Tick
  <2>2. admitted' \in [Spans -> Nat] /\ SpansGrow' /\ WindowCounted'
    BY <1>5, HistoryTicks
  <2>3. count' \in 0 .. Limit + 1 /\ ttl' \in {NoTTL} \cup 1 .. Window
    BY <1>0, <2>1, LimitAssumption, WindowAssumption DEF NoTTL
  <2>4. RateTypeOK'
    BY <1>0, <2>1, <2>2, <2>3 DEF RateTypeOK
  <2>5. KeyExpires'
    BY <1>0, <2>1 DEF KeyExpires, NoTTL
  <2>6. QED
    BY <2>2, <2>4, <2>5
<1>6. CASE UNCHANGED rateVars
  BY <1>6 DEF rateVars, RateTypeOK, SpansGrow, WindowCounted, Counted, KeyExpires
<1>7. QED
  BY <1>1, <1>2, <1>3, <1>4, <1>5, <1>6 DEF RateNext

(* The invariant holds throughout.                                         *)
THEOREM RateInvariant == RateSpec => []RateInv
<1>1. QED
  BY InitInv, StepInv, PTL DEF RateSpec

(* No step puts a second request between INCR and EXPIRE.                  *)
LEMMA StepLone == RateInv /\ LoneCreator /\ [RateNext]_rateVars => LoneCreator'
<1> SUFFICES ASSUME RateInv, LoneCreator, [RateNext]_rateVars PROVE LoneCreator'
  OBVIOUS
<1>0. count \in 0 .. Limit + 1 /\ ttl \in {NoTTL} \cup 1 .. Window
  BY DEF RateInv, RateTypeOK
<1>1. ASSUME NEW r \in Reqs, Incr(r) PROVE LoneCreator'
  <2>1. count' > 0 /\ ttl' = ttl /\ expiring' = IF count = 0 THEN expiring \cup {r} ELSE expiring
    BY <1>1, IncrCounts, LimitAssumption DEF Incr, RateInv
  <2>2. CASE count = 0
    <3>1. expiring = {} /\ ttl = NoTTL
      BY <2>2 DEF LoneCreator
    <3>2. QED
      BY <2>1, <2>2, <3>1 DEF LoneCreator
  <2>3. CASE count # 0
    BY <2>1, <2>3 DEF LoneCreator
  <2>4. QED
    BY <2>2, <2>3
<1>2. ASSUME NEW r \in Reqs, SetExpiry(r) \/ ExpiryLost(r) PROVE LoneCreator'
  <2>1. r \in expiring /\ expiring' = expiring \ {r} /\ count' = count
    BY <1>2 DEF SetExpiry, ExpiryLost
  <2>2. count > 0 /\ expiring' = {}
    BY <2>1 DEF LoneCreator
  <2>3. count' # 0
    BY <2>1, <2>2
  <2>4. QED
    BY <2>2, <2>3 DEF LoneCreator
<1>3. ASSUME NEW r \in Reqs, FailOpen(r) PROVE LoneCreator'
  <2>1. count' > 0 /\ UNCHANGED <<ttl, expiring>>
    BY <1>3, IncrCounts, LimitAssumption DEF FailOpen, RateInv
  <2>2. QED
    BY <2>1 DEF LoneCreator
<1>4. ASSUME Tick PROVE LoneCreator'
  <2>1. /\ count' = IF ttl = 1 THEN 0 ELSE count
        /\ ttl' = IF ttl \in {NoTTL, 1} THEN NoTTL ELSE ttl - 1
        /\ expiring' = expiring
    BY <1>4 DEF Tick
  <2>2. QED
    BY <2>1 DEF LoneCreator, NoTTL
<1>5. CASE UNCHANGED rateVars
  BY <1>5 DEF rateVars, LoneCreator
<1>6. QED
  BY <1>1, <1>2, <1>3, <1>4, <1>5 DEF RateNext

(* One request at a time creates the key.                                  *)
THEOREM LoneCreatorAlways == RateSpec => []LoneCreator
<1>1. RateInit => LoneCreator
  BY DEF RateInit, LoneCreator
<1>2. QED
  BY <1>1, StepLone, RateInvariant, PTL DEF RateSpec

(* The counter, its expiry and the history keep their ranges.              *)
THEOREM RateTypeCorrect == RateSpec => []RateTypeOK
<1>1. RateInv => RateTypeOK
  BY DEF RateInv
<1>2. QED
  BY <1>1, RateInvariant, PTL

(* Unless the request that created the key failed before its EXPIRE, a key *)
(* expires.                                                                *)
THEOREM KeysExpire == RateSpec => []KeyExpires
<1>1. RateInv => KeyExpires
  BY DEF RateInv
<1>2. QED
  BY <1>1, RateInvariant, PTL

(* The invariant bounds what a window admits.                              *)
LEMMA TwiceInv == RateInv => AtMostTwiceLimit
<1> SUFFICES ASSUME RateInv PROVE AtMostTwiceLimit
  OBVIOUS
<1>1. admitted[Window] \in Nat /\ Counted \in 0 .. Limit
  BY WindowAssumption, LimitAssumption DEF RateInv, RateTypeOK, Spans, Counted
<1>2. admitted[Window] <= Limit + Counted
  BY DEF RateInv, WindowCounted
<1>3. QED
  BY <1>1, <1>2, LimitAssumption DEF AtMostTwiceLimit

(* The window is fixed, not sliding: in any Window ticks the counter       *)
(* admits at most twice the limit (ratelimit.go:59-76), for every limit    *)
(* and window.  (Requests let through because the answer of INCR was lost, *)
(* lines 48-57, are not admitted by it.)                                   *)
THEOREM TwiceAtMost == RateSpec => []AtMostTwiceLimit
  BY TwiceInv, RateInvariant, PTL

-----------------------------------------------------------------------------
(* The server                                                              *)

(* A short sequence is the tuple of its elements.                          *)
LEMMA Tuples ==
  ASSUME NEW S, NEW d \in Seq(S)
  PROVE  /\ Len(d) = 1 => d = <<d[1]>>
         /\ Len(d) = 2 => d = <<d[1], d[2]>>
         /\ Len(d) = 3 => d = <<d[1], d[2], d[3]>>
  OBVIOUS

(* What is deferred after one more call, of at most three.                 *)
LEMMA Deferring ==
  ASSUME NEW a, NEW b, NEW c
  PROVE  /\ Append(<<>>, a) = <<a>>
         /\ Append(<<a>>, b) = <<a, b>>
         /\ Append(<<a, b>>, c) = <<a, b, c>>
<1>1. PICK S : S = {a, b, c}
  OBVIOUS
<1>2. <<>> \in Seq(S) /\ <<a>> \in Seq(S) /\ <<a, b>> \in Seq(S) /\ {a, b, c} \subseteq S
  BY <1>1
<1>3. Append(<<a>>, b) = <<a, b>>
  <2>1. PICK d : d = Append(<<a>>, b)
    OBVIOUS
  <2>2. d \in Seq(S) /\ Len(d) = 2 /\ d[1] = a /\ d[2] = b
    BY <1>2, <2>1, AppendProperties
  <2>3. QED
    BY <2>1, <2>2, Tuples
<1>4. Append(<<a, b>>, c) = <<a, b, c>>
  <2>1. PICK d : d = Append(<<a, b>>, c)
    OBVIOUS
  <2>2. d \in Seq(S) /\ Len(d) = 3 /\ d[1] = a /\ d[2] = b /\ d[3] = c
    BY <1>2, <2>1, AppendProperties
  <2>3. QED
    BY <2>1, <2>2, Tuples
<1>5. QED
  BY <1>3, <1>4

(* What is still deferred after the last of up to three calls has run.     *)
LEMMA Releasing ==
  ASSUME NEW a, NEW b, NEW c, NEW d \in {<<a>>, <<a, b>>, <<a, b, c>>}
  PROVE  SubSeq(d, 1, Len(d) - 1) \in {<<>>, <<a>>, <<a, b>>}
<1>1. PICK S : S = {a, b, c}
  OBVIOUS
<1>2. d \in Seq(S) /\ Len(d) - 1 \in Int /\ \A i \in 1 .. Len(d) - 1 : d[i] \in S
  <2>1. <<a>> \in Seq(S) /\ <<a, b>> \in Seq(S) /\ <<a, b, c>> \in Seq(S)
    BY <1>1
  <2>2. d \in Seq(S)
    BY <2>1
  <2>3. QED
    BY <2>2
<1>3. PICK e : e = SubSeq(d, 1, Len(d) - 1)
  OBVIOUS
<1>4. /\ e \in Seq(S)
      /\ Len(e) = IF 1 <= Len(d) - 1 THEN Len(d) - 1 - 1 + 1 ELSE 0
      /\ \A i \in 1 .. Len(d) - 1 - 1 + 1 : e[i] = d[1 + i - 1]
  BY <1>2, <1>3, SubSeqProperties
<1>5. CASE d = <<a>>
  BY <1>5
<1>6. CASE d = <<a, b>>
  <2>1. Len(e) = 1 /\ e[1] = a
    BY <1>4, <1>6
  <2>2. e \in Seq(S)
    BY <1>4
  <2>3. e = <<a>>
    BY <2>1, <2>2, Tuples
  <2>4. QED
    BY <1>3, <2>3
<1>7. CASE d = <<a, b, c>>
  <2>1. Len(e) = 2 /\ e[1] = a /\ e[2] = b
    BY <1>4, <1>7
  <2>2. e \in Seq(S)
    BY <1>4
  <2>3. e = <<a, b>>
    BY <2>1, <2>2, Tuples
  <2>4. QED
    BY <1>3, <2>3
<1>8. QED
  BY <1>5, <1>6, <1>7
(* Without connections nobody is at a stage but "none".                     *)
LEMMA IdleConns == [r \in Reqs |-> "none"] \in [Reqs -> Stages]
  BY DEF Stages

(* No process, no connections: the invariant holds.                        *)
LEMMA ServerInitInv == ServerInit => ServerInv
<1> SUFFICES ASSUME ServerInit PROVE ServerInv
  OBVIOUS
<1>1. /\ main = "down" /\ deferred = <<>> /\ listener = "off" /\ quit = FALSE
      /\ drained = 0 /\ conns = [r \in Reqs |-> "none"] /\ asked = FALSE
      /\ ended = [cause |-> "none", cut |-> FALSE] /\ expiring = {}
  BY DEF ServerInit, RateInit, NotEnded
<1>2. ServerTypeOK
  <2>1. conns \in [Reqs -> Stages]
    BY <1>1, IdleConns
  <2>2. expiring = {r \in Reqs : conns[r] = "expire"}
    BY <1>1
  <2>3. drained \in 0 .. ShutdownTicks
    BY <1>1, ShutdownAssumption
  <2>4. QED
    BY <1>1, <2>1, <2>2, <2>3 DEF ServerTypeOK
<1>3. DeferredInOrder /\ ServedInTime /\ NoEarlyCut
  BY <1>1 DEF DeferredInOrder, ServedInTime, NoEarlyCut
<1>4. QED
  BY <1>2, <1>3 DEF ServerInv

(* A process that serves nobody may end in any way; one that does, only in *)
(* the ways that NoEarlyCut allows.                                        *)
LEMMA EndKeeps ==
  ASSUME ServerInv, NEW cause, End(cause),
         cause \in {"startup", "signal", "listener", "deadline", "graceful", "killed"},
         cause \in {"startup", "signal", "graceful"} => main \notin {"wait", "drain"}
  PROVE  ServerInv'
<1>1. Active # {} => main \in {"wait", "drain"}
  BY DEF ServerInv, ServedInTime, Active
<1>2. ended' = [cause |-> cause, cut |-> Active # {}]
  BY DEF End
<1>3. NoEarlyCut'
  BY <1>1, <1>2 DEF NoEarlyCut
<1>4. /\ main' = "down" /\ deferred' = <<>> /\ listener' = "off" /\ quit' = FALSE
      /\ drained' = 0 /\ conns' = [r \in Reqs |-> "none"] /\ asked' = FALSE /\ expiring' = {}
  BY DEF End
<1>5. ended' \in [cause : {"none", "startup", "signal", "listener", "deadline", "graceful",
                           "killed"},
                  cut   : BOOLEAN]
  BY <1>2
<1>6. ServerTypeOK'
  <2>1. conns' \in [Reqs -> Stages]
    BY <1>4, IdleConns
  <2>2. expiring' = {r \in Reqs : conns'[r] = "expire"}
    BY <1>4
  <2>3. drained' \in 0 .. ShutdownTicks
    BY <1>4, ShutdownAssumption
  <2>4. QED
    BY <1>4, <1>5, <2>1, <2>2, <2>3 DEF ServerTypeOK
<1>7. DeferredInOrder' /\ ServedInTime'
  BY <1>4 DEF DeferredInOrder, ServedInTime
<1>8. QED
  BY <1>3, <1>6, <1>7 DEF ServerInv

(* A step of one connection, which leaves the process alone.               *)
LEMMA ConnKeeps ==
  ASSUME ServerInv, NEW r \in Reqs, NEW stage \in Stages, To(r, stage), UNCHANGED procVars,
         main \in {"wait", "drain"},
         expiring' = IF stage = "expire" THEN expiring \cup {r} ELSE expiring \ {r}
  PROVE  ServerInv'
<1>1. conns \in [Reqs -> Stages] /\ conns' = [conns EXCEPT ![r] = stage]
  BY DEF ServerInv, ServerTypeOK, To
<1>2. expiring' = {x \in Reqs : conns'[x] = "expire"}
  BY <1>1 DEF ServerInv, ServerTypeOK
<1>3. ServerTypeOK'
  BY <1>1, <1>2 DEF ServerInv, ServerTypeOK, procVars
<1>4. DeferredInOrder' /\ NoEarlyCut'
  BY DEF ServerInv, DeferredInOrder, NoEarlyCut, procVars
<1>5. ServedInTime'
  BY DEF ServerInv, ServedInTime, procVars
<1>6. QED
  BY <1>3, <1>4, <1>5 DEF ServerInv

(* A step of main or of the listener, which leaves connections alone.      *)
LEMMA ProcKeeps ==
  ASSUME ServerInv, UNCHANGED <<expiring, conns>>, ServerTypeOK', DeferredInOrder',
         listener' # "off"  => main' \in {"wait", "drain", "return"},
         listener' = "open" => main' = "wait",
         main \in {"wait", "drain"} =>
            main' \in {"wait", "drain"} \/ \A r \in Reqs : conns[r] = "none",
         ended' = ended \/ ended' = NotEnded
  PROVE  ServerInv'
<1>1. NoEarlyCut'
  BY DEF ServerInv, NoEarlyCut, NotEnded
<1>2. ServedInTime'
  BY DEF ServerInv, ServedInTime
<1>3. QED
  BY <1>1, <1>2 DEF ServerInv

(* A statement of main that changes nothing but what is deferred.          *)
LEMMA MainKeeps ==
  ASSUME ServerInv, OnlyMain,
         main  \in {"config", "tracer", "pool", "redis", "notify"},
         main' \in {"tracer", "pool", "redis", "notify", "listen"},
         deferred' \in {<<>>, <<"tracer">>, <<"tracer", "pool">>, <<"tracer", "pool", "redis">>},
         DeferredInOrder'
  PROVE  ServerInv'
<1>1. UNCHANGED <<listener, quit, drained, conns, asked, ended, expiring>>
  BY DEF OnlyMain, rateVars
<1>2. ServerTypeOK'
  BY <1>1 DEF ServerInv, ServerTypeOK
<1>3. listener = "off"
  BY DEF ServerInv, ServerTypeOK, ServedInTime
<1>4. QED
  BY <1>1, <1>2, <1>3, ProcKeeps

(* Every step keeps the invariant.                                         *)
LEMMA ServerStepInv == ServerInv /\ [ServerNext]_serverVars => ServerInv'
<1> SUFFICES ASSUME ServerInv, [ServerNext]_serverVars PROVE ServerInv'
  OBVIOUS
<1>0. ServerTypeOK /\ DeferredInOrder /\ ServedInTime
  BY DEF ServerInv
<1>1. ASSUME Launch PROVE ServerInv'
  <2>1. main = "down" /\ main' = "config" /\ ended' = NotEnded
        /\ UNCHANGED <<deferred, listener, quit, drained, conns, asked, expiring>>
    BY <1>1 DEF Launch, Goes, rateVars
  <2>2. ServerTypeOK' /\ DeferredInOrder'
    BY <1>0, <2>1 DEF ServerTypeOK, DeferredInOrder, NotEnded
  <2>3. QED
    BY <1>0, <2>1, <2>2, ProcKeeps DEF ServedInTime
<1>2. ASSUME NEW env \in Environments, LoadConfig(env) PROVE ServerInv'
  <2>1. CASE main = "config" /\ End("startup")
    BY <2>1, EndKeeps
  <2>2. CASE Goes("config", "tracer") /\ UNCHANGED deferred /\ OnlyMain
    BY <1>0, <2>2, MainKeeps DEF Goes, DeferredInOrder
  <2>3. QED
    BY <1>2, <2>1, <2>2 DEF LoadConfig
<1>3. ASSUME InitTracer \/ ConnectPool \/ ConnectRedis PROVE ServerInv'
  <2>1. CASE main \in {"tracer", "pool", "redis"} /\ End("startup")
    BY <2>1, EndKeeps
  <2>2. CASE Goes("tracer", "pool") /\ deferred' = Append(deferred, "tracer") /\ OnlyMain
    <3>1. deferred' = <<"tracer">>
      BY <1>0, <2>2, Deferring DEF Goes, DeferredInOrder
    <3>2. QED
      BY <2>2, <3>1, MainKeeps DEF Goes, DeferredInOrder
  <2>3. CASE Goes("pool", "redis") /\ deferred' = Append(deferred, "pool") /\ OnlyMain
    <3>1. deferred' = <<"tracer", "pool">>
      BY <1>0, <2>3, Deferring DEF Goes, DeferredInOrder
    <3>2. QED
      BY <2>3, <3>1, MainKeeps DEF Goes, DeferredInOrder
  <2>4. CASE Goes("redis", "notify") /\ deferred' = Append(deferred, "redis") /\ OnlyMain
    <3>1. deferred' = <<"tracer", "pool", "redis">>
      BY <1>0, <2>4, Deferring DEF Goes, DeferredInOrder
    <3>2. QED
      BY <2>4, <3>1, MainKeeps DEF Goes, DeferredInOrder
  <2>5. QED
    BY <1>3, <2>1, <2>2, <2>3, <2>4 DEF InitTracer, ConnectPool, ConnectRedis, Open
<1>4. ASSUME Notify PROVE ServerInv'
  BY <1>0, <1>4, MainKeeps DEF Notify, Goes, DeferredInOrder
<1>5. ASSUME Serving PROVE ServerInv'
  <2>1. CASE StartListener
    <3>1. main = "listen" /\ main' = "wait" /\ listener' = "starting"
          /\ UNCHANGED <<deferred, quit, drained, conns, asked, ended, expiring>>
      BY <2>1 DEF StartListener, Goes, rateVars
    <3>2. ServerTypeOK' /\ DeferredInOrder'
      BY <1>0, <3>1 DEF ServerTypeOK, DeferredInOrder
    <3>3. QED
      BY <3>1, <3>2, ProcKeeps
  <2>2. CASE BeginShutdown
    <3>1. main = "wait" /\ main' = "drain" /\ quit' = FALSE
          /\ listener' = (IF listener = "open" THEN "closed" ELSE listener)
          /\ UNCHANGED <<deferred, drained, conns, asked, ended, expiring>>
      BY <2>2 DEF BeginShutdown, Goes, rateVars
    <3>2. ServerTypeOK' /\ DeferredInOrder'
      BY <1>0, <3>1 DEF ServerTypeOK, DeferredInOrder
    <3>3. listener' # "open"
      BY <3>1
    <3>4. QED
      BY <3>1, <3>2, <3>3, ProcKeeps
  <2>3. CASE ShutdownDone
    <3>1. main = "drain" /\ main' = "return" /\ (\A r \in Reqs : conns[r] = "none")
          /\ UNCHANGED <<deferred, listener, quit, drained, conns, asked, ended, expiring>>
      BY <2>3 DEF ShutdownDone, Goes, OnlyMain, rateVars
    <3>2. ServerTypeOK' /\ DeferredInOrder'
      BY <1>0, <3>1 DEF ServerTypeOK, DeferredInOrder
    <3>3. listener' # "open"
      BY <1>0, <3>1 DEF ServedInTime
    <3>4. QED
      BY <3>1, <3>2, <3>3, ProcKeeps
  <2>4. CASE ForcedExit
    BY <2>4, EndKeeps DEF ForcedExit
  <2>5. CASE Release
    <3>1. main = "return" /\ deferred # <<>> /\ main' = "return"
          /\ deferred' = SubSeq(deferred, 1, Len(deferred) - 1)
          /\ UNCHANGED <<listener, quit, drained, conns, asked, ended, expiring>>
      BY <2>5 DEF Release, OnlyMain, rateVars
    <3>2. deferred \in {<<"tracer">>, <<"tracer", "pool">>, <<"tracer", "pool", "redis">>}
      BY <1>0, <3>1 DEF ServerTypeOK
    <3>3. deferred' \in {<<>>, <<"tracer">>, <<"tracer", "pool">>}
      BY <3>1, <3>2, Releasing
    <3>4. ServerTypeOK' /\ DeferredInOrder'
      BY <1>0, <3>1, <3>3 DEF ServerTypeOK, DeferredInOrder
    <3>5. listener' # "open"
      BY <1>0, <3>1 DEF ServedInTime
    <3>6. QED
      BY <1>0, <3>1, <3>4, <3>5, ProcKeeps DEF ServedInTime
  <2>6. CASE Return
    BY <2>6, EndKeeps DEF Return
  <2>7. QED
    BY <1>5, <2>1, <2>2, <2>3, <2>4, <2>5, <2>6 DEF Serving
<1>6. ASSUME Kill \/ ListenerFails PROVE ServerInv'
  <2>1. End("killed") \/ End("listener")
    BY <1>6 DEF Kill, ListenerFails
  <2>2. QED
    BY <2>1, EndKeeps
<1>7. ASSUME Signal PROVE ServerInv'
  <2>1. CASE main # "down" /\ ~ Notified /\ End("signal")
    <3>1. main \notin {"wait", "drain"}
      BY <2>1 DEF Notified
    <3>2. QED
      BY <2>1, <3>1, EndKeeps
  <2>2. CASE quit' = TRUE /\ asked' = TRUE
             /\ UNCHANGED <<rateVars, main, deferred, listener, drained, conns, ended>>
    <3>1. ServerTypeOK' /\ DeferredInOrder'
      BY <1>0, <2>2 DEF ServerTypeOK, DeferredInOrder, rateVars
    <3>2. QED
      BY <1>0, <2>2, <3>1, ProcKeeps DEF rateVars, ServedInTime
  <2>3. QED
    BY <1>7, <2>1, <2>2 DEF Signal
<1>8. ASSUME Listen PROVE ServerInv'
  <2>1. /\ listener = "starting"
        /\ listener' = IF main \in {"drain", "return"} THEN "closed" ELSE "open"
        /\ UNCHANGED <<main, deferred, quit, drained, conns, asked, ended, expiring>>
    BY <1>8 DEF Listen, ShuttingDown, rateVars
  <2>2. main \in {"wait", "drain", "return"}
    BY <1>0, <2>1 DEF ServedInTime
  <2>3. ServerTypeOK' /\ DeferredInOrder'
    BY <1>0, <2>1 DEF ServerTypeOK, DeferredInOrder
  <2>4. QED
    BY <1>0, <2>1, <2>2, <2>3, ProcKeeps DEF ServedInTime
<1>9. ASSUME NEW r \in Reqs,
             \/ Connect(r) \/ Read(r, "limit") \/ Read(r, "pingPool") \/ HangUp(r)
             \/ PingPool(r) \/ Respond(r)
      PROVE  ServerInv'
  <2>1. PICK stage \in {"new", "limit", "pingPool", "pingRedis", "none"} :
             To(r, stage) /\ UNCHANGED procVars /\ expiring' = expiring
    BY <1>9 DEF Connect, Read, HangUp, PingPool, Respond, rateVars
  <2>2. conns[r] # "expire" /\ (listener = "open" \/ conns[r] # "none")
    BY <1>9 DEF Connect, Read, HangUp, PingPool, Respond
  <2>3. main \in {"wait", "drain"} /\ r \notin expiring
    BY <1>0, <2>2 DEF ServedInTime, ServerTypeOK
  <2>4. stage \in Stages /\ expiring' = expiring \ {r}
    BY <2>1, <2>3 DEF Stages
  <2>5. QED
    BY <2>1, <2>3, <2>4, ConnKeeps
<1>10. ASSUME NEW r \in Reqs, Count(r)
       PROVE  ServerInv'
  <2>1. main \in {"wait", "drain"} /\ r \notin expiring
    BY <1>0, <1>10 DEF Count, ServedInTime, ServerTypeOK
  <2>2. PICK stage \in {"expire", "handle", "none", "limit"} :
             /\ To(r, stage)
             /\ expiring' = IF stage = "expire" THEN expiring \cup {r} ELSE expiring
    BY <1>10, <2>1 DEF Count, Incr, FailOpen, rateVars
  <2>3. expiring' = IF stage = "expire" THEN expiring \cup {r} ELSE expiring \ {r}
    BY <2>1, <2>2
  <2>4. stage \in Stages /\ UNCHANGED procVars
    BY <1>10 DEF Count, Stages
  <2>5. QED
    BY <2>1, <2>2, <2>3, <2>4, ConnKeeps
<1>11. ASSUME NEW r \in Reqs, Expire(r)
       PROVE  ServerInv'
  <2>1. main \in {"wait", "drain"}
    BY <1>0, <1>11 DEF Expire, ServedInTime
  <2>2. To(r, "handle") /\ UNCHANGED procVars /\ expiring' = expiring \ {r}
    BY <1>11 DEF Expire, SetExpiry, ExpiryLost
  <2>3. "handle" \in Stages
    BY DEF Stages
  <2>4. QED
    BY <2>1, <2>2, <2>3, ConnKeeps
<1>12. ASSUME ServerTick PROVE ServerInv'
  <2>1. /\ drained' = IF main = "drain" /\ drained < ShutdownTicks THEN drained + 1 ELSE drained
        /\ UNCHANGED <<main, deferred, listener, quit, conns, asked, ended, expiring>>
    BY <1>12 DEF ServerTick, Tick
  <2>2. drained' \in 0 .. ShutdownTicks
    BY <1>0, <2>1, ShutdownAssumption DEF ServerTypeOK
  <2>3. ServerTypeOK' /\ DeferredInOrder'
    BY <1>0, <2>1, <2>2 DEF ServerTypeOK, DeferredInOrder
  <2>4. QED
    BY <1>0, <2>1, <2>3, ProcKeeps DEF ServedInTime
<1>13. CASE UNCHANGED serverVars
  <2>1. UNCHANGED <<main, deferred, listener, quit, drained, conns, asked, ended, expiring>>
    BY <1>13 DEF serverVars, procVars, rateVars
  <2>2. ServerTypeOK' /\ DeferredInOrder'
    BY <1>0, <2>1 DEF ServerTypeOK, DeferredInOrder
  <2>3. QED
    BY <1>0, <2>1, <2>2, ProcKeeps DEF ServedInTime
<1>14. QED
  BY <1>1, <1>2, <1>3, <1>4, <1>5, <1>6, <1>7, <1>8, <1>9, <1>10, <1>11, <1>12, <1>13
     DEF ServerNext, Startup

(* The invariant holds throughout.                                         *)
THEOREM ServerInvariant == ServerSpec => []ServerInv
<1>1. QED
  BY ServerInitInv, ServerStepInv, PTL DEF ServerSpec

(* Whatever main has deferred, the channel holds and the connections do    *)
(* keeps its shape, and the requests between INCR and EXPIRE are those the *)
(* limiter has there.                                                      *)
THEOREM ServerTypeCorrect == ServerSpec => []ServerTypeOK
<1>1. ServerInv => ServerTypeOK
  BY DEF ServerInv
<1>2. QED
  BY <1>1, ServerInvariant, PTL

(* The pool and Redis are open for as long as a request runs.              *)
THEOREM RequestsServed == ServerSpec => []ResourcesOutliveRequests
<1>1. ServerInv => ResourcesOutliveRequests
  <2> SUFFICES ASSUME ServerInv, Active # {} PROVE {"pool", "redis"} \subseteq Opened
    BY DEF ResourcesOutliveRequests
  <2>1. main \in {"wait", "drain"}
    BY DEF ServerInv, ServedInTime, Active
  <2>2. deferred = <<"tracer", "pool", "redis">>
    BY <2>1 DEF ServerInv, DeferredInOrder
  <2>3. deferred[2] = "pool" /\ deferred[3] = "redis" /\ {2, 3} \subseteq DOMAIN deferred
    BY <2>2
  <2>4. QED
    BY <2>3 DEF Opened
<1>2. QED
  BY <1>1, ServerInvariant, PTL

(* No signal cuts a request short.                                         *)
THEOREM SignalsSpare == ServerSpec => []NoEarlyCut
<1>1. ServerInv => NoEarlyCut
  BY DEF ServerInv
<1>2. QED
  BY <1>1, ServerInvariant, PTL

(* What the end of the process does to the limiter: the request that was   *)
(* between INCR and EXPIRE, and there is one at most, loses its EXPIRE.    *)
LEMMA EndLosesExpiry ==
  ASSUME Faults, ServerInv, RateTypeOK, LoneCreator, NEW cause, End(cause)
  PROVE  [RateNext]_rateVars
<1>1. /\ expiring' = {} /\ UNCHANGED <<count, ttl, admitted>>
      /\ orphaned' = (orphaned \/ expiring # {})
  BY DEF End
<1>2. CASE expiring = {}
  <2>1. orphaned \in BOOLEAN
    BY DEF RateTypeOK
  <2>2. orphaned' = orphaned
    BY <1>1, <1>2, <2>1
  <2>3. QED
    BY <1>1, <1>2, <2>2 DEF rateVars
<1>3. CASE expiring # {}
  <2>1. PICK r \in Reqs : r \in expiring
    BY <1>3 DEF ServerInv, ServerTypeOK
  <2>2. expiring' = expiring \ {r}
    BY <1>1, <2>1 DEF LoneCreator
  <2>3. orphaned' = TRUE
    BY <1>1, <1>3
  <2>4. ExpiryLost(r)
    BY <1>1, <2>1, <2>2, <2>3 DEF ExpiryLost
  <2>5. QED
    BY <2>4 DEF RateNext
<1>4. QED
  BY <1>2, <1>3

(* Every other step of the server is a step of the limiter or none.        *)
LEMMA EndOrLimiter ==
  ASSUME [ServerNext]_serverVars
  PROVE  (\E cause : End(cause)) \/ [RateNext]_rateVars
<1>1. ASSUME NEW r \in Reqs, Count(r) \/ Expire(r) PROVE [RateNext]_rateVars
  <2>1. Incr(r) \/ FailOpen(r) \/ SetExpiry(r) \/ ExpiryLost(r) \/ UNCHANGED rateVars
    BY <1>1 DEF Count, Expire
  <2>2. QED
    BY <2>1 DEF RateNext
<1>2. ASSUME Launch \/ Startup \/ Notify \/ Serving \/ Kill \/ Signal \/ Listen \/ ListenerFails
      PROVE  (\E cause : End(cause)) \/ UNCHANGED rateVars
  BY <1>2 DEF Launch, Startup, LoadConfig, InitTracer, ConnectPool, ConnectRedis, Open,
              Notify, Serving, StartListener, BeginShutdown, ShutdownDone, ForcedExit,
              Release, Return, Kill, Signal, Listen, ListenerFails, OnlyMain
<1>3. ASSUME NEW r \in Reqs,
             \/ Connect(r) \/ Read(r, "limit") \/ Read(r, "pingPool") \/ HangUp(r)
             \/ PingPool(r) \/ Respond(r)
      PROVE  UNCHANGED rateVars
  BY <1>3 DEF Connect, Read, HangUp, PingPool, Respond
<1>4. ServerTick => RateNext
  BY DEF ServerTick, RateNext
<1>5. UNCHANGED serverVars => UNCHANGED rateVars
  BY DEF serverVars
<1>6. QED
  BY <1>1, <1>2, <1>3, <1>4, <1>5 DEF ServerNext

(* Restarts, shutdowns and failures included, the server does to the key   *)
(* in Redis only what the limiter does: the safety part of                 *)
(* ImplementsLimiter, where the end of a process counts as a fault.        *)
THEOREM LimiterImplemented ==
  ASSUME Faults
  PROVE  ServerSpec => RateSpec
<1>1. ServerInit => RateInit /\ LoneCreator
  BY DEF ServerInit, RateInit, LoneCreator
<1>2. ServerInv /\ RateInv /\ LoneCreator /\ [ServerNext]_serverVars
         => RateInv' /\ LoneCreator' /\ [RateNext]_rateVars
  BY EndOrLimiter, EndLosesExpiry, StepInv, StepLone DEF RateInv
<1>3. QED
  BY <1>1, <1>2, InitInv, ServerInvariant, PTL DEF ServerSpec, RateSpec

(* Also where nothing else fails, the end of a process leaves what holds   *)
(* of the key.                                                             *)
LEMMA RateInvAtServer == ServerSpec => []RateInv
<1>1. ServerInit => RateInit
  BY DEF ServerInit
<1>2. ASSUME RateInv, NEW cause, End(cause)
      PROVE  RateInv'
  <2>1. /\ expiring' = {} /\ UNCHANGED <<count, ttl, admitted>>
        /\ orphaned' = (orphaned \/ expiring # {})
    BY <1>2 DEF End
  <2>2. orphaned' \in BOOLEAN /\ (orphaned \/ expiring # {} => orphaned')
    BY <2>1, Zenon
  <2>3. RateTypeOK'
    BY <1>2, <2>1, <2>2 DEF RateInv, RateTypeOK
  <2>4. KeyExpires'
    BY <1>2, <2>1, <2>2 DEF RateInv, KeyExpires
  <2>5. QED
    BY <1>2, <2>1, <2>3, <2>4 DEF RateInv, SpansGrow, WindowCounted, Counted
<1>3. RateInv /\ [ServerNext]_serverVars => RateInv'
  BY <1>2, EndOrLimiter, StepInv
<1>4. QED
  BY <1>1, <1>3, InitInv, PTL DEF ServerSpec

(* So a restart, too, leaves a key without an expiry only where a request  *)
(* stopped between INCR and EXPIRE, ...                                    *)
THEOREM KeysOutliveServer == ServerSpec => []KeyExpires
<1>1. RateInv => KeyExpires
  BY DEF RateInv
<1>2. QED
  BY <1>1, RateInvAtServer, PTL

(* ... and however often the process is started anew, the counter admits   *)
(* at most twice the limit in any window.  (Requests let through because   *)
(* the answer of INCR was lost are not admitted by it.)                    *)
THEOREM LimitOutlivesServer == ServerSpec => []AtMostTwiceLimit
<1>1. RateInv => AtMostTwiceLimit
  BY TwiceInv
<1>2. QED
  BY <1>1, RateInvAtServer, PTL
=============================================================================
