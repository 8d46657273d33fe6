------------------------- MODULE UserListingProofs -------------------------
(***************************************************************************)
(* Theorems about UserListing, for any finite set of accounts, any roles,  *)
(* and any sizes of the pages of the backend and of UsersPage.             *)
(***************************************************************************)
EXTENDS UserListing, FiniteSetTheorems, SequenceTheorems, TLAPS

USE DEF Answers

-----------------------------------------------------------------------------
(* Loops                                                                   *)

(* What holds before a loop and is kept by each of its rounds holds of     *)
(* every round.                                                            *)
LEMMA Rounds ==
  ASSUME NEW n \in Nat, NEW G, 0 \in G, \A k \in 1 .. n : k - 1 \in G => k \in G
  PROVE  \A k \in 0 .. n : k \in G
<1> SUFFICES ASSUME NEW m \in 0 .. n, m \notin G
             PROVE  FALSE
  OBVIOUS
<1> DEFINE Bad == {k \in 0 .. n : k \notin G}
<1>1. PICK k \in Bad : \A j \in Bad : <<j, k>> \notin OpToRel(<, Nat)
  <2>1. Bad \subseteq Nat /\ Bad # {}
    OBVIOUS
  <2> HIDE DEF Bad
  <2>2. QED
    BY <2>1, WFMin, NatLessThanWellFounded
<1>2. k \in 1 .. n /\ k - 1 \in 0 .. n /\ k - 1 \in Nat /\ k \in Nat /\ k - 1 < k
  OBVIOUS
<1>3. <<k - 1, k>> \in OpToRel(<, Nat)
  BY <1>2 DEF OpToRel
<1>4. k - 1 \in G
  BY <1>1, <1>2, <1>3
<1>5. QED
  BY <1>2, <1>4

(* f[k] is the value of a variable after k of n rounds of a loop, each of  *)
(* which takes it from x to step[<<k, x>>].                                *)
Runs(f, base, step, n) == f[0] = base /\ \A k \in 1 .. n : f[k] = step[<<k, f[k - 1]>>]

(* Such a loop has a value after each round.                               *)
LEMMA LoopRuns ==
  ASSUME NEW T, NEW base \in T, NEW n \in Nat, NEW step \in [(1 .. n) \X T -> T]
  PROVE  \E f \in [0 .. n -> T] : Runs(f, base, step, n)
<1> DEFINE G == {m \in 0 .. n : \E f \in [0 .. m -> T] : Runs(f, base, step, m)}
<1>1. 0 \in G
  <2>1. [k \in 0 .. 0 |-> base] \in [0 .. 0 -> T]
    OBVIOUS
  <2>2. Runs([k \in 0 .. 0 |-> base], base, step, 0)
    BY DEF Runs
  <2>3. QED
    BY <2>1, <2>2
<1>2. ASSUME NEW m \in 1 .. n, m - 1 \in G
      PROVE  m \in G
  <2>1. PICK f \in [0 .. m - 1 -> T] : Runs(f, base, step, m - 1)
    BY <1>2
  <2> DEFINE g == [k \in 0 .. m |-> IF k = m THEN step[<<m, f[m - 1]>>] ELSE f[k]]
  <2>2. g \in [0 .. m -> T]
    OBVIOUS
  <2>3. ASSUME NEW k \in 1 .. m
        PROVE  g[k] = step[<<k, g[k - 1]>>]
    <3>1. k - 1 \in 0 .. m - 1 /\ k - 1 # m
      OBVIOUS
    <3>2. g[k - 1] = f[k - 1]
      BY <3>1
    <3>3. CASE k = m
      <4>1. g[k] = step[<<m, f[m - 1]>>]
        BY <3>3
      <4> HIDE DEF g
      <4>2. QED
        BY <4>1, <3>2, <3>3
    <3>4. CASE k # m
      <4>1. k \in 1 .. m - 1
        BY <3>4
      <4>2. g[k] = f[k]
        BY <3>4
      <4>3. QED
        BY <4>1, <4>2, <3>2, <2>1 DEF Runs
    <3>5. QED
      BY <3>3, <3>4
  <2>4. g[0] = base
    <3>1. g[0] = f[0]
      OBVIOUS
    <3>2. QED
      BY <3>1, <2>1 DEF Runs
  <2>5. Runs(g, base, step, m)
    BY <2>3, <2>4 DEF Runs
  <2> HIDE DEF g
  <2>6. QED
    BY <2>2, <2>5
<1>3. n \in G
  <2> HIDE DEF G
  <2>1. \A k \in 0 .. n : k \in G
    BY <1>1, <1>2, Rounds
  <2>2. QED
    BY <2>1
<1>4. QED
  BY <1>3

-----------------------------------------------------------------------------
(* Merging the answers                                                     *)

(* One more row keeps a list free of repetitions.                          *)
LEMMA AppendNew ==
  ASSUME NEW s \in Seq(Accounts), IsInjective(s), NEW a \in Accounts, a \notin Range(s)
  PROVE  /\ Append(s, a) \in Seq(Accounts)
         /\ IsInjective(Append(s, a))
         /\ Range(Append(s, a)) = Range(s) \cup {a}
<1> DEFINE t == Append(s, a)
<1>1. /\ t \in Seq(Accounts) /\ Len(t) = Len(s) + 1 /\ Len(s) \in Nat
      /\ \A i \in 1 .. Len(s) : t[i] = s[i]
      /\ t[Len(s) + 1] = a
      /\ DOMAIN s = 1 .. Len(s) /\ DOMAIN t = 1 .. Len(s) + 1
  BY AppendProperties
<1> HIDE DEF t
<1>2. Range(t) = Range(s) \cup {a}
  <2>1. \A i \in DOMAIN t : i \in DOMAIN s \/ i = Len(s) + 1
    BY <1>1
  <2>2. \A i \in DOMAIN s : i \in DOMAIN t
    BY <1>1
  <2>3. Len(s) + 1 \in DOMAIN t
    BY <1>1
  <2>4. Range(t) \subseteq Range(s) \cup {a}
    BY <1>1, <2>1 DEF Range
  <2>5. Range(s) \cup {a} \subseteq Range(t)
    BY <1>1, <2>2, <2>3 DEF Range
  <2>6. QED
    BY <2>4, <2>5
<1>3. ASSUME NEW i \in DOMAIN t, NEW j \in DOMAIN t, t[i] = t[j]
      PROVE  i = j
  <2>1. \A k \in DOMAIN s : s[k] # a
    BY DEF Range
  <2>2. QED
    BY <1>1, <1>3, <2>1 DEF IsInjective
<1>4. QED
  BY <1>1, <1>2, <1>3 DEF t, IsInjective

(* A merged answer keeps the list free of repetitions, and loses nobody.   *)
LEMMA AddNewAdds ==
  ASSUME NEW users \in Seq(Accounts), IsInjective(users), NEW rows \in Seq(Accounts)
  PROVE  /\ AddNew(users, rows) \in Seq(Accounts)
         /\ IsInjective(AddNew(users, rows))
         /\ Range(AddNew(users, rows)) = Range(users) \cup Range(rows)
<1> DEFINE n == Len(rows)
           Body(f) == [k \in 0 .. n |->
                         IF k = 0 THEN users
                         ELSE IF rows[k] \in Range(f[k - 1]) THEN f[k - 1]
                         ELSE Append(f[k - 1], rows[k])]
           list == CHOOSE f : f = Body(f)
<1>1. AddNew(users, rows) = list[n]
  BY DEF AddNew
<1>2. n \in Nat /\ DOMAIN rows = 1 .. n /\ \A k \in 1 .. n : rows[k] \in Accounts
  OBVIOUS
<1>3. \E f : f = Body(f)
  <2> DEFINE T == Seq(Accounts)
             step == [x \in (1 .. n) \X T |->
                        IF rows[x[1]] \in Range(x[2]) THEN x[2] ELSE Append(x[2], rows[x[1]])]
  <2>1. step \in [(1 .. n) \X T -> T]
    BY <1>2, AppendProperties
  <2>2. PICK f \in [0 .. n -> T] : Runs(f, users, step, n)
    <3> HIDE DEF T, step, n
    <3>1. users \in T
      BY DEF T
    <3>2. n \in Nat
      BY <1>2
    <3>3. QED
      BY <2>1, <3>1, <3>2, LoopRuns
  <2>3. ASSUME NEW k \in 1 .. n
        PROVE  f[k] = IF rows[k] \in Range(f[k - 1]) THEN f[k - 1]
                      ELSE Append(f[k - 1], rows[k])
    <3>1. k - 1 \in 0 .. n
      OBVIOUS
    <3>2. f[k - 1] \in T
      BY <3>1
    <3>3. <<k, f[k - 1]>> \in (1 .. n) \X T
      BY <3>2
    <3> HIDE DEF T
    <3>4. QED
      BY <2>2, <3>3 DEF Runs
  <2>4. f = Body(f)
    <3> HIDE DEF step, T
    <3>1. ASSUME NEW k \in 0 .. n
          PROVE  f[k] = Body(f)[k]
      <4>1. k = 0 \/ k \in 1 .. n
        BY <1>2
      <4>2. QED
        BY <2>2, <2>3, <4>1 DEF Runs
    <3>2. QED
      BY <3>1
  <2>5. QED
    BY <2>4
<1>4. list = Body(list)
  <2> HIDE DEF Body
  <2>1. QED
    BY <1>3
<1> HIDE DEF list
<1>5. /\ list[0] = users
      /\ \A k \in 1 .. n : list[k] = IF rows[k] \in Range(list[k - 1]) THEN list[k - 1]
                                    ELSE Append(list[k - 1], rows[k])
  <2>1. \A k \in 0 .. n : list[k] = Body(list)[k]
    BY <1>4
  <2>2. 0 \in 0 .. n /\ \A k \in 1 .. n : k \in 0 .. n /\ k # 0
    BY <1>2
  <2>3. QED
    BY <2>1, <2>2
<1> DEFINE G == {k \in 0 .. n : /\ list[k] \in Seq(Accounts)
                                /\ IsInjective(list[k])
                                /\ Range(list[k]) = Range(users) \cup {rows[j] : j \in 1 .. k}}
<1>6. 0 \in G
  BY <1>2, <1>5
<1>7. ASSUME NEW k \in 1 .. n, k - 1 \in G
      PROVE  k \in G
  <2>1. {rows[j] : j \in 1 .. k} = {rows[j] : j \in 1 .. k - 1} \cup {rows[k]}
    <3>1. 1 .. k = (1 .. k - 1) \cup {k}
      OBVIOUS
    <3>2. QED
      BY <3>1
  <2>2. CASE rows[k] \in Range(list[k - 1])
    <3>1. list[k] = list[k - 1]
      BY <1>5, <2>2
    <3>2. QED
      BY <1>7, <2>1, <2>2, <3>1
  <2>3. CASE rows[k] \notin Range(list[k - 1])
    <3>1. list[k] = Append(list[k - 1], rows[k])
      BY <1>5, <2>3
    <3>2. /\ list[k] \in Seq(Accounts)
          /\ IsInjective(list[k])
          /\ Range(list[k]) = Range(list[k - 1]) \cup {rows[k]}
      BY <1>2, <1>7, <2>3, <3>1, AppendNew
    <3>3. QED
      BY <1>7, <2>1, <3>2
  <2>4. QED
    BY <2>2, <2>3
<1>8. n \in G
  <2> HIDE DEF G, n
  <2>1. \A k \in 0 .. n : k \in G
    BY <1>2, <1>6, <1>7, Rounds
  <2>2. QED
    BY <1>2, <2>1
<1>9. Range(rows) = {rows[j] : j \in 1 .. n}
  BY <1>2 DEF Range
<1>10. QED
  BY <1>1, <1>8, <1>9
(* The merged list names everybody who was answered, once.                 *)
LEMMA MergedNames ==
  ASSUME \A r \in RoleCodes : answers[r].rows \in Seq(Accounts)
  PROVE  /\ Merged \in Seq(Accounts)
         /\ IsInjective(Merged)
         /\ Range(Merged) = UNION {Range(answers[r].rows) : r \in RoleCodes}
<1> DEFINE T == {s \in Seq(Accounts) : IsInjective(s)}
           n == Len(ALL_ROLES)
           Body(f) == [k \in 0 .. n |-> IF k = 0 THEN <<>>
                                        ELSE AddNew(f[k - 1], RowsOf(ALL_ROLES[k]))]
           users == CHOOSE f : f = Body(f)
<1>1. Merged = users[n]
  BY DEF Merged
<1>2. n \in Nat /\ DOMAIN ALL_ROLES = 1 .. n /\ RoleCodes = {ALL_ROLES[k] : k \in 1 .. n}
  <2>1. n \in Nat /\ DOMAIN ALL_ROLES = 1 .. n
    BY RolesAssumption
  <2>2. QED
    BY <2>1 DEF RoleCodes, Range
<1>3. \A k \in 1 .. n : RowsOf(ALL_ROLES[k]) \in Seq(Accounts)
  BY <1>2 DEF RowsOf
<1>4. <<>> \in T
  BY DEF IsInjective
<1>5. ASSUME NEW s \in T, NEW k \in 1 .. n
      PROVE  /\ AddNew(s, RowsOf(ALL_ROLES[k])) \in T
             /\ Range(AddNew(s, RowsOf(ALL_ROLES[k]))) = Range(s) \cup Range(RowsOf(ALL_ROLES[k]))
  BY <1>3, AddNewAdds
<1> HIDE DEF T, n
<1>6. \E f : f = Body(f)
  <2> DEFINE step == [x \in (1 .. n) \X T |-> AddNew(x[2], RowsOf(ALL_ROLES[x[1]]))]
  <2>1. step \in [(1 .. n) \X T -> T]
    BY <1>5
  <2>2. PICK f \in [0 .. n -> T] : Runs(f, <<>>, step, n)
    <3> HIDE DEF step
    <3>1. QED
      BY <1>2, <1>4, <2>1, LoopRuns
  <2>3. ASSUME NEW k \in 1 .. n
        PROVE  f[k] = AddNew(f[k - 1], RowsOf(ALL_ROLES[k]))
    <3>1. k - 1 \in 0 .. n
      BY <1>2
    <3>2. <<k, f[k - 1]>> \in (1 .. n) \X T
      BY <3>1
    <3>3. QED
      BY <2>2, <3>2 DEF Runs
  <2>4. f = Body(f)
    <3> HIDE DEF step
    <3>1. ASSUME NEW k \in 0 .. n
          PROVE  f[k] = Body(f)[k]
      <4>1. k = 0 \/ k \in 1 .. n
        BY <1>2
      <4>2. QED
        BY <2>2, <2>3, <4>1 DEF Runs
    <3>2. QED
      BY <3>1
  <2>5. QED
    BY <2>4
<1>7. users = Body(users)
  <2> HIDE DEF Body
  <2>1. QED
    BY <1>6
<1> HIDE DEF users
<1>8. users[0] = <<>> /\ \A k \in 1 .. n : users[k] = AddNew(users[k - 1], RowsOf(ALL_ROLES[k]))
  <2>1. \A k \in 0 .. n : users[k] = Body(users)[k]
    BY <1>7
  <2>2. 0 \in 0 .. n /\ \A k \in 1 .. n : k \in 0 .. n /\ k # 0
    BY <1>2
  <2>3. QED
    BY <2>1, <2>2
<1> DEFINE Answered(k) == UNION {Range(RowsOf(ALL_ROLES[j])) : j \in 1 .. k}
           G == {k \in 0 .. n : users[k] \in T /\ Range(users[k]) = Answered(k)}
<1>9. 0 \in G
  BY <1>2, <1>4, <1>8 DEF Range
<1>10. ASSUME NEW k \in 1 .. n, k - 1 \in G
       PROVE  k \in G
  <2>1. Answered(k) = Answered(k - 1) \cup Range(RowsOf(ALL_ROLES[k]))
    <3>1. 1 .. k = (1 .. k - 1) \cup {k}
      BY <1>2
    <3>2. QED
      BY <3>1
  <2> HIDE DEF Answered
  <2>2. users[k] \in T
    BY <1>5, <1>8, <1>10
  <2>3. Range(users[k]) = Answered(k)
    BY <1>5, <1>8, <1>10, <2>1
  <2>4. QED
    BY <1>2, <2>2, <2>3
<1>11. n \in G
  <2> HIDE DEF G
  <2>1. \A k \in 0 .. n : k \in G
    BY <1>2, <1>9, <1>10, Rounds
  <2>2. QED
    BY <1>2, <2>1
<1>12. Answered(n) = UNION {Range(answers[r].rows) : r \in RoleCodes}
  BY <1>2 DEF RowsOf
<1>13. QED
  BY <1>1, <1>11, <1>12 DEF T
-----------------------------------------------------------------------------
(* Lists in the order of the query                                         *)

LEMMA FunctionIsSeq ==
  ASSUME NEW T, NEW n \in Nat, NEW f \in [1 .. n -> T]
  PROVE  f \in Seq(T) /\ Len(f) = n
  OBVIOUS

LEMMA FiniteAccounts ==
  ASSUME live \subseteq Accounts, NEW S, S \subseteq live
  PROVE  /\ IsFiniteSet(S) /\ Cardinality(S) \in Nat
         /\ \A a : IsFiniteSet(Ahead(a, S)) /\ Cardinality(Ahead(a, S)) \in Nat
<1>1. IsFiniteSet(S)
  <2>1. S \in SUBSET Accounts
    OBVIOUS
  <2>2. QED
    BY <2>1, AccountsAssumption, FS_Subset
<1>2. ASSUME NEW a
      PROVE  IsFiniteSet(Ahead(a, S))
  <2>1. Ahead(a, S) \in SUBSET S
    BY DEF Ahead
  <2>2. QED
    BY <1>1, <2>1, FS_Subset
<1>3. QED
  BY <1>1, <1>2, FS_CardinalityType

(* An account has fewer accounts ahead of it than any that comes later.    *)
LEMMA LaterHasMoreAhead ==
  ASSUME live \subseteq Accounts, NewerIsOrder, NEW S, S \subseteq live,
         NEW a \in S, NEW b \in S, <<a, b>> \in newer
  PROVE  Cardinality(Ahead(a, S)) < Cardinality(Ahead(b, S))
<1>1. Ahead(a, S) \cup {a} \in SUBSET Ahead(b, S)
  BY DEF Ahead, NewerIsOrder
<1>2. a \notin Ahead(a, S)
  BY DEF Ahead, NewerIsOrder
<1>3. Cardinality(Ahead(a, S) \cup {a}) = Cardinality(Ahead(a, S)) + 1
  BY <1>2, FiniteAccounts, FS_AddElement
<1>4. Cardinality(Ahead(a, S) \cup {a}) <= Cardinality(Ahead(b, S))
  BY <1>1, FiniteAccounts, FS_Subset
<1>5. QED
  BY <1>3, <1>4, FiniteAccounts

(* Every place of a list is taken, by one account.                         *)
LEMMA PlacesTaken ==
  ASSUME live \subseteq Accounts, NewerIsOrder, NEW S, S \subseteq live
  PROVE  /\ \A a \in S : Cardinality(Ahead(a, S)) \in 0 .. Cardinality(S) - 1
         /\ \A a, b \in S : Cardinality(Ahead(a, S)) = Cardinality(Ahead(b, S)) => a = b
         /\ \A i \in 1 .. Cardinality(S) : \E a \in S : Cardinality(Ahead(a, S)) = i - 1
<1> DEFINE n == Cardinality(S)
           place == [a \in S |-> Cardinality(Ahead(a, S)) + 1]
<1>1. n \in Nat /\ IsFiniteSet(S)
  BY FiniteAccounts
<1>2. ASSUME NEW a \in S
      PROVE  Cardinality(Ahead(a, S)) \in 0 .. n - 1
  <2>1. Ahead(a, S) \in SUBSET (S \ {a})
    BY DEF Ahead, NewerIsOrder
  <2>2. IsFiniteSet(S \ {a}) /\ Cardinality(S \ {a}) = n - 1
    BY <1>1, FS_RemoveElement
  <2>3. Cardinality(Ahead(a, S)) <= n - 1
    BY <2>1, <2>2, FS_Subset
  <2>4. QED
    BY <1>1, <2>3, FiniteAccounts
<1>3. ASSUME NEW a \in S, NEW b \in S, Cardinality(Ahead(a, S)) = Cardinality(Ahead(b, S))
      PROVE  a = b
  <2>1. CASE <<a, b>> \in newer
    BY <1>3, <2>1, FiniteAccounts, LaterHasMoreAhead
  <2>2. CASE <<b, a>> \in newer
    BY <1>3, <2>2, FiniteAccounts, LaterHasMoreAhead
  <2>3. QED
    BY <2>1, <2>2 DEF NewerIsOrder
<1>4. \A a \in S : place[a] \in 1 .. n
  BY <1>1, <1>2
<1>5. \A a, b \in S : place[a] = place[b] => a = b
  BY <1>3, FiniteAccounts
<1>6. place \in Injection(S, 1 .. n)
  <2>1. place \in [S -> 1 .. n] /\ DOMAIN place = S
    BY <1>4
  <2> HIDE DEF place
  <2>2. QED
    BY <1>5, <2>1 DEF Injection, IsInjective
<1>7. IsFiniteSet(1 .. n) /\ Cardinality(1 .. n) = n
  BY <1>1, FS_Interval
<1>8. place \in Surjection(S, 1 .. n)
  <2> HIDE DEF place
  <2>1. QED
    BY <1>6, <1>7, FS_Injection
<1>9. ASSUME NEW i \in 1 .. n
      PROVE  \E a \in S : Cardinality(Ahead(a, S)) = i - 1
  <2>1. PICK a \in S : place[a] = i
    BY <1>8 DEF Surjection
  <2>2. QED
    BY <1>1, <2>1, FiniteAccounts
<1>10. QED
  BY <1>2, <1>3, <1>9

(* The ordered list of S names each of its accounts once, at its place.    *)
LEMMA OrderedNames ==
  ASSUME live \subseteq Accounts, NewerIsOrder, NEW S, S \subseteq live
  PROVE  /\ Ordered(S) \in Seq(Accounts) /\ Len(Ordered(S)) = Cardinality(S)
         /\ \A i \in 1 .. Cardinality(S) : /\ Ordered(S)[i] \in S
                                           /\ Cardinality(Ahead(Ordered(S)[i], S)) = i - 1
         /\ \A a \in S : Ordered(S)[Cardinality(Ahead(a, S)) + 1] = a
<1>1. ASSUME NEW i \in 1 .. Cardinality(S)
      PROVE  Ordered(S)[i] \in S /\ Cardinality(Ahead(Ordered(S)[i], S)) = i - 1
  BY PlacesTaken DEF Ordered
<1>2. Cardinality(S) \in Nat
  BY FiniteAccounts
<1>3. DOMAIN Ordered(S) = 1 .. Cardinality(S)
  BY DEF Ordered
<1>4. Ordered(S) \in [1 .. Cardinality(S) -> Accounts]
  BY <1>1 DEF Ordered
<1>5. Ordered(S) \in Seq(Accounts) /\ Len(Ordered(S)) = Cardinality(S)
  BY <1>2, <1>4, FunctionIsSeq
<1>6. ASSUME NEW a \in S
      PROVE  Ordered(S)[Cardinality(Ahead(a, S)) + 1] = a
  <2> DEFINE i == Cardinality(Ahead(a, S)) + 1
  <2>1. i \in 1 .. Cardinality(S)
    BY <1>2, PlacesTaken
  <2>2. Ordered(S)[i] \in S /\ Cardinality(Ahead(Ordered(S)[i], S)) = i - 1
    BY <1>1, <2>1
  <2>3. Cardinality(Ahead(Ordered(S)[i], S)) = Cardinality(Ahead(a, S))
    BY <2>2, FiniteAccounts
  <2>4. QED
    BY <2>2, <2>3, PlacesTaken
<1>7. QED
  BY <1>1, <1>5, <1>6
(* What LIMIT and OFFSET take of a list.                                   *)
LEMMA SliceTakes ==
  ASSUME NEW T, NEW s \in Seq(T), NEW size \in Nat, NEW offset \in Nat
  PROVE  /\ Slice(s, size, offset) \in Seq(T)
         /\ Len(Slice(s, size, offset)) = IF offset + size < Len(s) THEN size
                                          ELSE IF offset < Len(s) THEN Len(s) - offset ELSE 0
         /\ \A i \in 1 .. Len(Slice(s, size, offset)) :
               offset + i \in 1 .. Len(s) /\ Slice(s, size, offset)[i] = s[offset + i]
<1> DEFINE m == offset + 1
           n == IF offset + size < Len(s) THEN offset + size ELSE Len(s)
           t == Slice(s, size, offset)
<1>1. /\ m \in Int /\ n \in Int /\ Len(s) \in Nat /\ m - 1 = offset
      /\ n <= Len(s) /\ n <= offset + size
      /\ \A i \in m .. n : s[i] \in T
  OBVIOUS
<1>2. t = SubSeq(s, m, n)
  BY DEF Slice
<1>3. n - m + 1 = IF offset + size < Len(s) THEN size ELSE Len(s) - offset
  OBVIOUS
<1> HIDE DEF m, n, t
<1>4. /\ t \in Seq(T)
      /\ Len(t) = IF m <= n THEN n - m + 1 ELSE 0
      /\ \A i \in 1 .. n - m + 1 : t[i] = s[m + i - 1]
  BY <1>1, <1>2, SubSeqProperties
<1>5. ASSUME NEW i \in 1 .. Len(t)
      PROVE  offset + i \in 1 .. Len(s) /\ t[i] = s[offset + i]
  <2>1. i \in 1 .. n - m + 1 /\ i \in Nat
    BY <1>1, <1>4
  <2>2. m + i - 1 = offset + i /\ offset + i \in 1 .. Len(s)
    BY <1>1, <2>1
  <2>3. QED
    BY <1>4, <2>1, <2>2
<1>6. Len(t) = IF offset + size < Len(s) THEN size
               ELSE IF offset < Len(s) THEN Len(s) - offset ELSE 0
  BY <1>1, <1>3, <1>4
<1>7. QED
  BY <1>4, <1>5, <1>6 DEF t

(* The offsets of the first page, and of the page after one.               *)
LEMMA Offsets ==
  ASSUME NEW page \in Nat \ {0}, NEW size \in Nat
  PROVE  /\ (page - 1) * size \in Nat
         /\ page = 1 => (page - 1) * size = 0
         /\ \A next \in Nat : next = page + 1 => (next - 1) * size = (page - 1) * size + size
<1>1. page - 1 \in Nat
  OBVIOUS
<1>2. PICK k \in Nat : page = k + 1
  BY <1>1
<1>3. k * size \in Nat /\ (k + 1) * size = k * size + size /\ (k = 0 => k * size = 0)
  OBVIOUS
<1>4. page - 1 = k
  BY <1>2
<1>5. ASSUME NEW next \in Nat, next = page + 1
      PROVE  next - 1 = k + 1
  BY <1>2, <1>5
<1>6. QED
  BY <1>2, <1>3, <1>4, <1>5

(* A page names the accounts whose places it has, and is full unless it is *)
(* the last.                                                               *)
LEMMA PageNames ==
  ASSUME live \subseteq Accounts, NewerIsOrder, NEW r, NEW page \in Nat \ {0}
  PROVE  /\ ListByRole(r, page) \in Seq(Accounts)
         /\ Len(ListByRole(r, page)) \in Nat
         /\ \A a \in Range(ListByRole(r, page)) :
               a \in Listed(r) /\ Cardinality(Ahead(a, Listed(r))) < (page - 1) * Limit + Limit
         /\ \A a \in Listed(r) :
               /\ Cardinality(Ahead(a, Listed(r))) >= (page - 1) * Limit
               /\ \/ Cardinality(Ahead(a, Listed(r))) < (page - 1) * Limit + Limit
                  \/ Len(ListByRole(r, page)) < Limit
               => a \in Range(ListByRole(r, page))
<1> DEFINE S == Listed(r)
           s == Ordered(S)
           offset == (page - 1) * Limit
           t == ListByRole(r, page)
<1>1. S \subseteq live
  BY DEF Listed
<1>2. /\ s \in Seq(Accounts) /\ Len(s) = Cardinality(S) /\ Cardinality(S) \in Nat
      /\ \A i \in 1 .. Len(s) : s[i] \in S /\ Cardinality(Ahead(s[i], S)) = i - 1
      /\ \A a \in S : s[Cardinality(Ahead(a, S)) + 1] = a
  <2> HIDE DEF S
  <2>1. QED
    BY <1>1, OrderedNames, FiniteAccounts
<1>3. offset \in Nat /\ Limit \in Nat \ {0}
  BY SizesAssumption, Offsets
<1>4. t = Slice(s, Limit, offset)
  BY DEF ListByRole
<1>5. \A a \in S : Cardinality(Ahead(a, S)) \in 0 .. Len(s) - 1
  <2> HIDE DEF S, s
  <2>1. QED
    BY <1>1, <1>2, PlacesTaken
<1> HIDE DEF S, s, offset, t
<1>6. /\ t \in Seq(Accounts)
      /\ Len(t) = IF offset + Limit < Len(s) THEN Limit
                  ELSE IF offset < Len(s) THEN Len(s) - offset ELSE 0
      /\ \A i \in 1 .. Len(t) : offset + i \in 1 .. Len(s) /\ t[i] = s[offset + i]
  BY <1>2, <1>3, <1>4, SliceTakes
<1>7. DOMAIN t = 1 .. Len(t) /\ Len(t) \in Nat /\ Len(t) <= Limit
  BY <1>2, <1>3, <1>6
<1>8. ASSUME NEW a \in Range(t)
      PROVE  a \in S /\ Cardinality(Ahead(a, S)) < offset + Limit
  <2>1. PICK i \in 1 .. Len(t) : a = t[i]
    BY <1>7 DEF Range
  <2>2. a = s[offset + i] /\ offset + i \in 1 .. Len(s)
    BY <1>6, <2>1
  <2>3. a \in S /\ Cardinality(Ahead(a, S)) = offset + i - 1
    <3>1. PICK j \in 1 .. Len(s) : j = offset + i /\ a = s[j]
      BY <2>2
    <3>2. s[j] \in S /\ Cardinality(Ahead(s[j], S)) = j - 1
      BY <1>2
    <3>3. QED
      BY <1>3, <1>7, <3>1, <3>2
  <2>4. QED
    BY <1>3, <1>7, <2>3
<1>9. ASSUME NEW a \in S, Cardinality(Ahead(a, S)) >= offset,
             Cardinality(Ahead(a, S)) < offset + Limit \/ Len(t) < Limit
      PROVE  a \in Range(t)
  <2> DEFINE c == Cardinality(Ahead(a, S))
             i == c - offset + 1
  <2>1. c \in 0 .. Len(s) - 1 /\ s[c + 1] = a
    BY <1>2, <1>5
  <2> HIDE DEF c
  <2>2. c >= offset /\ (c < offset + Limit \/ Len(t) < Limit)
    BY <1>9 DEF c
  <2>3. i \in 1 .. Len(t)
    BY <1>2, <1>3, <1>6, <2>1, <2>2
  <2>4. offset + i = c + 1
    BY <1>3, <2>1
  <2>5. t[i] = a
    BY <1>6, <2>1, <2>3, <2>4
  <2>6. QED
    BY <1>7, <2>3, <2>5 DEF Range
<1>10. QED
  BY <1>6, <1>7, <1>8, <1>9 DEF S, t, offset
-----------------------------------------------------------------------------
(* The invariant                                                           *)

LEMMA ListingInitInv == ListingInit => ListingInv
<1> SUFFICES ASSUME ListingInit PROVE ListingInv
  OBVIOUS
<1> USE DEF ListingInit
<1>1. ListingTypeOK
  BY DEF ListingTypeOK, NoReader
<1>2. NewerIsOrder /\ ReaderOnTrack /\ PagesMissNobody /\ FetchOnTrack /\ ListedOnce
  BY DEF NewerIsOrder, ReaderOnTrack, PagesMissNobody, FetchOnTrack, ListedOnce, NoReader
<1>3. QED
  BY <1>1, <1>2 DEF ListingInv

(* What the proofs use of a change of the tables: nobody is overtaken by   *)
(* an account that was listed after them.                                  *)
TablesChange ==
    /\ born' \subseteq Accounts
    /\ live' \subseteq born'
    /\ newer' \subseteq live' \X live'
    /\ roles' \in [Accounts -> SUBSET RoleCodes]
    /\ \A a, b \in live \cap live' : <<a, b>> \in newer <=> <<a, b>> \in newer'
    /\ NewerIsOrder'
    /\ Observe

LEMMA InsertChanges ==
  ASSUME ListingInv, NEW a \in Accounts, Insert(a)
  PROVE  TablesChange
<1> USE DEF ListingInv, ListingTypeOK, Insert
<1>1. a \notin live
  OBVIOUS
<1>2. born' \subseteq Accounts /\ live' \subseteq born' /\ newer' \subseteq live' \X live'
  OBVIOUS
<1>3. \A b, c \in live \cap live' : <<b, c>> \in newer <=> <<b, c>> \in newer'
  BY <1>1
<1>4. NewerIsOrder'
  <2>1. \A b, c \in live' : <<b, c>> \in newer' <=> <<b, c>> \in newer \/ (b = a /\ c \in live)
    BY <1>1
  <2>2. \A b, c : <<b, c>> \in newer => b \in live /\ c \in live
    OBVIOUS
  <2>3. live' = live \cup {a}
    OBVIOUS
  <2>4. \A b \in live' : <<b, b>> \notin newer'
    BY <1>1, <2>1, <2>2, <2>3 DEF NewerIsOrder
  <2>5. \A b, c \in live' : b # c => <<b, c>> \in newer' \/ <<c, b>> \in newer'
    BY <2>1, <2>3 DEF NewerIsOrder
  <2>6. \A b, c, d \in live' : <<b, c>> \in newer' /\ <<c, d>> \in newer' => <<b, d>> \in newer'
    BY <1>1, <2>1, <2>2, <2>3 DEF NewerIsOrder
  <2>7. QED
    BY <2>4, <2>5, <2>6 DEF NewerIsOrder
<1>5. QED
  BY <1>2, <1>3, <1>4 DEF TablesChange

LEMMA SoftDeleteChanges ==
  ASSUME ListingInv, NEW a \in Accounts, SoftDelete(a)
  PROVE  TablesChange
<1> USE DEF ListingInv, ListingTypeOK, SoftDelete
<1>1. born' \subseteq Accounts /\ live' \subseteq born' /\ newer' \subseteq live' \X live'
  OBVIOUS
<1>2. roles' \in [Accounts -> SUBSET RoleCodes]
  OBVIOUS
<1>3. \A b, c \in live' : <<b, c>> \in newer' <=> <<b, c>> \in newer
  OBVIOUS
<1>4. NewerIsOrder'
  BY <1>3 DEF NewerIsOrder
<1>5. QED
  BY <1>1, <1>2, <1>3, <1>4 DEF TablesChange

LEMMA RoleChanges ==
  ASSUME ListingInv, NEW a \in Accounts, NEW r \in RoleCodes, AssignRole(a, r) \/ WithdrawRole(a, r)
  PROVE  TablesChange
<1> USE DEF ListingInv, ListingTypeOK, AssignRole, WithdrawRole
<1>1. roles' \in [Accounts -> SUBSET RoleCodes]
  OBVIOUS
<1>2. born' = born /\ live' = live /\ newer' = newer
  OBVIOUS
<1>3. NewerIsOrder'
  BY <1>2 DEF NewerIsOrder
<1>4. QED
  BY <1>1, <1>2, <1>3 DEF TablesChange

(* Whoever remains due has no fewer accounts ahead than before.            *)
LEMMA PlacesGrow ==
  ASSUME ListingInv, TablesChange, NEW a \in due'
  PROVE  /\ a \in due
         /\ a \in Listed(reader.role)'
         /\ Cardinality(Ahead(a, Listed(reader.role))) <= Cardinality(Ahead(a, Listed(reader.role))')
<1> DEFINE L == Listed(reader.role)
<1>1. a \in due /\ {a} \cup Ahead(a, L) \subseteq L'
  BY DEF TablesChange, Observe
<1>2. L \subseteq live /\ L' \subseteq live' /\ live' \subseteq Accounts
  BY DEF Listed, TablesChange
<1>3. Ahead(a, L) \in SUBSET Ahead(a, L)'
  <2>1. ASSUME NEW b \in Ahead(a, L)
        PROVE  b \in Ahead(a, L)'
    <3>1. b \in L /\ <<b, a>> \in newer /\ b \in L'
      BY <1>1 DEF Ahead
    <3>2. a \in live /\ b \in live /\ a \in live' /\ b \in live'
      BY <1>1, <1>2, <3>1 DEF ListingInv, ListingTypeOK
    <3>3. <<b, a>> \in newer'
      BY <3>1, <3>2 DEF TablesChange
    <3>4. QED
      BY <3>1, <3>3 DEF Ahead
  <2>2. QED
    BY <2>1
<1>4. IsFiniteSet(Ahead(a, L)')
  <2>1. Ahead(a, L)' \in SUBSET Accounts
    BY <1>2 DEF Ahead
  <2>2. QED
    BY <2>1, AccountsAssumption, FS_Subset
<1>5. QED
  BY <1>1, <1>3, <1>4, FS_Subset
(* A change of the tables keeps the invariant.                             *)
LEMMA TablesChangeInv ==
  ASSUME ListingInv, TablesChange
  PROVE  ListingInv'
<1>1. ListingTypeOK'
  <2>1. /\ reader' = reader /\ answers' = answers /\ cache' = cache /\ view' = view
        /\ due' \subseteq due
        /\ steady' \in [RoleCodes -> SUBSET Accounts]
        /\ seen' \subseteq Accounts
    <3>1. seen' \subseteq Accounts
      BY DEF TablesChange, Observe, ListingInv, ListingTypeOK
    <3>2. ASSUME NEW r \in RoleCodes
          PROVE  (IF answers # Null /\ answers[r] = Pending
                  THEN steady[r] \cap Newest(r)' ELSE steady[r]) \subseteq Accounts
      BY DEF ListingInv, ListingTypeOK
    <3>3. steady' \in [RoleCodes -> SUBSET Accounts]
      BY <3>2 DEF TablesChange, Observe
    <3>4. QED
      BY <3>1, <3>3 DEF TablesChange, Observe
  <2>2. QED
    BY <2>1 DEF ListingInv, ListingTypeOK, TablesChange
<1>2. NewerIsOrder'
  BY DEF TablesChange
<1>3. ReaderOnTrack'
  <2> SUFFICES ASSUME reader'.pc = "reading", NEW a \in due' \ reader'.got
               PROVE  /\ a \in Listed(reader.role)'
                      /\ Cardinality(Ahead(a, Listed(reader.role))') >= (reader'.page - 1) * Limit
    BY DEF ReaderOnTrack
  <2>1. reader' = reader
    BY DEF TablesChange, Observe
  <2> DEFINE c == Cardinality(Ahead(a, Listed(reader.role)))
             offset == (reader.page - 1) * Limit
  <2>2. a \in due /\ a \in Listed(reader.role)' /\ c <= Cardinality(Ahead(a, Listed(reader.role))')
    BY PlacesGrow
  <2>3. c >= offset
    BY <2>1, <2>2 DEF ListingInv, ReaderOnTrack
  <2>4. offset \in Nat
    BY SizesAssumption, Offsets DEF ListingInv, ListingTypeOK
  <2>5. c \in Nat /\ Cardinality(Ahead(a, Listed(reader.role))') \in Nat
    <3>1. Ahead(a, Listed(reader.role)) \in SUBSET Accounts
      BY DEF Ahead, Listed, ListingInv, ListingTypeOK
    <3>2. Ahead(a, Listed(reader.role))' \in SUBSET Accounts
      BY DEF Ahead, Listed, TablesChange
    <3>3. QED
      BY <3>1, <3>2, AccountsAssumption, FS_Subset, FS_CardinalityType
  <2>6. (reader'.page - 1) * Limit = offset
    BY <2>1
  <2> HIDE DEF c, offset
  <2>7. QED
    BY <2>2, <2>3, <2>4, <2>5, <2>6
<1>4. PagesMissNobody'
  BY DEF ListingInv, PagesMissNobody, TablesChange, Observe
<1>5. FetchOnTrack'
  <2> SUFFICES ASSUME answers' # Null PROVE FetchOnTrack'
    BY DEF FetchOnTrack
  <2>1. answers' = answers /\ answers # Null /\ seen' = seen \cup live'
    BY DEF TablesChange, Observe
  <2>2. live' \subseteq seen'
    BY <2>1
  <2>3. ASSUME NEW r \in RoleCodes
        PROVE  /\ Range(answers[r].rows) \subseteq seen
               /\ answers[r] = Pending => steady'[r] \subseteq Newest(r)'
               /\ answers[r] # Pending => steady'[r] = steady[r]
               /\ answers[r] \notin {Pending, Failed} => steady[r] \subseteq Range(answers[r].rows)
    <3>1. steady'[r] = IF answers[r] = Pending THEN steady[r] \cap Newest(r)' ELSE steady[r]
      BY <2>1 DEF TablesChange, Observe
    <3>2. QED
      BY <2>1, <3>1 DEF ListingInv, FetchOnTrack
  <2>4. QED
    BY <2>1, <2>2, <2>3 DEF FetchOnTrack
<1>6. ListedOnce'
  BY DEF ListingInv, ListedOnce, TablesChange, Observe
<1>7. QED
  BY <1>1, <1>2, <1>3, <1>4, <1>5, <1>6 DEF ListingInv

(* What does not change the tables keeps what is true of them.             *)
LEMMA TablesKept ==
  ASSUME ListingInv, UNCHANGED tables
  PROVE  /\ NewerIsOrder'
         /\ \A r : Listed(r)' = Listed(r) /\ Newest(r)' = Newest(r)
         /\ \A a, S : Ahead(a, S)' = Ahead(a, S)
  BY DEF ListingInv, tables, NewerIsOrder, Newest, Listed, Ahead

(* A reader that does not move, and a fetch that does not, stay on track.  *)
LEMMA ReaderKept ==
  ASSUME ListingInv, UNCHANGED <<tables, reading>>
  PROVE  ReaderOnTrack' /\ PagesMissNobody'
<1>1. reader' = reader /\ due' = due
  BY DEF reading
<1>2. live' = live /\ newer' = newer /\ roles' = roles
  BY DEF tables
<1>3. QED
  BY <1>1, <1>2 DEF ListingInv, ReaderOnTrack, PagesMissNobody, Listed, Ahead

LEMMA FetchKept ==
  ASSUME ListingInv, UNCHANGED <<tables, fetching>>
  PROVE  FetchOnTrack'
<1>1. answers' = answers /\ steady' = steady /\ seen' = seen
  BY DEF fetching
<1>2. live' = live /\ newer' = newer /\ roles' = roles
  BY DEF tables
<1>3. QED
  BY <1>1, <1>2 DEF ListingInv, FetchOnTrack, Newest, Listed, Ahead

LEMMA ReaderBeginsInv ==
  ASSUME ListingInv, NEW r \in RoleCodes, ReaderBegins(r)
  PROVE  ListingInv'
<1>1. reader' = [pc |-> "reading", role |-> r, page |-> 1, got |-> {}] /\ due' = Listed(r)
  BY DEF ReaderBegins, NoReader
<1>2. UNCHANGED <<tables, fetching, cache>> /\ view' = view
  BY DEF ReaderBegins
<1>3. ListingTypeOK'
  BY <1>1, <1>2 DEF ListingInv, ListingTypeOK, Listed, tables, fetching
<1>4. ReaderOnTrack'
  <2>1. \A a : Cardinality(Ahead(a, Listed(r))) \in Nat
    BY FiniteAccounts DEF Listed, ListingInv, ListingTypeOK
  <2>2. (1 - 1) * Limit = 0
    BY SizesAssumption
  <2>3. reader'.role = r /\ (reader'.page - 1) * Limit = 0
    <3>1. reader'.role = r /\ reader'.page = 1
      BY <1>1
    <3>2. PICK p \in Nat \ {0} : p = 1
      OBVIOUS
    <3>3. (p - 1) * Limit = 0
      BY <3>2, SizesAssumption, Offsets
    <3>4. QED
      BY <3>1, <3>2, <3>3
  <2>4. Listed(reader.role)' = Listed(r) /\ \A a : Ahead(a, Listed(reader.role))' = Ahead(a, Listed(r))
    BY <1>2, <2>3 DEF Listed, Ahead, tables
  <2>5. ASSUME NEW a \in due' \ reader'.got
        PROVE  /\ a \in Listed(reader.role)'
               /\ Cardinality(Ahead(a, Listed(reader.role))') >= (reader'.page - 1) * Limit
    BY <1>1, <2>1, <2>3, <2>4
  <2>6. QED
    BY <2>5 DEF ReaderOnTrack
<1>5. PagesMissNobody'
  BY <1>1 DEF PagesMissNobody
<1>6. NewerIsOrder' /\ FetchOnTrack' /\ ListedOnce'
  BY <1>2, TablesKept, FetchKept DEF ListingInv, ListedOnce
<1>7. QED
  BY <1>3, <1>4, <1>5, <1>6 DEF ListingInv
(* A page that is read names those whose places it has; the others, on a   *)
(* later page, are not there when the last page was read.                  *)
LEMMA ReadPageInv ==
  ASSUME ListingInv, ReadPage
  PROVE  ListingInv'
<1> DEFINE rows == ListByRole(reader.role, reader.page)
           L == Listed(reader.role)
           rank(a) == Cardinality(Ahead(a, L))
           offset == (reader.page - 1) * Limit
<1>1. /\ reader.pc = "reading" /\ reader.page \in Nat \ {0}
      /\ reader \in [pc : {"idle", "reading", "done"}, role : RoleCodes \cup {Null},
                     page : Nat \ {0}, got : SUBSET Accounts]
      /\ live \subseteq Accounts
  BY DEF ReadPage, ListingInv, ListingTypeOK
<1>2. reader' = [pc   |-> IF Len(rows) < Limit THEN "done" ELSE "reading",
                 role |-> reader.role,
                 page |-> IF Len(rows) < Limit THEN reader.page ELSE reader.page + 1,
                 got  |-> reader.got \cup Range(rows)]
  BY <1>1 DEF ReadPage
<1>3. UNCHANGED <<tables, fetching, cache>> /\ view' = view /\ due' = due
  BY DEF ReadPage
<1>4. /\ rows \in Seq(Accounts) /\ Len(rows) \in Nat
      /\ \A a \in L : /\ rank(a) >= offset
                      /\ rank(a) < offset + Limit \/ Len(rows) < Limit
                      => a \in Range(rows)
  BY <1>1, PageNames DEF ListingInv
<1>5. Range(rows) \subseteq Accounts
  BY <1>4, RangeOfSeq
<1>6. ListingTypeOK'
  <2>1. reader' \in [pc : {"idle", "reading", "done"}, role : RoleCodes \cup {Null},
                     page : Nat \ {0}, got : SUBSET Accounts]
    BY <1>1, <1>2, <1>5
  <2>2. QED
    BY <1>3, <2>1 DEF ListingInv, ListingTypeOK, tables, fetching
<1>7. \A a \in due \ reader.got : a \in L /\ rank(a) >= offset
  BY <1>1 DEF ListingInv, ReaderOnTrack
<1>8. ReaderOnTrack'
  <2> SUFFICES ASSUME Len(rows) >= Limit PROVE ReaderOnTrack'
    <3>1. Len(rows) < Limit => reader'.pc # "reading"
      BY <1>2
    <3>2. QED
      BY <1>4, <3>1, SizesAssumption DEF ReaderOnTrack
  <2>1. ~ (Len(rows) < Limit)
    BY <1>4, SizesAssumption
  <2>2. /\ reader'.role = reader.role /\ reader'.page = reader.page + 1
        /\ reader'.got = reader.got \cup Range(rows)
    BY <1>2, <2>1
  <2>3. offset \in Nat /\ (reader'.page - 1) * Limit = offset + Limit
    <3>1. reader'.page \in Nat /\ Limit \in Nat
      BY <1>1, <2>2, SizesAssumption
    <3>2. QED
      BY <1>1, <2>2, <3>1, Offsets
  <2>4. ASSUME NEW a \in due' \ reader'.got
        PROVE  a \in L /\ rank(a) >= (reader'.page - 1) * Limit
    <3>1. a \in due \ reader.got /\ a \notin Range(rows)
      BY <1>3, <2>2, <2>4
    <3>2. a \in L /\ rank(a) >= offset
      BY <1>7, <3>1
    <3>3. rank(a) \in Nat
      BY <1>1, FiniteAccounts DEF Listed
    <3> HIDE DEF rank, offset
    <3>4. rank(a) >= offset + Limit
      BY <1>4, <2>1, <2>3, <3>1, <3>2, <3>3, SizesAssumption
    <3>5. (reader'.page - 1) * Limit = offset + Limit
      BY <2>3
    <3>6. QED
      BY <3>2, <3>4, <3>5
  <2>5. \A a : a \in Listed(reader.role)' <=> a \in L
    BY <1>3, <2>2 DEF Listed, tables
  <2>6. \A a : Ahead(a, Listed(reader.role))' = Ahead(a, L)
    BY <1>3, <2>2 DEF Listed, Ahead, tables
  <2>7. ASSUME NEW a \in due' \ reader'.got
        PROVE  /\ a \in Listed(reader.role)'
               /\ Cardinality(Ahead(a, Listed(reader.role))') >= (reader'.page - 1) * Limit
    BY <2>4, <2>5, <2>6
  <2>8. QED
    BY <2>7 DEF ReaderOnTrack
<1>9. PagesMissNobody'
  <2>1. ASSUME Len(rows) < Limit, NEW a \in due
        PROVE  a \in reader.got \cup Range(rows)
    BY <1>4, <1>7, <2>1
  <2>2. QED
    BY <1>2, <1>3, <2>1 DEF PagesMissNobody
<1>10. NewerIsOrder' /\ FetchOnTrack' /\ ListedOnce'
  BY <1>3, TablesKept, FetchKept DEF ListingInv, ListedOnce
<1>11. QED
  BY <1>6, <1>8, <1>9, <1>10 DEF ListingInv

LEMMA ReaderEndsInv ==
  ASSUME ListingInv, ReaderEnds
  PROVE  ListingInv'
<1>1. /\ reader' = NoReader /\ due' = {}
      /\ UNCHANGED <<tables, fetching, cache>> /\ view' = view
  BY DEF ReaderEnds
<1>2. ListingTypeOK'
  BY <1>1 DEF ListingInv, ListingTypeOK, NoReader, tables, fetching
<1>3. ReaderOnTrack' /\ PagesMissNobody'
  BY <1>1 DEF ReaderOnTrack, PagesMissNobody, NoReader
<1>4. NewerIsOrder' /\ FetchOnTrack' /\ ListedOnce'
  BY <1>1, TablesKept, FetchKept DEF ListingInv, ListedOnce
<1>5. QED
  BY <1>2, <1>3, <1>4 DEF ListingInv

LEMMA FetchInv ==
  ASSUME ListingInv, Fetch
  PROVE  ListingInv'
<1>1. /\ answers' = [r \in RoleCodes |-> Pending]
      /\ steady' = [r \in RoleCodes |-> Newest(r)]
      /\ seen' = live
      /\ UNCHANGED <<tables, reading>> /\ cache' = cache /\ view' = view
  BY DEF Fetch
<1>2. ListingTypeOK'
  <2>1. \A r : Newest(r) \subseteq Accounts
    BY DEF Newest, Listed, ListingInv, ListingTypeOK
  <2>2. /\ answers' \in [RoleCodes -> Answers]
        /\ steady' \in [RoleCodes -> SUBSET Accounts]
    BY <1>1, <2>1 DEF Pending
  <2>3. QED
    BY <1>1, <2>2 DEF ListingInv, ListingTypeOK, tables, reading
<1>3. FetchOnTrack'
  <2>1. live' = live
    BY <1>1 DEF tables
  <2>2. ASSUME NEW r \in RoleCodes
        PROVE  answers'[r] = Pending /\ Range(Pending.rows) = {} /\ steady'[r] = Newest(r)'
    <3>1. Newest(r)' = Newest(r)
      BY <1>1, TablesKept
    <3>2. Range(Pending.rows) = {}
      BY DEF Pending, Range
    <3>3. QED
      BY <1>1, <3>1, <3>2
  <2>3. QED
    BY <1>1, <2>1, <2>2 DEF FetchOnTrack
<1>4. NewerIsOrder' /\ ReaderOnTrack' /\ PagesMissNobody' /\ ListedOnce'
  BY <1>1, TablesKept, ReaderKept DEF ListingInv, ListedOnce
<1>5. QED
  BY <1>2, <1>3, <1>4 DEF ListingInv

(* The first page of a role names its newest accounts, and no others.      *)
LEMMA FirstPage ==
  ASSUME ListingInv, NEW r
  PROVE  /\ ListByRole(r, 1) \in Seq(Accounts)
         /\ Range(ListByRole(r, 1)) \subseteq Listed(r)
         /\ Newest(r) \subseteq Range(ListByRole(r, 1))
<1> DEFINE rows == ListByRole(r, 1)
<1>1. live \subseteq Accounts
  BY DEF ListingInv, ListingTypeOK
<1>2. (1 - 1) * Limit = 0 /\ Limit \in Nat
  BY SizesAssumption
<1>3. \A a : Cardinality(Ahead(a, Listed(r))) \in Nat
  BY <1>1, FiniteAccounts DEF Listed
<1>4. /\ rows \in Seq(Accounts)
      /\ \A a \in Range(rows) : a \in Listed(r)
      /\ \A a \in Listed(r) : /\ Cardinality(Ahead(a, Listed(r))) >= (1 - 1) * Limit
                              /\ Cardinality(Ahead(a, Listed(r))) < (1 - 1) * Limit + Limit
                              => a \in Range(rows)
  BY <1>1, PageNames DEF ListingInv
<1> HIDE DEF rows
<1>5. Newest(r) \subseteq Range(rows)
  BY <1>2, <1>3, <1>4 DEF Newest
<1>6. QED
  BY <1>4, <1>5 DEF rows

LEMMA AnswersGiven ==
  ASSUME ListingInv, NEW r
  PROVE  {Fulfilled(ListByRole(r, 1)), Failed} \subseteq Answers
<1>1. Failed \in Answers
  <2>1. <<>> \in Seq(Accounts)
    OBVIOUS
  <2>2. QED
    BY <2>1 DEF Failed
<1>2. Fulfilled(ListByRole(r, 1)) \in Answers
  BY FirstPage DEF Fulfilled
<1>3. QED
  BY <1>1, <1>2

(* An answer names whoever was on the first page until it was given.       *)
LEMMA SettleInv ==
  ASSUME ListingInv, NEW r \in RoleCodes, Settle(r)
  PROVE  ListingInv'
<1> DEFINE rows == ListByRole(r, 1)
<1>1. PICK answer \in {Fulfilled(rows), Failed} : answers' = [answers EXCEPT ![r] = answer]
  BY DEF Settle
<1>2. /\ answers # Null /\ answers[r] = Pending
      /\ UNCHANGED <<tables, reading>> /\ steady' = steady /\ seen' = seen
      /\ cache' = cache /\ view' = view
  BY DEF Settle
<1>3. /\ rows \in Seq(Accounts)
      /\ Range(rows) \subseteq Listed(r)
      /\ Newest(r) \subseteq Range(rows)
  BY FirstPage
<1> HIDE DEF rows
<1>4. answers \in [RoleCodes -> Answers]
  BY <1>2 DEF ListingInv, ListingTypeOK
<1>5. ListingTypeOK'
  <2>1. answer \in Answers
    BY <1>1, AnswersGiven DEF rows
  <2>2. answers' \in [RoleCodes -> Answers]
    BY <1>1, <1>4, <2>1
  <2>3. QED
    BY <1>2, <2>2 DEF ListingInv, ListingTypeOK, tables, reading
<1>6. FetchOnTrack'
  <2>1. live' = live /\ live \subseteq seen
    BY <1>2 DEF tables, ListingInv, FetchOnTrack
  <2>2. ASSUME NEW q \in RoleCodes
        PROVE  /\ Range(answers'[q].rows) \subseteq seen
               /\ answers'[q] = Pending => steady[q] \subseteq Newest(q)'
               /\ answers'[q] \notin {Pending, Failed} => steady[q] \subseteq Range(answers'[q].rows)
    <3>1. /\ Range(answers[q].rows) \subseteq seen
          /\ answers[q] = Pending => steady[q] \subseteq Newest(q)
          /\ answers[q] \notin {Pending, Failed} => steady[q] \subseteq Range(answers[q].rows)
      BY <1>2 DEF ListingInv, FetchOnTrack
    <3>2. Newest(q)' = Newest(q)
      BY <1>2, TablesKept
    <3>3. CASE q # r
      <4>1. answers'[q] = answers[q]
        BY <1>1, <1>4, <3>3
      <4>2. QED
        BY <3>1, <3>2, <4>1
    <3>4. CASE q = r /\ answer = Failed
      <4>1. answers'[q] = Failed /\ Failed # Pending /\ Range(Failed.rows) = {}
        BY <1>1, <1>4, <3>4 DEF Failed, Pending, Range
      <4>2. QED
        BY <4>1
    <3>5. CASE q = r /\ answer = Fulfilled(rows)
      <4>1. answers'[q] = Fulfilled(rows)
        BY <1>1, <1>4, <3>5
      <4>2. Fulfilled(rows).rows = rows /\ Fulfilled(rows) # Pending
        BY DEF Fulfilled, Pending
      <4>3. Range(rows) \subseteq seen
        BY <1>3, <2>1 DEF Listed
      <4>4. steady[q] \subseteq Range(rows)
        BY <1>2, <1>3, <3>1, <3>5
      <4>5. QED
        BY <4>1, <4>2, <4>3, <4>4
    <3>6. QED
      BY <1>1, <3>3, <3>4, <3>5
  <2>3. QED
    BY <1>2, <2>1, <2>2 DEF FetchOnTrack
<1>7. NewerIsOrder' /\ ReaderOnTrack' /\ PagesMissNobody' /\ ListedOnce'
  BY <1>2, TablesKept, ReaderKept DEF ListingInv, ListedOnce
<1>8. QED
  BY <1>5, <1>6, <1>7 DEF ListingInv
-----------------------------------------------------------------------------
(* The pages of UsersPage                                                  *)

(* A filter lets through the rows that match, and no others.               *)
LEMMA PassingNames ==
  ASSUME NEW rows \in Seq(Accounts), NEW match
  PROVE  /\ Passing(rows, match) \in Seq(Accounts)
         /\ Range(Passing(rows, match)) = Range(rows) \cap match
<1> DEFINE T == Seq(Accounts)
           n == Len(rows)
           Body(f) == [k \in 0 .. n |->
                         IF k = 0 THEN <<>>
                         ELSE IF rows[k] \in match THEN Append(f[k - 1], rows[k])
                         ELSE f[k - 1]]
           kept == CHOOSE f : f = Body(f)
<1>1. Passing(rows, match) = kept[n]
  BY DEF Passing
<1>2. n \in Nat /\ DOMAIN rows = 1 .. n /\ \A k \in 1 .. n : rows[k] \in Accounts
  OBVIOUS
<1>3. <<>> \in T /\ Range(<<>>) = {}
  BY DEF Range
<1>4. ASSUME NEW s \in T, NEW a \in Accounts
      PROVE  Append(s, a) \in T /\ Range(Append(s, a)) = Range(s) \cup {a}
  <2>1. /\ Append(s, a) \in T /\ Len(Append(s, a)) = Len(s) + 1
        /\ \A i \in 1 .. Len(s) : Append(s, a)[i] = s[i]
        /\ Append(s, a)[Len(s) + 1] = a
    BY AppendProperties
  <2>2. Range(Append(s, a)) = {Append(s, a)[i] : i \in 1 .. Len(s) + 1}
    BY <2>1, RangeEquality
  <2>3. Range(s) = {s[i] : i \in 1 .. Len(s)} /\ Len(s) \in Nat
    BY RangeEquality
  <2>4. 1 .. Len(s) + 1 = (1 .. Len(s)) \cup {Len(s) + 1}
    BY <2>3
  <2>5. QED
    BY <2>1, <2>2, <2>3, <2>4
<1> HIDE DEF T, n
<1>5. \E f : f = Body(f)
  <2> DEFINE step == [x \in (1 .. n) \X T |->
                        IF rows[x[1]] \in match THEN Append(x[2], rows[x[1]]) ELSE x[2]]
  <2>1. step \in [(1 .. n) \X T -> T]
    BY <1>2, <1>4
  <2>2. PICK f \in [0 .. n -> T] : Runs(f, <<>>, step, n)
    <3> HIDE DEF step
    <3>1. QED
      BY <1>2, <1>3, <2>1, LoopRuns
  <2>3. ASSUME NEW k \in 1 .. n
        PROVE  f[k] = IF rows[k] \in match THEN Append(f[k - 1], rows[k]) ELSE f[k - 1]
    <3>1. k - 1 \in 0 .. n
      BY <1>2
    <3>2. <<k, f[k - 1]>> \in (1 .. n) \X T
      BY <3>1
    <3>3. QED
      BY <2>2, <3>2 DEF Runs
  <2>4. f = Body(f)
    <3> HIDE DEF step
    <3>1. ASSUME NEW k \in 0 .. n
          PROVE  f[k] = Body(f)[k]
      <4>1. k = 0 \/ k \in 1 .. n
        BY <1>2
      <4>2. QED
        BY <2>2, <2>3, <4>1 DEF Runs
    <3>2. QED
      BY <3>1
  <2>5. QED
    BY <2>4
<1>6. kept = Body(kept)
  <2> HIDE DEF Body
  <2>1. QED
    BY <1>5
<1> HIDE DEF kept
<1>7. /\ kept[0] = <<>>
      /\ \A k \in 1 .. n : kept[k] = IF rows[k] \in match THEN Append(kept[k - 1], rows[k])
                                    ELSE kept[k - 1]
  <2>1. \A k \in 0 .. n : kept[k] = Body(kept)[k]
    BY <1>6
  <2>2. 0 \in 0 .. n /\ \A k \in 1 .. n : k \in 0 .. n /\ k # 0
    BY <1>2
  <2>3. QED
    BY <2>1, <2>2
<1> DEFINE First(k) == {rows[j] : j \in 1 .. k}
           G == {k \in 0 .. n : kept[k] \in T /\ Range(kept[k]) = First(k) \cap match}
<1>8. 0 \in G
  BY <1>2, <1>3, <1>7
<1>9. ASSUME NEW k \in 1 .. n, k - 1 \in G
      PROVE  k \in G
  <2>1. First(k) = First(k - 1) \cup {rows[k]}
    <3>1. 1 .. k = (1 .. k - 1) \cup {k}
      BY <1>2
    <3>2. QED
      BY <3>1
  <2> HIDE DEF First
  <2>2. kept[k - 1] \in T /\ Range(kept[k - 1]) = First(k - 1) \cap match /\ rows[k] \in Accounts
    BY <1>2, <1>9
  <2>3. CASE rows[k] \in match
    <3>1. kept[k] = Append(kept[k - 1], rows[k])
      BY <1>7, <2>3
    <3>2. kept[k] \in T /\ Range(kept[k]) = Range(kept[k - 1]) \cup {rows[k]}
      BY <1>4, <2>2, <3>1
    <3>3. QED
      BY <1>2, <2>1, <2>2, <2>3, <3>2
  <2>4. CASE rows[k] \notin match
    <3>1. kept[k] = kept[k - 1]
      BY <1>7, <2>4
    <3>2. QED
      BY <1>2, <2>1, <2>2, <2>4, <3>1
  <2>5. QED
    BY <2>3, <2>4
<1>10. n \in G
  <2> HIDE DEF G
  <2>1. \A k \in 0 .. n : k \in G
    BY <1>2, <1>8, <1>9, Rounds
  <2>2. QED
    BY <1>2, <2>1
<1>11. First(n) = Range(rows)
  BY <1>2 DEF Range
<1>12. QED
  BY <1>1, <1>10, <1>11 DEF T

(* The pages that a list of n rows needs.                                  *)
LEMMA PageCount ==
  ASSUME NEW n \in Nat \ {0}, NEW size \in Nat \ {0},
         NEW pages, pages = (n + size - 1) \div size
  PROVE  /\ pages \in Nat \ {0}
         /\ n <= (pages - 1) * size + size
         /\ \A p \in 1 .. pages : (p - 1) * size \in Nat /\ (p - 1) * size < n
<1>1. pages \in Nat \ {0} /\ (pages - 1) * size < n /\ n <= pages * size
  OBVIOUS
<1>2. n <= (pages - 1) * size + size
  BY <1>1
<1>3. ASSUME NEW p \in 1 .. pages
      PROVE  (p - 1) * size \in Nat /\ (p - 1) * size < n
  <2>1. PICK k \in Nat : pages = p + k
    <3>1. pages - p \in Nat /\ pages = p + (pages - p)
      BY <1>1
    <3>2. QED
      BY <3>1
  <2>2. k * size \in Nat /\ (p - 1) * size \in Nat
    <3>1. p - 1 \in Nat
      OBVIOUS
    <3>2. QED
      BY <3>1
  <2>3. (pages - 1) * size = (p - 1) * size + k * size
    BY <2>1
  <2>4. QED
    BY <1>1, <2>2, <2>3
<1>4. QED
  BY <1>1, <1>2, <1>3

LEMMA FilteredPages ==
  ASSUME ListingTypeOK, view # Null
  PROVE  /\ Filtered \in Seq(Accounts)
         /\ TotalPages \in Nat \ {0}
<1>1. Filtered \in Seq(Accounts)
  BY PassingNames DEF ListingTypeOK, Filtered
<1>2. CASE Filtered = <<>>
  BY <1>1, <1>2 DEF TotalPages
<1>3. CASE Filtered # <<>>
  <2>1. Len(Filtered) \in Nat \ {0}
    BY <1>1, <1>3
  <2>2. TotalPages = (Len(Filtered) + PAGE_SIZE - 1) \div PAGE_SIZE
    BY <1>3 DEF TotalPages
  <2>3. QED
    BY <1>1, <2>1, <2>2, SizesAssumption, PageCount
<1>4. QED
  BY <1>2, <1>3
(* What FlattenSeq strings together, one sequence after the other.         *)
LEMMA FlattenRuns ==
  ASSUME NEW T, NEW n \in Nat \ {0}, NEW seqs \in [1 .. n -> Seq(T)]
  PROVE  \E f : /\ f[1] = seqs[1]
                /\ \A i \in 2 .. n : f[i] = f[i - 1] \o seqs[i]
                /\ FlattenSeq(seqs) = f[n]
<1> DEFINE S == Seq(T)
           Body(f) == [i \in 1 .. n |-> IF i = 1 THEN seqs[i] ELSE f[i - 1] \o seqs[i]]
           flatten == CHOOSE f : f = Body(f)
<1>1. Len(seqs) = n /\ n # 0
  BY FunctionIsSeq
<1>2. FlattenSeq(seqs) = flatten[n]
  BY <1>1 DEF FlattenSeq
<1>3. \E f : f = Body(f)
  <2> DEFINE step == [x \in (1 .. n - 1) \X S |-> x[2] \o seqs[x[1] + 1]]
  <2>1. step \in [(1 .. n - 1) \X S -> S]
    <3>1. \A k \in 1 .. n - 1 : seqs[k + 1] \in S
      OBVIOUS
    <3>2. \A s, t \in S : s \o t \in S
      BY ConcatProperties
    <3> HIDE DEF S
    <3>3. QED
      BY <3>1, <3>2
  <2>2. PICK g \in [0 .. n - 1 -> S] : Runs(g, seqs[1], step, n - 1)
    <3>1. n - 1 \in Nat /\ seqs[1] \in S
      OBVIOUS
    <3> HIDE DEF step, S
    <3>2. QED
      BY <2>1, <3>1, LoopRuns
  <2> DEFINE f == [i \in 1 .. n |-> g[i - 1]]
  <2>3. ASSUME NEW i \in 1 .. n
        PROVE  f[i] = IF i = 1 THEN seqs[i] ELSE f[i - 1] \o seqs[i]
    <3>1. CASE i = 1
      <4>1. f[1] = g[0]
        OBVIOUS
      <4>2. QED
        BY <2>2, <3>1, <4>1 DEF Runs
    <3>2. CASE i # 1
      <4>1. PICK k \in 1 .. n - 1 : i = k + 1
        <5>1. i - 1 \in 1 .. n - 1 /\ i = (i - 1) + 1
          BY <3>2
        <5>2. QED
          BY <5>1
      <4>2. k - 1 \in 0 .. n - 1 /\ k \in 1 .. n
        OBVIOUS
      <4>3. f[i] = g[k] /\ f[i - 1] = g[k - 1]
        BY <4>1, <4>2
      <4>4. g[k] = step[<<k, g[k - 1]>>]
        BY <2>2 DEF Runs
      <4>5. <<k, g[k - 1]>> \in (1 .. n - 1) \X S
        BY <4>2
      <4> HIDE DEF S, f
      <4>6. g[k] = g[k - 1] \o seqs[k + 1]
        BY <4>4, <4>5
      <4>7. QED
        BY <3>2, <4>1, <4>3, <4>6
    <3>3. QED
      BY <3>1, <3>2
  <2>4. f = Body(f)
    <3>1. \A i \in 1 .. n : f[i] = Body(f)[i]
      BY <2>3
    <3>2. QED
      BY <3>1
  <2>5. QED
    BY <2>4
<1>4. flatten = Body(flatten)
  <2> HIDE DEF Body
  <2>1. QED
    BY <1>3
<1> HIDE DEF flatten
<1>5. \A i \in 1 .. n : flatten[i] = IF i = 1 THEN seqs[i] ELSE flatten[i - 1] \o seqs[i]
  <2>1. \A i \in 1 .. n : flatten[i] = Body(flatten)[i]
    BY <1>4
  <2>2. QED
    BY <2>1
<1>6. 1 \in 1 .. n /\ \A i \in 2 .. n : i \in 1 .. n /\ i # 1
  OBVIOUS
<1>7. QED
  BY <1>2, <1>5, <1>6

(* The pages are the list, cut in pieces, and none of them is empty.       *)
LEMMA PagesCover ==
  ASSUME ListingTypeOK, view # Null
  PROVE  PagesCoverList
<1> DEFINE n == Len(Filtered)
           end(p) == IF (p - 1) * PAGE_SIZE + PAGE_SIZE < n THEN (p - 1) * PAGE_SIZE + PAGE_SIZE ELSE n
           seqs == [page \in 1 .. TotalPages |-> Rows(page)]
<1>1. /\ Filtered \in Seq(Accounts) /\ n \in Nat
      /\ TotalPages \in Nat \ {0}
      /\ PAGE_SIZE \in Nat \ {0}
      /\ view.page \in Nat \ {0}
  <2>1. view.page \in Nat \ {0}
    BY DEF ListingTypeOK
  <2>2. QED
    BY <2>1, FilteredPages, SizesAssumption
<1>2. CASE Filtered = <<>>
  <2>1. TotalPages = 1
    BY <1>2 DEF TotalPages
  <2>2. Rows(1) = <<>>
    <3>1. (1 - 1) * PAGE_SIZE = 0 /\ n = 0
      BY <1>1, <1>2
    <3>2. Rows(1) = SubSeq(Filtered, 0 + 1, 0)
      BY <1>1, <3>1 DEF Rows, Slice
    <3>3. QED
      BY <3>2, SubSeqEmpty
  <2>3. seqs \in [1 .. TotalPages -> Seq(Accounts)] /\ seqs[1] = <<>>
    <3>1. <<>> \in Seq(Accounts)
      OBVIOUS
    <3>2. 1 .. TotalPages = {1}
      BY <2>1
    <3>3. \A page \in 1 .. TotalPages : Rows(page) = <<>>
      BY <2>2, <3>2
    <3>4. seqs = [page \in 1 .. TotalPages |-> <<>>]
      BY <3>3
    <3> HIDE DEF seqs
    <3>5. QED
      BY <3>1, <3>2, <3>4
  <2> HIDE DEF seqs
  <2>4. FlattenSeq(seqs) = <<>>
    <3>1. PICK f : f[1] = seqs[1] /\ FlattenSeq(seqs) = f[TotalPages]
      BY <1>1, <2>3, FlattenRuns
    <3>2. QED
      BY <2>1, <2>3, <3>1
  <2>5. QED
    BY <1>2, <2>4 DEF PagesCoverList, seqs
<1>3. CASE Filtered # <<>>
  <2>1. n \in Nat \ {0}
    BY <1>1, <1>3
  <2>2. TotalPages = (n + PAGE_SIZE - 1) \div PAGE_SIZE
    BY <1>3 DEF TotalPages
  <2>3. /\ n <= (TotalPages - 1) * PAGE_SIZE + PAGE_SIZE
        /\ \A p \in 1 .. TotalPages : (p - 1) * PAGE_SIZE \in Nat /\ (p - 1) * PAGE_SIZE < n
    BY <1>1, <2>1, <2>2, PageCount
  <2>4. ASSUME NEW p \in 1 .. TotalPages
        PROVE  /\ Rows(p) = SubSeq(Filtered, (p - 1) * PAGE_SIZE + 1, end(p))
               /\ end(p) \in 1 .. n /\ (p - 1) * PAGE_SIZE < end(p)
               /\ Rows(p) \in Seq(Accounts) /\ Rows(p) # <<>>
    <3>1. Rows(p) = Slice(Filtered, PAGE_SIZE, (p - 1) * PAGE_SIZE)
      BY DEF Rows
    <3>2. Rows(p) = SubSeq(Filtered, (p - 1) * PAGE_SIZE + 1, end(p))
      BY <3>1 DEF Slice
    <3>3. (p - 1) * PAGE_SIZE \in Nat /\ (p - 1) * PAGE_SIZE < n
      BY <2>3
    <3>4. end(p) \in 1 .. n /\ (p - 1) * PAGE_SIZE < end(p)
      BY <1>1, <2>1, <3>3
    <3>5. Rows(p) \in Seq(Accounts) /\ Len(Rows(p)) # 0
      BY <1>1, <3>1, <3>3, SliceTakes
    <3>6. Rows(p) # <<>>
      BY <3>5
    <3>7. QED
      BY <3>2, <3>4, <3>5, <3>6
  <2>5. seqs \in [1 .. TotalPages -> Seq(Accounts)] /\ \A p \in 1 .. TotalPages : seqs[p] = Rows(p)
    BY <2>4
  <2>6. PICK f : /\ f[1] = seqs[1]
                 /\ \A p \in 2 .. TotalPages : f[p] = f[p - 1] \o seqs[p]
                 /\ FlattenSeq(seqs) = f[TotalPages]
    <3> HIDE DEF seqs
    <3>1. QED
      BY <1>1, <2>5, FlattenRuns
  <2> HIDE DEF seqs, n, end
  <2> DEFINE G == {k \in 0 .. TotalPages : k = 0 \/ f[k] = SubSeq(Filtered, 1, end(k))}
  <2>7. ASSUME NEW k \in 1 .. TotalPages, k - 1 \in G
        PROVE  k \in G
    <3>1. CASE k = 1
      <4>1. (k - 1) * PAGE_SIZE + 1 = 1
        BY <1>1, <3>1
      <4>2. QED
        BY <1>1, <2>4, <2>5, <2>6, <3>1, <4>1
    <3>2. CASE k # 1
      <4> DEFINE m == (k - 1) * PAGE_SIZE
      <4>1. PICK j \in 1 .. TotalPages : k = j + 1 /\ k - 1 = j /\ k \in 2 .. TotalPages
        <5>1. k - 1 \in 1 .. TotalPages /\ k = (k - 1) + 1 /\ k \in 2 .. TotalPages
          BY <1>1, <3>2
        <5>2. QED
          BY <5>1
      <4>2. end(j) = m
        <5>1. (j - 1) * PAGE_SIZE + PAGE_SIZE = m
          BY <1>1, <4>1, Offsets
        <5>2. m < n /\ m \in Nat
          BY <2>3
        <5>3. QED
          BY <5>1, <5>2 DEF end
      <4>3. f[j] = SubSeq(Filtered, 1, m)
        BY <2>7, <4>1, <4>2
      <4>4. f[k] = f[j] \o Rows(k)
        BY <2>5, <2>6, <4>1
      <4>5. /\ Rows(k) = SubSeq(Filtered, m + 1, end(k))
            /\ m \in 0 .. n /\ end(k) \in m .. n /\ 1 \in 1 .. n + 1
        <5>1. m \in Nat /\ m < n
          BY <2>3
        <5>2. QED
          BY <1>1, <2>4, <5>1
      <4> HIDE DEF m
      <4>6. f[k] = SubSeq(Filtered, 1, end(k))
        <5>1. m \in 1 - 1 .. n
          BY <4>5
        <5>2. QED
          BY <1>1, <4>3, <4>4, <4>5, <5>1, ConcatAdjacentSubSeq DEF n
      <4>7. QED
        BY <4>6
    <3>3. QED
      BY <3>1, <3>2
  <2>8. TotalPages \in G
    <3>1. 0 \in G
      BY <1>1
    <3> HIDE DEF G
    <3>2. \A k \in 0 .. TotalPages : k \in G
      BY <1>1, <2>7, <3>1, Rounds
    <3>3. QED
      BY <1>1, <3>2
  <2>9. end(TotalPages) = n
    BY <1>1, <2>3 DEF end
  <2>10. FlattenSeq(seqs) = Filtered
    <3>1. f[TotalPages] = SubSeq(Filtered, 1, n)
      BY <1>1, <2>8, <2>9
    <3>2. QED
      BY <1>1, <2>6, <3>1, SubSeqFull DEF n
  <2>11. CurrentPage \in 1 .. TotalPages
    BY <1>1 DEF CurrentPage
  <2>12. Rows(CurrentPage) # <<>>
    BY <2>4, <2>11
  <2>13. QED
    BY <2>10, <2>12 DEF PagesCoverList, seqs
<1>4. QED
  BY <1>2, <1>3

-----------------------------------------------------------------------------
(* The other actions                                                       *)

(* What is stored names everybody who was answered, once.                  *)
LEMMA Stored ==
  ASSUME ListingInv, Store
  PROVE  /\ cache' \in Seq(Accounts) /\ IsInjective(cache')
         /\ Range(cache') = UNION {Range(answers[r].rows) : r \in RoleCodes}
<1>1. \A r \in RoleCodes : answers[r].rows \in Seq(Accounts)
  BY DEF Store, ListingInv, ListingTypeOK
<1>2. cache' = Merged
  BY DEF Store
<1>3. QED
  BY <1>1, <1>2, MergedNames

LEMMA StoreInv ==
  ASSUME ListingInv, Store
  PROVE  ListingInv'
<1>1. /\ answers' = Null
      /\ steady' = [r \in RoleCodes |-> {}] /\ seen' = {}
      /\ UNCHANGED <<tables, reading>> /\ view' = view
  BY DEF Store
<1>2. ListingTypeOK'
  BY <1>1, Stored DEF ListingInv, ListingTypeOK, tables, reading
<1>3. FetchOnTrack' /\ ListedOnce'
  BY <1>1, Stored DEF FetchOnTrack, ListedOnce
<1>4. NewerIsOrder' /\ ReaderOnTrack' /\ PagesMissNobody'
  BY <1>1, TablesKept, ReaderKept
<1>5. QED
  BY <1>2, <1>3, <1>4 DEF ListingInv

LEMMA CollectInv ==
  ASSUME ListingInv, Collect
  PROVE  ListingInv'
<1>1. cache' = Null /\ UNCHANGED <<tables, reading, fetching>> /\ view' = view
  BY DEF Collect
<1>2. ListingTypeOK'
  BY <1>1 DEF ListingInv, ListingTypeOK, tables, reading, fetching
<1>3. NewerIsOrder' /\ ReaderOnTrack' /\ PagesMissNobody' /\ FetchOnTrack' /\ ListedOnce'
  BY <1>1, TablesKept, ReaderKept, FetchKept DEF ListedOnce
<1>4. QED
  BY <1>2, <1>3 DEF ListingInv

(* The page on display keeps to the pages there are, and changes nothing   *)
(* else.                                                                   *)
LEMMA ViewInv ==
  ASSUME ListingInv, UNCHANGED <<tables, reading, fetching, cache>>,
         view' # Null => view' \in [page : Nat \ {0}, match : Matches]
  PROVE  ListingInv'
<1>1. ListingTypeOK'
  BY DEF ListingInv, ListingTypeOK, tables, reading, fetching
<1>2. NewerIsOrder' /\ ReaderOnTrack' /\ PagesMissNobody' /\ FetchOnTrack' /\ ListedOnce'
  BY TablesKept, ReaderKept, FetchKept DEF ListingInv, ListedOnce
<1>3. QED
  BY <1>1, <1>2 DEF ListingInv

LEMMA TurnInv ==
  ASSUME ListingInv, view # Null, NEW page \in Nat \ {0}, Turn(page)
  PROVE  ListingInv'
<1>1. view \in [page : Nat \ {0}, match : Matches]
  BY DEF ListingInv, ListingTypeOK
<1>2. view' \in [page : Nat \ {0}, match : Matches]
  BY <1>1 DEF Turn
<1>3. QED
  BY <1>2, ViewInv DEF Turn

LEMMA PagesAreNumbers ==
  ASSUME ListingInv, view # Null
  PROVE  view.page \in Nat \ {0} /\ TotalPages \in Nat \ {0}
  BY FilteredPages DEF ListingInv, ListingTypeOK

-----------------------------------------------------------------------------
(* The steps, and the theorems                                             *)

LEMMA ListingStepInv ==
  ASSUME ListingInv, [ListingNext]_listingVars
  PROVE  ListingInv'
<1>1. ASSUME NEW a \in Accounts, Insert(a)
      PROVE  ListingInv'
  BY <1>1, InsertChanges, TablesChangeInv
<1>2. ASSUME NEW a \in Accounts, SoftDelete(a)
      PROVE  ListingInv'
  BY <1>2, SoftDeleteChanges, TablesChangeInv
<1>3. ASSUME NEW a \in Accounts, NEW r \in RoleCodes, AssignRole(a, r) \/ WithdrawRole(a, r)
      PROVE  ListingInv'
  BY <1>3, RoleChanges, TablesChangeInv
<1>4. ASSUME NEW r \in RoleCodes, ReaderBegins(r) \/ Settle(r)
      PROVE  ListingInv'
  BY <1>4, ReaderBeginsInv, SettleInv
<1>5. CASE ReadPage \/ ReaderEnds
  BY <1>5, ReadPageInv, ReaderEndsInv
<1>6. CASE Refetch
  BY <1>6, FetchInv DEF Refetch
<1>7. CASE Store \/ Collect
  BY <1>7, StoreInv, CollectInv
<1>8. CASE Mount
  <2>1. view' \in [page : Nat \ {0}, match : Matches]
    BY <1>8, MatchesAssumption DEF Mount
  <2>2. QED
    BY <1>8, <2>1, ViewInv DEF Mount
<1>9. CASE Leave
  BY <1>9, ViewInv DEF Leave
<1>10. ASSUME NEW match \in Matches, Filter(match)
       PROVE  ListingInv'
  <2>1. view' \in [page : Nat \ {0}, match : Matches]
    BY <1>10 DEF Filter
  <2>2. QED
    BY <1>10, <2>1, ViewInv DEF Filter
<1>11. CASE NextPage
  <2> DEFINE page == IF view.page < TotalPages THEN view.page + 1 ELSE TotalPages
  <2>1. view # Null /\ Turn(page)
    BY <1>11 DEF NextPage, Settled
  <2>2. page \in Nat \ {0}
    BY <2>1, PagesAreNumbers
  <2> HIDE DEF page
  <2>3. QED
    BY <2>1, <2>2, TurnInv
<1>12. CASE PreviousPage
  <2> DEFINE page == IF view.page > 1 THEN view.page - 1 ELSE 1
  <2>1. view # Null /\ Turn(page)
    BY <1>12 DEF PreviousPage, Settled
  <2>2. page \in Nat \ {0}
    BY <2>1, PagesAreNumbers
  <2> HIDE DEF page
  <2>3. QED
    BY <2>1, <2>2, TurnInv
<1>13. CASE UNCHANGED listingVars
  <2>1. UNCHANGED <<tables, reading, fetching, cache>> /\ view' = view
    BY <1>13 DEF listingVars
  <2>2. view' # Null => view' \in [page : Nat \ {0}, match : Matches]
    BY <2>1 DEF ListingInv, ListingTypeOK
  <2>3. QED
    BY <2>1, <2>2, ViewInv
<1>14. QED
  BY <1>1, <1>2, <1>3, <1>4, <1>5, <1>6, <1>7, <1>8, <1>9, <1>10, <1>11, <1>12, <1>13
     DEF ListingNext

(* Readers, fetches and changes of the tables may interleave in any way:   *)
(* whoever is due and not read yet is on a later page, and an answer given *)
(* names whoever was on its page until then.                               *)
THEOREM ListingInvariant == ListingSpec => []ListingInv
<1>1. ListingInit => ListingInv
  BY ListingInitInv
<1>2. ListingInv /\ [ListingNext]_listingVars => ListingInv'
  BY ListingStepInv
<1>3. QED
  BY <1>1, <1>2, PTL DEF ListingSpec

(* The tables, the reader, the fetch, the query cache and UsersPage hold   *)
(* what they should: the merged list is one of accounts, and the page      *)
(* number a positive one.                                                  *)
THEOREM ListingTypeCorrect == ListingSpec => []ListingTypeOK
<1>1. ListingInv => ListingTypeOK
  BY DEF ListingInv
<1>2. QED
  BY <1>1, ListingInvariant, PTL

(* An API client that reads ListByRole page after page with LIMIT and      *)
(* OFFSET, newest account first, misses nobody who kept the role, unless   *)
(* somebody ahead of them left the list meanwhile.                         *)
THEOREM ReaderMissesNobody == ListingSpec => []PagesMissNobody
<1>1. ListingInv => PagesMissNobody
  BY DEF ListingInv
<1>2. QED
  BY <1>1, ListingInvariant, PTL

(* listAllUsers merges the answers for the roles into a list that names an *)
(* account once, whatever roles it had when each was answered.             *)
THEOREM MergedOnce == ListingSpec => []ListedOnce
<1>1. ListingInv => ListedOnce
  BY DEF ListingInv
<1>2. QED
  BY <1>1, ListingInvariant, PTL

(* The pages of UsersPage, one after the other, are the filtered list, and *)
(* the one on display is not empty while the list is not.                  *)
THEOREM PagesAreTheList == ListingSpec => []PagesCoverList
<1>1. ListingTypeOK => PagesCoverList
  <2>1. CASE view = Null
    BY <2>1 DEF PagesCoverList
  <2>2. CASE view # Null
    BY <2>2, PagesCover
  <2>3. QED
    BY <2>1, <2>2
<1>2. QED
  BY <1>1, ListingTypeCorrect, PTL

(* Only the step that stores the merged list ends a fetch.                 *)
LEMMA OnlyStoreEnds ==
  ASSUME ListingInv, [ListingNext]_listingVars, answers # Null, answers' = Null
  PROVE  Store
<1>1. ASSUME NEW r \in RoleCodes, Settle(r)
      PROVE  FALSE
  <2>1. answers \in [RoleCodes -> Answers]
    BY DEF ListingInv, ListingTypeOK
  <2>2. PICK answer \in {Fulfilled(ListByRole(r, 1)), Failed} :
           answers' = [answers EXCEPT ![r] = answer]
    BY <1>1 DEF Settle
  <2>3. answers' \in [RoleCodes -> Answers]
    <3>1. answer \in Answers
      BY <2>2, AnswersGiven
    <3>2. QED
      BY <2>1, <2>2, <3>1
  <2>4. QED
    BY <2>3, NullAssumption
<1>2. QED
  BY <1>1 DEF ListingNext, listingVars, fetching, Insert, SoftDelete, AssignRole, WithdrawRole,
     Observe, ReaderBegins, ReadPage, ReaderEnds, Refetch, Fetch, Collect, Mount, Leave, Filter,
     NextPage, PreviousPage, Turn

(* Whoever was on the first page of a role from the start of a fetch until *)
(* its answer is on the merged list, unless that request failed; the       *)
(* failure of one request costs nobody on the page of another.             *)
THEOREM FetchDropsNobody == ListingSpec => NobodyDropped
<1>1. ListingInv /\ [ListingNext]_listingVars => MergeComplete
  <2> SUFFICES ASSUME ListingInv, [ListingNext]_listingVars, answers # Null, answers' = Null,
                      NEW r \in RoleCodes, answers[r] # Failed
               PROVE  steady[r] \subseteq Range(cache')
    BY DEF MergeComplete
  <2>1. Store
    BY OnlyStoreEnds
  <2>2. answers[r] # Pending
    BY <2>1 DEF Store
  <2>3. steady[r] \subseteq Range(answers[r].rows)
    BY <2>2 DEF ListingInv, FetchOnTrack
  <2>4. QED
    BY <2>1, <2>3, Stored
<1>2. QED
  BY <1>1, ListingInvariant, PTL DEF ListingSpec, NobodyDropped

(* The merged list names nobody who was deleted before the fetch began.    *)
THEOREM FetchRevivesNobody == ListingSpec => NobodyRevived
<1>1. ListingInv /\ [ListingNext]_listingVars
         => (answers # Null /\ answers' = Null => Range(cache') \subseteq seen)
  <2> SUFFICES ASSUME ListingInv, [ListingNext]_listingVars, answers # Null, answers' = Null
               PROVE  Range(cache') \subseteq seen
    OBVIOUS
  <2>1. \A r \in RoleCodes : Range(answers[r].rows) \subseteq seen
    BY DEF ListingInv, FetchOnTrack
  <2>2. QED
    BY <2>1, OnlyStoreEnds, Stored
<1>2. QED
  BY <1>1, ListingInvariant, PTL DEF ListingSpec, NobodyRevived
=============================================================================
