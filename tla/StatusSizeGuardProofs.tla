------------------------ MODULE StatusSizeGuardProofs ------------------------
(***************************************************************************)
(* What holds of the size guard for any limit, floor and label, and for    *)
(* lists of every length: what is stored fits, and nothing is dropped that *)
(* did not have to be.                                                     *)
(***************************************************************************)
EXTENDS StatusSizeGuard, UserOperationsProofs

-----------------------------------------------------------------------------
(* Dropping in two steps                                                   *)

\* The positions of a list are finitely many numbers.
LEMMA PositionsFinite ==
  ASSUME NEW T, NEW s \in Seq(T), NEW K \in SUBSET DOMAIN s
  PROVE  K \in SUBSET Nat /\ IsFiniteSet(K) /\ Cardinality(K) \in Nat
<1>1. DOMAIN s = 1 .. Len(s) /\ Len(s) \in Nat
  OBVIOUS
<1>2. IsFiniteSet(DOMAIN s)
  BY <1>1, FS_Interval
<1> QED
  BY <1>1, <1>2, FS_Subset, FS_CardinalityType

\* Ranks tell positions apart, and order them.
LEMMA RankOrders ==
  ASSUME NEW K \in SUBSET Nat, IsFiniteSet(K), NEW k \in K, NEW l \in K
  PROVE  /\ Rank(K, k) = Rank(K, l) => k = l
         /\ Rank(K, k) <= Rank(K, l) <=> k <= l
<1>1. Rank(K, k) \in Nat /\ Rank(K, l) \in Nat
  BY RankRange, FS_CardinalityType
<1>2. k < l => Rank(K, k) < Rank(K, l)
  BY RankGrows
<1>3. l < k => Rank(K, l) < Rank(K, k)
  BY RankGrows
<1>4. k \in Nat /\ l \in Nat
  OBVIOUS
<1> QED
  BY <1>1, <1>2, <1>3, <1>4

\* Keeping some of what was kept is keeping these at once.
LEMMA KeepKept ==
  ASSUME NEW T, NEW s \in Seq(T), NEW K \in SUBSET DOMAIN s, NEW L \in SUBSET K,
         NEW M, \A m : m \in M <=> \E k \in L : m = Rank(K, k)
  PROVE  Keep(Keep(s, K), M) = Keep(s, L)
<1> DEFINE t == Keep(s, K)
           f == [k \in L |-> Rank(K, k)]
<1>0. /\ K \in SUBSET Nat /\ IsFiniteSet(K) /\ Cardinality(K) \in Nat
      /\ L \in SUBSET Nat /\ IsFiniteSet(L) /\ Cardinality(L) \in Nat
      /\ L \in SUBSET DOMAIN s
  BY PositionsFinite
<1>1. t \in Seq(T) /\ DOMAIN t = 1 .. Cardinality(K)
  BY KeepProperties DEF Keep
<1> HIDE DEF t
<1>2. M \in SUBSET DOMAIN t
  BY <1>0, <1>1, RankRange
<1>3. M \in SUBSET Nat /\ IsFiniteSet(M)
  BY <1>1, <1>2, PositionsFinite
<1>4. f \in [L -> M] /\ \A m \in M : \E k \in L : f[k] = m
  OBVIOUS
<1>5. \A k, l \in L : f[k] = f[l] => k = l
  BY <1>0, RankOrders
<1>6. ASSUME NEW A \in SUBSET L
      PROVE  Cardinality({f[k] : k \in A}) = Cardinality(A)
  <2> DEFINE B == {f[k] : k \in A}
             g == [k \in A |-> f[k]]
  <2>1. IsFiniteSet(A)
    BY <1>0, FS_Subset
  <2>2. g \in [A -> B] /\ (\A k, l \in A : g[k] = g[l] => k = l)
        /\ \A m \in B : \E k \in A : g[k] = m
    BY <1>5
  <2> HIDE DEF B, g
  <2>3. g \in Bijection(A, B)
    BY <2>2 DEF Bijection, Injection, Surjection, IsInjective
  <2>4. \E h : h \in Bijection(A, B)
    BY <2>3
  <2>5. Cardinality(A) = Cardinality(B)
    BY <2>1, <2>3, <2>4, FS_Bijection DEF ExistsBijection
  <2> QED
    BY <2>5 DEF B
<1>7. Cardinality(M) = Cardinality(L)
  <2>1. M = {f[k] : k \in L}
    OBVIOUS
  <2> HIDE DEF f
  <2> QED
    BY <1>6, <2>1
<1>8. ASSUME NEW k \in L
      PROVE  Rank(M, f[k]) = Rank(L, k)
  <2> DEFINE A == {l \in L : l <= k}
  <2>1. \A l \in L : f[l] <= f[k] <=> l <= k
    BY <1>0, RankOrders
  <2>2. {i \in M : i <= f[k]} = {f[l] : l \in A}
    BY <2>1
  <2> HIDE DEF f
  <2>3. Cardinality({f[l] : l \in A}) = Cardinality(A)
    BY <1>6
  <2> QED
    BY <2>2, <2>3 DEF Rank
<1> HIDE DEF f
<1> DEFINE u == Keep(t, M)
           w == Keep(s, L)
           n == Cardinality(L)
<1>9. /\ DOMAIN u = 1 .. n /\ DOMAIN w = 1 .. n
      /\ u = [j \in 1 .. n |-> u[j]] /\ w = [j \in 1 .. n |-> w[j]]
  BY <1>7 DEF Keep
<1>10. ASSUME NEW j \in 1 .. n PROVE u[j] = w[j]
  <2>1. PICK k \in L : w[j] = s[k] /\ Rank(L, k) = j
    <3>1. \A i \in DOMAIN Keep(s, L) :
            \E k \in L : Keep(s, L)[i] = s[k] /\ Rank(L, k) = i
      BY <1>0, KeepProperties
    <3>2. j \in DOMAIN Keep(s, L)
      BY <1>9
    <3> QED
      BY <3>1, <3>2
  <2>2. PICK m \in M : u[j] = t[m] /\ Rank(M, m) = j
    <3>1. t \in Seq(T) /\ M \in SUBSET DOMAIN t
      BY <1>1, <1>2
    <3>2. \A i \in DOMAIN Keep(t, M) :
            \E m \in M : Keep(t, M)[i] = t[m] /\ Rank(M, m) = i
      BY <3>1, KeepProperties
    <3>3. j \in DOMAIN Keep(t, M)
      BY <1>9
    <3> QED
      BY <3>2, <3>3
  <2>3. PICK l \in L : f[l] = m
    BY <1>4
  <2>4. l = k
    <3>1. Rank(L, l) = Rank(L, k)
      BY <1>8, <2>1, <2>2, <2>3
    <3> QED
      BY <1>0, <3>1, RankOrders
  <2>5. PICK i \in K : t[m] = s[i] /\ Rank(K, i) = m
    BY <1>1, <1>2, KeepProperties DEF t
  <2>6. Rank(K, l) = m
    BY <2>3 DEF f
  <2>7. i = l
    BY <1>0, <2>5, <2>6, RankOrders
  <2> QED
    BY <2>1, <2>2, <2>4, <2>5, <2>7
<1> HIDE DEF u, w, n
<1>11. u = w
  BY <1>9, <1>10
<1> QED
  BY <1>11 DEF u, w, t

\* The operations the lists hold.
AnyOp == [state : {"pending", "complete", "failed"}, age : Nat]

\* What a cleanup leaves is a list of operations.
LEMMA AppliedTyped ==
  ASSUME NEW ops \in Seq(AnyOp), NEW age
  PROVE  AppliedTTL(ops, age) \in Seq(AnyOp)
BY KeepProperties DEF AppliedTTL, WithoutPositions

\* A cleanup and a stricter one drop what the stricter one drops by itself.
LEMMA AppliedTwice ==
  ASSUME NEW ops \in Seq(AnyOp), NEW a \in Nat, NEW b \in Nat, b <= a
  PROVE  AppliedTTL(AppliedTTL(ops, a), b) = AppliedTTL(ops, b)
<1> DEFINE Old(s, age) == {i \in InState(s, "complete") : s[i].age > age}
           K == DOMAIN ops \ Old(ops, a)
           L == DOMAIN ops \ Old(ops, b)
           t == Keep(ops, K)
           M == DOMAIN t \ Old(t, b)
<1>0. \A s, age : AppliedTTL(s, age) = Keep(s, DOMAIN s \ Old(s, age))
  BY DEF AppliedTTL, WithoutPositions
<1>1. K \in SUBSET DOMAIN ops /\ L \in SUBSET K
  <2>1. \A i \in DOMAIN ops : ops[i].age \in Nat
    <3>1. \A i \in DOMAIN ops : ops[i] \in AnyOp
      OBVIOUS
    <3> QED
      BY <3>1 DEF AnyOp
  <2>2. \A i \in DOMAIN ops : ops[i].age > a => ops[i].age > b
    BY <2>1
  <2> QED
    BY <2>2 DEF InState
<1>2. /\ K \in SUBSET Nat /\ IsFiniteSet(K)
      /\ t \in Seq(AnyOp) /\ DOMAIN t = 1 .. Cardinality(K)
  <2> HIDE DEF K
  <2> QED
    BY <1>1, PositionsFinite, KeepProperties, ZenonT(40) DEF Keep
<1>3. \A j \in DOMAIN t : \E k \in K : t[j] = ops[k] /\ Rank(K, k) = j
  <2> HIDE DEF K
  <2> QED
    BY <1>1, KeepProperties
<1>4. ASSUME NEW k \in K
      PROVE  Rank(K, k) \in DOMAIN t /\ t[Rank(K, k)] = ops[k]
  <2>1. Rank(K, k) \in DOMAIN t
    BY <1>2, RankRange
  <2>2. PICK l \in K : t[Rank(K, k)] = ops[l] /\ Rank(K, l) = Rank(K, k)
    BY <1>3, <2>1
  <2>3. l = k
    BY <1>2, <2>2, RankOrders
  <2> QED
    BY <2>1, <2>2, <2>3
<1>5. \A s : \A i \in DOMAIN s :
        i \in Old(s, b) <=> s[i].state = "complete" /\ s[i].age > b
  BY DEF InState
<1>6. \A i \in DOMAIN ops : i \in L <=> ~(ops[i].state = "complete" /\ ops[i].age > b)
  BY <1>5
<1>7. \A j \in DOMAIN t : j \in M <=> ~(t[j].state = "complete" /\ t[j].age > b)
  BY <1>5
<1> HIDE DEF K, L, t, M, Old
<1>8. \A j : j \in M <=> \E k \in L : j = Rank(K, k)
  <2>1. ASSUME NEW j \in M PROVE \E k \in L : j = Rank(K, k)
    <3>0. j \in DOMAIN t
      BY <2>1 DEF M
    <3>1. PICK k \in K : t[j] = ops[k] /\ Rank(K, k) = j
      BY <1>3, <3>0
    <3>2. k \in L
      BY <1>1, <1>6, <1>7, <2>1, <3>0, <3>1
    <3> QED
      BY <3>1, <3>2
  <2>2. ASSUME NEW k \in L PROVE Rank(K, k) \in M
    BY <1>1, <1>4, <1>6, <1>7
  <2> QED
    BY <2>1, <2>2
<1>9. Keep(t, M) = Keep(ops, L)
  BY <1>1, <1>8, KeepKept DEF t
<1> QED
  BY <1>0, <1>9 DEF K, L, t, M

-----------------------------------------------------------------------------
(* What is measured                                                        *)

\* Only the states of the operations count for the size.
LEMMA SizeOfStates ==
  ASSUME NEW s \in Seq(AnyOp), NEW t \in Seq(AnyOp), Len(s) = Len(t),
         \A i \in 1 .. Len(s) : s[i].state = t[i].state
  PROVE  Oversized(s) <=> Oversized(t)
<1>1. {i \in DOMAIN s : s[i].state # "pending"} = {i \in DOMAIN t : t[i].state # "pending"}
  OBVIOUS
<1> QED
  BY <1>1 DEF Oversized, statusPayloadBytes

\* No operations fit.
LEMMA NothingFits == ~Oversized(<<>>)
<1>1. {i \in DOMAIN <<>> : <<>>[i].state # "pending"} = {} /\ Len(<<>>) = 0
  OBVIOUS
<1>2. statusPayloadBytes(<<>>) = 0
  BY <1>1, FS_EmptySet DEF statusPayloadBytes
<1> QED
  BY <1>2, LimitsAssumption DEF Oversized

\* The lists are typed, and what is about to be written, and is written, fits.
Fitting ==
  /\ stored \in Seq(AnyOp) /\ draft \in Seq(AnyOp) /\ current \in Seq(AnyOp)
  /\ pc \in {"annotate", "write"} => ~Oversized(current)
  /\ ~Oversized(stored)

\* What the reconciler submits is a list of operations.
LEMMA SubmitTyped ==
  ASSUME Fitting, NEW ops \in Seq(AnyOp), Submit(ops)
  PROVE  Fitting'
BY DEF Fitting, Submit

\* Every step keeps what fits fitting.
LEMMA FittingKept ==
  ASSUME Fitting, [Next]_vars
  PROVE  Fitting'
<1>0. /\ stored \in Seq(AnyOp) /\ draft \in Seq(AnyOp) /\ current \in Seq(AnyOp)
      /\ Len(stored) \in Nat /\ DOMAIN stored = 1 .. Len(stored)
      /\ \A i \in DOMAIN stored : stored[i] \in AnyOp
  BY DEF Fitting
<1>1. ASSUME Plan PROVE Fitting'
  <2>1. PICK n \in 1 .. MaxBatch :
          Submit(stored \o [i \in 1 .. n |-> [state |-> "pending", age |-> 0]])
    BY <1>1 DEF Plan
  <2> DEFINE new == [i \in 1 .. n |-> [state |-> "pending", age |-> 0]]
  <2>2. [state |-> "pending", age |-> 0] \in AnyOp /\ n \in Nat
    BY BoundsAssumption DEF AnyOp
  <2>3. new \in Seq(AnyOp)
    BY <2>2
  <2> HIDE DEF new
  <2>4. stored \o new \in Seq(AnyOp)
    BY <1>0, <2>3
  <2>5. Submit(stored \o new)
    BY <2>1 DEF new
  <2> QED
    BY <2>4, <2>5, SubmitTyped
<1>2. ASSUME Execute PROVE Fitting'
  <2>1. PICK failing :
          Submit([i \in DOMAIN stored |->
                    IF stored[i].state # "pending" THEN stored[i]
                    ELSE [state |-> IF i \in failing THEN "failed" ELSE "complete",
                          age |-> 0]])
    BY <1>2 DEF Execute
  <2> DEFINE outcome(i) == IF stored[i].state # "pending" THEN stored[i]
                           ELSE [state |-> IF i \in failing THEN "failed" ELSE "complete",
                                 age |-> 0]
             done == [i \in DOMAIN stored |-> outcome(i)]
  <2>2. \A i \in DOMAIN stored : outcome(i) \in AnyOp
    BY <1>0 DEF AnyOp
  <2>3. Submit(done)
    BY <2>1
  <2> HIDE DEF outcome
  <2>4. done \in [1 .. Len(stored) -> AnyOp]
    BY <1>0, <2>2
  <2> HIDE DEF done
  <2>5. done \in Seq(AnyOp)
    <3>1. Len(stored) \in Nat
      BY <1>0
    <3> QED
      BY <2>4, <3>1
  <2> QED
    BY <2>3, <2>5, SubmitTyped
<1>3. ASSUME Clean PROVE Fitting'
  BY <1>0, <1>3, AppliedTyped, SubmitTyped DEF Clean
<1>e. <<>> \in Seq(AnyOp)
  OBVIOUS
<1>4. ASSUME NEW ops \in Seq(AnyOp), ~Oversized(ops), Save(ops) PROVE Fitting'
  BY <1>0, <1>e, <1>4 DEF Save, Return, Fitting
<1>5. ASSUME Guard PROVE Fitting'
  <2>1. ASSUME WriteAsItIs PROVE Fitting'
    BY <1>0, <1>4, <2>1 DEF WriteAsItIs
  <2>2. ASSUME RefuseWithoutTTL \/ GiveUp PROVE Fitting'
    BY <1>e, <2>2 DEF RefuseWithoutTTL, GiveUp, Return, Fitting
  <2>3. ASSUME StartShrinking PROVE Fitting'
    BY <2>3 DEF StartShrinking, Fitting
  <2>4. ASSUME Shrink PROVE Fitting'
    BY <1>0, <2>4, AppliedTyped DEF Shrink, Fitting
  <2>5. ASSUME Fits PROVE Fitting'
    BY <2>5 DEF Fits, Fitting, call
  <2>6. ASSUME Annotate PROVE Fitting'
    BY <2>6 DEF Annotate, Fitting, call
  <2>7. ASSUME WriteShrunk PROVE Fitting'
    BY <1>0, <1>4, <2>7 DEF WriteShrunk, Fitting
  <2> QED
    BY <1>5, <2>1, <2>2, <2>3, <2>4, <2>5, <2>6, <2>7 DEF Guard
<1>6. ASSUME Age PROVE Fitting'
  <2> DEFINE older(i) == IF stored[i].state = "complete" /\ stored[i].age < Oldest
                         THEN [stored[i] EXCEPT !.age = @ + 1] ELSE stored[i]
  <2>1. stored' = [i \in DOMAIN stored |-> older(i)]
    BY <1>6 DEF Age
  <2>2. \A i \in DOMAIN stored : older(i) \in AnyOp /\ older(i).state = stored[i].state
    BY <1>0 DEF AnyOp
  <2> HIDE DEF older
  <2>3. stored' \in [1 .. Len(stored) -> AnyOp]
    BY <1>0, <2>1, <2>2
  <2>4. stored' \in Seq(AnyOp) /\ Len(stored') = Len(stored)
    <3>1. \A n \in Nat : \A f \in [1 .. n -> AnyOp] : f \in Seq(AnyOp) /\ Len(f) = n
      OBVIOUS
    <3> QED
      BY <1>0, <2>3, <3>1
  <2>5. \A i \in 1 .. Len(stored') : stored'[i].state = stored[i].state
    BY <1>0, <2>1, <2>2, <2>4
  <2>6. ~Oversized(stored')
    <3>1. ~Oversized(stored)
      BY DEF Fitting
    <3> QED
      BY <1>0, <2>4, <2>5, <3>1, SizeOfStates
  <2>7. UNCHANGED <<draft, current, pc>>
    BY <1>6 DEF Age, call
  <2>8. Oversized(stored)' <=> Oversized(stored')
    BY DEF Oversized, statusPayloadBytes
  <2>9. Oversized(current)' <=> Oversized(current)
    BY <2>7 DEF Oversized, statusPayloadBytes
  <2> QED
    BY <2>4, <2>6, <2>7, <2>8, <2>9 DEF Fitting
<1>7. ASSUME EditLabel \/ UNCHANGED vars PROVE Fitting'
  BY <1>7 DEF EditLabel, vars, call, Fitting
<1> QED
  BY <1>1, <1>2, <1>3, <1>5, <1>6, <1>7 DEF Next

\* Nothing is stored at first.
LEMMA StartsFitting == Init => Fitting
BY NothingFits DEF Init, Fitting

\* What reaches the API server fits below the limit, whatever the label says
\* and however the operations grow and age: a status that is too large is
\* shrunk until it fits, or not written.
THEOREM WhatIsStoredFits == Spec => []StoredFits
BY StartsFitting, FittingKept, PTL DEF Spec, Fitting, StoredFits

-----------------------------------------------------------------------------
(* Nothing is dropped that did not have to be                              *)

\* The ages a halving of `age' may end at.
Ages(age) == 0 .. (IF age < Floor THEN Floor ELSE age)

\* A set of ages that the halving of `age' does not leave.
Closed(S, age) ==
  Halved(age) \in S /\ \A a \in S : a > Floor => Halved(a) \in S

\* Half an age.
LEMMA HalvedBounds ==
  ASSUME NEW age \in Nat
  PROVE  /\ Halved(age) \in Nat /\ Halved(age) >= Floor
         /\ age >= Floor => Halved(age) <= age
         /\ Halved(age) \in Ages(age)
<1>1. age \div 2 \in Nat /\ age \div 2 <= age
  OBVIOUS
<1> QED
  BY <1>1, LimitsAssumption DEF Halved, Ages

\* The halvings of an age are in every set closed under halving, and they
\* are such a set themselves.
LEMMA HalvingsLeast ==
  ASSUME NEW age \in Nat
  PROVE  /\ Halvings(age) \subseteq Ages(age)
         /\ \A S \in SUBSET Ages(age) : Closed(S, age) => Halvings(age) \subseteq S
         /\ Closed(Halvings(age), age)
<1>1. Halvings(age) = {t \in Ages(age) : \A S \in SUBSET Ages(age) : Closed(S, age) => t \in S}
  BY DEF Halvings, Ages, Closed
<1>2. Halved(age) \in Halvings(age)
  BY <1>1, HalvedBounds DEF Closed
<1>3. ASSUME NEW a \in Halvings(age), a > Floor
      PROVE  Halved(a) \in Halvings(age)
  <2>1. a \in Ages(age) /\ \A S \in SUBSET Ages(age) : Closed(S, age) => a \in S
    BY <1>1
  <2>2. Halved(a) \in Ages(age)
    <3>1. a \in Nat /\ \A b \in Nat : b <= a => b \in Ages(age)
      BY <2>1, LimitsAssumption DEF Ages
    <3>2. a >= Floor
      BY <1>3, <3>1, LimitsAssumption
    <3> QED
      BY <3>1, <3>2, HalvedBounds
  <2>3. \A S \in SUBSET Ages(age) : Closed(S, age) => Halved(a) \in S
    BY <1>3, <2>1 DEF Closed
  <2> QED
    BY <1>1, <2>2, <2>3
<1> QED
  BY <1>1, <1>2, <1>3 DEF Closed

\* No halving is shorter than the floor, or longer than the first.
LEMMA HalvingsBounds ==
  ASSUME NEW age \in Nat
  PROVE  \A t \in Halvings(age) : t \in Nat /\ Floor <= t /\ t <= Halved(age)
<1> DEFINE S == {t \in Ages(age) : Floor <= t /\ t <= Halved(age)}
<1>1. Ages(age) \subseteq Nat /\ Floor \in Nat
  BY LimitsAssumption DEF Ages
<1>2. Halved(age) \in S
  BY <1>1, HalvedBounds
<1>3. ASSUME NEW a \in S, a > Floor PROVE Halved(a) \in S
  <2>1. a \in Nat /\ a <= Halved(age) /\ Halved(age) \in Nat
    BY <1>1, HalvedBounds
  <2>2. Halved(a) \in Nat /\ Halved(a) >= Floor /\ Halved(a) <= a
    BY <1>1, <1>3, <2>1, HalvedBounds
  <2>3. \A b \in Nat : b <= Halved(age) => b \in Ages(age)
    BY <2>1, HalvedBounds, LimitsAssumption DEF Ages
  <2> QED
    BY <1>1, <2>1, <2>2, <2>3
<1>4. Closed(S, age)
  BY <1>2, <1>3 DEF Closed
<1>5. S \in SUBSET Ages(age)
  OBVIOUS
<1>6. Halvings(age) \subseteq S
  BY <1>4, <1>5, HalvingsLeast
<1> QED
  BY <1>1, <1>6

\* The halvings longer than t are halved to no less than t: t is the next.
Down(age, t) ==
  t \in Halvings(age) /\ \A a \in Halvings(age) : a > t => Halved(a) >= t

\* Halving passes over no halving.
LEMMA NextHalving ==
  ASSUME NEW age \in Nat, NEW t \in Nat, Down(age, t)
  PROVE  /\ Down(age, Halved(t))
         /\ \A a \in Halvings(age) : a > Halved(t) => a >= t
<1> DEFINE H == Halvings(age)
           next == Halved(t)
           S == {a \in Ages(age) : (a \in H /\ a >= t) \/ a <= next}
<1>0. /\ t \in H /\ \A a \in H : a \in Nat /\ a > t => Halved(a) >= t
      /\ Floor \in Nat /\ Ages(age) \subseteq Nat /\ Floor <= t
      /\ H \subseteq Ages(age) /\ H \subseteq Nat
  BY HalvingsBounds, HalvingsLeast, LimitsAssumption DEF Down, Ages
<1>1. next \in Nat /\ Floor <= next /\ next <= t
  BY <1>0, HalvedBounds
<1>2. Halved(age) \in H /\ Halved(age) >= t /\ Halved(age) \in Ages(age)
  BY <1>0, HalvingsBounds, HalvingsLeast DEF Closed
<1>3. \A b \in Nat : b <= t => b \in Ages(age)
  BY <1>0 DEF Ages
<1>4. next \in H
  <2>1. CASE t > Floor
    BY <1>0, <2>1, HalvingsLeast DEF Closed
  <2>2. CASE t = Floor
    <3>1. next = t
      BY <1>0, <1>1, <2>2
    <3> QED
      BY <1>0, <3>1
  <2> QED
    BY <1>0, <2>1, <2>2
<1>5. ASSUME NEW a \in S, a > Floor PROVE Halved(a) \in S
  <2>0. a \in Nat /\ Halved(a) \in Nat
    BY <1>0, HalvedBounds
  <2>1. CASE a \in H /\ a > t
    <3>1. Halved(a) \in H
      BY <1>5, <2>1, HalvingsLeast DEF Closed
    <3> QED
      BY <1>0, <2>0, <2>1, <3>1
  <2>2. CASE a = t
    BY <1>1, <1>3, <2>2
  <2>3. CASE a <= next
    <3>1. Halved(a) <= a
      BY <1>0, <1>5, <2>0, HalvedBounds
    <3>2. Halved(a) <= next /\ Halved(a) <= t
      BY <1>0, <1>1, <2>0, <2>3, <3>1
    <3> QED
      BY <1>3, <2>0, <3>2
  <2> QED
    BY <1>0, <1>1, <2>0, <2>1, <2>2, <2>3
<1>6. Closed(S, age)
  BY <1>2, <1>5 DEF Closed
<1>7. S \in SUBSET Ages(age)
  OBVIOUS
<1>8. H \subseteq S
  BY <1>6, <1>7, HalvingsLeast
<1>9. ASSUME NEW a \in H, a > next PROVE a >= t
  BY <1>0, <1>1, <1>8, <1>9
<1>10. ASSUME NEW a \in H, a > next PROVE Halved(a) >= next
  <2>1. a \in Nat /\ a >= t /\ Halved(a) \in Nat
    BY <1>0, <1>9, <1>10, HalvedBounds
  <2>2. CASE a = t
    BY <1>1, <2>2
  <2>3. CASE a > t
    BY <1>0, <1>1, <2>1, <2>3
  <2> QED
    BY <1>0, <2>1, <2>2, <2>3
<1> QED
  BY <1>4, <1>9, <1>10 DEF Down

\* How far the shrinking has got: what is left of the draft is what one
\* cleanup would leave, and every longer TTL would leave too much.
Shrunk ==
  /\ current = AppliedTTL(draft, ttl) /\ ttl \in Nat /\ Down(label, ttl)
  /\ \A t \in Halvings(label) : t > ttl => Oversized(AppliedTTL(draft, t))

Shrinking ==
  /\ label \in Nat
  /\ pc \in {"shrink", "annotate", "write"} =>
       \/ Shrunk
       \/ pc = "shrink" /\ Oversized(draft) /\ current = draft /\ ttl = label

\* Shrinking goes on as it should.
LEMMA ShrinkingKept ==
  ASSUME Fitting, Shrinking, [Next]_vars
  PROVE  Shrinking'
<1>1. ASSUME NEW ops, Submit(ops) PROVE Shrinking'
  BY <1>1 DEF Submit, Shrinking
<1>2. ASSUME Plan \/ Execute \/ Clean PROVE Shrinking'
  BY <1>1, <1>2 DEF Plan, Execute, Clean
<1>3. ASSUME Return, UNCHANGED label PROVE Shrinking'
  BY <1>3 DEF Return, Shrinking
<1>4. ASSUME WriteAsItIs \/ RefuseWithoutTTL \/ GiveUp \/ WriteShrunk PROVE Shrinking'
  BY <1>3, <1>4 DEF WriteAsItIs, RefuseWithoutTTL, GiveUp, WriteShrunk, Save
<1>5. ASSUME StartShrinking PROVE Shrinking'
  <2>1. Oversized(draft)' <=> Oversized(draft)
    BY <1>5 DEF StartShrinking, Oversized, statusPayloadBytes
  <2> QED
    BY <1>5, <2>1 DEF StartShrinking, Shrinking
<1>6. ASSUME Shrink PROVE Shrinking'
  <2>0. /\ pc = "shrink" /\ Oversized(current) /\ label \in Nat /\ draft \in Seq(AnyOp)
        /\ ttl' = Halved(ttl) /\ current' = AppliedTTL(current, ttl')
        /\ UNCHANGED <<draft, label, pc>>
    BY <1>6 DEF Shrink, Shrinking, Fitting
  <2>1. ASSUME NEW t, current' = AppliedTTL(draft, t), t \in Nat, Down(label, t), ttl' = t,
               \A a \in Halvings(label) : a > t => Oversized(AppliedTTL(draft, a))
        PROVE  Shrinking'
    <3>1. /\ current' = AppliedTTL(draft', ttl') /\ ttl' \in Nat /\ Down(label', ttl')
          /\ \A a \in Halvings(label') : a > ttl' => Oversized(AppliedTTL(draft', a))
      BY <2>0, <2>1
    <3>2. Shrunk'
      BY <3>1 DEF Shrunk, AppliedTTL, Down, Halvings, Oversized, statusPayloadBytes
    <3> QED
      BY <2>0, <3>2 DEF Shrinking
  <2>2. CASE Shrunk
    <3> DEFINE t == Halved(ttl)
    <3>1. ttl \in Nat /\ Down(label, ttl) /\ current = AppliedTTL(draft, ttl) /\ Floor <= ttl
      BY <2>0, <2>2, HalvingsBounds DEF Shrunk, Down
    <3>2. t \in Nat /\ t <= ttl
      BY <3>1, HalvedBounds
    <3>3. Down(label, t) /\ \A a \in Halvings(label) : a > t => a >= ttl
      BY <2>0, <3>1, NextHalving
    <3> HIDE DEF t
    <3>4. AppliedTTL(current, t) = AppliedTTL(draft, t)
      BY <2>0, <3>1, <3>2, AppliedTwice
    <3>5. ASSUME NEW a \in Halvings(label), a > t PROVE Oversized(AppliedTTL(draft, a))
      <4>1. a \in Nat /\ a >= ttl
        BY <2>0, <3>3, <3>5, HalvingsBounds
      <4>2. CASE a = ttl
        BY <2>0, <3>1, <4>2
      <4>3. CASE a > ttl
        BY <2>2, <4>3 DEF Shrunk
      <4> QED
        BY <3>1, <4>1, <4>2, <4>3
    <3>6. ttl' = t /\ current' = AppliedTTL(draft, t)
      BY <2>0, <3>4 DEF t
    <3> QED
      BY <2>1, <3>2, <3>3, <3>5, <3>6
  <2>3. CASE current = draft /\ ttl = label
    <3> DEFINE t == Halved(label)
    <3>1. t \in Nat /\ t \in Halvings(label) /\ \A a \in Halvings(label) : a \in Nat /\ a <= t
      BY <2>0, HalvedBounds, HalvingsBounds, HalvingsLeast DEF Closed
    <3>2. ttl' = t /\ current' = AppliedTTL(draft, t)
      BY <2>0, <2>3
    <3> HIDE DEF t
    <3>3. \A a \in Halvings(label) : ~(a > t)
      BY <3>1
    <3> QED
      BY <2>1, <3>1, <3>2, <3>3 DEF Down
  <2> QED
    BY <2>0, <2>2, <2>3 DEF Shrinking
<1>7. ASSUME UNCHANGED <<draft, current, ttl, label>>,
             \/ pc' = pc
             \/ pc = "shrink" /\ ~Oversized(current)
             \/ pc = "annotate"
      PROVE  Shrinking'
  <2>1. Shrunk => Shrunk'
    BY <1>7 DEF Shrunk, AppliedTTL, Down, Halvings, Oversized, statusPayloadBytes
  <2>2. Oversized(draft) => Oversized(draft)'
    BY <1>7 DEF Oversized, statusPayloadBytes
  <2> QED
    BY <1>7, <2>1, <2>2 DEF Shrinking
<1>8. ASSUME Fits \/ Annotate \/ Age \/ UNCHANGED vars PROVE Shrinking'
  BY <1>7, <1>8 DEF Fits, Annotate, Age, vars, call
<1>9. ASSUME EditLabel PROVE Shrinking'
  BY <1>9, LabelsAssumption DEF EditLabel, Shrinking
<1> QED
  BY <1>2, <1>4, <1>5, <1>6, <1>8, <1>9 DEF Next, Guard

\* The step of DropsLeast.
DropsNoMore ==
  pc # "idle" /\ stored' # stored /\ Oversized(draft)
  => LET good == {t \in Halvings(label) : ~Oversized(AppliedTTL(draft, t))}
     IN  /\ good # {} /\ \A t \in good : t >= Floor
         /\ stored' = AppliedTTL(draft, Max(good))

\* What is written in place of a draft that was too large.
LEMMA DropsNoMoreStep ==
  ASSUME Fitting, Shrinking, [Next]_vars
  PROVE  DropsNoMore
<1> SUFFICES ASSUME pc # "idle", stored' # stored, Oversized(draft)
             PROVE  LET good == {t \in Halvings(label) : ~Oversized(AppliedTTL(draft, t))}
                    IN  /\ good # {} /\ \A t \in good : t >= Floor
                        /\ stored' = AppliedTTL(draft, Max(good))
  BY DEF DropsNoMore
<1>1. pc = "write" /\ stored' = current
  BY DEF Next, Plan, Execute, Clean, Submit, Guard, WriteAsItIs, RefuseWithoutTTL,
         StartShrinking, Shrink, GiveUp, Fits, Annotate, WriteShrunk, Save, Age, EditLabel,
         vars
<1>2. Shrunk /\ ~Oversized(current) /\ label \in Nat
  BY <1>1 DEF Shrinking, Fitting
<1> DEFINE good == {t \in Halvings(label) : ~Oversized(AppliedTTL(draft, t))}
<1>3. ttl \in good /\ stored' = AppliedTTL(draft, ttl) /\ ttl \in Nat
  BY <1>1, <1>2 DEF Shrunk, Down
<1>4. \A t \in good : t \in Nat /\ t >= Floor /\ ~(t > ttl)
  BY <1>2, HalvingsBounds, LimitsAssumption DEF Shrunk
<1> HIDE DEF good
<1>5. \A t \in good : ttl >= t
  BY <1>3, <1>4
<1>6. Max(good) = ttl
  <2>1. Max(good) \in good /\ \A t \in good : Max(good) >= t
    BY <1>3, <1>5 DEF Max
  <2> DEFINE m == Max(good)
  <2> HIDE DEF m
  <2>2. m \in good /\ m >= ttl
    BY <1>3, <2>1 DEF m
  <2>3. m \in Nat /\ ttl >= m
    BY <1>4, <1>5, <2>2
  <2>4. m = ttl
    BY <1>3, <2>2, <2>3
  <2> QED
    BY <2>4 DEF m
<1> QED
  BY <1>3, <1>4, <1>6 DEF good

\* A status that was too large loses exactly what one cleanup drops with the
\* longest TTL that suffices, of those the halving of the label's runs
\* through: although operations are dropped halving by halving, none goes
\* that a longer TTL could have spared, and none younger than the floor.
THEOREM NothingDroppedInVain == Spec => DropsLeast
<1>1. Init => Shrinking
  BY LabelsAssumption DEF Init, Shrinking
<1>2. Fitting /\ Shrinking /\ [Next]_vars => [DropsNoMore]_vars
  BY DropsNoMoreStep
<1> QED
  BY <1>1, <1>2, StartsFitting, FittingKept, ShrinkingKept, PTL
  DEF Spec, DropsLeast, DropsNoMore
=============================================================================
