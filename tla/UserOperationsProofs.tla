------------------------ MODULE UserOperationsProofs ------------------------
(***************************************************************************)
(* Facts about the operation lists of UserOperations, for lists of every   *)
(* length: what dropping expired operations keeps, and what the lists of   *)
(* newly queued operations look like.                                      *)
(***************************************************************************)
EXTENDS UserOperations, FiniteSetTheorems, TLAPS

-----------------------------------------------------------------------------
(* Dropping operations                                                     *)

\* The rank of a position counts it among the kept ones.
LEMMA RankRange ==
  ASSUME NEW K \in SUBSET Nat, IsFiniteSet(K), NEW k \in K
  PROVE  Rank(K, k) \in 1 .. Cardinality(K)
<1> DEFINE B == {i \in K : i <= k}
<1>1. B \in SUBSET K /\ k \in B
  OBVIOUS
<1>2. /\ IsFiniteSet(B)
      /\ Cardinality(B) <= Cardinality(K)
  BY <1>1, FS_Subset
<1>3. Cardinality(B) \in Nat /\ Cardinality(K) \in Nat
  BY <1>2, FS_CardinalityType
<1>4. Cardinality(B) # 0
  BY <1>1, <1>2, FS_EmptySet
<1> QED
  BY <1>2, <1>3, <1>4 DEF Rank

\* Ranks grow with the positions.
LEMMA RankGrows ==
  ASSUME NEW K \in SUBSET Nat, IsFiniteSet(K), NEW k \in K, NEW l \in K,
         k < l
  PROVE  Rank(K, k) < Rank(K, l)
<1> DEFINE B == {i \in K : i <= k}
           C == {i \in K : i <= l}
<1>1. B \in SUBSET C /\ C \in SUBSET K /\ l \in C /\ l \notin B
  <2>1. \A i \in K : i \in Nat
    OBVIOUS
  <2>2. \A i \in K : i <= k => i <= l
    BY <2>1
  <2>3. l <= l /\ ~(l <= k)
    BY <2>1
  <2> QED
    BY <2>2, <2>3
<1>2. IsFiniteSet(C)
  BY <1>1, FS_Subset
<1>3. /\ Cardinality(B) <= Cardinality(C)
      /\ Cardinality(C) = Cardinality(B) => C = B
      /\ IsFiniteSet(B)
  BY <1>1, <1>2, FS_Subset
<1>4. Cardinality(B) \in Nat /\ Cardinality(C) \in Nat
  BY <1>2, <1>3, FS_CardinalityType
<1> QED
  BY <1>1, <1>3, <1>4 DEF Rank

\* Every number up to the number of kept positions is the rank of one.
LEMMA RankOnto ==
  ASSUME NEW K \in SUBSET Nat, IsFiniteSet(K), NEW j \in 1 .. Cardinality(K)
  PROVE  \E k \in K : Rank(K, k) = j
<1> DEFINE n == Cardinality(K)
           f == [k \in K |-> Rank(K, k)]
<1>1. n \in Nat
  BY FS_CardinalityType
<1>2. f \in [K -> 1 .. n]
  BY RankRange
<1>3. \A k, l \in K : f[k] = f[l] => k = l
  <2> SUFFICES ASSUME NEW k \in K, NEW l \in K, Rank(K, k) = Rank(K, l), k # l
               PROVE  FALSE
    OBVIOUS
  <2>1. Rank(K, k) \in Int /\ Rank(K, l) \in Int
    BY RankRange, <1>1
  <2>2. CASE k < l
    BY <2>1, <2>2, RankGrows
  <2>3. CASE l < k
    BY <2>1, <2>3, RankGrows
  <2> QED
    BY <2>2, <2>3
<1>4. f \in Injection(K, 1 .. n)
  BY <1>2, <1>3 DEF Injection, IsInjective
<1>5. IsFiniteSet(1 .. n) /\ Cardinality(1 .. n) = n
  BY <1>1, FS_Interval
<1>6. f \in Surjection(K, 1 .. n)
  BY <1>4, <1>5, FS_Injection
<1> QED
  BY <1>6 DEF Surjection

\* What Keep returns: the elements at the kept positions, each one once.
LEMMA KeepProperties ==
  ASSUME NEW T, NEW s \in Seq(T), NEW K \in SUBSET DOMAIN s
  PROVE  /\ Keep(s, K) \in Seq(T)
         /\ \A j \in DOMAIN Keep(s, K) :
              \E k \in K : Keep(s, K)[j] = s[k] /\ Rank(K, k) = j
         /\ \A k \in K : \E j \in DOMAIN Keep(s, K) : Keep(s, K)[j] = s[k]
<1> DEFINE n == Cardinality(K)
           pick(j) == CHOOSE k \in K : Rank(K, k) = j
<1>1. K \in SUBSET Nat /\ IsFiniteSet(K)
  <2>1. DOMAIN s = 1 .. Len(s) /\ Len(s) \in Nat
    OBVIOUS
  <2>2. IsFiniteSet(DOMAIN s)
    BY <2>1, FS_Interval
  <2> QED
    BY <2>1, <2>2, FS_Subset
<1>2. n \in Nat
  BY <1>1, FS_CardinalityType
<1>3. \A j \in 1 .. n : pick(j) \in K /\ Rank(K, pick(j)) = j
  BY <1>1, RankOnto
<1>4. \A k \in K : s[k] \in T
  OBVIOUS
<1>5. /\ Keep(s, K) = [j \in 1 .. n |-> s[pick(j)]]
      /\ DOMAIN Keep(s, K) = 1 .. n
  BY DEF Keep
<1>6. Keep(s, K) \in Seq(T)
  <2>1. \A j \in 1 .. n : s[pick(j)] \in T
    BY <1>3, <1>4
  <2>2. [j \in 1 .. n |-> s[pick(j)]] \in [1 .. n -> T]
    BY <2>1
  <2> HIDE DEF n, pick
  <2> QED
    BY <1>2, <1>5, <2>2
<1>7. ASSUME NEW j \in DOMAIN Keep(s, K)
      PROVE  \E k \in K : Keep(s, K)[j] = s[k] /\ Rank(K, k) = j
  <2>1. j \in 1 .. n /\ Keep(s, K)[j] = s[pick(j)]
    BY <1>5
  <2> QED
    BY <1>3, <2>1
<1>8. ASSUME NEW k \in K
      PROVE  \E j \in DOMAIN Keep(s, K) : Keep(s, K)[j] = s[k]
  <2>1. Rank(K, k) \in 1 .. n
    BY <1>1, RankRange
  <2>2. pick(Rank(K, k)) = k
    <3> DEFINE l == pick(Rank(K, k))
    <3>1. l \in K /\ Rank(K, l) = Rank(K, k)
      BY <1>3, <2>1
    <3>2. Rank(K, k) \in Int
      BY <1>2, <2>1
    <3>3. ~(l < k) /\ ~(k < l)
      BY <1>1, <3>1, <3>2, RankGrows
    <3> HIDE DEF l
    <3> QED
      BY <1>1, <3>1, <3>3
  <2>3. Keep(s, K)[Rank(K, k)] = s[pick(Rank(K, k))]
    BY <1>5, <2>1
  <2> QED
    BY <1>5, <2>1, <2>2, <2>3
<1> QED
  BY <1>6, <1>7, <1>8

\* Dropping operations leaves at most one live operation of a type and user.
LEMMA KeepOneLive ==
  ASSUME NEW Users, NEW ops \in Seq(Operation(Users)),
         NEW K \in SUBSET DOMAIN ops, OneLive(ops)
  PROVE  OneLive(Keep(ops, K))
<1> DEFINE kept == Keep(ops, K)
<1>1. \A j \in DOMAIN kept :
        \E k \in K : kept[j] = ops[k] /\ Rank(K, k) = j
  BY KeepProperties
<1> SUFFICES ASSUME NEW i \in DOMAIN kept, NEW j \in DOMAIN kept, i # j,
                    kept[i].operation = kept[j].operation,
                    kept[i].user = kept[j].user
             PROVE  \/ kept[i].state \notin Suppressing(kept[i].operation)
                    \/ kept[j].state \notin Suppressing(kept[j].operation)
  BY DEF OneLive
<1>2. PICK k \in K : kept[i] = ops[k] /\ Rank(K, k) = i
  BY <1>1
<1>3. PICK l \in K : kept[j] = ops[l] /\ Rank(K, l) = j
  BY <1>1
<1>4. k # l /\ k \in DOMAIN ops /\ l \in DOMAIN ops
  BY <1>2, <1>3
<1> HIDE DEF kept
<1> QED
  BY <1>2, <1>3, <1>4 DEF OneLive

-----------------------------------------------------------------------------
(* Settling operations                                                     *)

\* Completing the pending operations changes no user and no type, and
\* leaves none pending.
LEMMA CompletePendingProperties ==
  ASSUME NEW Users, NEW ops \in Seq(Operation(Users))
  PROVE  /\ CompletePending(ops) \in Seq(Operation(Users))
         /\ DOMAIN CompletePending(ops) = DOMAIN ops
         /\ \A i \in DOMAIN ops :
              /\ CompletePending(ops)[i].user = ops[i].user
              /\ CompletePending(ops)[i].operation = ops[i].operation
              /\ CompletePending(ops)[i].state =
                   IF ops[i].state = "pending" THEN "complete" ELSE ops[i].state
<1> DEFINE done(i) == IF ops[i].state = "pending"
                      THEN [ops[i] EXCEPT !.state = "complete"]
                      ELSE ops[i]
<1>1. DOMAIN ops = 1 .. Len(ops) /\ Len(ops) \in Nat
  OBVIOUS
<1>2. \A i \in DOMAIN ops : ops[i] \in Operation(Users)
  OBVIOUS
<1>3. \A i \in DOMAIN ops :
        /\ done(i) \in Operation(Users)
        /\ done(i).user = ops[i].user
        /\ done(i).operation = ops[i].operation
        /\ done(i).state =
             IF ops[i].state = "pending" THEN "complete" ELSE ops[i].state
  BY <1>2 DEF Operation, OperationStates, TerminalStates
<1>4. CompletePending(ops) = [i \in DOMAIN ops |-> done(i)]
  BY DEF CompletePending
<1> HIDE DEF done
<1>5. CompletePending(ops) \in Seq(Operation(Users))
  BY <1>1, <1>3, <1>4
<1> QED
  BY <1>3, <1>4, <1>5

\* Completing the pending operations makes no second one live.
LEMMA CompletePendingOneLive ==
  ASSUME NEW Users, NEW ops \in Seq(Operation(Users)), OneLive(ops)
  PROVE  OneLive(CompletePending(ops))
<1> DEFINE done == CompletePending(ops)
<1>1. /\ DOMAIN done = DOMAIN ops
      /\ \A i \in DOMAIN ops :
           /\ done[i].user = ops[i].user
           /\ done[i].operation = ops[i].operation
           /\ done[i].state =
                IF ops[i].state = "pending" THEN "complete" ELSE ops[i].state
  BY CompletePendingProperties
<1>2. \A i \in DOMAIN ops :
        done[i].state \in Suppressing(done[i].operation)
          => ops[i].state \in Suppressing(ops[i].operation)
  BY <1>1 DEF Suppressing
<1> HIDE DEF done
<1> QED
  BY <1>1, <1>2 DEF OneLive, done

\* So does giving a pending operation its outcome.
LEMMA FinishOneLive ==
  ASSUME NEW Users, NEW ops \in Seq(Operation(Users)), OneLive(ops),
         NEW i \in InState(ops, "pending"), NEW s \in OperationStates
  PROVE  /\ [ops EXCEPT ![i].state = s] \in Seq(Operation(Users))
         /\ OneLive([ops EXCEPT ![i].state = s])
<1> DEFINE done == [ops EXCEPT ![i].state = s]
<1>1. i \in DOMAIN ops /\ ops[i].state = "pending"
  BY DEF InState
<1>2. ops[i] \in Operation(Users)
  BY <1>1
<1>3. [ops[i] EXCEPT !.state = s] \in Operation(Users)
  BY <1>2 DEF Operation
<1>4. done \in Seq(Operation(Users))
  BY <1>1, <1>3
<1>5. /\ DOMAIN done = DOMAIN ops
      /\ \A j \in DOMAIN ops : /\ done[j].user = ops[j].user
                               /\ done[j].operation = ops[j].operation
                               /\ j # i => done[j].state = ops[j].state
  BY <1>1, <1>2 DEF Operation
<1>6. \A j \in DOMAIN ops :
        done[j].state \in Suppressing(done[j].operation)
          => ops[j].state \in Suppressing(ops[j].operation)
  BY <1>1, <1>5 DEF Suppressing
<1> HIDE DEF done
<1> QED
  BY <1>4, <1>5, <1>6 DEF OneLive, done

-----------------------------------------------------------------------------
(* Queueing operations                                                     *)

\* An order of a finite set lists each of its members once.
LEMMA OrdersProperties ==
  ASSUME NEW S, IsFiniteSet(S), NEW f \in Orders(S)
  PROVE  /\ f \in Seq(S)
         /\ Len(f) = Cardinality(S)
         /\ \A i, j \in DOMAIN f : f[i] = f[j] => i = j
         /\ S # {} => Len(f) > 0
<1>1. Cardinality(S) \in Nat /\ (S # {} => Cardinality(S) # 0)
  BY FS_CardinalityType, FS_EmptySet
<1>2. f \in [1 .. Cardinality(S) -> S]
  BY DEF Orders
<1>3. f \in Seq(S) /\ Len(f) = Cardinality(S)
  BY <1>1, <1>2
<1>4. \A i, j \in DOMAIN f : f[i] = f[j] => i = j
  BY <1>2 DEF Orders
<1> QED
  BY <1>1, <1>3, <1>4

\* What is queued: one pending operation per user.
LEMMA QueueProperties ==
  ASSUME NEW Users, NEW us \in Seq(Users), NEW type \in OperationTypes
  PROVE  /\ Queue(type, us) \in Seq(Operation(Users))
         /\ Len(Queue(type, us)) = Len(us)
         /\ \A i \in 1 .. Len(us) : Queue(type, us)[i] = NewOperation(type, us[i])
<1>1. Len(us) \in Nat /\ \A i \in 1 .. Len(us) : us[i] \in Users
  OBVIOUS
<1>2. \A i \in 1 .. Len(us) : NewOperation(type, us[i]) \in Operation(Users)
  BY <1>1 DEF NewOperation, Operation, OperationStates
<1>3. Queue(type, us) = [i \in 1 .. Len(us) |-> NewOperation(type, us[i])]
  BY DEF Queue
<1>4. Queue(type, us) \in Seq(Operation(Users))
  BY <1>1, <1>2, <1>3
<1> QED
  BY <1>1, <1>3, <1>4

\* Queueing distinct users for whom no operation of the type is live leaves
\* at most one live operation of a type and user.
LEMMA AppendQueueOneLive ==
  ASSUME NEW Users, NEW ops \in Seq(Operation(Users)), OneLive(ops),
         NEW type \in OperationTypes, NEW us \in Seq(Users),
         \A i, j \in DOMAIN us : us[i] = us[j] => i = j,
         \A i \in DOMAIN us : ~OperationExists(ops, type, us[i])
  PROVE  /\ ops \o Queue(type, us) \in Seq(Operation(Users))
         /\ OneLive(ops \o Queue(type, us))
         /\ \A k \in DOMAIN (ops \o Queue(type, us)) :
              \/ k \in DOMAIN ops /\ (ops \o Queue(type, us))[k] = ops[k]
              \/ \E i \in DOMAIN us :
                   (ops \o Queue(type, us))[k] = NewOperation(type, us[i])
         /\ \A k \in DOMAIN ops :
              k \in DOMAIN (ops \o Queue(type, us))
                /\ (ops \o Queue(type, us))[k] = ops[k]
         /\ Len(us) > 0 => PendingOperationsFound(ops \o Queue(type, us))
<1> DEFINE q    == Queue(type, us)
           plan == ops \o q
           m    == Len(ops)
<1>1. /\ q \in Seq(Operation(Users)) /\ Len(q) = Len(us)
      /\ \A i \in 1 .. Len(us) : q[i] = NewOperation(type, us[i])
  BY QueueProperties
<1>2. m \in Nat /\ Len(us) \in Nat /\ DOMAIN us = 1 .. Len(us)
      /\ DOMAIN ops = 1 .. m
  OBVIOUS
<1> HIDE DEF q
<1>3. /\ plan \in Seq(Operation(Users))
      /\ DOMAIN plan = 1 .. (m + Len(us))
      /\ \A k \in 1 .. m : plan[k] = ops[k]
      /\ \A k \in (m + 1) .. (m + Len(us)) :
           k - m \in 1 .. Len(us) /\ plan[k] = NewOperation(type, us[k - m])
  BY <1>1, <1>2
<1> HIDE DEF m, plan
<1>4. \A k \in DOMAIN plan : k \in 1 .. m \/ k \in (m + 1) .. (m + Len(us))
  BY <1>2, <1>3
<1>a. \A k \in (m + 1) .. (m + Len(us)) :
        /\ k - m \in DOMAIN us
        /\ plan[k].operation = type /\ plan[k].user = us[k - m]
        /\ plan[k].state = "pending"
  <2> SUFFICES ASSUME NEW k \in (m + 1) .. (m + Len(us))
               PROVE  /\ k - m \in DOMAIN us
                      /\ plan[k].operation = type /\ plan[k].user = us[k - m]
                      /\ plan[k].state = "pending"
    OBVIOUS
  <2>1. k - m \in DOMAIN us /\ plan[k] = NewOperation(type, us[k - m])
    BY <1>2, <1>3
  <2> QED
    BY <2>1 DEF NewOperation
<1>5. ASSUME NEW i \in DOMAIN plan, NEW j \in DOMAIN plan, i < j,
             plan[i].operation = plan[j].operation,
             plan[i].user = plan[j].user,
             plan[i].state \in Suppressing(plan[i].operation),
             plan[j].state \in Suppressing(plan[j].operation)
      PROVE  FALSE
  <2>1. CASE i \in 1 .. m /\ j \in 1 .. m
    BY <1>2, <1>3, <1>5, <2>1 DEF OneLive
  <2>2. CASE i \in 1 .. m /\ j \in (m + 1) .. (m + Len(us))
    <3>1. /\ plan[i] = ops[i] /\ i \in DOMAIN ops
          /\ j - m \in DOMAIN us
          /\ plan[j].operation = type /\ plan[j].user = us[j - m]
      BY <1>2, <1>3, <1>a, <2>2
    <3>2. OperationExists(ops, type, us[j - m])
      BY <1>5, <3>1 DEF OperationExists
    <3> QED
      BY <3>1, <3>2
  <2>3. CASE i \in (m + 1) .. (m + Len(us)) /\ j \in (m + 1) .. (m + Len(us))
    <3>1. us[i - m] = us[j - m] /\ i - m \in DOMAIN us /\ j - m \in DOMAIN us
      BY <1>2, <1>a, <1>5, <2>3
    <3>2. i - m = j - m
      BY <3>1
    <3> QED
      BY <1>2, <1>5, <2>3, <3>2
  <2> QED
    BY <1>2, <1>4, <1>5, <2>1, <2>2, <2>3
<1>6. OneLive(plan)
  <2>1. \A i, j \in DOMAIN plan : i \in Int /\ j \in Int
    BY <1>2, <1>3
  <2> SUFFICES ASSUME NEW i \in DOMAIN plan, NEW j \in DOMAIN plan, i # j,
                      plan[i].operation = plan[j].operation,
                      plan[i].user = plan[j].user,
                      plan[i].state \in Suppressing(plan[i].operation),
                      plan[j].state \in Suppressing(plan[j].operation)
               PROVE  FALSE
    BY DEF OneLive
  <2>2. CASE i < j
    BY <1>5, <2>2
  <2>3. CASE j < i
    BY <1>5, <2>3
  <2> QED
    BY <2>1, <2>2, <2>3
<1>7. \A k \in DOMAIN plan :
        \/ k \in DOMAIN ops /\ plan[k] = ops[k]
        \/ \E i \in DOMAIN us : plan[k] = NewOperation(type, us[i])
  BY <1>2, <1>3, <1>4
<1>8. Len(us) > 0 => PendingOperationsFound(plan)
  <2> SUFFICES ASSUME Len(us) > 0
               PROVE  PendingOperationsFound(plan)
    OBVIOUS
  <2>1. m + 1 \in DOMAIN plan /\ plan[m + 1].state = "pending"
    <3>1. m + 1 \in (m + 1) .. (m + Len(us)) /\ m + 1 \in DOMAIN plan
      BY <1>2, <1>3
    <3> QED
      BY <1>a, <3>1
  <2> QED
    BY <2>1 DEF PendingOperationsFound, InState
<1>9. \A k \in DOMAIN ops : k \in DOMAIN plan /\ plan[k] = ops[k]
  BY <1>2, <1>3
<1> QED
  BY <1>3, <1>6, <1>7, <1>8, <1>9 DEF plan, q

=============================================================================
