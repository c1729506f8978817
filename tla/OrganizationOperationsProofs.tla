-------------------- MODULE OrganizationOperationsProofs --------------------
(***************************************************************************)
(* Facts about the operation lists of a GithubOrganization, for lists of   *)
(* every length: what the change calculators queue are pending operations  *)
(* on the repositories, users and teams they were given, and what dropping *)
(* and reviving operations keeps.                                          *)
(***************************************************************************)
EXTENDS RepositoryPolicy, UserOperationsProofs, WellFoundedInduction

-----------------------------------------------------------------------------
(* Induction over the positions of a list, from the well-foundedness of    *)
(* the natural numbers: the library's induction theorems take a predicate, *)
(* this one a set.                                                         *)

\* A set of numbers that is not empty has a least member.
LEMMA LeastNumber ==
  ASSUME NEW S \in SUBSET Nat, S # {}
  PROVE  \E x \in S : \A y \in S : x <= y
<1> DEFINE R == OpToRel(<, Nat)
<1>1. IsWellFoundedOn(R, Nat)
  BY NatLessThanWellFounded
<1>2. \A x, y \in Nat : y < x => <<y, x>> \in R
  BY DEF OpToRel
<1> HIDE DEF R
<1>3. PICK x \in S : \A y \in S : ~ (<<y, x>> \in R)
  BY <1>1, WFMin
<1>4. \A y \in S : y \in Nat /\ x \in Nat /\ ~(y < x)
  BY <1>2, <1>3
<1> QED
  BY <1>4

\* A set of positions up to n that has the first one and with each one the
\* next has them all.
LEMMA Positionwise ==
  ASSUME NEW n \in Nat, NEW S \in SUBSET Nat, 1 \in S,
         \A i \in 1 .. n : i \in S /\ i + 1 <= n => i + 1 \in S
  PROVE  1 .. n \subseteq S
<1> DEFINE out == (1 .. n) \ S
<1> SUFFICES ASSUME out # {} PROVE FALSE
  OBVIOUS
<1>a. out \in SUBSET Nat
  OBVIOUS
<1> HIDE DEF out
<1>1. PICK x \in out : \A y \in out : x <= y
  BY <1>a, LeastNumber
<1> USE DEF out
<1>2. x \in 1 .. n /\ x \notin S /\ x # 1
  BY <1>1
<1>3. x - 1 \in 1 .. n /\ (x - 1) + 1 = x /\ ~(x <= x - 1)
  BY <1>2
<1>4. x - 1 \in S
  BY <1>1, <1>3
<1> QED
  BY <1>2, <1>3, <1>4

-----------------------------------------------------------------------------
(* Lists of lists                                                          *)

\* The function FlattenSeq is defined by exists: it is built list by list.
LEMMA FlattenExists ==
  ASSUME NEW T, NEW ss \in Seq(Seq(T)), Len(ss) # 0
  PROVE  \E f : f = [i \in 1 .. Len(ss) |->
                       IF i = 1 THEN ss[i] ELSE f[i - 1] \o ss[i]]
<1> DEFINE n == Len(ss)
           Solves(f, m) == f = [i \in 1 .. m |->
                                  IF i = 1 THEN ss[i] ELSE f[i - 1] \o ss[i]]
           S == {m \in 1 .. n : \E f : Solves(f, m)}
<1>1. n \in Nat /\ 1 \in 1 .. n /\ n \in 1 .. n
  OBVIOUS
<1>a. \A m : m \in S <=> m \in 1 .. n /\ \E f : Solves(f, m)
  <2> HIDE DEF Solves, n
  <2> QED
    OBVIOUS
<1> HIDE DEF S
<1>2. 1 \in S
  <2> DEFINE f == [i \in 1 .. 1 |-> ss[1]]
  <2>1. f = [i \in 1 .. 1 |-> IF i = 1 THEN ss[i] ELSE f[i - 1] \o ss[i]]
    OBVIOUS
  <2>2. Solves(f, 1)
    BY <2>1
  <2> QED
    BY <1>1, <1>a, <2>2
<1>3. ASSUME NEW m \in 1 .. n, m \in S, m + 1 <= n
      PROVE  m + 1 \in S
  <2>1. PICK g : Solves(g, m)
    BY <1>3, <1>a
  <2> DEFINE h == [i \in 1 .. m + 1 |-> IF i = m + 1 THEN g[m] \o ss[m + 1]
                                        ELSE g[i]]
             e == [i \in 1 .. m + 1 |-> IF i = 1 THEN ss[i] ELSE h[i - 1] \o ss[i]]
  <2>2. m \in 1 .. n /\ m + 1 \in 1 .. n
    BY <1>1, <1>3
  <2>3. h[m] = g[m]
    BY <2>2
  <2>4. \A i \in 1 .. m + 1 : h[i] = e[i]
    <3> TAKE i \in 1 .. m + 1
    <3>1. CASE i = m + 1
      <4>1. i # 1 /\ i - 1 = m
        BY <2>2, <3>1
      <4>2. h[i] = g[m] \o ss[i]
        BY <3>1
      <4>3. e[i] = h[i - 1] \o ss[i]
        BY <4>1
      <4> QED
        BY <2>3, <4>1, <4>2, <4>3
    <3>2. CASE i # m + 1
      <4>1. i \in 1 .. m
        BY <2>2, <3>2
      <4>2. h[i] = g[i]
        BY <3>2
      <4>3. g[i] = IF i = 1 THEN ss[i] ELSE g[i - 1] \o ss[i]
        BY <2>1, <4>1
      <4>4. i # 1 => i - 1 \in 1 .. m + 1 /\ i - 1 # m + 1
        BY <2>2, <4>1
      <4>5. i # 1 => h[i - 1] = g[i - 1]
        BY <4>4
      <4> HIDE DEF h
      <4> QED
        BY <4>2, <4>3, <4>5
    <3> QED
      BY <3>1, <3>2
  <2>5. h = e
    BY <2>4
  <2>6. Solves(h, m + 1)
    BY <2>5
  <2> QED
    BY <1>a, <2>2, <2>6
<1>4. 1 .. n \subseteq S
  <2>1. S \in SUBSET Nat
    <3> HIDE DEF Solves
    <3>1. \A m \in S : m \in Nat
      BY <1>1, <1>a
    <3> QED
      BY <3>1
  <2>2. \A m \in 1 .. n : m \in S /\ m + 1 <= n => m + 1 \in S
    BY <1>3
  <2> QED
    BY <1>1, <1>2, <2>1, <2>2, Positionwise
<1>5. n \in S
  BY <1>1, <1>4
<1> QED
  BY <1>5, <1>a

\* A list of lists of members of T becomes a list of members of T.
LEMMA FlattenType ==
  ASSUME NEW T, NEW ss \in Seq(Seq(T))
  PROVE  FlattenSeq(ss) \in Seq(T)
<1>1. CASE Len(ss) = 0
  BY <1>1 DEF FlattenSeq
<1>2. CASE Len(ss) # 0
  <2> DEFINE n == Len(ss)
             flatten[i \in 1 .. Len(ss)] ==
               IF i = 1 THEN ss[i] ELSE flatten[i - 1] \o ss[i]
             S == {i \in 1 .. n : flatten[i] \in Seq(T)}
  <2>1. FlattenSeq(ss) = flatten[n]
    BY <1>2 DEF FlattenSeq
  <2>2. flatten = [i \in 1 .. n |-> IF i = 1 THEN ss[i] ELSE flatten[i - 1] \o ss[i]]
    <3> DEFINE Solves(f) == f = [i \in 1 .. Len(ss) |->
                                   IF i = 1 THEN ss[i] ELSE f[i - 1] \o ss[i]]
    <3>1. \E f : Solves(f)
      BY <1>2, FlattenExists
    <3>2. Solves(CHOOSE f : Solves(f))
      BY <3>1, Zenon
    <3> QED
      BY <3>2, Zenon
  <2> HIDE DEF flatten
  <2>3. n \in Nat /\ 1 \in 1 .. n /\ n \in 1 .. n
    BY <1>2
  <2>4. 1 \in S
    BY <2>2, <2>3
  <2>5. ASSUME NEW i \in 1 .. n, i \in S, i + 1 <= n
        PROVE  i + 1 \in S
    <3>1. i + 1 \in 1 .. n /\ i + 1 # 1 /\ (i + 1) - 1 = i
      BY <2>3, <2>5
    <3>2. flatten[i + 1] = flatten[i] \o ss[i + 1]
      BY <2>2, <3>1
    <3>3. flatten[i] \in Seq(T) /\ ss[i + 1] \in Seq(T)
      BY <2>5, <3>1
    <3>4. flatten[i + 1] \in Seq(T)
      BY <3>2, <3>3
    <3> QED
      BY <3>1, <3>4
  <2>6. S \in SUBSET Nat
    BY <2>3
  <2> HIDE DEF S
  <2>7. 1 .. n \subseteq S
    BY <2>3, <2>4, <2>5, <2>6, Positionwise
  <2>8. flatten[n] \in Seq(T)
    BY <2>3, <2>7 DEF S
  <2> QED
    BY <2>1, <2>8
<1> QED
  BY <1>1, <1>2

\* A set turned into a list is a list of its members.
LEMMA SetToSeqType ==
  ASSUME NEW S, IsFiniteSet(S)
  PROVE  SetToSeq(S) \in Seq(S)
<1> DEFINE n == Cardinality(S)
           Lists(f) == IsInjective(f)
<1>1. n \in Nat /\ ExistsBijection(1 .. n, S)
  BY FS_CardinalityType
<1>2. \E f \in [1 .. n -> S] : Lists(f)
  BY <1>1 DEF ExistsBijection, Bijection, Injection, IsInjective
<1>3. (CHOOSE f \in [1 .. n -> S] : Lists(f)) \in [1 .. n -> S]
  <2> HIDE DEF Lists
  <2> QED
    BY <1>2
<1>4. SetToSeq(S) \in [1 .. n -> S]
  BY <1>3 DEF SetToSeq
<1> QED
  BY <1>1, <1>4

-----------------------------------------------------------------------------
(* Rewriting the lists                                                     *)

\* The operations of some scopes dropped: no operation is new.
LEMMA WithoutType ==
  ASSUME NEW T, NEW lists \in [Scopes -> Seq(T)], NEW gone
  PROVE  Without(lists, gone) \in [Scopes -> Seq(T)]
<1> SUFFICES ASSUME NEW s \in Scopes
             PROVE  WithoutPositions(lists[s], gone[s]) \in Seq(T)
  BY DEF Without
<1>1. lists[s] \in Seq(T) /\ DOMAIN lists[s] \ gone[s] \in SUBSET DOMAIN lists[s]
  OBVIOUS
<1> QED
  BY <1>1, KeepProperties DEF WithoutPositions

\* An operation made pending again.
Awake(op) == [op EXCEPT !.state = "pending"]

\* Reviving changes nothing but states, "skipped" to "pending", and a list
\* in which it changed something has a pending operation.
LEMMA RevivedProperties ==
  ASSUME NEW T, NEW ops \in Seq(T), NEW positions,
         \A op \in T : Awake(op) \in T
  PROVE  /\ Revived(ops, positions) \in Seq(T)
         /\ DOMAIN Revived(ops, positions) = DOMAIN ops
         /\ Revived(ops, positions) # ops =>
              \E i \in DOMAIN ops :
                /\ ops[i].state = "skipped" /\ i \in positions
                /\ Revived(ops, positions)[i] = Awake(ops[i])
<1> DEFINE new(i) == IF ops[i].state = "skipped" /\ i \in positions
                     THEN Awake(ops[i]) ELSE ops[i]
<1>1. Revived(ops, positions) = [i \in DOMAIN ops |-> new(i)]
  BY DEF Revived, Awake
<1>2. DOMAIN ops = 1 .. Len(ops) /\ Len(ops) \in Nat
  OBVIOUS
<1>3. \A i \in DOMAIN ops : new(i) \in T
  BY <1>2
<1>4. [i \in DOMAIN ops |-> new(i)] \in Seq(T)
  <2> HIDE DEF new
  <2> QED
    BY <1>2, <1>3
<1>5. (\A i \in DOMAIN ops : new(i) = ops[i]) => [i \in DOMAIN ops |-> new(i)] = ops
  <2> HIDE DEF new
  <2> QED
    BY <1>2
<1>6. ASSUME NEW i \in DOMAIN ops, new(i) # ops[i]
      PROVE  /\ ops[i].state = "skipped" /\ i \in positions
             /\ new(i) = Awake(ops[i])
  BY <1>6
<1> HIDE DEF new
<1> QED
  BY <1>1, <1>4, <1>5, <1>6

-----------------------------------------------------------------------------
(* What the change calculators queue                                       *)

\* Operations queued for some names are among those of the names.
LEMMA QueueOpsType ==
  ASSUME NEW T, NEW N, NEW names \in Seq(N), NEW type,
         \A n \in N : NewOp(type, None, n, None) \in T
  PROVE  /\ QueueOps(type, names) \in Seq(T)
         /\ Len(QueueOps(type, names)) = Len(names)
<1>1. Len(names) \in Nat /\ \A i \in 1 .. Len(names) : names[i] \in N
  OBVIOUS
<1>2. \A i \in 1 .. Len(names) : NewOp(type, None, names[i], None) \in T
  BY <1>1
<1> QED
  BY <1>1, <1>2 DEF QueueOps

\* Owners and teams: additions of what is wanted and not observed, removals
\* of what is observed and not wanted.
LEMMA DifferencesType ==
  ASSUME NEW T, NEW ops, NEW observed, NEW wanted,
         IsFiniteSet(observed), IsFiniteSet(wanted),
         NEW new \in Differences(ops, observed, wanted),
         \A n \in wanted \ observed : NewOp("add", None, n, None) \in T,
         \A n \in observed \ wanted : NewOp("remove", None, n, None) \in T
  PROVE  new \in Seq(T)
<1> DEFINE A == {n \in wanted \ observed : ~Exists(ops, "add", None, n)}
           R == {n \in observed \ wanted : ~Exists(ops, "remove", None, n)}
<1>1. PICK a \in Orders(A), r \in Orders(R) :
        new = QueueOps("add", a) \o QueueOps("remove", r)
  <2>1. Differences(ops, observed, wanted)
          = { QueueOps("add", a) \o QueueOps("remove", r) :
                a \in Orders(A), r \in Orders(R) }
    BY DEF Differences
  <2> HIDE DEF A, R
  <2> QED
    BY <2>1
<1>2. IsFiniteSet(A) /\ IsFiniteSet(R)
  <2>1. A \subseteq wanted /\ R \subseteq observed
    OBVIOUS
  <2> QED
    BY <2>1, FS_Subset
<1>3. /\ \A n \in A : NewOp("add", None, n, None) \in T
      /\ \A n \in R : NewOp("remove", None, n, None) \in T
  OBVIOUS
<1> HIDE DEF A, R
<1>4. a \in Seq(A) /\ r \in Seq(R)
  BY <1>1, <1>2, OrdersProperties
<1>5. QueueOps("add", a) \in Seq(T) /\ QueueOps("remove", r) \in Seq(T)
  BY <1>3, <1>4, QueueOpsType
<1> QED
  BY <1>1, <1>5

\* Members: removals of members who are not exempt, and none unless the
\* teams' members are known.
LEMMA MemberRemovalsType ==
  ASSUME NEW T, NEW ops, NEW members, NEW exempt, NEW lists,
         IsFiniteSet(members),
         NEW new \in MemberRemovals(ops, members, exempt, lists),
         lists # 0 =>
           \A u \in members \ exempt : NewOp("remove", None, u, None) \in T
  PROVE  new \in Seq(T)
<1> DEFINE R == {u \in members \ exempt : ~Awaited(ops, None, u)}
<1>1. CASE lists = 0
  BY <1>1 DEF MemberRemovals
<1>2. CASE lists # 0
  <2>1. PICK r \in Orders(R) : new = QueueOps("remove", r)
    BY <1>2 DEF MemberRemovals
  <2>2. R \subseteq members /\ IsFiniteSet(R)
    BY FS_Subset
  <2>3. \A u \in R : NewOp("remove", None, u, None) \in T
    BY <1>2
  <2> HIDE DEF R
  <2>4. r \in Seq(R)
    BY <2>1, <2>2, OrdersProperties
  <2> QED
    BY <2>1, <2>3, <2>4, QueueOpsType
<1> QED
  BY <1>1, <1>2

\* Collaborators: removals of listed pairs whose user is not exempt.
LEMMA CollaboratorRemovalsType ==
  ASSUME NEW T, NEW ops, NEW direct, NEW exempt, IsFiniteSet(direct),
         NEW new \in CollaboratorRemovals(ops, direct, exempt),
         \A p \in direct : p[2] \notin exempt => NewOp("remove", p[1], p[2], None) \in T
  PROVE  new \in Seq(T)
<1> DEFINE R == {p \in direct : p[2] \notin exempt /\ ~Awaited(ops, p[1], p[2])}
<1>1. PICK o \in Orders(R) :
        new = [i \in 1 .. Len(o) |-> NewOp("remove", o[i][1], o[i][2], None)]
  BY DEF CollaboratorRemovals
<1>2. R \subseteq direct /\ IsFiniteSet(R)
  BY FS_Subset
<1>3. \A p \in R : NewOp("remove", p[1], p[2], None) \in T
  OBVIOUS
<1> HIDE DEF R
<1>4. o \in Seq(R)
  BY <1>1, <1>2, OrdersProperties
<1>5. Len(o) \in Nat /\ \A i \in 1 .. Len(o) : o[i] \in R
  BY <1>4
<1>6. \A i \in 1 .. Len(o) : NewOp("remove", o[i][1], o[i][2], None) \in T
  BY <1>3, <1>5
<1> QED
  BY <1>1, <1>5, <1>6

-----------------------------------------------------------------------------
(* What the change calculator of the repositories queues                   *)

\* The entries of a configuration are default teams or exceptions.
LEMMA ConfigurationType ==
  ASSUME NEW D, NEW X, NEW repo, NEW skip,
         NEW defaults \in Seq(D), NEW exceptions \in Seq(X)
  PROVE  Configuration(repo, defaults, exceptions, skip) \in Seq(D \cup X)
<1> DEFINE K == {i \in DOMAIN exceptions : exceptions[i].repo = repo}
<1>1. K \in SUBSET DOMAIN exceptions
  OBVIOUS
<1>2. Keep(exceptions, K) \in Seq(X)
  BY <1>1, KeepProperties
<1> HIDE DEF K
<1>3. Keep(exceptions, K) \in Seq(D \cup X) /\ defaults \in Seq(D \cup X)
  BY <1>2
<1> QED
  BY <1>3 DEF Configuration, K

\* One entry of a configuration leads to operations on its repository.
LEMMA FromConfigurationType ==
  ASSUME NEW T, NEW Ts, NEW ops, NEW repo, NEW listed,
         NEW entry, entry.team \in Ts, entry.permission \in Permissions,
         \A t \in Ts : NewOp("remove", repo, t, None) \in T,
         \A t \in Ts, p \in Permissions : NewOp("add", repo, t, p) \in T
  PROVE  /\ FromConfiguration(ops, repo, listed, entry) \in Seq(T)
         /\ Correction(ops, repo, entry) \in Seq(T)
<1>1. Removal(ops, repo, entry.team) \in Seq(T)
  BY DEF Removal
<1>2. Addition(ops, repo, entry) \in Seq(T)
  BY DEF Addition
<1>3. Correction(ops, repo, entry) \in Seq(T)
  BY <1>1, <1>2 DEF Correction
<1> QED
  BY <1>2, <1>3 DEF FromConfiguration

\* So does a team found on a repository.
LEMMA FromListingType ==
  ASSUME NEW T, NEW Ts, NEW ops, NEW repo, NEW listed,
         NEW E, NEW config \in Seq(E), NEW team \in Ts,
         \A e \in E : e.team \in Ts /\ e.permission \in Permissions,
         \A t \in Ts : NewOp("remove", repo, t, None) \in T,
         \A t \in Ts, p \in Permissions : NewOp("add", repo, t, p) \in T
  PROVE  FromListing(ops, repo, listed, config, team) \in Seq(T)
<1> DEFINE Own   == {i \in DOMAIN config : config[i].team = team}
           K     == {i \in Own : ~PermissionsMatch(listed[team], config[i].permission)}
           wrong == Keep(config, K)
           list  == [i \in DOMAIN wrong |-> Correction(ops, repo, wrong[i])]
<1>1. Removal(ops, repo, team) \in Seq(T)
  BY DEF Removal
<1>2. K \in SUBSET DOMAIN config
  OBVIOUS
<1>3. wrong \in Seq(E)
  BY <1>2, KeepProperties
<1>4. FromListing(ops, repo, listed, config, team)
        = IF Own = {} THEN Removal(ops, repo, team) ELSE FlattenSeq(list)
  BY DEF FromListing
<1> HIDE DEF wrong, Own
<1>5. DOMAIN wrong = 1 .. Len(wrong) /\ Len(wrong) \in Nat
  BY <1>3
<1>6. \A i \in DOMAIN wrong : Correction(ops, repo, wrong[i]) \in Seq(T)
  <2> TAKE i \in DOMAIN wrong
  <2>1. wrong[i] \in E
    BY <1>3
  <2> QED
    BY <2>1, FromConfigurationType
<1>7. list \in Seq(Seq(T))
  BY <1>5, <1>6
<1>8. FlattenSeq(list) \in Seq(T)
  BY <1>7, FlattenType
<1> QED
  BY <1>1, <1>4, <1>8

\* The plan for one repository.
LEMMA RepositoryPlanType ==
  ASSUME NEW T, NEW Ts, IsFiniteSet(Ts), NEW ops, NEW repo, NEW listed,
         DOMAIN listed = Ts,
         NEW E, NEW config \in Seq(E),
         \A e \in E : e.team \in Ts /\ e.permission \in Permissions,
         \A t \in Ts : NewOp("remove", repo, t, None) \in T,
         \A t \in Ts, p \in Permissions : NewOp("add", repo, t, p) \in T
  PROVE  RepositoryPlan(ops, repo, listed, config) \in Seq(T)
<1> DEFINE there == {t \in DOMAIN listed : listed[t] # None}
           teams == SetToSeq(there)
           first  == [i \in DOMAIN config |->
                        FromConfiguration(ops, repo, listed, config[i])]
           second == [i \in DOMAIN teams |->
                        FromListing(ops, repo, listed, config, teams[i])]
<1>1. there \subseteq Ts /\ IsFiniteSet(there)
  BY FS_Subset
<1>2. teams \in Seq(there)
  BY <1>1, SetToSeqType
<1>3. RepositoryPlan(ops, repo, listed, config) = FlattenSeq(first) \o FlattenSeq(second)
  BY DEF RepositoryPlan
<1> HIDE DEF teams
<1>4. first \in Seq(Seq(T))
  <2>1. DOMAIN config = 1 .. Len(config) /\ Len(config) \in Nat
    OBVIOUS
  <2>2. \A i \in DOMAIN config : FromConfiguration(ops, repo, listed, config[i]) \in Seq(T)
    <3> TAKE i \in DOMAIN config
    <3>1. config[i] \in E
      OBVIOUS
    <3> QED
      BY <3>1, FromConfigurationType
  <2> QED
    BY <2>1, <2>2
<1>5. second \in Seq(Seq(T))
  <2>1. DOMAIN teams = 1 .. Len(teams) /\ Len(teams) \in Nat
    BY <1>2
  <2>2. \A i \in DOMAIN teams : FromListing(ops, repo, listed, config, teams[i]) \in Seq(T)
    <3> TAKE i \in DOMAIN teams
    <3>1. teams[i] \in Ts
      BY <1>1, <1>2
    <3> QED
      BY <3>1, FromListingType
  <2> QED
    BY <2>1, <2>2
<1>6. FlattenSeq(first) \in Seq(T) /\ FlattenSeq(second) \in Seq(T)
  BY <1>4, <1>5, FlattenType
<1> QED
  BY <1>3, <1>6

\* RepoChangeCalculator: additions and removals of teams on the repositories.
LEMMA RepositoryChangesType ==
  ASSUME NEW T, NEW Ts, NEW Rs, IsFiniteSet(Ts), IsFiniteSet(Rs), NEW ops,
         NEW visibility, DOMAIN visibility = Rs,
         NEW roles, \A r \in Rs : DOMAIN roles[r] = Ts,
         NEW policy,
         policy.defaults \in
           [Visibilities -> Seq([team : Ts, permission : Permissions])],
         policy.exceptions \in Seq([repo : Rs, team : Ts, permission : Permissions]),
         \A r \in Rs, t \in Ts : NewOp("remove", r, t, None) \in T,
         \A r \in Rs, t \in Ts, p \in Permissions : NewOp("add", r, t, p) \in T
  PROVE  RepositoryChanges(ops, visibility, roles, policy) \in Seq(T)
<1> DEFINE config(r, v) == Configuration(r, policy.defaults[v], policy.exceptions, policy.skip)
           repos(v) == SetToSeq(Compared(visibility, policy, v))
           plans(v) == [i \in DOMAIN repos(v) |->
                          RepositoryPlan(ops, repos(v)[i], roles[repos(v)[i]],
                                         config(repos(v)[i], v))]
           E == [team : Ts, permission : Permissions]
                  \cup [repo : Rs, team : Ts, permission : Permissions]
<1>1. RepositoryChanges(ops, visibility, roles, policy)
        = FlattenSeq(plans("private")) \o FlattenSeq(plans("public"))
            \o FlattenSeq(plans("internal"))
  BY DEF RepositoryChanges
<1>2. ASSUME NEW v \in Visibilities
      PROVE  FlattenSeq(plans(v)) \in Seq(T)
  <2> DEFINE R == Compared(visibility, policy, v)
             list == SetToSeq(R)
             plan(r) == RepositoryPlan(ops, r, roles[r], config(r, v))
  <2>1. R \subseteq Rs /\ IsFiniteSet(R)
    BY FS_Subset DEF Compared
  <2>2. list \in Seq(R)
    BY <2>1, SetToSeqType
  <2> HIDE DEF R, list
  <2>3. DOMAIN list = 1 .. Len(list) /\ Len(list) \in Nat /\ \A i \in DOMAIN list : list[i] \in Rs
    BY <2>1, <2>2
  <2>4. \A r \in Rs : plan(r) \in Seq(T)
    <3> TAKE r \in Rs
    <3>1. policy.defaults[v] \in Seq([team : Ts, permission : Permissions])
      BY <1>2
    <3>2. config(r, v) \in Seq(E)
      BY <3>1, ConfigurationType
    <3>3. \A e \in E : e.team \in Ts /\ e.permission \in Permissions
      OBVIOUS
    <3> HIDE DEF config, E
    <3> QED
      BY <3>2, <3>3, RepositoryPlanType
  <2> HIDE DEF plan
  <2>5. [i \in DOMAIN list |-> plan(list[i])] \in Seq(Seq(T))
    BY <2>3, <2>4
  <2>6. FlattenSeq([i \in DOMAIN list |-> plan(list[i])]) \in Seq(T)
    BY <2>5, FlattenType
  <2>7. plans(v) = [i \in DOMAIN list |-> plan(list[i])]
    BY DEF list, R, plan
  <2> HIDE DEF plans
  <2> QED
    BY <2>6, <2>7
<1>3. {"private", "public", "internal"} \subseteq Visibilities
  BY DEF Visibilities
<1> HIDE DEF plans
<1> QED
  BY <1>1, <1>2, <1>3

=============================================================================
