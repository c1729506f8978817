-------------------------- MODULE GithubTeamProofs --------------------------
(***************************************************************************)
(* Proofs about GithubTeam for every finite set of users, every provider   *)
(* and any number of faults and edits, with reconciles that may start from *)
(* a stale cache.                                                          *)
(*                                                                         *)
(* The reported statuses are sound only because everything a status can be *)
(* computed from is: the informer's copy, the worker's snapshot, and the   *)
(* operations the worker is executing.  The inductive invariant says so.   *)
(***************************************************************************)
EXTENDS GithubTeam, UserOperationsProofs, SequenceTheorems

\* A status the reconciler may have written.
StatusOK(st) ==
  /\ st \in Status
  /\ HasWorkIfPending(st)
  /\ OneLive(st.operations)
  /\ Justified(st.operations)

\* What the worker holds: a sound snapshot, sound operations, a listing of
\* the provider, and no execution under the dryRun label.
WorkerOK(v) ==
  /\ v \in Worker
  /\ StatusOK(v.snap)
  /\ OneLive(v.ops) /\ Justified(v.ops)
  /\ v.pc = "resolved" => v.desired \in Listings
  /\ v.pc = "execute" => ~DryRun(v.meta)

EnvironmentOK ==
  /\ configured \in BOOLEAN /\ desired \in Listings
  /\ ghTeam \in BOOLEAN /\ ghMembers \in SUBSET Users
  /\ limitOver \in BOOLEAN /\ faults \in Nat /\ edits \in Nat

ObjectOK ==
  /\ StatusOK(status) /\ meta \in Meta
  /\ cache \in [status : Status, meta : Meta] /\ StatusOK(cache.status)
  /\ fresh \in BOOLEAN

IInv == ObjectOK /\ WorkerOK(w) /\ EnvironmentOK

-----------------------------------------------------------------------------
(* Statuses                                                                *)

\* The empty status.
LEMMA EmptyStatusOK == StatusOK(EmptyStatus)
<1>1. EmptyStatus \in Status
  BY DEF EmptyStatus, Status, TeamStates, Errors
<1>2. OneLive(<<>>) /\ Justified(<<>>)
  BY DEF OneLive, Justified
<1>3. EmptyStatus.operations = <<>> /\ EmptyStatus.teamStatus = ""
  BY DEF EmptyStatus
<1> QED
  BY <1>1, <1>2, <1>3 DEF StatusOK, HasWorkIfPending

\* A status without the name "pending" needs no pending operation.
LEMMA NotPendingOK ==
  ASSUME NEW st \in Status, OneLive(st.operations), Justified(st.operations),
         st.teamStatus # "pending"
  PROVE  StatusOK(st)
BY DEF StatusOK, HasWorkIfPending

\* Recomputing the state.
LEMMA RecomputedOK ==
  ASSUME NEW st \in Status, OneLive(st.operations), Justified(st.operations)
  PROVE  StatusOK(Recomputed(st))
<1> DEFINE s == StatusFromOperations(st.operations)
<1>1. s \in TeamStates /\ (s = "pending" => PendingOperationsFound(st.operations))
  BY DEF StatusFromOperations, TeamStates
<1> HIDE DEF s
<1>2. /\ [st EXCEPT !.teamStatus = s] \in Status
      /\ [st EXCEPT !.teamStatus = s].teamStatus = s
      /\ [st EXCEPT !.teamStatus = s].operations = st.operations
  BY <1>1 DEF Status
<1> QED
  BY <1>1, <1>2 DEF StatusOK, HasWorkIfPending, Recomputed, s

\* A status written because of a failure.
LEMMA FailedOK ==
  ASSUME NEW st, StatusOK(st)
  PROVE  StatusOK(Failed(st))
<1>1. /\ Failed(st) \in Status
      /\ Failed(st).teamStatus = "failed"
      /\ Failed(st).operations = st.operations
  BY DEF StatusOK, Failed, Status, TeamStates, Errors
<1> QED
  BY <1>1, NotPendingOK DEF StatusOK

\* Dropping operations keeps a list sound.
LEMMA WithoutPositionsOK ==
  ASSUME NEW ops \in Seq(Operation(Users)), OneLive(ops), Justified(ops),
         NEW expired
  PROVE  /\ WithoutPositions(ops, expired) \in Seq(Operation(Users))
         /\ OneLive(WithoutPositions(ops, expired))
         /\ Justified(WithoutPositions(ops, expired))
<1> DEFINE K    == DOMAIN ops \ expired
           kept == Keep(ops, K)
<1>1. K \in SUBSET DOMAIN ops
  OBVIOUS
<1>2. /\ kept \in Seq(Operation(Users))
      /\ \A j \in DOMAIN kept : \E k \in K : kept[j] = ops[k]
  BY <1>1, KeepProperties
<1>3. OneLive(kept)
  BY <1>1, KeepOneLive
<1> HIDE DEF kept
<1>4. Justified(kept)
  BY <1>2 DEF Justified
<1> QED
  BY <1>2, <1>3, <1>4 DEF WithoutPositions, kept

\* The TTL cleanup.
LEMMA CleanedOK ==
  ASSUME NEW st, StatusOK(st), NEW ttl, NEW expired
  PROVE  StatusOK(Cleaned(st, ttl, expired))
<1> DEFINE ops   == WithoutPositions(st.operations, expired)
           clear == /\ "failed" \in ttl
                    /\ FailedOperationsFound(st.operations)
                    /\ ~FailedOperationsFound(ops)
           left  == [st EXCEPT !.operations = ops,
                               !.error = IF clear THEN "none" ELSE @]
<1>1. st \in Status /\ st.operations \in Seq(Operation(Users))
  BY DEF StatusOK, Status
<1>2. ops \in Seq(Operation(Users)) /\ OneLive(ops) /\ Justified(ops)
  BY <1>1, WithoutPositionsOK DEF StatusOK
<1>3. Cleaned(st, ttl, expired) = Recomputed(left)
  BY DEF Cleaned
<1> HIDE DEF ops, clear
<1>4. left \in Status /\ left.operations = ops
  BY <1>1, <1>2 DEF Status, Errors
<1> QED
  BY <1>2, <1>3, <1>4, RecomputedOK

-----------------------------------------------------------------------------
(* The worker                                                              *)

\* The worker at rest.
LEMMA RestOK == WorkerOK(Rest)
<1>1. NoMeta \in Meta
  BY DEF NoMeta, Meta
<1>2. EmptyStatus \in Status
  BY EmptyStatusOK DEF StatusOK
<1>3. Rest \in Worker
  BY <1>1, <1>2 DEF Rest, Worker, Steps
<1> QED
  BY <1>3, EmptyStatusOK DEF WorkerOK, Rest, OneLive, Justified

\* The worker goes on to another step.
LEMMA GotoOK ==
  ASSUME NEW v, WorkerOK(v), NEW pc \in Steps \ {"resolved", "execute"}
  PROVE  WorkerOK([v EXCEPT !.pc = pc])
BY DEF WorkerOK, Worker

\* Turning the worker's next operation into a finished one.
LEMMA FinishOK ==
  ASSUME WorkerOK(w), NEW i \in DOMAIN w.ops, w.ops[i].state = "pending",
         w.pc = "execute", NEW s \in OperationStates,
         Finish(i, s)
  PROVE  WorkerOK(w')
<1> DEFINE ops == [w.ops EXCEPT ![i].state = s]
<1>1. w \in Worker /\ w.ops \in Seq(Operation(Users))
  BY DEF WorkerOK, Worker
<1>2. ops \in Seq(Operation(Users)) /\ OneLive(ops)
  BY <1>1, FinishOneLive DEF WorkerOK, InState
<1>3. \A j \in DOMAIN w.ops : w.ops[j] \in Operation(Users)
  BY <1>1
<1>4. /\ DOMAIN ops = DOMAIN w.ops
      /\ \A j \in DOMAIN ops : /\ ops[j].user = w.ops[j].user
                               /\ ops[j].operation = w.ops[j].operation
  BY <1>3 DEF Operation
<1>5. w' = [w EXCEPT !.ops = ops, !.failed = @ \/ s = "failed"]
  BY <1>1 DEF Finish, Worker
<1> HIDE DEF ops
<1>6. Justified(ops)
  BY <1>4 DEF WorkerOK, Justified
<1>7. /\ w' \in Worker
      /\ w'.snap = w.snap /\ w'.ops = ops /\ w'.pc = w.pc
      /\ w'.desired = w.desired /\ w'.meta = w.meta
  BY <1>1, <1>2, <1>5 DEF Worker
<1> QED
  BY <1>2, <1>6, <1>7 DEF WorkerOK

-----------------------------------------------------------------------------
(* The plan                                                                *)

\* What PlanOperations queues keeps the list sound and gives it work.
LEMMA PlanOK ==
  ASSUME NEW st, StatusOK(st), NEW wanted \in Listings,
         NEW adds \in Orders(Additions(st, wanted)),
         NEW removes \in Orders(Removals(st, wanted)),
         Additions(st, wanted) \cup Removals(st, wanted) # {},
         NEW members \in SUBSET Users
  PROVE  StatusOK([ teamStatus |-> "pending", error |-> "none",
                    operations |-> st.operations \o Queue("add", adds)
                                     \o Queue("remove", removes),
                    members    |-> members ])
<1> DEFINE A    == Additions(st, wanted)
           R    == Removals(st, wanted)
           one  == st.operations \o Queue("add", adds)
           plan == one \o Queue("remove", removes)
<1>1. /\ st.operations \in Seq(Operation(Users)) /\ st.members \in SUBSET Users
      /\ OneLive(st.operations) /\ Justified(st.operations)
  BY DEF StatusOK, Status
<1>2. /\ wanted \in SUBSET Users /\ Core \subseteq wanted
      /\ wanted \cap Strangers = {}
  BY DEF Listings
<1>3. A \in SUBSET Users /\ R \in SUBSET Users
  BY <1>1, <1>2 DEF Additions, Removals
<1>4. IsFiniteSet(A) /\ IsFiniteSet(R)
  BY <1>3, FS_Subset, UsersAssumption
<1>5. /\ adds \in Seq(A) /\ adds \in Seq(Users)
      /\ \A i, j \in DOMAIN adds : adds[i] = adds[j] => i = j
      /\ A # {} => Len(adds) > 0
      /\ \A i \in DOMAIN adds : adds[i] \in A
  <2>1. adds \in Seq(A)
    BY <1>4, OrdersProperties
  <2>2. \A i \in DOMAIN adds : adds[i] \in A
    BY <2>1
  <2>3. adds \in Seq(Users)
    BY <1>3, <2>1, <2>2
  <2> QED
    BY <1>4, <2>1, <2>2, <2>3, OrdersProperties
<1>6. /\ removes \in Seq(R) /\ removes \in Seq(Users)
      /\ \A i, j \in DOMAIN removes : removes[i] = removes[j] => i = j
      /\ R # {} => Len(removes) > 0
      /\ \A i \in DOMAIN removes : removes[i] \in R
  <2>1. removes \in Seq(R)
    BY <1>4, OrdersProperties
  <2>2. \A i \in DOMAIN removes : removes[i] \in R
    BY <2>1
  <2>3. removes \in Seq(Users)
    BY <1>3, <2>1, <2>2
  <2> QED
    BY <1>4, <2>1, <2>2, <2>3, OrdersProperties
<1>7. \A i \in DOMAIN adds : ~OperationExists(st.operations, "add", adds[i])
  BY <1>5 DEF Additions
<1>8. \A i \in DOMAIN removes :
        ~OperationExists(st.operations, "remove", removes[i])
  BY <1>6 DEF Removals
<1> HIDE DEF A, R
<1>9. /\ one \in Seq(Operation(Users)) /\ OneLive(one)
      /\ \A k \in DOMAIN one :
           \/ k \in DOMAIN st.operations /\ one[k] = st.operations[k]
           \/ \E i \in DOMAIN adds : one[k] = NewOperation("add", adds[i])
      /\ Len(adds) > 0 => PendingOperationsFound(one)
  BY <1>1, <1>5, <1>7, AppendQueueOneLive DEF OperationTypes
<1> HIDE DEF one
<1>10. \A i \in DOMAIN removes : ~OperationExists(one, "remove", removes[i])
  BY <1>8, <1>9 DEF OperationExists, NewOperation
<1>11. /\ plan \in Seq(Operation(Users)) /\ OneLive(plan)
       /\ \A k \in DOMAIN plan :
            \/ k \in DOMAIN one /\ plan[k] = one[k]
            \/ \E i \in DOMAIN removes :
                 plan[k] = NewOperation("remove", removes[i])
       /\ \A k \in DOMAIN one : k \in DOMAIN plan /\ plan[k] = one[k]
       /\ Len(removes) > 0 => PendingOperationsFound(plan)
  BY <1>6, <1>9, <1>10, AppendQueueOneLive DEF OperationTypes
<1> HIDE DEF plan
<1>12. Justified(plan)
  <2>1. \A i \in DOMAIN adds : adds[i] \notin Strangers
    BY <1>2, <1>5 DEF A, Additions
  <2>2. \A i \in DOMAIN removes : removes[i] \notin Core
    BY <1>2, <1>6 DEF R, Removals
  <2>3. Justified(one)
    BY <1>1, <1>9, <2>1 DEF Justified, NewOperation
  <2> QED
    BY <1>11, <2>2, <2>3 DEF Justified, NewOperation
<1>13. PendingOperationsFound(plan)
  <2>1. CASE Len(removes) > 0
    BY <1>11, <2>1
  <2>2. CASE Len(adds) > 0
    BY <1>9, <1>11, <2>2 DEF PendingOperationsFound, InState
  <2> QED
    BY <1>5, <1>6, <2>1, <2>2 DEF A, R
<1> DEFINE new == [ teamStatus |-> "pending", error |-> "none",
                    operations |-> plan, members |-> members ]
<1>14. new \in Status
  BY <1>11 DEF Status, TeamStates, Errors
<1>15. StatusOK(new)
  BY <1>11, <1>12, <1>13, <1>14 DEF StatusOK, HasWorkIfPending
<1> QED
  BY <1>15 DEF plan, one

-----------------------------------------------------------------------------
(* The inductive invariant                                                 *)

\* The invariant holds at first.
LEMMA InitOK == Init => IInv
<1> SUFFICES ASSUME Init PROVE IInv
  OBVIOUS
<1>1. StatusOK(status) /\ status \in Status
  BY EmptyStatusOK DEF Init, StatusOK
<1>2. meta \in Meta
  BY MetasAssumption DEF Init
<1>3. /\ cache \in [status : Status, meta : Meta]
      /\ cache.status = status
  BY <1>1, <1>2 DEF Init
<1>4. ObjectOK
  BY <1>1, <1>2, <1>3 DEF ObjectOK, Init
<1>5. WorkerOK(w)
  BY RestOK DEF Init
<1>6. EnvironmentOK
  BY BoundsAssumption DEF EnvironmentOK, Init
<1> QED
  BY <1>4, <1>5, <1>6 DEF IInv

\* A write of a sound status keeps the object sound.
LEMMA SaveKeeps ==
  ASSUME ObjectOK, NEW st, StatusOK(st), Save(st) \/ UNCHANGED object
  PROVE  ObjectOK'
BY DEF ObjectOK, Save, object, StatusOK

\* Steps that leave everything but the worker alone.
LEMMA OutsideKeeps ==
  ASSUME EnvironmentOK, UNCHANGED Outside
  PROVE  EnvironmentOK'
BY DEF EnvironmentOK, Outside, github, budgets

\* The steps that end the reconcile after at most one status write.
LEMMA StopKeeps ==
  ASSUME IInv, NEW st, StatusOK(st), Save(st) \/ UNCHANGED object,
         Stop, EnvironmentOK'
  PROVE  IInv'
<1>1. ObjectOK'
  BY SaveKeeps DEF IInv
<1>2. WorkerOK(w')
  BY RestOK DEF Stop
<1> QED
  BY <1>1, <1>2 DEF IInv

\* Budgets only shrink, so that a fault or an edit keeps them typed.
LEMMA FaultKeeps ==
  ASSUME EnvironmentOK, NEW kind, Fault(kind)
  PROVE  faults' \in Nat
BY DEF EnvironmentOK, Fault

\* Edits are counted.
LEMMA EditKeeps ==
  ASSUME EnvironmentOK, NEW kind, Edit(kind)
  PROVE  edits' \in Nat
BY DEF EnvironmentOK, Edit

\* Reads of the worker, and the steps before a plan is made.
LEMMA StartKeeps ==
  ASSUME IInv,
         \/ Begin \/ WipeStatus \/ RemoveForceLabel \/ WaitForReset
         \/ LeaveRateLimit
         \/ \E expired \in SUBSET DOMAIN w.snap.operations :
              CleanExpired(expired)
         \/ FailSpec \/ FailConfiguration
  PROVE  IInv'
<1>1. /\ ObjectOK /\ WorkerOK(w) /\ EnvironmentOK
      /\ StatusOK(status) /\ StatusOK(w.snap) /\ w \in Worker
  BY DEF IInv, ObjectOK, WorkerOK
<1>2. CASE Begin
  <2>1. ObjectOK' /\ EnvironmentOK'
    BY <1>1, <1>2, SaveKeeps, OutsideKeeps DEF Begin
  <2>2. cache.status \in Status /\ cache.meta \in Meta /\ fresh \in BOOLEAN
    BY <1>1 DEF ObjectOK
  <2>3. /\ Rest \in Worker /\ OneLive(Rest.ops) /\ Justified(Rest.ops)
    BY RestOK DEF WorkerOK
  <2>4. w' \in Worker /\ w'.snap = cache.status /\ w'.ops = Rest.ops
        /\ w'.pc = "begun"
    BY <1>2, <2>2, <2>3 DEF Begin, Worker, Steps
  <2>5. WorkerOK(w')
    BY <1>1, <2>3, <2>4 DEF WorkerOK, ObjectOK
  <2> QED
    BY <2>1, <2>5 DEF IInv
<1>3. CASE WipeStatus
  <2>1. ObjectOK' /\ EnvironmentOK'
    BY <1>1, <1>3, SaveKeeps, OutsideKeeps, EmptyStatusOK
       DEF WipeStatus, SaveLatest
  <2>2. WorkerOK(w')
    BY <1>1, <1>3, GotoOK DEF WipeStatus, Goto, Steps
  <2> QED
    BY <2>1, <2>2 DEF IInv
<1>4. CASE RemoveForceLabel
  <2>1. EnvironmentOK'
    BY <1>1, <1>4, OutsideKeeps DEF RemoveForceLabel
  <2>2. meta' \in Meta
    BY <1>1, <1>4 DEF RemoveForceLabel, ObjectOK, Meta
  <2>3. ObjectOK'
    BY <1>1, <1>4, <2>2 DEF RemoveForceLabel, ObjectOK
  <2>4. WorkerOK(w')
    BY <1>4, RestOK DEF RemoveForceLabel, Stop
  <2> QED
    BY <2>1, <2>3, <2>4 DEF IInv
<1>5. CASE WaitForReset
  BY <1>1, <1>5, StopKeeps, OutsideKeeps DEF WaitForReset
<1>6. CASE LeaveRateLimit
  <2> DEFINE st == Recomputed([w.snap EXCEPT !.error = "none"])
  <2>1. /\ [w.snap EXCEPT !.error = "none"] \in Status
        /\ [w.snap EXCEPT !.error = "none"].operations = w.snap.operations
    BY <1>1 DEF StatusOK, Status, Errors
  <2>2. StatusOK(st)
    BY <1>1, <2>1, RecomputedOK DEF StatusOK
  <2> HIDE DEF st
  <2>3. /\ Save(st) \/ UNCHANGED object
        /\ w' = [w EXCEPT !.snap = st] \/ w' = Rest
        /\ UNCHANGED Outside
    BY <1>6 DEF LeaveRateLimit, SaveOwn, Stop, st
  <2>4. ObjectOK' /\ EnvironmentOK'
    BY <1>1, <2>2, <2>3, SaveKeeps, OutsideKeeps
  <2>5. WorkerOK([w EXCEPT !.snap = st])
    BY <1>1, <2>2 DEF WorkerOK, Worker, StatusOK
  <2> QED
    BY <2>3, <2>4, <2>5, RestOK DEF IInv
<1>7. CASE \E expired \in SUBSET DOMAIN w.snap.operations :
             CleanExpired(expired)
  <2>1. PICK expired : CleanExpired(expired)
    BY <1>7
  <2>2. StatusOK(Cleaned(w.snap, w.meta.ttl, expired))
    BY <1>1, CleanedOK
  <2>3. /\ \/ Save(Cleaned(w.snap, w.meta.ttl, expired))
           \/ UNCHANGED object
        /\ Stop /\ UNCHANGED Outside
    BY <2>1 DEF CleanExpired, SaveOwn
  <2> QED
    BY <1>1, <2>2, <2>3, StopKeeps, OutsideKeeps
<1>8. CASE FailSpec
  <2>1. /\ Save(Failed(w.snap)) \/ UNCHANGED object
        /\ Stop /\ UNCHANGED Outside
    BY <1>8 DEF FailSpec, SaveOwn
  <2> QED
    BY <1>1, <2>1, FailedOK, StopKeeps, OutsideKeeps
<1>9. CASE FailConfiguration
  <2>1. Save(Failed(status)) /\ Stop /\ UNCHANGED Outside
    BY <1>9 DEF FailConfiguration, SaveLatest
  <2> QED
    BY <1>1, <2>1, FailedOK, StopKeeps, OutsideKeeps
<1> QED
  BY <1>2, <1>3, <1>4, <1>5, <1>6, <1>7, <1>8, <1>9

\* Rewriting the members, the error and the name of a sound status keeps it
\* sound, unless the new name is "pending".
LEMMA RewriteOK ==
  ASSUME NEW st \in Status, StatusOK(st), NEW new \in Status,
         new.operations = st.operations, new.teamStatus # "pending"
  PROVE  StatusOK(new)
BY NotPendingOK DEF StatusOK

\* Dropping or completing the pending operations of the object.
LEMMA DropOK ==
  ASSUME NEW st, StatusOK(st), NEW new \in Status,
         new.operations = WithoutPending(st.operations),
         new.teamStatus # "pending"
  PROVE  StatusOK(new)
<1>1. st.operations \in Seq(Operation(Users))
  BY DEF StatusOK, Status
<1> QED
  BY <1>1, WithoutPositionsOK, NotPendingOK DEF StatusOK, WithoutPending

\* A rehearsal completes the pending operations without executing them.
LEMMA CompleteOK ==
  ASSUME NEW st, StatusOK(st), NEW members \in SUBSET Users
  PROVE  StatusOK([st EXCEPT !.operations = CompletePending(@),
                             !.teamStatus = "dry-run", !.members = members])
<1> DEFINE ops == CompletePending(st.operations)
           new == [st EXCEPT !.operations = ops, !.teamStatus = "dry-run",
                             !.members = members]
<1>1. st \in Status /\ st.operations \in Seq(Operation(Users))
  BY DEF StatusOK, Status
<1>2. /\ ops \in Seq(Operation(Users))
      /\ DOMAIN ops = DOMAIN st.operations
      /\ \A i \in DOMAIN ops : /\ ops[i].user = st.operations[i].user
                               /\ ops[i].operation = st.operations[i].operation
  BY <1>1, CompletePendingProperties
<1>3. OneLive(ops)
  BY <1>1, CompletePendingOneLive DEF StatusOK
<1> HIDE DEF ops
<1>4. Justified(ops)
  BY <1>2 DEF StatusOK, Justified
<1>5. new \in Status /\ new.operations = ops /\ new.teamStatus = "dry-run"
  BY <1>1, <1>2 DEF Status, TeamStates
<1>6. StatusOK(new)
  BY <1>3, <1>4, <1>5, NotPendingOK
<1> QED
  BY <1>1, <1>6 DEF ops, Status

\* The steps that observe GitHub.
LEMMA ObserveKeeps ==
  ASSUME IInv,
         \/ CreateTeam \/ ObserveMembers \/ RecordMembers \/ FinishUnmanaged
         \/ ResolveMembers \/ Rehearse \/ RehearseMembers
  PROVE  IInv'
<1>1. /\ ObjectOK /\ WorkerOK(w) /\ EnvironmentOK
      /\ StatusOK(status) /\ StatusOK(w.snap) /\ w \in Worker
      /\ status \in Status /\ w.snap \in Status
  BY DEF IInv, ObjectOK, WorkerOK, StatusOK
<1>2. w.seen \in SUBSET Users /\ w.desired \in SUBSET Users
  BY <1>1 DEF Worker
<1>3. CASE CreateTeam
  <2>1. EnvironmentOK'
    BY <1>1, <1>3 DEF CreateTeam, EnvironmentOK, budgets
  <2> QED
    BY <1>1, <1>3, <2>1, StopKeeps DEF CreateTeam
<1>4. CASE ObserveMembers
  <2>1. ObjectOK' /\ EnvironmentOK'
    BY <1>1, <1>4, SaveKeeps, OutsideKeeps DEF ObserveMembers
  <2>2. w' = [w EXCEPT !.pc = "observed", !.seen = ghMembers, !.current = FALSE]
        /\ ghMembers \in SUBSET Users
    BY <1>1, <1>4 DEF ObserveMembers, EnvironmentOK
  <2>3. WorkerOK(w')
    BY <1>1, <2>2 DEF WorkerOK, Worker, Steps
  <2> QED
    BY <2>1, <2>3 DEF IInv
<1>5. CASE RecordMembers
  <2> DEFINE st == [status EXCEPT !.members = w.seen]
  <2>1. /\ st \in Status /\ st.operations = status.operations
        /\ st.teamStatus = status.teamStatus
    BY <1>1, <1>2 DEF Status
  <2>2. StatusOK(st)
    BY <1>1, <2>1 DEF StatusOK, HasWorkIfPending
  <2>3. Save(st) \/ UNCHANGED object
    BY <1>5 DEF RecordMembers, SaveLatest
  <2>4. ObjectOK' /\ EnvironmentOK'
    BY <1>1, <1>5, <2>2, <2>3, SaveKeeps, OutsideKeeps DEF RecordMembers
  <2>5. WorkerOK(w')
    BY <1>1, <1>5, GotoOK DEF RecordMembers, Goto, Steps
  <2> QED
    BY <2>4, <2>5 DEF IInv
<1>6. CASE FinishUnmanaged
  <2> DEFINE st == [ teamStatus |-> "complete", error |-> "none",
                     operations |-> WithoutPending(status.operations),
                     members    |-> w.seen ]
  <2>1. WithoutPending(status.operations) \in Seq(Operation(Users))
    BY <1>1, WithoutPositionsOK DEF StatusOK, Status, WithoutPending
  <2>2. st \in Status
    BY <1>2, <2>1 DEF Status, TeamStates, Errors
  <2>3. StatusOK(st)
    BY <1>1, <2>2, DropOK
  <2>4. (Save(st) \/ UNCHANGED object) /\ Stop /\ UNCHANGED Outside
    BY <1>6 DEF FinishUnmanaged, SaveLatest
  <2> HIDE DEF st
  <2> QED
    BY <1>1, <2>3, <2>4, StopKeeps, OutsideKeeps
<1>7. CASE ResolveMembers
  <2>1. ObjectOK' /\ EnvironmentOK'
    BY <1>1, <1>7, SaveKeeps, OutsideKeeps DEF ResolveMembers
  <2>2. desired \in Listings /\ desired \in SUBSET Users
    BY <1>1 DEF EnvironmentOK, Listings
  <2>3. w' = [w EXCEPT !.pc = "resolved", !.desired = desired]
    BY <1>7 DEF ResolveMembers
  <2>4. WorkerOK(w')
    BY <1>1, <2>2, <2>3 DEF WorkerOK, Worker, Steps
  <2> QED
    BY <2>1, <2>4 DEF IInv
<1>8. CASE Rehearse
  <2> DEFINE st == [status EXCEPT !.operations = CompletePending(@),
                                  !.teamStatus = "dry-run",
                                  !.members = w.desired]
  <2>1. StatusOK(st)
    BY <1>1, <1>2, CompleteOK
  <2>2. Save(st) /\ Stop /\ UNCHANGED Outside
    BY <1>8 DEF Rehearse, SaveLatest
  <2> HIDE DEF st
  <2> QED
    BY <1>1, <2>1, <2>2, StopKeeps, OutsideKeeps
<1>9. CASE RehearseMembers
  <2> DEFINE st == [status EXCEPT !.members = w.desired,
                                  !.teamStatus = "dry-run"]
  <2>1. st \in Status /\ st.operations = status.operations
        /\ st.teamStatus = "dry-run"
    BY <1>1, <1>2 DEF Status, TeamStates
  <2>2. Save(st) /\ Stop /\ UNCHANGED Outside
    BY <1>9 DEF RehearseMembers, SaveLatest
  <2> HIDE DEF st
  <2> QED
    BY <1>1, <2>1, <2>2, RewriteOK, StopKeeps, OutsideKeeps
<1> QED
  BY <1>3, <1>4, <1>5, <1>6, <1>7, <1>8, <1>9

\* The steps that plan operations.
LEMMA PlanKeeps ==
  ASSUME IInv, PlanOperations \/ NothingToPlan
  PROVE  IInv'
<1>1. /\ ObjectOK /\ WorkerOK(w) /\ EnvironmentOK
      /\ StatusOK(status) /\ StatusOK(w.snap) /\ w \in Worker
      /\ status \in Status /\ w.snap \in Status /\ StatusOK(cache.status)
  BY DEF IInv, ObjectOK, WorkerOK, StatusOK
<1>2. CASE PlanOperations
  <2>1. w.desired \in Listings
    BY <1>1, <1>2 DEF PlanOperations, Planning, WorkerOK
  <2>2. PICK adds \in Orders(Additions(w.snap, w.desired)),
             removes \in Orders(Removals(w.snap, w.desired)) :
               Save([ teamStatus |-> "pending", error |-> "none",
                      operations |-> w.snap.operations \o Queue("add", adds)
                                       \o Queue("remove", removes),
                      members    |-> PlannedMembers(meta, w.snap.members,
                                                    w.desired) ])
    BY <1>2 DEF PlanOperations, SaveLatest
  <2>3. PlannedMembers(meta, w.snap.members, w.desired) \in SUBSET Users
    BY <1>1 DEF PlannedMembers, Worker, Status
  <2>4. StatusOK([ teamStatus |-> "pending", error |-> "none",
                   operations |-> w.snap.operations \o Queue("add", adds)
                                    \o Queue("remove", removes),
                   members    |-> PlannedMembers(meta, w.snap.members,
                                                 w.desired) ])
    BY <1>1, <1>2, <2>1, <2>3, PlanOK DEF PlanOperations
  <2> QED
    BY <1>1, <1>2, <2>2, <2>4, StopKeeps, OutsideKeeps DEF PlanOperations
<1>3. CASE NothingToPlan
  <2> DEFINE st == [status EXCEPT !.teamStatus = "complete", !.error = "none"]
  <2>1. st \in Status /\ st.operations = status.operations
        /\ st.teamStatus = "complete"
    BY <1>1 DEF Status, TeamStates, Errors
  <2>2. StatusOK(st)
    BY <1>1, <2>1, RewriteOK
  <2>3. /\ Save(st) \/ UNCHANGED object
        /\ \/ w' = [w EXCEPT !.pc = "switch"]
           \/ w' = [w EXCEPT !.pc = "switch", !.snap = st]
           \/ w' = [w EXCEPT !.pc = "switch", !.snap = cache.status]
        /\ UNCHANGED Outside
    BY <1>3 DEF NothingToPlan, SaveLatest, Goto
  <2> HIDE DEF st
  <2>4. ObjectOK' /\ EnvironmentOK'
    BY <1>1, <2>2, <2>3, SaveKeeps, OutsideKeeps
  <2>5. ASSUME NEW s, StatusOK(s)
        PROVE  WorkerOK([w EXCEPT !.pc = "switch", !.snap = s])
    <3>1. s \in Status
      BY <2>5 DEF StatusOK
    <3> QED
      BY <1>1, <2>5, <3>1 DEF WorkerOK, Worker, Steps
  <2>6. WorkerOK([w EXCEPT !.pc = "switch"])
    BY <1>1, GotoOK DEF Steps
  <2>7. WorkerOK(w')
    BY <1>1, <2>2, <2>3, <2>5, <2>6
  <2> QED
    BY <2>4, <2>7 DEF IInv
<1> QED
  BY <1>2, <1>3

\* The steps that decide what to do with them.
LEMMA DecideKeeps ==
  ASSUME IInv,
         \/ EnterDryRun \/ LeaveDryRun \/ NothingToDo \/ DropUnmanaged
         \/ StartExecution
  PROVE  IInv'
<1>1. /\ ObjectOK /\ WorkerOK(w) /\ EnvironmentOK
      /\ StatusOK(status) /\ StatusOK(w.snap) /\ w \in Worker
      /\ status \in Status /\ w.snap \in Status
  BY DEF IInv, ObjectOK, WorkerOK, StatusOK
<1>2. CASE EnterDryRun
  <2> DEFINE st == [status EXCEPT !.teamStatus = "dry-run"]
  <2>1. st \in Status /\ st.operations = status.operations
        /\ st.teamStatus = "dry-run"
    BY <1>1 DEF Status, TeamStates
  <2>2. Save(st) /\ Stop /\ UNCHANGED Outside
    BY <1>2 DEF EnterDryRun, SaveLatest
  <2> HIDE DEF st
  <2> QED
    BY <1>1, <2>1, <2>2, RewriteOK, StopKeeps, OutsideKeeps
<1>3. CASE LeaveDryRun
  <2>1. Save(Recomputed(status)) /\ Stop /\ UNCHANGED Outside
    BY <1>3 DEF LeaveDryRun, SaveLatest
  <2>2. StatusOK(Recomputed(status))
    BY <1>1, RecomputedOK DEF StatusOK
  <2> QED
    BY <1>1, <2>1, <2>2, StopKeeps, OutsideKeeps
<1>4. CASE NothingToDo
  BY <1>1, <1>4, StopKeeps, OutsideKeeps DEF NothingToDo
<1>5. CASE DropUnmanaged
  <2> DEFINE st == [status EXCEPT !.teamStatus = "complete", !.error = "none",
                                  !.operations = WithoutPending(@)]
  <2>1. WithoutPending(status.operations) \in Seq(Operation(Users))
    BY <1>1, WithoutPositionsOK DEF StatusOK, Status, WithoutPending
  <2>2. /\ st \in Status
        /\ st.operations = WithoutPending(status.operations)
        /\ st.teamStatus = "complete"
    BY <1>1, <2>1 DEF Status, TeamStates, Errors
  <2>3. StatusOK(st)
    BY <1>1, <2>2, DropOK
  <2>4. Save(st) /\ Stop /\ UNCHANGED Outside
    BY <1>5 DEF DropUnmanaged, SaveLatest
  <2> HIDE DEF st
  <2> QED
    BY <1>1, <2>3, <2>4, StopKeeps, OutsideKeeps
<1>6. CASE StartExecution
  <2>1. ObjectOK' /\ EnvironmentOK'
    BY <1>1, <1>6, SaveKeeps, OutsideKeeps DEF StartExecution
  <2>2. \/ w' = [w EXCEPT !.pc = "execute", !.ops = w.snap.operations,
                          !.current = FALSE]
        \/ w' = Rest
    BY <1>6 DEF StartExecution
  <2>3. ~DryRun(w.meta) /\ w.snap.operations \in Seq(Operation(Users))
    BY <1>1, <1>6 DEF StartExecution, Executing, Status
  <2>4. WorkerOK([w EXCEPT !.pc = "execute", !.ops = w.snap.operations,
                           !.current = FALSE])
    BY <1>1, <2>3 DEF WorkerOK, Worker, Steps, StatusOK
  <2> QED
    BY <2>1, <2>2, <2>4, RestOK DEF IInv
<1> QED
  BY <1>2, <1>3, <1>4, <1>5, <1>6

\* The steps that execute them.
LEMMA ExecuteKeeps ==
  ASSUME IInv, Execution \/ \E i \in DOMAIN w.ops : OperationFails(i)
  PROVE  IInv'
<1>1. /\ ObjectOK /\ WorkerOK(w) /\ EnvironmentOK
      /\ StatusOK(w.snap) /\ w \in Worker /\ w.snap \in Status
      /\ ghMembers \in SUBSET Users
  BY DEF IInv, WorkerOK, StatusOK, EnvironmentOK
<1>2. \A i \in DOMAIN w.ops : w.ops[i].user \in Users
  <2>1. w.ops \in Seq(Operation(Users))
    BY <1>1 DEF Worker
  <2>2. \A i \in DOMAIN w.ops : w.ops[i] \in Operation(Users)
    BY <2>1
  <2> QED
    BY <2>2 DEF Operation
<1>3. ASSUME NEW i \in DOMAIN w.ops, IsNext(i), NEW s \in OperationStates,
             Finish(i, s)
      PROVE  WorkerOK(w')
  BY <1>1, <1>3, FinishOK DEF IsNext, InState
<1>4. {"skipped", "complete", "notfound", "failed"} \subseteq OperationStates
  BY DEF OperationStates, TerminalStates
<1>5. ASSUME NEW i \in DOMAIN w.ops, SkipOperation(i)
      PROVE  IInv'
  <2>1. ObjectOK' /\ EnvironmentOK'
    BY <1>1, <1>5, SaveKeeps, OutsideKeeps DEF SkipOperation
  <2>2. WorkerOK(w')
    BY <1>3, <1>4, <1>5 DEF SkipOperation
  <2> QED
    BY <2>1, <2>2 DEF IInv
<1>6. ASSUME NEW i \in DOMAIN w.ops, AddUser(i)
      PROVE  IInv'
  <2>1. ObjectOK' /\ ghMembers' \in SUBSET Users
    BY <1>1, <1>2, <1>6, SaveKeeps DEF AddUser
  <2>2. EnvironmentOK'
    BY <1>1, <1>6, <2>1 DEF AddUser, EnvironmentOK, budgets
  <2>3. WorkerOK(w')
    BY <1>3, <1>4, <1>6 DEF AddUser
  <2> QED
    BY <2>1, <2>2, <2>3 DEF IInv
<1>7. ASSUME NEW i \in DOMAIN w.ops, RemoveUser(i)
      PROVE  IInv'
  <2>1. ObjectOK' /\ ghMembers' \in SUBSET Users
    BY <1>1, <1>7, SaveKeeps DEF RemoveUser
  <2>2. EnvironmentOK'
    BY <1>1, <1>7, <2>1 DEF RemoveUser, EnvironmentOK, budgets
  <2>3. WorkerOK(w')
    BY <1>3, <1>4, <1>7 DEF RemoveUser
  <2> QED
    BY <2>1, <2>2, <2>3 DEF IInv
<1>8. ASSUME NEW i \in DOMAIN w.ops, OperationFails(i)
      PROVE  IInv'
  <2>1. ObjectOK' /\ ghMembers' \in SUBSET Users /\ faults' \in Nat
    BY <1>1, <1>2, <1>8, SaveKeeps, FaultKeeps DEF OperationFails
  <2>2. EnvironmentOK'
    BY <1>1, <1>8, <2>1 DEF OperationFails, EnvironmentOK
  <2>3. WorkerOK(w')
    BY <1>3, <1>4, <1>8 DEF OperationFails
  <2> QED
    BY <2>1, <2>2, <2>3 DEF IInv
<1>9. CASE ReadBack
  <2>1. ObjectOK' /\ EnvironmentOK'
    BY <1>1, <1>9, SaveKeeps, OutsideKeeps DEF ReadBack
  <2>2. WorkerOK(w')
    BY <1>1, <1>9 DEF ReadBack, WorkerOK, Worker, Steps
  <2> QED
    BY <2>1, <2>2 DEF IInv
<1>10. CASE ReadBackFails
  BY <1>1, <1>10, StopKeeps, OutsideKeeps DEF ReadBackFails
<1>11. CASE Report
  <2> DEFINE name == IF w.failed THEN "failed"
                     ELSE IF DryRun(w.meta) THEN "dry-run" ELSE "complete"
             st   == [w.snap EXCEPT !.operations = w.ops, !.members = w.seen,
                                    !.teamStatus = name]
  <2>1. name \in TeamStates /\ name # "pending"
    BY DEF TeamStates
  <2>2. Save(st) /\ Stop /\ UNCHANGED Outside
    BY <1>11 DEF Report, SaveLatest
  <2> HIDE DEF name
  <2>3. /\ st \in Status /\ st.operations = w.ops /\ st.teamStatus = name
    BY <1>1, <2>1 DEF Status, Worker
  <2>4. StatusOK(st)
    BY <1>1, <2>1, <2>3, NotPendingOK DEF WorkerOK
  <2> HIDE DEF st
  <2> QED
    BY <1>1, <2>2, <2>4, StopKeeps, OutsideKeeps
<1> QED
  BY <1>5, <1>6, <1>7, <1>8, <1>9, <1>10, <1>11 DEF Execution

\* The other faults, and the environment.
LEMMA FaultsKeep ==
  ASSUME IInv, RateLimitHit \/ ResolveFails \/ Abandon
  PROVE  IInv'
<1>1. /\ ObjectOK /\ WorkerOK(w) /\ EnvironmentOK
      /\ StatusOK(status) /\ StatusOK(w.snap) /\ w.snap \in Status
  BY DEF IInv, ObjectOK, WorkerOK, StatusOK
<1>2. CASE RateLimitHit
  <2>1. PICK e \in LimitErrors :
          SaveOwn([w.snap EXCEPT !.teamStatus = "ratelimited", !.error = e])
    BY <1>2 DEF RateLimitHit
  <2> DEFINE st == [w.snap EXCEPT !.teamStatus = "ratelimited", !.error = e]
  <2>2. e \in Errors
    BY LimitAssumption DEF Errors
  <2>3. st \in Status /\ st.operations = w.snap.operations
        /\ st.teamStatus = "ratelimited"
    BY <1>1, <2>2 DEF Status, TeamStates
  <2>4. Save(st) \/ UNCHANGED object
    BY <2>1 DEF SaveOwn
  <2> HIDE DEF st
  <2>5. StatusOK(st)
    BY <1>1, <2>3, RewriteOK
  <2>6. EnvironmentOK'
    BY <1>1, <1>2, FaultKeeps DEF RateLimitHit, EnvironmentOK, github
  <2> QED
    BY <1>2, <2>4, <2>5, <2>6, StopKeeps DEF RateLimitHit
<1>3. CASE ResolveFails
  <2>1. Save(Failed(status)) /\ Stop
    BY <1>3 DEF ResolveFails, SaveLatest
  <2>2. EnvironmentOK'
    BY <1>1, <1>3, FaultKeeps DEF ResolveFails, EnvironmentOK, github
  <2> QED
    BY <1>1, <2>1, <2>2, FailedOK, StopKeeps
<1>4. CASE Abandon
  <2>1. EnvironmentOK'
    BY <1>1, <1>4, FaultKeeps DEF Abandon, EnvironmentOK, github
  <2> QED
    BY <1>1, <1>4, <2>1, StopKeeps DEF Abandon
<1> QED
  BY <1>2, <1>3, <1>4

\* The steps of the surroundings.
LEMMA EnvironmentKeeps ==
  ASSUME IInv, Environment
  PROVE  IInv'
<1>1. /\ ObjectOK /\ WorkerOK(w) /\ EnvironmentOK /\ w \in Worker
      /\ StatusOK(status) /\ status \in Status /\ meta \in Meta
  BY DEF IInv, ObjectOK, WorkerOK, StatusOK
<1>2. CASE CacheSync
  <2>1. ObjectOK'
    BY <1>1, <1>2 DEF CacheSync, ObjectOK
  <2>2. EnvironmentOK'
    BY <1>1, <1>2, OutsideKeeps DEF CacheSync
  <2>3. WorkerOK(w')
    BY <1>1, <1>2 DEF CacheSync
  <2> QED
    BY <2>1, <2>2, <2>3 DEF IInv
<1>3. ASSUME NEW m \in Metas, EditMeta(m)
      PROVE  IInv'
  <2>1. m \in Meta
    BY MetasAssumption
  <2>2. ObjectOK'
    BY <1>1, <1>3, <2>1 DEF EditMeta, ObjectOK
  <2>3. EnvironmentOK'
    BY <1>1, <1>3, EditKeeps DEF EditMeta, EnvironmentOK, github
  <2>4. WorkerOK(w')
    BY <1>1, <1>3 DEF EditMeta, WorkerOK, Worker
  <2> QED
    BY <2>2, <2>3, <2>4 DEF IInv
<1>4. ASSUME UNCHANGED <<object, w>>, EnvironmentOK'
      PROVE  IInv'
  <2>1. ObjectOK'
    BY <1>1, <1>4, SaveKeeps
  <2> QED
    BY <1>1, <1>4, <2>1 DEF IInv
<1>5. ASSUME NEW S \in Listings, ChangeDesired(S)
      PROVE  IInv'
  <2>1. EnvironmentOK'
    BY <1>1, <1>5, EditKeeps DEF ChangeDesired, EnvironmentOK, github
  <2> QED
    BY <1>4, <1>5, <2>1 DEF ChangeDesired
<1>6. ASSUME NEW u \in Users \ Ghosts, ChangeMember(u)
      PROVE  IInv'
  <2>1. EnvironmentOK'
    BY <1>1, <1>6, EditKeeps DEF ChangeMember, EnvironmentOK
  <2> QED
    BY <1>4, <1>6, <2>1 DEF ChangeMember
<1>7. CASE DeleteTeam
  <2>1. EnvironmentOK'
    BY <1>1, <1>7, FaultKeeps DEF DeleteTeam, EnvironmentOK
  <2> QED
    BY <1>4, <1>7, <2>1 DEF DeleteTeam
<1>8. CASE LoseConfiguration
  <2>1. EnvironmentOK'
    BY <1>1, <1>8, FaultKeeps DEF LoseConfiguration, EnvironmentOK, github
  <2> QED
    BY <1>4, <1>8, <2>1 DEF LoseConfiguration
<1>9. CASE RestoreConfiguration
  <2>1. EnvironmentOK'
    BY <1>1, <1>9 DEF RestoreConfiguration, EnvironmentOK, github, budgets
  <2> QED
    BY <1>4, <1>9, <2>1 DEF RestoreConfiguration
<1>10. CASE PassReset
  <2>1. EnvironmentOK'
    BY <1>1, <1>10 DEF PassReset, EnvironmentOK, github, budgets
  <2> QED
    BY <1>4, <1>10, <2>1 DEF PassReset
<1> QED
  BY <1>2, <1>3, <1>5, <1>6, <1>7, <1>8, <1>9, <1>10 DEF Environment

\* Every step keeps the invariant.
LEMMA NextKeeps == IInv /\ [Next]_vars => IInv'
<1> SUFFICES ASSUME IInv, [Next]_vars
             PROVE  IInv'
  OBVIOUS
<1>1. CASE WorkerStep
  BY <1>1, StartKeeps, ObserveKeeps, PlanKeeps, DecideKeeps, ExecuteKeeps
     DEF WorkerStep
<1>2. CASE WorkerFault
  BY <1>2, FaultsKeep, ExecuteKeeps DEF WorkerFault
<1>3. CASE Environment
  BY <1>3, EnvironmentKeeps
<1>4. CASE UNCHANGED vars
  <2>1. UNCHANGED <<object, w, Outside>>
    BY <1>4 DEF vars, object, Outside, github, budgets
  <2>2. ObjectOK' /\ EnvironmentOK'
    BY <2>1, SaveKeeps, OutsideKeeps, EmptyStatusOK DEF IInv
  <2> QED
    BY <2>1, <2>2 DEF IInv
<1> QED
  BY <1>1, <1>2, <1>3, <1>4 DEF Next

(***************************************************************************)
(* The object, the informer's copy and the worker are sound in every       *)
(* reachable state.                                                        *)
(***************************************************************************)
THEOREM Invariance == Spec => []IInv
BY InitOK, NextKeeps, PTL DEF Spec

-----------------------------------------------------------------------------
(* The safety properties                                                   *)

\* Every variable keeps its type.
THEOREM TypeCorrect == Spec => []TypeOK
<1>1. IInv => TypeOK
  BY DEF IInv, ObjectOK, WorkerOK, EnvironmentOK, StatusOK, Listings, TypeOK
<1> QED
  BY <1>1, Invariance, PTL

\* A pending team has a pending operation, so that its execution settles it.
THEOREM PendingTeamHasWork == Spec => []PendingHasWork
<1>1. IInv => PendingHasWork
  BY DEF IInv, ObjectOK, StatusOK, PendingHasWork
<1> QED
  BY <1>1, Invariance, PTL

\* No operation is queued while one of its type and user is live.
THEOREM OperationsLiveOnce == Spec => []OneLiveOperation
<1>1. IInv => OneLiveOperation
  BY DEF IInv, ObjectOK, StatusOK, OneLiveOperation
<1> QED
  BY <1>1, Invariance, PTL

\* Only removals some listing and additions some listing justifies are queued.
THEOREM OperationsJustified == Spec => []JustifiedOperations
<1>1. IInv => JustifiedOperations
  BY DEF IInv, ObjectOK, StatusOK, JustifiedOperations
<1> QED
  BY <1>1, Invariance, PTL

\* The steps that change memberships, and what of.
LEMMA WhoChangesMembers ==
  ASSUME IInv, [Next]_vars, ByWorker, ghMembers' # ghMembers
  PROVE  \E i \in DOMAIN w.ops :
           /\ w.pc = "execute"
           /\ \/ /\ w.ops[i].operation = "add"
                 /\ ghMembers' \subseteq ghMembers \cup {w.ops[i].user}
                 /\ ghMembers \subseteq ghMembers'
              \/ /\ w.ops[i].operation # "add"
                 /\ ghMembers \subseteq ghMembers' \cup {w.ops[i].user}
                 /\ ghMembers' \subseteq ghMembers
<1>1. CASE WorkerStep
  <2>1. ASSUME UNCHANGED github PROVE FALSE
    BY <2>1 DEF github
  <2>2. ASSUME UNCHANGED Outside PROVE FALSE
    BY <2>1, <2>2 DEF Outside
  <2>3. CreateTeam => FALSE
    BY DEF CreateTeam
  <2>4. Execution
    BY <1>1, <2>2, <2>3
       DEF WorkerStep, Begin, WipeStatus, RemoveForceLabel, WaitForReset,
           LeaveRateLimit, CleanExpired, FailSpec, FailConfiguration,
           ObserveMembers, RecordMembers, FinishUnmanaged, ResolveMembers,
           Rehearse, RehearseMembers, PlanOperations, NothingToPlan,
           EnterDryRun, LeaveDryRun, NothingToDo, DropUnmanaged,
           StartExecution
  <2>5. PICK i \in DOMAIN w.ops : AddUser(i) \/ RemoveUser(i)
    BY <2>2, <2>4 DEF Execution, SkipOperation, ReadBack, ReadBackFails, Report
  <2> QED
    BY <2>5 DEF AddUser, RemoveUser, IsNext
<1>2. CASE WorkerFault
  <2>1. PICK i \in DOMAIN w.ops : OperationFails(i)
    BY <1>2 DEF WorkerFault, RateLimitHit, ResolveFails, Abandon, github
  <2> QED
    BY <2>1 DEF OperationFails, IsNext
<1>3. CASE Environment
  <2>1. UNCHANGED w \/ \E m \in Metas : EditMeta(m)
    BY <1>3 DEF Environment, CacheSync, DeleteTeam, LoseConfiguration,
                RestoreConfiguration, PassReset, ChangeDesired, ChangeMember
  <2>2. UNCHANGED w => FALSE
    BY DEF ByWorker
  <2>3. \A m \in Metas : EditMeta(m) => UNCHANGED ghMembers
    BY DEF EditMeta, github
  <2> QED
    BY <2>1, <2>2, <2>3
<1>4. CASE UNCHANGED vars
  BY <1>4 DEF vars, github
<1> QED
  BY <1>1, <1>2, <1>3, <1>4 DEF Next

(***************************************************************************)
(* The worker removes no user all listings contain and adds none that no   *)
(* listing contains.                                                       *)
(***************************************************************************)
THEOREM MembersProtected == Spec => ProtectedMembers
<1>1. ASSUME IInv, [Next]_vars
      PROVE  [ByWorker => /\ ghMembers \cap Core \subseteq ghMembers'
                          /\ ghMembers' \cap Strangers \subseteq ghMembers]_vars
  <2> SUFFICES ASSUME ByWorker, ghMembers' # ghMembers
               PROVE  /\ ghMembers \cap Core \subseteq ghMembers'
                      /\ ghMembers' \cap Strangers \subseteq ghMembers
    OBVIOUS
  <2>1. PICK i \in DOMAIN w.ops :
          \/ /\ w.ops[i].operation = "add"
             /\ ghMembers' \subseteq ghMembers \cup {w.ops[i].user}
             /\ ghMembers \subseteq ghMembers'
          \/ /\ w.ops[i].operation # "add"
             /\ ghMembers \subseteq ghMembers' \cup {w.ops[i].user}
             /\ ghMembers' \subseteq ghMembers
    BY <1>1, WhoChangesMembers
  <2>2. w.ops[i].user \notin IF w.ops[i].operation = "add" THEN Strangers
                             ELSE Core
    BY <1>1 DEF IInv, WorkerOK, Justified
  <2> QED
    BY <2>1, <2>2
<1> QED
  BY <1>1, Invariance, PTL DEF Spec, ProtectedMembers

(***************************************************************************)
(* A reconcile that read the dryRun label changes no membership.           *)
(***************************************************************************)
THEOREM DryRunKept == Spec => DryRunKeepsMembers
<1>1. ASSUME IInv, [Next]_vars
      PROVE  [DryRun(w.meta) /\ ByWorker => UNCHANGED ghMembers]_vars
  <2> SUFFICES ASSUME DryRun(w.meta), ByWorker, ghMembers' # ghMembers
               PROVE  FALSE
    OBVIOUS
  <2>1. w.pc = "execute"
    BY <1>1, WhoChangesMembers
  <2> QED
    BY <1>1, <2>1 DEF IInv, WorkerOK
<1> QED
  BY <1>1, Invariance, PTL DEF Spec, DryRunKeepsMembers

-----------------------------------------------------------------------------
(* What a list of operations announces                                     *)

\* The changes a status with these operations announces.
OutstandingIn(ops) == {Change(ops[i]) : i \in InState(ops, "pending")}

\* The new list announces at least what the old one does, or at most that.
Monotonic(old, new) ==
  \/ OutstandingIn(old) \subseteq OutstandingIn(new)
  \/ OutstandingIn(new) \subseteq OutstandingIn(old)

\* A list without pending operations announces nothing.
LEMMA NothingPending ==
  ASSUME NEW ops, ~PendingOperationsFound(ops)
  PROVE  OutstandingIn(ops) = {}
BY DEF PendingOperationsFound, OutstandingIn

\* Dropping operations strikes announcements off.
LEMMA DroppingStrikesOff ==
  ASSUME NEW ops \in Seq(Operation(Users)), NEW expired
  PROVE  OutstandingIn(WithoutPositions(ops, expired)) \subseteq OutstandingIn(ops)
<1> DEFINE K    == DOMAIN ops \ expired
           kept == Keep(ops, K)
<1>1. \A j \in DOMAIN kept : \E k \in K : kept[j] = ops[k]
  <2>1. K \in SUBSET DOMAIN ops
    OBVIOUS
  <2> QED
    BY <2>1, KeepProperties
<1> HIDE DEF kept
<1>2. OutstandingIn(kept) \subseteq OutstandingIn(ops)
  BY <1>1 DEF OutstandingIn, InState
<1> QED
  BY <1>2 DEF WithoutPositions, kept

\* A rehearsal leaves nothing announced.
LEMMA CompletingStrikesOff ==
  ASSUME NEW ops \in Seq(Operation(Users))
  PROVE  OutstandingIn(CompletePending(ops)) = {}
<1>1. /\ DOMAIN CompletePending(ops) = DOMAIN ops
      /\ \A i \in DOMAIN ops :
           CompletePending(ops)[i].state =
             IF ops[i].state = "pending" THEN "complete" ELSE ops[i].state
  BY CompletePendingProperties
<1>2. ~PendingOperationsFound(CompletePending(ops))
  BY <1>1 DEF PendingOperationsFound, InState
<1> QED
  BY <1>2, NothingPending

\* An operation that ends is struck off, the others stay as they are.
LEMMA FinishingStrikesOff ==
  ASSUME NEW ops \in Seq(Operation(Users)), NEW i \in DOMAIN ops, NEW s,
         s # "pending"
  PROVE  OutstandingIn([ops EXCEPT ![i].state = s]) \subseteq OutstandingIn(ops)
<1> DEFINE new == [ops EXCEPT ![i].state = s]
<1>1. \A j \in DOMAIN ops : ops[j] \in Operation(Users)
  OBVIOUS
<1>2. /\ DOMAIN new = DOMAIN ops
      /\ new[i].state = s
      /\ \A j \in DOMAIN ops : j # i => new[j] = ops[j]
  BY <1>1 DEF Operation
<1> HIDE DEF new
<1>3. InState(new, "pending") \subseteq InState(ops, "pending") \ {i}
  BY <1>2 DEF InState
<1>4. InState(ops, "pending") \subseteq DOMAIN ops
  BY DEF InState
<1>5. \A j \in InState(new, "pending") : new[j] = ops[j]
  BY <1>2, <1>3, <1>4
<1>6. OutstandingIn(new) \subseteq OutstandingIn(ops)
  BY <1>3, <1>5 DEF OutstandingIn
<1> QED
  BY <1>6 DEF new

\* What is appended announces more.
LEMMA AppendingAnnounces ==
  ASSUME NEW ops \in Seq(Operation(Users)), NEW more \in Seq(Operation(Users))
  PROVE  OutstandingIn(ops) \subseteq OutstandingIn(ops \o more)
<1> DEFINE all == ops \o more
<1>1. /\ all \in Seq(Operation(Users))
      /\ \A k \in DOMAIN ops : k \in DOMAIN all /\ all[k] = ops[k]
  BY ConcatProperties
<1> HIDE DEF all
<1>2. OutstandingIn(ops) \subseteq OutstandingIn(all)
  BY <1>1 DEF OutstandingIn, InState
<1> QED
  BY <1>2 DEF all

\* A plan keeps what is announced.
LEMMA PlanningAnnounces ==
  ASSUME NEW st, StatusOK(st), NEW wanted \in Listings,
         NEW adds \in Orders(Additions(st, wanted)),
         NEW removes \in Orders(Removals(st, wanted))
  PROVE  OutstandingIn(st.operations) \subseteq
           OutstandingIn(st.operations \o Queue("add", adds)
                           \o Queue("remove", removes))
<1> DEFINE A == Additions(st, wanted)
           R == Removals(st, wanted)
           one == st.operations \o Queue("add", adds)
<1>1. /\ st.operations \in Seq(Operation(Users)) /\ st.members \in SUBSET Users
      /\ wanted \in SUBSET Users
  BY DEF StatusOK, Status, Listings
<1>2. A \in SUBSET Users /\ R \in SUBSET Users
  BY <1>1 DEF Additions, Removals
<1>3. IsFiniteSet(A) /\ IsFiniteSet(R)
  BY <1>2, FS_Subset, UsersAssumption
<1>4. adds \in Seq(A) /\ removes \in Seq(R)
  BY <1>3, OrdersProperties
<1> HIDE DEF A, R
<1>5. adds \in Seq(Users) /\ removes \in Seq(Users)
  BY <1>2, <1>4
<1>6. /\ Queue("add", adds) \in Seq(Operation(Users))
      /\ Queue("remove", removes) \in Seq(Operation(Users))
  BY <1>5, QueueProperties DEF OperationTypes
<1>7. one \in Seq(Operation(Users)) /\ OutstandingIn(st.operations) \subseteq OutstandingIn(one)
  BY <1>1, <1>6, AppendingAnnounces, ConcatProperties
<1> HIDE DEF one
<1>8. OutstandingIn(one) \subseteq OutstandingIn(one \o Queue("remove", removes))
  BY <1>6, <1>7, AppendingAnnounces
<1> QED
  BY <1>7, <1>8 DEF one

-----------------------------------------------------------------------------
(* The worker reads what is there.  When a reconcile starts from an up-to- *)
(* date cache, nobody but the worker writes the status until it ends, so   *)
(* what it has read stays what the API server has, but for what it wrote   *)
(* itself: it plans on top of the stored operations and executes only      *)
(* operations that are stored as pending, in a status that says pending.   *)

UpToDate ==
  /\ fresh => cache.status = status /\ cache.meta = meta
  /\ w.pc = "begun" =>
       /\ w.snap = status
       /\ cache.status.teamStatus = "pending" => w.snap.teamStatus = "pending"
  /\ w.pc \in {"observed", "synced", "resolved"} =>
       /\ w.snap.operations = status.operations
       /\ w.snap.teamStatus # "pending" /\ status.teamStatus # "pending"
       /\ cache.status.teamStatus # "pending"
  /\ w.pc = "switch" => w.snap.teamStatus # "pending"
  /\ w.pc = "execute" =>
       /\ status.teamStatus = "pending"
       /\ OutstandingIn(w.ops) \subseteq OutstandingIn(status.operations)
  /\ w.pc = "report" => OutstandingIn(w.ops) = {}

\* The steps that end a reconcile.
Ending ==
  \/ RemoveForceLabel \/ WaitForReset \/ FailSpec \/ FailConfiguration
  \/ \E expired \in SUBSET DOMAIN w.snap.operations : CleanExpired(expired)
  \/ CreateTeam \/ FinishUnmanaged \/ Rehearse \/ RehearseMembers
  \/ PlanOperations \/ EnterDryRun \/ LeaveDryRun \/ NothingToDo
  \/ DropUnmanaged \/ ReadBackFails \/ Report
  \/ RateLimitHit \/ ResolveFails \/ Abandon

\* A turn of an operation: it ends with an outcome, the object stays.
Turn(i) ==
  \/ SkipOperation(i) \/ AddUser(i) \/ RemoveUser(i) \/ OperationFails(i)

\* Every step of the worker ends the reconcile, is a turn, or is one of ten.
LEMMA StepsOfWorker ==
  ASSUME WorkerStep \/ WorkerFault
  PROVE  \/ Ending \/ Begin \/ WipeStatus \/ LeaveRateLimit \/ ObserveMembers
         \/ RecordMembers \/ ResolveMembers \/ NothingToPlan \/ StartExecution
         \/ ReadBack \/ \E i \in DOMAIN w.ops : Turn(i)
BY DEF WorkerStep, WorkerFault, Execution, Ending, Turn

\* A reconcile that ends leaves the worker at rest.
LEMMA EndingStops ==
  ASSUME Ending
  PROVE  Stop /\ (UNCHANGED object \/ (fresh' = FALSE))
<1>1. CASE \E expired \in SUBSET DOMAIN w.snap.operations : CleanExpired(expired)
  BY <1>1 DEF CleanExpired, SaveOwn, Save
<1>2. CASE RemoveForceLabel \/ WaitForReset \/ FailSpec \/ FailConfiguration
  BY <1>2 DEF RemoveForceLabel, WaitForReset, FailSpec, FailConfiguration,
              SaveOwn, SaveLatest, Save
<1>3. CASE CreateTeam \/ FinishUnmanaged \/ Rehearse \/ RehearseMembers
  BY <1>3 DEF CreateTeam, FinishUnmanaged, Rehearse, RehearseMembers,
              SaveLatest, Save
<1>4. CASE EnterDryRun \/ LeaveDryRun \/ NothingToDo \/ DropUnmanaged
  BY <1>4 DEF EnterDryRun, LeaveDryRun, NothingToDo, DropUnmanaged,
              SaveLatest, Save
<1>5. CASE PlanOperations
  BY <1>5 DEF PlanOperations, SaveLatest, Save
<1>6. CASE ReadBackFails \/ Report
  BY <1>6 DEF ReadBackFails, Report, SaveLatest, Save
<1>7. CASE RateLimitHit
  BY <1>7 DEF RateLimitHit, SaveOwn, Save
<1>8. CASE ResolveFails \/ Abandon
  BY <1>8 DEF ResolveFails, Abandon, SaveLatest, Save
<1> QED
  BY <1>1, <1>2, <1>3, <1>4, <1>5, <1>6, <1>7, <1>8 DEF Ending

\* A turn leaves the object alone and strikes its operation off the list
\* the worker executes.
LEMMA TurnStrikesOff ==
  ASSUME IInv, NEW i \in DOMAIN w.ops, Turn(i)
  PROVE  /\ w.pc = "execute" /\ w'.pc = "execute" /\ UNCHANGED object
         /\ w.ops[i].state = "pending"
         /\ OutstandingIn(w'.ops) \subseteq OutstandingIn(w.ops)
<1>1. w \in Worker /\ w.ops \in Seq(Operation(Users))
  BY DEF IInv, WorkerOK, Worker
<1>2. IsNext(i) /\ UNCHANGED object
  BY DEF Turn, SkipOperation, AddUser, RemoveUser, OperationFails
<1>3. \E s \in TerminalStates : Finish(i, s)
  BY DEF Turn, SkipOperation, AddUser, RemoveUser, OperationFails, TerminalStates
<1>4. PICK s \in TerminalStates : Finish(i, s)
  BY <1>3
<1>5. s # "pending"
  BY DEF TerminalStates
<1>6. w'.pc = w.pc /\ w'.ops = [w.ops EXCEPT ![i].state = s]
  BY <1>1, <1>4 DEF Finish, Worker
<1>7. OutstandingIn([w.ops EXCEPT ![i].state = s]) \subseteq OutstandingIn(w.ops)
  BY <1>1, <1>5, FinishingStrikesOff
<1> QED
  BY <1>2, <1>6, <1>7 DEF IsNext, InState

\* The worker's steps keep it up to date.
LEMMA WorkerUpToDate ==
  ASSUME StaleReads = FALSE, IInv, UpToDate, WorkerStep \/ WorkerFault
  PROVE  UpToDate'
<1>1. /\ w \in Worker /\ status \in Status /\ w.snap \in Status
      /\ cache \in [status : Status, meta : Meta]
  BY DEF IInv, ObjectOK, WorkerOK, StatusOK
<1>2. CASE Ending
  <2>1. w'.pc = "idle"
    BY <1>2, EndingStops DEF Stop, Rest
  <2>2. UNCHANGED object \/ fresh' = FALSE
    BY <1>2, EndingStops
  <2> QED
    BY <2>1, <2>2 DEF UpToDate, object
<1>3. CASE Begin
  <2>1. fresh /\ UNCHANGED object
    BY <1>3 DEF Begin
  <2>2. w'.pc = "begun" /\ w'.snap = cache.status
    BY <1>3 DEF Begin, Rest
  <2> QED
    BY <2>1, <2>2 DEF UpToDate, object
<1>4. CASE WipeStatus
  <2>1. w'.pc = "wiped" /\ fresh' = FALSE
    BY <1>1, <1>4 DEF WipeStatus, SaveLatest, Save, Goto, Worker
  <2> QED
    BY <2>1 DEF UpToDate
<1>5. CASE LeaveRateLimit
  <2> DEFINE st == Recomputed([w.snap EXCEPT !.error = "none"])
  <2>1. w.pc = "begun" /\ w.snap.teamStatus = "ratelimited"
    BY <1>5 DEF LeaveRateLimit, RateLimited
  <2> HIDE DEF st
  <2>2. /\ SaveOwn(st)
        /\ IF w.current THEN w' = [w EXCEPT !.snap = st] ELSE Stop
    BY <1>5 DEF LeaveRateLimit, st
  <2>3. CASE w.current
    <3>1. w'.pc = "begun" /\ w'.snap = st
      BY <1>1, <2>1, <2>2, <2>3 DEF Worker
    <3>2. status' = st /\ fresh' = FALSE /\ UNCHANGED cache
      BY <2>2, <2>3 DEF SaveOwn, Save
    <3> QED
      BY <2>1, <3>1, <3>2 DEF UpToDate
  <2>4. CASE ~w.current
    <3>1. w'.pc = "idle" /\ UNCHANGED object
      BY <2>2, <2>4 DEF SaveOwn, Stop, Rest
    <3> QED
      BY <3>1 DEF UpToDate, object
  <2> QED
    BY <2>3, <2>4
<1>6. CASE ObserveMembers
  <2>1. /\ w.pc = "begun" /\ w.snap.teamStatus # "pending" /\ UNCHANGED object
    BY <1>6 DEF ObserveMembers, Checking, Proceeding, Admitted
  <2>2. w'.pc = "observed" /\ w'.snap = w.snap
    BY <1>1, <1>6 DEF ObserveMembers, Worker
  <2> QED
    BY <2>1, <2>2 DEF UpToDate, object
<1>7. CASE RecordMembers
  <2>1. w.pc = "observed" /\ w'.pc = "synced" /\ w'.snap = w.snap
    BY <1>1, <1>7 DEF RecordMembers, Goto, Worker
  <2>2. CASE UNCHANGED object
    BY <2>1, <2>2 DEF UpToDate, object
  <2>3. CASE Save([status EXCEPT !.members = w.seen])
    <3>1. /\ status'.operations = status.operations
          /\ status'.teamStatus = status.teamStatus
          /\ fresh' = FALSE /\ UNCHANGED cache
      BY <1>1, <2>3 DEF Save, Status
    <3> QED
      BY <2>1, <3>1 DEF UpToDate
  <2> QED
    BY <1>7, <2>2, <2>3 DEF RecordMembers, SaveLatest
<1>8. CASE ResolveMembers
  <2>1. w.pc = "synced" /\ w'.pc = "resolved" /\ w'.snap = w.snap /\ UNCHANGED object
    BY <1>1, <1>8 DEF ResolveMembers, Worker
  <2> QED
    BY <2>1 DEF UpToDate, object
<1>9. CASE NothingToPlan
  <2> DEFINE st == [status EXCEPT !.teamStatus = "complete", !.error = "none"]
  <2>1. w.pc = "resolved" /\ w.snap.teamStatus # "pending"
        /\ cache.status.teamStatus # "pending"
    BY <1>9 DEF NothingToPlan, Planning, UpToDate
  <2>2. st.teamStatus = "complete"
    BY <1>1 DEF Status
  <2> HIDE DEF st
  <2>3. \/ w' = [w EXCEPT !.pc = "switch"] /\ UNCHANGED object
        \/ w' = [w EXCEPT !.pc = "switch", !.snap = st] /\ Save(st)
        \/ w' = [w EXCEPT !.pc = "switch", !.snap = cache.status] /\ UNCHANGED object
    BY <1>9 DEF NothingToPlan, SaveLatest, Goto, st
  <2>4. w'.pc = "switch" /\ w'.snap.teamStatus # "pending"
    BY <1>1, <2>1, <2>2, <2>3 DEF Worker
  <2>5. UNCHANGED object \/ fresh' = FALSE
    BY <2>3 DEF Save
  <2> QED
    BY <2>4, <2>5 DEF UpToDate, object
<1>10. CASE StartExecution
  <2>1. UNCHANGED object /\ w.snap.teamStatus = "pending"
        /\ w.pc \in {"switch", "begun"}
    BY <1>10 DEF StartExecution, Executing, Deciding, Proceeding, Admitted
  <2>2. w.snap = status
    BY <2>1 DEF UpToDate
  <2>3. \/ w' = [w EXCEPT !.pc = "execute", !.ops = w.snap.operations, !.current = FALSE]
        \/ w' = Rest
    BY <1>10 DEF StartExecution
  <2>4. \/ w'.pc = "execute" /\ w'.ops = w.snap.operations
        \/ w'.pc = "idle"
    <3> DEFINE ops == w.snap.operations
    <3> HIDE DEF ops
    <3>1. CASE w' = [w EXCEPT !.pc = "execute", !.ops = ops, !.current = FALSE]
      BY <1>1, <3>1 DEF Worker, ops
    <3> QED
      BY <2>3, <3>1 DEF Rest, ops
  <2> QED
    BY <2>1, <2>2, <2>4 DEF UpToDate, object
<1>11. CASE ReadBack
  <2>1. ~PendingOperationsFound(w.ops) /\ UNCHANGED object
    BY <1>11 DEF ReadBack, Executed
  <2>2. w'.pc = "report" /\ w'.ops = w.ops
    BY <1>1, <1>11 DEF ReadBack, Worker
  <2> QED
    BY <2>1, <2>2, NothingPending DEF UpToDate, object
<1>12. ASSUME NEW i \in DOMAIN w.ops, Turn(i) PROVE UpToDate'
  BY <1>12, TurnStrikesOff DEF UpToDate, object
<1> QED
  BY <1>2, <1>3, <1>4, <1>5, <1>6, <1>7, <1>8, <1>9, <1>10, <1>11, <1>12,
     StepsOfWorker

\* So do its surroundings: they write labels, specs and copies only.
LEMMA SurroundingsUpToDate ==
  ASSUME IInv, UpToDate, Environment \/ UNCHANGED vars
  PROVE  UpToDate'
<1>1. /\ w \in Worker /\ status \in Status
      /\ cache \in [status : Status, meta : Meta]
  BY DEF IInv, ObjectOK, WorkerOK, StatusOK
<1>2. CASE CacheSync
  <2>1. /\ UNCHANGED <<w, status, meta>>
        /\ cache'.status = status /\ cache'.meta = meta
    BY <1>2 DEF CacheSync
  <2> QED
    BY <2>1 DEF UpToDate
<1>3. ASSUME NEW m \in Metas, EditMeta(m) PROVE UpToDate'
  <2>1. /\ fresh' = FALSE /\ UNCHANGED <<status, cache>>
        /\ w' = [w EXCEPT !.current = FALSE]
    BY <1>3 DEF EditMeta
  <2>2. w'.pc = w.pc /\ w'.snap = w.snap /\ w'.ops = w.ops
    BY <1>1, <2>1 DEF Worker
  <2> QED
    BY <2>1, <2>2 DEF UpToDate
<1>4. CASE UNCHANGED <<object, w>>
  BY <1>4 DEF UpToDate, object
<1>5. (Environment \/ UNCHANGED vars) =>
        \/ CacheSync \/ \E m \in Metas : EditMeta(m)
        \/ UNCHANGED <<object, w>>
  BY DEF Environment, DeleteTeam, LoseConfiguration, RestoreConfiguration,
         PassReset, ChangeDesired, ChangeMember, vars
<1> QED
  BY <1>2, <1>3, <1>4, <1>5

\* What a reconcile works with is up to date in every reachable state.
LEMMA UpToDateReads ==
  ASSUME StaleReads = FALSE
  PROVE  Spec => []UpToDate
<1>1. Init => UpToDate
  BY DEF Init, UpToDate, Rest
<1>2. ASSUME IInv, UpToDate, [Next]_vars PROVE UpToDate'
  BY <1>2, WorkerUpToDate, SurroundingsUpToDate DEF Next
<1> QED
  BY <1>1, <1>2, Invariance, PTL DEF Spec

-----------------------------------------------------------------------------
(* Quiet under a rate limit, and the refinement of AnnouncedChanges        *)

\* Only the creation of the team and the turns of operations write to GitHub.
LEMMA WhoWritesGithub ==
  ASSUME WorkerStep \/ WorkerFault
  PROVE  \/ UNCHANGED <<github, edits>> \/ CreateTeam
         \/ \E i \in DOMAIN w.ops : Turn(i)
<1>1. UNCHANGED Outside => UNCHANGED <<github, edits>>
  BY DEF Outside, budgets
<1>2. CASE Ending
  <2>1. CASE \E expired \in SUBSET DOMAIN w.snap.operations : CleanExpired(expired)
    BY <1>1, <2>1 DEF CleanExpired
  <2>2. CASE RateLimitHit \/ ResolveFails \/ Abandon
    BY <2>2 DEF RateLimitHit, ResolveFails, Abandon
  <2>3. CASE PlanOperations
    BY <1>1, <2>3 DEF PlanOperations
  <2> QED
    BY <1>1, <1>2, <2>1, <2>2, <2>3
       DEF Ending, RemoveForceLabel, WaitForReset, FailSpec, FailConfiguration,
           FinishUnmanaged, Rehearse, RehearseMembers, EnterDryRun,
           LeaveDryRun, NothingToDo, DropUnmanaged, ReadBackFails, Report
<1>3. CASE \/ Begin \/ WipeStatus \/ LeaveRateLimit \/ ObserveMembers
           \/ RecordMembers \/ ResolveMembers \/ NothingToPlan
           \/ StartExecution \/ ReadBack
  BY <1>1, <1>3
     DEF Begin, WipeStatus, LeaveRateLimit, ObserveMembers, RecordMembers,
         ResolveMembers, NothingToPlan, StartExecution, ReadBack
<1> QED
  BY <1>2, <1>3, StepsOfWorker

\* Between a rate-limit answer and its reset time no reconcile creates a team
\* or changes a membership, when reconciles start from an up-to-date cache.
THEOREM QuietWhenLimited ==
  ASSUME StaleReads = FALSE
  PROVE  Spec => QuietWhileRateLimited
<1>1. ASSUME IInv, UpToDate, [Next]_vars
      PROVE  [RateLimited(status) /\ ~ResetPassed(status) /\ ByWorker
                => UNCHANGED github]_vars
  <2> SUFFICES ASSUME RateLimited(status), ByWorker
               PROVE  UNCHANGED github
    OBVIOUS
  <2>1. status.teamStatus = "ratelimited"
    BY DEF RateLimited
  <2>2. CASE WorkerStep \/ WorkerFault
    <3>1. ~CreateTeam
      BY <1>1 DEF UpToDate, CreateTeam, Checking, Proceeding, Admitted
    <3>2. \A i \in DOMAIN w.ops : ~Turn(i)
      BY <1>1, <2>1, TurnStrikesOff DEF UpToDate
    <3> QED
      BY <2>2, <3>1, <3>2, WhoWritesGithub
  <2>3. CASE Environment \/ UNCHANGED vars
    <3>1. UNCHANGED w \/ \E m \in Metas : EditMeta(m)
      BY <2>3 DEF Environment, CacheSync, DeleteTeam, LoseConfiguration,
                  RestoreConfiguration, PassReset, ChangeDesired, ChangeMember, vars
    <3>2. UNCHANGED w => FALSE
      BY DEF ByWorker
    <3>3. \A m \in Metas : EditMeta(m) => UNCHANGED github
      BY DEF EditMeta
    <3> QED
      BY <3>1, <3>2, <3>3
  <2> QED
    BY <1>1, <2>2, <2>3 DEF Next
<1> QED
  BY <1>1, Invariance, UpToDateReads, PTL DEF Spec, QuietWhileRateLimited

\* How the writes of a reconcile that ends change what is announced.
LEMMA EndingAnnounces ==
  ASSUME IInv, UpToDate, Ending
  PROVE  Monotonic(status.operations, status'.operations)
<1>1. /\ w \in Worker /\ status \in Status /\ w.snap \in Status
      /\ StatusOK(status) /\ StatusOK(w.snap) /\ WorkerOK(w)
      /\ status.operations \in Seq(Operation(Users))
  BY DEF IInv, ObjectOK, WorkerOK, StatusOK, Status
<1>2. ASSUME UNCHANGED status PROVE Monotonic(status.operations, status'.operations)
  BY <1>2 DEF Monotonic
<1>3. ASSUME status'.operations = status.operations
      PROVE  Monotonic(status.operations, status'.operations)
  BY <1>3 DEF Monotonic
<1>4. ASSUME status'.operations = WithoutPending(status.operations)
      PROVE  Monotonic(status.operations, status'.operations)
  BY <1>1, <1>4, DroppingStrikesOff DEF Monotonic, WithoutPending
<1>5. Admitted => w.snap = status
  BY DEF Admitted, UpToDate
<1>6. \A st \in Status : /\ Failed(st).operations = st.operations
                         /\ Recomputed(st).operations = st.operations
  BY DEF Failed, Recomputed, Status
<1>7. CASE RemoveForceLabel \/ WaitForReset \/ CreateTeam \/ NothingToDo
           \/ ReadBackFails \/ Abandon
  BY <1>2, <1>7 DEF RemoveForceLabel, WaitForReset, CreateTeam, NothingToDo,
                    ReadBackFails, Abandon, object
<1>8. CASE FailSpec \/ FailConfiguration \/ ResolveFails \/ LeaveDryRun
  <2>1. \/ UNCHANGED status
        \/ status' = Failed(status) \/ status' = Recomputed(status)
    BY <1>5, <1>8 DEF FailSpec, FailConfiguration, ResolveFails, LeaveDryRun,
                      SaveOwn, SaveLatest, Save, object
  <2> QED
    BY <1>1, <1>2, <1>3, <1>6, <2>1
<1>9. ASSUME NEW expired, CleanExpired(expired)
      PROVE  Monotonic(status.operations, status'.operations)
  <2>1. \/ UNCHANGED status
        \/ status' = Cleaned(status, w.meta.ttl, expired)
    BY <1>5, <1>9 DEF CleanExpired, SaveOwn, Save, object
  <2>2. Cleaned(status, w.meta.ttl, expired).operations
          = WithoutPositions(status.operations, expired)
    BY <1>1 DEF Cleaned, Recomputed, Status
  <2> QED
    BY <1>1, <1>2, <2>1, <2>2, DroppingStrikesOff DEF Monotonic
<1>10. CASE FinishUnmanaged \/ DropUnmanaged
  <2>1. CASE FinishUnmanaged
    <3>1. \/ UNCHANGED status
          \/ status' = [ teamStatus |-> "complete", error |-> "none",
                         operations |-> WithoutPending(status.operations),
                         members    |-> w.seen ]
      BY <2>1 DEF FinishUnmanaged, SaveLatest, Save, object
    <3> QED
      BY <1>2, <1>4, <3>1
  <2>2. CASE DropUnmanaged
    <3> DEFINE left == WithoutPending(status.operations)
    <3>1. status' = [status EXCEPT !.teamStatus = "complete", !.error = "none",
                                   !.operations = left]
      BY <2>2 DEF DropUnmanaged, SaveLatest, Save
    <3> HIDE DEF left
    <3>2. status'.operations = left
      BY <1>1, <3>1 DEF Status
    <3> QED
      BY <1>4, <3>2 DEF left
  <2> QED
    BY <1>10, <2>1, <2>2
<1>11. CASE Rehearse
  <2>1. status'.operations = CompletePending(status.operations)
    BY <1>1, <1>11 DEF Rehearse, SaveLatest, Save, Status
  <2> QED
    BY <1>1, <2>1, CompletingStrikesOff DEF Monotonic
<1>12. CASE RehearseMembers \/ EnterDryRun
  <2>1. status'.operations = status.operations
    BY <1>1, <1>12 DEF RehearseMembers, EnterDryRun, SaveLatest, Save, Status
  <2> QED
    BY <1>3, <2>1
<1>13. CASE PlanOperations
  <2>1. w.desired \in Listings /\ w.snap.operations = status.operations
    BY <1>1, <1>13 DEF PlanOperations, Planning, WorkerOK, UpToDate
  <2>2. PICK adds \in Orders(Additions(w.snap, w.desired)),
             removes \in Orders(Removals(w.snap, w.desired)) :
               Save([ teamStatus |-> "pending", error |-> "none",
                      operations |-> w.snap.operations \o Queue("add", adds)
                                       \o Queue("remove", removes),
                      members    |-> PlannedMembers(meta, w.snap.members,
                                                    w.desired) ])
    BY <1>13 DEF PlanOperations, SaveLatest
  <2>3. status'.operations = w.snap.operations \o Queue("add", adds)
                               \o Queue("remove", removes)
    BY <2>2 DEF Save
  <2>4. OutstandingIn(w.snap.operations) \subseteq OutstandingIn(status'.operations)
    BY <1>1, <2>1, <2>3, PlanningAnnounces
  <2> QED
    BY <2>1, <2>4 DEF Monotonic
<1>14. CASE Report
  <2>1. status'.operations = w.ops
    BY <1>1, <1>14 DEF Report, SaveLatest, Save, Status
  <2>2. OutstandingIn(w.ops) = {}
    BY <1>14 DEF Report, UpToDate
  <2> QED
    BY <2>1, <2>2 DEF Monotonic
<1>15. CASE RateLimitHit
  <2>1. w.snap = status
    BY <1>5, <1>15 DEF RateLimitHit, Checking, Proceeding
  <2>2. \/ UNCHANGED status
        \/ \E e : status' = [status EXCEPT !.teamStatus = "ratelimited", !.error = e]
    BY <1>15, <2>1 DEF RateLimitHit, SaveOwn, Save, object
  <2>3. UNCHANGED status \/ status'.operations = status.operations
    BY <1>1, <2>2 DEF Status
  <2> QED
    BY <1>2, <1>3, <2>3
<1> QED
  BY <1>7, <1>8, <1>9, <1>10, <1>11, <1>12, <1>13, <1>14, <1>15 DEF Ending

\* Every status write of the worker announces more, or strikes off.
LEMMA WorkerAnnounces ==
  ASSUME IInv, UpToDate, WorkerStep \/ WorkerFault
  PROVE  Monotonic(status.operations, status'.operations)
<1>1. w \in Worker /\ status \in Status
  BY DEF IInv, ObjectOK, WorkerOK, StatusOK
<1>2. ASSUME UNCHANGED status \/ status'.operations = status.operations
      PROVE  Monotonic(status.operations, status'.operations)
  BY <1>2 DEF Monotonic
<1>3. CASE WipeStatus
  <2>1. status'.operations = <<>>
    BY <1>3 DEF WipeStatus, SaveLatest, Save, EmptyStatus
  <2>2. OutstandingIn(<<>>) = {}
    BY NothingPending DEF PendingOperationsFound, InState
  <2> QED
    BY <2>1, <2>2 DEF Monotonic
<1>4. CASE LeaveRateLimit
  <2>1. w.snap = status
    BY <1>4 DEF LeaveRateLimit, UpToDate
  <2>2. \/ UNCHANGED status
        \/ status' = Recomputed([status EXCEPT !.error = "none"])
    BY <1>4, <2>1 DEF LeaveRateLimit, SaveOwn, Save, object
  <2>3. Recomputed([status EXCEPT !.error = "none"]).operations = status.operations
    BY <1>1 DEF Recomputed, Status
  <2> QED
    BY <1>2, <2>2, <2>3
<1>5. CASE RecordMembers \/ NothingToPlan
  <2>1. UNCHANGED status \/ status'.operations = status.operations
    BY <1>1, <1>5 DEF RecordMembers, NothingToPlan, SaveLatest, Save, object, Status
  <2> QED
    BY <1>2, <2>1
<1>6. CASE Begin \/ ObserveMembers \/ ResolveMembers \/ StartExecution \/ ReadBack
  BY <1>2, <1>6 DEF Begin, ObserveMembers, ResolveMembers, StartExecution, ReadBack, object
<1>7. ASSUME NEW i \in DOMAIN w.ops, Turn(i)
      PROVE  Monotonic(status.operations, status'.operations)
  BY <1>2, <1>7, TurnStrikesOff DEF object
<1> QED
  BY <1>3, <1>4, <1>5, <1>6, <1>7, EndingAnnounces, StepsOfWorker

\* What a turn does to the members is what its operation announces.
LEMMA TurnApplies ==
  ASSUME IInv, UpToDate, NEW i \in DOMAIN w.ops, Turn(i),
         ghMembers' # ghMembers
  PROVE  \E change \in Outstanding : Announced!Apply(change)
<1> DEFINE op     == w.ops[i]
           change == Change(op)
<1>1. /\ w.pc = "execute" /\ UNCHANGED object /\ op.state = "pending"
  BY TurnStrikesOff
<1>2. w.ops \in Seq(Operation(Users)) /\ op \in Operation(Users)
  BY DEF IInv, WorkerOK, Worker
<1>3. op.user \in Users /\ ghMembers \in SUBSET Users
  BY <1>2 DEF Operation, IInv, EnvironmentOK
<1>4. UNCHANGED <<ghTeam, edits>>
  BY DEF Turn, SkipOperation, AddUser, RemoveUser, OperationFails, Outside, github, budgets
<1>5. \/ op.operation = "add" /\ ghMembers' = ghMembers \cup {op.user}
      \/ op.operation # "add" /\ ghMembers' = ghMembers \ {op.user}
  <2>1. ~SkipOperation(i)
    BY DEF SkipOperation, Outside, github
  <2>2. CASE AddUser(i)
    BY <2>2 DEF AddUser
  <2>3. CASE RemoveUser(i)
    BY <2>3 DEF RemoveUser
  <2>4. CASE OperationFails(i)
    BY <2>4 DEF OperationFails
  <2> QED
    BY <2>1, <2>2, <2>3, <2>4 DEF Turn
<1>6. change \in Outstanding
  <2>1. change \in OutstandingIn(w.ops)
    BY <1>1 DEF OutstandingIn, InState
  <2>2. OutstandingIn(w.ops) \subseteq OutstandingIn(status.operations)
    BY <1>1 DEF UpToDate
  <2> QED
    BY <2>1, <2>2 DEF OutstandingIn, Outstanding
<1>7. /\ change.subject = op.user
      /\ change.value = IF op.operation = "add" THEN "present" ELSE "absent"
  BY DEF Change
<1>8. /\ Membership' = [u \in Users |-> IF u \in ghMembers' THEN "present" ELSE "absent"]
      /\ Membership = [u \in Users |-> IF u \in ghMembers THEN "present" ELSE "absent"]
  BY DEF Membership
<1> HIDE DEF op, change
<1>9. Membership'[change.subject] = change.value
  BY <1>3, <1>5, <1>7, <1>8
<1>10. \A u \in Users \ {change.subject} : Membership'[u] = Membership[u]
  BY <1>5, <1>7, <1>8
<1>11. UNCHANGED <<Outstanding, edits, ghTeam>>
  BY <1>1, <1>4 DEF object, Outstanding
<1>12. Announced!Apply(change)
  BY <1>9, <1>10, <1>11 DEF Announced!Apply
<1> QED
  BY <1>6, <1>12

\* Every step records, applies what is recorded, or is somebody else's.
LEMMA StepAnnounced ==
  ASSUME IInv, UpToDate, [Next]_vars
  PROVE  [Announced!Next]_(Announced!variables)
<1>0. /\ Outstanding = OutstandingIn(status.operations)
      /\ Outstanding' = OutstandingIn(status'.operations)
  BY DEF Outstanding, OutstandingIn
<1>1. UNCHANGED ghMembers => UNCHANGED Membership
  BY DEF Membership
<1>2. ASSUME Monotonic(status.operations, status'.operations),
             UNCHANGED <<ghMembers, ghTeam, edits>>
      PROVE  Announced!Record
  BY <1>0, <1>1, <1>2 DEF Monotonic, Announced!Record
<1>3. ASSUME UNCHANGED status, edits' # edits \/ ghTeam' # ghTeam
      PROVE  Announced!OutsideChange
  BY <1>0, <1>3 DEF Announced!OutsideChange
<1>4. CASE WorkerStep \/ WorkerFault
  <2>1. Monotonic(status.operations, status'.operations)
    BY <1>4, WorkerAnnounces
  <2>2. CASE UNCHANGED <<github, edits>>
    BY <1>2, <2>1, <2>2 DEF Announced!Next, github
  <2>3. CASE CreateTeam
    BY <1>3, <2>3 DEF CreateTeam, Announced!Next, object
  <2>4. ASSUME NEW i \in DOMAIN w.ops, Turn(i)
        PROVE  Announced!Next
    <3>1. UNCHANGED <<ghTeam, edits>>
      BY <2>4 DEF Turn, SkipOperation, AddUser, RemoveUser, OperationFails,
                  Outside, github, budgets
    <3>2. CASE UNCHANGED ghMembers
      BY <1>2, <2>1, <3>1, <3>2 DEF Announced!Next
    <3>3. CASE ghMembers' # ghMembers
      BY <2>4, <3>3, TurnApplies DEF Announced!Next
    <3> QED
      BY <3>2, <3>3
  <2> QED
    BY <1>4, <2>2, <2>3, <2>4, WhoWritesGithub
<1>5. CASE Environment \/ UNCHANGED vars
  <2>1. UNCHANGED status
    BY <1>5 DEF Environment, CacheSync, DeleteTeam, LoseConfiguration,
                RestoreConfiguration, PassReset, EditMeta, ChangeDesired,
                ChangeMember, object, vars
  <2>2. \/ UNCHANGED <<ghMembers, ghTeam, edits>>
        \/ edits' # edits \/ ghTeam' # ghTeam
    <3>1. \/ CacheSync \/ RestoreConfiguration \/ PassReset \/ LoseConfiguration
          \/ UNCHANGED vars
          => UNCHANGED <<ghMembers, ghTeam, edits>>
      BY DEF CacheSync, RestoreConfiguration, PassReset, LoseConfiguration, vars,
             Outside, github, budgets
    <3>2. ASSUME DeleteTeam PROVE ghTeam' # ghTeam
      <4>1. ghTeam /\ (ghTeam' = FALSE)
        BY <3>2 DEF DeleteTeam
      <4> QED
        BY <4>1, Zenon
    <3>3. edits \in Nat
      BY DEF IInv, EnvironmentOK
    <3>4. \A kind : Edit(kind) => edits' # edits
      BY <3>3 DEF Edit
    <3> QED
      BY <1>5, <3>1, <3>2, <3>4 DEF Environment, EditMeta, ChangeDesired, ChangeMember
  <2>3. Monotonic(status.operations, status'.operations)
    BY <2>1 DEF Monotonic
  <2> QED
    BY <1>2, <1>3, <2>1, <2>2, <2>3 DEF Announced!Next
<1> QED
  BY <1>4, <1>5 DEF Next

(***************************************************************************)
(* A membership changes only as a pending operation of the stored status   *)
(* says: the reconciler implements AnnouncedChanges, when reconciles start *)
(* from an up-to-date cache.                                               *)
(***************************************************************************)
THEOREM Announces ==
  ASSUME StaleReads = FALSE
  PROVE  Spec => WriteAhead
<1>1. Init => Announced!Start
  <2>1. OutstandingIn(<<>>) = {}
    BY NothingPending DEF PendingOperationsFound, InState
  <2>2. Init => status.operations = <<>>
    <3>1. Init => status = EmptyStatus
      BY DEF Init
    <3>2. EmptyStatus.operations = <<>>
      BY DEF EmptyStatus
    <3> QED
      BY <3>1, <3>2
  <2>3. Outstanding = OutstandingIn(status.operations)
    BY DEF Outstanding, OutstandingIn
  <2> QED
    BY <2>1, <2>2, <2>3 DEF Announced!Start
<1> QED
  BY <1>1, Invariance, UpToDateReads, StepAnnounced, PTL
     DEF Spec, WriteAhead, Announced!Spec

=============================================================================
