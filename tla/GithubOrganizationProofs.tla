---------------------- MODULE GithubOrganizationProofs ----------------------
(***************************************************************************)
(* What holds of the GithubOrganization reconciler for every set of users, *)
(* teams and repositories, every policy and every number of faults and     *)
(* edits.                                                                  *)
(***************************************************************************)
EXTENDS GithubOrganization, OrganizationOperationsProofs

-----------------------------------------------------------------------------
(* The inductive invariant                                                 *)

\* The operations a scope holds: each about a user or a team, on a
\* repository or not, and with a permission where one is added.
OpOf(s) ==
  {op \in Op :
     /\ op.name \in IF s \in {"teams", "repos"} THEN Teams ELSE Users
     /\ op.repo \in IF s \in {"repos", "collaborators"} THEN Repos ELSE {None}
     /\ s \in {"members", "collaborators"} => op.operation = "remove"
     /\ op.operation = "remove" => op.permission = None
     /\ op.operation = "add" /\ s = "repos" => op.permission \in Permissions}

PendingOf(s) == {op \in OpOf(s) : op.state = "pending"}

WellScoped(lists) == \A s \in Scopes : lists[s] \in Seq(OpOf(s))

\* StateTellsPending, of any status.
Telling(st) ==
  /\ st.state = "pending" => PendingFound(st.ops)
  /\ st.state \in {"", "complete"} => ~PendingFound(st.ops)

Sound(st) == st \in Status /\ WellScoped(st.ops) /\ Telling(st)

ObjectOK ==
  /\ meta \in Meta
  /\ cache \in [status : Status, meta : Meta]
  /\ fresh \in BOOLEAN
  /\ Sound(status) /\ Sound(cache.status)

OutsideOK ==
  /\ k8s \in Resource
  /\ gh \in Github
  /\ limitOver \in BOOLEAN
  /\ faults \in Nat
  /\ edits \in Nat

\* Nothing is left pending in the scopes the execution has been through.
Executed ==
  /\ w.pc = "execute" =>
       \A i \in DOMAIN ScopeOrder :
         i < ScopeIndex(w.scope) => ~PendingOperationsFound(w.ops[ScopeOrder[i]])
  /\ w.pc = "report" => ~PendingFound(w.ops)
  /\ w.pc \notin {"execute", "report"} => w.scope = "owners"

WorkerOK == w \in Worker /\ Sound(w.snap) /\ WellScoped(w.ops) /\ Executed

IInv == ObjectOK /\ OutsideOK /\ WorkerOK

-----------------------------------------------------------------------------
(* Statuses                                                                *)

\* A status is sound when its parts are.
LEMMA StatusParts ==
  ASSUME NEW st, Sound(st)
  PROVE  /\ st = [state |-> st.state, error |-> st.error, ops |-> st.ops,
                  owners |-> st.owners, teams |-> st.teams]
         /\ st.state \in States /\ st.error \in Errors
         /\ st.ops \in [Scopes -> Seq(Op)] /\ WellScoped(st.ops)
         /\ st.owners \in SUBSET Users /\ st.teams \in SUBSET Teams
BY DEF Sound, Status

\* A status made of sound parts is sound.
LEMMA StatusMade ==
  ASSUME NEW state \in States, NEW error \in Errors,
         NEW ops \in [Scopes -> Seq(Op)], WellScoped(ops),
         NEW owners \in SUBSET Users, NEW teams \in SUBSET Teams,
         state = "pending" => PendingFound(ops),
         state \in {"", "complete"} => ~PendingFound(ops)
  PROVE  Sound([state |-> state, error |-> error, ops |-> ops,
                owners |-> owners, teams |-> teams])
BY DEF Sound, Status, Telling

\* A status that claims nothing about its operations may hold any.
LEMMA SoundSilent ==
  ASSUME NEW st \in Status, WellScoped(st.ops), NEW error \in Errors,
         NEW state \in {"failed", "dry-run", "ratelimited"}
  PROVE  /\ Sound([st EXCEPT !.state = state, !.error = error])
         /\ Sound([st EXCEPT !.state = state])
<1>1. state \in States /\ state \notin {"pending", "", "complete"}
  BY DEF States
<1> DEFINE new == [st EXCEPT !.state = state, !.error = error]
           one == [st EXCEPT !.state = state]
<1>2. /\ new \in Status /\ new.state = state /\ new.ops = st.ops
      /\ one \in Status /\ one.state = state /\ one.ops = st.ops
  BY <1>1 DEF Sound, Status
<1> QED
  BY <1>1, <1>2 DEF Sound, Telling

\* The lists of a scope are lists of operations.
LEMMA ScopedLists ==
  ASSUME NEW lists, \A s \in Scopes : lists[s] \in Seq(OpOf(s)),
         lists = [s \in Scopes |-> lists[s]]
  PROVE  lists \in [Scopes -> Seq(Op)] /\ WellScoped(lists)
<1>1. \A s \in Scopes : lists[s] \in Seq(Op)
  <2> TAKE s \in Scopes
  <2> DEFINE l == lists[s]
  <2>1. OpOf(s) \subseteq Op /\ l \in Seq(OpOf(s))
    BY DEF OpOf
  <2> HIDE DEF l
  <2>2. l \in Seq(Op)
    BY <2>1
  <2> QED
    BY <2>2 DEF l
<1> QED
  BY <1>1 DEF WellScoped

\* The recomputed state tells which operations are pending.
LEMMA SoundRecomputed ==
  ASSUME NEW st, Sound(st), NEW ops \in [Scopes -> Seq(Op)], WellScoped(ops),
         NEW error \in Errors
  PROVE  /\ Sound([st EXCEPT !.state = StateFromOperations(ops),
                             !.error = error, !.ops = ops])
         /\ StateFromOperations(ops) \in {"pending", "failed", "complete"}
<1> DEFINE state == StateFromOperations(ops)
           new   == [st EXCEPT !.state = state, !.error = error, !.ops = ops]
<1>2. /\ state \in {"pending", "failed", "complete"}
      /\ state = "pending" => PendingFound(ops)
      /\ state = "complete" => ~PendingFound(ops)
  BY DEF StateFromOperations
<1>3. state \in States /\ state # ""
  BY <1>2 DEF States
<1> HIDE DEF state
<1>4. new \in Status /\ new.state = state /\ new.ops = ops
  BY <1>3 DEF Sound, Status
<1>5. Sound(new)
  BY <1>2, <1>3, <1>4 DEF Sound, Telling
<1> QED
  BY <1>2, <1>5 DEF state

\* Planning operations makes the status pending.
LEMMA SoundPlanned ==
  ASSUME NEW st, Sound(st), NEW s \in Scopes, NEW more \in Seq(PendingOf(s)),
         more # <<>>
  PROVE  Sound([st EXCEPT !.state = "pending", !.error = "none", !.ops[s] = @ \o more])
<1> DEFINE old == st.ops[s]
           ops == [st.ops EXCEPT ![s] = old \o more]
           new == [st EXCEPT !.state = "pending", !.error = "none", !.ops[s] = @ \o more]
<1>1. /\ st.ops \in [Scopes -> Seq(Op)] /\ WellScoped(st.ops)
  BY StatusParts
<1>2. old \in Seq(OpOf(s)) /\ st.ops = [r \in Scopes |-> st.ops[r]]
  BY <1>1 DEF WellScoped
<1>3. more \in Seq(OpOf(s))
  BY DEF PendingOf
<1> HIDE DEF old
<1>4. old \o more \in Seq(OpOf(s))
  BY <1>2, <1>3
<1>5. \A r \in Scopes : ops[r] \in Seq(OpOf(r))
  BY <1>1, <1>4 DEF WellScoped
<1>6. ops = [r \in Scopes |-> ops[r]] /\ ops[s] = old \o more
  BY <1>2
<1>7. PendingFound(ops)
  <2>1. Len(more) # 0 /\ Len(more) \in Nat /\ Len(old) \in Nat
    BY <1>2
  <2> DEFINE i == Len(old) + 1
  <2>2. i \in DOMAIN (old \o more) /\ (old \o more)[i] = more[1]
    BY <1>2, <2>1
  <2>3. more[1] \in PendingOf(s)
    BY <2>1
  <2>4. i \in InState(ops[s], "pending")
    BY <1>6, <2>2, <2>3 DEF InState, PendingOf
  <2> QED
    BY <2>4 DEF PendingFound, PendingOperationsFound
<1> HIDE DEF ops
<1>8. ops \in [Scopes -> Seq(Op)] /\ WellScoped(ops)
  BY <1>5, <1>6, ScopedLists
<1>9. /\ new.ops = ops /\ new.state = "pending"
      /\ new = [[st EXCEPT !.state = "pending", !.error = "none"] EXCEPT !.ops = ops]
  BY DEF Sound, Status, ops, old, new
<1>10. new \in Status
  BY <1>8, <1>9 DEF Sound, Status, States, Errors
<1> HIDE DEF new
<1>11. Sound(new)
  BY <1>7, <1>8, <1>9, <1>10 DEF Sound, Telling
<1> QED
  BY <1>11 DEF new, old

\* What is found in a status or an execution: no operation at all.
LEMMA EmptySound ==
  /\ Sound(EmptyStatus)
  /\ NoOperations \in [Scopes -> Seq(Op)] /\ WellScoped(NoOperations)
  /\ ~PendingFound(NoOperations)
<1>1. NoOperations = [s \in Scopes |-> NoOperations[s]]
      /\ \A s \in Scopes : NoOperations[s] = <<>>
  BY DEF NoOperations
<1>2. \A s \in Scopes : NoOperations[s] \in Seq(OpOf(s))
  <2> TAKE s \in Scopes
  <2>1. <<>> \in Seq(OpOf(s))
    OBVIOUS
  <2> QED
    BY <1>1, <2>1
<1>3. NoOperations \in [Scopes -> Seq(Op)] /\ WellScoped(NoOperations)
  BY <1>1, <1>2, ScopedLists
<1>4. ~PendingFound(NoOperations)
  BY <1>1 DEF PendingFound, PendingOperationsFound, InState
<1>5. Sound(EmptyStatus)
  BY <1>3, <1>4, StatusMade DEF EmptyStatus, States, Errors
<1> QED
  BY <1>3, <1>4, <1>5

-----------------------------------------------------------------------------
(* What a step writes, and where it leaves the worker                      *)

\* Steps that leave the object alone.
LEMMA ObjectKept ==
  ASSUME ObjectOK, UNCHANGED object
  PROVE  ObjectOK'
BY DEF ObjectOK, object

\* safeStatusUpdate with a sound status.
LEMMA ObjectWritten ==
  ASSUME ObjectOK, NEW st, Sound(st), SafeStatusUpdate(st)
  PROVE  ObjectOK'
BY DEF ObjectOK, SafeStatusUpdate

\* Steps that leave everything outside the object and the worker alone.
LEMMA OutsideKept ==
  ASSUME OutsideOK, UNCHANGED Outside
  PROVE  OutsideOK'
BY DEF OutsideOK, Outside, budgets

\* The bound on faults stays a number.
LEMMA FaultCounted ==
  ASSUME OutsideOK, NEW kind, Fault(kind)
  PROVE  faults' \in Nat
<1>1. faults \in Nat /\ faults > 0 /\ faults' = faults - 1
  BY DEF OutsideOK, Fault
<1> QED
  BY <1>1

\* Steps that change nothing outside but count a fault.
LEMMA OutsideFaulty ==
  ASSUME OutsideOK, NEW kind, Fault(kind), UNCHANGED <<k8s, gh, limitOver, edits>>
  PROVE  OutsideOK'
<1>1. faults' \in Nat
  BY FaultCounted
<1> QED
  BY <1>1 DEF OutsideOK

\* The worker at rest.
LEMMA RestType ==
  Rest \in Worker /\ Sound(Rest.snap) /\ Rest.snap = EmptyStatus
    /\ Rest.ops = NoOperations /\ Rest.pc = "idle" /\ Rest.scope = "owners"
<1>1. NoMeta \in Meta
  <2>1. [t \in OperationTypes |-> "unset"] \in [OperationTypes -> {"true", "false", "dryRun", "unset"}]
    OBVIOUS
  <2>2. NoMeta.label \in [Scopes -> [OperationTypes -> {"true", "false", "dryRun", "unset"}]]
    BY <2>1 DEF NoMeta
  <2>3. [v \in Visibilities |-> <<>>]
          \in [Visibilities -> Seq([team : Teams, permission : Permissions])]
    OBVIOUS
  <2>4. NoMeta.defaults = [v \in Visibilities |-> <<>>]
    BY DEF NoMeta
  <2> QED
    BY <2>2, <2>3, <2>4 DEF NoMeta, Meta
<1>2. NoRoles \in [Repos -> [Teams -> Permissions \cup {None}]]
  BY DEF NoRoles
<1>3. NoOperations \in [Scopes -> Seq(Op)] /\ Sound(EmptyStatus) /\ EmptyStatus \in Status
  BY EmptySound DEF Sound
<1>4. "idle" \in Steps /\ "owners" \in Scopes
  BY DEF Steps, Scopes
<1> QED
  BY <1>1, <1>2, <1>3, <1>4 DEF Rest, Worker

\* Whatever the reconcile had read, its end forgets it.
LEMMA WorkerRests ==
  ASSUME Stop
  PROVE  WorkerOK'
<1>1. w' = Rest
  BY DEF Stop
<1> QED
  BY <1>1, RestType, EmptySound DEF WorkerOK, Executed

\* A step between two places outside the execution, of a worker that keeps
\* its status or takes another sound one.
LEMMA WorkerMoves ==
  ASSUME WorkerOK, w.pc \notin {"execute", "report"},
         w' \in Worker, w'.pc \notin {"execute", "report"},
         Sound(w'.snap), w'.ops = w.ops, w'.scope = w.scope
  PROVE  WorkerOK'
<1>1. w.scope = "owners"
  BY DEF WorkerOK, Executed
<1> QED
  BY <1>1 DEF WorkerOK, Executed

\* The worker goes on to another step, with what it has read.
LEMMA WorkerGoes ==
  ASSUME WorkerOK, NEW pc \in Steps \ {"execute", "report"},
         w.pc \notin {"execute", "report"}, Goto(pc)
  PROVE  WorkerOK'
<1>1. w' = [w EXCEPT !.pc = pc] /\ w \in Worker
  BY DEF Goto, WorkerOK
<1>2. /\ w' \in Worker /\ w'.pc = pc
      /\ w'.snap = w.snap /\ w'.ops = w.ops /\ w'.scope = w.scope
  BY <1>1 DEF Worker
<1> QED
  BY <1>2, WorkerMoves DEF WorkerOK

\* Steps that write a status and end the reconcile.
LEMMA Finished ==
  ASSUME IInv, NEW st, Sound(st), Finish(st)
  PROVE  ObjectOK' /\ WorkerOK'
BY ObjectWritten, WorkerRests DEF IInv, Finish

\* A status written because of a rate limit is sound whatever it holds.
LEMMA HeldBack ==
  ASSUME IInv, NEW st \in Status, WellScoped(st.ops), HoldFor(st)
  PROVE  IInv'
<1>1. PICK e \in LimitErrors : Finish([st EXCEPT !.state = "ratelimited", !.error = e])
  BY DEF HoldFor
<1>2. e \in Errors
  BY InputsAssumption DEF Errors
<1>3. Sound([st EXCEPT !.state = "ratelimited", !.error = e])
  BY <1>2, SoundSilent
<1>4. ObjectOK' /\ WorkerOK'
  BY <1>1, <1>3, Finished
<1>5. OutsideOK'
  <2>1. Fault("limit") /\ limitOver' = FALSE /\ UNCHANGED <<k8s, gh, edits>>
    BY DEF HoldFor
  <2>2. faults' \in Nat
    BY <2>1, FaultCounted DEF IInv
  <2> QED
    BY <2>1, <2>2 DEF IInv, OutsideOK
<1> QED
  BY <1>4, <1>5 DEF IInv

\* A status written because of a failure is sound.
LEMMA FailedSound ==
  ASSUME NEW st, Sound(st)
  PROVE  Sound(Failed(st))
<1>1. "other" \in Errors
  BY DEF Errors
<1> QED
  BY <1>1, SoundSilent DEF Failed, Sound

\* Planning pending operations of a scope, and going on when there are none.
LEMMA Planned ==
  ASSUME IInv, NEW scope \in Scopes, NEW new \in Seq(PendingOf(scope)),
         NEW next \in Steps \ {"execute", "report"},
         w.pc \notin {"execute", "report"}, Plan(scope, new, next)
  PROVE  ObjectOK' /\ WorkerOK'
<1>1. CASE new = <<>>
  BY <1>1, WorkerGoes, ObjectKept DEF Plan, IInv
<1>2. CASE new # <<>>
  <2>1. Sound(w.snap)
    BY DEF IInv, WorkerOK
  <2>2. Sound([w.snap EXCEPT !.state = "pending", !.error = "none",
                             !.ops[scope] = @ \o new])
    BY <1>2, <2>1, SoundPlanned
  <2>3. Finish([w.snap EXCEPT !.state = "pending", !.error = "none",
                              !.ops[scope] = @ \o new])
    BY <1>2 DEF Plan
  <2> HIDE DEF Finish
  <2> QED
    BY <2>2, <2>3, Finished
<1> QED
  BY <1>1, <1>2

\* The operations the change calculators may queue.
LEMMA NewOps ==
  /\ \A type \in OperationTypes, u \in Users : NewOp(type, None, u, None) \in PendingOf("owners")
  /\ \A type \in OperationTypes, t \in Teams : NewOp(type, None, t, None) \in PendingOf("teams")
  /\ \A r \in Repos, t \in Teams : NewOp("remove", r, t, None) \in PendingOf("repos")
  /\ \A r \in Repos, t \in Teams, p \in Permissions : NewOp("add", r, t, p) \in PendingOf("repos")
  /\ \A u \in Users : NewOp("remove", None, u, None) \in PendingOf("members")
  /\ \A r \in Repos, u \in Users : NewOp("remove", r, u, None) \in PendingOf("collaborators")
<1>1. \A type \in OperationTypes, r \in Repos \cup {None}, n \in Users \cup Teams,
         p \in Permissions \cup {None} :
        LET op == NewOp(type, r, n, p)
        IN  /\ op \in Op /\ op.operation = type /\ op.repo = r /\ op.name = n
            /\ op.permission = p /\ op.state = "pending"
  BY DEF NewOp, Op, Names
<1>2. \A type \in OperationTypes, r \in Repos \cup {None}, n \in Users \cup Teams,
         p \in Permissions \cup {None}, s \in Scopes :
        /\ n \in IF s \in {"teams", "repos"} THEN Teams ELSE Users
        /\ r \in IF s \in {"repos", "collaborators"} THEN Repos ELSE {None}
        /\ s \in {"members", "collaborators"} => type = "remove"
        /\ type = "remove" => p = None
        /\ type = "add" /\ s = "repos" => p \in Permissions
        => NewOp(type, r, n, p) \in PendingOf(s)
  BY <1>1 DEF PendingOf, OpOf
<1>3. "add" \in OperationTypes /\ "remove" \in OperationTypes
  BY DEF OperationTypes
<1>4. /\ "owners" \in Scopes /\ "teams" \in Scopes /\ "repos" \in Scopes
      /\ "members" \in Scopes /\ "collaborators" \in Scopes
  BY DEF Scopes
<1> HIDE DEF NewOp
<1> QED
  BY <1>2, <1>3, <1>4

-----------------------------------------------------------------------------
(* One lemma per part of the reconcile                                     *)

\* Recomputing the state makes any status sound whose parts are.
LEMMA RecomputedSound ==
  ASSUME NEW st, Sound(st), NEW ops \in [Scopes -> Seq(Op)], WellScoped(ops),
         NEW error \in Errors
  PROVE  /\ Sound(Recomputed(st))
         /\ Sound(Recomputed([st EXCEPT !.error = error]))
         /\ Sound(Recomputed([st EXCEPT !.ops = ops, !.error = error]))
         /\ Sound([Recomputed(st) EXCEPT !.error = error])
         /\ Recomputed(st).state \in {"pending", "failed", "complete"}
<1>1. \A l : /\ StateFromOperations(l) \in {"pending", "failed", "complete"}
             /\ StateFromOperations(l) = "pending" => PendingFound(l)
             /\ StateFromOperations(l) = "complete" => ~PendingFound(l)
  BY DEF StateFromOperations
<1>2. {"pending", "failed", "complete"} \subseteq States /\ "" \notin {"pending", "failed", "complete"}
  BY DEF States
<1>3. ASSUME NEW s \in Status, WellScoped(s.ops)
      PROVE  /\ Sound(Recomputed(s)) /\ Recomputed(s).state = StateFromOperations(s.ops)
             /\ Sound([Recomputed(s) EXCEPT !.error = error])
  <2> DEFINE state == StateFromOperations(s.ops)
             new   == [s EXCEPT !.state = state]
             cured == [new EXCEPT !.error = error]
  <2>1. state \in States /\ state # ""
    BY <1>1, <1>2
  <2>2. new \in Status /\ new.state = state /\ new.ops = s.ops
    BY <1>3, <2>1 DEF Status
  <2>3. Sound(new)
    BY <1>1, <1>3, <2>1, <2>2 DEF Sound, Telling
  <2> HIDE DEF new
  <2>4. cured \in Status /\ cured.state = new.state /\ cured.ops = new.ops
    BY <2>2 DEF Status
  <2>5. Sound(cured)
    BY <2>3, <2>4 DEF Sound, Telling
  <2> QED
    BY <2>2, <2>3, <2>5 DEF Recomputed, new
<1> DEFINE one == [st EXCEPT !.error = error]
           two == [st EXCEPT !.ops = ops, !.error = error]
<1>4. st \in Status /\ WellScoped(st.ops)
  BY DEF Sound
<1>5. one \in Status /\ one.ops = st.ops
  BY <1>4 DEF Status
<1>6. two \in Status /\ two.ops = ops
  BY <1>4 DEF Status
<1> HIDE DEF one, two
<1>7. Sound(Recomputed(st)) /\ Recomputed(st).state = StateFromOperations(st.ops)
      /\ Sound([Recomputed(st) EXCEPT !.error = error])
  BY <1>3, <1>4
<1>8. Sound(Recomputed(one)) /\ Sound(Recomputed(two))
  BY <1>3, <1>4, <1>5, <1>6
<1> QED
  BY <1>1, <1>7, <1>8 DEF one, two

\* Dropping operations leaves lists of operations of their scopes.
LEMMA WithoutScoped ==
  ASSUME NEW lists \in [Scopes -> Seq(Op)], WellScoped(lists), NEW gone
  PROVE  Without(lists, gone) \in [Scopes -> Seq(Op)] /\ WellScoped(Without(lists, gone))
<1> DEFINE new == Without(lists, gone)
<1>1. \A s \in Scopes : new[s] \in Seq(OpOf(s))
  <2> TAKE s \in Scopes
  <2>1. lists[s] \in Seq(OpOf(s))
    BY DEF WellScoped
  <2>2. DOMAIN lists[s] \ gone[s] \in SUBSET DOMAIN lists[s]
    OBVIOUS
  <2>3. Keep(lists[s], DOMAIN lists[s] \ gone[s]) \in Seq(OpOf(s))
    BY <2>1, <2>2, KeepProperties
  <2> QED
    BY <2>3 DEF Without, WithoutPositions
<1>2. new = [s \in Scopes |-> new[s]]
  BY DEF Without
<1> HIDE DEF new
<1>3. new \in [Scopes -> Seq(Op)] /\ WellScoped(new)
  BY <1>1, <1>2, ScopedLists
<1> QED
  BY <1>3 DEF new

\* The steps at the start of a reconcile.
LEMMA StartKeeps ==
  ASSUME IInv, StartOfReconcile
  PROVE  IInv'
<1>0. /\ ObjectOK /\ OutsideOK /\ WorkerOK /\ Sound(w.snap) /\ w \in Worker
      /\ w.snap.ops \in [Scopes -> Seq(Op)] /\ WellScoped(w.snap.ops)
      /\ "none" \in Errors /\ w.snap.error \in Errors
  <2>1. IInv /\ Sound(w.snap)
    BY DEF IInv, WorkerOK
  <2>2. w.snap.ops \in [Scopes -> Seq(Op)] /\ WellScoped(w.snap.ops) /\ w.snap.error \in Errors
    BY <2>1, StatusParts
  <2> QED
    BY <2>1, <2>2 DEF IInv, WorkerOK, Errors
<1>1. ASSUME Begin PROVE IInv'
  <2>1. ObjectOK' /\ OutsideOK'
    BY <1>0, <1>1, ObjectKept, OutsideKept DEF Begin
  <2>2. cache.status \in Status /\ cache.meta \in Meta /\ fresh \in BOOLEAN /\ Sound(cache.status)
    BY <1>0 DEF ObjectOK
  <2>3. "begun" \in Steps
    BY DEF Steps
  <2>4. /\ w' \in Worker /\ w'.pc = "begun" /\ w'.snap = cache.status
        /\ w'.ops = NoOperations /\ w'.scope = "owners"
    BY <1>1, <2>2, <2>3, RestType DEF Begin, Worker
  <2> QED
    BY <2>1, <2>2, <2>4, EmptySound DEF IInv, WorkerOK, Executed
<1>2. ASSUME WipeStatus PROVE IInv'
  <2>1. ObjectOK' /\ OutsideOK'
    BY <1>0, <1>2, ObjectWritten, EmptySound, OutsideKept DEF WipeStatus
  <2>2. WorkerOK'
    BY <1>0, <1>2, WorkerGoes DEF WipeStatus, Steps
  <2> QED
    BY <2>1, <2>2 DEF IInv
<1>3. ASSUME RemoveForceLabel PROVE IInv'
  <2>1. OutsideOK' /\ WorkerOK'
    BY <1>0, <1>3, OutsideKept, WorkerRests DEF RemoveForceLabel
  <2>2. [meta EXCEPT !.force = FALSE] \in Meta
    BY <1>0 DEF ObjectOK, Meta
  <2>3. ObjectOK'
    BY <1>0, <1>3, <2>2 DEF RemoveForceLabel, ObjectOK
  <2> QED
    BY <2>1, <2>3 DEF IInv
<1>4. ASSUME WaitForReset PROVE IInv'
  BY <1>0, <1>4, ObjectKept, OutsideKept, WorkerRests DEF WaitForReset, IInv
<1>5. ASSUME LeaveRateLimit PROVE IInv'
  <2> DEFINE st == Recomputed([w.snap EXCEPT !.error = "none"])
  <2>1. Sound(st)
    BY <1>0, RecomputedSound
  <2> HIDE DEF st
  <2>2. SafeStatusUpdate(st) /\ w' = [w EXCEPT !.snap = st, !.current = FALSE] /\ UNCHANGED Outside
        /\ w.pc = "begun"
    BY <1>5 DEF LeaveRateLimit, st
  <2>3. ObjectOK' /\ OutsideOK'
    BY <1>0, <2>1, <2>2, ObjectWritten, OutsideKept
  <2>4. st \in Status
    BY <2>1 DEF Sound
  <2>5. /\ w' \in Worker /\ w'.pc = "begun" /\ w'.snap = st
        /\ w'.ops = w.ops /\ w'.scope = w.scope
    BY <1>0, <2>2, <2>4 DEF Worker
  <2>6. WorkerOK'
    BY <1>0, <2>1, <2>2, <2>5, WorkerMoves
  <2> QED
    BY <2>3, <2>6 DEF IInv
<1>6. ASSUME CleansUp PROVE IInv'
  <2>1. PICK expired : CleanExpired(expired)
    BY <1>6 DEF CleansUp
  <2>2. Sound(Cleaned(w.snap, w.meta.ttl, expired))
    <3> DEFINE ops == Without(w.snap.ops,
                        [s \in Scopes |-> {p[2] : p \in {q \in expired : q[1] = s}}])
               error == IF /\ "failed" \in w.meta.ttl /\ FailedFound(w.snap.ops)
                           /\ ~FailedFound(ops)
                        THEN "none" ELSE w.snap.error
    <3>1. ops \in [Scopes -> Seq(Op)] /\ WellScoped(ops)
      BY <1>0, WithoutScoped
    <3>2. error \in Errors
      BY <1>0
    <3>3. Cleaned(w.snap, w.meta.ttl, expired)
            = Recomputed([w.snap EXCEPT !.ops = ops, !.error = error])
      BY DEF Cleaned
    <3> HIDE DEF ops, error
    <3>4. Sound(Recomputed([w.snap EXCEPT !.ops = ops, !.error = error]))
      BY <1>0, <3>1, <3>2, RecomputedSound
    <3> QED
      BY <3>3, <3>4
  <2>3. ObjectOK' /\ WorkerOK' /\ OutsideOK'
    BY <1>0, <2>1, <2>2, Finished, OutsideKept DEF CleanExpired
  <2> QED
    BY <2>3 DEF IInv
<1>7. ASSUME FailConfiguration PROVE IInv'
  BY <1>0, <1>7, FailedSound, Finished, OutsideKept DEF FailConfiguration, IInv
<1>8. ASSUME WaitForClient PROVE IInv'
  BY <1>0, <1>8, ObjectKept, OutsideKept, WorkerRests DEF WaitForClient, IInv
<1>9. ASSUME SkipComparison PROVE IInv'
  <2>1. ObjectOK' /\ OutsideOK'
    BY <1>0, <1>9, ObjectKept, OutsideKept DEF SkipComparison
  <2>2. WorkerOK'
    BY <1>0, <1>9, WorkerGoes DEF SkipComparison, Proceeding, Admitted, Steps
  <2> QED
    BY <2>1, <2>2 DEF IInv
<1> QED
  BY <1>1, <1>2, <1>3, <1>4, <1>5, <1>6, <1>7, <1>8, <1>9 DEF StartOfReconcile

\* What the invariant says of what the worker has read.
LEMMA Facts ==
  ASSUME IInv
  PROVE  /\ ObjectOK /\ OutsideOK /\ WorkerOK /\ Sound(w.snap) /\ w \in Worker
         /\ w.snap.ops \in [Scopes -> Seq(Op)] /\ WellScoped(w.snap.ops)
         /\ w.snap.owners \in SUBSET Users /\ w.snap.teams \in SUBSET Teams
         /\ "none" \in Errors /\ w.snap.error \in Errors
<1>1. IInv /\ Sound(w.snap)
  BY DEF IInv, WorkerOK
<1>2. /\ w.snap.ops \in [Scopes -> Seq(Op)] /\ WellScoped(w.snap.ops) /\ w.snap.error \in Errors
      /\ w.snap.owners \in SUBSET Users /\ w.snap.teams \in SUBSET Teams
  BY <1>1, StatusParts
<1> QED
  BY <1>1, <1>2 DEF IInv, WorkerOK, Errors

\* What the invariant says of what the worker may observe.
LEMMA Seen ==
  ASSUME IInv
  PROVE  /\ gh.owners \in SUBSET Users /\ gh.members \in SUBSET Users
         /\ gh.teams \in SUBSET Teams
         /\ gh.teamMembers \in [Teams -> SUBSET Users]
         /\ gh.roles \in [Repos -> [Teams -> Permissions \cup {None}]]
         /\ gh.collaborators \in [Repos -> SUBSET Users]
         /\ k8s.members \in [OwnerTeams -> SUBSET Users] /\ k8s.teams \in SUBSET Teams
         /\ k8s.exceptions \in Seq([repo : Repos, team : Teams, permission : Permissions])
<1>1. gh \in Github /\ k8s \in Resource
  BY DEF IInv, OutsideOK
<1> QED
  BY <1>1 DEF Github, Resource

\* What the worker observes of GitHub fits its memory.
LEMMA ObservingKeeps ==
  ASSUME IInv,
         \/ ObserveOwners \/ ObserveTeams \/ ObserveRepositories
         \/ ObservationFails \/ ObservationLimited \/ ReadAgain \/ RecordObserved
  PROVE  IInv'
<1>0. /\ ObjectOK /\ OutsideOK /\ WorkerOK /\ Sound(w.snap) /\ w \in Worker
  BY Facts
<1>1. ASSUME ObserveOwners PROVE IInv'
  <2>1. ObjectOK' /\ OutsideOK'
    BY <1>0, <1>1, ObjectKept, OutsideKept DEF ObserveOwners
  <2>2. gh.owners \in SUBSET Users /\ "teams" \in Steps
    BY Seen DEF Steps
  <2>3. w.pc = "begun" /\ w' = [w EXCEPT !.pc = "teams", !.owners = gh.owners]
    BY <1>1 DEF ObserveOwners, Checking, Proceeding, Admitted
  <2>4. /\ w' \in Worker /\ w'.pc = "teams" /\ w'.snap = w.snap
        /\ w'.ops = w.ops /\ w'.scope = w.scope
    BY <1>0, <2>2, <2>3 DEF Worker
  <2>5. WorkerOK'
    BY <1>0, <2>3, <2>4, WorkerMoves
  <2> QED
    BY <2>1, <2>5 DEF IInv
<1>2. ASSUME ObserveTeams PROVE IInv'
  <2>1. ObjectOK' /\ OutsideOK'
    BY <1>0, <1>2, ObjectKept, OutsideKept DEF ObserveTeams
  <2>2. gh.teams \in SUBSET Teams /\ "repos" \in Steps
    BY Seen DEF Steps
  <2>3. w.pc = "teams" /\ w' = [w EXCEPT !.pc = "repos", !.teams = gh.teams]
    BY <1>2 DEF ObserveTeams
  <2>4. /\ w' \in Worker /\ w'.pc = "repos" /\ w'.snap = w.snap
        /\ w'.ops = w.ops /\ w'.scope = w.scope
    BY <1>0, <2>2, <2>3 DEF Worker
  <2>5. WorkerOK'
    BY <1>0, <2>3, <2>4, WorkerMoves
  <2> QED
    BY <2>1, <2>5 DEF IInv
<1>3. ASSUME ObserveRepositories PROVE IInv'
  <2>1. ObjectOK' /\ OutsideOK'
    BY <1>0, <1>3, ObjectKept, OutsideKept DEF ObserveRepositories
  <2> DEFINE roles == [r \in Repos |-> [t \in Teams |-> Listed(gh.roles[r][t])]]
  <2>2. roles \in [Repos -> [Teams -> Permissions \cup {None}]] /\ "listed" \in Steps
    BY Seen DEF Steps, Listed, Permissions
  <2>3. w.pc = "repos" /\ w' = [w EXCEPT !.pc = "listed", !.roles = roles]
    BY <1>3 DEF ObserveRepositories
  <2> HIDE DEF roles
  <2>4. /\ w' \in Worker /\ w'.pc = "listed" /\ w'.snap = w.snap
        /\ w'.ops = w.ops /\ w'.scope = w.scope
    BY <1>0, <2>2, <2>3 DEF Worker
  <2>5. WorkerOK'
    BY <1>0, <2>3, <2>4, WorkerMoves
  <2> QED
    BY <2>1, <2>5 DEF IInv
<1>4. ASSUME ObservationFails PROVE IInv'
  <2>1. Sound(Failed(w.snap))
    BY <1>0, FailedSound
  <2>2. Fault("github") /\ Finish(Failed(w.snap)) /\ UNCHANGED <<k8s, gh, limitOver, edits>>
    BY <1>4 DEF ObservationFails
  <2>3. ObjectOK' /\ WorkerOK' /\ OutsideOK'
    BY <1>0, <2>1, <2>2, Finished, OutsideFaulty
  <2> QED
    BY <2>3 DEF IInv
<1>5. ASSUME ObservationLimited PROVE IInv'
  BY <1>0, <1>5, HeldBack DEF ObservationLimited, Sound
<1>6. ASSUME ReadAgain PROVE IInv'
  <2>1. ObjectOK' /\ OutsideOK'
    BY <1>0, <1>6, ObjectKept, OutsideKept DEF ReadAgain
  <2>2. cache.status \in Status /\ Sound(cache.status) /\ "record" \in Steps
    BY <1>0 DEF ObjectOK, Steps
  <2>3. w.pc = "listed" /\ w' = [w EXCEPT !.pc = "record", !.snap = cache.status]
    BY <1>6 DEF ReadAgain
  <2>4. /\ w' \in Worker /\ w'.pc = "record" /\ w'.snap = cache.status
        /\ w'.ops = w.ops /\ w'.scope = w.scope
    BY <1>0, <2>2, <2>3 DEF Worker
  <2>5. WorkerOK'
    BY <1>0, <2>2, <2>3, <2>4, WorkerMoves
  <2> QED
    BY <2>1, <2>5 DEF IInv
<1>7. ASSUME RecordObserved PROVE IInv'
  <2> DEFINE st == [w.snap EXCEPT !.owners = w.owners, !.teams = w.teams]
  <2>1. w.owners \in SUBSET Users /\ w.teams \in SUBSET Teams /\ w.snap \in Status
    BY <1>0 DEF Worker
  <2>2. st \in Status /\ st.state = w.snap.state /\ st.ops = w.snap.ops
    BY <2>1 DEF Status
  <2>3. Sound(st)
    BY <1>0, <2>2 DEF Sound, Telling
  <2>4. Finish(st) /\ UNCHANGED Outside
    BY <1>7 DEF RecordObserved
  <2> HIDE DEF st
  <2>5. ObjectOK' /\ WorkerOK' /\ OutsideOK'
    BY <1>0, <2>3, <2>4, Finished, OutsideKept
  <2> QED
    BY <2>5 DEF IInv
<1> QED
  BY <1>1, <1>2, <1>3, <1>4, <1>5, <1>6, <1>7

\* Everything the change calculators enumerate is finite.
LEMMA AllFinite ==
  /\ IsFiniteSet(Users) /\ IsFiniteSet(Teams) /\ IsFiniteSet(Repos)
  /\ \A S \in SUBSET Users : IsFiniteSet(S)
  /\ \A S \in SUBSET Teams : IsFiniteSet(S)
BY SetsAssumption, FS_Subset

\* What the plans of the comparison are made of: pending operations of
\* their scopes.
LEMMA OwnersPlanned ==
  ASSUME IInv, NEW wanted \in OwnersOf(k8s.members),
         NEW new \in Differences(w.snap.ops.owners, w.snap.owners, wanted)
  PROVE  new \in Seq(PendingOf("owners"))
<1>1. wanted \in SUBSET Users
  <2>1. UNION {k8s.members[t] : t \in OwnerTeams} \in SUBSET Users
    BY Seen
  <2>2. Anonymous \subseteq Users
    BY SetsAssumption
  <2> QED
    BY <2>1, <2>2 DEF OwnersOf
<1>2. w.snap.owners \in SUBSET Users
  BY Facts
<1>3. /\ \A n \in wanted \ w.snap.owners : NewOp("add", None, n, None) \in PendingOf("owners")
      /\ \A n \in w.snap.owners \ wanted : NewOp("remove", None, n, None) \in PendingOf("owners")
  BY <1>1, <1>2, NewOps DEF OperationTypes
<1>4. IsFiniteSet(wanted) /\ IsFiniteSet(w.snap.owners)
  BY <1>1, <1>2, AllFinite
<1> QED
  BY <1>3, <1>4, DifferencesType

\* The operations planned for the teams.
LEMMA TeamsPlanned ==
  ASSUME IInv,
         NEW new \in Differences(w.snap.ops.teams, w.snap.teams, k8s.teams)
  PROVE  new \in Seq(PendingOf("teams"))
<1>1. k8s.teams \in SUBSET Teams /\ w.snap.teams \in SUBSET Teams
  BY Seen, Facts
<1>2. /\ \A n \in k8s.teams \ w.snap.teams : NewOp("add", None, n, None) \in PendingOf("teams")
      /\ \A n \in w.snap.teams \ k8s.teams : NewOp("remove", None, n, None) \in PendingOf("teams")
  BY <1>1, NewOps DEF OperationTypes
<1>3. IsFiniteSet(k8s.teams) /\ IsFiniteSet(w.snap.teams)
  BY <1>1, AllFinite
<1> QED
  BY <1>2, <1>3, DifferencesType

\* The operations planned for the repositories.
LEMMA RepositoriesPlanned ==
  ASSUME IInv
  PROVE  RepositoryChanges(w.snap.ops.repos, Visibility, w.roles,
                           Policy(w.meta, k8s.exceptions)) \in Seq(PendingOf("repos"))
<1> DEFINE policy == Policy(w.meta, k8s.exceptions)
<1>1. policy.defaults = w.meta.defaults /\ policy.exceptions = k8s.exceptions
  BY DEF Policy
<1>2. w.meta \in Meta /\ w.roles \in [Repos -> [Teams -> Permissions \cup {None}]]
  BY Facts DEF Worker
<1>3. policy.defaults \in [Visibilities -> Seq([team : Teams, permission : Permissions])]
  BY <1>1, <1>2 DEF Meta
<1>4. policy.exceptions \in Seq([repo : Repos, team : Teams, permission : Permissions])
  BY <1>1, Seen
<1>5. DOMAIN Visibility = Repos /\ \A r \in Repos : DOMAIN w.roles[r] = Teams
  BY <1>2, SetsAssumption
<1> HIDE DEF policy
<1>6. RepositoryChanges(w.snap.ops.repos, Visibility, w.roles, policy) \in Seq(PendingOf("repos"))
  BY <1>3, <1>4, <1>5, AllFinite, NewOps, RepositoryChangesType
<1> QED
  BY <1>6 DEF policy

\* The operations planned for the members.
LEMMA MembersPlanned ==
  ASSUME IInv,
         NEW new \in MemberRemovals(w.snap.ops.members, w.members,
                                    Exempt \cup w.union, w.lists)
  PROVE  new \in Seq(PendingOf("members"))
<1>1. w.members \in SUBSET Users
  BY Facts DEF Worker
<1>2. \A u \in w.members \ (Exempt \cup w.union) :
        NewOp("remove", None, u, None) \in PendingOf("members")
  BY <1>1, NewOps
<1>3. IsFiniteSet(w.members)
  BY <1>1, AllFinite
<1> QED
  BY <1>2, <1>3, MemberRemovalsType

\* The operations planned for the direct collaborators.
LEMMA CollaboratorsPlanned ==
  ASSUME IInv,
         NEW new \in CollaboratorRemovals(w.snap.ops.collaborators, w.direct, Exempt)
  PROVE  new \in Seq(PendingOf("collaborators"))
<1>1. w.direct \in SUBSET (Repos \X Users)
  BY Facts DEF Worker
<1>2. \A p \in w.direct : NewOp("remove", p[1], p[2], None) \in PendingOf("collaborators")
  <2>1. \A p \in w.direct : p[1] \in Repos /\ p[2] \in Users
    BY <1>1
  <2> QED
    BY <2>1, NewOps
<1>3. IsFiniteSet(w.direct)
  <2>1. IsFiniteSet(Repos \X Users)
    BY AllFinite, FS_Product
  <2> QED
    BY <1>1, <2>1, FS_Subset
<1> QED
  BY <1>2, <1>3, CollaboratorRemovalsType

\* The first two plans: owners and teams.
LEMMA OwnersAndTeamsKeep ==
  ASSUME IInv,
         \/ PlanOwners \/ WaitForOwners \/ FailOwners \/ LookupFails \/ PlanTeams
  PROVE  IInv'
<1>0. /\ ObjectOK /\ OutsideOK /\ WorkerOK /\ Sound(w.snap) /\ w \in Worker
      /\ w.snap.owners \in SUBSET Users /\ w.snap.teams \in SUBSET Teams
  BY Facts
<1>1. ASSUME PlanOwners PROVE IInv'
  <2>1. OutsideOK' /\ w.pc = "listed"
    BY <1>0, <1>1, OutsideKept DEF PlanOwners
  <2>2. CASE SwitchedOff(w.meta, "owners")
    <3>1. Goto("planTeams") /\ UNCHANGED object
      BY <1>1, <2>2 DEF PlanOwners
    <3>2. ObjectOK' /\ WorkerOK'
      BY <1>0, <2>1, <3>1, ObjectKept, WorkerGoes DEF Steps
    <3> QED
      BY <2>1, <3>2 DEF IInv
  <2>3. CASE ~SwitchedOff(w.meta, "owners")
    <3>1. PICK wanted \in OwnersOf(k8s.members) :
            IF wanted = {} THEN Stop /\ UNCHANGED object
            ELSE \E new \in Differences(w.snap.ops.owners, w.snap.owners, wanted) :
                   Plan("owners", new, "planTeams")
      BY <1>1, <2>3 DEF PlanOwners
    <3>2. CASE wanted = {}
      BY <1>0, <2>1, <3>1, <3>2, ObjectKept, WorkerRests DEF IInv
    <3>3. CASE wanted # {}
      <4>1. PICK new \in Differences(w.snap.ops.owners, w.snap.owners, wanted) :
              Plan("owners", new, "planTeams")
        BY <3>1, <3>3
      <4>3. new \in Seq(PendingOf("owners"))
        BY OwnersPlanned
      <4>4. ObjectOK' /\ WorkerOK'
        <5>1. "owners" \in Scopes /\ "planTeams" \in Steps \ {"execute", "report"}
          BY DEF Scopes, Steps
        <5> QED
          BY <2>1, <4>1, <4>3, <5>1, Planned
      <4> QED
        BY <2>1, <4>4 DEF IInv
    <3> QED
      BY <3>2, <3>3
  <2> QED
    BY <2>2, <2>3
<1>2. ASSUME WaitForOwners PROVE IInv'
  BY <1>0, <1>2, ObjectKept, OutsideKept, WorkerRests DEF WaitForOwners, IInv
<1>3. ASSUME FailOwners PROVE IInv'
  BY <1>0, <1>3, FailedSound, Finished, OutsideKept DEF FailOwners, IInv
<1>4. ASSUME LookupFails PROVE IInv'
  <2>1. Sound(Failed(w.snap))
    BY <1>0, FailedSound
  <2>2. Fault("abort") /\ Finish(Failed(w.snap)) /\ UNCHANGED <<k8s, gh, limitOver, edits>>
    BY <1>4 DEF LookupFails
  <2>3. ObjectOK' /\ WorkerOK' /\ OutsideOK'
    BY <1>0, <2>1, <2>2, Finished, OutsideFaulty
  <2> QED
    BY <2>3 DEF IInv
<1>5. ASSUME PlanTeams PROVE IInv'
  <2>1. OutsideOK' /\ w.pc = "planTeams" /\ "teams" \in Scopes /\ "planRepos" \in Steps \ {"execute", "report"}
    BY <1>0, <1>5, OutsideKept DEF PlanTeams, Scopes, Steps
  <2>2. CASE SwitchedOff(w.meta, "teams")
    <3>1. Goto("planRepos") /\ UNCHANGED object
      BY <1>5, <2>2 DEF PlanTeams
    <3>2. ObjectOK' /\ WorkerOK'
      BY <1>0, <2>1, <3>1, ObjectKept, WorkerGoes
    <3> QED
      BY <2>1, <3>2 DEF IInv
  <2>3. CASE ~SwitchedOff(w.meta, "teams")
    <3>1. PICK new \in Differences(w.snap.ops.teams, w.snap.teams, k8s.teams) :
            Plan("teams", new, "planRepos")
      BY <1>5, <2>3 DEF PlanTeams
    <3>5. new \in Seq(PendingOf("teams"))
      BY TeamsPlanned
    <3>6. ObjectOK' /\ WorkerOK'
      BY <2>1, <3>1, <3>5, Planned
    <3> QED
      BY <2>1, <3>6 DEF IInv
  <2> QED
    BY <2>2, <2>3
<1> QED
  BY <1>1, <1>2, <1>3, <1>4, <1>5

\* Reviving skipped operations of a scope makes some of them pending.
LEMMA RevivedScoped ==
  ASSUME NEW s \in Scopes, NEW ops \in Seq(OpOf(s)), NEW positions
  PROVE  /\ Revived(ops, positions) \in Seq(OpOf(s))
         /\ DOMAIN Revived(ops, positions) = DOMAIN ops
         /\ Revived(ops, positions) # ops => PendingOperationsFound(Revived(ops, positions))
<1>1. ASSUME NEW op \in OpOf(s)
      PROVE  Awake(op) \in OpOf(s) /\ Awake(op).state = "pending"
  <2>1. op \in Op
    BY DEF OpOf
  <2>2. /\ Awake(op) \in Op /\ Awake(op).operation = op.operation
        /\ Awake(op).repo = op.repo /\ Awake(op).name = op.name
        /\ Awake(op).permission = op.permission /\ Awake(op).state = "pending"
    BY <2>1 DEF Op, Awake
  <2> QED
    BY <2>2 DEF OpOf
<1>2. /\ Revived(ops, positions) \in Seq(OpOf(s))
      /\ DOMAIN Revived(ops, positions) = DOMAIN ops
      /\ Revived(ops, positions) # ops =>
           \E i \in DOMAIN ops :
             /\ ops[i].state = "skipped" /\ i \in positions
             /\ Revived(ops, positions)[i] = Awake(ops[i])
  BY <1>1, RevivedProperties
<1>3. \A i \in DOMAIN ops : ops[i] \in OpOf(s)
  OBVIOUS
<1> QED
  BY <1>1, <1>2, <1>3 DEF PendingOperationsFound, InState

\* The plans for the repositories.
LEMMA RepositoriesKeep ==
  ASSUME IInv, PlanRepos \/ ReviveRepos
  PROVE  IInv'
<1>0. /\ ObjectOK /\ OutsideOK /\ WorkerOK /\ Sound(w.snap) /\ w \in Worker
      /\ w.snap.ops \in [Scopes -> Seq(Op)] /\ WellScoped(w.snap.ops)
      /\ "repos" \in Scopes
  BY Facts DEF Scopes
<1>1. ASSUME PlanRepos PROVE IInv'
  <2>1. /\ OutsideOK' /\ w.pc = "planRepos" /\ "revive" \in Steps \ {"execute", "report"}
    BY <1>0, <1>1, OutsideKept DEF PlanRepos, Steps
  <2>2. CASE SwitchedOff(w.meta, "repos")
    <3>1. Goto("revive") /\ UNCHANGED object
      BY <1>1, <2>2 DEF PlanRepos
    <3>2. ObjectOK' /\ WorkerOK'
      BY <1>0, <2>1, <3>1, ObjectKept, WorkerGoes
    <3> QED
      BY <2>1, <3>2 DEF IInv
  <2>3. CASE ~SwitchedOff(w.meta, "repos")
    <3> DEFINE policy == Policy(w.meta, k8s.exceptions)
               new == RepositoryChanges(w.snap.ops.repos, Visibility, w.roles, policy)
    <3>1. Plan("repos", new, "revive")
      BY <1>1, <2>3 DEF PlanRepos
    <3>7. new \in Seq(PendingOf("repos"))
      BY RepositoriesPlanned
    <3> HIDE DEF new
    <3>8. ObjectOK' /\ WorkerOK'
      BY <1>0, <2>1, <3>1, <3>7, Planned
    <3> QED
      BY <2>1, <3>8 DEF IInv
  <2> QED
    BY <2>2, <2>3
<1>2. ASSUME ReviveRepos PROVE IInv'
  <2> DEFINE old == w.snap.ops.repos
             ops == Revived(old, {i \in DOMAIN old : RevivableRepo(w.meta, old[i])})
  <2>1. /\ OutsideOK' /\ w.pc = "revive" /\ "members" \in Steps \ {"execute", "report"}
    BY <1>0, <1>2, OutsideKept DEF ReviveRepos, Steps
  <2>2. old = w.snap.ops["repos"] /\ old \in Seq(OpOf("repos"))
    BY <1>0 DEF WellScoped
  <2>3. ops \in Seq(OpOf("repos")) /\ (ops # old => PendingOperationsFound(ops))
    BY <1>0, <2>2, RevivedScoped
  <2>4. IF ops = old THEN Goto("members") /\ UNCHANGED object
        ELSE Finish([w.snap EXCEPT !.state = "pending", !.ops.repos = ops])
    BY <1>2 DEF ReviveRepos
  <2>5. CASE ops = old
    <3>1. ObjectOK' /\ WorkerOK'
      BY <1>0, <2>1, <2>4, <2>5, ObjectKept, WorkerGoes
    <3> QED
      BY <2>1, <3>1 DEF IInv
  <2>6. CASE ops # old
    <3> HIDE DEF ops
    <3> DEFINE lists == [w.snap.ops EXCEPT !["repos"] = ops]
               st == [w.snap EXCEPT !.state = "pending", !.ops.repos = ops]
    <3>1. /\ lists = [s \in Scopes |-> lists[s]] /\ lists["repos"] = ops
          /\ \A s \in Scopes : lists[s] \in Seq(OpOf(s))
      BY <1>0, <2>3 DEF WellScoped
    <3>2. lists \in [Scopes -> Seq(Op)] /\ WellScoped(lists)
      BY <3>1, ScopedLists
    <3>3. PendingFound(lists)
      BY <1>0, <2>3, <2>6, <3>1 DEF PendingFound
    <3>4. w.snap \in Status
      BY <1>0 DEF Sound
    <3>5. st.ops = lists /\ st.state = "pending"
          /\ st = [[w.snap EXCEPT !.state = "pending"] EXCEPT !.ops = lists]
      BY <3>4 DEF Status
    <3>6. st \in Status
      BY <3>2, <3>4, <3>5 DEF Status, States
    <3> HIDE DEF lists
    <3>7. Finish(st)
      BY <2>4, <2>6
    <3> HIDE DEF st
    <3>8. Sound(st)
      BY <3>2, <3>3, <3>5, <3>6 DEF Sound, Telling
    <3>9. ObjectOK' /\ WorkerOK'
      BY <3>7, <3>8, Finished
    <3> QED
      BY <2>1, <3>9 DEF IInv
  <2> QED
    BY <2>5, <2>6
<1> QED
  BY <1>1, <1>2

\* Listing the members of the organization and of its teams.
LEMMA MembersKeep ==
  ASSUME IInv,
         \/ ObserveOrgMembers \/ PlanMembers \/ ListingLimited
         \/ \E t \in Teams : ObserveTeamMembers(t) \/ TeamMembersFail(t)
  PROVE  IInv'
<1>0. /\ ObjectOK /\ OutsideOK /\ WorkerOK /\ Sound(w.snap) /\ w \in Worker
      /\ w.teams \in SUBSET Teams /\ w.union \in SUBSET Users /\ w.members \in SUBSET Users
      /\ w.left \in SUBSET (Teams \cup Repos) /\ w.lists \in Nat
      /\ {"union", "collaborators", "members"} \subseteq Steps \ {"execute", "report"}
  BY Facts DEF Worker, Steps
<1>1. ASSUME ObserveOrgMembers PROVE IInv'
  <2>1. ObjectOK' /\ OutsideOK' /\ w.pc = "members"
    BY <1>0, <1>1, ObjectKept, OutsideKept DEF ObserveOrgMembers
  <2>2. CASE Previewed(w.meta, "members")
    <3>1. w' = [w EXCEPT !.pc = "union", !.members = gh.members, !.left = w.teams]
      BY <1>1, <2>2 DEF ObserveOrgMembers
    <3>2. gh.members \in SUBSET Users /\ w.teams \in SUBSET (Teams \cup Repos)
      BY <1>0, Seen
    <3>3. /\ w' \in Worker /\ w'.pc = "union" /\ w'.snap = w.snap
          /\ w'.ops = w.ops /\ w'.scope = w.scope
      BY <1>0, <3>1, <3>2 DEF Worker
    <3>4. WorkerOK'
      BY <1>0, <2>1, <3>3, WorkerMoves
    <3> QED
      BY <2>1, <3>4 DEF IInv
  <2>3. CASE ~Previewed(w.meta, "members")
    <3>1. Goto("collaborators")
      BY <1>1, <2>3 DEF ObserveOrgMembers, Goto
    <3>2. WorkerOK'
      BY <1>0, <2>1, <3>1, WorkerGoes
    <3> QED
      BY <2>1, <3>2 DEF IInv
  <2> QED
    BY <2>2, <2>3
<1>2. ASSUME PlanMembers PROVE IInv'
  <2>1. OutsideOK' /\ w.pc = "union" /\ "members" \in Scopes
    BY <1>0, <1>2, OutsideKept DEF PlanMembers, Scopes
  <2>2. PICK new \in MemberRemovals(w.snap.ops.members, w.members, Exempt \cup w.union, w.lists) :
          Plan("members", new, "collaborators")
    BY <1>2 DEF PlanMembers
  <2>5. new \in Seq(PendingOf("members"))
    BY MembersPlanned
  <2>6. ObjectOK' /\ WorkerOK'
    BY <1>0, <2>1, <2>2, <2>5, Planned
  <2> QED
    BY <2>1, <2>6 DEF IInv
<1>3. ASSUME ListingLimited PROVE IInv'
  BY <1>0, <1>3, HeldBack DEF ListingLimited, Sound
<1>4. ASSUME NEW t \in Teams, ObserveTeamMembers(t) PROVE IInv'
  <2>1. ObjectOK' /\ OutsideOK' /\ w.pc = "union"
    BY <1>0, <1>4, ObjectKept, OutsideKept DEF ObserveTeamMembers
  <2>2. w' = [w EXCEPT !.left = @ \ {t}, !.union = @ \cup gh.teamMembers[t], !.lists = @ + 1]
    BY <1>4 DEF ObserveTeamMembers
  <2>3. /\ w.left \ {t} \in SUBSET (Teams \cup Repos)
        /\ w.union \cup gh.teamMembers[t] \in SUBSET Users /\ w.lists + 1 \in Nat
    BY <1>0, Seen
  <2>4. /\ w' \in Worker /\ w'.pc = w.pc /\ w'.snap = w.snap
        /\ w'.ops = w.ops /\ w'.scope = w.scope
    BY <1>0, <2>2, <2>3 DEF Worker
  <2>5. WorkerOK'
    BY <1>0, <2>1, <2>4, WorkerMoves
  <2> QED
    BY <2>1, <2>5 DEF IInv
<1>5. ASSUME NEW t \in Teams, TeamMembersFail(t) PROVE IInv'
  <2>1. w.pc = "union" /\ w' = [w EXCEPT !.left = {}, !.lists = 0] /\ UNCHANGED object
    BY <1>5 DEF TeamMembersFail, TeamMembersUnknown
  <2>2. OutsideOK'
    <3>1. CASE Fault("github")
      BY <1>0, <1>5, <3>1, OutsideFaulty DEF TeamMembersFail
    <3>2. CASE UNCHANGED faults
      BY <1>0, <1>5, <3>2 DEF TeamMembersFail, OutsideOK
    <3> QED
      BY <1>5, <3>1, <3>2 DEF TeamMembersFail
  <2>3. /\ w' \in Worker /\ w'.pc = w.pc /\ w'.snap = w.snap
        /\ w'.ops = w.ops /\ w'.scope = w.scope
    BY <1>0, <2>1 DEF Worker
  <2>4. WorkerOK' /\ ObjectOK'
    BY <1>0, <2>1, <2>3, WorkerMoves, ObjectKept
  <2> QED
    BY <2>2, <2>4 DEF IInv
<1> QED
  BY <1>1, <1>2, <1>3, <1>4, <1>5

\* Listing the direct collaborators, and the end of the comparison.
LEMMA CollaboratorsKeep ==
  ASSUME IInv,
         \/ ChooseRepositories \/ PlanCollaborators \/ Settle
         \/ \E r \in Repos : ObserveCollaborators(r) \/ CollaboratorsFail(r)
  PROVE  IInv'
<1>0. /\ ObjectOK /\ OutsideOK /\ WorkerOK /\ Sound(w.snap) /\ w \in Worker
      /\ w.direct \in SUBSET (Repos \X Users)
      /\ w.left \in SUBSET (Teams \cup Repos)
      /\ {"direct", "settle", "switch"} \subseteq Steps \ {"execute", "report"}
  BY Facts DEF Worker, Steps
<1>1. ASSUME ChooseRepositories PROVE IInv'
  <2>1. ObjectOK' /\ OutsideOK' /\ w.pc = "collaborators"
    BY <1>0, <1>1, ObjectKept, OutsideKept DEF ChooseRepositories
  <2>2. CASE Previewed(w.meta, "collaborators")
    <3> DEFINE left == {r \in Repos : Visibility[r] # "internal"}
    <3>1. w' = [w EXCEPT !.pc = "direct", !.left = left]
      BY <1>1, <2>2 DEF ChooseRepositories
    <3>2. left \in SUBSET (Teams \cup Repos)
      OBVIOUS
    <3> HIDE DEF left
    <3>3. /\ w' \in Worker /\ w'.pc = "direct" /\ w'.snap = w.snap
          /\ w'.ops = w.ops /\ w'.scope = w.scope
      BY <1>0, <3>1, <3>2 DEF Worker
    <3>4. WorkerOK'
      BY <1>0, <2>1, <3>3, WorkerMoves
    <3> QED
      BY <2>1, <3>4 DEF IInv
  <2>3. CASE ~Previewed(w.meta, "collaborators")
    <3>1. Goto("settle")
      BY <1>1, <2>3 DEF ChooseRepositories, Goto
    <3>2. WorkerOK'
      BY <1>0, <2>1, <3>1, WorkerGoes
    <3> QED
      BY <2>1, <3>2 DEF IInv
  <2> QED
    BY <2>2, <2>3
<1>2. ASSUME PlanCollaborators PROVE IInv'
  <2>1. OutsideOK' /\ w.pc = "direct" /\ "collaborators" \in Scopes
    BY <1>0, <1>2, OutsideKept DEF PlanCollaborators, Scopes
  <2>2. PICK new \in CollaboratorRemovals(w.snap.ops.collaborators, w.direct, Exempt) :
          Plan("collaborators", new, "settle")
    BY <1>2 DEF PlanCollaborators
  <2>5. new \in Seq(PendingOf("collaborators"))
    BY CollaboratorsPlanned
  <2>6. ObjectOK' /\ WorkerOK'
    BY <1>0, <2>1, <2>2, <2>5, Planned
  <2> QED
    BY <2>1, <2>6 DEF IInv
<1>3. ASSUME Settle PROVE IInv'
  <2> DEFINE st == [w.snap EXCEPT !.state = "complete", !.error = "none"]
  <2>1. OutsideOK' /\ WorkerOK'
    BY <1>0, <1>3, OutsideKept, WorkerGoes DEF Settle
  <2>2. CASE w.snap.state = ""
    <3>1. w.snap \in Status /\ ~PendingFound(w.snap.ops) /\ WellScoped(w.snap.ops)
      BY <1>0, <2>2 DEF Sound, Telling
    <3>2. st \in Status /\ st.ops = w.snap.ops /\ st.state = "complete"
      BY <3>1 DEF Status, States, Errors
    <3>3. Sound(st)
      BY <3>1, <3>2 DEF Sound, Telling
    <3>4. SafeStatusUpdate(st)
      BY <1>3, <2>2 DEF Settle
    <3>5. ObjectOK'
      BY <1>0, <3>3, <3>4, ObjectWritten
    <3> QED
      BY <2>1, <3>5 DEF IInv
  <2>3. CASE w.snap.state # ""
    <3>1. ObjectOK'
      BY <1>0, <1>3, <2>3, ObjectKept DEF Settle
    <3> QED
      BY <2>1, <3>1 DEF IInv
  <2> QED
    BY <2>2, <2>3
<1>4. ASSUME NEW r \in Repos, ObserveCollaborators(r) PROVE IInv'
  <2>1. ObjectOK' /\ OutsideOK' /\ w.pc = "direct"
    BY <1>0, <1>4, ObjectKept, OutsideKept DEF ObserveCollaborators
  <2>2. w' = [w EXCEPT !.left = @ \ {r}, !.direct = @ \cup ({r} \X gh.collaborators[r])]
    BY <1>4 DEF ObserveCollaborators
  <2>3. /\ w.left \ {r} \in SUBSET (Teams \cup Repos)
        /\ w.direct \cup ({r} \X gh.collaborators[r]) \in SUBSET (Repos \X Users)
    BY <1>0, Seen
  <2>4. /\ w' \in Worker /\ w'.pc = w.pc /\ w'.snap = w.snap
        /\ w'.ops = w.ops /\ w'.scope = w.scope
    BY <1>0, <2>2, <2>3 DEF Worker
  <2>5. WorkerOK'
    BY <1>0, <2>1, <2>4, WorkerMoves
  <2> QED
    BY <2>1, <2>5 DEF IInv
<1>5. ASSUME NEW r \in Repos, CollaboratorsFail(r) PROVE IInv'
  <2>1. w.pc = "direct" /\ w' = [w EXCEPT !.left = @ \ {r}] /\ UNCHANGED object
    BY <1>5 DEF CollaboratorsFail
  <2>2. OutsideOK'
    BY <1>0, <1>5, OutsideFaulty DEF CollaboratorsFail
  <2>3. w.left \ {r} \in SUBSET (Teams \cup Repos)
    BY <1>0
  <2>4. /\ w' \in Worker /\ w'.pc = w.pc /\ w'.snap = w.snap
        /\ w'.ops = w.ops /\ w'.scope = w.scope
    BY <1>0, <2>1, <2>3 DEF Worker
  <2>5. WorkerOK' /\ ObjectOK'
    BY <1>0, <2>1, <2>4, WorkerMoves, ObjectKept
  <2> QED
    BY <2>2, <2>5 DEF IInv
<1> QED
  BY <1>1, <1>2, <1>3, <1>4, <1>5

-----------------------------------------------------------------------------
(* Dry run and execution                                                   *)

\* The steps of a dry run.
LEMMA DryRunKeeps ==
  ASSUME IInv, DryRunStep
  PROVE  IInv'
<1>0. /\ ObjectOK /\ OutsideOK /\ WorkerOK /\ Sound(w.snap) /\ w \in Worker
      /\ w.snap.ops \in [Scopes -> Seq(Op)] /\ WellScoped(w.snap.ops)
      /\ w.snap \in Status /\ "none" \in Errors /\ w.snap.error \in Errors
  BY Facts DEF Sound
<1>1. ASSUME EnterDryRun PROVE IInv'
  <2>1. Sound([w.snap EXCEPT !.state = "dry-run"])
    BY <1>0, SoundSilent
  <2>2. ObjectOK' /\ WorkerOK' /\ OutsideOK'
    BY <1>0, <1>1, <2>1, Finished, OutsideKept DEF EnterDryRun
  <2> QED
    BY <2>2 DEF IInv
<1>2. ASSUME LeaveDryRun PROVE IInv'
  <2> DEFINE error == IF Recomputed(w.snap).state = "complete"
                      THEN "none" ELSE Recomputed(w.snap).error
             st == [Recomputed(w.snap) EXCEPT !.error = error]
  <2>1. Finish(st) /\ UNCHANGED Outside
    BY <1>2 DEF LeaveDryRun
  <2>2. Sound(Recomputed(w.snap))
    BY <1>0, RecomputedSound
  <2>3. error \in Errors
    BY <1>0, <2>2, StatusParts
  <2> HIDE DEF error
  <2>4. Sound(st)
    BY <1>0, <2>3, RecomputedSound
  <2> HIDE DEF st
  <2>5. ObjectOK' /\ WorkerOK' /\ OutsideOK'
    BY <1>0, <2>1, <2>4, Finished, OutsideKept
  <2> QED
    BY <2>5 DEF IInv
<1>3. ASSUME Rehearse PROVE IInv'
  <2> DEFINE ops == CleanOperations(w.snap.ops, w.meta.clean)
             st == [w.snap EXCEPT !.ops = ops]
  <2>1. OutsideOK' /\ WorkerOK' /\ w.snap.state = "dry-run"
    BY <1>0, <1>3, OutsideKept, WorkerRests DEF Rehearse
  <2>2. \/ UNCHANGED object
        \/ SafeStatusUpdate(st)
        \/ meta' = [meta EXCEPT !.clean = "unset"] /\ fresh' = FALSE
           /\ UNCHANGED <<status, cache>>
    BY <1>3 DEF Rehearse
  <2>3. ops \in [Scopes -> Seq(Op)] /\ WellScoped(ops)
    BY <1>0, WithoutScoped DEF CleanOperations
  <2>4. st \in Status /\ st.ops = ops /\ st.state = "dry-run"
    BY <1>0, <2>1, <2>3 DEF Status
  <2> HIDE DEF ops
  <2>5. Sound(st)
    BY <2>3, <2>4 DEF Sound, Telling
  <2>6. [meta EXCEPT !.clean = "unset"] \in Meta
    BY <1>0 DEF ObjectOK, Meta
  <2> HIDE DEF st
  <2>7. ObjectOK'
    <3>1. CASE UNCHANGED object
      BY <1>0, <3>1, ObjectKept
    <3>2. CASE SafeStatusUpdate(st)
      BY <1>0, <2>5, <3>2, ObjectWritten
    <3>3. CASE meta' = [meta EXCEPT !.clean = "unset"] /\ fresh' = FALSE
               /\ UNCHANGED <<status, cache>>
      BY <1>0, <2>6, <3>3 DEF ObjectOK
    <3> QED
      BY <2>2, <3>1, <3>2, <3>3
  <2> QED
    BY <2>1, <2>7 DEF IInv
<1>4. ASSUME NothingToDo PROVE IInv'
  BY <1>0, <1>4, ObjectKept, OutsideKept, WorkerRests DEF NothingToDo, IInv
<1> QED
  BY <1>1, <1>2, <1>3, <1>4 DEF DryRunStep

\* The scopes are executed one after the other.
LEMMA ScopesInOrder ==
  /\ DOMAIN ScopeOrder = 1 .. 5
  /\ \A i \in 1 .. 5 : ScopeOrder[i] \in Scopes /\ ScopeIndex(ScopeOrder[i]) = i
  /\ \A s \in Scopes : ScopeIndex(s) \in 1 .. 5 /\ ScopeOrder[ScopeIndex(s)] = s
  /\ ScopeIndex("owners") = 1
  /\ \A s \in Scopes : ScopeIndex(s) = 5 <=> s = "collaborators"
<1>1. /\ DOMAIN ScopeOrder = 1 .. 5
      /\ ScopeOrder[1] = "owners" /\ ScopeOrder[2] = "teams" /\ ScopeOrder[3] = "repos"
      /\ ScopeOrder[4] = "members" /\ ScopeOrder[5] = "collaborators"
  BY DEF ScopeOrder
<1>2. \A i \in 1 .. 5 : i = 1 \/ i = 2 \/ i = 3 \/ i = 4 \/ i = 5
  OBVIOUS
<1>3. \A i, j \in 1 .. 5 : ScopeOrder[i] = ScopeOrder[j] => i = j
  BY <1>1, <1>2
<1>4. \A s \in Scopes : \E i \in 1 .. 5 : ScopeOrder[i] = s
  BY <1>1 DEF Scopes
<1>5. \A s \in Scopes : ScopeIndex(s) \in 1 .. 5 /\ ScopeOrder[ScopeIndex(s)] = s
  BY <1>1, <1>4 DEF ScopeIndex
<1>6. \A i \in 1 .. 5 : ScopeOrder[i] \in Scopes
  BY <1>1, <1>2 DEF Scopes
<1> QED
  BY <1>1, <1>3, <1>5, <1>6

\* One operation of the scope at work gets its outcome, nothing else changes.
LEMMA Outcome ==
  ASSUME IInv, NEW i, Turn(i), NEW state \in {"complete", "skipped", "failed"},
         NEW locked \in BOOLEAN, NEW failed \in BOOLEAN,
         Resolved(i, state, locked, failed)
  PROVE  /\ WorkerOK'
         /\ w'.pc = "execute" /\ w'.snap = w.snap /\ w'.meta = w.meta /\ w'.scope = w.scope
         /\ \A s \in Scopes : s # w.scope => w'.ops[s] = w.ops[s]
         /\ i \in DOMAIN w.ops[w.scope] /\ w.ops[w.scope][i].state = "pending"
         /\ DOMAIN w'.ops[w.scope] = DOMAIN w.ops[w.scope]
         /\ \A j \in DOMAIN w.ops[w.scope] :
              j # i => w'.ops[w.scope][j] = w.ops[w.scope][j]
         /\ w'.ops[w.scope][i].operation = w.ops[w.scope][i].operation
         /\ w'.ops[w.scope][i].repo = w.ops[w.scope][i].repo
         /\ w'.ops[w.scope][i].name = w.ops[w.scope][i].name
         /\ w'.ops[w.scope][i].permission = w.ops[w.scope][i].permission
         /\ w'.ops[w.scope][i].state = state
<1>0. /\ w \in Worker /\ WellScoped(w.ops) /\ w.ops \in [Scopes -> Seq(Op)]
      /\ w.scope \in Scopes /\ Executed /\ Sound(w.snap)
  BY DEF IInv, WorkerOK, Worker
<1> DEFINE list == w.ops[w.scope]
           op   == [list[i] EXCEPT !.state = state, !.locked = locked]
           done == [list EXCEPT ![i] = op]
           ops  == [w.ops EXCEPT ![w.scope] = done]
<1>1. w.pc = "execute" /\ i \in DOMAIN list /\ list \in Seq(OpOf(w.scope))
  BY <1>0 DEF Turn, InState, WellScoped
<1>a. list[i].state = "pending"
  BY DEF Turn, InState
<1>2. list[i] \in OpOf(w.scope)
  BY <1>1
<1>3. /\ op \in OpOf(w.scope)
      /\ op.operation = list[i].operation /\ op.repo = list[i].repo
      /\ op.name = list[i].name /\ op.permission = list[i].permission
      /\ op.state = state
  <2>1. list[i] \in Op
    BY <1>2 DEF OpOf
  <2> HIDE DEF list
  <2>2. /\ op \in Op /\ op.operation = list[i].operation /\ op.repo = list[i].repo
        /\ op.name = list[i].name /\ op.permission = list[i].permission
        /\ op.state = state
    BY <2>1 DEF Op
  <2> HIDE DEF op
  <2> QED
    BY <1>2, <2>2 DEF OpOf
<1>4. w' = [w EXCEPT !.ops = ops, !.failed = failed, !.changed = TRUE]
  BY <1>0, <1>1, ZenonT(40) DEF Resolved, Worker
<1> HIDE DEF op
<1>5. /\ done \in Seq(OpOf(w.scope)) /\ DOMAIN done = DOMAIN list /\ done[i] = op
      /\ \A j \in DOMAIN list : j # i => done[j] = list[j]
  BY <1>1, <1>3
<1> HIDE DEF done
<1>6. /\ ops[w.scope] = done
      /\ ops = [s \in Scopes |-> ops[s]]
      /\ \A s \in Scopes : ops[s] \in Seq(OpOf(s))
      /\ \A s \in Scopes : s # w.scope => ops[s] = w.ops[s]
  BY <1>0, <1>5 DEF WellScoped
<1>7. ops \in [Scopes -> Seq(Op)] /\ WellScoped(ops)
  BY <1>6, ScopedLists
<1> HIDE DEF ops
<1>8. /\ w' \in Worker /\ w'.pc = "execute" /\ w'.snap = w.snap
      /\ w'.ops = ops /\ w'.scope = w.scope /\ w'.meta = w.meta
  BY <1>0, <1>1, <1>4, <1>7 DEF Worker
<1>9. Executed'
  <2>1. \A k \in DOMAIN ScopeOrder : k < ScopeIndex(w.scope) =>
          ScopeOrder[k] \in Scopes /\ ScopeOrder[k] # w.scope
          /\ ~PendingOperationsFound(w.ops[ScopeOrder[k]])
    BY <1>0, <1>1, ScopesInOrder DEF Executed
  <2> QED
    BY <1>6, <1>8, <2>1 DEF Executed
<1>10. WorkerOK'
  BY <1>0, <1>7, <1>8, <1>9 DEF WorkerOK
<1> QED
  BY <1>1, <1>a, <1>3, <1>5, <1>6, <1>8, <1>10

\* What an operation does to GitHub leaves GitHub in a state it can be in.
LEMMA AppliedType ==
  ASSUME gh \in Github, NEW scope \in Scopes, NEW op \in OpOf(scope)
  PROVE  Applied(scope, op) \in Github
<1>1. /\ op.name \in IF scope \in {"teams", "repos"} THEN Teams ELSE Users
      /\ op.permission \in Permissions \cup {None}
      /\ gh.owners \in SUBSET Users /\ gh.members \in SUBSET Users
      /\ gh.teams \in SUBSET Teams
      /\ gh.teamMembers \in [Teams -> SUBSET Users]
      /\ gh.roles \in [Repos -> [Teams -> Permissions \cup {None}]]
      /\ gh.collaborators \in [Repos -> SUBSET Users]
  BY DEF OpOf, Op, Github
<1>2. CASE scope = "owners"
  BY <1>1, <1>2 DEF Applied, Github
<1>3. CASE scope = "teams"
  <2>1. op.name \in Teams
    BY <1>1, <1>3
  <2> DEFINE roles == [r \in Repos |-> [gh.roles[r] EXCEPT ![op.name] = None]]
             teamMembers == [gh.teamMembers EXCEPT ![op.name] = {}]
  <2>2. roles \in [Repos -> [Teams -> Permissions \cup {None}]]
    BY <1>1
  <2>3. teamMembers \in [Teams -> SUBSET Users]
    BY <1>1
  <2>4. Applied(scope, op) =
          IF op.operation = "add" THEN [gh EXCEPT !.teams = @ \cup {op.name}]
          ELSE [gh EXCEPT !.teams = @ \ {op.name}, !.teamMembers = teamMembers,
                          !.roles = roles]
    BY <1>3 DEF Applied, Github
  <2> HIDE DEF roles, teamMembers
  <2>5. gh.teams \cup {op.name} \in SUBSET Teams /\ gh.teams \ {op.name} \in SUBSET Teams
    BY <1>1, <2>1
  <2>6. CASE op.operation = "add"
    BY <2>4, <2>5, <2>6 DEF Github
  <2>7. CASE op.operation # "add"
    BY <2>2, <2>3, <2>4, <2>5, <2>7 DEF Github
  <2> QED
    BY <2>6, <2>7
<1>4. CASE scope = "repos"
  <2> DEFINE roles == [gh.roles EXCEPT ![op.repo][op.name] = op.permission]
  <2>1. roles \in [Repos -> [Teams -> Permissions \cup {None}]]
    BY <1>1
  <2>2. Applied(scope, op) = [gh EXCEPT !.roles = roles]
    BY <1>4 DEF Applied, Github
  <2> HIDE DEF roles
  <2> QED
    BY <2>1, <2>2 DEF Github
<1>5. CASE scope = "members"
  <2> DEFINE teamMembers == [t \in Teams |-> gh.teamMembers[t] \ {op.name}]
  <2>1. teamMembers \in [Teams -> SUBSET Users]
    BY <1>1
  <2>2. Applied(scope, op) = [gh EXCEPT !.owners = @ \ {op.name}, !.members = @ \ {op.name},
                                        !.teamMembers = teamMembers]
    BY <1>5 DEF Applied, Github
  <2> HIDE DEF teamMembers
  <2> QED
    BY <1>1, <2>1, <2>2, ZenonT(40) DEF Github
<1>6. CASE scope = "collaborators"
  <2> DEFINE direct == [gh.collaborators EXCEPT ![op.repo] = @ \ {op.name}]
  <2>1. direct \in [Repos -> SUBSET Users]
    BY <1>1
  <2>2. Applied(scope, op) = [gh EXCEPT !.collaborators = direct]
    BY <1>6 DEF Applied, Github
  <2> HIDE DEF direct
  <2> QED
    BY <2>1, <2>2 DEF Github
<1> QED
  BY <1>2, <1>3, <1>4, <1>5, <1>6 DEF Scopes

\* One operation's turn, whatever becomes of it.
LEMMA TurnKeeps ==
  ASSUME IInv, NEW i \in Positions,
         \/ SkipOperation(i) \/ ExecuteOperation(i) \/ ExecuteRefused(i)
         \/ ExecuteFails(i) \/ ExecuteLimited(i)
  PROVE  IInv'
<1>0. /\ ObjectOK /\ OutsideOK /\ WorkerOK /\ gh \in Github
      /\ w.failed \in BOOLEAN /\ w.scope \in Scopes /\ WellScoped(w.ops)
      /\ w.ops \in [Scopes -> Seq(Op)] /\ w.snap \in Status
  BY Facts DEF OutsideOK, WorkerOK, Worker
<1>1. Turn(i)
  BY DEF SkipOperation, ExecuteOperation, ExecuteRefused, ExecuteFails, ExecuteLimited, Due
<1> DEFINE op == w.ops[w.scope][i]
<1>2. op \in OpOf(w.scope)
  BY <1>0, <1>1 DEF Turn, InState, WellScoped
<1> HIDE DEF op
<1>3. ASSUME SkipOperation(i) PROVE IInv'
  <2>1. ObjectOK' /\ OutsideOK'
    BY <1>0, <1>3, ObjectKept, OutsideKept DEF SkipOperation
  <2> DEFINE failed == IF w.scope \in Gated THEN FALSE ELSE w.failed
  <2>2. Resolved(i, "skipped", FALSE, failed)
    BY <1>3 DEF SkipOperation
  <2>3. failed \in BOOLEAN
    BY <1>0
  <2> HIDE DEF failed
  <2>4. WorkerOK'
    BY <1>1, <2>2, <2>3, Outcome
  <2> QED
    BY <2>1, <2>4 DEF IInv
<1>4. ASSUME ExecuteOperation(i) PROVE IInv'
  <2>1. ObjectOK' /\ gh' = Applied(w.scope, op) /\ UNCHANGED <<k8s, limitOver, budgets>>
        /\ Resolved(i, "complete", FALSE, w.failed)
    BY <1>0, <1>4, ObjectKept DEF ExecuteOperation, op
  <2>2. gh' \in Github
    BY <1>0, <1>2, <2>1, AppliedType
  <2>3. OutsideOK'
    BY <1>0, <2>1, <2>2 DEF OutsideOK, budgets
  <2>4. WorkerOK'
    BY <1>0, <1>1, <2>1, Outcome
  <2> QED
    BY <2>1, <2>3, <2>4 DEF IInv
<1>5. ASSUME ExecuteRefused(i) PROVE IInv'
  <2>1. ObjectOK' /\ OutsideOK'
    BY <1>0, <1>5, ObjectKept, OutsideKept DEF ExecuteRefused
  <2>2. \/ Resolved(i, "skipped", w.scope = "repos", w.failed)
        \/ Resolved(i, "failed", FALSE, TRUE)
    BY <1>5 DEF ExecuteRefused
  <2>3. (w.scope = "repos") \in BOOLEAN
    OBVIOUS
  <2>4. WorkerOK'
    BY <1>0, <1>1, <2>2, <2>3, Outcome
  <2> QED
    BY <2>1, <2>4 DEF IInv
<1>6. ASSUME ExecuteFails(i) PROVE IInv'
  <2>1. ObjectOK' /\ UNCHANGED <<k8s, limitOver, edits>> /\ Resolved(i, "failed", FALSE, TRUE)
    BY <1>0, <1>6, ObjectKept DEF ExecuteFails
  <2>2. /\ \E kind : Fault(kind)
        /\ gh' = gh \/ gh' = Applied(w.scope, op)
    BY <1>6 DEF ExecuteFails, op
  <2>3. faults' \in Nat /\ gh' \in Github
    BY <1>0, <1>2, <2>2, FaultCounted, AppliedType
  <2>4. OutsideOK'
    BY <1>0, <2>1, <2>3 DEF OutsideOK
  <2>5. WorkerOK'
    BY <1>1, <2>1, Outcome
  <2> QED
    BY <2>1, <2>4, <2>5 DEF IInv
<1>7. ASSUME ExecuteLimited(i) PROVE IInv'
  <2>1. HeldStatus \in Status /\ HeldStatus.ops = w.ops
    BY <1>0 DEF HeldStatus, Status
  <2>2. HoldFor(HeldStatus)
    BY <1>7 DEF ExecuteLimited
  <2> QED
    BY <1>0, <2>1, <2>2, HeldBack
<1> QED
  BY <1>3, <1>4, <1>5, <1>6, <1>7

\* The execution starts, goes on to the next scope and is reported.
LEMMA ExecutionKeeps ==
  ASSUME IInv, StartExecution \/ ScopeDone \/ Report
  PROVE  IInv'
<1>0. /\ ObjectOK /\ OutsideOK /\ WorkerOK /\ Executed /\ Sound(w.snap) /\ w \in Worker
      /\ w.scope \in Scopes /\ w.ops \in [Scopes -> Seq(Op)] /\ WellScoped(w.ops)
      /\ w.snap \in Status /\ WellScoped(w.snap.ops) /\ w.snap.ops \in [Scopes -> Seq(Op)]
      /\ "execute" \in Steps /\ "report" \in Steps /\ "none" \in Errors /\ w.snap.error \in Errors
  BY Facts DEF WorkerOK, Worker, Sound, Steps
<1>1. ASSUME StartExecution PROVE IInv'
  <2>1. ObjectOK' /\ OutsideOK' /\ w.pc = "switch"
        /\ w' = [w EXCEPT !.pc = "execute", !.ops = w.snap.ops]
    BY <1>0, <1>1, ObjectKept, OutsideKept DEF StartExecution
  <2>2. /\ w' \in Worker /\ w'.pc = "execute" /\ w'.snap = w.snap
        /\ w'.ops = w.snap.ops /\ w'.scope = w.scope
    BY <1>0, <2>1 DEF Worker
  <2>3. w'.scope = "owners"
    BY <1>0, <2>1, <2>2 DEF Executed
  <2>4. Executed'
    <3>1. \A k \in DOMAIN ScopeOrder : ~(k < ScopeIndex(w'.scope))
      BY <2>3, ScopesInOrder
    <3> QED
      BY <2>2, <3>1 DEF Executed
  <2>5. WorkerOK'
    BY <1>0, <2>2, <2>4 DEF WorkerOK
  <2> QED
    BY <2>1, <2>5 DEF IInv
<1>2. ASSUME ScopeDone PROVE IInv'
  <2>1. ObjectOK' /\ OutsideOK' /\ w.pc = "execute" /\ ~PendingOperationsFound(w.ops[w.scope])
    BY <1>0, <1>2, ObjectKept, OutsideKept DEF ScopeDone
  <2>2. \A k \in 1 .. 5 : k <= ScopeIndex(w.scope) => ~PendingOperationsFound(w.ops[ScopeOrder[k]])
    <3> SUFFICES ASSUME NEW k \in 1 .. 5, k <= ScopeIndex(w.scope)
                 PROVE  ~PendingOperationsFound(w.ops[ScopeOrder[k]])
      OBVIOUS
    <3>1. CASE k = ScopeIndex(w.scope)
      BY <1>0, <2>1, <3>1, ScopesInOrder
    <3>2. CASE k # ScopeIndex(w.scope)
      <4>1. ScopeIndex(w.scope) \in 1 .. 5
        BY <1>0, ScopesInOrder
      <4>2. k < ScopeIndex(w.scope)
        BY <3>2, <4>1
      <4> QED
        BY <1>0, <2>1, <4>2, ScopesInOrder DEF Executed
    <3> QED
      BY <3>1, <3>2
  <2>3. CASE w.scope = "collaborators"
    <3>1. w' = [w EXCEPT !.pc = "report"]
      BY <1>2, <2>3 DEF ScopeDone, Goto
    <3>2. /\ w' \in Worker /\ w'.pc = "report" /\ w'.snap = w.snap
          /\ w'.ops = w.ops /\ w'.scope = w.scope
      BY <1>0, <3>1 DEF Worker
    <3>3. ~PendingFound(w.ops)
      <4>1. \A s \in Scopes : ScopeIndex(s) \in 1 .. 5 /\ ScopeIndex(s) <= 5
                                /\ ScopeOrder[ScopeIndex(s)] = s
        BY ScopesInOrder
      <4>2. ScopeIndex(w.scope) = 5
        BY <1>0, <2>3, ScopesInOrder
      <4> QED
        BY <2>2, <4>1, <4>2 DEF PendingFound
    <3>4. WorkerOK'
      BY <1>0, <3>2, <3>3 DEF WorkerOK, Executed
    <3> QED
      BY <2>1, <3>4 DEF IInv
  <2>4. CASE w.scope # "collaborators"
    <3> DEFINE n == ScopeIndex(w.scope)
               next == ScopeOrder[n + 1]
               ops == Entered(next)
               lists == [w.ops EXCEPT ![next] = ops]
               changed == w.changed \/ ops # w.ops[next]
    <3>1. n \in 1 .. 4 /\ next \in Scopes /\ ScopeIndex(next) = n + 1
      <4>1. n \in 1 .. 5 /\ n # 5
        BY <1>0, <2>4, ScopesInOrder
      <4>2. n \in 1 .. 4 /\ n + 1 \in 1 .. 5
        BY <4>1
      <4> QED
        BY <4>2, ScopesInOrder
    <3>2. w' = [w EXCEPT !.scope = next, !.ops = lists, !.changed = changed]
      BY <1>0, <1>2, <2>4 DEF ScopeDone, Worker
    <3>3. ops \in Seq(OpOf(next))
      <4>1. w.ops[next] \in Seq(OpOf(next))
        BY <1>0, <3>1 DEF WellScoped
      <4> QED
        BY <3>1, <4>1, RevivedScoped DEF Entered
    <3> HIDE DEF n, next, ops
    <3>4. /\ lists = [s \in Scopes |-> lists[s]]
          /\ \A s \in Scopes : lists[s] \in Seq(OpOf(s))
          /\ \A s \in Scopes : s # next => lists[s] = w.ops[s]
      BY <1>0, <3>1, <3>3 DEF WellScoped
    <3>5. lists \in [Scopes -> Seq(Op)] /\ WellScoped(lists)
      BY <3>4, ScopedLists
    <3>6. changed \in BOOLEAN
      BY <1>0 DEF Worker
    <3> HIDE DEF lists, changed
    <3>7. /\ w' \in Worker /\ w'.pc = "execute" /\ w'.snap = w.snap
          /\ w'.ops = lists /\ w'.scope = next
      BY <1>0, <2>1, <3>1, <3>2, <3>5, <3>6 DEF Worker
    <3>8. Executed'
      <4>1. ASSUME NEW k \in 1 .. 5, k < n + 1
            PROVE  ~PendingOperationsFound(lists[ScopeOrder[k]])
        <5>1. k <= n
          BY <3>1, <4>1
        <5>2. ScopeOrder[k] # next
          BY <3>1, <4>1, ScopesInOrder
        <5>3. lists[ScopeOrder[k]] = w.ops[ScopeOrder[k]]
          BY <3>4, <5>2, ScopesInOrder
        <5> QED
          BY <2>2, <5>1, <5>3 DEF n
      <4> QED
        BY <3>1, <3>7, <4>1, ScopesInOrder DEF Executed
    <3>9. WorkerOK'
      BY <1>0, <3>5, <3>7, <3>8 DEF WorkerOK
    <3> QED
      BY <2>1, <3>9 DEF IInv
  <2> QED
    BY <2>3, <2>4
<1>3. ASSUME Report PROVE IInv'
  <2>1. OutsideOK' /\ WorkerOK' /\ w.pc = "report"
    BY <1>0, <1>3, OutsideKept, WorkerRests DEF Report
  <2>2. CASE w.changed
    <3> DEFINE state == IF w.failed THEN "failed" ELSE "complete"
               error == IF w.failed THEN w.snap.error ELSE "none"
    <3>1. state \in States \ {"pending", ""} /\ error \in Errors
      BY <1>0 DEF States
    <3>2. Reported = [w.snap EXCEPT !.ops = w.ops, !.state = state, !.error = error]
      BY DEF Reported
    <3> HIDE DEF state, error
    <3>3. Reported \in Status /\ Reported.ops = w.ops /\ Reported.state = state
      BY <1>0, <3>1, <3>2 DEF Status
    <3>4. ~PendingFound(w.ops)
      BY <1>0, <2>1 DEF Executed
    <3>5. Sound(Reported)
      BY <1>0, <3>1, <3>3, <3>4 DEF Sound, Telling
    <3>6. ObjectOK'
      BY <1>0, <1>3, <2>2, <3>5, ObjectWritten DEF Report
    <3> QED
      BY <2>1, <3>6 DEF IInv
  <2>3. CASE ~w.changed
    BY <1>0, <1>3, <2>1, <2>3, ObjectKept DEF Report, IInv
  <2> QED
    BY <2>2, <2>3
<1> QED
  BY <1>1, <1>2, <1>3

\* The surroundings: crashes, the informer, the clock, users and GitHub.
LEMMA SurroundingsKeep ==
  ASSUME IInv,
         \/ Abort \/ SyncCache \/ LimitResets
         \/ EditMeta \/ EditGithub \/ EditResources
  PROVE  IInv'
<1>0. ObjectOK /\ OutsideOK /\ WorkerOK /\ w \in Worker
  BY Facts
<1>a. ASSUME NEW kind, Edit(kind) PROVE edits' \in Nat
  <2>1. edits \in Nat /\ edits > 0 /\ edits' = edits - 1
    BY <1>0, <1>a DEF OutsideOK, Edit
  <2> QED
    BY <2>1
<1>1. ASSUME Abort PROVE IInv'
  BY <1>0, <1>1, ObjectKept, OutsideFaulty, WorkerRests DEF Abort, IInv
<1>2. ASSUME SyncCache PROVE IInv'
  <2>1. OutsideOK' /\ UNCHANGED w
    BY <1>0, <1>2, OutsideKept DEF SyncCache
  <2>2. ObjectOK'
    BY <1>0, <1>2 DEF SyncCache, ObjectOK, Sound
  <2> QED
    BY <1>0, <2>1, <2>2 DEF IInv, WorkerOK, Executed
<1>3. ASSUME LimitResets PROVE IInv'
  <2>1. OutsideOK' /\ UNCHANGED w
    BY <1>0, <1>3 DEF LimitResets, OutsideOK, budgets
  <2>2. ObjectOK'
    BY <1>0, <1>3, ObjectKept DEF LimitResets
  <2> QED
    BY <1>0, <2>1, <2>2 DEF IInv, WorkerOK, Executed
<1>4. ASSUME EditMeta PROVE IInv'
  <2>1. OutsideOK'
    BY <1>0, <1>4, <1>a DEF EditMeta, OutsideOK
  <2>2. ObjectOK'
    BY <1>0, <1>4, InputsAssumption DEF EditMeta, ObjectOK
  <2>3. w' = [w EXCEPT !.current = FALSE]
    BY <1>4 DEF EditMeta
  <2>4. /\ w' \in Worker /\ w'.pc = w.pc /\ w'.snap = w.snap
        /\ w'.ops = w.ops /\ w'.scope = w.scope
    BY <1>0, <2>3 DEF Worker
  <2>5. WorkerOK'
    BY <1>0, <2>4 DEF WorkerOK, Executed
  <2> QED
    BY <2>1, <2>2, <2>5 DEF IInv
<1>5. ASSUME EditGithub PROVE IInv'
  <2>1. OutsideOK' /\ UNCHANGED w
    BY <1>0, <1>5, <1>a, InputsAssumption DEF EditGithub, OutsideOK
  <2>2. ObjectOK'
    BY <1>0, <1>5, ObjectKept DEF EditGithub
  <2> QED
    BY <1>0, <2>1, <2>2 DEF IInv, WorkerOK, Executed
<1>6. ASSUME EditResources PROVE IInv'
  <2>1. OutsideOK' /\ UNCHANGED w
    BY <1>0, <1>6, <1>a, InputsAssumption DEF EditResources, OutsideOK
  <2>2. ObjectOK'
    BY <1>0, <1>6, ObjectKept DEF EditResources
  <2> QED
    BY <1>0, <2>1, <2>2 DEF IInv, WorkerOK, Executed
<1> QED
  BY <1>1, <1>2, <1>3, <1>4, <1>5, <1>6

-----------------------------------------------------------------------------
(* The invariant                                                           *)

\* The invariant holds at first.
LEMMA InitIInv ==
  ASSUME Init
  PROVE  IInv
<1>1. Sound(status) /\ status \in Status
  BY EmptySound DEF Init, Sound
<1>2. ObjectOK
  BY <1>1, InputsAssumption DEF Init, ObjectOK
<1>3. OutsideOK
  BY InputsAssumption, BoundsAssumption DEF Init, OutsideOK
<1>4. WorkerOK
  BY RestType, EmptySound DEF Init, WorkerOK, Executed
<1> QED
  BY <1>2, <1>3, <1>4 DEF IInv

\* Every step keeps the invariant.
LEMMA NextIInv ==
  ASSUME IInv, [Next]_vars
  PROVE  IInv'
<1>1. ASSUME UNCHANGED vars PROVE IInv'
  <2>1. UNCHANGED <<status, meta, cache, fresh, k8s, gh, limitOver, w, faults, edits>>
    BY <1>1 DEF vars, object, budgets
  <2> QED
    BY <2>1 DEF IInv, ObjectOK, OutsideOK, WorkerOK, Executed
<1>2. ASSUME Comparison PROVE IInv'
  BY <1>2, ObservingKeeps, OwnersAndTeamsKeep, RepositoriesKeep, MembersKeep, CollaboratorsKeep
     DEF Comparison
<1>3. ASSUME Execution PROVE IInv'
  BY <1>3, TurnKeeps, ExecutionKeeps DEF Execution
<1> QED
  BY <1>1, <1>2, <1>3, StartKeeps, DryRunKeeps, SurroundingsKeep DEF Next, WorkerStep

\* The inductive invariant: every status, as stored, as cached, as read and
\* as executed, is sound.
THEOREM Invariance == Spec => []IInv
<1>1. Init => IInv
  BY InitIInv
<1>2. IInv /\ [Next]_vars => IInv'
  BY NextIInv
<1> QED
  BY <1>1, <1>2, PTL DEF Spec

\* The variables keep their types.
THEOREM TypeCorrect == Spec => []TypeOK
<1>1. IInv => TypeOK
  BY DEF IInv, ObjectOK, OutsideOK, WorkerOK, Sound, TypeOK
<1> QED
  BY <1>1, Invariance, PTL

\* "pending" is written with a pending operation and "complete" without,
\* by every writer of the status and from every copy of it.
THEOREM StateTells == Spec => []StateTellsPending
<1>1. IInv => StateTellsPending
  BY DEF IInv, ObjectOK, Sound, Telling, StateTellsPending
<1> QED
  BY <1>1, Invariance, PTL

-----------------------------------------------------------------------------
(* What is outstanding                                                     *)

\* The changes a status with these operations announces.
OutstandingOf(lists) ==
  UNION {{Change(s, lists[s][i]) : i \in {j \in DOMAIN lists[s] : Waiting(s, lists[s][j])}} :
         s \in Scopes}

\* The operations are those of `base', and none of them waits that did not.
Within(lists, base) ==
  \A s \in Scopes :
    /\ DOMAIN lists[s] = DOMAIN base[s]
    /\ \A i \in DOMAIN base[s] :
         /\ Change(s, lists[s][i]) = Change(s, base[s][i])
         /\ Waiting(s, lists[s][i]) => Waiting(s, base[s][i])

\* A change is outstanding when an operation asks for it that waits.
LEMMA OutstandingMember ==
  ASSUME NEW lists, NEW c
  PROVE  c \in OutstandingOf(lists) <=>
           \E s \in Scopes : \E i \in DOMAIN lists[s] :
             Waiting(s, lists[s][i]) /\ c = Change(s, lists[s][i])
BY DEF OutstandingOf

\* Executing operations strikes changes off.
LEMMA WithinShrinks ==
  ASSUME NEW lists, NEW base, Within(lists, base)
  PROVE  OutstandingOf(lists) \subseteq OutstandingOf(base)
<1> SUFFICES ASSUME NEW c \in OutstandingOf(lists) PROVE c \in OutstandingOf(base)
  OBVIOUS
<1>0. PICK s \in Scopes : \E i \in DOMAIN lists[s] :
        Waiting(s, lists[s][i]) /\ c = Change(s, lists[s][i])
  BY OutstandingMember
<1>1. PICK i \in DOMAIN lists[s] :
        Waiting(s, lists[s][i]) /\ c = Change(s, lists[s][i])
  BY <1>0
<1>2. i \in DOMAIN base[s] /\ Waiting(s, base[s][i]) /\ c = Change(s, base[s][i])
  BY <1>1 DEF Within
<1> QED
  BY <1>2, OutstandingMember

\* Dropping operations strikes changes off.
LEMMA WithoutShrinks ==
  ASSUME NEW lists \in [Scopes -> Seq(Op)], NEW gone
  PROVE  OutstandingOf(Without(lists, gone)) \subseteq OutstandingOf(lists)
<1> DEFINE left == Without(lists, gone)
<1> SUFFICES ASSUME NEW c \in OutstandingOf(left) PROVE c \in OutstandingOf(lists)
  OBVIOUS
<1>0. PICK s \in Scopes : \E i \in DOMAIN left[s] :
        Waiting(s, left[s][i]) /\ c = Change(s, left[s][i])
  <2> HIDE DEF left
  <2> QED
    BY OutstandingMember
<1>1. PICK i \in DOMAIN left[s] :
        Waiting(s, left[s][i]) /\ c = Change(s, left[s][i])
  BY <1>0
<1>2. left[s] = Keep(lists[s], DOMAIN lists[s] \ gone[s])
  BY DEF Without, WithoutPositions
<1> HIDE DEF left
<1>3. lists[s] \in Seq(Op) /\ DOMAIN lists[s] \ gone[s] \in SUBSET DOMAIN lists[s]
  OBVIOUS
<1>4. \E k \in DOMAIN lists[s] \ gone[s] : left[s][i] = lists[s][k]
  BY <1>1, <1>2, <1>3, KeepProperties
<1> QED
  BY <1>1, <1>4, OutstandingMember

\* Operations appended to a scope, or made pending again, add changes and
\* take none away.
LEMMA ListGrows ==
  ASSUME NEW lists \in [Scopes -> Seq(Op)], NEW s \in Scopes, NEW ops,
         DOMAIN lists[s] \subseteq DOMAIN ops,
         \A i \in DOMAIN lists[s] :
           /\ Change(s, ops[i]) = Change(s, lists[s][i])
           /\ Waiting(s, lists[s][i]) => Waiting(s, ops[i])
  PROVE  OutstandingOf(lists) \subseteq OutstandingOf([lists EXCEPT ![s] = ops])
<1> DEFINE more == [lists EXCEPT ![s] = ops]
<1>1. /\ more[s] = ops
      /\ \A z \in Scopes : z # s => more[z] = lists[z]
  OBVIOUS
<1> HIDE DEF more
<1> SUFFICES ASSUME NEW c \in OutstandingOf(lists) PROVE c \in OutstandingOf(more)
  BY DEF more
<1>a. PICK z \in Scopes : \E i \in DOMAIN lists[z] :
        Waiting(z, lists[z][i]) /\ c = Change(z, lists[z][i])
  BY OutstandingMember
<1>2. PICK i \in DOMAIN lists[z] :
        Waiting(z, lists[z][i]) /\ c = Change(z, lists[z][i])
  BY <1>a
<1>3. i \in DOMAIN more[z] /\ Waiting(z, more[z][i]) /\ c = Change(z, more[z][i])
  BY <1>1, <1>2
<1> QED
  BY <1>3, OutstandingMember

\* Planning more operations of a scope adds changes.
LEMMA AppendGrows ==
  ASSUME NEW lists \in [Scopes -> Seq(Op)], NEW s \in Scopes, NEW T, NEW new \in Seq(T)
  PROVE  OutstandingOf(lists) \subseteq OutstandingOf([lists EXCEPT ![s] = @ \o new])
<1> DEFINE old == lists[s]
           ops == old \o new
<1>1. old \in Seq(Op)
  OBVIOUS
<1> HIDE DEF old
<1>2. old \in Seq(Op \cup T) /\ new \in Seq(Op \cup T)
  BY <1>1
<1>3. DOMAIN old \subseteq DOMAIN ops /\ \A i \in DOMAIN old : ops[i] = old[i]
  BY <1>2
<1> HIDE DEF ops
<1>4. OutstandingOf(lists) \subseteq OutstandingOf([lists EXCEPT ![s] = ops])
  BY <1>3, ListGrows DEF old
<1> QED
  BY <1>4 DEF ops, old

\* An operation that is made pending again asks for what it asked for.
LEMMA AwakeWaits ==
  ASSUME NEW s \in Scopes, NEW op \in Op
  PROVE  Change(s, Awake(op)) = Change(s, op) /\ Waiting(s, Awake(op))
<1>1. /\ Awake(op).operation = op.operation /\ Awake(op).repo = op.repo
      /\ Awake(op).name = op.name /\ Awake(op).permission = op.permission
      /\ Awake(op).state = "pending"
  BY DEF Op, Awake
<1> QED
  BY <1>1 DEF Change, Waiting

\* What reviving makes of each operation.
LEMMA RevivedAt ==
  ASSUME NEW s \in Scopes, NEW ops \in Seq(Op), NEW positions
  PROVE  /\ DOMAIN Revived(ops, positions) = DOMAIN ops
         /\ \A i \in DOMAIN ops :
              /\ Change(s, Revived(ops, positions)[i]) = Change(s, ops[i])
              /\ Waiting(s, ops[i]) => Waiting(s, Revived(ops, positions)[i])
              /\ Revived(ops, positions)[i] # ops[i] => ops[i].state = "skipped"
<1> SUFFICES ASSUME NEW i \in DOMAIN ops
             PROVE  /\ Change(s, Revived(ops, positions)[i]) = Change(s, ops[i])
                    /\ Waiting(s, ops[i]) => Waiting(s, Revived(ops, positions)[i])
                    /\ Revived(ops, positions)[i] # ops[i] => ops[i].state = "skipped"
  BY DEF Revived
<1>1. Revived(ops, positions)[i] = IF ops[i].state = "skipped" /\ i \in positions
                                   THEN Awake(ops[i]) ELSE ops[i]
  BY DEF Revived, Awake
<1>2. ops[i] \in Op
  OBVIOUS
<1> QED
  BY <1>1, <1>2, AwakeWaits

\* Reviving operations of a scope adds changes.
LEMMA RevivalGrows ==
  ASSUME NEW lists \in [Scopes -> Seq(Op)], NEW s \in Scopes, NEW positions
  PROVE  OutstandingOf(lists) \subseteq
           OutstandingOf([lists EXCEPT ![s] = Revived(lists[s], positions)])
<1> DEFINE old == lists[s]
           ops == Revived(old, positions)
<1>1. old \in Seq(Op)
  OBVIOUS
<1>2. /\ DOMAIN ops = DOMAIN old
      /\ \A i \in DOMAIN old :
           /\ Change(s, ops[i]) = Change(s, old[i])
           /\ Waiting(s, old[i]) => Waiting(s, ops[i])
  <2> HIDE DEF old
  <2> QED
    BY <1>1, RevivedAt
<1> HIDE DEF ops
<1>3. OutstandingOf(lists) \subseteq OutstandingOf([lists EXCEPT ![s] = ops])
  BY <1>2, ListGrows
<1> QED
  BY <1>3 DEF ops

-----------------------------------------------------------------------------
(* The course of a reconcile: what each step does to the object, to GitHub *)
(* and to what the worker has read.                                        *)

\* While the worker compares, its status is the one at the API server.
Comparing == Steps \ {"idle", "wiped", "record", "switch", "execute", "report"}

\* What is announced by these operations has only grown, or only shrunk,
\* or they are those the worker executes.
Follows(lists) ==
  \/ OutstandingOf(w.snap.ops) \subseteq OutstandingOf(lists)
  \/ OutstandingOf(lists) \subseteq OutstandingOf(w.snap.ops)
  \/ w.pc \in {"execute", "report"} /\ lists = w.ops

\* The reconcile ends, with a write or without.
Ending ==
  /\ Stop /\ UNCHANGED <<gh, edits>>
  /\ UNCHANGED object \/ fresh' = FALSE
  /\ \/ UNCHANGED status
     \/ w.pc \notin {"idle", "wiped"} /\ Follows(status'.ops)

\* The comparison goes on.

Moving ==
  /\ UNCHANGED <<object, gh, edits>>
  /\ w.pc \in Comparing /\ (w.pc = "begun" => ~RateLimited(w.snap))
  /\ w'.pc \in Comparing \ {"begun"} /\ w'.snap = w.snap /\ w'.meta = w.meta

\* A turn of an operation ends with an outcome, and may have changed GitHub.
Resolving(i) ==
  /\ Turn(i) /\ UNCHANGED <<object, edits>>
  /\ \E state \in {"complete", "skipped", "failed"}, locked, failed \in BOOLEAN :
       Resolved(i, state, locked, failed)
  /\ gh' = gh \/ gh' = Applied(w.scope, w.ops[w.scope][i])

\* A write at the end of a reconcile.
LEMMA SaveEnds ==
  ASSUME NEW st, Finish(st), Follows(st.ops), w.pc \notin {"idle", "wiped"},
         UNCHANGED <<gh, edits>>
  PROVE  Ending
BY DEF Finish, SafeStatusUpdate, Ending

\* A status may keep its operations.
LEMMA SameFollows ==
  Follows(w.snap.ops)
BY DEF Follows

\* A rate limit that is hit ends the reconcile.
LEMMA HoldEnds ==
  ASSUME NEW st \in Status, HoldFor(st), Follows(st.ops), w.pc \notin {"idle", "wiped"}
  PROVE  Ending
<1>1. PICK e \in LimitErrors : Finish([st EXCEPT !.state = "ratelimited", !.error = e])
  BY DEF HoldFor
<1>2. [st EXCEPT !.state = "ratelimited", !.error = e].ops = st.ops
  BY DEF Status
<1>3. UNCHANGED <<gh, edits>>
  BY DEF HoldFor
<1> QED
  BY <1>1, <1>2, <1>3, SaveEnds

\* What failed and is written keeps the operations as they were read.
LEMMA FailedEnds ==
  ASSUME IInv, Finish(Failed(w.snap)), w.pc \notin {"idle", "wiped"}, UNCHANGED <<gh, edits>>
  PROVE  Ending
<1>1. w.snap \in Status
  BY Facts DEF Sound
<1>2. Failed(w.snap).ops = w.snap.ops
  BY <1>1 DEF Failed, Status
<1> QED
  BY <1>2, SaveEnds, SameFollows

\* The steps at the start of a reconcile.
LEMMA CourseOfStart ==
  ASSUME IInv, StartOfReconcile
  PROVE  Ending \/ Begin \/ WipeStatus \/ LeaveRateLimit \/ SkipComparison
<1>1. UNCHANGED Outside => UNCHANGED <<gh, edits>>
  BY DEF Outside, budgets
<1>2. CASE RemoveForceLabel
  BY <1>1, <1>2 DEF RemoveForceLabel, Ending, object
<1>3. CASE WaitForReset
  BY <1>1, <1>3 DEF WaitForReset, Ending, object
<1>4. CASE CleansUp
  <2>1. PICK expired : /\ Admitted /\ UNCHANGED Outside
                       /\ Finish(Cleaned(w.snap, w.meta.ttl, expired))
    BY <1>4 DEF CleansUp, CleanExpired
  <2> DEFINE gone == [s \in Scopes |-> {p[2] : p \in {q \in expired : q[1] = s}}]
             ops == Without(w.snap.ops, gone)
             clear == "failed" \in w.meta.ttl /\ FailedFound(w.snap.ops) /\ ~FailedFound(ops)
             error == IF clear THEN "none" ELSE w.snap.error
  <2>2. w.snap \in Status /\ w.snap.ops \in [Scopes -> Seq(Op)]
    BY Facts DEF Sound
  <2>3. OutstandingOf(ops) \subseteq OutstandingOf(w.snap.ops)
    BY <2>2, WithoutShrinks
  <2>4. Cleaned(w.snap, w.meta.ttl, expired) = Recomputed([w.snap EXCEPT !.ops = ops, !.error = error])
    BY <2>2 DEF Cleaned, Status
  <2> HIDE DEF ops, error
  <2>5. Cleaned(w.snap, w.meta.ttl, expired).ops = ops
    BY <2>2, <2>4 DEF Recomputed, Status
  <2> QED
    BY <1>1, <2>1, <2>3, <2>5, SaveEnds DEF Follows, Admitted
<1>5. CASE FailConfiguration
  BY <1>1, <1>5, FailedEnds DEF FailConfiguration, Admitted
<1>6. CASE WaitForClient
  BY <1>1, <1>6 DEF WaitForClient, Ending, object
<1> QED
  BY <1>2, <1>3, <1>4, <1>5, <1>6 DEF StartOfReconcile

\* Planning goes on, or ends the reconcile with more operations.
LEMMA PlanMoves ==
  ASSUME IInv, NEW scope \in Scopes, NEW new \in Seq(PendingOf(scope)), NEW next \in Comparing \ {"begun"},
         w.pc \in Comparing \ {"begun"}, UNCHANGED <<gh, edits>>,
         \/ Plan(scope, new, next)
         \/ Goto(next) /\ UNCHANGED object
  PROVE  Ending \/ Moving
<1>1. CASE Goto(next) /\ UNCHANGED object
  <2>1. w \in Worker /\ w' = [w EXCEPT !.pc = next]
    BY <1>1, Facts DEF Goto
  <2>2. w'.pc = next /\ w'.snap = w.snap /\ w'.meta = w.meta
    BY <2>1 DEF Worker
  <2> QED
    BY <1>1, <2>2 DEF Moving
<1> DEFINE st == [w.snap EXCEPT !.state = "pending", !.error = "none",
                                !.ops[scope] = @ \o new]
           ops == [w.snap.ops EXCEPT ![scope] = @ \o new]
<1>2. CASE Finish(st)
  <2>1. w.snap \in Status /\ w.snap.ops \in [Scopes -> Seq(Op)]
    BY Facts DEF Sound
  <2>2. st.ops = ops
    BY <2>1 DEF Status
  <2> HIDE DEF st
  <2>3. OutstandingOf(w.snap.ops) \subseteq OutstandingOf(ops)
    BY <2>1, AppendGrows
  <2> HIDE DEF ops
  <2>4. w.pc \notin {"idle", "wiped"}
    BY DEF Comparing
  <2> QED
    BY <1>2, <2>2, <2>3, <2>4, SaveEnds DEF Follows
<1>3. Plan(scope, new, next) => Finish(st) \/ (Goto(next) /\ UNCHANGED object)
  BY DEF Plan
<1> HIDE DEF st
<1> QED
  BY <1>1, <1>2, <1>3

\* The steps of the comparison.
LEMMA CourseOfComparison ==
  ASSUME IInv, Comparison
  PROVE  Ending \/ Moving \/ ReadAgain \/ Settle
<1>0. /\ w \in Worker /\ w.snap \in Status /\ w.snap.ops \in [Scopes -> Seq(Op)]
      /\ {"owners", "teams", "repos", "members", "collaborators"} \subseteq Scopes
  BY Facts DEF Sound, Scopes
<1>a. UNCHANGED Outside => UNCHANGED <<gh, edits>>
  BY DEF Outside, budgets
<1>b. {"begun", "teams", "repos", "listed", "planTeams", "planRepos", "revive", "members",
       "union", "collaborators", "direct", "settle"} \subseteq Comparing
  BY DEF Comparing, Steps
<1>1. CASE ObserveOwners
  <2>1. /\ w'.pc = "teams" /\ w'.snap = w.snap /\ w'.meta = w.meta
    BY <1>0, <1>1 DEF ObserveOwners, Worker
  <2> QED
    BY <1>1, <1>a, <1>b, <2>1 DEF ObserveOwners, Checking, Proceeding, Admitted, Moving
<1>2. CASE ObserveTeams
  <2>1. /\ w'.pc = "repos" /\ w'.snap = w.snap /\ w'.meta = w.meta
    BY <1>0, <1>2 DEF ObserveTeams, Worker
  <2> QED
    BY <1>2, <1>a, <1>b, <2>1 DEF ObserveTeams, Moving
<1>3. CASE ObserveRepositories
  <2>1. /\ w'.pc = "listed" /\ w'.snap = w.snap /\ w'.meta = w.meta
    BY <1>0, <1>3 DEF ObserveRepositories, Worker
  <2> QED
    BY <1>3, <1>a, <1>b, <2>1 DEF ObserveRepositories, Moving
<1>4. CASE ObservationFails \/ FailOwners \/ LookupFails
  <2>1. Finish(Failed(w.snap)) /\ UNCHANGED <<gh, edits>>
    BY <1>4, <1>a DEF ObservationFails, FailOwners, LookupFails
  <2>2. w.pc \notin {"idle", "wiped"}
    BY <1>4 DEF ObservationFails, FailOwners, LookupFails, Observing, Checking, Proceeding, Admitted
  <2> QED
    BY <2>1, <2>2, FailedEnds
<1>5. CASE ObservationLimited \/ ListingLimited
  <2>1. HoldFor(w.snap)
    BY <1>5 DEF ObservationLimited, ListingLimited
  <2>2. w.pc \notin {"idle", "wiped"}
    BY <1>5 DEF ObservationLimited, ListingLimited, Observing, Checking, Proceeding, Admitted
  <2> QED
    BY <1>0, <2>1, <2>2, HoldEnds, SameFollows
<1>6. CASE RecordObserved
  <2> DEFINE st == [w.snap EXCEPT !.owners = w.owners, !.teams = w.teams]
  <2>1. Finish(st) /\ UNCHANGED <<gh, edits>> /\ w.pc = "record"
    BY <1>6, <1>a DEF RecordObserved
  <2>2. st.ops = w.snap.ops
    BY <1>0 DEF Status
  <2> QED
    BY <2>1, <2>2, SaveEnds, SameFollows
<1>7. CASE WaitForOwners
  BY <1>7, <1>a DEF WaitForOwners, Ending, object
<1>8. CASE PlanOwners
  <2>1. /\ w.pc = "listed" /\ UNCHANGED <<gh, edits>>
        /\ \/ Goto("planTeams") /\ UNCHANGED object
           \/ Stop /\ UNCHANGED object
           \/ \E wanted \in OwnersOf(k8s.members) :
                \E new \in Differences(w.snap.ops.owners, w.snap.owners, wanted) :
                  Plan("owners", new, "planTeams")
    BY <1>8, <1>a DEF PlanOwners
  <2>2. CASE Stop /\ UNCHANGED object
    BY <2>1, <2>2 DEF Ending, object
  <2>3. CASE Goto("planTeams") /\ UNCHANGED object
    <3>1. <<>> \in Seq(PendingOf("owners"))
      OBVIOUS
    <3> QED
      BY <1>0, <1>b, <2>1, <2>3, <3>1, PlanMoves
  <2> QED
    BY <2>3, <1>0, <1>b, <2>1, <2>2, PlanMoves, OwnersPlanned
<1>9. CASE PlanTeams
  <2>1. /\ w.pc = "planTeams" /\ UNCHANGED <<gh, edits>>
        /\ \/ Goto("planRepos") /\ UNCHANGED object
           \/ \E new \in Differences(w.snap.ops.teams, w.snap.teams, k8s.teams) :
                Plan("teams", new, "planRepos")
    BY <1>9, <1>a DEF PlanTeams
  <2>2. CASE Goto("planRepos") /\ UNCHANGED object
    <3>1. <<>> \in Seq(PendingOf("teams"))
      OBVIOUS
    <3> QED
      BY <1>0, <1>b, <2>1, <2>2, <3>1, PlanMoves
  <2> QED
    BY <1>0, <1>b, <2>1, <2>2, PlanMoves, TeamsPlanned
<1>10. CASE PlanRepos
  <2> DEFINE new == RepositoryChanges(w.snap.ops.repos, Visibility, w.roles,
                                      Policy(w.meta, k8s.exceptions))
  <2>1. /\ w.pc = "planRepos" /\ UNCHANGED <<gh, edits>>
        /\ \/ Goto("revive") /\ UNCHANGED object
           \/ Plan("repos", new, "revive")
    BY <1>10, <1>a DEF PlanRepos
  <2>2. new \in Seq(PendingOf("repos"))
    BY RepositoriesPlanned
  <2> HIDE DEF new
  <2> QED
    BY <1>0, <1>b, <2>1, <2>2, PlanMoves
<1>11. CASE ReviveRepos
  <2> DEFINE old == w.snap.ops.repos
             ops == Revived(old, {i \in DOMAIN old : RevivableRepo(w.meta, old[i])})
             lists == [w.snap.ops EXCEPT !["repos"] = ops]
             st == [w.snap EXCEPT !.state = "pending", !.ops.repos = ops]
  <2>1. /\ w.pc = "revive" /\ UNCHANGED <<gh, edits>>
        /\ \/ Goto("members") /\ UNCHANGED object
           \/ Finish(st)
    BY <1>11, <1>a DEF ReviveRepos
  <2>2. OutstandingOf(w.snap.ops) \subseteq OutstandingOf(lists)
    BY <1>0, RevivalGrows
  <2> HIDE DEF ops
  <2>3. st.ops = lists
    BY <1>0 DEF Status
  <2> HIDE DEF st, lists
  <2>4. CASE Finish(st)
    BY <2>1, <2>2, <2>3, <2>4, SaveEnds DEF Follows
  <2>5. CASE Goto("members") /\ UNCHANGED object
    <3>1. <<>> \in Seq(PendingOf("repos"))
      OBVIOUS
    <3> QED
      BY <1>0, <1>b, <2>1, <2>5, <3>1, PlanMoves
  <2> QED
    BY <2>1, <2>4, <2>5
<1>12. CASE ObserveOrgMembers
  <2>1. w.pc = "members" /\ UNCHANGED object /\ UNCHANGED <<gh, edits>>
    BY <1>12, <1>a DEF ObserveOrgMembers
  <2>2. /\ w'.pc \in {"union", "collaborators"} /\ w'.snap = w.snap /\ w'.meta = w.meta
    BY <1>0, <1>12 DEF ObserveOrgMembers, Worker
  <2> QED
    BY <1>b, <2>1, <2>2 DEF Moving
<1>13. CASE \E t \in Teams : ObserveTeamMembers(t)
  <2>1. PICK t \in Teams : ObserveTeamMembers(t)
    BY <1>13
  <2>2. w.pc = "union" /\ UNCHANGED object /\ UNCHANGED <<gh, edits>>
    BY <2>1, <1>a DEF ObserveTeamMembers
  <2>3. /\ w'.pc = w.pc /\ w'.snap = w.snap /\ w'.meta = w.meta
    BY <1>0, <2>1 DEF ObserveTeamMembers, Worker
  <2> QED
    BY <1>b, <2>2, <2>3 DEF Moving
<1>14. CASE \E t \in Teams : TeamMembersFail(t)
  <2>1. PICK t \in Teams : TeamMembersFail(t)
    BY <1>14
  <2>2. w.pc = "union" /\ UNCHANGED object /\ UNCHANGED <<gh, edits>>
    BY <2>1 DEF TeamMembersFail
  <2>3. /\ w'.pc = w.pc /\ w'.snap = w.snap /\ w'.meta = w.meta
    BY <1>0, <2>1 DEF TeamMembersFail, TeamMembersUnknown, Worker
  <2> QED
    BY <1>b, <2>2, <2>3 DEF Moving
<1>15. CASE PlanMembers
  <2>1. w.pc = "union" /\ UNCHANGED <<gh, edits>>
    BY <1>15, <1>a DEF PlanMembers
  <2>2. PICK new \in MemberRemovals(w.snap.ops.members, w.members,
                                    Exempt \cup w.union, w.lists) :
             Plan("members", new, "collaborators")
    BY <1>15 DEF PlanMembers
  <2>3. new \in Seq(PendingOf("members"))
    BY MembersPlanned
  <2> QED
    BY <1>0, <1>b, <2>1, <2>2, <2>3, PlanMoves
<1>16. CASE ChooseRepositories
  <2>1. w.pc = "collaborators" /\ UNCHANGED object /\ UNCHANGED <<gh, edits>>
    BY <1>16, <1>a DEF ChooseRepositories
  <2>2. /\ w'.pc \in {"direct", "settle"} /\ w'.snap = w.snap /\ w'.meta = w.meta
    BY <1>0, <1>16 DEF ChooseRepositories, Worker
  <2> QED
    BY <1>b, <2>1, <2>2 DEF Moving
<1>17. CASE PlanCollaborators
  <2>1. /\ w.pc = "direct" /\ UNCHANGED <<gh, edits>>
        /\ \E new \in CollaboratorRemovals(w.snap.ops.collaborators, w.direct, Exempt) :
             Plan("collaborators", new, "settle")
    BY <1>17, <1>a DEF PlanCollaborators
  <2> QED
    BY <1>0, <1>b, <2>1, PlanMoves, CollaboratorsPlanned
<1>18. CASE \E r \in Repos : ObserveCollaborators(r)
  <2>1. PICK r \in Repos : ObserveCollaborators(r)
    BY <1>18
  <2>2. w.pc = "direct" /\ UNCHANGED object /\ UNCHANGED <<gh, edits>>
    BY <2>1, <1>a DEF ObserveCollaborators
  <2>3. /\ w'.pc = w.pc /\ w'.snap = w.snap /\ w'.meta = w.meta
    BY <1>0, <2>1 DEF ObserveCollaborators, Worker
  <2> QED
    BY <1>b, <2>2, <2>3 DEF Moving
<1>19. CASE \E r \in Repos : CollaboratorsFail(r)
  <2>1. PICK r \in Repos : CollaboratorsFail(r)
    BY <1>19
  <2>2. w.pc = "direct" /\ UNCHANGED object /\ UNCHANGED <<gh, edits>>
    BY <2>1 DEF CollaboratorsFail
  <2>3. /\ w'.pc = w.pc /\ w'.snap = w.snap /\ w'.meta = w.meta
    BY <1>0, <2>1 DEF CollaboratorsFail, Worker
  <2> QED
    BY <1>b, <2>2, <2>3 DEF Moving
<1> QED
  BY <1>1, <1>2, <1>3, <1>4, <1>5, <1>6, <1>7, <1>8, <1>9, <1>10, <1>11, <1>12, <1>13,
     <1>14, <1>15, <1>16, <1>17, <1>18, <1>19 DEF Comparison

\* The steps of a dry run.
LEMMA CourseOfDryRun ==
  ASSUME IInv, DryRunStep
  PROVE  Ending
<1>1. UNCHANGED Outside => UNCHANGED <<gh, edits>>
  BY DEF Outside, budgets
<1>0. w.snap \in Status /\ w.snap.ops \in [Scopes -> Seq(Op)]
  BY Facts DEF Sound
<1>2. CASE EnterDryRun
  <2> DEFINE st == [w.snap EXCEPT !.state = "dry-run"]
  <2>1. Finish(st) /\ UNCHANGED <<gh, edits>> /\ w.pc = "switch"
    BY <1>1, <1>2 DEF EnterDryRun
  <2>2. st.ops = w.snap.ops
    BY <1>0 DEF Status
  <2> QED
    BY <2>1, <2>2, SaveEnds, SameFollows
<1>5. CASE LeaveDryRun
  <2> DEFINE error == IF Recomputed(w.snap).state = "complete" THEN "none"
                      ELSE Recomputed(w.snap).error
             st == [Recomputed(w.snap) EXCEPT !.error = error]
  <2>1. Finish(st) /\ UNCHANGED <<gh, edits>> /\ w.pc = "switch"
    BY <1>1, <1>5 DEF LeaveDryRun
  <2> HIDE DEF error
  <2>2. st.ops = w.snap.ops
    BY <1>0 DEF Status, Recomputed
  <2> QED
    BY <2>1, <2>2, SaveEnds, SameFollows
<1>3. CASE Rehearse
  <2> DEFINE ops == CleanOperations(w.snap.ops, w.meta.clean)
             st == [w.snap EXCEPT !.ops = ops]
  <2>1. OutstandingOf(ops) \subseteq OutstandingOf(w.snap.ops)
    BY <1>0, WithoutShrinks DEF CleanOperations
  <2>2. /\ Stop /\ UNCHANGED <<gh, edits>> /\ w.pc = "switch"
        /\ \/ UNCHANGED object
           \/ SafeStatusUpdate(st)
           \/ fresh' = FALSE /\ UNCHANGED <<status, cache>>
    BY <1>1, <1>3 DEF Rehearse
  <2> HIDE DEF ops
  <2>3. st.ops = ops
    BY <1>0 DEF Status
  <2> HIDE DEF st
  <2>4. CASE SafeStatusUpdate(st)
    BY <2>1, <2>2, <2>3, <2>4 DEF SafeStatusUpdate, Ending, Follows
  <2> QED
    BY <2>2, <2>4 DEF Ending, object
<1>4. CASE NothingToDo
  BY <1>1, <1>4 DEF NothingToDo, Ending, object
<1> QED
  BY <1>2, <1>3, <1>4, <1>5 DEF DryRunStep

\* The steps of the execution.
LEMMA CourseOfExecution ==
  ASSUME IInv, Execution
  PROVE  \/ Ending \/ StartExecution \/ ScopeDone
         \/ \E i \in Positions : Resolving(i)
<1>0. w.failed \in BOOLEAN /\ w.snap \in Status /\ w.ops \in [Scopes -> Seq(Op)]
      /\ WellScoped(w.ops)
  BY Facts DEF Worker, WorkerOK, Sound
<1>a. UNCHANGED Outside => UNCHANGED <<gh, edits>>
  BY DEF Outside, budgets
<1>1. CASE Report
  <2>1. Reported.ops = w.ops
    BY <1>0 DEF Reported, Status
  <2> QED
    BY <1>a, <1>1, <2>1 DEF Report, SafeStatusUpdate, Ending, Follows, object
<1>2. ASSUME NEW i \in Positions, SkipOperation(i) PROVE Resolving(i)
  <2> DEFINE failed == IF w.scope \in Gated THEN FALSE ELSE w.failed
  <2>1. failed \in BOOLEAN /\ Resolved(i, "skipped", FALSE, failed)
    BY <1>0, <1>2 DEF SkipOperation
  <2> HIDE DEF failed
  <2> QED
    BY <1>a, <1>2, <2>1 DEF SkipOperation, Resolving
<1>3. ASSUME NEW i \in Positions, ExecuteOperation(i) PROVE Resolving(i)
  BY <1>0, <1>3 DEF ExecuteOperation, Due, Resolving, budgets
<1>4. ASSUME NEW i \in Positions, ExecuteRefused(i) PROVE Resolving(i)
  <2>1. \/ Resolved(i, "skipped", w.scope = "repos", w.failed)
        \/ Resolved(i, "failed", FALSE, TRUE)
    BY <1>4 DEF ExecuteRefused
  <2>2. (w.scope = "repos") \in BOOLEAN
    OBVIOUS
  <2>3. Turn(i) /\ UNCHANGED object /\ UNCHANGED <<gh, edits>>
    BY <1>a, <1>4 DEF ExecuteRefused, Due
  <2> QED
    BY <1>0, <2>1, <2>2, <2>3 DEF Resolving
<1>5. ASSUME NEW i \in Positions, ExecuteFails(i) PROVE Resolving(i)
  BY <1>5 DEF ExecuteFails, Due, Resolving
<1>6. ASSUME NEW i \in Positions, ExecuteLimited(i) PROVE Ending
  <2>1. HoldFor(HeldStatus) /\ w.pc = "execute"
    BY <1>6 DEF ExecuteLimited, Due, Turn
  <2>2. HeldStatus \in Status /\ HeldStatus.ops = w.ops
    BY <1>0 DEF HeldStatus, Status
  <2> QED
    BY <2>1, <2>2, HoldEnds DEF Follows
<1> QED
  BY <1>1, <1>2, <1>3, <1>4, <1>5, <1>6 DEF Execution

\* Every step of the worker.
LEMMA Course ==
  ASSUME IInv, WorkerStep
  PROVE  \/ Ending \/ Begin \/ WipeStatus \/ LeaveRateLimit \/ SkipComparison
         \/ Moving \/ ReadAgain \/ Settle \/ StartExecution \/ ScopeDone
         \/ \E i \in Positions : Resolving(i)
BY CourseOfStart, CourseOfComparison, CourseOfDryRun, CourseOfExecution DEF WorkerStep

\* Where each of them takes the worker, and what it writes.
LEMMA Places ==
  ASSUME IInv
  PROVE  /\ Ending => w'.pc = "idle"
         /\ Begin => /\ w'.pc = "begun" /\ w'.snap = cache.status /\ (fresh \/ StaleReads)
                     /\ w.pc = "idle" /\ UNCHANGED <<object, gh, edits>>
         /\ WipeStatus => /\ w.pc = "begun" /\ w'.pc = "wiped"
                          /\ SafeStatusUpdate(EmptyStatus) /\ UNCHANGED <<gh, edits>>
         /\ LeaveRateLimit => /\ w.pc = "begun" /\ w'.pc = "begun"
                              /\ w'.snap.ops = w.snap.ops
                              /\ SafeStatusUpdate(w'.snap) /\ UNCHANGED <<gh, edits>>
         /\ SkipComparison => /\ w.pc = "begun" /\ ~RateLimited(w.snap)
                              /\ w'.pc = "switch" /\ w'.snap = w.snap
                              /\ UNCHANGED <<object, gh, edits>>
         /\ ReadAgain => /\ w.pc = "listed" /\ w'.pc = "record"
                         /\ w'.snap = cache.status /\ UNCHANGED <<object, gh, edits>>
<1>0. /\ w \in Worker /\ w.snap \in Status /\ Rest \in Worker /\ Rest.pc = "idle"
      /\ cache.status \in Status /\ cache.meta \in Meta
  BY Facts, RestType DEF Sound, ObjectOK
<1>1. UNCHANGED Outside => UNCHANGED <<gh, edits>>
  BY DEF Outside, budgets
<1>2. Ending => w'.pc = "idle"
  BY <1>0 DEF Ending, Stop
<1>3. ASSUME Begin
      PROVE  /\ w'.pc = "begun" /\ w'.snap = cache.status /\ (fresh \/ StaleReads)
             /\ w.pc = "idle" /\ UNCHANGED <<object, gh, edits>>
  BY <1>0, <1>1, <1>3 DEF Begin, Worker
<1>4. ASSUME WipeStatus
      PROVE  /\ w.pc = "begun" /\ w'.pc = "wiped"
             /\ SafeStatusUpdate(EmptyStatus) /\ UNCHANGED <<gh, edits>>
  BY <1>0, <1>1, <1>4 DEF WipeStatus, Goto, Worker
<1>5. ASSUME LeaveRateLimit
      PROVE  /\ w.pc = "begun" /\ w'.pc = "begun" /\ w'.snap.ops = w.snap.ops
             /\ SafeStatusUpdate(w'.snap) /\ UNCHANGED <<gh, edits>>
  <2> DEFINE st == Recomputed([w.snap EXCEPT !.error = "none"])
  <2>1. /\ w.pc = "begun" /\ SafeStatusUpdate(st)
        /\ w' = [w EXCEPT !.snap = st, !.current = FALSE]
    BY <1>5 DEF LeaveRateLimit
  <2>2. st.ops = w.snap.ops
    BY <1>0 DEF Recomputed, Status
  <2> HIDE DEF st
  <2>3. w'.pc = "begun" /\ w'.snap = st
    BY <1>0, <2>1 DEF Worker
  <2>4. UNCHANGED <<gh, edits>>
    BY <1>1, <1>5 DEF LeaveRateLimit
  <2> QED
    BY <2>1, <2>2, <2>3, <2>4
<1>6. ASSUME SkipComparison
      PROVE  /\ w.pc = "begun" /\ ~RateLimited(w.snap)
             /\ w'.pc = "switch" /\ w'.snap = w.snap /\ UNCHANGED <<object, gh, edits>>
  <2>1. w.pc = "begun" /\ ~RateLimited(w.snap) /\ UNCHANGED <<object, gh, edits>>
    BY <1>1, <1>6 DEF SkipComparison, Proceeding, Admitted
  <2>2. w'.pc = "switch" /\ w'.snap = w.snap
    BY <1>0, <1>6 DEF SkipComparison, Goto, Worker
  <2> QED
    BY <2>1, <2>2
<1>7. ASSUME ReadAgain
      PROVE  /\ w.pc = "listed" /\ w'.pc = "record"
             /\ w'.snap = cache.status /\ UNCHANGED <<object, gh, edits>>
  BY <1>0, <1>1, <1>7 DEF ReadAgain, Worker
<1> QED
  BY <1>2, <1>3, <1>4, <1>5, <1>6, <1>7

\* The end of the comparison: the very first one is written down.
LEMMA PlacesOfSettle ==
  ASSUME IInv, Settle
  PROVE  /\ w.pc = "settle" /\ w'.pc = "switch" /\ w'.snap = w.snap
         /\ UNCHANGED <<gh, edits>>
         /\ \/ UNCHANGED object /\ w.snap.state # ""
            \/ /\ w.snap.state = "" /\ SafeStatusUpdate(status')
               /\ status'.state = "complete" /\ status'.ops = w.snap.ops
<1>0. w \in Worker /\ w.snap \in Status
  BY Facts DEF Sound
<1> DEFINE st == [w.snap EXCEPT !.state = "complete", !.error = "none"]
<1>1. st.state = "complete" /\ st.ops = w.snap.ops
  BY <1>0 DEF Status
<1>2. /\ w.pc = "settle" /\ Goto("switch") /\ UNCHANGED <<gh, edits>>
      /\ IF w.snap.state = "" THEN SafeStatusUpdate(st) ELSE UNCHANGED object
  BY DEF Settle, Outside, budgets
<1> HIDE DEF st
<1>3. w'.pc = "switch" /\ w'.snap = w.snap
  BY <1>0, <1>2 DEF Goto, Worker
<1> QED
  BY <1>1, <1>2, <1>3 DEF SafeStatusUpdate

\* The execution starts with the operations it read.
LEMMA PlacesOfStart ==
  ASSUME IInv, StartExecution
  PROVE  /\ w.pc = "switch" /\ w.snap.state = "pending"
         /\ ~(w.meta.labelled /\ w.meta.dryRun)
         /\ w'.pc = "execute" /\ w'.snap = w.snap /\ w'.meta = w.meta
         /\ w'.ops = w.snap.ops /\ UNCHANGED <<object, gh, edits>>
<1>0. w \in Worker
  BY Facts
<1> QED
  BY <1>0 DEF StartExecution, Outside, budgets, Worker

\* It goes on with the next scope, where removals may wait again.
LEMMA PlacesOfScopeDone ==
  ASSUME IInv, ScopeDone
  PROVE  /\ w.pc = "execute" /\ w'.pc \in {"execute", "report"}
         /\ w'.snap = w.snap /\ w'.meta = w.meta /\ UNCHANGED <<object, gh, edits>>
         /\ Within(w'.ops, w.ops)
<1>0. /\ w \in Worker /\ w.ops \in [Scopes -> Seq(Op)] /\ w.scope \in Scopes
  BY Facts DEF Worker
<1>1. w.pc = "execute" /\ UNCHANGED <<object, gh, edits>>
  BY DEF ScopeDone, Outside, budgets
<1>2. CASE w.scope = "collaborators"
  <2>1. Goto("report")
    BY <1>2 DEF ScopeDone
  <2>2. /\ w'.pc = "report" /\ w'.snap = w.snap /\ w'.meta = w.meta /\ w'.ops = w.ops
    BY <1>0, <2>1 DEF Goto, Worker
  <2> QED
    BY <1>1, <2>2 DEF Within
<1>3. CASE w.scope # "collaborators"
  <2> DEFINE next == ScopeOrder[ScopeIndex(w.scope) + 1]
             ops == Entered(next)
             changed == w.changed \/ ops # w.ops[next]
             lists == [w.ops EXCEPT ![next] = ops]
  <2>1. w' = [w EXCEPT !.scope = next, !.ops = lists, !.changed = changed]
    BY <1>0, <1>3 DEF ScopeDone, Worker
  <2>2. next \in Scopes
    <3>1. ScopeIndex(w.scope) \in 1 .. 5 /\ ScopeIndex(w.scope) # 5
      BY <1>0, <1>3, ScopesInOrder
    <3>2. ScopeIndex(w.scope) + 1 \in 1 .. 5
      BY <3>1
    <3> QED
      BY <3>2, ScopesInOrder
  <2> HIDE DEF next
  <2> DEFINE old == w.ops[next]
  <2>3. /\ DOMAIN ops = DOMAIN old
        /\ \A i \in DOMAIN old : /\ Change(next, ops[i]) = Change(next, old[i])
                                 /\ Waiting(next, ops[i]) => Waiting(next, old[i])
    <3>1. old \in Seq(Op)
      BY <1>0, <2>2
    <3>2. CASE ops = old
      BY <3>2
    <3>3. CASE /\ next \in {"members", "collaborators"}
               /\ \E positions : ops = Revived(old, positions)
      <4>1. PICK positions : ops = Revived(old, positions)
        BY <3>3
      <4> HIDE DEF old, ops
      <4>2. /\ DOMAIN ops = DOMAIN old
            /\ \A i \in DOMAIN old :
                 /\ Change(next, ops[i]) = Change(next, old[i])
                 /\ ops[i] # old[i] => old[i].state = "skipped"
        BY <2>2, <3>1, <4>1, RevivedAt
      <4> QED
        BY <3>3, <4>2 DEF Waiting
    <3> QED
      BY <3>2, <3>3 DEF Entered
  <2> HIDE DEF ops, changed
  <2>4. /\ lists[next] = ops
        /\ \A s \in Scopes : s # next => lists[s] = w.ops[s]
    BY <1>0, <2>2
  <2>5. Within(lists, w.ops)
    BY <2>2, <2>3, <2>4 DEF Within
  <2> HIDE DEF lists
  <2>6. /\ w'.pc = "execute" /\ w'.snap = w.snap /\ w'.meta = w.meta /\ w'.ops = lists
    BY <1>0, <1>1, <2>1 DEF Worker
  <2> QED
    BY <1>1, <2>5, <2>6
<1> QED
  BY <1>2, <1>3

\* An outcome strikes off the change of one operation at most.
LEMMA PlacesOfTurn ==
  ASSUME IInv, NEW i, Resolving(i)
  PROVE  /\ w.pc = "execute" /\ w'.pc = "execute"
         /\ w'.snap = w.snap /\ w'.meta = w.meta /\ UNCHANGED <<object, edits>>
         /\ Within(w'.ops, w.ops)
         /\ w.scope \in Scopes /\ i \in DOMAIN w.ops[w.scope]
         /\ w.ops[w.scope][i].state = "pending"
<1>1. PICK state \in {"complete", "skipped", "failed"}, locked \in BOOLEAN, failed \in BOOLEAN :
        Resolved(i, state, locked, failed)
  BY DEF Resolving
<1>2. /\ w'.pc = "execute" /\ w'.snap = w.snap /\ w'.meta = w.meta
      /\ \A s \in Scopes : s # w.scope => w'.ops[s] = w.ops[s]
      /\ i \in DOMAIN w.ops[w.scope] /\ w.ops[w.scope][i].state = "pending"
      /\ DOMAIN w'.ops[w.scope] = DOMAIN w.ops[w.scope]
      /\ \A j \in DOMAIN w.ops[w.scope] :
           j # i => w'.ops[w.scope][j] = w.ops[w.scope][j]
      /\ w'.ops[w.scope][i].operation = w.ops[w.scope][i].operation
      /\ w'.ops[w.scope][i].repo = w.ops[w.scope][i].repo
      /\ w'.ops[w.scope][i].name = w.ops[w.scope][i].name
      /\ w'.ops[w.scope][i].permission = w.ops[w.scope][i].permission
  BY <1>1, Outcome, ZenonT(60) DEF Resolving
<1>3. Change(w.scope, w'.ops[w.scope][i]) = Change(w.scope, w.ops[w.scope][i])
  BY <1>2 DEF Change
<1>4. Waiting(w.scope, w.ops[w.scope][i])
  BY <1>2 DEF Waiting
<1>5. Within(w'.ops, w.ops)
  BY <1>2, <1>3, <1>4 DEF Within
<1>6. w.scope \in Scopes /\ w.pc = "execute" /\ UNCHANGED <<object, edits>>
  BY Facts DEF Worker, Resolving, Turn
<1> QED
  BY <1>2, <1>5, <1>6

\* The steps of everybody else.
LEMMA PlacesOfSurroundings ==
  ASSUME IInv, Next, ~WorkerStep
  PROVE  \/ Stop /\ UNCHANGED <<object, gh, edits>>
         \/ fresh' = TRUE /\ cache'.status = status /\ UNCHANGED <<status, w, gh, edits>>
         \/ UNCHANGED <<object, w, gh, edits>>
         \/ /\ edits' # edits /\ UNCHANGED <<status, cache, gh>> /\ fresh' = FALSE
            /\ w'.pc = w.pc /\ w'.snap = w.snap /\ w'.meta = w.meta /\ w'.ops = w.ops
         \/ edits' # edits /\ UNCHANGED <<object, w>>
<1>0. w \in Worker /\ edits \in Nat
  BY Facts DEF OutsideOK
<1>1. CASE Abort
  BY <1>1 DEF Abort
<1>2. CASE SyncCache
  BY <1>2 DEF SyncCache, Outside, budgets
<1>3. CASE LimitResets
  BY <1>3 DEF LimitResets, budgets
<1>4. ASSUME NEW kind, Edit(kind) PROVE edits' # edits
  BY <1>0, <1>4 DEF Edit
<1>5. CASE EditMeta
  <2>1. /\ w'.pc = w.pc /\ w'.snap = w.snap /\ w'.meta = w.meta /\ w'.ops = w.ops
    BY <1>0, <1>5 DEF EditMeta, Worker
  <2> QED
    BY <1>4, <1>5, <2>1 DEF EditMeta
<1>6. CASE EditGithub
  BY <1>4, <1>6 DEF EditGithub
<1>7. CASE EditResources
  BY <1>4, <1>7 DEF EditResources
<1> QED
  BY <1>1, <1>2, <1>3, <1>5, <1>6, <1>7 DEF Next

-----------------------------------------------------------------------------
(* Dry run                                                                 *)

\* No execution was started with the dryRun label.
NoDryExecution == w.pc = "execute" => ~(w.meta.labelled /\ w.meta.dryRun)

\* No step starts an execution with the label.
LEMMA NoDryExecutionKept ==
  ASSUME IInv, NoDryExecution, [Next]_vars
  PROVE  NoDryExecution'
<1>1. CASE WorkerStep
  <2>1. CASE Ending \/ Begin \/ WipeStatus \/ LeaveRateLimit \/ SkipComparison \/ ReadAgain
    BY <2>1, Places DEF NoDryExecution
  <2>2. CASE Moving
    BY <2>2 DEF Moving, Comparing, NoDryExecution
  <2>3. CASE Settle
    BY <2>3, PlacesOfSettle DEF NoDryExecution
  <2>4. CASE StartExecution
    BY <2>4, PlacesOfStart DEF NoDryExecution
  <2>5. CASE ScopeDone
    BY <2>5, PlacesOfScopeDone DEF NoDryExecution
  <2>6. CASE \E i \in Positions : Resolving(i)
    BY <2>6, PlacesOfTurn DEF NoDryExecution
  <2> QED
    BY <1>1, <2>1, <2>2, <2>3, <2>4, <2>5, <2>6, Course
<1>2. CASE Next /\ ~WorkerStep
  BY <1>2, PlacesOfSurroundings, RestType DEF NoDryExecution, Stop
<1>3. CASE UNCHANGED vars
  BY <1>3 DEF vars, NoDryExecution
<1> QED
  BY <1>1, <1>2, <1>3

\* The worker changes GitHub in an operation's turn only.
LEMMA OnlyTurnsChange ==
  ASSUME IInv, [Next]_vars, w # w', gh' # gh
  PROVE  \E i \in Positions : Resolving(i)
<1>1. CASE WorkerStep
  <2>1. Moving => gh' = gh
    BY DEF Moving
  <2>2. Ending => gh' = gh
    BY DEF Ending
  <2> QED
    BY <1>1, <2>1, <2>2, Course, Places, PlacesOfSettle, PlacesOfStart, PlacesOfScopeDone
<1>2. CASE Next /\ ~WorkerStep
  <2>1. EditGithub \/ EditResources => w' = w
    BY DEF EditGithub, EditResources
  <2>2. Abort \/ SyncCache \/ LimitResets \/ EditMeta => gh' = gh
    BY DEF Abort, SyncCache, LimitResets, EditMeta, Outside
  <2> QED
    BY <1>2, <2>1, <2>2 DEF Next
<1>3. CASE UNCHANGED vars
  BY <1>3 DEF vars
<1> QED
  BY <1>1, <1>2, <1>3

\* With the dryRun label "true" when the reconcile began GitHub is left
\* alone, whatever the status said and however stale the cache was.
THEOREM DryRunSafe == Spec => DryRunKeepsGithub
<1>1. Init => NoDryExecution
  BY RestType DEF Init, NoDryExecution
<1>2. ASSUME IInv, NoDryExecution, [Next]_vars
      PROVE  [w.meta.labelled /\ w.meta.dryRun /\ ByWorker => gh' = gh]_vars
  <2> SUFFICES ASSUME w.meta.labelled, w.meta.dryRun, w # w', gh' # gh PROVE FALSE
    BY DEF ByWorker
  <2>1. PICK i \in Positions : Resolving(i)
    BY <1>2, OnlyTurnsChange
  <2>2. w.pc = "execute"
    BY <2>1 DEF Resolving, Turn
  <2> QED
    BY <1>2, <2>2 DEF NoDryExecution
<1> QED
  BY <1>1, <1>2, Invariance, NoDryExecutionKept, PTL DEF Spec, DryRunKeepsGithub

-----------------------------------------------------------------------------
(* What the worker executes is what the status announces                   *)

Executing == w.pc \in {"execute", "report"} => Within(w.ops, w.snap.ops)

\* Being within is reflexive and transitive.
LEMMA WithinProperties ==
  /\ \A base : Within(base, base)
  /\ \A a, b, c : Within(a, b) /\ Within(b, c) => Within(a, c)
BY DEF Within

\* Every step keeps the operations at work within those read.
LEMMA ExecutingKept ==
  ASSUME IInv, Executing, [Next]_vars
  PROVE  Executing'
<1>1. CASE WorkerStep
  <2>1. CASE Ending \/ Begin \/ WipeStatus \/ LeaveRateLimit \/ SkipComparison \/ ReadAgain
    BY <2>1, Places DEF Executing
  <2>2. CASE Moving
    BY <2>2 DEF Moving, Comparing, Executing
  <2>3. CASE Settle
    BY <2>3, PlacesOfSettle DEF Executing
  <2>4. CASE StartExecution
    BY <2>4, PlacesOfStart, WithinProperties DEF Executing
  <2>5. CASE ScopeDone
    BY <2>5, PlacesOfScopeDone, WithinProperties DEF Executing
  <2>6. CASE \E i \in Positions : Resolving(i)
    BY <2>6, PlacesOfTurn, WithinProperties DEF Executing
  <2> QED
    BY <1>1, <2>1, <2>2, <2>3, <2>4, <2>5, <2>6, Course
<1>2. CASE Next /\ ~WorkerStep
  BY <1>2, PlacesOfSurroundings, RestType DEF Executing, Stop
<1>3. CASE UNCHANGED vars
  BY <1>3 DEF vars, Executing
<1> QED
  BY <1>1, <1>2, <1>3

-----------------------------------------------------------------------------
(* With up-to-date reads                                                   *)

\* What the worker has read is what the API server holds, as long as it has
\* not written itself.
UpToDate ==
  /\ fresh => cache.status = status
  /\ w.pc \in Comparing => w.snap = status
  /\ w.pc \in {"switch", "execute", "report"} =>
       /\ w.snap.ops = status.ops
       /\ w.snap.state # "" => w.snap = status
  /\ w.pc \notin {"idle", "wiped"} => cache.status.ops = status.ops
  /\ w.pc = "record" => w.snap.ops = status.ops
  /\ w.pc \notin {"idle", "begun", "wiped"} => ~RateLimited(status)

\* Every step keeps the reads up to date.
LEMMA UpToDateKept ==
  ASSUME StaleReads = FALSE, IInv, UpToDate, [Next]_vars
  PROVE  UpToDate'
<1>0. /\ \A pc \in Comparing : pc \notin {"idle", "wiped", "record", "switch", "execute", "report"}
      /\ {"begun", "listed", "settle"} \subseteq Comparing
      /\ Comparing' = Comparing
  BY DEF Comparing, Steps
<1>1. CASE WorkerStep
  <2>1. CASE Ending
    <3>1. w'.pc = "idle"
      BY <2>1, Places
    <3>2. w'.pc \notin Comparing'
      BY <1>0, <3>1
    <3>3. fresh' => cache'.status = status'
      BY <2>1 DEF Ending, UpToDate, object
    <3> QED
      BY <3>1, <3>2, <3>3 DEF UpToDate
  <2>2. CASE Begin
    BY <1>0, <2>2, Places DEF UpToDate, object, RateLimited
  <2>3. CASE WipeStatus
    BY <1>0, <2>3, Places DEF UpToDate, SafeStatusUpdate
  <2>4. CASE LeaveRateLimit
    BY <1>0, <2>4, Places DEF UpToDate, SafeStatusUpdate
  <2>5. CASE SkipComparison
    <3>1. /\ w.pc = "begun" /\ ~RateLimited(w.snap) /\ w'.pc = "switch"
          /\ w'.snap = w.snap /\ UNCHANGED <<status, cache, fresh>>
      BY <2>5, Places DEF object
    <3>2. w'.pc \notin Comparing' /\ w.snap = status
      BY <1>0, <3>1 DEF UpToDate
    <3>3. ~RateLimited(status)'
      BY <3>1, <3>2 DEF RateLimited
    <3> QED
      BY <3>1, <3>2, <3>3 DEF UpToDate
  <2>6. CASE Moving
    BY <1>0, <2>6 DEF Moving, UpToDate, object, RateLimited
  <2>7. CASE ReadAgain
    <3>1. /\ w.pc = "listed" /\ w'.pc = "record"
          /\ w'.snap = cache.status /\ UNCHANGED <<status, cache, fresh>>
      BY <2>7, Places DEF object
    <3>2. w'.pc \notin Comparing' /\ cache.status.ops = status.ops
      BY <1>0, <3>1 DEF UpToDate
    <3>3. ~RateLimited(status)'
      BY <3>1 DEF RateLimited, UpToDate
    <3> QED
      BY <3>1, <3>2, <3>3 DEF UpToDate
  <2>8. CASE Settle
    <3>1. w.pc = "settle" /\ w'.pc = "switch" /\ w'.snap = w.snap
      BY <2>8, PlacesOfSettle
    <3>2. w'.pc \notin Comparing' /\ w.snap = status /\ ~RateLimited(status)
      BY <1>0, <3>1 DEF UpToDate
    <3>3. CASE UNCHANGED object /\ w.snap.state # ""
      <4>1. ~RateLimited(status)' /\ UNCHANGED <<status, cache, fresh>>
        BY <3>2, <3>3 DEF RateLimited, object
      <4> QED
        BY <3>1, <3>2, <4>1 DEF UpToDate
    <3>4. CASE /\ w.snap.state = "" /\ SafeStatusUpdate(status')
               /\ status'.state = "complete" /\ status'.ops = w.snap.ops
      <4>1. ~RateLimited(status)' /\ fresh' = FALSE /\ cache' = cache
        BY <3>4 DEF RateLimited, SafeStatusUpdate
      <4> QED
        BY <3>1, <3>2, <3>4, <4>1 DEF UpToDate
    <3> QED
      BY <2>8, <3>3, <3>4, PlacesOfSettle
  <2>9. CASE StartExecution
    <3>1. /\ w.pc = "switch" /\ w'.pc = "execute"
          /\ w'.snap = w.snap /\ UNCHANGED <<status, cache, fresh>>
      BY <2>9, PlacesOfStart DEF object
    <3>2. w'.pc \notin Comparing' /\ ~RateLimited(status)'
      BY <1>0, <3>1 DEF RateLimited, UpToDate
    <3> QED
      BY <3>1, <3>2 DEF UpToDate
  <2>10. CASE ScopeDone
    <3>1. /\ w.pc = "execute" /\ w'.pc \in {"execute", "report"}
          /\ w'.snap = w.snap /\ UNCHANGED <<status, cache, fresh>>
      BY <2>10, PlacesOfScopeDone DEF object
    <3>2. w'.pc \notin Comparing' /\ ~RateLimited(status)'
      BY <1>0, <3>1 DEF RateLimited, UpToDate
    <3> QED
      BY <3>1, <3>2 DEF UpToDate
  <2>11. CASE \E i \in Positions : Resolving(i)
    BY <1>0, <2>11, PlacesOfTurn DEF UpToDate, object, RateLimited
  <2> QED
    BY <1>1, <2>1, <2>2, <2>3, <2>4, <2>5, <2>6, <2>7, <2>8, <2>9, <2>10, <2>11, Course
<1>2. CASE Next /\ ~WorkerStep
  <2>1. CASE Stop /\ UNCHANGED <<object, gh, edits>>
    BY <1>0, <2>1, RestType DEF Stop, UpToDate, object
  <2>2. CASE fresh' = TRUE /\ cache'.status = status /\ UNCHANGED <<status, w, gh, edits>>
    BY <2>2 DEF UpToDate, RateLimited
  <2>3. CASE UNCHANGED <<object, w>>
    BY <2>3 DEF UpToDate, object, RateLimited
  <2>4. CASE /\ UNCHANGED <<status, cache, gh>> /\ fresh' = FALSE
             /\ w'.pc = w.pc /\ w'.snap = w.snap
    BY <2>4 DEF UpToDate, RateLimited
  <2> QED
    BY <1>2, <2>1, <2>2, <2>3, <2>4, PlacesOfSurroundings
<1>3. CASE UNCHANGED vars
  BY <1>3 DEF vars, object, UpToDate
<1> QED
  BY <1>1, <1>2, <1>3

\* When reconciles start from an up-to-date cache, what the worker has read
\* is what the API server holds, until it writes itself.
THEOREM UpToDateReads ==
  ASSUME StaleReads = FALSE
  PROVE  Spec => []UpToDate
<1>1. Init => UpToDate
  <2>1. "idle" \notin Comparing
    BY DEF Comparing
  <2> SUFFICES ASSUME Init PROVE UpToDate
    OBVIOUS
  <2>2. w.pc = "idle" /\ cache.status = status
    BY RestType DEF Init
  <2>3. w.pc \notin Comparing
    BY <2>1, <2>2
  <2>4. w.pc \notin {"switch", "execute", "report"}
    BY <2>1, <2>2
  <2>5. w.pc \in {"idle", "begun", "wiped"}
    BY <2>1, <2>2
  <2>6. w.pc # "record"
    BY <2>2
  <2> QED
    BY <2>2, <2>3, <2>4, <2>5, <2>6 DEF UpToDate
<1> QED
  BY <1>1, Invariance, UpToDateKept, PTL DEF Spec

\* Between a rate-limit answer and its reset time the worker neither asks
\* GitHub for anything nor changes it, when reconciles start from an
\* up-to-date cache.
THEOREM QuietWhenLimited ==
  ASSUME StaleReads = FALSE
  PROVE  Spec => QuietWhileRateLimited
<1> DEFINE Quiet == RateLimited(status) /\ ~ResetPassed(status) /\ ByWorker
                    => gh' = gh /\ w'.pc \in {"idle", "begun", "wiped"}
<1>1. ASSUME IInv, UpToDate, [Next]_vars PROVE [Quiet]_vars
  <2> SUFFICES ASSUME RateLimited(status), w # w'
               PROVE  gh' = gh /\ w'.pc \in {"idle", "begun", "wiped"}
    BY DEF ByWorker
  <2>1. w.pc \in {"idle", "begun", "wiped"}
    BY <1>1 DEF UpToDate, RateLimited
  <2>2. gh' = gh
    <3>1. \A i \in Positions : ~Resolving(i)
      BY <2>1 DEF Resolving, Turn
    <3> QED
      BY <1>1, <3>1, OnlyTurnsChange
  <2>3. w.pc = "begun" => RateLimited(w.snap)
    BY <1>1 DEF UpToDate, Comparing, Steps
  <2>4. CASE WorkerStep
    <3>1. ~Moving
      BY <2>1, <2>3 DEF Moving, Comparing
    <3>2. Ending \/ Begin \/ WipeStatus \/ LeaveRateLimit => w'.pc \in {"idle", "begun", "wiped"}
      BY <1>1, Places
    <3>3. ~SkipComparison /\ ~ReadAgain
      BY <1>1, <2>1, <2>3, Places
    <3>4. ~Settle /\ ~StartExecution /\ ~ScopeDone /\ \A i \in Positions : ~Resolving(i)
      BY <1>1, <2>1, PlacesOfSettle, PlacesOfStart, PlacesOfScopeDone, PlacesOfTurn
    <3> QED
      BY <1>1, <2>2, <2>4, <3>1, <3>2, <3>3, <3>4, Course
  <2>5. CASE Next /\ ~WorkerStep
    BY <1>1, <2>1, <2>5, PlacesOfSurroundings, RestType DEF Stop
  <2> QED
    BY <1>1, <2>2, <2>4, <2>5 DEF vars
<1> QED
  BY <1>1, Invariance, UpToDateReads, PTL DEF Spec, QuietWhileRateLimited

-----------------------------------------------------------------------------
(* GitHub is only changed as announced                                     *)

Presence(P) == IF P THEN "present" ELSE None

\* The value of a subject, with GitHub in the state g.
ValueIn(g, z) ==
  CASE z[1] = "owners"  -> Presence(z[3] \in g.owners)
    [] z[1] = "members" -> Presence(z[3] \in g.members)
    [] z[1] = "teams"   -> Presence(z[3] \in g.teams)
    [] z[1] = "repos"   -> g.roles[z[2]][z[3]]
    [] OTHER            -> Presence(z[3] \in g.collaborators[z[2]])

\* The world of the write-ahead specification, subject by subject.
LEMMA WorldValues ==
  /\ World = [z \in Subjects |-> ValueIn(gh, z)]
  /\ World' = [z \in Subjects |-> ValueIn(gh', z)]
BY DEF World, ValueIn, Presence, Subjects

\* What a subject is made of.
LEMMA SubjectKinds ==
  ASSUME NEW z \in Subjects
  PROVE  \/ z[1] = "owners" /\ z[3] \in Users /\ z = <<"owners", None, z[3]>>
         \/ z[1] = "members" /\ z[3] \in Users /\ z = <<"members", None, z[3]>>
         \/ z[1] = "teams" /\ z[3] \in Teams /\ z = <<"teams", None, z[3]>>
         \/ /\ z[1] = "repos" /\ z[2] \in Repos /\ z[3] \in Teams
            /\ z = <<"repos", z[2], z[3]>>
         \/ /\ z[1] = "collaborators" /\ z[2] \in Repos /\ z[3] \in Users
            /\ z = <<"collaborators", z[2], z[3]>>
BY DEF Subjects

\* The values depend on what they are about and on nothing else.
LEMMA ValueParts ==
  ASSUME NEW g, NEW z
  PROVE  /\ z[1] = "owners" => ValueIn(g, z) = Presence(z[3] \in g.owners)
         /\ z[1] = "members" => ValueIn(g, z) = Presence(z[3] \in g.members)
         /\ z[1] = "teams" => ValueIn(g, z) = Presence(z[3] \in g.teams)
         /\ z[1] = "repos" => ValueIn(g, z) = g.roles[z[2]][z[3]]
         /\ z[1] = "collaborators" =>
              ValueIn(g, z) = Presence(z[3] \in g.collaborators[z[2]])
BY DEF ValueIn

\* An operation gives its subject the value its change announces, and what
\* it takes along with it is gone.
LEMMA AppliedAsAnnounced ==
  ASSUME gh \in Github, NEW s \in Scopes, NEW op \in OpOf(s), NEW g, g = Applied(s, op)
  PROVE  /\ Change(s, op).subject \in Subjects
         /\ ValueIn(g, Change(s, op).subject) = Change(s, op).value
         /\ \A z \in Subjects \ {Change(s, op).subject} :
              ValueIn(g, z) # ValueIn(gh, z) =>
                Change(s, op).value = None /\ ValueIn(g, z) = None
<1> DEFINE n == op.name
           r == op.repo
           c == <<s, r, n>>
           value == IF op.operation = "remove" THEN None
                    ELSE IF s = "repos" THEN op.permission ELSE "present"
<1>0. /\ gh.owners \in SUBSET Users /\ gh.members \in SUBSET Users
      /\ gh.teams \in SUBSET Teams
      /\ gh.teamMembers \in [Teams -> SUBSET Users]
      /\ gh.roles \in [Repos -> [Teams -> Permissions \cup {None}]]
      /\ gh.collaborators \in [Repos -> SUBSET Users]
  BY DEF Github
<1>1. /\ n \in IF s \in {"teams", "repos"} THEN Teams ELSE Users
      /\ r \in IF s \in {"repos", "collaborators"} THEN Repos ELSE {None}
      /\ s \in {"members", "collaborators"} => op.operation = "remove"
      /\ op.operation = "remove" => op.permission = None
      /\ op.operation \in {"add", "remove"}
  BY DEF OpOf, Op, OperationTypes
<1>2. Change(s, op).subject = c /\ Change(s, op).value = value
  BY DEF Change
<1>3. c[1] = s /\ c[2] = r /\ c[3] = n
  OBVIOUS
<1> HIDE DEF n, r
<1>4. c \in Subjects
  BY <1>1 DEF Subjects, Scopes
<1> SUFFICES /\ ValueIn(g, c) = value
             /\ \A z \in Subjects \ {c} :
                  ValueIn(g, z) # ValueIn(gh, z) => value = None /\ ValueIn(g, z) = None
  BY <1>2, <1>4
<1>5. CASE s = "owners"
  <2>1. /\ g.owners = IF op.operation = "add" THEN gh.owners \cup {n} ELSE gh.owners \ {n}
        /\ g.members = gh.members /\ g.teams = gh.teams /\ g.roles = gh.roles
        /\ g.collaborators = gh.collaborators
    BY <1>5 DEF Applied, Github, n
  <2>2. ValueIn(g, c) = value
    BY <1>1, <1>3, <1>5, <2>1, ValueParts DEF Presence
  <2>3. ASSUME NEW z \in Subjects \ {c} PROVE ValueIn(g, z) = ValueIn(gh, z)
    <3>1. z[1] = "owners" => z[3] # n
      BY <1>1, <1>5, SubjectKinds
    <3> QED
      BY <2>1, <3>1, SubjectKinds, ValueParts
  <2> QED
    BY <2>2, <2>3
<1>6. CASE s = "teams"
  <2>1. /\ g.owners = gh.owners /\ g.members = gh.members
        /\ g.teams = IF op.operation = "add" THEN gh.teams \cup {n} ELSE gh.teams \ {n}
        /\ g.collaborators = gh.collaborators
    BY <1>6 DEF Applied, Github, n
  <2>2. /\ op.operation = "add" => g.roles = gh.roles
        /\ op.operation # "add" =>
             g.roles = [x \in Repos |-> [gh.roles[x] EXCEPT ![n] = None]]
    BY <1>6 DEF Applied, Github, n
  <2>3. ValueIn(g, c) = value
    BY <1>1, <1>3, <1>6, <2>1, ValueParts DEF Presence
  <2>4. ASSUME NEW z \in Subjects \ {c}, ValueIn(g, z) # ValueIn(gh, z)
        PROVE  value = None /\ ValueIn(g, z) = None
    <3>1. z[1] = "teams" => z[3] # n
      BY <1>1, <1>6, SubjectKinds
    <3>2. z[1] = "repos"
      BY <2>1, <2>4, <3>1, SubjectKinds, ValueParts
    <3>3. z[2] \in Repos /\ z[3] \in Teams
      BY <3>2, SubjectKinds
    <3>4. ValueIn(g, z) = g.roles[z[2]][z[3]] /\ ValueIn(gh, z) = gh.roles[z[2]][z[3]]
      BY <3>2, ValueParts
    <3>5. op.operation # "add"
      BY <2>2, <2>4, <3>4
    <3>6. g.roles[z[2]] = [gh.roles[z[2]] EXCEPT ![n] = None]
      BY <2>2, <3>3, <3>5
    <3>7. gh.roles[z[2]] \in [Teams -> Permissions \cup {None}]
      BY <1>0, <3>3
    <3>8. g.roles[z[2]][z[3]] = None
      BY <2>4, <3>3, <3>4, <3>6, <3>7
    <3> QED
      BY <1>1, <3>4, <3>5, <3>8
  <2> QED
    BY <2>3, <2>4
<1>7. CASE s = "repos"
  <2>1. /\ g.owners = gh.owners /\ g.members = gh.members /\ g.teams = gh.teams
        /\ g.collaborators = gh.collaborators
        /\ g.roles = [gh.roles EXCEPT ![r][n] = op.permission]
    BY <1>7 DEF Applied, Github, n, r
  <2>2. r \in Repos /\ n \in Teams
    BY <1>1, <1>7
  <2>3. /\ g.roles[r][n] = op.permission
        /\ \A x \in Repos, t \in Teams :
             (x # r \/ t # n) => g.roles[x][t] = gh.roles[x][t]
    BY <1>0, <2>1, <2>2
  <2>4. ValueIn(g, c) = value
    BY <1>1, <1>3, <1>7, <2>3, ValueParts
  <2>5. ASSUME NEW z \in Subjects \ {c} PROVE ValueIn(g, z) = ValueIn(gh, z)
    <3>1. z[1] = "repos" => z[2] # r \/ z[3] # n
      BY <1>1, <1>7, SubjectKinds
    <3>2. CASE z[1] = "repos"
      <4>1. z[2] \in Repos /\ z[3] \in Teams
        BY <3>2, SubjectKinds
      <4>2. g.roles[z[2]][z[3]] = gh.roles[z[2]][z[3]]
        BY <2>3, <3>1, <3>2, <4>1
      <4> QED
        BY <3>2, <4>2, ValueParts
    <3> QED
      BY <2>1, <3>2, SubjectKinds, ValueParts
  <2> QED
    BY <2>4, <2>5
<1>8. CASE s = "members"
  <2>1. /\ g.owners = gh.owners \ {n} /\ g.members = gh.members \ {n}
        /\ g.teams = gh.teams /\ g.roles = gh.roles /\ g.collaborators = gh.collaborators
    BY <1>8 DEF Applied, Github, n
  <2>2. ValueIn(g, c) = value
    BY <1>1, <1>3, <1>8, <2>1, ValueParts DEF Presence
  <2>3. ASSUME NEW z \in Subjects \ {c}, ValueIn(g, z) # ValueIn(gh, z)
        PROVE  value = None /\ ValueIn(g, z) = None
    <3>1. z[1] = "members" => z[3] # n
      BY <1>1, <1>8, SubjectKinds
    <3>2. z[1] = "owners"
      BY <2>1, <2>3, <3>1, SubjectKinds, ValueParts
    <3>3. z[3] \notin g.owners
      BY <2>1, <2>3, <3>2, ValueParts
    <3> QED
      BY <1>1, <1>8, <3>2, <3>3, ValueParts DEF Presence
  <2> QED
    BY <2>2, <2>3
<1>9. CASE s = "collaborators"
  <2>1. /\ g.owners = gh.owners /\ g.members = gh.members /\ g.teams = gh.teams
        /\ g.roles = gh.roles
        /\ g.collaborators = [gh.collaborators EXCEPT ![r] = @ \ {n}]
    BY <1>9 DEF Applied, Github, n, r
  <2>2. r \in Repos
    BY <1>1, <1>9
  <2>3. /\ g.collaborators[r] = gh.collaborators[r] \ {n}
        /\ \A x \in Repos : x # r => g.collaborators[x] = gh.collaborators[x]
    BY <1>0, <2>1, <2>2
  <2>4. ValueIn(g, c) = value
    BY <1>1, <1>3, <1>9, <2>3, ValueParts DEF Presence
  <2>5. ASSUME NEW z \in Subjects \ {c} PROVE ValueIn(g, z) = ValueIn(gh, z)
    <3>1. z[1] = "collaborators" => z[2] # r \/ z[3] # n
      BY <1>1, <1>9, SubjectKinds
    <3>2. CASE z[1] = "collaborators"
      <4>1. z[2] \in Repos
        BY <3>2, SubjectKinds
      <4>2. (z[3] \in g.collaborators[z[2]]) = (z[3] \in gh.collaborators[z[2]])
        BY <2>3, <3>1, <3>2, <4>1
      <4> QED
        BY <3>2, <4>2, ValueParts DEF Presence
    <3> QED
      BY <2>1, <3>2, SubjectKinds, ValueParts
  <2> QED
    BY <2>4, <2>5
<1> QED
  BY <1>5, <1>6, <1>7, <1>8, <1>9 DEF Scopes

\* Every step records changes, applies one of those that are recorded, or is
\* somebody else's.
LEMMA StepAnnounced ==
  ASSUME IInv, UpToDate, Executing, [Next]_vars
  PROVE  [Announced!Next]_(Announced!variables)
<1> DEFINE Recording == /\ UNCHANGED <<gh, edits>>
                        /\ \/ OutstandingOf(status.ops) \subseteq OutstandingOf(status'.ops)
                           \/ OutstandingOf(status'.ops) \subseteq OutstandingOf(status.ops)
<1>0. /\ Outstanding = OutstandingOf(status.ops)
      /\ Outstanding' = OutstandingOf(status'.ops)
  BY DEF Outstanding, OutstandingOf
<1>1. gh' = gh => World' = World
  BY WorldValues
<1>2. Recording => Announced!Record
  <2>1. Recording => UNCHANGED <<World, edits>>
    BY <1>1
  <2> QED
    BY <1>0, <2>1 DEF Announced!Record
<1>3. edits' # edits /\ UNCHANGED status => Announced!OutsideChange
  BY <1>0 DEF Announced!OutsideChange
<1>4. UNCHANGED <<status, gh, edits>> => Recording
  OBVIOUS
<1>5. ASSUME NEW i \in Positions, Resolving(i)
      PROVE  Recording \/ \E change \in Outstanding : Announced!Apply(change)
  <2> DEFINE s == w.scope
             op == w.ops[s][i]
             change == Change(s, op)
  <2>1. /\ w.pc = "execute" /\ UNCHANGED <<object, edits>>
        /\ s \in Scopes /\ i \in DOMAIN w.ops[s] /\ op.state = "pending"
    BY <1>5, PlacesOfTurn
  <2>2. gh' = gh \/ gh' = Applied(s, op)
    BY <1>5 DEF Resolving
  <2>3. change \in Outstanding
    <3>1. change \in OutstandingOf(w.ops)
      BY <2>1, OutstandingMember DEF Waiting
    <3>2. Within(w.ops, w.snap.ops) /\ w.snap.ops = status.ops
      BY <2>1 DEF Executing, UpToDate
    <3> QED
      BY <1>0, <3>1, <3>2, WithinShrinks
  <2>4. gh \in Github /\ op \in OpOf(s)
    <3>1. w.ops[s] \in Seq(OpOf(s))
      BY <2>1, Facts DEF WorkerOK, WellScoped
    <3> QED
      BY <2>1, <3>1, Facts DEF OutsideOK
  <2>5. CASE gh' = Applied(s, op)
    <3> DEFINE g == gh'
    <3>1. g = Applied(s, op)
      BY <2>5
    <3> HIDE DEF g, op
    <3>2. /\ change.subject \in Subjects
          /\ ValueIn(g, change.subject) = change.value
          /\ \A z \in Subjects \ {change.subject} :
               ValueIn(g, z) # ValueIn(gh, z) => change.value = None /\ ValueIn(g, z) = None
      BY <2>1, <2>4, <3>1, AppliedAsAnnounced
    <3> HIDE DEF change
    <3>3. UNCHANGED <<Outstanding, edits>>
      BY <1>0, <2>1 DEF object
    <3>4. /\ World'[change.subject] = change.value
          /\ \A z \in Subjects \ {change.subject} :
               World'[z] # World[z] => change.value = None /\ World'[z] = None
      BY <3>2, WorldValues DEF g
    <3>5. Announced!Apply(change)
      BY <3>3, <3>4 DEF Announced!Apply
    <3> QED
      BY <2>3, <3>5 DEF change
  <2>6. CASE gh' = gh
    BY <1>4, <2>1, <2>6 DEF object
  <2> QED
    BY <2>2, <2>5, <2>6
<1>6. CASE WorkerStep
  <2>0. w.pc \notin {"idle", "wiped"} => w.snap.ops = status.ops
    <3>1. w.pc \in Comparing \/ w.pc \in {"idle", "wiped", "record", "switch", "execute", "report"}
      BY Facts DEF Worker, Comparing
    <3> QED
      BY <3>1 DEF UpToDate
  <2>1. Ending => Recording
    <3> SUFFICES ASSUME Ending PROVE Recording
      OBVIOUS
    <3>1. CASE UNCHANGED status
      BY <1>4, <3>1 DEF Ending
    <3>2. CASE /\ w.pc \in {"execute", "report"} /\ status'.ops = w.ops
      <4>1. OutstandingOf(w.ops) \subseteq OutstandingOf(status.ops)
        BY <2>0, <3>2, WithinShrinks DEF Executing
      <4> QED
        BY <3>2, <4>1 DEF Ending
    <3> QED
      BY <2>0, <3>1, <3>2 DEF Ending, Follows
  <2>2. WipeStatus => Recording
    <3>0. EmptyStatus.ops = NoOperations
      BY DEF EmptyStatus
    <3>1. WipeStatus => status'.ops = NoOperations /\ UNCHANGED <<gh, edits>>
      BY <3>0, Places DEF SafeStatusUpdate
    <3>2. OutstandingOf(NoOperations) = {}
      BY OutstandingMember DEF NoOperations
    <3> QED
      BY <3>1, <3>2
  <2>3. LeaveRateLimit => Recording
    BY <2>0, Places DEF SafeStatusUpdate
  <2>4. Begin \/ SkipComparison \/ ReadAgain \/ StartExecution \/ ScopeDone => Recording
    BY <1>4, Places, PlacesOfStart, PlacesOfScopeDone DEF object
  <2>5. Moving => Recording
    BY <1>4 DEF Moving, object
  <2>6. Settle => Recording
    BY <1>4, <2>0, PlacesOfSettle DEF object
  <2> HIDE DEF Recording
  <2>7. Recording \/ \E i \in Positions : Resolving(i)
    BY <1>6, <2>1, <2>2, <2>3, <2>4, <2>5, <2>6, Course
  <2> QED
    BY <1>2, <1>5, <2>7 DEF Announced!Next
<1>7. CASE Next /\ ~WorkerStep
  BY <1>2, <1>3, <1>4, <1>7, PlacesOfSurroundings DEF object, Announced!Next
<1>8. CASE UNCHANGED vars
  <2>1. UNCHANGED <<status, gh, edits>>
    BY <1>8 DEF vars, object, budgets
  <2> QED
    BY <1>2, <1>4, <2>1 DEF Announced!Next
<1> QED
  BY <1>6, <1>7, <1>8

\* GitHub is only changed as announced: when reconciles start from an
\* up-to-date cache, the reconciler implements the write-ahead specification.
THEOREM Announces ==
  ASSUME StaleReads = FALSE
  PROVE  Spec => OnlyAnnounced
<1>1. Init => Announced!Start
  <2>1. OutstandingOf(NoOperations) = {}
    BY OutstandingMember DEF NoOperations
  <2>a. EmptyStatus.ops = NoOperations
    BY DEF EmptyStatus
  <2>2. Init => status.ops = NoOperations
    BY <2>a DEF Init
  <2>3. Outstanding = OutstandingOf(status.ops)
    BY DEF Outstanding, OutstandingOf
  <2> QED
    BY <2>1, <2>2, <2>3 DEF Announced!Start
<1>2. Init => Executing
  BY RestType DEF Init, Executing
<1> QED
  BY <1>1, <1>2, Invariance, UpToDateReads, ExecutingKept, StepAnnounced, PTL
     DEF Spec, OnlyAnnounced, Announced!Spec

-----------------------------------------------------------------------------
(* Where the operations of the owners and of the members come from         *)

\* Every operation of the scope asks for what one asked for that was read,
\* and there are no more of them.
Inherited(s, lists) ==
  /\ DOMAIN lists[s] \subseteq DOMAIN w.snap.ops[s]
  /\ \A i \in DOMAIN lists[s] : \E k \in DOMAIN w.snap.ops[s] :
       Change(s, lists[s][i]) = Change(s, w.snap.ops[s][k])

\* A write that keeps the operations of a scope.
LEMMA SameInherited ==
  ASSUME NEW s, NEW lists, lists[s] = w.snap.ops[s]
  PROVE  Inherited(s, lists)
BY DEF Inherited

\* Operations within those read.
LEMMA WithinInherited ==
  ASSUME NEW s \in Scopes, NEW lists, Within(lists, w.snap.ops)
  PROVE  Inherited(s, lists)
BY DEF Inherited, Within

\* What a cleanup leaves.
LEMMA CleanedInherited ==
  ASSUME IInv, NEW s \in Scopes, NEW gone
  PROVE  Inherited(s, Without(w.snap.ops, gone))
<1> DEFINE old == w.snap.ops[s]
           K   == DOMAIN old \ gone[s]
           new == Keep(old, K)
<1>1. Without(w.snap.ops, gone)[s] = new
  BY DEF Without, WithoutPositions
<1>2. old \in Seq(Op)
  BY Facts
<1> HIDE DEF old
<1>3. K \in SUBSET DOMAIN old /\ DOMAIN old = 1 .. Len(old) /\ Len(old) \in Nat
  BY <1>2
<1>4. DOMAIN new = 1 .. Cardinality(K)
  BY DEF Keep
<1>5. Cardinality(K) \in Nat /\ Cardinality(K) <= Len(old)
  <2> DEFINE n == Len(old)
  <2>1. n \in Nat /\ 1 \in Int /\ n \in Int
    BY <1>3
  <2> HIDE DEF n
  <2>2. /\ IsFiniteSet(1 .. n)
        /\ Cardinality(1 .. n) = IF 1 > n THEN 0 ELSE n - 1 + 1
    BY <2>1, FS_Interval
  <2>3. Cardinality(1 .. n) = n
    BY <2>1, <2>2
  <2> QED
    BY <1>3, <2>2, <2>3, FS_Subset, FS_CardinalityType DEF n
<1>6. DOMAIN new \subseteq DOMAIN old
  BY <1>3, <1>4, <1>5
<1> HIDE DEF K
<1>7. \A i \in DOMAIN new : \E k \in DOMAIN old : new[i] = old[k]
  BY <1>2, <1>3, KeepProperties
<1> HIDE DEF new
<1>8. \A i \in DOMAIN new : \E k \in DOMAIN old : Change(s, new[i]) = Change(s, old[k])
  BY <1>7
<1> QED
  BY <1>1, <1>6, <1>8 DEF Inherited, old

\* A plan for one scope keeps the operations of the others.
LEMMA OthersInherited ==
  ASSUME IInv, NEW s \in Scopes, NEW scope \in Scopes, scope # s, NEW new, NEW next,
         Plan(scope, new, next)
  PROVE  UNCHANGED status \/ Inherited(s, status'.ops)
<1> DEFINE st == [w.snap EXCEPT !.state = "pending", !.error = "none",
                                !.ops[scope] = @ \o new]
<1>1. UNCHANGED object \/ Finish(st)
  BY DEF Plan
<1>2. w.snap \in Status /\ w.snap.ops \in [Scopes -> Seq(Op)]
  BY Facts DEF Sound
<1>3. st.ops[s] = w.snap.ops[s]
  BY <1>2 DEF Status
<1> HIDE DEF st
<1>4. Inherited(s, st.ops)
  BY <1>3, SameInherited
<1> QED
  BY <1>1, <1>4 DEF object, Finish, SafeStatusUpdate

\* A rate limit that is hit.
LEMMA HoldInherited ==
  ASSUME NEW s, NEW st \in Status, HoldFor(st), Inherited(s, st.ops)
  PROVE  Inherited(s, status'.ops)
<1>1. PICK e \in LimitErrors : Finish([st EXCEPT !.state = "ratelimited", !.error = e])
  BY DEF HoldFor
<1>2. [st EXCEPT !.state = "ratelimited", !.error = e].ops = st.ops
  BY DEF Status
<1> QED
  BY <1>1, <1>2 DEF Finish, SafeStatusUpdate

\* A failure that is written.
LEMMA FailedInherited ==
  ASSUME IInv, NEW s, Finish(Failed(w.snap))
  PROVE  Inherited(s, status'.ops)
<1>1. w.snap \in Status
  BY Facts DEF Sound
<1>2. Failed(w.snap).ops = w.snap.ops
  BY <1>1 DEF Failed, Status
<1> QED
  BY <1>2, SameInherited DEF Finish, SafeStatusUpdate

\* The writes at the start of a reconcile.
LEMMA StartInherits ==
  ASSUME IInv, StartOfReconcile, NEW s \in Scopes
  PROVE  UNCHANGED status \/ Inherited(s, status'.ops)
<1>0. w.snap \in Status /\ w.snap.ops \in [Scopes -> Seq(Op)]
  BY Facts DEF Sound
<1>1. CASE RemoveForceLabel
  BY <1>1 DEF RemoveForceLabel
<1>2. CASE Begin \/ WaitForReset \/ WaitForClient \/ SkipComparison
  BY <1>2 DEF Begin, WaitForReset, WaitForClient, SkipComparison, object
<1>3. CASE CleansUp
  <2>1. PICK expired : Finish(Cleaned(w.snap, w.meta.ttl, expired))
    BY <1>3 DEF CleansUp, CleanExpired
  <2> DEFINE gone == [z \in Scopes |-> {p[2] : p \in {q \in expired : q[1] = z}}]
             ops == Without(w.snap.ops, gone)
             clear == "failed" \in w.meta.ttl /\ FailedFound(w.snap.ops) /\ ~FailedFound(ops)
             error == IF clear THEN "none" ELSE w.snap.error
  <2>2. Inherited(s, ops)
    BY CleanedInherited
  <2>3. Cleaned(w.snap, w.meta.ttl, expired) = Recomputed([w.snap EXCEPT !.ops = ops, !.error = error])
    BY <1>0 DEF Cleaned, Status
  <2> HIDE DEF ops, error
  <2>4. Cleaned(w.snap, w.meta.ttl, expired).ops = ops
    BY <1>0, <2>3 DEF Recomputed, Status
  <2> QED
    BY <2>1, <2>2, <2>4 DEF Finish, SafeStatusUpdate
<1>4. CASE FailConfiguration
  BY <1>4, FailedInherited DEF FailConfiguration
<1>5. CASE WipeStatus
  <2>1. status' = EmptyStatus
    BY <1>5 DEF WipeStatus, SafeStatusUpdate
  <2>2. status'.ops[s] = <<>>
    BY <2>1 DEF EmptyStatus, NoOperations
  <2>3. DOMAIN status'.ops[s] = {}
    BY <2>2
  <2> QED
    BY <2>3 DEF Inherited
<1>6. CASE LeaveRateLimit
  <2>1. status' = w'.snap /\ w'.snap.ops = w.snap.ops
    BY <1>6, Places DEF SafeStatusUpdate
  <2> QED
    BY <2>1, SameInherited
<1> QED
  BY <1>1, <1>2, <1>3, <1>4, <1>5, <1>6 DEF StartOfReconcile

\* The writes of the comparison: only two of them add operations here.
LEMMA ComparisonInherits ==
  ASSUME IInv, Comparison, NEW s \in {"owners", "members"}
  PROVE  \/ UNCHANGED status \/ Inherited(s, status'.ops)
         \/ s = "owners" /\ PlanOwners
         \/ s = "members" /\ PlanMembers
<1>0. /\ w \in Worker /\ w.snap \in Status /\ w.snap.ops \in [Scopes -> Seq(Op)]
      /\ s \in Scopes
      /\ {"owners", "teams", "repos", "members", "collaborators"} \subseteq Scopes
  BY Facts DEF Sound, Scopes
<1>1. CASE \/ ObserveOwners \/ ObserveTeams \/ ObserveRepositories \/ ReadAgain \/ WaitForOwners
           \/ ObserveOrgMembers \/ ChooseRepositories
           \/ \E t \in Teams : ObserveTeamMembers(t) \/ TeamMembersFail(t)
           \/ \E r \in Repos : ObserveCollaborators(r) \/ CollaboratorsFail(r)
  <2>1. UNCHANGED object
    BY <1>1 DEF ObserveOwners, ObserveTeams, ObserveRepositories, ReadAgain, WaitForOwners,
                ObserveOrgMembers, ChooseRepositories, ObserveTeamMembers, TeamMembersFail,
                ObserveCollaborators, CollaboratorsFail
  <2> QED
    BY <2>1 DEF object
<1>2. CASE ObservationFails \/ FailOwners \/ LookupFails
  <2>1. Finish(Failed(w.snap))
    BY <1>2 DEF ObservationFails, FailOwners, LookupFails
  <2> QED
    BY <2>1, FailedInherited
<1>3. CASE ObservationLimited \/ ListingLimited
  <2>1. HoldFor(w.snap)
    BY <1>3 DEF ObservationLimited, ListingLimited
  <2>2. Inherited(s, w.snap.ops)
    BY SameInherited
  <2> QED
    BY <1>0, <2>1, <2>2, HoldInherited
<1>4. CASE RecordObserved
  <2> DEFINE st == [w.snap EXCEPT !.owners = w.owners, !.teams = w.teams]
  <2>1. Finish(st)
    BY <1>4 DEF RecordObserved
  <2>2. st.ops = w.snap.ops
    BY <1>0 DEF Status
  <2> QED
    BY <2>1, <2>2, SameInherited DEF Finish, SafeStatusUpdate
<1>5. CASE PlanTeams
  <2>1. \/ UNCHANGED object
        \/ \E new \in Differences(w.snap.ops.teams, w.snap.teams, k8s.teams) :
             Plan("teams", new, "planRepos")
    BY <1>5 DEF PlanTeams
  <2> QED
    BY <1>0, <2>1, OthersInherited DEF object
<1>6. CASE PlanRepos
  <2> DEFINE new == RepositoryChanges(w.snap.ops.repos, Visibility, w.roles,
                                      Policy(w.meta, k8s.exceptions))
  <2>1. UNCHANGED object \/ Plan("repos", new, "revive")
    BY <1>6 DEF PlanRepos
  <2> HIDE DEF new
  <2> QED
    BY <1>0, <2>1, OthersInherited DEF object
<1>7. CASE ReviveRepos
  <2> DEFINE ops == Revived(w.snap.ops.repos, {i \in DOMAIN w.snap.ops.repos :
                              RevivableRepo(w.meta, w.snap.ops.repos[i])})
             st == [w.snap EXCEPT !.state = "pending", !.ops.repos = ops]
  <2>1. UNCHANGED object \/ Finish(st)
    BY <1>7 DEF ReviveRepos
  <2> HIDE DEF ops
  <2>2. st.ops[s] = w.snap.ops[s]
    BY <1>0 DEF Status
  <2> HIDE DEF st
  <2> QED
    BY <2>1, <2>2, SameInherited DEF object, Finish, SafeStatusUpdate
<1>8. CASE PlanCollaborators
  <2>1. \E new \in CollaboratorRemovals(w.snap.ops.collaborators, w.direct, Exempt) :
          Plan("collaborators", new, "settle")
    BY <1>8 DEF PlanCollaborators
  <2> QED
    BY <1>0, <2>1, OthersInherited
<1>9. CASE Settle
  BY <1>9, PlacesOfSettle, SameInherited DEF object
<1>10. CASE PlanOwners /\ s # "owners"
  <2>1. \/ UNCHANGED object
        \/ \E new : Plan("owners", new, "planTeams")
    BY <1>10 DEF PlanOwners
  <2> QED
    BY <1>0, <1>10, <2>1, OthersInherited DEF object
<1>11. CASE PlanMembers /\ s # "members"
  <2>1. \E new : Plan("members", new, "collaborators")
    BY <1>11 DEF PlanMembers
  <2> QED
    BY <1>0, <1>11, <2>1, OthersInherited
<1> QED
  BY <1>1, <1>2, <1>3, <1>4, <1>5, <1>6, <1>7, <1>8, <1>9, <1>10, <1>11 DEF Comparison

\* The writes of a dry run.
LEMMA DryRunInherits ==
  ASSUME IInv, DryRunStep, NEW s \in Scopes
  PROVE  UNCHANGED status \/ Inherited(s, status'.ops)
<1>0. w.snap \in Status /\ w.snap.ops \in [Scopes -> Seq(Op)]
  BY Facts DEF Sound
<1>1. CASE EnterDryRun
  <2> DEFINE st == [w.snap EXCEPT !.state = "dry-run"]
  <2>1. Finish(st)
    BY <1>1 DEF EnterDryRun
  <2>2. st.ops = w.snap.ops
    BY <1>0 DEF Status
  <2> QED
    BY <2>1, <2>2, SameInherited DEF Finish, SafeStatusUpdate
<1>2. CASE LeaveDryRun
  <2> DEFINE error == IF Recomputed(w.snap).state = "complete" THEN "none"
                      ELSE Recomputed(w.snap).error
             st == [Recomputed(w.snap) EXCEPT !.error = error]
  <2>1. Finish(st)
    BY <1>2 DEF LeaveDryRun
  <2> HIDE DEF error
  <2>2. st.ops = w.snap.ops
    BY <1>0 DEF Status, Recomputed
  <2> QED
    BY <2>1, <2>2, SameInherited DEF Finish, SafeStatusUpdate
<1>3. CASE Rehearse
  <2> DEFINE ops == CleanOperations(w.snap.ops, w.meta.clean)
             st == [w.snap EXCEPT !.ops = ops]
  <2>1. Inherited(s, ops)
    BY CleanedInherited DEF CleanOperations
  <2>2. UNCHANGED object \/ SafeStatusUpdate(st) \/ UNCHANGED status
    BY <1>3 DEF Rehearse
  <2> HIDE DEF ops
  <2>3. st.ops = ops
    BY <1>0 DEF Status
  <2> QED
    BY <2>1, <2>2, <2>3 DEF SafeStatusUpdate, object
<1>4. CASE NothingToDo
  BY <1>4 DEF NothingToDo, object
<1> QED
  BY <1>1, <1>2, <1>3, <1>4 DEF DryRunStep

\* The writes of the execution.
LEMMA ExecutionInherits ==
  ASSUME IInv, Executing, Execution, NEW s \in Scopes
  PROVE  UNCHANGED status \/ Inherited(s, status'.ops)
<1>0. w.snap \in Status /\ w.ops \in [Scopes -> Seq(Op)]
  BY Facts DEF Worker, Sound
<1>1. CASE StartExecution \/ ScopeDone
  BY <1>1 DEF StartExecution, ScopeDone, object
<1>2. CASE Report
  <2>1. w.pc = "report" /\ (SafeStatusUpdate(Reported) \/ UNCHANGED object)
    BY <1>2 DEF Report
  <2>2. Reported.ops = w.ops
    BY <1>0 DEF Reported, Status
  <2>3. Inherited(s, w.ops)
    BY <2>1, WithinInherited DEF Executing
  <2> QED
    BY <2>1, <2>2, <2>3 DEF SafeStatusUpdate, object
<1>3. ASSUME NEW i \in Positions,
             SkipOperation(i) \/ ExecuteOperation(i) \/ ExecuteRefused(i) \/ ExecuteFails(i)
      PROVE  UNCHANGED status
  BY <1>3 DEF SkipOperation, ExecuteOperation, ExecuteRefused, ExecuteFails, object
<1>4. ASSUME NEW i \in Positions, ExecuteLimited(i)
      PROVE  Inherited(s, status'.ops)
  <2>1. HoldFor(HeldStatus) /\ w.pc = "execute"
    BY <1>4 DEF ExecuteLimited, Due, Turn
  <2>2. HeldStatus \in Status /\ HeldStatus.ops = w.ops
    BY <1>0 DEF HeldStatus, Status
  <2>3. Inherited(s, w.ops)
    BY <2>1, WithinInherited DEF Executing
  <2> QED
    BY <2>1, <2>2, <2>3, HoldInherited
<1> QED
  BY <1>1, <1>2, <1>3, <1>4 DEF Execution

\* Whoever writes the status: it holds no operation on an owner or a member
\* that was not read, unless it is just being planned.
LEMMA Provenance ==
  ASSUME IInv, Executing, [Next]_vars, NEW s \in {"owners", "members"}
  PROVE  \/ UNCHANGED status \/ Inherited(s, status'.ops)
         \/ s = "owners" /\ PlanOwners
         \/ s = "members" /\ PlanMembers
<1>0. s \in Scopes
  BY DEF Scopes
<1>1. CASE WorkerStep
  BY <1>0, <1>1, StartInherits, ComparisonInherits, DryRunInherits, ExecutionInherits
     DEF WorkerStep
<1>2. CASE Next /\ ~WorkerStep
  BY <1>2, PlacesOfSurroundings DEF object
<1>3. CASE UNCHANGED vars
  BY <1>3 DEF vars, object
<1> QED
  BY <1>1, <1>2, <1>3

-----------------------------------------------------------------------------
(* Removals from the organization                                          *)

Listing == {"teams", "repos", "listed", "planTeams", "planRepos", "revive", "members", "union"}

\* As long as others leave GitHub alone, what the worker has listed so far
\* is what GitHub would list now: the owners, the teams, and the members of
\* every team that is not left to be listed, unless a listing failed.
Observed ==
  /\ w.pc \in Listing => w.owners = gh.owners
  /\ w.pc \in Listing \ {"teams"} => w.teams = gh.teams
  /\ w.pc = "union" => \/ w.left = {} /\ w.lists = 0
                       \/ \A t \in gh.teams \ w.left : gh.teamMembers[t] \subseteq w.union

\* A worker that lists nothing.
LEMMA ObservedElsewhere ==
  ASSUME w'.pc \notin Listing
  PROVE  Observed'
BY DEF Observed, Listing

\* A worker that goes on with what it has listed.
LEMMA ObservedAlong ==
  ASSUME IInv, Observed, UNCHANGED gh, NEW next, Goto(next), next # "union",
         next \in Listing => w.pc \in Listing \ {"teams"}
  PROVE  Observed'
<1>1. w \in Worker
  BY Facts
<1>2. w'.pc = next /\ w'.owners = w.owners /\ w'.teams = w.teams
  BY <1>1 DEF Goto, Worker
<1> QED
  BY <1>2 DEF Observed, Listing

\* A plan: the worker goes on or the reconcile ends.
LEMMA ObservedByPlan ==
  ASSUME IInv, Observed, UNCHANGED gh, NEW next, next # "union",
         next \in Listing => w.pc \in Listing \ {"teams"},
         \/ Goto(next) \/ Stop \/ \E st : Finish(st)
         \/ \E scope, new : Plan(scope, new, next)
  PROVE  Observed'
<1>1. Stop => w'.pc \notin Listing
  BY RestType DEF Stop, Listing
<1>2. Goto(next) \/ Stop
  BY DEF Plan, Finish
<1> QED
  BY <1>1, <1>2, ObservedElsewhere, ObservedAlong

\* The comparison keeps what has been listed, or lists more.
LEMMA ObservedByComparison ==
  ASSUME IInv, Observed, Comparison
  PROVE  Observed'
<1>0. /\ w \in Worker
      /\ w.pc \in Listing => w.owners = gh.owners
      /\ w.pc \in Listing \ {"teams"} => w.teams = gh.teams
  BY Facts DEF Observed
<1>a. UNCHANGED Outside => UNCHANGED gh
  BY DEF Outside
<1>b. Stop => Observed'
  <2>1. Stop => w'.pc \notin Listing
    BY RestType DEF Stop, Listing
  <2> QED
    BY <2>1, ObservedElsewhere
<1>1. CASE ObserveOwners
  <2>1. w'.pc = "teams" /\ w'.owners = gh.owners /\ UNCHANGED gh
    BY <1>0, <1>a, <1>1 DEF ObserveOwners, Worker
  <2> QED
    BY <2>1 DEF Observed, Listing
<1>2. CASE ObserveTeams
  <2>1. /\ w.pc = "teams" /\ w'.pc = "repos" /\ w'.owners = w.owners /\ w'.teams = gh.teams
        /\ UNCHANGED gh
    BY <1>0, <1>a, <1>2 DEF ObserveTeams, Worker
  <2> QED
    BY <1>0, <2>1 DEF Observed, Listing
<1>3. CASE ObserveRepositories
  <2>1. /\ w.pc = "repos" /\ w'.pc = "listed" /\ w'.owners = w.owners /\ w'.teams = w.teams
        /\ UNCHANGED gh
    BY <1>0, <1>a, <1>3 DEF ObserveRepositories, Worker
  <2> QED
    BY <1>0, <2>1 DEF Observed, Listing
<1>4. CASE ObservationFails \/ ObservationLimited \/ RecordObserved \/ WaitForOwners
           \/ FailOwners \/ LookupFails \/ ListingLimited
  <2>1. Stop
    BY <1>4 DEF ObservationFails, ObservationLimited, RecordObserved, WaitForOwners,
                FailOwners, LookupFails, ListingLimited, HoldFor, Finish
  <2> QED
    BY <1>b, <2>1
<1>5. CASE ReadAgain
  <2>1. w'.pc = "record"
    BY <1>0, <1>5 DEF ReadAgain, Worker
  <2> QED
    BY <2>1, ObservedElsewhere DEF Listing
<1>6. CASE PlanOwners
  <2>1. w.pc \in Listing \ {"teams"} /\ UNCHANGED gh
    BY <1>a, <1>6 DEF PlanOwners, Listing
  <2>2. \/ Goto("planTeams") \/ Stop \/ \E scope, new : Plan(scope, new, "planTeams")
    BY <1>6 DEF PlanOwners
  <2> QED
    BY <2>1, <2>2, ObservedByPlan
<1>7. CASE PlanTeams
  <2>1. w.pc \in Listing \ {"teams"} /\ UNCHANGED gh
    BY <1>a, <1>7 DEF PlanTeams, Listing
  <2>2. \/ Goto("planRepos") \/ \E scope, new : Plan(scope, new, "planRepos")
    BY <1>7 DEF PlanTeams
  <2> QED
    BY <2>1, <2>2, ObservedByPlan
<1>8. CASE PlanRepos
  <2>1. w.pc \in Listing \ {"teams"} /\ UNCHANGED gh
    BY <1>a, <1>8 DEF PlanRepos, Listing
  <2>2. \/ Goto("revive") \/ \E scope, new : Plan(scope, new, "revive")
    BY <1>8 DEF PlanRepos
  <2> QED
    BY <2>1, <2>2, ObservedByPlan
<1>9. CASE ReviveRepos
  <2>1. w.pc \in Listing \ {"teams"} /\ UNCHANGED gh
    BY <1>a, <1>9 DEF ReviveRepos, Listing
  <2>2. \/ Goto("members") \/ \E st : Finish(st)
    BY <1>9 DEF ReviveRepos
  <2> QED
    BY <2>1, <2>2, ObservedByPlan
<1>10. CASE ObserveOrgMembers
  <2>1. w.pc = "members" /\ UNCHANGED gh
    BY <1>a, <1>10 DEF ObserveOrgMembers
  <2>2. CASE Previewed(w.meta, "members")
    <3>1. /\ w'.pc = "union" /\ w'.owners = w.owners /\ w'.teams = w.teams /\ w'.left = w.teams
      BY <1>0, <1>10, <2>2 DEF ObserveOrgMembers, Worker
    <3> QED
      BY <1>0, <2>1, <3>1 DEF Observed, Listing
  <2>3. CASE ~Previewed(w.meta, "members")
    <3>1. w'.pc = "collaborators"
      BY <1>0, <1>10, <2>3 DEF ObserveOrgMembers, Worker
    <3> QED
      BY <3>1, ObservedElsewhere DEF Listing
  <2> QED
    BY <2>2, <2>3
<1>11. ASSUME NEW t \in Teams, ObserveTeamMembers(t) PROVE Observed'
  <2>1. w.pc = "union" /\ t \in w.left /\ t \in gh.teams /\ UNCHANGED gh
    BY <1>a, <1>11 DEF ObserveTeamMembers
  <2>2. /\ w'.pc = "union" /\ w'.owners = w.owners /\ w'.teams = w.teams
        /\ w'.left = w.left \ {t} /\ w'.union = w.union \cup gh.teamMembers[t]
    BY <1>0, <1>11, <2>1 DEF ObserveTeamMembers, Worker
  <2>3. \A z \in gh.teams \ w.left : gh.teamMembers[z] \subseteq w.union
    BY <2>1 DEF Observed
  <2>4. \A z \in gh.teams \ w'.left : gh.teamMembers[z] \subseteq w'.union
    BY <2>2, <2>3
  <2> QED
    BY <1>0, <2>1, <2>2, <2>4 DEF Observed, Listing
<1>12. ASSUME NEW t \in Teams, TeamMembersFail(t) PROVE Observed'
  <2>1. w.pc = "union" /\ UNCHANGED gh
    BY <1>12 DEF TeamMembersFail
  <2>2. /\ w'.pc = "union" /\ w'.owners = w.owners /\ w'.teams = w.teams
        /\ w'.left = {} /\ w'.lists = 0
    BY <1>0, <1>12, <2>1 DEF TeamMembersFail, TeamMembersUnknown, Worker
  <2> QED
    BY <1>0, <2>1, <2>2 DEF Observed, Listing
<1>13. CASE PlanMembers
  <2>1. "collaborators" \notin Listing /\ UNCHANGED gh
    BY <1>a, <1>13 DEF PlanMembers, Listing
  <2>2. \E scope, new : Plan(scope, new, "collaborators")
    BY <1>13 DEF PlanMembers
  <2> QED
    BY <2>1, <2>2, ObservedByPlan
<1>14. CASE PlanCollaborators
  <2>1. "settle" \notin Listing /\ UNCHANGED gh
    BY <1>a, <1>14 DEF PlanCollaborators, Listing
  <2>2. \E scope, new : Plan(scope, new, "settle")
    BY <1>14 DEF PlanCollaborators
  <2> QED
    BY <2>1, <2>2, ObservedByPlan
<1>15. CASE \/ ChooseRepositories \/ Settle
            \/ \E r \in Repos : ObserveCollaborators(r) \/ CollaboratorsFail(r)
  <2>1. w'.pc \in {"direct", "settle", "switch"}
    BY <1>0, <1>15 DEF ChooseRepositories, Settle, Goto, ObserveCollaborators,
                       CollaboratorsFail, Worker
  <2> QED
    BY <2>1, ObservedElsewhere DEF Listing
<1> QED
  BY <1>1, <1>2, <1>3, <1>4, <1>5, <1>6, <1>7, <1>8, <1>9, <1>10, <1>11, <1>12,
     <1>13, <1>14, <1>15 DEF Comparison

\* So does every step, when nobody else changes GitHub.
LEMMA ObservedKept ==
  ASSUME "github" \notin EditKinds, IInv, Observed, [Next]_vars
  PROVE  Observed'
<1>1. CASE StartOfReconcile \/ DryRunStep \/ Execution
  <2>1. \/ Ending \/ Begin \/ WipeStatus \/ LeaveRateLimit \/ SkipComparison
        \/ StartExecution \/ ScopeDone \/ \E i \in Positions : Resolving(i)
    BY <1>1, CourseOfStart, CourseOfDryRun, CourseOfExecution
  <2>2. w'.pc \in {"idle", "begun", "wiped", "switch", "execute", "report"}
    BY <2>1, Places, PlacesOfStart, PlacesOfScopeDone, PlacesOfTurn
  <2> QED
    BY <2>2, ObservedElsewhere DEF Listing
<1>2. CASE Comparison
  BY <1>2, ObservedByComparison
<1>3. CASE Abort
  <2>1. w'.pc \notin Listing
    BY <1>3, RestType DEF Abort, Stop, Listing
  <2> QED
    BY <2>1, ObservedElsewhere
<1>4. CASE EditMeta
  <2>1. w \in Worker
    BY Facts
  <2>2. /\ w'.pc = w.pc /\ w'.owners = w.owners /\ w'.teams = w.teams /\ w'.left = w.left
        /\ w'.lists = w.lists /\ w'.union = w.union
    BY <1>4, <2>1 DEF EditMeta, Worker
  <2> QED
    BY <1>4, <2>2 DEF EditMeta, Observed, Listing
<1>5. CASE SyncCache \/ LimitResets \/ EditResources \/ UNCHANGED vars
  <2>1. UNCHANGED <<w, gh>>
    BY <1>5 DEF SyncCache, LimitResets, EditResources, Outside, vars
  <2> QED
    BY <2>1 DEF Observed, Listing
<1>6. ~EditGithub
  BY DEF EditGithub, Edit
<1> QED
  BY <1>1, <1>2, <1>3, <1>4, <1>5, <1>6 DEF Next, WorkerStep

\* Of the organization's members those are planned to be removed who are in
\* none of the lists, when every team could be listed.
LEMMA RemovalsPlanned ==
  ASSUME IInv, Observed, PlanMembers,
         NEW i \in DOMAIN status'.ops["members"] \ DOMAIN w.snap.ops["members"]
  PROVE  \/ UNCHANGED status
         \/ /\ status'.ops["members"][i].name \notin w.meta.protected
            /\ status'.ops["members"][i].name \notin gh.owners
            /\ \A t \in gh.teams : status'.ops["members"][i].name \notin gh.teamMembers[t]
<1> DEFINE exempt == Exempt \cup w.union
           T == {op \in {NewOp("remove", None, u, None) : u \in w.members \ exempt} : w.lists # 0}
           old == w.snap.ops["members"]
<1>0. /\ w.members \in SUBSET Users /\ w.snap \in Status
      /\ w.snap.ops \in [Scopes -> Seq(Op)] /\ "members" \in Scopes
  BY Facts DEF Worker, Sound, Scopes
<1>1. w.pc = "union" /\ w.left = {}
  BY DEF PlanMembers
<1>2. PICK new \in MemberRemovals(w.snap.ops.members, w.members, exempt, w.lists) :
        Plan("members", new, "collaborators")
  BY DEF PlanMembers
<1>3. new \in Seq(T)
  <2>1. IsFiniteSet(w.members)
    BY <1>0, AllFinite
  <2>2. w.lists # 0 => \A u \in w.members \ exempt : NewOp("remove", None, u, None) \in T
    OBVIOUS
  <2> HIDE DEF T, exempt
  <2> QED
    BY <1>2, <2>1, <2>2, MemberRemovalsType
<1> DEFINE st == [w.snap EXCEPT !.state = "pending", !.error = "none",
                                !.ops["members"] = @ \o new]
<1>4. UNCHANGED status \/ status' = st
  BY <1>2 DEF Plan, object, Finish, SafeStatusUpdate
<1>5. st.ops["members"] = old \o new
  BY <1>0 DEF Status
<1> HIDE DEF st
<1>6. CASE status' = st
  <2>1. old \in Seq(Op) /\ i \in DOMAIN (old \o new) \ DOMAIN old
    BY <1>0, <1>5, <1>6
  <2> HIDE DEF old
  <2>2. old \in Seq(Op \cup T) /\ new \in Seq(Op \cup T)
    BY <1>3, <2>1
  <2> HIDE DEF T
  <2>3. \E j \in DOMAIN new : (old \o new)[i] = new[j]
    BY <2>1, <2>2
  <2>4. (old \o new)[i] \in T
    BY <1>3, <2>3
  <2> DEFINE op == (old \o new)[i]
  <2> HIDE DEF op
  <2>5. op \in T
    BY <2>4 DEF op
  <2>6. w.lists # 0 /\ \E u \in w.members \ exempt : op = NewOp("remove", None, u, None)
    BY <2>5 DEF T
  <2>7. op.name \notin exempt
    BY <2>6 DEF NewOp
  <2>8. op.name \notin w.owners /\ op.name \notin w.meta.protected /\ op.name \notin w.union
    BY <2>7 DEF Exempt
  <2>9. w.owners = gh.owners /\ \A t \in gh.teams : gh.teamMembers[t] \subseteq w.union
    BY <1>1, <2>6 DEF Observed, Listing
  <2>10. status'.ops["members"][i] = op
    BY <1>5, <1>6 DEF op, old
  <2> QED
    BY <2>8, <2>9, <2>10
<1> QED
  BY <1>4, <1>6

\* Nobody is queued for removal from the organization whom the spec
\* protects, who owns it or who is in one of its teams, however the listings
\* interleave with the surroundings and whichever fail, as long as nobody
\* else changes GitHub.
THEOREM RemovalsFounded ==
  ASSUME "github" \notin EditKinds
  PROVE  Spec => RemovalsJustified
<1>1. Init => Observed
  BY RestType DEF Init, Observed, Listing
<1>2. Init => Executing
  BY RestType DEF Init, Executing
<1> DEFINE Founded ==
      status' # status =>
        \A i \in DOMAIN status'.ops["members"] \ DOMAIN w.snap.ops["members"] :
          LET u == status'.ops["members"][i].name
          IN  /\ u \notin w.meta.protected
              /\ u \notin gh.owners
              /\ \A t \in gh.teams : u \notin gh.teamMembers[t]
<1>3. ASSUME IInv, Executing, Observed, [Next]_vars
      PROVE  [Founded]_vars
  <2> SUFFICES ASSUME status' # status,
                      NEW i \in DOMAIN status'.ops["members"] \ DOMAIN w.snap.ops["members"]
               PROVE  /\ status'.ops["members"][i].name \notin w.meta.protected
                      /\ status'.ops["members"][i].name \notin gh.owners
                      /\ \A t \in gh.teams :
                           status'.ops["members"][i].name \notin gh.teamMembers[t]
    OBVIOUS
  <2>1. ~Inherited("members", status'.ops)
    BY DEF Inherited
  <2>2. PlanMembers
    BY <1>3, <2>1, Provenance
  <2> QED
    BY <1>3, <2>2, RemovalsPlanned
<1> QED
  BY <1>1, <1>2, <1>3, Invariance, ObservedKept, ExecutingKept, PTL
     DEF Spec, RemovalsJustified

-----------------------------------------------------------------------------
(* Demotions                                                               *)

\* No removal of an owner among the operations is about one whom the owner
\* teams list whenever all of them are ready.
Harmless(lists) ==
  \A i \in DOMAIN lists["owners"] :
    lists["owners"][i].operation = "remove" => lists["owners"][i].name \notin LastingOwners

\* Nobody who lasts is to be demoted: not by what is stored, nor by what the
\* informer still shows, nor by what the worker has read.
Lasting ==
  /\ k8s \in Resources
  /\ Harmless(status.ops) /\ Harmless(cache.status.ops) /\ Harmless(w.snap.ops)

\* Operations that ask for what was asked for are as harmless.
LEMMA InheritedHarmless ==
  ASSUME NEW lists, Inherited("owners", lists), Harmless(w.snap.ops)
  PROVE  Harmless(lists)
<1> DEFINE new == lists["owners"]
           old == w.snap.ops["owners"]
<1> SUFFICES ASSUME NEW i \in DOMAIN new, new[i].operation = "remove"
             PROVE  new[i].name \notin LastingOwners
  BY DEF Harmless
<1>1. PICK k \in DOMAIN old : Change("owners", new[i]) = Change("owners", old[k])
  BY DEF Inherited
<1>2. \A op : Change("owners", op).value = IF op.operation = "remove" THEN None ELSE "present"
  BY DEF Change
<1>3. \A op : Change("owners", op).subject[3] = op.name
  BY DEF Change
<1> HIDE DEF new, old
<1>4. None # "present"
  BY DEF None
<1>5. old[k].operation = "remove"
  BY <1>1, <1>2, <1>4
<1>6. old[k].name = new[i].name
  BY <1>1, <1>3
<1>7. old[k].name \notin LastingOwners
  BY <1>5 DEF Harmless, old
<1> QED
  BY <1>6, <1>7

\* When all owner teams are ready and somebody is wanted, everybody who
\* lasts is wanted.
LEMMA LastingWanted ==
  ASSUME k8s \in Resources, OwnerTeamsReady(k8s.state),
         NEW wanted \in OwnersOf(k8s.members), wanted # {}
  PROVE  LastingOwners \subseteq wanted
<1> DEFINE all == UNION {k8s.members[t] : t \in OwnerTeams}
<1> SUFFICES ASSUME NEW u \in LastingOwners PROVE u \in wanted
  OBVIOUS
<1>1. /\ u \notin Anonymous
      /\ (\A t \in OwnerTeams : k8s.state[t] = "ready") /\ all # {} => u \in all
  BY DEF LastingOwners
<1>2. \/ wanted = all
      \/ \E a \in all \cap Anonymous : wanted = (all \ Anonymous) \cup {a}
  BY DEF OwnersOf
<1> HIDE DEF all
<1>3. all # {}
  BY <1>2
<1>4. u \in all
  BY <1>1, <1>3 DEF OwnerTeamsReady
<1> QED
  BY <1>1, <1>2, <1>4

\* So a plan for the owners demotes nobody who lasts.
LEMMA OwnersHarmless ==
  ASSUME IInv, Lasting, PlanOwners
  PROVE  UNCHANGED status \/ Harmless(status'.ops)
<1>0. /\ w.snap \in Status /\ w.snap.ops \in [Scopes -> Seq(Op)] /\ "owners" \in Scopes
      /\ w.snap.owners \in SUBSET Users
  BY Facts DEF Sound, Scopes
<1>1. CASE UNCHANGED status
  BY <1>1
<1>2. CASE ~UNCHANGED status
  <2>1. /\ OwnerTeamsReady(k8s.state)
        /\ \E wanted \in OwnersOf(k8s.members) :
             /\ wanted # {}
             /\ \E new \in Differences(w.snap.ops.owners, w.snap.owners, wanted) :
                  Plan("owners", new, "planTeams")
    BY <1>2 DEF PlanOwners, object
  <2>2. PICK wanted \in OwnersOf(k8s.members) :
          /\ wanted # {}
          /\ \E new \in Differences(w.snap.ops.owners, w.snap.owners, wanted) :
               Plan("owners", new, "planTeams")
    BY <2>1
  <2>3. PICK new \in Differences(w.snap.ops.owners, w.snap.owners, wanted) :
          Plan("owners", new, "planTeams")
    BY <2>2
  <2>4. LastingOwners \subseteq wanted
    BY <2>1, <2>2, LastingWanted DEF Lasting
  <2> DEFINE Adds    == {NewOp("add", None, n, None) : n \in wanted \ w.snap.owners}
             Removes == {NewOp("remove", None, n, None) : n \in w.snap.owners \ wanted}
             T   == Adds \cup Removes
             old == w.snap.ops["owners"]
             all == UNION {k8s.members[t] : t \in OwnerTeams}
  <2>5. IsFiniteSet(wanted) /\ IsFiniteSet(w.snap.owners)
    <3>1. all \in SUBSET Users
      BY Seen
    <3>2. Anonymous \subseteq Users
      BY SetsAssumption
    <3>3. wanted \in SUBSET Users
      BY <3>1, <3>2 DEF OwnersOf
    <3> QED
      BY <1>0, <3>3, AllFinite
  <2>6. new \in Seq(T)
    <3>1. /\ \A n \in wanted \ w.snap.owners : NewOp("add", None, n, None) \in T
          /\ \A n \in w.snap.owners \ wanted : NewOp("remove", None, n, None) \in T
      OBVIOUS
    <3> HIDE DEF T
    <3> QED
      BY <2>3, <2>5, <3>1, DifferencesType
  <2>7. \A op \in T : op.operation = "remove" => op.name \notin LastingOwners
    <3>1. \A op \in Adds : op.operation = "add"
      BY DEF NewOp
    <3>2. \A op \in Removes : op.name \in w.snap.owners \ wanted
      BY DEF NewOp
    <3> QED
      BY <2>4, <3>1, <3>2
  <2> DEFINE st == [w.snap EXCEPT !.state = "pending", !.error = "none",
                                  !.ops["owners"] = @ \o new]
  <2>8. status' = st
    BY <1>2, <2>3 DEF Plan, object, Finish, SafeStatusUpdate
  <2>9. st.ops["owners"] = old \o new
    BY <1>0 DEF Status
  <2> HIDE DEF st, T
  <2>10. old \in Seq(Op)
    BY <1>0
  <2>11. \A i \in DOMAIN old : old[i].operation = "remove" => old[i].name \notin LastingOwners
    BY DEF Lasting, Harmless
  <2> HIDE DEF old
  <2>12. old \in Seq(Op \cup T) /\ new \in Seq(Op \cup T)
    BY <2>6, <2>10
  <2> DEFINE both == old \o new
  <2>13. \A i \in DOMAIN both : \/ i \in DOMAIN old /\ both[i] = old[i]
                                \/ \E j \in DOMAIN new : both[i] = new[j]
    BY <2>12
  <2>14. \A j \in DOMAIN new : new[j] \in T
    BY <2>6
  <2> HIDE DEF both
  <2>15. \A i \in DOMAIN both : both[i].operation = "remove" => both[i].name \notin LastingOwners
    BY <2>7, <2>11, <2>13, <2>14
  <2> QED
    BY <2>8, <2>9, <2>15 DEF Harmless, both
<1> QED
  BY <1>1, <1>2

\* The informer's copy is left alone, or brought up to date.
LEMMA CacheFollows ==
  ASSUME [Next]_vars
  PROVE  UNCHANGED cache \/ cache'.status = status
<1>1. (\E st : SafeStatusUpdate(st)) => UNCHANGED cache
  BY DEF SafeStatusUpdate
<1>2. (\E st : Finish(st)) => UNCHANGED cache
  BY <1>1 DEF Finish
<1>3. (\E st : HoldFor(st)) => UNCHANGED cache
  BY <1>2 DEF HoldFor
<1>4. (\E scope, new, next : Plan(scope, new, next)) => UNCHANGED cache
  BY <1>2 DEF Plan, object
<1>5. CASE StartOfReconcile
  BY <1>1, <1>2, <1>5
     DEF StartOfReconcile, Begin, WipeStatus, RemoveForceLabel, WaitForReset, LeaveRateLimit,
         CleansUp, CleanExpired, FailConfiguration, WaitForClient, SkipComparison, object
<1>6. CASE Comparison
  <2>1. CASE \/ ObserveOwners \/ ObserveTeams \/ ObserveRepositories \/ ReadAgain \/ WaitForOwners
             \/ ObserveOrgMembers \/ ChooseRepositories
             \/ \E t \in Teams : ObserveTeamMembers(t) \/ TeamMembersFail(t)
             \/ \E r \in Repos : ObserveCollaborators(r) \/ CollaboratorsFail(r)
    <3>1. UNCHANGED object
      BY <2>1 DEF ObserveOwners, ObserveTeams, ObserveRepositories, ReadAgain, WaitForOwners,
                  ObserveOrgMembers, ChooseRepositories, ObserveTeamMembers, TeamMembersFail,
                  ObserveCollaborators, CollaboratorsFail
    <3> QED
      BY <3>1 DEF object
  <2>2. CASE \/ ObservationFails \/ ObservationLimited \/ RecordObserved \/ FailOwners
             \/ LookupFails \/ ListingLimited
    BY <1>2, <1>3, <2>2 DEF ObservationFails, ObservationLimited, RecordObserved, FailOwners,
                            LookupFails, ListingLimited
  <2>3. CASE PlanOwners \/ PlanTeams \/ PlanRepos \/ ReviveRepos \/ PlanMembers
             \/ PlanCollaborators \/ Settle
    BY <1>1, <1>2, <1>4, <2>3 DEF PlanOwners, PlanTeams, PlanRepos, ReviveRepos, PlanMembers,
                                  PlanCollaborators, Settle, object
  <2> QED
    BY <1>6, <2>1, <2>2, <2>3 DEF Comparison
<1>7. CASE DryRunStep
  BY <1>1, <1>2, <1>7 DEF DryRunStep, EnterDryRun, LeaveDryRun, Rehearse, NothingToDo, object
<1>8. CASE Execution
  BY <1>1, <1>3, <1>8 DEF Execution, StartExecution, ScopeDone, Report, SkipOperation,
                          ExecuteOperation, ExecuteRefused, ExecuteFails, ExecuteLimited, object
<1>9. CASE Abort \/ SyncCache \/ LimitResets \/ EditMeta \/ EditGithub \/ EditResources
  BY <1>9 DEF Abort, SyncCache, LimitResets, EditMeta, EditGithub, EditResources, object
<1>10. CASE UNCHANGED vars
  BY <1>10 DEF vars, object
<1> QED
  BY <1>5, <1>6, <1>7, <1>8, <1>9, <1>10 DEF Next, WorkerStep

\* What the worker holds as read was read before, is read now, or is nothing.
LEMMA ReadingFollows ==
  ASSUME IInv, [Next]_vars
  PROVE  w'.snap.ops \in {w.snap.ops, cache.status.ops, NoOperations}
<1>0. w \in Worker /\ Rest \in Worker /\ Rest.snap.ops = NoOperations
  BY Facts, RestType DEF Rest, EmptyStatus
<1>1. CASE WorkerStep
  <2>1. CASE Ending
    BY <1>0, <2>1 DEF Ending, Stop
  <2>2. CASE WipeStatus
    BY <1>0, <2>2 DEF WipeStatus, Goto, Worker
  <2>3. CASE Begin \/ LeaveRateLimit \/ SkipComparison \/ ReadAgain
    BY <2>3, Places
  <2>4. CASE Moving
    BY <2>4 DEF Moving
  <2>5. CASE Settle \/ StartExecution \/ ScopeDone \/ \E i \in Positions : Resolving(i)
    BY <2>5, PlacesOfSettle, PlacesOfStart, PlacesOfScopeDone, PlacesOfTurn
  <2> QED
    BY <1>1, <2>1, <2>2, <2>3, <2>4, <2>5, Course
<1>2. CASE Next /\ ~WorkerStep
  BY <1>0, <1>2, PlacesOfSurroundings DEF Stop
<1>3. CASE UNCHANGED vars
  BY <1>3 DEF vars
<1> QED
  BY <1>1, <1>2, <1>3

\* Only others change the resources.
LEMMA ResourcesFollow ==
  ASSUME [Next]_vars
  PROVE  UNCHANGED k8s \/ k8s' \in Resources
<1>1. UNCHANGED Outside => UNCHANGED k8s
  BY DEF Outside
<1>2. (\E st : HoldFor(st)) => UNCHANGED k8s
  BY DEF HoldFor
<1>3. CASE StartOfReconcile
  BY <1>1, <1>3
     DEF StartOfReconcile, Begin, WipeStatus, RemoveForceLabel, WaitForReset, LeaveRateLimit,
         CleansUp, CleanExpired, FailConfiguration, WaitForClient, SkipComparison
<1>4. CASE Comparison
  BY <1>1, <1>2, <1>4
     DEF Comparison, ObserveOwners, ObserveTeams, ObserveRepositories, ReadAgain, WaitForOwners,
         ObserveOrgMembers, ChooseRepositories, ObserveTeamMembers, TeamMembersFail,
         ObserveCollaborators, CollaboratorsFail, ObservationFails, ObservationLimited,
         RecordObserved, FailOwners, LookupFails, ListingLimited, PlanOwners, PlanTeams,
         PlanRepos, ReviveRepos, PlanMembers, PlanCollaborators, Settle
<1>5. CASE DryRunStep
  BY <1>1, <1>5 DEF DryRunStep, EnterDryRun, LeaveDryRun, Rehearse, NothingToDo
<1>6. CASE Execution
  BY <1>1, <1>2, <1>6 DEF Execution, StartExecution, ScopeDone, Report, SkipOperation,
                          ExecuteOperation, ExecuteRefused, ExecuteFails, ExecuteLimited
<1>7. CASE Abort \/ SyncCache \/ LimitResets \/ EditMeta \/ EditGithub \/ EditResources
  BY <1>1, <1>7 DEF Abort, SyncCache, LimitResets, EditMeta, EditGithub, EditResources
<1>8. CASE UNCHANGED vars
  BY <1>8 DEF vars
<1> QED
  BY <1>3, <1>4, <1>5, <1>6, <1>7, <1>8 DEF Next, WorkerStep

\* Every step keeps those who last.
LEMMA LastingKept ==
  ASSUME IInv, Executing, Lasting, [Next]_vars
  PROVE  Lasting'
<1>1. LastingOwners' = LastingOwners /\ Resources' = Resources
  BY DEF LastingOwners
<1>2. \A lists : Harmless(lists) <=>
        \A i \in DOMAIN lists["owners"] :
          lists["owners"][i].operation = "remove" => lists["owners"][i].name \notin LastingOwners
  BY DEF Harmless
<1>3. Harmless(NoOperations)
  BY DEF Harmless, NoOperations, Scopes
<1>4. k8s' \in Resources
  BY ResourcesFollow DEF Lasting
<1>5. Harmless(status'.ops)
  <2>1. CASE UNCHANGED status
    BY <2>1 DEF Lasting
  <2>2. CASE Inherited("owners", status'.ops)
    BY <2>2, InheritedHarmless DEF Lasting
  <2>3. CASE PlanOwners
    BY <2>1, <2>3, OwnersHarmless
  <2> QED
    BY <2>1, <2>2, <2>3, Provenance
<1>6. Harmless(cache'.status.ops)
  BY CacheFollows DEF Lasting
<1>7. Harmless(w'.snap.ops)
  BY <1>3, ReadingFollows DEF Lasting
<1>8. Harmless(status.ops)' /\ Harmless(cache.status.ops)' /\ Harmless(w.snap.ops)'
  BY <1>1, <1>5, <1>6, <1>7 DEF Harmless
<1> QED
  BY <1>1, <1>4, <1>8 DEF Lasting

\* A user the owner teams list whenever all of them are ready is not
\* demoted, whatever becomes of those teams and of GitHub while the
\* reconciler runs, and however stale its reads are.
THEOREM LastingOwnersKept == Spec => OwnersKept
<1>1. Init => Executing /\ Lasting
  <2>1. Harmless(EmptyStatus.ops)
    BY DEF Harmless, EmptyStatus, NoOperations, Scopes
  <2>2. Rest.snap = EmptyStatus /\ Rest.pc = "idle"
    BY RestType DEF Rest
  <2> QED
    BY <2>1, <2>2 DEF Init, Executing, Lasting
<1> DEFINE Kept == ByWorker /\ w.scope # "members"
                     => LastingOwners \cap gh.owners \subseteq gh'.owners
<1>2. ASSUME IInv, Executing, Lasting, [Next]_vars
      PROVE  [Kept]_vars
  <2> SUFFICES ASSUME w # w', w.scope # "members", gh' # gh,
                      NEW u \in LastingOwners, u \in gh.owners
               PROVE  u \in gh'.owners
    BY DEF ByWorker
  <2>1. PICK i \in Positions : Resolving(i)
    BY <1>2, OnlyTurnsChange
  <2> DEFINE op == w.ops[w.scope][i]
  <2>2. gh' = Applied(w.scope, op)
    BY <2>1 DEF Resolving
  <2>3. w.pc = "execute" /\ w.scope \in Scopes /\ i \in DOMAIN w.ops[w.scope]
    BY <1>2, <2>1, PlacesOfTurn
  <2>4. gh \in Github
    BY <1>2 DEF IInv, OutsideOK
  <2>5. CASE w.scope = "owners"
    <3>1. op.operation = "remove" => op.name \notin LastingOwners
      <4>1. Inherited("owners", w.ops)
        BY <1>2, <2>3, <2>5, WithinInherited DEF Executing
      <4>2. Harmless(w.ops)
        BY <1>2, <4>1, InheritedHarmless DEF Lasting
      <4> QED
        BY <2>3, <2>5, <4>2 DEF Harmless
    <3>2. op.operation \in {"add", "remove"}
      <4>1. w.ops \in [Scopes -> Seq(Op)]
        BY <1>2, Facts DEF Worker
      <4>2. op \in Op
        BY <2>3, <4>1
      <4> QED
        BY <4>2 DEF Op, OperationTypes
    <3> HIDE DEF op
    <3>3. gh'.owners = IF op.operation = "add" THEN gh.owners \cup {op.name}
                       ELSE gh.owners \ {op.name}
      BY <2>2, <2>4, <2>5 DEF Applied, Github
    <3> QED
      BY <3>1, <3>2, <3>3
  <2>6. CASE w.scope \in {"teams", "repos", "collaborators"}
    <3> HIDE DEF op
    <3>1. gh'.owners = gh.owners
      BY <2>2, <2>4, <2>6 DEF Applied, Github
    <3> QED
      BY <3>1
  <2> QED
    BY <2>3, <2>5, <2>6 DEF Scopes
<1> QED
  BY <1>1, <1>2, Invariance, LastingKept, ExecutingKept, PTL DEF Spec, OwnersKept
=============================================================================
