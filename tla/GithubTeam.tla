----------------------------- MODULE GithubTeam -----------------------------
(***************************************************************************)
(* The reconciler of one GithubTeam: it compares the members a provider    *)
(* wants with the members GitHub reports, writes the difference into the   *)
(* status as pending operations, executes them in a later reconcile, and   *)
(* records the outcome.                                                    *)
(*                                                                         *)
(* One worker runs at a time for one object (controller-runtime never runs *)
(* two reconciles of a key concurrently), but its steps interleave with    *)
(* users editing the object, the provider and GitHub.  Every step of the   *)
(* worker below performs at most one call to the API server, a provider or *)
(* GitHub, with the local computation around it.                           *)
(*                                                                         *)
(* The worker reads the object through the informer cache, which lags      *)
(* behind the API server, and writes with optimistic concurrency: a write  *)
(* that re-reads the object in RetryOnConflict goes through once the cache *)
(* has caught up; a write of the object read at the start goes through     *)
(* only if nobody has written the object since.                            *)
(***************************************************************************)
EXTENDS UserOperations

CONSTANTS
  Users,        \* GitHub logins
  Core,         \* users the provider always lists
  Strangers,    \* users the provider never lists
  Ghosts,       \* logins GitHub does not know
  Metas,        \* the labels and specs a user may give the object
  FaultKinds,   \* what may go wrong: see Fault
  EditKinds,    \* what may change from outside: see Edit
  LimitErrors,  \* the rate-limit errors GitHub may answer with
  StaleReads,   \* TRUE: a reconcile may start from a cache that lags
  MaxFaults,    \* bound on the number of faults
  MaxEdits      \* bound on the number of outside changes

\* "ttl" holds the operation states whose TTL label is set; addUser and
\* removeUser say whether the operation is allowed (label unset or "true");
\* a "managed" team names one member provider, an "unmanaged" one none, and
\* an "invalid" spec lacks a name or names several providers.
Meta ==
  [ addUser    : BOOLEAN,
    removeUser : BOOLEAN,
    dryRun     : {"true", "false", "unset"},
    force      : BOOLEAN,
    ttl        : SUBSET TerminalStates,
    spec       : {"managed", "unmanaged", "invalid"} ]

AllFaults == {"abort", "config", "github", "limit", "provider", "team"}
AllEdits  == {"desired", "members", "meta"}

\* "until": the stored message fixes the reset time, so parsing it again
\* gives the same time; "floating": invitation and secondary limits, which
\* parse to one hour from the moment of parsing.
RateLimitErrors == {"until", "floating"}

ASSUME UsersAssumption    == IsFiniteSet(Users)
ASSUME ProviderAssumption == /\ Core \subseteq Users
                             /\ Strangers \subseteq Users \ Core
ASSUME MetasAssumption    == Metas \subseteq Meta
ASSUME LimitAssumption    == LimitErrors \subseteq RateLimitErrors
ASSUME BoundsAssumption   == MaxFaults \in Nat /\ MaxEdits \in Nat

TeamStates == {"", "pending", "failed", "complete", "dry-run", "ratelimited"}
Errors     == {"none", "other"} \cup RateLimitErrors

Status == [ teamStatus : TeamStates,
            error      : Errors,
            operations : Seq(Operation(Users)),
            members    : SUBSET Users ]

EmptyStatus == [ teamStatus |-> "", error |-> "none",
                 operations |-> <<>>, members |-> {} ]

VARIABLES
  status, meta,    \* the object at the API server: status; labels and spec
  cache, fresh,    \* the informer's copy, and whether it is the latest
  configured,      \* the Github and GithubOrganization resources exist
  desired,         \* the members the provider answers with
  ghTeam,          \* the team exists on GitHub
  ghMembers,       \* its members
  limitOver,       \* the reset time of the stored rate-limit error passed
  w,               \* the worker: see Worker
  faults, edits    \* faults and outside changes that may still happen

object  == <<status, meta, cache, fresh>>
github  == <<ghTeam, ghMembers>>
budgets == <<faults, edits>>
vars    == <<object, configured, desired, github, limitOver, w, budgets>>

Steps == { "idle", "begun", "wiped", "observed", "synced", "resolved",
           "switch", "execute", "report" }

Worker ==
  [ pc      : Steps,
    snap    : Status,                 \* the status as read (githubTeam)
    meta    : Meta,                   \* the labels and spec as read
    current : BOOLEAN,                \* nobody wrote the object since
    seen    : SUBSET Users,           \* members GitHub reported
    desired : SUBSET Users,           \* members the provider reported
    ops     : Seq(Operation(Users)),  \* newStatus.Operations
    failed  : BOOLEAN ]               \* an operation failed in this run

NoMeta == [ addUser |-> TRUE, removeUser |-> TRUE, dryRun |-> "unset",
            force |-> FALSE, ttl |-> {}, spec |-> "managed" ]

Rest == [ pc |-> "idle", snap |-> EmptyStatus, meta |-> NoMeta,
          current |-> FALSE, seen |-> {}, desired |-> {}, ops |-> <<>>,
          failed |-> FALSE ]

TypeOK ==
  /\ status \in Status
  /\ meta \in Meta
  /\ cache \in [status : Status, meta : Meta]
  /\ fresh \in BOOLEAN
  /\ configured \in BOOLEAN
  /\ desired \in SUBSET Users
  /\ ghTeam \in BOOLEAN
  /\ ghMembers \in SUBSET Users
  /\ limitOver \in BOOLEAN
  /\ w \in Worker
  /\ faults \in Nat
  /\ edits \in Nat

Listings == {S \in SUBSET Users : Core \subseteq S /\ S \cap Strangers = {}}

Init ==
  /\ status = EmptyStatus
  /\ meta \in Metas
  /\ cache = [status |-> status, meta |-> meta]
  /\ fresh = TRUE
  /\ configured = TRUE
  /\ desired \in Listings
  /\ ghTeam \in BOOLEAN
  /\ ghMembers \in IF ghTeam THEN SUBSET (Users \ Ghosts) ELSE {{}}
  /\ limitOver = FALSE
  /\ w = Rest
  /\ faults = MaxFaults
  /\ edits = MaxEdits

-----------------------------------------------------------------------------
(* Helpers                                                                 *)

Fault(kind) == kind \in FaultKinds /\ faults > 0 /\ faults' = faults - 1
Edit(kind)  == kind \in EditKinds /\ edits > 0 /\ edits' = edits - 1

\* A status write that goes through.
Save(st) == status' = st /\ fresh' = FALSE /\ UNCHANGED <<meta, cache>>

\* A write of the re-read object: it needs an up-to-date cache.
SaveLatest(st) == fresh /\ Save(st)

\* A write of the object read at the start: a conflict ends the reconcile.
SaveOwn(st) == IF w.current THEN Save(st) ELSE UNCHANGED object

Outside  == <<configured, desired, github, limitOver, budgets>>
Stop     == w' = Rest
Goto(pc) == w' = [w EXCEPT !.pc = pc]

\* Mutant: the state of an operation ends up as the state of the team.
StatusOfOperation(ops) ==
  IF PendingOperationsFound(ops) THEN "pending"
  ELSE IF FailedOperationsFound(ops) THEN "failed"
  ELSE IF InState(ops, "skipped") # {} THEN "skipped" ELSE "complete"

StatusFromOperations(ops) ==
  IF PendingOperationsFound(ops) THEN "pending"
  ELSE IF FailedOperationsFound(ops) THEN "failed" ELSE "complete"

Recomputed(st) ==
  [st EXCEPT !.teamStatus = StatusFromOperations(st.operations)]

Failed(st) == [st EXCEPT !.teamStatus = "failed", !.error = "other"]

DryRun(m) == m.dryRun = "true"

\* The object carries at least one of the labels the model knows.
Labelled(m) == \/ m.dryRun # "unset" \/ m.force \/ m.ttl # {}
               \/ ~m.addUser \/ ~m.removeUser

-----------------------------------------------------------------------------
(* Start of a reconcile                                                    *)

Begin ==
  /\ w.pc = "idle"
  /\ fresh \/ StaleReads
  /\ w' = [Rest EXCEPT !.pc = "begun", !.snap = cache.status,
                       !.meta = cache.meta, !.current = fresh]
  /\ UNCHANGED <<object, Outside>>

\* The forceReconcile label: the status is wiped, then the label removed.
WipeStatus ==
  /\ w.pc = "begun" /\ w.meta.force
  /\ SaveLatest(EmptyStatus)
  /\ Goto("wiped")
  /\ UNCHANGED Outside

RemoveForceLabel ==
  /\ w.pc = "wiped" /\ fresh
  /\ meta' = [meta EXCEPT !.force = FALSE]
  /\ fresh' = FALSE
  /\ Stop
  /\ UNCHANGED <<status, cache, Outside>>

RateLimited(st) == st.teamStatus = "ratelimited" /\ st.error \in RateLimitErrors

\* Mutant: each parse computes the reset time anew, as an offset from now.
ResetRearmed(st) == st.error \notin RateLimitErrors /\ limitOver

ResetPassed(st) == st.error = "until" /\ limitOver

WaitForReset ==
  /\ w.pc = "begun" /\ ~w.meta.force
  /\ RateLimited(w.snap) /\ ~ResetPassed(w.snap)
  /\ Stop
  /\ UNCHANGED <<object, Outside>>

LeaveRateLimit ==
  /\ w.pc = "begun" /\ ~w.meta.force
  /\ RateLimited(w.snap) /\ ResetPassed(w.snap)
  /\ LET st == Recomputed([w.snap EXCEPT !.error = "none"])
     IN /\ SaveOwn(st)
        /\ IF w.current THEN w' = [w EXCEPT !.snap = st] ELSE Stop
  /\ UNCHANGED Outside

\* Mutant: the reset time is only looked at to clear the status.
AdmittedEarly == w.pc = "begun" /\ ~w.meta.force

Admitted == w.pc = "begun" /\ ~w.meta.force /\ ~RateLimited(w.snap)

Expirable(ops, ttl) == {i \in DOMAIN ops : ops[i].state \in ttl}

\* What the cleanup leaves once the operations at `expired' are dropped;
\* the team's error goes with its last failed operation.
Cleaned(st, ttl, expired) ==
  LET ops   == WithoutPositions(st.operations, expired)
      clear == /\ "failed" \in ttl
               /\ FailedOperationsFound(st.operations)
               /\ ~FailedOperationsFound(ops)
  IN Recomputed([st EXCEPT !.operations = ops,
                           !.error = IF clear THEN "none" ELSE @])

\* Each operation's own timestamp decides, so any of those with a TTL may
\* be the ones that have expired.
CleanExpired(expired) ==
  /\ Admitted
  /\ expired # {} /\ expired \subseteq Expirable(w.snap.operations, w.meta.ttl)
  /\ SaveOwn(Cleaned(w.snap, w.meta.ttl, expired))
  /\ Stop
  /\ UNCHANGED Outside

\* The object read at the start is written back with the error.
FailSpec ==
  /\ Admitted /\ w.meta.spec = "invalid"
  /\ SaveOwn(Failed(w.snap))
  /\ Stop
  /\ UNCHANGED Outside

FailConfiguration ==
  /\ Admitted /\ ~configured
  /\ SaveLatest(Failed(status))
  /\ Stop
  /\ UNCHANGED Outside

Proceeding == Admitted /\ configured /\ w.meta.spec # "invalid"

-----------------------------------------------------------------------------
(* No operations pending: observe, resolve, plan                           *)

Checking == Proceeding /\ w.snap.teamStatus # "pending"

\* Listing or creating the team, or listing its members, is rate-limited.
RateLimitHit ==
  /\ Checking
  /\ Fault("limit")
  /\ \E e \in LimitErrors :
       SaveOwn([w.snap EXCEPT !.teamStatus = "ratelimited", !.error = e])
  /\ limitOver' = FALSE
  /\ Stop
  /\ UNCHANGED <<configured, desired, github, edits>>

CreateTeam ==
  /\ Checking /\ ~ghTeam
  /\ ghTeam' = TRUE
  /\ Stop
  /\ UNCHANGED <<object, configured, desired, ghMembers, limitOver, budgets>>

ObserveMembers ==
  /\ Checking /\ ghTeam
  /\ w' = [w EXCEPT !.pc = "observed", !.seen = ghMembers, !.current = FALSE]
  /\ UNCHANGED <<object, Outside>>

\* The status gets the members GitHub reported; the copy of the object the
\* worker goes on with keeps the old ones.
RecordMembers ==
  /\ w.pc = "observed"
  /\ IF w.snap.members = w.seen
     THEN UNCHANGED object
     ELSE SaveLatest([status EXCEPT !.members = w.seen])
  /\ Goto("synced")
  /\ UNCHANGED Outside

\* A team without provider is complete once its members were observed.
FinishUnmanaged ==
  /\ w.pc = "synced" /\ w.meta.spec = "unmanaged"
  /\ IF /\ w.snap.teamStatus = "complete" /\ w.snap.error = "none"
        /\ ~PendingOperationsFound(w.snap.operations)
     THEN UNCHANGED object
     ELSE SaveLatest([ teamStatus |-> "complete", error |-> "none",
                       operations |-> WithoutPending(status.operations),
                       members    |-> w.seen ])
  /\ Stop
  /\ UNCHANGED Outside

ResolveMembers ==
  /\ w.pc = "synced" /\ w.meta.spec = "managed"
  /\ w' = [w EXCEPT !.pc = "resolved", !.desired = desired]
  /\ UNCHANGED <<object, Outside>>

\* Mutant: an error of the provider is taken for an empty listing.
ResolveNobody ==
  /\ w.pc = "synced" /\ w.meta.spec = "managed"
  /\ Fault("provider")
  /\ w' = [w EXCEPT !.pc = "resolved", !.desired = {}]
  /\ UNCHANGED <<object, configured, desired, github, limitOver, edits>>

\* The provider or its resource is missing, or it answers with an error.
ResolveFails ==
  /\ w.pc = "synced" /\ w.meta.spec = "managed"
  /\ Fault("provider")
  /\ SaveLatest(Failed(status))
  /\ Stop
  /\ UNCHANGED <<configured, desired, github, limitOver, edits>>

\* Dry run, pending operations: they are marked complete unexecuted.
Rehearse ==
  /\ w.pc = "resolved" /\ DryRun(w.meta)
  /\ PendingOperationsFound(w.snap.operations)
  /\ SaveLatest([status EXCEPT !.operations = CompletePending(@),
                               !.teamStatus = "dry-run",
                               !.members = w.desired])
  /\ Stop
  /\ UNCHANGED Outside

MembersCountDiffers ==
  Cardinality(w.snap.members) # Cardinality(w.desired)

RehearseMembers ==
  /\ w.pc = "resolved" /\ DryRun(w.meta)
  /\ ~PendingOperationsFound(w.snap.operations) /\ MembersCountDiffers
  /\ SaveLatest([status EXCEPT !.members = w.desired,
                               !.teamStatus = "dry-run"])
  /\ Stop
  /\ UNCHANGED Outside

Planning ==
  /\ w.pc = "resolved"
  /\ ~ /\ DryRun(w.meta)
       /\ PendingOperationsFound(w.snap.operations) \/ MembersCountDiffers

NotFoundLast(ops, u) ==
  \E i \in DOMAIN ops : /\ ops[i].user = u /\ ops[i].state = "notfound"
                        /\ \A j \in DOMAIN ops : j > i => ops[j].user # u

Additions(st, wanted) ==
  {u \in wanted \ st.members : /\ ~NotFoundLast(st.operations, u)
                               /\ ~OperationExists(st.operations, "add", u)}

\* Mutant: the difference is taken the wrong way round.
RemovalsSwapped(st, wanted) ==
  {u \in wanted \ st.members : ~OperationExists(st.operations, "remove", u)}

Removals(st, wanted) ==
  {u \in st.members \ wanted : ~OperationExists(st.operations, "remove", u)}

\* The members shown with a plan; m are the labels at the time of writing.
PlannedMembers(m, shown, wanted) ==
  IF ~m.removeUser THEN wanted \cup shown
  ELSE IF ~m.addUser THEN wanted \cap shown ELSE wanted

\* ChangeCalculator finds a difference.
PlanOperations ==
  /\ Planning
  /\ Additions(w.snap, w.desired) \cup Removals(w.snap, w.desired) # {}
  /\ \E adds \in Orders(Additions(w.snap, w.desired)),
        removes \in Orders(Removals(w.snap, w.desired)) :
       SaveLatest([ teamStatus |-> "pending", error |-> "none",
                    operations |-> w.snap.operations \o Queue("add", adds)
                                     \o Queue("remove", removes),
                    members    |-> PlannedMembers(meta, w.snap.members,
                                                  w.desired) ])
  /\ Stop
  /\ UNCHANGED Outside

\* Mutant: only a new team becomes complete.
SettledNew(st) == st.teamStatus = "" /\ st.operations = <<>>

Settled(st) ==
  /\ st.teamStatus \in {"", "failed"}
  /\ ~PendingOperationsFound(st.operations)
  /\ ~FailedOperationsFound(st.operations)

\* ChangeCalculator finds none: a new or failed team becomes complete, if
\* the re-read object agrees; the worker goes on with the re-read object.
NothingToPlan ==
  /\ Planning
  /\ Additions(w.snap, w.desired) \cup Removals(w.snap, w.desired) = {}
  /\ IF w.snap.teamStatus \notin {"", "failed"}
     THEN UNCHANGED object /\ Goto("switch")
     ELSE IF Settled(cache.status)
     THEN LET st == [status EXCEPT !.teamStatus = "complete",
                                   !.error = "none"]
          IN SaveLatest(st) /\ w' = [w EXCEPT !.pc = "switch", !.snap = st]
     ELSE /\ UNCHANGED object
          /\ w' = [w EXCEPT !.pc = "switch", !.snap = cache.status]
  /\ UNCHANGED Outside

-----------------------------------------------------------------------------
(* Dry-run switch, then the pending operations                             *)

Deciding ==
  \/ w.pc = "switch"
  \/ Proceeding /\ w.snap.teamStatus = "pending"

EnterDryRun ==
  /\ Deciding /\ DryRun(w.meta) /\ w.snap.teamStatus # "dry-run"
  /\ SaveLatest([status EXCEPT !.teamStatus = "dry-run"])
  /\ Stop
  /\ UNCHANGED Outside

LeaveDryRun ==
  /\ Deciding /\ ~DryRun(w.meta) /\ Labelled(w.meta)
  /\ w.snap.teamStatus = "dry-run"
  /\ SaveLatest(Recomputed(status))
  /\ Stop
  /\ UNCHANGED Outside

NothingToDo ==
  /\ Deciding
  /\ IF w.snap.teamStatus = "dry-run"
     THEN DryRun(w.meta) \/ ~Labelled(w.meta)
     ELSE w.snap.teamStatus # "pending" /\ ~DryRun(w.meta)
  /\ Stop
  /\ UNCHANGED <<object, Outside>>

\* Mutant: the switch to dry run does not end the reconcile.
ExecutingAnyway == Deciding /\ w.snap.teamStatus = "pending"

Executing ==
  Deciding /\ ~DryRun(w.meta) /\ w.snap.teamStatus = "pending"

\* Mutant: the operations are dropped, the status stays.
DropOperations ==
  /\ Executing /\ w.meta.spec = "unmanaged"
  /\ SaveLatest([status EXCEPT !.operations = WithoutPending(@)])
  /\ Stop
  /\ UNCHANGED Outside

DropUnmanaged ==
  /\ Executing /\ w.meta.spec = "unmanaged"
  /\ SaveLatest([status EXCEPT !.teamStatus = "complete", !.error = "none",
                               !.operations = WithoutPending(@)])
  /\ Stop
  /\ UNCHANGED Outside

StartExecution ==
  /\ Executing /\ w.meta.spec = "managed"
  /\ w' = IF PendingOperationsFound(w.snap.operations)
          THEN [w EXCEPT !.pc = "execute", !.ops = w.snap.operations,
                         !.current = FALSE]
          ELSE Rest
  /\ UNCHANGED <<object, Outside>>

\* Mutant: the loop also takes up operations that have failed before.
IsNextOrFailed(i) ==
  /\ w.pc = "execute"
  /\ i \in InState(w.ops, "pending") \cup InState(w.ops, "failed")
  /\ \A j \in InState(w.ops, "pending") : i <= j

\* The operation the loop has reached: the first that is still pending.
IsNext(i) ==
  /\ w.pc = "execute"
  /\ i \in InState(w.ops, "pending")
  /\ \A j \in InState(w.ops, "pending") : i <= j

Finish(i, state) ==
  w' = [w EXCEPT !.ops[i].state = state, !.failed = @ \/ state = "failed"]

Allowed(type, m) == IF type = "add" THEN m.addUser ELSE m.removeUser

SkipOperation(i) ==
  /\ IsNext(i) /\ ~Allowed(w.ops[i].operation, w.meta)
  /\ Finish(i, "skipped")
  /\ UNCHANGED <<object, Outside>>

\* GitHub answers 404 for a login it does not know and for a missing team.
AddUser(i) ==
  /\ IsNext(i) /\ w.ops[i].operation = "add" /\ Allowed("add", w.meta)
  /\ IF ghTeam /\ w.ops[i].user \notin Ghosts
     THEN /\ ghMembers' = ghMembers \cup {w.ops[i].user}
          /\ Finish(i, "complete")
     ELSE UNCHANGED ghMembers /\ Finish(i, "notfound")
  /\ UNCHANGED <<object, configured, desired, ghTeam, limitOver, budgets>>

\* Removing a user who is not a member, or from a missing team, answers
\* 404, which counts as success.
RemoveUser(i) ==
  /\ IsNext(i) /\ w.ops[i].operation = "remove" /\ Allowed("remove", w.meta)
  /\ ghMembers' = ghMembers \ {w.ops[i].user}
  /\ Finish(i, "complete")
  /\ UNCHANGED <<object, configured, desired, ghTeam, limitOver, budgets>>

\* The call fails, before or after it took effect.  An addition without an
\* HTTP response, or answered 404 or 422, is recorded as notfound.
OperationFails(i) ==
  /\ IsNext(i) /\ Allowed(w.ops[i].operation, w.meta)
  /\ Fault("github")
  /\ IF w.ops[i].operation = "add"
     THEN /\ ghMembers' \in {ghMembers} \cup
               IF ghTeam THEN {ghMembers \cup ({w.ops[i].user} \ Ghosts)}
               ELSE {}
          /\ \E s \in {"failed", "notfound"} : Finish(i, s)
     ELSE /\ ghMembers' \in {ghMembers, ghMembers \ {w.ops[i].user}}
          /\ Finish(i, "failed")
  /\ UNCHANGED <<object, configured, desired, ghTeam, limitOver, edits>>

Executed == w.pc = "execute" /\ ~PendingOperationsFound(w.ops)

ReadBack ==
  /\ Executed /\ ghTeam
  /\ w' = [w EXCEPT !.pc = "report", !.seen = ghMembers]
  /\ UNCHANGED <<object, Outside>>

\* The members of a missing team cannot be listed: the reconcile returns
\* the error and the outcome of the operations is lost.
ReadBackFails ==
  /\ Executed /\ ~ghTeam
  /\ Stop
  /\ UNCHANGED <<object, Outside>>

Report ==
  /\ w.pc = "report"
  /\ SaveLatest([w.snap EXCEPT
       !.operations = w.ops,
       !.members    = w.seen,
       !.teamStatus = IF w.failed THEN "failed"
                      ELSE IF DryRun(w.meta) THEN "dry-run" ELSE "complete"])
  /\ Stop
  /\ UNCHANGED Outside

\* The process restarts, or a call returns an error that ends the reconcile
\* without a status write: all local state is lost.
Abandon ==
  /\ w.pc # "idle"
  /\ Fault("abort")
  /\ Stop
  /\ UNCHANGED <<object, configured, desired, github, limitOver, edits>>

-----------------------------------------------------------------------------
(* The environment                                                         *)

CacheSync ==
  /\ ~fresh
  /\ cache' = [status |-> status, meta |-> meta]
  /\ fresh' = TRUE
  /\ UNCHANGED <<status, meta, w, Outside>>

\* A user edits the labels or the spec of the object.
EditMeta(m) ==
  /\ Edit("meta") /\ m # meta
  /\ meta' = m
  /\ fresh' = FALSE
  /\ w' = [w EXCEPT !.current = FALSE]
  /\ UNCHANGED <<status, cache, configured, desired, github, limitOver, faults>>

ChangeDesired(S) ==
  /\ Edit("desired") /\ S # desired
  /\ desired' = S
  /\ UNCHANGED <<object, configured, github, limitOver, w, faults>>

\* Somebody else adds or removes a member on GitHub.
ChangeMember(u) ==
  /\ Edit("members") /\ ghTeam
  /\ ghMembers' = IF u \in ghMembers THEN ghMembers \ {u}
                  ELSE ghMembers \cup {u}
  /\ UNCHANGED <<object, configured, desired, ghTeam, limitOver, w, faults>>

DeleteTeam ==
  /\ Fault("team") /\ ghTeam
  /\ ghTeam' = FALSE /\ ghMembers' = {}
  /\ UNCHANGED <<object, configured, desired, limitOver, w, edits>>

LoseConfiguration ==
  /\ configured /\ Fault("config")
  /\ configured' = FALSE
  /\ UNCHANGED <<object, desired, github, limitOver, w, edits>>

RestoreConfiguration ==
  /\ ~configured /\ configured' = TRUE
  /\ UNCHANGED <<object, desired, github, limitOver, w, budgets>>

PassReset ==
  /\ ~limitOver /\ status.teamStatus = "ratelimited"
  /\ limitOver' = TRUE
  /\ UNCHANGED <<object, configured, desired, github, w, budgets>>

-----------------------------------------------------------------------------

Execution ==
  \/ \E i \in DOMAIN w.ops : \/ SkipOperation(i) \/ AddUser(i)
                             \/ RemoveUser(i)
  \/ ReadBack \/ ReadBackFails \/ Report

\* The worker's steps that need nothing to go wrong.
WorkerStep ==
  \/ Begin \/ WipeStatus \/ RemoveForceLabel \/ WaitForReset \/ LeaveRateLimit
  \/ \E expired \in SUBSET DOMAIN w.snap.operations : CleanExpired(expired)
  \/ FailSpec \/ FailConfiguration \/ CreateTeam \/ ObserveMembers \/ RecordMembers
  \/ FinishUnmanaged \/ ResolveMembers \/ Rehearse \/ RehearseMembers
  \/ PlanOperations \/ NothingToPlan \/ EnterDryRun \/ LeaveDryRun
  \/ NothingToDo \/ DropUnmanaged \/ StartExecution \/ Execution

WorkerFault ==
  \/ RateLimitHit \/ ResolveFails \/ Abandon
  \/ \E i \in DOMAIN w.ops : OperationFails(i)

Environment ==
  \/ CacheSync \/ DeleteTeam \/ LoseConfiguration \/ RestoreConfiguration
  \/ PassReset
  \/ \E m \in Metas : EditMeta(m)
  \/ \E S \in Listings : ChangeDesired(S)
  \/ \E u \in Users \ Ghosts : ChangeMember(u)

Next == WorkerStep \/ WorkerFault \/ Environment

Spec == Init /\ [][Next]_vars

-----------------------------------------------------------------------------
(* Safety                                                                  *)

\* A status is sound when the three statements below hold of it.

\* Pending work exists whenever the team is pending: a pending team is only
\* ever executed, never compared with GitHub again, so one without pending
\* operations would be stuck.
HasWorkIfPending(st) ==
  st.teamStatus = "pending" => PendingOperationsFound(st.operations)

\* Nobody is queued for removal whom every listing contains, nor for
\* addition whom no listing contains.
Justified(ops) ==
  \A i \in DOMAIN ops :
    ops[i].user \notin IF ops[i].operation = "add" THEN Strangers ELSE Core

(***************************************************************************)
(* A team whose status is "pending" has a pending operation, through TTL   *)
(* cleanups, dry-run switches, stale reads, restarts and edits.  Without   *)
(* one the execution loop changes nothing and the team never syncs again.  *)
(***************************************************************************)
PendingHasWork == HasWorkIfPending(status)

(***************************************************************************)
(* The change calculator never queues an operation while one of the same   *)
(* type for the same user is pending, done, skipped or answered notfound,  *)
(* whatever the order of planning, execution, cleanup and retries.         *)
(***************************************************************************)
OneLiveOperation == OneLive(status.operations)

(***************************************************************************)
(* Provider failures, stale member lists and restarts never make the team  *)
(* plan the removal of a user every listing contains, or the addition of   *)
(* one no listing contains.                                                *)
(***************************************************************************)
JustifiedOperations == Justified(status.operations)

\* A step of the worker, as opposed to one of its environment.
ByWorker == w'.pc # w.pc \/ w'.ops # w.ops

(***************************************************************************)
(* GitHub keeps every member all listings contain, and gets none that no   *)
(* listing contains, from the worker's steps: the user-visible side of     *)
(* JustifiedOperations, over planning, execution and read-back.            *)
(***************************************************************************)
ProtectedMembers ==
  [][ByWorker => /\ ghMembers \cap Core \subseteq ghMembers'
                 /\ ghMembers' \cap Strangers \subseteq ghMembers]_vars

(***************************************************************************)
(* A reconcile that read the dryRun label never changes a membership, even *)
(* when it finds operations that were pending before the label was set.    *)
(***************************************************************************)
DryRunKeepsMembers ==
  [][DryRun(w.meta) /\ ByWorker => UNCHANGED ghMembers]_vars

\* How the memberships and the status look to AnnouncedChanges.
Membership == [u \in Users |-> IF u \in ghMembers THEN "present" ELSE "absent"]

Change(op) == [ subject |-> op.user,
                value   |-> IF op.operation = "add" THEN "present" ELSE "absent" ]

Outstanding ==
  {Change(status.operations[i]) : i \in InState(status.operations, "pending")}

Announced == INSTANCE AnnouncedChanges
  WITH Subjects <- Users, Nothing <- "absent", outstanding <- Outstanding,
       world <- Membership, outside <- <<edits, ghTeam>>

(***************************************************************************)
(* Write-ahead: a membership changes only while the object's own status    *)
(* still holds the pending operation that says so, so a restart between    *)
(* the call and the report repeats it and never loses it: the reconciler   *)
(* implements AnnouncedChanges.  Holds when a reconcile starts from an     *)
(* up-to-date cache.                                                       *)
(***************************************************************************)
WriteAhead == Announced!Spec

(***************************************************************************)
(* Between a rate-limit answer and the reset time it carried, no reconcile *)
(* creates a team or changes a membership.  Holds when a reconcile starts  *)
(* from an up-to-date cache.                                               *)
(***************************************************************************)
QuietWhileRateLimited ==
  [][RateLimited(status) /\ ~ResetPassed(status) /\ ByWorker
     => UNCHANGED github]_vars

-----------------------------------------------------------------------------
(* Liveness                                                                *)

\* A cleanup that finds an operation on user u expired.
CleansUp(u) ==
  \E expired \in SUBSET DOMAIN w.snap.operations :
    (\E i \in expired : w.snap.operations[i].user = u) /\ CleanExpired(expired)

(***************************************************************************)
(* The worker keeps running because every object is reconciled again at    *)
(* the resync period at the latest; the informer catches up; a reset time  *)
(* passes; while operations on a user stay in the status, one of them      *)
(* outlives its TTL, and the reconciles that go on find it expired.        *)
(* Users, providers and faults are under no obligation, except that a lost *)
(* configuration is restored.                                              *)
(***************************************************************************)
Fairness ==
  /\ WF_vars(CacheSync)
  /\ WF_vars(PassReset)
  /\ WF_vars(RestoreConfiguration)
  /\ WF_vars(WorkerStep)
  /\ \A u \in Users : SF_vars(CleansUp(u))

FairSpec == Spec /\ Fairness

(***************************************************************************)
(* Once faults and edits stop, GitHub ends up with exactly the members the *)
(* provider lists, and the status says complete: with the four TTL labels  *)
(* set, additions and removals allowed and no dry run.                     *)
(***************************************************************************)
Converges ==
  <>[](ghTeam /\ ghMembers = desired \ Ghosts /\ status.teamStatus = "complete")

(***************************************************************************)
(* A rate-limited team does not stay rate-limited: docs/guide/architecture *)
(* promises requeueing at the reset time and converging as soon as         *)
(* possible.                                                               *)
(***************************************************************************)
RateLimitLifted ==
  status.teamStatus = "ratelimited" ~> status.teamStatus # "ratelimited"

(***************************************************************************)
(* "Ensure team exists + membership set" (docs/guide/architecture.md:96),  *)
(* the membership half.  The code breaks it; see the README.               *)
(***************************************************************************)
MembershipEnsured == <>[](ghMembers = desired)

=============================================================================
