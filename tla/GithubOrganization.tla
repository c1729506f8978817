------------------------- MODULE GithubOrganization -------------------------
(***************************************************************************)
(* The reconciler of one GithubOrganization: it compares the owners, the   *)
(* teams, the teams of the repositories, the members and the direct        *)
(* collaborators GitHub reports with what the resources ask for, writes    *)
(* the first difference found into the status as pending operations, and   *)
(* executes those, scope by scope, in a later reconcile.                   *)
(*                                                                         *)
(* One worker runs at a time for one object; its steps, each at most one   *)
(* call to the API server or to GitHub, interleave with users editing the  *)
(* object, with the GithubTeam resources it reads and with GitHub.  Every  *)
(* status write goes through safeStatusUpdate, which re-reads the object   *)
(* from the informer cache and overwrites its whole status: it goes        *)
(* through once the cache has caught up, whatever the status is then.      *)
(***************************************************************************)
EXTENDS RepositoryPolicy

CONSTANTS
  Users,        \* GitHub logins
  Teams,        \* team slugs
  Repos,        \* repositories
  OwnerTeams,   \* spec.organizationOwnerTeams
  Visibility,   \* the visibility of each repository
  Anonymous,    \* users without a GreenhouseID
  Locked,       \* repositories that cannot be modified
  Metas,        \* the labels, annotations and specs a user may give
  Githubs,      \* the states GitHub may be in or be changed to
  Resources,    \* the states of the resources the reconciler reads
  FaultKinds,   \* what may go wrong: see Fault
  EditKinds,    \* what may change from outside: see Edit
  LimitErrors,  \* the rate-limit errors GitHub may answer with
  StaleReads,   \* TRUE: a reconcile may start from a cache that lags
  MaxFaults,    \* bound on the number of faults
  MaxEdits      \* bound on the number of outside changes

\* "labelled": the object has labels at all.  The removal of members and of
\* collaborators has a label for removing only.
Meta ==
  [ labelled  : BOOLEAN,
    label     : [Scopes -> [OperationTypes ->
                  {"true", "false", "dryRun", "unset"}]],
    dryRun    : BOOLEAN,
    force     : BOOLEAN,
    clean     : {"complete", "failed", "unset"},
    ttl       : SUBSET {"complete", "failed"},
    protected : SUBSET Users,
    valid     : BOOLEAN,     \* spec.github and spec.organization are given
    defaults  : [Visibilities -> Seq([team : Teams, permission : Permissions])],
    skip      : SUBSET Repos ]

\* "owners" and "members" are those of the organization; an owner may be
\* no member yet, while the invitation is pending.
Github ==
  [ owners        : SUBSET Users,
    members       : SUBSET Users,
    teams         : SUBSET Teams,
    teamMembers   : [Teams -> SUBSET Users],
    roles         : [Repos -> [Teams -> Permissions \cup {None}]],
    collaborators : [Repos -> SUBSET Users] ]

\* "ready" owner teams are complete or in dry run; "waiting" ones are
\* missing, pending, rate-limited or new.
Resource ==
  [ github     : {"ready", "absent", "unregistered"},
    state      : [OwnerTeams -> {"ready", "waiting", "failed"}],
    members    : [OwnerTeams -> SUBSET Users],
    teams      : SUBSET Teams,
    exceptions : Seq([repo : Repos, team : Teams, permission : Permissions]) ]

AllFaults == {"abort", "github", "limit", "lost", "operation"}
AllEdits  == {"github", "meta", "resource"}

RateLimitErrors == {"until", "floating"}

ASSUME SetsAssumption == /\ IsFiniteSet(Users) /\ IsFiniteSet(Teams)
                         /\ IsFiniteSet(Repos)
                         /\ OwnerTeams \subseteq Teams
                         /\ Anonymous \subseteq Users /\ Locked \subseteq Repos
                         /\ Visibility \in [Repos -> Visibilities]
ASSUME InputsAssumption == /\ Metas \subseteq Meta
                           /\ Githubs \subseteq Github
                           /\ Resources \subseteq Resource
                           /\ LimitErrors \subseteq RateLimitErrors
ASSUME BoundsAssumption == MaxFaults \in Nat /\ MaxEdits \in Nat

Names  == Users \cup Teams
States == {"", "pending", "failed", "complete", "dry-run", "ratelimited"}
Errors == {"none", "other"} \cup RateLimitErrors

Op == [ operation  : OperationTypes,
        repo       : Repos \cup {None},
        name       : Names,
        permission : Permissions \cup {None},
        state      : {"pending", "complete", "skipped", "failed"},
        locked     : BOOLEAN ]

Status == [ state  : States,
            error  : Errors,
            ops    : [Scopes -> Seq(Op)],
            owners : SUBSET Users,
            teams  : SUBSET Teams ]

EmptyStatus == [ state |-> "", error |-> "none", ops |-> NoOperations,
                 owners |-> {}, teams |-> {} ]

VARIABLES
  status, meta,    \* the object at the API server: status; labels and spec
  cache, fresh,    \* the informer's copy, and whether it is the latest
  k8s,             \* the other resources the reconciler reads
  gh,              \* the organization on GitHub
  limitOver,       \* the reset time of the stored rate-limit error passed
  w,               \* the worker: see Worker
  faults, edits    \* faults and outside changes that may still happen

object  == <<status, meta, cache, fresh>>
budgets == <<faults, edits>>
vars    == <<object, k8s, gh, limitOver, w, budgets>>

Steps == { "idle", "begun", "wiped", "teams", "repos", "listed", "record",
           "planTeams", "planRepos", "revive", "members", "union",
           "collaborators", "direct", "settle", "switch",
           "execute", "report" }

Worker ==
  [ pc       : Steps,
    snap     : Status,           \* the status as read, or written since
    meta     : Meta,             \* the labels and spec as read
    current  : BOOLEAN,          \* nobody wrote the object since
    owners   : SUBSET Users,     \* ownerList
    teams    : SUBSET Teams,     \* teamsList
    roles    : [Repos -> [Teams -> Permissions \cup {None}]],
    members  : SUBSET Users,     \* orgMembers
    union    : SUBSET Users,     \* teamMembersUnion
    lists    : Nat,              \* teamObservationsCount
    left     : SUBSET (Teams \cup Repos),  \* still to be listed
    direct   : SUBSET (Repos \X Users),    \* repoCollaborators
    ops      : [Scopes -> Seq(Op)],        \* newStatus.Operations
    scope    : Scopes,           \* the scope being executed
    failed   : BOOLEAN,
    changed  : BOOLEAN ]

NoRoles == [r \in Repos |-> [t \in Teams |-> None]]

NoMeta ==
  [ labelled |-> FALSE,
    label |-> [s \in Scopes |-> [t \in OperationTypes |-> "unset"]],
    dryRun |-> FALSE, force |-> FALSE, clean |-> "unset", ttl |-> {},
    protected |-> {}, valid |-> TRUE,
    defaults |-> [v \in Visibilities |-> <<>>], skip |-> {} ]

Rest == [ pc |-> "idle", snap |-> EmptyStatus, meta |-> NoMeta,
          current |-> FALSE, owners |-> {}, teams |-> {}, roles |-> NoRoles,
          members |-> {}, union |-> {}, lists |-> 0, left |-> {},
          direct |-> {}, ops |-> NoOperations, scope |-> "owners",
          failed |-> FALSE, changed |-> FALSE ]

TypeOK ==
  /\ status \in Status
  /\ meta \in Meta
  /\ cache \in [status : Status, meta : Meta]
  /\ fresh \in BOOLEAN
  /\ k8s \in Resource
  /\ gh \in Github
  /\ limitOver \in BOOLEAN
  /\ w \in Worker
  /\ faults \in Nat
  /\ edits \in Nat

Init ==
  /\ status = EmptyStatus
  /\ meta \in Metas
  /\ cache = [status |-> status, meta |-> meta]
  /\ fresh = TRUE
  /\ k8s \in Resources
  /\ gh \in Githubs
  /\ limitOver = FALSE
  /\ w = Rest
  /\ faults = MaxFaults
  /\ edits = MaxEdits

-----------------------------------------------------------------------------
(* Helpers                                                                 *)

Fault(kind) == kind \in FaultKinds /\ faults > 0 /\ faults' = faults - 1
Edit(kind)  == kind \in EditKinds /\ edits > 0 /\ edits' = edits - 1

\* safeStatusUpdate of a status that fits: Get and Status().Update in
\* RetryOnConflict.
SafeStatusUpdate(st) ==
  fresh /\ status' = st /\ fresh' = FALSE /\ UNCHANGED <<meta, cache>>

Outside  == <<k8s, gh, limitOver, budgets>>
Stop     == w' = Rest
Goto(pc) == w' = [w EXCEPT !.pc = pc]

Recomputed(st) == [st EXCEPT !.state = StateFromOperations(st.ops)]

Failed(st) == [st EXCEPT !.state = "failed", !.error = "other"]

\* A status write that ends the reconcile.
Finish(st) == SafeStatusUpdate(st) /\ Stop

\* Mutant: what is planned is executed without having been written.
PlanAtOnce(scope, new, next) ==
  /\ IF new = <<>> THEN Goto(next)
     ELSE w' = [w EXCEPT !.pc = "execute",
                         !.ops = [w.snap.ops EXCEPT ![scope] = @ \o new]]
  /\ UNCHANGED object

\* The operations `new' of a scope are planned, which ends the reconcile;
\* when there are none the reconcile goes on at `next'.
Plan(scope, new, next) ==
  IF new = <<>> THEN Goto(next) /\ UNCHANGED object
  ELSE Finish([w.snap EXCEPT !.state = "pending", !.error = "none",
                             !.ops[scope] = @ \o new])

\* A call to GitHub hits the rate limit: `st' is written as rate-limited.
HoldFor(st) ==
  /\ Fault("limit")
  /\ \E e \in LimitErrors :
       Finish([st EXCEPT !.state = "ratelimited", !.error = e])
  /\ limitOver' = FALSE
  /\ UNCHANGED <<k8s, gh, edits>>


-----------------------------------------------------------------------------
(* Start of a reconcile                                                    *)

Begin ==
  /\ w.pc = "idle"
  /\ fresh \/ StaleReads
  /\ w' = [Rest EXCEPT !.pc = "begun", !.snap = cache.status,
                       !.meta = cache.meta, !.current = fresh]
  /\ UNCHANGED <<object, Outside>>

\* The forceReconcile label: the status is wiped, then the label removed.
WipeStatus ==
  /\ w.pc = "begun" /\ w.meta.force
  /\ SafeStatusUpdate(EmptyStatus)
  /\ Goto("wiped")
  /\ UNCHANGED Outside

RemoveForceLabel ==
  /\ w.pc = "wiped" /\ fresh
  /\ meta' = [meta EXCEPT !.force = FALSE]
  /\ fresh' = FALSE
  /\ Stop
  /\ UNCHANGED <<status, cache, Outside>>

RateLimited(st) == st.state = "ratelimited" /\ st.error \in RateLimitErrors

\* Mutant: parsing the stored error starts the time anew.
ResetRearmed(st) == FALSE

ResetPassed(st) == st.error = "until" /\ limitOver

WaitForReset ==
  /\ w.pc = "begun" /\ ~w.meta.force
  /\ RateLimited(w.snap) /\ ~ResetPassed(w.snap)
  /\ Stop
  /\ UNCHANGED <<object, Outside>>

\* The reconcile goes on with the recomputed state.
LeaveRateLimit ==
  /\ w.pc = "begun" /\ ~w.meta.force
  /\ RateLimited(w.snap) /\ ResetPassed(w.snap)
  /\ LET st == Recomputed([w.snap EXCEPT !.error = "none"])
     IN  /\ SafeStatusUpdate(st)
         /\ w' = [w EXCEPT !.snap = st, !.current = FALSE]
  /\ UNCHANGED Outside

\* Mutant: the hold ends as soon as the object is reconciled again.
AdmittedAtOnce == w.pc = "begun" /\ ~w.meta.force

Admitted == w.pc = "begun" /\ ~w.meta.force /\ ~RateLimited(w.snap)

\* The positions of each scope whose operations have a TTL.
Expirable(lists, ttl) ==
  {p \in Scopes \X (1 .. Cardinality(UNION {DOMAIN lists[s] : s \in Scopes})) :
     p[2] \in DOMAIN lists[p[1]] /\ lists[p[1]][p[2]].state \in ttl}

\* What the cleanup leaves once the operations at `expired' are dropped;
\* the error goes with the last failed operation.
Cleaned(st, ttl, expired) ==
  LET ops   == Without(st.ops, [s \in Scopes |-> {p[2] : p \in {q \in expired : q[1] = s}}])
      clear == "failed" \in ttl /\ FailedFound(st.ops) /\ ~FailedFound(ops)
  IN  Recomputed([st EXCEPT !.ops = ops,
                            !.error = IF clear THEN "none" ELSE @])

\* Each operation's own timestamp decides, so any of those with a TTL may
\* be the ones that have expired.
CleanExpired(expired) ==
  /\ Admitted /\ w.meta.labelled
  /\ expired # {} /\ expired \subseteq Expirable(w.snap.ops, w.meta.ttl)
  /\ Finish(Cleaned(w.snap, w.meta.ttl, expired))
  /\ UNCHANGED Outside

CleansUp ==
  Admitted /\ \E expired \in SUBSET Expirable(w.snap.ops, w.meta.ttl) : CleanExpired(expired)

\* The spec lacks a name, or names a Github resource that does not exist.
FailConfiguration ==
  /\ Admitted /\ (~w.meta.valid \/ k8s.github = "absent")
  /\ Finish(Failed(w.snap))
  /\ UNCHANGED Outside

WaitForClient ==
  /\ Admitted /\ w.meta.valid /\ k8s.github = "unregistered"
  /\ Stop
  /\ UNCHANGED <<object, Outside>>

Proceeding == Admitted /\ w.meta.valid /\ k8s.github = "ready"

Checking == Proceeding /\ w.snap.state # "pending"

-----------------------------------------------------------------------------
(* No operations pending: observe                                          *)

ObserveOwners ==
  /\ Checking
  /\ w' = [w EXCEPT !.pc = "teams", !.owners = gh.owners]
  /\ UNCHANGED <<object, Outside>>

ObserveTeams ==
  /\ w.pc = "teams"
  /\ w' = [w EXCEPT !.pc = "repos", !.teams = gh.teams]
  /\ UNCHANGED <<object, Outside>>

ObserveRepositories ==
  /\ w.pc = "repos"
  /\ w' = [w EXCEPT !.pc = "listed",
                    !.roles = [r \in Repos |-> [t \in Teams |->
                                 Listed(gh.roles[r][t])]]]
  /\ UNCHANGED <<object, Outside>>

Observing == Checking \/ w.pc \in {"teams", "repos"}

ObservationFails ==
  /\ Observing
  /\ Fault("github")
  /\ Finish(Failed(w.snap))
  /\ UNCHANGED <<k8s, gh, limitOver, edits>>

ObservationLimited == Observing /\ HoldFor(w.snap)

Differs == w.snap.owners # w.owners \/ w.snap.teams # w.teams

\* New owner and team lists are written, with the rest of the status as the
\* cache has it, and nothing else is done.
ReadAgain ==
  /\ w.pc = "listed" /\ Differs
  /\ w' = [w EXCEPT !.pc = "record", !.snap = cache.status]
  /\ UNCHANGED <<object, Outside>>

RecordObserved ==
  /\ w.pc = "record"
  /\ Finish([w.snap EXCEPT !.owners = w.owners, !.teams = w.teams])
  /\ UNCHANGED Outside

-----------------------------------------------------------------------------
(* No operations pending: plan, one scope after the other                  *)

\* Both labels are "false".
SwitchedOff(m, scope) ==
  m.labelled /\ \A type \in OperationTypes : m.label[scope][type] = "false"

\* Mutant: owners are planned with the teams that happen to be ready.
OwnerTeamsAny(state) == TRUE

OwnerTeamsReady(state) == \A t \in OwnerTeams : state[t] = "ready"

\* Owners are collected by GreenhouseID: of those without one, one is kept.
OwnersOf(members) ==
  LET all == UNION {members[t] : t \in OwnerTeams}
  IN  IF all \cap Anonymous = {} THEN {all}
      ELSE {(all \ Anonymous) \cup {u} : u \in all \cap Anonymous}

PlanOwners ==
  /\ w.pc = "listed" /\ ~Differs
  /\ IF SwitchedOff(w.meta, "owners")
     THEN Goto("planTeams") /\ UNCHANGED object
     ELSE /\ OwnerTeamsReady(k8s.state)
          /\ \E wanted \in OwnersOf(k8s.members) :
               IF wanted = {} THEN Stop /\ UNCHANGED object
               ELSE \E new \in Differences(w.snap.ops.owners, w.snap.owners, wanted) :
                      Plan("owners", new, "planTeams")
  /\ UNCHANGED Outside

\* The first owner team that is not ready decides.
WaitForOwners ==
  /\ w.pc = "listed" /\ ~Differs /\ ~SwitchedOff(w.meta, "owners")
  /\ \E t \in OwnerTeams : k8s.state[t] = "waiting"
  /\ Stop
  /\ UNCHANGED <<object, Outside>>

FailOwners ==
  /\ w.pc = "listed" /\ ~Differs /\ ~SwitchedOff(w.meta, "owners")
  /\ \E t \in OwnerTeams : k8s.state[t] = "failed"
  /\ Finish(Failed(w.snap))
  /\ UNCHANGED Outside

\* A resource cannot be read from the API server.
LookupFails ==
  /\ \/ Admitted /\ w.meta.valid
     \/ w.pc = "listed" /\ ~Differs /\ ~SwitchedOff(w.meta, "owners")
     \/ w.pc = "planTeams" /\ ~SwitchedOff(w.meta, "teams")
  /\ Fault("abort")
  /\ Finish(Failed(w.snap))
  /\ UNCHANGED <<k8s, gh, limitOver, edits>>

PlanTeams ==
  /\ w.pc = "planTeams"
  /\ IF SwitchedOff(w.meta, "teams")
     THEN Goto("planRepos") /\ UNCHANGED object
     ELSE \E new \in Differences(w.snap.ops.teams, w.snap.teams, k8s.teams) :
            Plan("teams", new, "planRepos")
  /\ UNCHANGED Outside

Policy(m, exceptions) ==
  [defaults |-> m.defaults, skip |-> m.skip, exceptions |-> exceptions]

PlanRepos ==
  /\ w.pc = "planRepos"
  /\ IF SwitchedOff(w.meta, "repos")
     THEN Goto("revive") /\ UNCHANGED object
     ELSE Plan("repos",
               RepositoryChanges(w.snap.ops.repos, Visibility, w.roles,
                                 Policy(w.meta, k8s.exceptions)),
               "revive")
  /\ UNCHANGED Outside

Enabled(m, scope, type) == m.labelled /\ m.label[scope][type] = "true"

RevivableRepo(m, op) == ~op.locked /\ Enabled(m, "repos", op.operation)

\* Skipped operations on repositories whose label is "true" by now.
ReviveRepos ==
  /\ w.pc = "revive"
  /\ LET old == w.snap.ops.repos
         ops == Revived(old, {i \in DOMAIN old : RevivableRepo(w.meta, old[i])})
     IN  IF ops = old
         THEN Goto("members") /\ UNCHANGED object
         ELSE Finish([w.snap EXCEPT !.state = "pending", !.ops.repos = ops])
  /\ UNCHANGED Outside

Previewed(m, scope) ==
  m.labelled /\ m.label[scope]["remove"] \in {"true", "dryRun"}

ObserveOrgMembers ==
  /\ w.pc = "members"
  /\ w' = IF Previewed(w.meta, "members")
          THEN [w EXCEPT !.pc = "union", !.members = gh.members, !.left = w.teams]
          ELSE [w EXCEPT !.pc = "collaborators"]
  /\ UNCHANGED <<object, Outside>>

ObserveTeamMembers(t) ==
  /\ w.pc = "union" /\ t \in w.left /\ t \in gh.teams
  /\ w' = [w EXCEPT !.left = @ \ {t}, !.union = @ \cup gh.teamMembers[t],
                    !.lists = @ + 1]
  /\ UNCHANGED <<object, Outside>>

\* Mutant: the teams after the one that failed are left out silently.
TeamMembersTruncated ==
  [w EXCEPT !.left = {}]

TeamMembersUnknown ==
  [w EXCEPT !.left = {}, !.lists = 0]

\* A team's members cannot be listed, because of an error or because the
\* team is gone: nobody is removed.
TeamMembersFail(t) ==
  /\ w.pc = "union" /\ t \in w.left
  /\ IF t \in gh.teams THEN Fault("github") ELSE UNCHANGED faults
  /\ w' = TeamMembersUnknown
  /\ UNCHANGED <<object, k8s, gh, limitOver, edits>>

Exempt == w.owners \cup w.meta.protected

PlanMembers ==
  /\ w.pc = "union" /\ w.left = {}
  /\ \E new \in MemberRemovals(w.snap.ops.members, w.members,
                               Exempt \cup w.union, w.lists) :
       Plan("members", new, "collaborators")
  /\ UNCHANGED Outside

ChooseRepositories ==
  /\ w.pc = "collaborators"
  /\ w' = IF Previewed(w.meta, "collaborators")
          THEN [w EXCEPT !.pc = "direct",
                         !.left = {r \in Repos : Visibility[r] # "internal"}]
          ELSE [w EXCEPT !.pc = "settle"]
  /\ UNCHANGED <<object, Outside>>

ObserveCollaborators(r) ==
  /\ w.pc = "direct" /\ r \in w.left
  /\ w' = [w EXCEPT !.left = @ \ {r},
                    !.direct = @ \cup ({r} \X gh.collaborators[r])]
  /\ UNCHANGED <<object, Outside>>

\* A repository whose collaborators cannot be listed is left out.
CollaboratorsFail(r) ==
  /\ w.pc = "direct" /\ r \in w.left
  /\ Fault("github")
  /\ w' = [w EXCEPT !.left = @ \ {r}]
  /\ UNCHANGED <<object, k8s, gh, limitOver, edits>>

PlanCollaborators ==
  /\ w.pc = "direct" /\ w.left = {}
  /\ \E new \in CollaboratorRemovals(w.snap.ops.collaborators, w.direct, Exempt) :
       Plan("collaborators", new, "settle")
  /\ UNCHANGED Outside

\* The organization's members, a team's members or a repository's
\* collaborators: the rate limit is hit.
ListingLimited ==
  /\ \/ w.pc = "members" /\ Previewed(w.meta, "members")
     \/ w.pc \in {"union", "direct"} /\ w.left # {}
  /\ HoldFor(w.snap)

\* The very first comparison found nothing: the state is complete.
Settle ==
  /\ w.pc = "settle"
  /\ IF w.snap.state = ""
     THEN SafeStatusUpdate([w.snap EXCEPT !.state = "complete", !.error = "none"])
     ELSE UNCHANGED object
  /\ Goto("switch")
  /\ UNCHANGED Outside

-----------------------------------------------------------------------------
(* Dry run                                                                 *)

EnterDryRun ==
  /\ w.pc = "switch"
  /\ w.meta.labelled /\ w.meta.dryRun /\ w.snap.state # "dry-run"
  /\ Finish([w.snap EXCEPT !.state = "dry-run"])
  /\ UNCHANGED Outside

\* Mutant: the recomputed state is not written.
LeaveUnwritten ==
  /\ w.pc = "switch"
  /\ w.meta.labelled /\ ~w.meta.dryRun /\ w.snap.state = "dry-run"
  /\ Stop
  /\ UNCHANGED <<object, Outside>>

\* Without any label on the object the dry run is not left.
LeaveDryRun ==
  /\ w.pc = "switch"
  /\ w.meta.labelled /\ ~w.meta.dryRun /\ w.snap.state = "dry-run"
  /\ LET st == Recomputed(w.snap)
     IN  Finish([st EXCEPT !.error = IF st.state = "complete" THEN "none" ELSE @])
  /\ UNCHANGED Outside

\* In dry run the worker only serves the cleanOperations label, which it
\* removes from the object as read once nothing is left to clean.
Rehearse ==
  /\ w.pc = "switch"
  /\ w.snap.state = "dry-run" /\ (w.meta.labelled => w.meta.dryRun)
  /\ LET ops == CleanOperations(w.snap.ops, w.meta.clean)
     IN  IF ~w.meta.labelled \/ w.meta.clean = "unset" THEN UNCHANGED object
         ELSE IF ops # w.snap.ops THEN SafeStatusUpdate([w.snap EXCEPT !.ops = ops])
         ELSE IF w.current
              THEN /\ meta' = [meta EXCEPT !.clean = "unset"] /\ fresh' = FALSE
                   /\ UNCHANGED <<status, cache>>
              ELSE UNCHANGED object
  /\ Stop
  /\ UNCHANGED Outside

NothingToDo ==
  /\ w.pc = "switch"
  /\ w.snap.state \notin {"dry-run", "pending"}
  /\ ~(w.meta.labelled /\ w.meta.dryRun)
  /\ Stop
  /\ UNCHANGED <<object, Outside>>

\* An organization with pending operations skips the comparison.
SkipComparison ==
  /\ Proceeding /\ w.snap.state = "pending"
  /\ Goto("switch")
  /\ UNCHANGED <<object, Outside>>

-----------------------------------------------------------------------------
(* Pending operations: execute                                             *)

\* Mutant: a pending organization executes in dry run as well.
StartExecutionAnyway ==
  /\ w.pc = "switch" /\ w.snap.state = "pending"
  /\ w' = [w EXCEPT !.pc = "execute", !.ops = w.snap.ops]
  /\ UNCHANGED <<object, Outside>>

StartExecution ==
  /\ w.pc = "switch"
  /\ w.snap.state = "pending" /\ ~(w.meta.labelled /\ w.meta.dryRun)
  /\ w' = [w EXCEPT !.pc = "execute", !.ops = w.snap.ops]
  /\ UNCHANGED <<object, Outside>>

Unprotected(m, op) == op.name \notin m.protected

\* A scope is entered: skipped removals of members and collaborators are
\* revived when their label is "true" by now.
Entered(scope) ==
  IF scope \in {"members", "collaborators"} /\ Enabled(w.meta, scope, "remove")
  THEN Revived(w.ops[scope], {i \in DOMAIN w.ops[scope] :
                                Unprotected(w.meta, w.ops[scope][i])})
  ELSE w.ops[scope]

ScopeIndex(scope) == CHOOSE i \in DOMAIN ScopeOrder : ScopeOrder[i] = scope

ScopeDone ==
  /\ w.pc = "execute"
  /\ ~PendingOperationsFound(w.ops[w.scope])
  /\ IF w.scope = "collaborators" THEN Goto("report")
     ELSE LET next == ScopeOrder[ScopeIndex(w.scope) + 1]
              ops  == Entered(next)
          IN  w' = [w EXCEPT !.scope = next, !.ops[next] = ops,
                             !.changed = @ \/ ops # w.ops[next]]
  /\ UNCHANGED <<object, Outside>>

\* It is operation i's turn: the first pending one of the scope.
Turn(i) ==
  /\ w.pc = "execute"
  /\ i \in InState(w.ops[w.scope], "pending")
  /\ \A j \in InState(w.ops[w.scope], "pending") : i <= j

Resolved(i, state, locked, failed) ==
  w' = [w EXCEPT !.ops[w.scope][i].state = state,
                 !.ops[w.scope][i].locked = locked,
                 !.failed = failed, !.changed = TRUE]

Gated == {"owners", "teams", "repos"}

\* Owners, teams and repositories: without any label on the object every
\* operation is allowed.
Allowed(m, scope, op) ==
  IF scope \in Gated THEN m.labelled => Enabled(m, scope, op.operation)
  ELSE Enabled(m, scope, "remove") /\ Unprotected(m, op)

\* In the first three scopes an operation that is not allowed clears the
\* failures before it.
SkipOperation(i) ==
  /\ Turn(i)
  /\ ~Allowed(w.meta, w.scope, w.ops[w.scope][i])
  /\ Resolved(i, "skipped", FALSE, IF w.scope \in Gated THEN FALSE ELSE w.failed)
  /\ UNCHANGED <<object, Outside>>

\* GitHub once the operation has been applied; all of them can be repeated.
Applied(scope, op) ==
  LET add == op.operation = "add"
      n   == op.name
  IN CASE scope = "owners" -> [gh EXCEPT !.owners = IF add THEN @ \cup {n} ELSE @ \ {n}]
       [] scope = "teams" ->
            IF add
            THEN [gh EXCEPT !.teams = @ \cup {n}]
            ELSE [gh EXCEPT !.teams = @ \ {n}, !.teamMembers[n] = {},
                            !.roles = [r \in Repos |-> [@[r] EXCEPT ![n] = None]]]
       [] scope = "repos" -> [gh EXCEPT !.roles[op.repo][n] = op.permission]
       [] scope = "members" ->
            [gh EXCEPT !.owners = @ \ {n}, !.members = @ \ {n},
                       !.teamMembers = [t \in Teams |-> @[t] \ {n}]]
       [] scope = "collaborators" -> [gh EXCEPT !.collaborators[op.repo] = @ \ {n}]

\* GitHub keeps the last owner, does not modify a locked repository, and
\* gives no repository to a team it does not know.
Refused(scope, op) ==
  \/ /\ scope = "members" \/ (scope = "owners" /\ op.operation = "remove")
     /\ gh.owners = {op.name}
  \/ scope = "repos" /\ (op.repo \in Locked \/ op.name \notin gh.teams)

Due(i) == Turn(i) /\ Allowed(w.meta, w.scope, w.ops[w.scope][i])

ExecuteOperation(i) ==
  /\ Due(i) /\ ~Refused(w.scope, w.ops[w.scope][i])
  /\ gh' = Applied(w.scope, w.ops[w.scope][i])
  /\ Resolved(i, "complete", FALSE, w.failed)
  /\ UNCHANGED <<object, k8s, limitOver, budgets>>

\* Two refusals end in "skipped": demoting the last owner, and adding a team
\* to a locked repository.
Pardoned(scope, op) ==
  \/ scope = "owners"
  \/ scope = "repos" /\ op.operation = "add" /\ op.repo \in Locked

ExecuteRefused(i) ==
  /\ Due(i)
  /\ LET op == w.ops[w.scope][i]
     IN  /\ Refused(w.scope, op)
         /\ IF Pardoned(w.scope, op)
            THEN Resolved(i, "skipped", w.scope = "repos", w.failed)
            ELSE Resolved(i, "failed", FALSE, TRUE)
  /\ UNCHANGED <<object, Outside>>

\* Any other error; "lost": GitHub did it, the answer got lost.
ExecuteFails(i) ==
  /\ Due(i)
  /\ \/ Fault("operation") /\ UNCHANGED gh
     \/ /\ Fault("lost") /\ ~Refused(w.scope, w.ops[w.scope][i])
        /\ gh' = Applied(w.scope, w.ops[w.scope][i])
  /\ Resolved(i, "failed", FALSE, TRUE)
  /\ UNCHANGED <<object, k8s, limitOver, edits>>

\* Mutant: the outcome so far is not part of what is written.
HeldStatusOld == w.snap

HeldStatus == [w.snap EXCEPT !.ops = w.ops]

\* Owners and teams: a rate limit is an error like any other.
ExecuteLimited(i) ==
  /\ Due(i) /\ w.scope \in {"repos", "members", "collaborators"}
  /\ HoldFor(HeldStatus)

Reported ==
  [w.snap EXCEPT !.ops = w.ops,
                 !.state = IF w.failed THEN "failed" ELSE "complete",
                 !.error = IF w.failed THEN @ ELSE "none"]

Report ==
  /\ w.pc = "report"
  /\ IF w.changed THEN SafeStatusUpdate(Reported) ELSE UNCHANGED object
  /\ Stop
  /\ UNCHANGED Outside

-----------------------------------------------------------------------------
(* Surroundings                                                            *)

\* The process crashes, or a call outside GitHub's answers fails: the
\* reconcile ends without a write and the object is queued again.
Abort ==
  /\ w.pc # "idle"
  /\ Fault("abort")
  /\ Stop
  /\ UNCHANGED <<object, k8s, gh, limitOver, edits>>

SyncCache ==
  /\ ~fresh
  /\ cache' = [status |-> status, meta |-> meta] /\ fresh' = TRUE
  /\ UNCHANGED <<status, meta, w, Outside>>

LimitResets ==
  /\ status.state = "ratelimited" /\ status.error = "until" /\ ~limitOver
  /\ limitOver' = TRUE
  /\ UNCHANGED <<object, k8s, gh, w, budgets>>

EditMeta ==
  /\ Edit("meta")
  /\ meta' \in Metas \ {meta} /\ fresh' = FALSE
  /\ w' = [w EXCEPT !.current = FALSE]
  /\ UNCHANGED <<status, cache, k8s, gh, limitOver, faults>>

EditGithub ==
  /\ Edit("github")
  /\ gh' \in Githubs \ {gh}
  /\ UNCHANGED <<object, k8s, limitOver, w, faults>>

EditResources ==
  /\ Edit("resource")
  /\ k8s' \in Resources \ {k8s}
  /\ UNCHANGED <<object, gh, limitOver, w, faults>>

-----------------------------------------------------------------------------

Positions == 1 .. Cardinality(UNION {DOMAIN w.ops[s] : s \in Scopes})

StartOfReconcile ==
  \/ Begin \/ WipeStatus \/ RemoveForceLabel \/ WaitForReset \/ LeaveRateLimit
  \/ CleansUp
  \/ FailConfiguration \/ WaitForClient \/ SkipComparison

Comparison ==
  \/ ObserveOwners \/ ObserveTeams \/ ObserveRepositories
  \/ ObservationFails \/ ObservationLimited
  \/ ReadAgain \/ RecordObserved
  \/ PlanOwners \/ WaitForOwners \/ FailOwners \/ LookupFails
  \/ PlanTeams \/ PlanRepos \/ ReviveRepos
  \/ ObserveOrgMembers \/ PlanMembers
  \/ \E t \in Teams : ObserveTeamMembers(t) \/ TeamMembersFail(t)
  \/ ChooseRepositories \/ PlanCollaborators
  \/ \E r \in Repos : ObserveCollaborators(r) \/ CollaboratorsFail(r)
  \/ ListingLimited \/ Settle

DryRunStep == EnterDryRun \/ LeaveDryRun \/ Rehearse \/ NothingToDo

Execution ==
  \/ StartExecution \/ ScopeDone \/ Report
  \/ \E i \in Positions :
       \/ SkipOperation(i) \/ ExecuteOperation(i) \/ ExecuteRefused(i)
       \/ ExecuteFails(i) \/ ExecuteLimited(i)

WorkerStep == StartOfReconcile \/ Comparison \/ DryRunStep \/ Execution

Next ==
  \/ WorkerStep \/ Abort \/ SyncCache \/ LimitResets
  \/ EditMeta \/ EditGithub \/ EditResources

Spec == Init /\ [][Next]_vars

-----------------------------------------------------------------------------
(* Safety                                                                  *)

(***************************************************************************)
(* The state tells whether operations are waiting: "pending" is never      *)
(* written without a pending operation, for the worker would then neither  *)
(* execute nor compare, and "complete" never with one, which would hide    *)
(* it.  Every writer of the status takes part.                             *)
(***************************************************************************)
StateTellsPending ==
  /\ status.state = "pending" => PendingFound(status.ops)
  /\ status.state \in {"", "complete"} => ~PendingFound(status.ops)

ByWorker == w # w'

(***************************************************************************)
(* A removal from the organization is queued for nobody who is protected   *)
(* by the spec the reconcile read, owns the organization, or is in one of  *)
(* its teams at that moment, although owners and each team were listed     *)
(* earlier and one by one, and any listing may have failed.  Holds as long *)
(* as others leave GitHub alone.                                           *)
(***************************************************************************)
RemovalsJustified ==
  [][status' # status =>
       \A i \in DOMAIN status'.ops["members"] \ DOMAIN w.snap.ops["members"] :
         LET u == status'.ops["members"][i].name
         IN  /\ u \notin w.meta.protected
             /\ u \notin gh.owners
             /\ \A t \in gh.teams : u \notin gh.teamMembers[t]]_vars

\* The users that the owner teams list whenever all of them are ready and
\* list anybody.
LastingOwners ==
  {u \in Users \ Anonymous : \A r \in Resources :
     LET listed == UNION {r.members[t] : t \in OwnerTeams}
     IN  (\A t \in OwnerTeams : r.state[t] = "ready") /\ listed # {} => u \in listed}

(***************************************************************************)
(* A user the owner teams want is not demoted, whichever of those teams    *)
(* are missing, failed, still at work or empty while the reconciler runs.  *)
(* (Removed from the organization altogether an owner may be: a removal    *)
(* queued before he became one is executed all the same.)                  *)
(***************************************************************************)
OwnersKept ==
  [][ByWorker /\ w.scope # "members"
       => LastingOwners \cap gh.owners \subseteq gh'.owners]_vars

\* The policy wants team t on repository r with the permission it has.
Wanted(r, t) ==
  LET config == Configuration(r, meta.defaults[Visibility[r]],
                              k8s.exceptions, meta.skip)
  IN  /\ meta.defaults[Visibility[r]] # <<>>
      /\ \E i \in DOMAIN config : /\ config[i].team = t
                                  /\ config[i].permission = gh.roles[r][t]

(***************************************************************************)
(* A team that the policy wants on a repository, with the permission it    *)
(* has there, is not taken off it without an addition that follows in the  *)
(* same execution: neither while operations planned earlier are executed   *)
(* nor by a plan made from what GraphQL shows.  Holds while the policy     *)
(* stays as it is and names a team once for a repository, and no call to   *)
(* GitHub fails but for the rate limit.  (Corrections are planned twice,   *)
(* so the right assignment is taken off and put back.)                     *)
(***************************************************************************)
AssignmentsKept ==
  [][\A r \in Repos, t \in Teams :
       /\ ByWorker /\ gh.roles[r][t] # None /\ gh'.roles[r][t] = None
       /\ Wanted(r, t)
       => \E i \in InState(w'.ops["repos"], "pending") :
            /\ w'.ops["repos"][i].operation = "add"
            /\ w'.ops["repos"][i].repo = r /\ w'.ops["repos"][i].name = t
            /\ w'.ops["repos"][i].permission = gh.roles[r][t]]_vars

(***************************************************************************)
(* With the dryRun label "true" when the reconcile began, GitHub is left   *)
(* alone (README.md:401), whatever the status said at that time.           *)
(***************************************************************************)
DryRunKeepsGithub ==
  [][w.meta.labelled /\ w.meta.dryRun /\ ByWorker => gh' = gh]_vars

(***************************************************************************)
(* Between a rate-limit answer and the reset time it carried, the worker   *)
(* begins reconciles but neither asks GitHub for anything nor changes it.  *)
(* Holds when a reconcile starts from an up-to-date cache.                 *)
(***************************************************************************)
QuietWhileRateLimited ==
  [][RateLimited(status) /\ ~ResetPassed(status) /\ ByWorker
     => gh' = gh /\ w'.pc \in {"idle", "begun", "wiped"}]_vars

(***************************************************************************)
(* No operation is executed a second time: while nobody else changes       *)
(* GitHub and no reconcile is cut off, every executed operation changes    *)
(* something, also after a rate limit stopped an execution halfway.        *)
(***************************************************************************)
NothingRepeated ==
  [][/\ edits = MaxEdits /\ w'.pc = "execute"
     /\ \E i \in Positions : Turn(i) /\ w'.ops[w.scope][i].state = "complete"
     => gh' # gh]_vars

-----------------------------------------------------------------------------
(* The write-ahead specification it implements                             *)

Subjects ==
  {<<s, None, n>> : s \in {"owners", "members"}, n \in Users}
    \cup {<<"teams", None, t>> : t \in Teams}
    \cup {<<"repos", r, t>> : r \in Repos, t \in Teams}
    \cup {<<"collaborators", r, u>> : r \in Repos, u \in Users}

World ==
  [s \in Subjects |->
     LET present(P) == IF P THEN "present" ELSE None
     IN CASE s[1] = "owners"  -> present(s[3] \in gh.owners)
          [] s[1] = "members" -> present(s[3] \in gh.members)
          [] s[1] = "teams"   -> present(s[3] \in gh.teams)
          [] s[1] = "repos"   -> gh.roles[s[2]][s[3]]
          [] OTHER            -> present(s[3] \in gh.collaborators[s[2]])]

Change(scope, op) ==
  [ subject |-> <<scope, op.repo, op.name>>,
    value   |-> IF op.operation = "remove" THEN None
                ELSE IF scope = "repos" THEN op.permission ELSE "present" ]

\* Skipped removals of members and collaborators are on record as well: the
\* next execution may revive them.
Waiting(scope, op) ==
  \/ op.state = "pending"
  \/ op.state = "skipped" /\ scope \in {"members", "collaborators"}

Outstanding ==
  UNION {{Change(s, status.ops[s][i]) :
            i \in {j \in DOMAIN status.ops[s] : Waiting(s, status.ops[s][j])}} :
         s \in Scopes}

Announced == INSTANCE AnnouncedChanges
  WITH Nothing <- None, outstanding <- Outstanding, world <- World,
       outside <- edits

(***************************************************************************)
(* GitHub is only changed as announced: the reconciler implements the      *)
(* write-ahead specification.  Holds when a reconcile starts from an       *)
(* up-to-date cache.                                                       *)
(***************************************************************************)
OnlyAnnounced == Announced!Spec

-----------------------------------------------------------------------------
(* Liveness                                                                *)

CleansFirst(scope) ==
  /\ Admitted /\ <<scope, 1>> \in Expirable(w.snap.ops, w.meta.ttl)
  /\ \E expired \in SUBSET Expirable(w.snap.ops, w.meta.ttl) :
       <<scope, 1>> \in expired /\ CleanExpired(expired)

(***************************************************************************)
(* The worker keeps running because every object is reconciled again at    *)
(* the resync period at the latest; the informer catches up; a reset time  *)
(* passes; the first operation of a scope, when it stays in the status,    *)
(* outlives its TTL.  Users, GitHub and faults are under no obligation.    *)
(***************************************************************************)
Fairness ==
  /\ WF_vars(SyncCache)
  /\ WF_vars(LimitResets)
  /\ WF_vars(WorkerStep)
  /\ \A s \in Scopes : SF_vars(CleansFirst(s))

FairSpec == Spec /\ Fairness

OwnersWanted == UNION {k8s.members[t] : t \in OwnerTeams}

\* Pending operations in a status that failed are neither executed nor
\* planned again: a dry run that lists operations and fails to list GitHub
\* once ends like this when its label is removed.
Stranded == status.state = "failed" /\ PendingFound(status.ops)

(***************************************************************************)
(* Once faults and edits stop, GitHub ends up as the resources ask: owners *)
(* and teams as wanted, every repository conforming to the policy, nobody  *)
(* in the organization without a team, and no direct collaborators; with   *)
(* every label "true", both TTLs, no dry run and no stranded operations.   *)
(***************************************************************************)
Converges ==
  <>[](~meta.dryRun /\ ~Stranded =>
         /\ gh.owners = OwnersWanted
         /\ gh.teams = k8s.teams
         /\ \A r \in Repos : Conforms(r, gh.roles[r], Visibility[r],
                                      Policy(meta, k8s.exceptions))
         /\ gh.members \ (gh.owners \cup meta.protected)
              \subseteq UNION {gh.teamMembers[t] : t \in gh.teams}
         /\ \A r \in Repos :
              gh.collaborators[r] \subseteq gh.owners \cup meta.protected)

(***************************************************************************)
(* A rate-limited organization does not stay rate-limited.                 *)
(***************************************************************************)
RateLimitLifted == status.state = "ratelimited" ~> status.state # "ratelimited"

(***************************************************************************)
(* "remove the dry run status if it is not enabled"                        *)
(* (githuborganization_controller.go:921): once the label is gone or no    *)
(* longer "true" the dry run is left, as long as the object has any label. *)
(***************************************************************************)
DryRunLeft ==
  status.state = "dry-run" /\ meta.labelled /\ ~meta.dryRun
    ~> status.state # "dry-run" \/ meta.dryRun

=============================================================================
