# Formal models of repo-guard

repo-guard is a Kubernetes operator. Its reconcilers compare what the custom
resources and the member providers want with what GitHub reports, write the
difference into the status of the resource as operations, execute the
operations in a later reconcile and record their outcome. This directory holds
TLA+ models of that life cycle, TLC runs that check them on small instances,
and proofs checked by TLAPS that hold for every instance.

Contents: [inventory](#inventory) · [modules](#modules) · [runs](#runs) ·
[fairness](#fairness) · [proofs](#proofs) · [divergences](#divergences) ·
[limits](#what-is-not-modelled) · [plan](#plan) · [use](#use)

## Inventory

Paths are below `src/`.

| Component | State it keeps | Operations | Must hold |
|---|---|---|---|
| **GithubTeam reconciler** `internal/controller/githubteam_controller.go`, `api/v1/githubteam_types.go` | the object's status: team state, error, operations, members | forced reset, rate-limit hold, TTL cleanup, checks, create team, observe members, resolve providers, plan, dry run, execute, report | a pending team has work; no operation is live twice; provider failures remove nobody; nothing is forgotten in a restart; a dry run changes nothing; a healthy team converges |
| **GithubOrganization reconciler** `internal/controller/githuborganization_controller.go`, `api/v1/githuborganization_types.go` | status with five operation lists, owners, teams, out-of-policy repositories | the same life cycle for owners, teams, repository teams, organization members and direct collaborators; clean labels; skipped operations revived | owners never derived from an unsettled team; nobody with a team or on the protected list is queued for removal; GitHub changes as announced only; every list converges |
| **Status size guard** `internal/controller/status_size_guard.go` | none | halves the completed TTL until the status fits, skips the write otherwise | terminates; what is stored fits; no more is dropped than needed; an outcome is recorded in the end |
| **GithubAccountLink reconciler** `internal/controller/githubaccountlink_controller.go` | results annotation per organization | membership and e-mail check with TTL | results of other organizations survive; an expired result is renewed, so that teams admit whom GitHub knows |
| **Provider reconcilers** `internal/controller/{ldapgroupprovider,genericexternalmemberprovider,staticmemberprovider}_controller.go` | status; a process-wide registry of clients (`providers_registry.go`) | register after a connection test, remove when deleted | a running provider is registered; a deleted one is not |
| **Provider clients** `internal/external-provider/` | an OAuth token and its expiry, shared without a lock | list the members of a group over LDAP, paged HTTP, or from the resource | a listing is complete or an error; no request carries an expired token; calls recover |
| **Github reconciler** `internal/controller/github_controller.go` | a process-wide map of GitHub App clients | build, check and store a client | a running Github has a client |
| **GitHub providers** `internal/github/` | a cache of ETags and lists per organization | conditional paginated listings; membership, team and repository calls | lists returned are GitHub's; an inconsistency heals |
| **Rate-limit parsing** `internal/controller/utils.go` | none | reset time out of an error text | stable when the stored text is parsed again |
| Metrics, manager start-up, generated code, charts, mock server | | | not modelled |

Interaction. Reconcilers share nothing but the API server, the informer cache in
front of it, the registries and the ETag caches. The organization reconciler reads
the status of owner teams, is woken by their changes, and lists the same URLs as
the team reconciler through the same ETag cache. controller-runtime
never runs two reconciles of one object at the same time, but runs those of
different objects concurrently, retries those that end in an error, and
reconciles everything again every 30 minutes (`cmd/main.go:74`).

What is hard: every decision is made on copies. A reconcile works on a snapshot
from a cache that lags; writes of a re-read object go through, writes of the
snapshot may conflict; users edit labels meanwhile; a restart loses everything
outside the status; a call to GitHub may take effect although it fails; a batch
may fail partly; a rate limit must be outwaited and then left; operations that
stay in the status shape the next plan. `PROJECT.json` lists each of these
hazards at its line with the properties that watch it.

## Modules

```
AnnouncedChanges <── (INSTANCE) ── GithubTeam, GithubOrganization

UserOperations <── GithubTeam <── MCGithubTeam
UserOperations <── StatusSizeGuard <── MCStatusSizeGuard
UserOperations <── OrganizationOperations <── RepositoryPolicy
                     <── GithubOrganization <── MCGithubOrganization
ClientRegistry <── AccountLink <── MCAccountLink
MemberListing <── MCMemberListing
EtagCache <── MCEtagCache

UserOperationsProofs <── GithubTeamProofs, StatusSizeGuardProofs,
                         OrganizationOperationsProofs <── GithubOrganizationProofs
AccountLinkProofs, MemberListingProofs, EtagCacheProofs
```

**UserOperations** — the operation list of `GithubUserOperation` and its pure
functions: the states that suppress a new operation (`Suppressing`,
`OperationExists`, the inner loops of `ChangeCalculator`), TTL removal
(`WithoutPositions`, `applyUserOpsTTL`), completion of pending operations. Logins are
compared case-insensitively everywhere in the code, so a user is a model value
that stands for the lower-case login. Timestamps are left to the caller, who
says which positions have expired.

**GithubTeam** — one `GithubTeam` object, its worker and its environment.

| State | Code |
|---|---|
| `status`, `meta` | the object at the API server: `GithubTeamStatus`; labels and the shape of the spec |
| `cache`, `fresh` | the informer's copy and whether it has caught up |
| `w` | local variables of `Reconcile`: `snap` is `githubTeam`, `ops` is `newStatus.Operations`, `seen` and `desired` the member lists, `current` whether the snapshot's resourceVersion is still the latest |
| `ghTeam`, `ghMembers` | GitHub |
| `desired`, `configured`, `limitOver` | the provider's answer, the Github and GithubOrganization resources, the reset time |

A step of the worker performs at most one call to the API server, a provider
or GitHub, so all interleavings with the environment are there. Actions
follow `Reconcile` from top to bottom: `Begin`, `WipeStatus`/`RemoveForceLabel`,
`WaitForReset`/`LeaveRateLimit`, `CleanExpired`, `FailSpec`, `FailConfiguration`,
`CreateTeam`, `ObserveMembers`, `RecordMembers`, `FinishUnmanaged`,
`ResolveMembers`, `Rehearse`, `RehearseMembers`, `PlanOperations`,
`NothingToPlan`, `EnterDryRun`, `LeaveDryRun`, `NothingToDo`, `DropUnmanaged`,
`StartExecution`, `SkipOperation`, `AddUser`, `RemoveUser`, `ReadBack`, `Report`.
Faults: `RateLimitHit`, `ResolveFails`, `OperationFails`,
`ReadBackFails`, and `Abandon` for a restart or an error returned without a
write. Environment: the cache catches up, users edit labels and spec, providers
and GitHub change, the team is deleted, the configuration is lost and restored,
the reset time passes.

Two kinds of writes are told apart because they behave differently under
concurrency. `SaveLatest` is the `RetryOnConflict` closure that re-reads the
object: it succeeds with the object the cache has caught up to, so it waits for
`fresh`. `SaveOwn` is `Status().Update` of the snapshot: it succeeds only if
nobody wrote since.

`StaleReads` chooses whether a reconcile may start from a cache that lags. It may in
reality; some guarantees hold only if it does not, and are stated with
`StaleReads = FALSE` for that reason.

**AnnouncedChanges** — what a reconciler that keeps its operations in a status
promises, without a word about how: the world changes only in the way of a
change that is outstanding, one at a time, and the outstanding changes are
recorded before. `GithubTeam!WriteAhead` and `GithubOrganization!OnlyAnnounced`
are the statements that the reconcilers implement it: `outstanding` is read off
the stored status, `world` off GitHub. A restart between a call and the report
then repeats the call; it never loses or invents one.

**OrganizationOperations**, **RepositoryPolicy** — the operation lists of an
organization as a function from the five scopes, the state recomputed from them,
cleaning and revival; the change calculators. A permission is corrected by a
removal followed by an addition, once from the configuration's side and once more
from GitHub's (`repoChangeCalculator` compares both ways), and `admin-ondemand`
reads back as `pull`.

**GithubOrganization** — one `GithubOrganization` object, its worker and its
environment.

| State | Code |
|---|---|
| `status`, `meta`, `cache`, `fresh` | the object at the API server and the informer's copy, as for the team; `meta` also holds spec and annotations |
| `k8s` | what the reconcile reads besides: the Github resource and its client, states and members of the owner teams, the names of all teams, the repository exceptions |
| `gh` | owners, members, teams with their members, the permission of each team on each repository, direct collaborators |
| `w` | locals of `Reconcile`: `snap`, `owners`, `teams`, `roles`, `members`, `union` and `lists` are `githubOrganization`, `ownerList`, `teamsList`, the repository list, `orgMembers`, `teamMembersUnion` and `teamObservationsCount`; `ops`, `failed`, `changed` are `newStatus.Operations`, `failed`, `statusChanged` |

The actions follow `Reconcile`: the start up to the client (`Begin` …
`WaitForClient`), the comparison (`ObserveOwners`, `ObserveTeams`,
`ObserveRepositories`, `RecordObserved`, then for one scope after the other
`PlanOwners`, `PlanTeams`, `PlanRepos`, `ReviveRepos`, `PlanMembers`,
`PlanCollaborators`, of which the first that finds a difference writes it and
ends the reconcile), the switch of dry run (`EnterDryRun`, `LeaveDryRun`,
`Rehearse`), and the execution, scope by scope (`SkipOperation`,
`ExecuteOperation`, `ExecuteRefused`, `ExecuteFails`, `ExecuteLimited`,
`ScopeDone`, `Report`). Only owner, team and repository operations have labels
for adding and removing; without any label on the object they are executed. All
writes are `safeStatusUpdate`, which re-reads the object from the informer and
overwrites the whole status. GitHub keeps the last owner (`Refused`), does not
modify locked repositories, and loses the assignments of a team it deletes.

**StatusSizeGuard** — `safeStatusUpdate` from the inside: measuring, halving the
completed TTL down to the floor, the annotation, the write; around it a
reconciler reduced to planning, executing and cleaning. Ages and TTLs are steps
of a clock that stands still during a call, which takes the time once.

**ClientRegistry** — one Github or member-provider object, its entry in the map
of clients, its reconciler, restarts, a secret and a backend that come and go. A
client is identified by the version of the spec it was built from. The kinds
differ in whether they read a secret, test a connection, retry conflicts and
unregister.

**AccountLink** — `GithubAccountLinkReconciler`, composed with the registry it
takes its client from: configuration and results as annotations, the two checks
of an organization, the write that replaces the results annotation, and the
filter of the team reconciler that reads it (`Admits`).

**MemberListing** — the HTTP member provider: workers that share one client,
each authorizing every page with a token that is read and written without a lock
(`CheckToken`, `FetchToken`, `StoreToken`, `StoreExpiry`, `TakeToken`, in the
order of `getOAuthToken`), and a group that changes between two pages.

**EtagCache** — one paginated listing, the members of a team, requested by
`Members()` and `MembersExtended()` in several reconcile workers. `entries` is
`etagCache.entries`; a call is a sequence of steps because each lock is
held for one cache operation only. An ETag is modelled by the page it was
computed from, which is all GitHub's answer depends on. `List`, the
organization and the user listings use the same loop with the `"plain"` keys.

## Runs

| Run | Shows | Bounds |
|---|---|---|
| `team_safety` | type invariant, `PendingHasWork`, `OneLiveOperation`, `JustifiedOperations`, `ProtectedMembers`, `DryRunKeepsMembers` | 3 users, one of them in every listing and one in none, 8 label/spec combinations, stale reads, one fault of any kind, one edit of any kind; 6.4M states |
| `team_fresh` | `WriteAhead`, `QuietWhileRateLimited` without stale reads | 2 users, one wanted and one unwanted; one fault, two edits |
| `team_converges` | `Converges`, `RateLimitLifted` under fairness | 2 users, so that a batch may fail in part, TTL labels set, one fault, one edit; 55k states |
| `team_orphaned_operations` | expects `MembershipEnsured` to be violated | 1 user, one lost configuration |
| `org_safety` | type invariant, `StateTellsPending`, `RemovalsJustified`, `OwnersKept`, `DryRunKeepsGithub`, `QuietWhileRateLimited` | 3 users, 2 teams, both of them owner teams, no repositories, 9 label and spec combinations, 6 states of the resources; one fault, one edit; 0.4M states |
| `org_repos` | `AssignmentsKept`, `OnlyAnnounced`, `NothingRepeated` | 2 repositories, one locked, with defaults, an exception and `admin-ondemand`; direct collaborators; a rate limit, an edit of GitHub or the labels |
| `org_converges` | `Converges`, `RateLimitLifted`, `DryRunLeft` under fairness | all five lists differ at first; 2 users, 2 teams, 1 repository; a failing call or a rate limit, dry run switched on or off |
| `size_guard` | `StoredFits`, `DropsLeast`, `CallsReturn`, `OutcomeRecorded` | 5 operations, limit 8, labels missing, below the floor, halving onto it and past it; one failure, one edit |
| `account_link` | type invariant, `RunningIsRegistered`, `RegistrySettles`, `ResultsKept`, `AdmissionSettles` | 2 organizations, one without TTL; 2 configurations; Github, LDAP and static objects; a restart, two changes, a failing call; 0.8M states |
| `member_listing` | type invariant, `LiveToken`, `NobodyMissed`, `Recovers` | 2 workers, 3 users, one per page, a token's half-life of 3 ticks, a delay of 1; one fault, one change; 1.9M states |
| `etag_single` | `FreshRead`, `RosterObserved`: one worker, method and page | 3 changes, 2 failed requests |
| `etag_shared` | `TypeOK`, `CallsReturn`, `ValueKept`: two workers, both methods, two pages | 1 change, 1 failing body; 0.9M states |

Why the bounds suffice. Operations of different users never interact
except through the team state, for which two users are enough (one fails or is
skipped, the other succeeds). The reachable statuses are not bounded by the
constants but by what faults and edits can provoke: one fault with one edit already
produces a snapshot that is stale, a batch that fails in part and a team deleted
between planning and execution. The worker runs without bound, so sequences of
reconciles are as long as they can be. What the bounds might hide of the
team's safety invariants, the proofs exclude: they know no bound.

The organization's scopes are independent of each other but for four places, and
the runs are cut along them: the first difference ends a comparison, so scopes
compete (`org_converges` starts with all five differing); a failure in one scope
marks the whole outcome; owners exempt members and collaborators from removal, and
team members exempt members (`org_safety`); deleting a team deletes its assignments
(`org_converges` adds one, `org_repos` leaves teams alone). Two owner teams are
what it takes for one to be ready while the other is not; two repositories, for one
to be locked, of another visibility, or without the exception. In `org_repos` the
labels of additions and removals change together, since a removal without its
addition is what the labels then ask for.

For the size guard, a label above the floor must halve both onto and past it; five
operations of two sizes against a limit of eight make a status too large that one,
two or no halving cures. For tokens, `Half >= 3 * MaxDelay` (with `Half` positive) is the assumption under
which half a life covers the time two overlapping requests take; TLC refutes
`LiveToken` without it, for `Half = 2` and `MaxDelay = 1`.  For the ETag cache, a change needs a
request before and after it, so three changes allow a list to become outdated
and current again; two pages are what it takes to tell the pages' ETags
apart, and nothing distinguishes a second page from a later one.

`CHECK_DEADLOCK` is on everywhere: the worker can always begin again.

Each property of a passing run has a mutant in `PROJECT.json`, a variant of a
mapped definition such as a dropped guard or swapped operands, which TLC finds
violating that property. The variants stand in the modules before the
definition they mutate.

## Fairness

`GithubTeam!FairSpec` assumes that the worker goes on (`WF` on its steps that
need nothing to go wrong: every write wakes the object's own reconcile and the
resync wakes it otherwise), that the informer catches up, that a reset time
passes, that a lost configuration is restored, and that an operation which
stays in the status outlives its TTL and is found by a cleanup (`SF`, one per
user, since other reconciles lie in between: among the operations on one user, any). Users, providers, GitHub and faults
are under no obligation. Convergence needs the TTL labels: without them a
completed operation suppresses the next one for the same user for good.

`GithubOrganization!FairSpec` assumes the same of its worker, cache and reset time,
and that the first operation of a list that stays in the status outlives its TTL.
Its convergence leaves out two cases: a dry run, and pending operations in a
failed status (`Stranded`, see below).

`StatusSizeGuard!FairSpec`: a call goes on until it returns, the reconciler comes
back while something is pending (a refused write is an error, which is retried),
and the clock runs. `AccountLink!FairSpec`: both reconcilers go on, informers catch
up, and a result with a TTL is found expired in the end. `MemberListing!FairSpec`:
groups are listed again and again, a call goes on until it returns, and time passes
(`SF`, since a tick waits for requests under way).

`EtagCache!FairSpec` assumes that workers go on calling and that a call goes on
until it returns. Nothing forces the team to change or a request to succeed.

## Proofs

Each theorem holds for every finite set of users, teams and labels, every number of
faults, edits and restarts, and under the named `ASSUME`s of its module only (sets are
finite, constants lie in their sets). What it assumes beyond these it says itself
(ASSUME ... PROVE), and the tables repeat it.

### Team

`GithubTeamProofs` proves of `GithubTeam`, with stale reads or without:

| Theorem | Property |
|---|---|
| `Invariance` | the inductive invariant `IInv` |
| `TypeCorrect` | `TypeOK` |
| `PendingTeamHasWork` | a pending team has a pending operation |
| `OperationsLiveOnce` | no two live operations of one type and user |
| `OperationsJustified` | no removal of a user in every listing, no addition of one in none |
| `MembersProtected` | no step of the worker changes such a membership on GitHub |
| `DryRunKept` | a reconcile that read the dryRun label changes no membership |
| `QuietWhenLimited` | without stale reads: a rate-limited team leaves GitHub alone until the reset |
| `Announces` | without stale reads: `WriteAhead`, the refinement of `AnnouncedChanges` |

The properties speak of the stored status, but the reconciler writes statuses
computed from copies: the snapshot, the informer's copy, the operations under
execution. So none of them is inductive, and `IInv` says that
every copy is *sound* (`StatusOK`: typed, pending only with work, live once,
justified), that the listing the worker plans with is a listing
(`w.desired \in Listings`), and that nobody executes under the dryRun label.
A stale copy may then be written at any time. The lemmas about each group of
actions (`StartKeeps` … `EnvironmentKeeps`) show that every step keeps `IInv`;
they rest on `UserOperationsProofs`: removing positions (`KeepOneLive`), finishing
one operation (`FinishOneLive`), completing the pending ones, and appending
queues (`AppendQueueOneLive`), which needs that the planner skips users with a
live operation and queues nobody twice. Action properties follow from `IInv` and
`WhoChangesMembers`, which says that only three actions touch memberships.

The last two need to know where a copy stands against the stored status. `UpToDate`
says so for each place of the worker: at the beginning the snapshot is the stored
status; through the comparison the operations in hand are the stored ones and nothing
is pending; during execution the stored status is pending, and what is still
outstanding in the worker's list is outstanding in the stored one. Since a write then
only announces more than it takes back (`Monotonic`), every call to GitHub is one the
stored status announces. A stale reconcile executes operations that are no longer on
record, or overlooks the rate limit: both theorems are false with `StaleReads = TRUE`.

### Organization

`GithubOrganizationProofs` proves of `GithubOrganization`:

| Theorem | Property |
|---|---|
| `Invariance` | the inductive invariant `IInv` |
| `TypeCorrect` | `TypeOK` |
| `StateTells` | a pending organization has a pending operation, a complete one none |
| `DryRunSafe` | a reconcile that read the dryRun label leaves GitHub alone |
| `RemovalsFounded` | while others leave GitHub alone: `RemovalsJustified` |
| `LastingOwnersKept` | `OwnersKept` |
| `UpToDateReads` | without stale reads: the invariant `UpToDate` |
| `QuietWhenLimited` | without stale reads: a rate-limited organization leaves GitHub alone |
| `Announces` | without stale reads: `OnlyAnnounced`, the refinement of `AnnouncedChanges` |

`IInv` is the conjunction of `ObjectOK`, `OutsideOK` and `WorkerOK`. Again every copy is
sound (`Sound`): typed, each scope's list with operations of its kind only (`OpOf`), and a
status that tells its operations (`Telling`). `StateTellsPending` needs more: a complete
organization has nothing pending in *any* scope, so `Executed` says of an execution
that it leaves nothing pending in the scopes behind it. Since the execution marks what it
does not do as skipped or failed, that is so whatever GitHub answers.

The steps of the worker are sorted by what they do to its record (`Ending`, `Begin`,
`WipeStatus`, `LeaveRateLimit`, `SkipComparison`, `Moving`, `ReadAgain`, `Settle`,
`StartExecution`, `ScopeDone`, `Resolving(i)`); `Course` shows that each step of `Next` is
one of these, the lemmas `Places*` where it leads. Each further invariant then has to be
shown for the sorts, not for all actions of a reconciler with five scopes:

* `DryRunSafe` from an invariant that no execution runs under the label.
* `QuietWhenLimited` and `Announces` from `Executing` (operations at work are among those
  read) and `UpToDate`. That a write announces more than it takes back holds
  scope by scope: dropping finished operations, appending a plan and reviving skipped
  operations do not withdraw what is outstanding (`WithoutShrinks`, `AppendGrows`,
  `RevivalGrows`), and what GitHub has applied was announced (`AppliedAsAnnounced`).
* `RemovalsFounded` from `Provenance`: only two planning steps add operations to the owners'
  and members' lists, all other writes inherit theirs; and from `Observed`: when they
  plan, what the worker has listed is what GitHub has, unless a listing failed.
* `LastingOwnersKept` from `Lasting`: no removal stored, cached or under execution
  concerns a lasting owner. For the planning step, `LastingWanted`: if every owner team is
  ready and lists somebody, the lasting owners are among those wanted.

Two stronger statements, nobody with a team is removed and no lasting owner leaves the
organization, were properties of the runs until their proofs failed: the steps
that break them are listed under Divergences, and TLC confirms them.

`OrganizationOperationsProofs` holds the lemmas about the five lists. Facts about
flattened sequences are shown position by position, with the least position at
which they could fail, for want of an induction over sequences.

### Account link

`AccountLinkProofs` proves of `AccountLink` with its `ClientRegistry`, for every set of
kinds, organizations, domains and configurations:

| Theorem | Property |
|---|---|
| `TypeCorrect` | `TypeOK` |
| `RunningIsAlwaysRegistered` | who says it is running, since the last restart, has a client |
| `ResultsAreKept` | without stale reads no result is taken back |

`RunningIsRegistered` alone is not
inductive: a cache that still says "deleted" would let the reconciler unregister the
client of an object created again and announced. `RegistryInv` rules that out: an
object the informer does not know has no status (`StatusIsSeen`), since whoever
writes one holds the version the informer has (`CopyTells`); and a client is in the
map before it is announced (`StoredFirst`). `ResultsKept` speaks of the annotation,
which is overwritten as a whole; `ResultsCarried` says of every step in between that
what the reconciler holds differs from the annotation only where it has renewed an
enabled result, which the copy it started from must have had (`LinkCopyTells`).

### Size guard

`StatusSizeGuardProofs`, for all sizes, limits, labels and clocks:

| Theorem | Property |
|---|---|
| `WhatIsStoredFits` | `StoredFits` |
| `NothingDroppedInVain` | `DropsLeast` |

The first needs `Fitting`: a status on its way to the API server has been measured as it
is. The second needs the history of the halving: `Shrinking` says that the
status in hand is the draft without what the present TTL drops, that this TTL was
reached by halving, and that under every longer one on the way the draft was
oversized. Halvings are the least set closed under halving, and dropping by one TTL and then
by a shorter one is dropping by the shorter one (`KeepKept`).

### Clients

`MemberListingProofs` and `EtagCacheProofs`, for any number of callers or readers, of
pages and of failures:

| Theorem | Property |
|---|---|
| `MemberListingProofs!TypeCorrect` | `TypeOK` |
| `MemberListingProofs!TokensLive` | `LiveToken` |
| `MemberListingProofs!NobodyIsMissed` | `NobodyMissed` |
| `EtagCacheProofs!TypeCorrect` | `TypeOK` |
| `EtagCacheProofs!ListKept` | `ValueKept` |
| `EtagCacheProofs!ServesFresh` | `FreshRead`, for one reader, one kind and single pages, when bodies arrive |

`TokensLive` rests on `TokensLast`, which bounds from below how long the token in the
client's fields, and the one in a caller's hands, still live. A caller may find the
new expiry with the older token, fetched up to twice `MaxDelay` earlier, and wait once more
before it sends the request; the half of the lifetime kept in reserve covers that
(`Half >= 3 * MaxDelay`).
`NobodyIsMissed` rests on `AllListed`: whoever has been there all along is on a page
received or at a position still to be asked for; joining shifts nobody to an earlier page.
`ServesFresh` rests on `Fresh`: the list cached is the page its ETag stands for. Its
hypotheses are those of `etag_single.cfg`: with several pages or readers the list
and the ETag may come from different answers.

### Only model-checked

Liveness, which is out of the prover's reach (`Converges`, `RateLimitLifted`,
`DryRunLeft`, `CallsReturn`, `OutcomeRecorded`, `RegistrySettles`, `AdmissionSettles`,
`Recovers`, `RosterObserved`). `NothingRepeated` and `AssignmentsKept`, which need
invariants that relate pending operations to what GitHub had when they were planned (see
Plan), and hold under premises on faults, edits and policy that their runs choose. And
what the pure functions compute in full, which needs induction over data.

## Divergences

`team_orphaned_operations` shows the shortest way to a team that is never brought
to its desired members, against "Ensure team exists + membership set"
(`docs/guide/architecture.md:96`): a team is pending when a reconcile does not find
its Github or its GithubOrganization, which may be back a moment later; that reconcile
writes "failed" over whatever the status says (`githubteam_controller.go:331-419`).
Pending operations are executed in state pending only (1136) and suppress new ones
(`githubteam_types.go:159`). Neither stale reads nor edits are needed. With
`StaleReads = TRUE` and `FaultKinds = {"provider"}` TLC finds a second way: a reconcile
that began before the plan was visible fails to list the members, and `setFailed`
marks the re-read object (480), which is pending by then.

Seven more were found with the models and need no run to see once they are named.

* *Floating limits.* An error without a reset time (invitation and secondary
  limits) is parsed to one hour from now, and so it is at every reconcile that
  parses the stored text (`utils.go:71-75,108-110`): the team or organization stays
  rate-limited, against "converging as soon as possible"
  (`architecture.md:115`). `RateLimitLifted` fails with `LimitErrors = {"floating"}`.
* *Dry runs create teams.* `AddTeam` (`githubteam_controller.go:529`) is reached
  before the label is looked at (937), against "makes no API calls to GitHub"
  (`architecture.md:119`).
* *A team deleted while pending* is never created again: its read-back fails (1262),
  the outcome is dropped, and creation is only reached when nothing is pending (529).
* *Stranded operations of an organization.* A dry run shows pending operations in
  state dry-run; one listing that fails makes it "failed"
  (`githuborganization_controller.go:386-398`); when the dryRun label is removed,
  nothing is recomputed (920 asks for state dry-run), nothing executed (pending only)
  and nothing planned again (the operations exist). `Converges` without its
  `Stranded` case fails: TLC finds a reconcile that repeats for ever with nothing to do.
* *Shared ETags.* The suffix that avoids "colliding with the Members() cache entry"
  (`teams.go:134`) tells the lists apart, not the ETags: a 304 earned by one method
  serves the other's older list.
* *A change behind the first page* is not seen as long as the first page answers 304
  (`teams.go:149`), against "Status.Members reflects the GitHub-observed roster"
  (`githubteam_controller.go:606`).
* *An inconsistency reported again.* "The very next reconcile will succeed with a
  fresh 200 response" (`utils.go:30`) does not hold with a second page whose ETag is
  still known: only the first page's key is invalidated (`teams.go:157`).

The last three are the reasons why `FreshRead` and `RosterObserved` are checked for one
method and one page. Two more assumptions are needed: complete answers (an ETag is
stored before the body of its answer is read, so a body that fails leaves it with
the older list, `etag_transport.go:42`) and a single worker (the ETag a list is
stored with is read back after the last page, `teams.go:223`, when it may be another
request's).

Where a property is stated with a premise, the code breaks it without:

* `RemovalsJustified` speaks of the moment a removal from the organization is queued,
  and assumes that others leave GitHub alone meanwhile. What is queued may outlive its
  reason, since before it is executed only the protected members are looked at again
  (`githuborganization_controller.go:1328`), and removals "for org members that are not
  in any GitHub team, not an org owner" (`githuborganization_types.go:919`) are
  carried out on others. A removal skipped because its label was
  not "true" stays on record and is revived by the next execution once it is (1284-1297),
  for a user who joined a team or was made owner since, be it by the reconciler itself.
  And a dry run collects plans: the addition of an owner is shown, the next comparison
  finds the same user without a team and shows his removal, and after the dry run one
  execution makes him owner and then removes him.
* `AssignmentsKept` assumes an unchanging policy that names a team once, and removals
  that do not fail. A removal that was skipped and is revived later takes off what has
  been right since; an exception for a default team makes both entries apply in turns.
  And when the removals of a correction have failed, their TTL has dropped them while a
  rate limit kept an addition waiting, and a lookup that failed brought the comparison
  back, a removal is planned behind that addition, which it finds in the list
  (`githuborganization_types.go:535`): the team is added and taken off again.
* `NothingRepeated` assumes that no call fails: corrections are planned twice, so
  after a failure in between the second half repeats the first.
* `OwnersKept` speaks of demotions, and of owners with a GreenhouseID: those without
  replace each other in a map keyed by it (1566), so two of them are never owners
  together. An owner may be removed from the organization as a whole, see above.
* `Converges` needs every label "true" and both TTLs.
* `DryRunLeft` asks for at least one label: with none left on the object the dry run
  is never left (901), against the comment at 921.
* `OutcomeRecorded` needs a valid completedTTL in the end; without one the write of an
  oversized status is refused for good and the operations are executed again in each
  reconcile.
* `AdmissionSettles` speaks of enabled results with a TTL. A result without is never
  renewed, not even one "skipped" before the installation or one for another domain
  (`githubaccountlink_controller.go:131`); results of entries disabled later
  still admit.
* `ResultsKept` assumes that the reconcile starts from an up-to-date cache. The
  annotation is computed from the object read first and replaces the one of the latest
  object as a whole (`githubaccountlink_controller.go:228-240`): an older read takes
  back the results renewed since.
* `RunningIsRegistered` accepts any earlier client: one whose successor fails its
  test stays in the map, as does the client of a deleted Github.
* `NobodyMissed` assumes that nobody leaves and that answers have the configured shape.
  When somebody leaves, the first user of the next page is missed and planned for
  removal; an answer without the results field ends the listing as if it were
  complete (`http.go:126`, `243`).

Further observations that need no model to see: a no-provider team becomes complete
with failed operations (`githubteam_controller.go:635` against the comment at 1052);
removing the last label of a dry-run team leaves it in dry-run (1079); a dry run
compares member lists by length (966), and returns before planning when the lengths
differ, so that no planned operations are shown; a skipped operation resets the
`failed` flag of an organization's reconcile (`githuborganization_controller.go:1040`,
and five more places), so that it reports "complete" with failed operations; the map
of GitHub clients is neither locked nor emptied (`github_controller.go:143`).

## What is not modelled

* Clocks, except in `StatusSizeGuard` and `MemberListing`. A TTL or a reset time
  passes at any moment; how long a requeue waits is not modelled, a worker may begin
  at any time.
* Member resolution. Greenhouse, LDAP, HTTP and static providers are one listing that
  is complete or fails in `GithubTeam`; the mapping of internal IDs to logins and the
  verified-domain filter are part of it (`Admits` models the filter for the account
  link). LDAP and static clients are one query and one lookup.
* Names and error texts, except the two classes of rate-limit errors, the error classes
  of membership calls and the word that marks a locked repository.
* Deletion of the `GithubTeam` and `GithubOrganization` objects, which ends their
  reconciles; `OutOfPolicyRepositories`, which only informs.
* Pages of GraphQL listings; the organization model lists in one step. HTTP
  listings that GitHub changes between two pages beyond what `Change` in `EtagCache`
  and `Join` and `Leave` in `MemberListing` do.
* The composition of a team and an organization in one state space: the organization
  sees owner teams in any state at any time, which includes what a team reconciler
  does to them.
* What was stored by older versions: the recovery of an organization failed with one of
  two errors no longer written (`githuborganization_types.go:854-871`), and
  verified-domain results without a status (`githubteam_controller.go:1440`).
* Metrics, manager wiring, the mock server, generated code.

`RECURSIVE` operators are not used; liveness and `ENABLED` are outside what TLAPS
proves.

## Plan

Done: all modules above; a theorem for each safety property the runs check, but for
`AssignmentsKept` and `NothingRepeated`.

1. `NothingRepeated`: needs that an operation waits for the scope it is planned from to
   be as it was observed, through every scope executed before. `AssignmentsKept`, for a
   policy that names a team once and calls that do not fail: needs that a pending
   removal precedes a pending addition, or that GitHub has another permission and no
   addition waits.
2. That the pure functions compute what they are meant to: the change calculators
   against the sets they compare, the halving against the floor.
3. Pages of the GraphQL listing, with a run of its own.

## Use

```
tlc -workers 2 -config team_safety.cfg MCGithubTeam
tlc -workers 2 -config org_converges.cfg MCGithubOrganization
tlapm GithubTeamProofs.tla
tlapm GithubOrganizationProofs.tla
```
