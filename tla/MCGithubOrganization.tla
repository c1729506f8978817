------------------------ MODULE MCGithubOrganization ------------------------
(***************************************************************************)
(* Values of the constants of GithubOrganization for TLC.                  *)
(***************************************************************************)
EXTENDS GithubOrganization

CONSTANTS a, b, c,   \* users
          o, x,      \* teams; o is an owner team
          p, q       \* repositories

All(value) == [s \in Scopes |-> [t \in OperationTypes |-> value]]

Enforcing == [NoMeta EXCEPT !.labelled = TRUE, !.label = All("true")]
WithTTL   == [Enforcing EXCEPT !.ttl = {"complete", "failed"}]

\* Both repositories are private unless a run says otherwise.
Private == [r \in Repos |-> "private"]

NoPolicy == [v \in Visibilities |-> <<>>]

-----------------------------------------------------------------------------
(* Owners, teams and members                                               *)

People ==
  [ owners |-> {b, c}, members |-> {a, b, c}, teams |-> {o, x},
    teamMembers |-> [t \in Teams |-> IF t = o THEN {a} ELSE {b}],
    roles |-> [r \in Repos |-> [t \in Teams |-> None]],
    collaborators |-> [r \in Repos |-> {c}] ]

Ready ==
  [ github |-> "ready", state |-> [t \in OwnerTeams |-> "ready"],
    members |-> [t \in OwnerTeams |-> IF t = o THEN {a} ELSE {b}],
    teams |-> {o}, exceptions |-> <<>> ]

\* Team x is the second owner team: b is to stay owner, c is not.
PeopleGithubs   == {People}
PeopleResources ==
  { Ready,
    [Ready EXCEPT !.state[x] = "waiting", !.members[x] = {}],
    [Ready EXCEPT !.state[o] = "failed", !.members[o] = {}],
    [Ready EXCEPT !.members = [t \in OwnerTeams |-> {}]],
    [Ready EXCEPT !.github = "unregistered"],
    [Ready EXCEPT !.github = "absent"] }

PeopleMetas ==
  { Enforcing, WithTTL, NoMeta,
    [Enforcing EXCEPT !.dryRun = TRUE, !.clean = "complete"],
    [Enforcing EXCEPT !.force = TRUE],
    [Enforcing EXCEPT !.valid = FALSE],
    [Enforcing EXCEPT !.label = All("false")],
    [Enforcing EXCEPT !.label = All("dryRun")],
    [Enforcing EXCEPT !.protected = {c}] }

-----------------------------------------------------------------------------
(* Teams of repositories and collaborators: p is private, q is public      *)

Mixed == [r \in Repos |-> IF r = p THEN "private" ELSE "public"]

Assigned ==
  [People EXCEPT !.roles = [r \in Repos |-> [t \in Teams |->
                              IF t = x THEN "pull" ELSE None]],
                 !.owners = {a},
                 !.collaborators = [r \in Repos |-> IF r = p THEN {c} ELSE {}]]

AssignedGithubs == {Assigned, [Assigned EXCEPT !.roles[p][x] = None]}
AssignedResource ==
  [Ready EXCEPT !.teams = {o, x},
     !.exceptions = <<[repo |-> q, team |-> x, permission |-> "admin-ondemand"]>>]
AssignedResources == {AssignedResource}

\* Owners, teams and members are left alone.
RepoLabels(add, remove, direct) ==
  [s \in Scopes |->
     IF s = "repos" THEN "add" :> add @@ "remove" :> remove
     ELSE [t \in OperationTypes |->
             IF s = "collaborators" THEN direct ELSE "false"]]

RepoMeta ==
  [NoMeta EXCEPT !.labelled = TRUE,
     !.label = RepoLabels("true", "true", "true"),
     !.defaults = [v \in Visibilities |->
                     IF v = "private"
                     THEN <<Entry(o, "push"), Entry(x, "admin")>>
                     ELSE <<Entry(o, "push")>>]]

\* The labels of additions and removals change together: see
\* AssignmentsKept.
RepoMetas ==
  { [RepoMeta EXCEPT !.ttl = {"complete"}],
    [RepoMeta EXCEPT !.label = RepoLabels("unset", "unset", "dryRun"),
                     !.protected = {c}] }

-----------------------------------------------------------------------------
(* Convergence                                                             *)

OnePolicy ==
  [WithTTL EXCEPT !.defaults["private"] = <<Entry(o, "admin"), Entry(x, "admin-ondemand")>>]

OneMetas == {OnePolicy, [OnePolicy EXCEPT !.dryRun = TRUE]}

\* One owner too many, who is in no team and a direct collaborator; a team
\* and its assignment missing.
Mismatched ==
  { [ owners |-> {a, b}, members |-> {a, b}, teams |-> {o},
      teamMembers |-> [t \in Teams |-> IF t = o THEN {a} ELSE {}],
      roles |-> [r \in Repos |-> [t \in Teams |-> IF t = o THEN "admin" ELSE None]],
      collaborators |-> [r \in Repos |-> {b}] ] }

BothTeams == {[Ready EXCEPT !.teams = {o, x}]}

=============================================================================
