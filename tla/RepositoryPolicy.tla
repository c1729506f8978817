-------------------------- MODULE RepositoryPolicy --------------------------
(***************************************************************************)
(* Which teams a repository should be assigned to, and the operations that *)
(* bring it there: the change calculators for repository teams.            *)
(*                                                                         *)
(* A configuration is a sequence of [team, permission] entries: the        *)
(* default teams of the repository's visibility, unless the repository is  *)
(* on the skip list, followed by the exceptions that name it.  Teams are   *)
(* identified by their slugs, which the code derives from every name.      *)
(***************************************************************************)
EXTENDS OrganizationOperations, SequencesExt

Permissions == {"admin", "admin-ondemand", "push", "pull"}

Visibilities == {"private", "public", "internal"}

Entry(team, permission) == [team |-> team, permission |-> permission]

\* GraphQL names the base role: admin-ondemand shows as pull.
Listed(permission) ==
  IF permission = "admin-ondemand" THEN "pull" ELSE permission

\* Mutant: the observed permission is compared as it is.
PermissionsEqual(actual, configured) == actual = configured

PermissionsMatch(actual, configured) ==
  \/ actual = configured
  \/ configured = "admin-ondemand" /\ actual = "pull"

Configuration(repo, defaults, exceptions, skip) ==
  (IF repo \in skip THEN <<>> ELSE defaults) \o
    Keep(exceptions, {i \in DOMAIN exceptions : exceptions[i].repo = repo})

-----------------------------------------------------------------------------
(* Operations for one repository.  `listed' maps teams to the permission   *)
(* GitHub reports, or None.                                                *)

Removal(ops, repo, team) ==
  IF Exists(ops, "remove", repo, team) THEN <<>>
  ELSE <<NewOp("remove", repo, team, None)>>

Addition(ops, repo, entry) ==
  IF Exists(ops, "add", repo, entry.team) THEN <<>>
  ELSE <<NewOp("add", repo, entry.team, entry.permission)>>

\* Mutant: the new permission is given before the old one is taken.
CorrectionAddFirst(ops, repo, entry) ==
  Addition(ops, repo, entry) \o Removal(ops, repo, entry.team)

Correction(ops, repo, entry) ==
  Removal(ops, repo, entry.team) \o Addition(ops, repo, entry)

FromConfiguration(ops, repo, listed, entry) ==
  CASE listed[entry.team] = None -> Addition(ops, repo, entry)
    [] /\ listed[entry.team] # None
       /\ ~PermissionsMatch(listed[entry.team], entry.permission)
         -> Correction(ops, repo, entry)
    [] OTHER -> <<>>

\* A team found on the repository is corrected once more, and removed when
\* no entry names it.
FromListing(ops, repo, listed, config, team) ==
  LET Own   == {i \in DOMAIN config : config[i].team = team}
      wrong == Keep(config, {i \in Own :
                 ~PermissionsMatch(listed[team], config[i].permission)})
  IN  IF Own = {} THEN Removal(ops, repo, team)
      ELSE FlattenSeq([i \in DOMAIN wrong |-> Correction(ops, repo, wrong[i])])

RepositoryPlan(ops, repo, listed, config) ==
  LET teams == SetToSeq({t \in DOMAIN listed : listed[t] # None})
  IN  FlattenSeq([i \in DOMAIN config |->
                    FromConfiguration(ops, repo, listed, config[i])])
      \o FlattenSeq([i \in DOMAIN teams |->
                       FromListing(ops, repo, listed, config, teams[i])])

\* The repositories of one visibility, unless it has no default teams.
Compared(visibility, policy, v) ==
  {r \in DOMAIN visibility : visibility[r] = v /\ policy.defaults[v] # <<>>}

(***************************************************************************)
(* RepoChangeCalculator: `policy' has the default teams per visibility,    *)
(* the skip list and the exceptions; `visibility' maps the repositories    *)
(* that were listed, `roles' their teams.                                  *)
(***************************************************************************)
RepositoryChanges(ops, visibility, roles, policy) ==
  LET Plan(v) ==
        LET repos == SetToSeq(Compared(visibility, policy, v))
        IN  FlattenSeq([i \in DOMAIN repos |->
              RepositoryPlan(ops, repos[i], roles[repos[i]],
                Configuration(repos[i], policy.defaults[v],
                              policy.exceptions, policy.skip))])
  IN  Plan("private") \o Plan("public") \o Plan("internal")

\* What the policy asks of a repository, stated without the calculator.
Conforms(repo, listed, v, policy) ==
  LET config == Configuration(repo, policy.defaults[v],
                              policy.exceptions, policy.skip)
  IN  policy.defaults[v] # <<>> =>
        /\ \A t \in DOMAIN listed :
             listed[t] # None => \E i \in DOMAIN config : config[i].team = t
        /\ \A i \in DOMAIN config :
             /\ listed[config[i].team] # None
             /\ PermissionsMatch(listed[config[i].team], config[i].permission)

=============================================================================
