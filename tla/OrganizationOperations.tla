----------------------- MODULE OrganizationOperations -----------------------
(***************************************************************************)
(* The five lists of operations a GithubOrganization keeps in its status,  *)
(* one per scope, and the pure functions that read and rewrite them.       *)
(*                                                                         *)
(* The code has four types of operation.  They are one record here: "name" *)
(* is the user or the team the operation is about, "repo" the repository   *)
(* of an operation in the last two scopes it applies to, "locked" says     *)
(* that the error text of a skipped operation mentions a locked repository *)
(* and "permission" is the one an added team gets.                         *)
(***************************************************************************)
EXTENDS UserOperations

\* The scopes in the order their operations are executed in.
ScopeOrder == <<"owners", "teams", "repos", "members", "collaborators">>
Scopes     == {"owners", "teams", "repos", "members", "collaborators"}

None == "none"    \* no repository, no permission

NewOp(type, repo, name, permission) ==
  [ operation |-> type, repo |-> repo, name |-> name,
    permission |-> permission, state |-> "pending", locked |-> FALSE ]

NoOperations == [s \in Scopes |-> <<>>]

-----------------------------------------------------------------------------

PendingFound(lists) == \E s \in Scopes : PendingOperationsFound(lists[s])
FailedFound(lists)  == \E s \in Scopes : FailedOperationsFound(lists[s])

\* Mutant: only the failures are looked at.
StateIgnoringPending(lists) ==
  IF FailedFound(lists) THEN "failed" ELSE "complete"

\* Mutant: the state of an operation is taken for one of the organization.
StateOfOperation(lists) ==
  IF PendingFound(lists) THEN "pending"
  ELSE IF FailedFound(lists) THEN "failed" ELSE "skipped"

StateFromOperations(lists) ==
  IF PendingFound(lists) THEN "pending"
  ELSE IF FailedFound(lists) THEN "failed" ELSE "complete"

\* The lists without the operations at the positions `gone' of each scope.
Without(lists, gone) ==
  [s \in Scopes |-> WithoutPositions(lists[s], gone[s])]

CleanOperations(lists, state) ==
  Without(lists, [s \in Scopes |-> InState(lists[s], state)])

-----------------------------------------------------------------------------
(* What the change calculators queue.                                      *)

\* Owners, teams and repositories: an operation in any state counts.
Exists(ops, type, repo, name) ==
  \E i \in DOMAIN ops : /\ ops[i].operation = type
                        /\ ops[i].repo = repo /\ ops[i].name = name

\* Members and collaborators: a completed operation does not count.
Awaited(ops, repo, name) ==
  \E i \in DOMAIN ops :
    /\ ops[i].repo = repo /\ ops[i].name = name
    /\ ops[i].state \in {"pending", "failed", "skipped"}

QueueOps(type, names) ==
  [i \in 1 .. Len(names) |-> NewOp(type, None, names[i], None)]

(***************************************************************************)
(* OwnerChangeCalculator and TeamChangeCalculator: the possible results,   *)
(* one per order of the two lists compared.                                *)
(***************************************************************************)
Differences(ops, observed, wanted) ==
  LET Missing(type, S) == {n \in S : ~Exists(ops, type, None, n)}
  IN  { QueueOps("add", a) \o QueueOps("remove", r) :
          a \in Orders(Missing("add", wanted \ observed)),
          r \in Orders(Missing("remove", observed \ wanted)) }

\* OrganizationMemberChangeCalculator; `lists' is teamObservationsCount.
MemberRemovals(ops, members, exempt, lists) ==
  LET Removed == {u \in members \ exempt : ~Awaited(ops, None, u)}
  IN  IF lists = 0 THEN {<<>>}
      ELSE {QueueOps("remove", r) : r \in Orders(Removed)}

\* RepositoryDirectCollaboratorChangeCalculator; `direct' has the pairs of
\* repository and collaborator that could be listed.
CollaboratorRemovals(ops, direct, exempt) ==
  LET Removed == {p \in direct : p[2] \notin exempt /\ ~Awaited(ops, p[1], p[2])}
  IN  { [i \in 1 .. Len(o) |-> NewOp("remove", o[i][1], o[i][2], None)] :
          o \in Orders(Removed) }

-----------------------------------------------------------------------------
(* Revival of skipped operations.                                          *)

\* The skipped ones among the operations at `positions' are pending again.
Revived(ops, positions) ==
  [i \in DOMAIN ops |-> IF ops[i].state = "skipped" /\ i \in positions
                        THEN [ops[i] EXCEPT !.state = "pending"] ELSE ops[i]]

=============================================================================
