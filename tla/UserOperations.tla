--------------------------- MODULE UserOperations ---------------------------
(***************************************************************************)
(* The list of user operations a GithubTeam or a GithubOrganization keeps  *)
(* in its status, and the pure functions that read and rewrite it.         *)
(*                                                                         *)
(* An operation is the code's GithubUserOperation without its error text   *)
(* and its timestamp: whether the timestamp is older than a TTL is decided *)
(* by the caller, who passes the positions that have expired.  GitHub      *)
(* logins are compared without regard to case everywhere in the code, so a *)
(* user here stands for a login in lower case.                             *)
(***************************************************************************)
EXTENDS Naturals, Sequences, FiniteSets

OperationTypes == {"add", "remove"}

\* States an operation never leaves by being executed.
TerminalStates == {"complete", "skipped", "failed", "notfound"}

OperationStates == {"pending"} \cup TerminalStates

Operation(Users) ==
  [operation : OperationTypes, user : Users, state : OperationStates]

NewOperation(type, u) == [operation |-> type, user |-> u, state |-> "pending"]

-----------------------------------------------------------------------------

InState(ops, s) == {i \in DOMAIN ops : ops[i].state = s}

PendingOperationsFound(ops) == InState(ops, "pending") # {}

FailedOperationsFound(ops) == InState(ops, "failed") # {}

(***************************************************************************)
(* The states that keep the change calculator from queueing an operation   *)
(* of this type once more for the same user.  A failed operation is absent *)
(* from both: it is queued again.                                          *)
(***************************************************************************)
Suppressing(type) ==
  {"pending", "complete", "skipped"} \cup
    (IF type = "add" THEN {"notfound"} ELSE {})

\* Mutant: an operation that was skipped is queued once more.
OperationUnderway(ops, type, u) ==
  \E i \in DOMAIN ops : /\ ops[i].user = u
                        /\ ops[i].operation = type
                        /\ ops[i].state \in Suppressing(type) \ {"skipped"}

OperationExists(ops, type, u) ==
  \E i \in DOMAIN ops : /\ ops[i].user = u
                        /\ ops[i].operation = type
                        /\ ops[i].state \in Suppressing(type)

\* At most one operation of a type and user is live: a second one is queued
\* only once the first has failed.
OneLive(ops) ==
  \A i, j \in DOMAIN ops :
    /\ i # j
    /\ ops[i].operation = ops[j].operation /\ ops[i].user = ops[j].user
    => \/ ops[i].state \notin Suppressing(ops[i].operation)
       \/ ops[j].state \notin Suppressing(ops[j].operation)

-----------------------------------------------------------------------------

\* The position of k among the kept positions K, counted from 1.
Rank(K, k) == Cardinality({i \in K : i <= k})

(***************************************************************************)
(* The elements of s at the positions K, in the order of s.                *)
(***************************************************************************)
Keep(s, K) ==
  [j \in 1 .. Cardinality(K) |-> s[CHOOSE k \in K : Rank(K, k) = j]]

\* The list once the operations at the positions `expired' are dropped.
WithoutPositions(ops, expired) == Keep(ops, DOMAIN ops \ expired)

WithoutPending(ops) == WithoutPositions(ops, InState(ops, "pending"))

\* Every pending operation turned into a completed one.
CompletePending(ops) ==
  [i \in DOMAIN ops |-> IF ops[i].state = "pending"
                        THEN [ops[i] EXCEPT !.state = "complete"]
                        ELSE ops[i]]

\* All orders in which the members of a set can be queued.
Orders(S) ==
  {f \in [1 .. Cardinality(S) -> S] :
     \A i, j \in 1 .. Cardinality(S) : f[i] = f[j] => i = j}

\* One pending operation per user of the sequence us.
Queue(type, us) == [i \in 1 .. Len(us) |-> NewOperation(type, us[i])]

=============================================================================
