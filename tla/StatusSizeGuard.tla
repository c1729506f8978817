-------------------------- MODULE StatusSizeGuard --------------------------
(***************************************************************************)
(* safeStatusUpdate, through which a GithubOrganization writes its status: *)
(* a status that is too large loses completed operations, the older the    *)
(* first, and is not written at all when that does not suffice.            *)
(*                                                                         *)
(* The five lists of operations are one sequence here, since nothing but   *)
(* state, age and size matters.  Ages and TTLs are counted in steps of the *)
(* clock; a call takes the time once, so the clock stands still meanwhile. *)
(* What the reconciler does between two calls is reduced to what changes   *)
(* the operations: planning, and executing those that are pending, which   *)
(* is done once more when the write of its outcome was refused.            *)
(***************************************************************************)
EXTENDS UserOperations, SequencesExt

CONSTANTS
  Limit,      \* statusPayloadSafetyBytes
  Floor,      \* statusPayloadMinTTL
  Labels,     \* the values of the completedTTL label
  MaxOps,     \* bound on the operations in the status
  MaxBatch,   \* bound on the operations planned at once
  MaxFaults,  \* bound on the operations and the writes that fail
  MaxEdits    \* bound on the edits of the label

Invalid == 0  \* a label that is missing or no duration

ASSUME LimitsAssumption == Limit \in Nat /\ Floor \in Nat \ {0}
ASSUME LabelsAssumption == IsFiniteSet(Labels) /\ Labels \subseteq Nat
ASSUME BoundsAssumption == {MaxOps, MaxBatch, MaxFaults, MaxEdits} \subseteq Nat

\* An age beyond which nothing changes.
Oldest == Max(Labels \cup {Floor}) + 1

Op == [state : {"pending", "complete", "failed"}, age : 0 .. Oldest]

VARIABLES
  stored,    \* the operations at the API server
  label,     \* the completedTTL label
  draft,     \* the operations the reconciler wants to write
  current,   \* what is left of them
  ttl,       \* the TTL in use
  atFloor,   \* it is the shortest one
  note,      \* the truncation annotation has been written
  pc,
  faults, edits

call    == <<draft, current, ttl, atFloor>>
budgets == <<faults, edits>>
vars    == <<stored, label, call, note, pc, budgets>>

TypeOK ==
  /\ stored \in Seq(Op) /\ draft \in Seq(Op) /\ current \in Seq(Op)
  /\ label \in Labels /\ ttl \in {0, label} \cup Floor .. Oldest
  /\ atFloor \in BOOLEAN /\ note \in BOOLEAN
  /\ pc \in {"idle", "measure", "shrink", "annotate", "write"}
  /\ faults \in Nat /\ edits \in Nat

Init ==
  /\ stored = <<>> /\ draft = <<>> /\ current = <<>>
  /\ label \in Labels
  /\ ttl = 0 /\ atFloor = FALSE
  /\ note = FALSE
  /\ pc = "idle"
  /\ faults = MaxFaults /\ edits = MaxEdits

-----------------------------------------------------------------------------

\* The outcome of an operation takes as much room again as the plan.
statusPayloadBytes(ops) ==
  Len(ops) + Cardinality({i \in DOMAIN ops : ops[i].state # "pending"})

Oversized(ops) == statusPayloadBytes(ops) > Limit

\* applyUserOpsTTL and its siblings for completed operations.
AppliedTTL(ops, age) ==
  WithoutPositions(ops, {i \in InState(ops, "complete") : ops[i].age > age})

Submit(ops) ==
  /\ pc = "idle"
  /\ draft' = ops /\ pc' = "measure"
  /\ UNCHANGED <<stored, label, current, ttl, atFloor, note, edits>>

\* The reconciler's side: a new batch is planned when none is pending ...
Plan ==
  /\ ~PendingOperationsFound(stored)
  /\ \E n \in 1 .. MaxBatch :
       /\ Len(stored) + n <= MaxOps
       /\ Submit(stored \o [i \in 1 .. n |-> [state |-> "pending", age |-> 0]])
  /\ UNCHANGED faults

\* ... and executed when one is, which some operations may survive badly.
Execute ==
  /\ PendingOperationsFound(stored)
  /\ \E failing \in SUBSET InState(stored, "pending") :
       /\ Cardinality(failing) <= faults
       /\ faults' = faults - Cardinality(failing)
       /\ Submit([i \in DOMAIN stored |->
                    IF stored[i].state # "pending" THEN stored[i]
                    ELSE [state |-> IF i \in failing THEN "failed" ELSE "complete",
                          age |-> 0]])

\* The cleanup at the start of a reconcile.
Clean ==
  /\ label # Invalid /\ AppliedTTL(stored, label) # stored
  /\ Submit(AppliedTTL(stored, label))
  /\ UNCHANGED faults

-----------------------------------------------------------------------------
(* safeStatusUpdate                                                        *)

Return ==
  /\ draft' = <<>> /\ current' = <<>> /\ ttl' = 0 /\ atFloor' = FALSE
  /\ pc' = "idle"

\* RetryOnConflict around Get and Status().Update.
Save(ops) ==
  /\ \/ stored' = ops /\ UNCHANGED faults
     \/ faults > 0 /\ faults' = faults - 1 /\ UNCHANGED stored
  /\ Return
  /\ UNCHANGED <<label, note, edits>>

WriteAsItIs == pc = "measure" /\ ~Oversized(draft) /\ Save(draft)

RefuseWithoutTTL ==
  /\ pc = "measure" /\ Oversized(draft) /\ label = Invalid
  /\ Return
  /\ UNCHANGED <<stored, label, note, budgets>>

StartShrinking ==
  /\ pc = "measure" /\ Oversized(draft) /\ label # Invalid
  /\ current' = draft /\ ttl' = label /\ atFloor' = FALSE
  /\ pc' = "shrink"
  /\ UNCHANGED <<stored, label, draft, note, budgets>>

\* Mutant: the last halving ends below the floor.
HalvedUnclamped(age) == age \div 2

Halved(age) == IF age \div 2 < Floor THEN Floor ELSE age \div 2

\* Mutant: the floor is never noticed.
ReachesNoFloor(age) == FALSE

ReachesFloor(age) == age \div 2 < Floor

\* Mutant: the operations older than the floor are left when it is reached.
ShrinkBelowOnly ==
  /\ pc = "shrink" /\ Oversized(current) /\ ~atFloor
  /\ ttl' = Halved(ttl) /\ atFloor' = ReachesFloor(ttl)
  /\ current' = IF atFloor' THEN current ELSE AppliedTTL(current, ttl')
  /\ UNCHANGED <<stored, label, draft, note, pc, budgets>>

Shrink ==
  /\ pc = "shrink" /\ Oversized(current) /\ ~atFloor
  /\ ttl' = Halved(ttl) /\ atFloor' = ReachesFloor(ttl)
  /\ current' = AppliedTTL(current, ttl')
  /\ UNCHANGED <<stored, label, draft, note, pc, budgets>>

GiveUp ==
  /\ pc = "shrink" /\ Oversized(current) /\ atFloor
  /\ Return
  /\ UNCHANGED <<stored, label, note, budgets>>

Fits ==
  /\ pc = "shrink" /\ ~Oversized(current)
  /\ pc' = "annotate"
  /\ UNCHANGED <<stored, label, call, note, budgets>>

\* The annotation comes before the status; its failure is only logged.
Annotate ==
  /\ pc = "annotate"
  /\ \/ note' = TRUE /\ UNCHANGED faults
     \/ faults > 0 /\ faults' = faults - 1 /\ UNCHANGED note
  /\ pc' = "write"
  /\ UNCHANGED <<stored, label, call, edits>>

\* Mutant: the status is written as it came.
WriteDraft == pc = "write" /\ Save(draft)

WriteShrunk == pc = "write" /\ Save(current)

-----------------------------------------------------------------------------

\* The clock; the age of other operations is of no interest.
Age ==
  /\ pc = "idle"
  /\ stored' = [i \in DOMAIN stored |->
                  IF stored[i].state = "complete" /\ stored[i].age < Oldest
                  THEN [stored[i] EXCEPT !.age = @ + 1] ELSE stored[i]]
  /\ UNCHANGED <<label, call, note, pc, budgets>>

EditLabel ==
  /\ pc = "idle" /\ edits > 0 /\ edits' = edits - 1
  /\ label' \in Labels \ {label}
  /\ UNCHANGED <<stored, call, note, pc, faults>>

Guard == \/ WriteAsItIs \/ RefuseWithoutTTL \/ StartShrinking \/ Shrink
         \/ GiveUp \/ Fits \/ Annotate \/ WriteShrunk

Next == Plan \/ Execute \/ Clean \/ Guard \/ Age \/ EditLabel

Spec == Init /\ [][Next]_vars

(***************************************************************************)
(* A call goes on until it returns; the reconciler comes back as long as   *)
(* something is pending (an error is retried) and the clock runs.          *)
(***************************************************************************)
FairSpec == Spec /\ WF_vars(Guard) /\ SF_vars(Execute) /\ SF_vars(Age /\ stored' # stored)

-----------------------------------------------------------------------------

(***************************************************************************)
(* What reaches the API server fits, whatever the label says.              *)
(***************************************************************************)
StoredFits == ~Oversized(stored)

\* The TTLs that the halving of `age' runs through, down to the floor.
Halvings(age) ==
  LET ages == 0 .. (IF age < Floor THEN Floor ELSE age)
      AllHalvings(S) == /\ Halved(age) \in S
                        /\ \A a \in S : a > Floor => Halved(a) \in S
  IN  {t \in ages : \A S \in SUBSET ages : AllHalvings(S) => t \in S}

(***************************************************************************)
(* An oversized status loses exactly what one cleanup would drop with the  *)
(* longest TTL that makes it fit, of those that halving the label's runs   *)
(* through: completed operations older than that, never one younger than   *)
(* the floor, and nothing that is pending or failed.                       *)
(***************************************************************************)
DropsLeast ==
  [][pc # "idle" /\ stored' # stored /\ Oversized(draft)
     => LET good == {t \in Halvings(label) : ~Oversized(AppliedTTL(draft, t))}
        IN  /\ good # {} /\ \A t \in good : t >= Floor
            /\ stored' = AppliedTTL(draft, Max(good))]_vars

(***************************************************************************)
(* Every call returns.                                                     *)
(***************************************************************************)
CallsReturn == pc # "idle" ~> pc = "idle"

(***************************************************************************)
(* The outcome of an execution is recorded in the end, even when its write *)
(* is refused at first and the execution repeated: completed operations    *)
(* grow old enough to make room.  Holds with a valid label and when those  *)
(* that cannot be dropped, the failed and the new ones, fit.               *)
(***************************************************************************)
OutcomeRecorded ==
  <>[](label # Invalid) => (PendingOperationsFound(stored) ~> ~PendingOperationsFound(stored))

=============================================================================
