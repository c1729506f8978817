-------------------------- MODULE AnnouncedChanges --------------------------
(***************************************************************************)
(* What a reconciler that keeps its operations in a status promises: it    *)
(* changes the world only in the way of a change that is outstanding,      *)
(* which means recorded where every user can read it before anything       *)
(* happens, and one such change at a time.                                 *)
(*                                                                         *)
(* The world maps subjects to values.  A change says what the value of one *)
(* subject becomes; one that takes a value away may take those that depend *)
(* on it along.  The changes others make to the world are told from the    *)
(* reconciler's by `outside', which only they move.                        *)
(***************************************************************************)

CONSTANTS
  Subjects,    \* what may change
  Nothing      \* the value of what is absent

VARIABLES
  outstanding, \* a set of changes [subject, value]
  world,       \* a function on Subjects
  outside      \* differs after every outside change

variables == <<outstanding, world, outside>>

\* Changes are recorded, or struck off: done, given up or forgotten.
Record ==
  /\ outstanding \subseteq outstanding' \/ outstanding' \subseteq outstanding
  /\ UNCHANGED <<world, outside>>

Apply(change) ==
  /\ world'[change.subject] = change.value
  /\ \A s \in Subjects \ {change.subject} :
       world'[s] # world[s] => change.value = Nothing /\ world'[s] = Nothing
  /\ UNCHANGED <<outstanding, outside>>

OutsideChange == outside' # outside /\ UNCHANGED outstanding

Next ==
  \/ Record
  \/ \E change \in outstanding : Apply(change)
  \/ OutsideChange

Start == outstanding = {}

Spec == Start /\ [][Next]_variables

=============================================================================
