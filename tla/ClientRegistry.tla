--------------------------- MODULE ClientRegistry ---------------------------
(***************************************************************************)
(* The reconcilers that keep the clients of the process: GithubReconciler  *)
(* and those of the LDAP, HTTP and static member providers, namespaced and *)
(* cluster-wide.  Each builds a client from an object's spec and a secret, *)
(* tests it, and stores it in a map in memory, from which the other        *)
(* reconcilers take it; the object's status tells what became of it.       *)
(*                                                                         *)
(* One object, one entry of the map.  A client is told by the version of   *)
(* the spec it was built from.  A restart of the process empties the map;  *)
(* so may the runtime, which ends a process that reads the unguarded map   *)
(* of GitHub clients while it is written.                                  *)
(***************************************************************************)
EXTENDS Naturals

CONSTANTS
  Kinds,       \* the kinds of objects considered
  MaxRestarts, \* bound on the number of restarts
  MaxChanges   \* bound on the number of changes from outside

AllKinds == {"github", "ldap", "http", "static"}

ASSUME KindsAssumption  == Kinds \subseteq AllKinds
ASSUME ChangeAssumption == MaxRestarts \in Nat /\ MaxChanges \in Nat

NoClient == 0

VARIABLES
  kind,       \* of the object
  object,     \* at the API server
  copy,       \* the informer's copy
  caughtUp,   \* which is the latest
  secret,     \* the secret the spec names exists
  healthy,    \* a client built now would pass its test
  client,     \* the entry of the map
  witnessed,  \* the status was written since the last restart
  r,          \* the reconciler
  restarts, changes

registryVars == <<kind, object, copy, caughtUp, secret, healthy, client,
                  witnessed, r, restarts, changes>>

Specs == 1 .. MaxChanges + 1

Object == [ exists : BOOLEAN, spec : Specs, state : {"", "running", "failed"} ]

Reconciler ==
  [ pc      : {"idle", "read", "tested", "stored"},
    spec    : Specs,
    current : BOOLEAN ]   \* nobody wrote the object since it was read

RegistryTypeOK ==
  /\ kind \in AllKinds
  /\ object \in Object /\ copy \in Object
  /\ caughtUp \in BOOLEAN /\ secret \in BOOLEAN
  /\ healthy \in BOOLEAN /\ witnessed \in BOOLEAN
  /\ client \in Specs \cup {NoClient}
  /\ r \in Reconciler
  /\ restarts \in Nat /\ changes \in Nat

Idle == [pc |-> "idle", spec |-> 1, current |-> FALSE]

RegistryInit ==
  /\ kind \in Kinds
  /\ object = [exists |-> TRUE, spec |-> 1, state |-> ""]
  /\ copy = object /\ caughtUp = TRUE
  /\ secret = TRUE /\ healthy = TRUE
  /\ client = NoClient /\ witnessed = FALSE
  /\ r = Idle
  /\ restarts = MaxRestarts /\ changes = MaxChanges

-----------------------------------------------------------------------------
(* What tells the kinds apart                                              *)

\* The GitHub client of a deleted Github stays.
Unregisters == {"ldap", "http", "static"}

\* An HTTP provider may do without; "secret" is TRUE of it then.
ReadsSecret == {"github", "ldap", "http"}

\* LDAP and HTTP connect; for GitHub the credentials are only parsed.
Tests == {"github", "ldap", "http"}

\* GithubReconciler writes the latest object in RetryOnConflict, the others
\* the one they have read.
Retries == {"github"}

-----------------------------------------------------------------------------

World == <<kind, copy, secret, healthy, restarts, changes>>

Read ==
  /\ r.pc = "idle" /\ copy.exists
  /\ r' = [pc |-> "read", spec |-> copy.spec, current |-> caughtUp]
  /\ UNCHANGED <<World, object, caughtUp, client, witnessed>>

Unregister ==
  /\ r.pc = "idle" /\ ~copy.exists
  /\ client' = IF kind \in Unregisters THEN NoClient ELSE client
  /\ UNCHANGED <<World, object, caughtUp, witnessed, r>>

\* A status write that ends the reconcile.  A conflict ends it as well: the
\* object is queued again.
FinishWith(state) ==
  /\ kind \in Retries => caughtUp
  /\ IF object.exists /\ (kind \in Retries \/ r.current)
     THEN /\ object' = [object EXCEPT !.state = state]
          /\ caughtUp' = FALSE /\ witnessed' = TRUE
     ELSE UNCHANGED <<object, caughtUp, witnessed>>
  /\ r' = Idle
  /\ UNCHANGED <<World, client>>

MissSecret ==
  /\ r.pc = "read" /\ kind \in ReadsSecret /\ ~secret
  /\ FinishWith("failed")

TestFails ==
  /\ r.pc = "read" /\ kind \in Tests /\ (secret \/ kind \notin ReadsSecret) /\ ~healthy
  /\ FinishWith("failed")

TestPasses ==
  /\ r.pc = "read"
  /\ kind \in ReadsSecret => secret
  /\ kind \in Tests => healthy
  /\ r' = [r EXCEPT !.pc = "tested"]
  /\ UNCHANGED <<World, object, caughtUp, client, witnessed>>

\* Mutant: a client that is there already is kept.
StoreOnce ==
  /\ r.pc = "tested"
  /\ client' = IF client = NoClient THEN r.spec ELSE client
  /\ r' = [r EXCEPT !.pc = "stored"]
  /\ UNCHANGED <<World, object, caughtUp, witnessed>>

\* Mutant: the client is stored when the object has been written.
StoreLater ==
  /\ r.pc = "tested"
  /\ r' = [r EXCEPT !.pc = "stored"]
  /\ UNCHANGED <<World, object, caughtUp, client, witnessed>>

Store ==
  /\ r.pc = "tested"
  /\ client' = r.spec
  /\ r' = [r EXCEPT !.pc = "stored"]
  /\ UNCHANGED <<World, object, caughtUp, witnessed>>

Announce == r.pc = "stored" /\ FinishWith("running")

RegistryWork == \/ Read \/ Unregister \/ MissSecret \/ TestFails \/ TestPasses
                \/ Store \/ Announce

-----------------------------------------------------------------------------

CatchUp ==
  /\ ~caughtUp
  /\ copy' = object /\ caughtUp' = TRUE
  /\ UNCHANGED <<kind, object, secret, healthy, client, witnessed, r, restarts, changes>>

Restart ==
  /\ restarts > 0 /\ restarts' = restarts - 1
  /\ client' = NoClient /\ witnessed' = FALSE /\ r' = Idle
  /\ UNCHANGED <<kind, object, copy, caughtUp, secret, healthy, changes>>

Changing == changes > 0 /\ changes' = changes - 1

\* The spec is edited, the object deleted or created again.
ChangeObject ==
  /\ Changing
  /\ \/ object.exists /\ object' = [object EXCEPT !.spec = @ + 1]
     \/ object.exists /\ object' = [object EXCEPT !.exists = FALSE, !.state = ""]
     \/ ~object.exists /\ object' = [object EXCEPT !.exists = TRUE, !.spec = @ + 1]
  /\ caughtUp' = FALSE
  /\ r' = [r EXCEPT !.current = FALSE]
  /\ UNCHANGED <<kind, copy, secret, healthy, client, witnessed, restarts>>

ChangeBackend ==
  /\ Changing
  /\ \/ secret' = ~secret /\ UNCHANGED healthy
     \/ healthy' = ~healthy /\ UNCHANGED secret
  /\ UNCHANGED <<kind, object, copy, caughtUp, client, witnessed, r, restarts>>

RegistryNext == RegistryWork \/ CatchUp \/ Restart \/ ChangeObject \/ ChangeBackend

-----------------------------------------------------------------------------

(***************************************************************************)
(* Who announces that it is running has a client in the map, of the spec   *)
(* announced or of an earlier one, unless the process restarted since:     *)
(* the client is stored first, and only a deletion takes it out.           *)
(***************************************************************************)
RunningIsRegistered ==
  object.exists /\ object.state = "running" /\ witnessed => client # NoClient

\* Whether clients can be built for the object as it is.
Serviceable ==
  /\ object.exists
  /\ kind \in ReadsSecret => secret
  /\ kind \in Tests => healthy

(***************************************************************************)
(* Once restarts and changes stop, the map follows the object: an object   *)
(* that can be served ends up running with a client of its latest spec,    *)
(* and a deleted provider without one.  A Github is never unregistered.    *)
(***************************************************************************)
RegistrySettles ==
  /\ <>[](Serviceable => client = object.spec /\ object.state = "running")
  /\ <>[](~object.exists /\ kind # "github" => client = NoClient)

RegistryFairness == WF_registryVars(CatchUp) /\ WF_registryVars(RegistryWork)

=============================================================================
