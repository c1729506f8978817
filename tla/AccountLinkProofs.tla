------------------------- MODULE AccountLinkProofs -------------------------
(***************************************************************************)
(* Facts about AccountLink and the ClientRegistry it takes its client      *)
(* from, for every kind of object, every set of organizations, domains and *)
(* configurations, and any number of restarts, changes and failures.       *)
(***************************************************************************)
EXTENDS AccountLink, TLAPS

-----------------------------------------------------------------------------
(* The inductive invariants                                                *)

\* The changes still to come bound the versions of the spec.
SpecsLast == object.spec + changes <= MaxChanges + 1

\* The informer's copy is out of date only when it says so, and a reconciler
\* believes to be up to date only when the informer is.
CopyTells == /\ caughtUp => copy = object
             /\ r.current => caughtUp

\* An object that does not exist, or not yet for the informer, has no status:
\* whoever writes one has seen the object.
StatusIsSeen == ~(object.exists /\ copy.exists) => object.state = ""

\* A client that is about to be announced is in the map.
StoredFirst == r.pc = "stored" => client # NoClient

RegistryInv ==
  /\ RegistryTypeOK /\ SpecsLast
  /\ CopyTells /\ StatusIsSeen /\ StoredFirst
  /\ RunningIsRegistered

\* What is still to check, and what has been changed, is enabled in the
\* configuration the reconcile started with.
WorkIsEnabled ==
  /\ l.todo \subseteq Enabled(l.config)
  /\ l.pc = "email" => l.org \in l.todo

LinkCopyTells == linkFresh => linkCopy = link

\* The results in the hands of the reconciler are those of the annotation,
\* but for those it has renewed.
ResultsCarried ==
  l.pc # "idle" =>
    \A o \in Orgs :
      l.results[o] # link.results[o]
      => o \in Enabled(l.config) /\ l.results[o] # Unchecked

LinkInv == LinkTypeOK /\ WorkIsEnabled

CarriedInv == LinkCopyTells /\ ResultsCarried

-----------------------------------------------------------------------------
(* The registry                                                            *)

\* The versions of a spec are numbers.
LEMMA SpecsAreNumbers ==
  MaxChanges \in Nat /\ 1 \in Specs /\ NoClient \notin Specs /\ \A n \in Specs : n \in Nat
BY ChangeAssumption DEF Specs, NoClient

\* Where a reconciler starts.
LEMMA IdleIsReconciler == Idle \in Reconciler /\ ~Idle.current /\ Idle.pc = "idle"
BY SpecsAreNumbers DEF Idle, Reconciler

\* A status write keeps the invariant, when a client precedes "running".
LEMMA FinishKeepsRegistry ==
  ASSUME RegistryInv, NEW state \in {"running", "failed"}, FinishWith(state),
         state = "running" => client # NoClient
  PROVE  RegistryInv'
<1> USE DEF RegistryInv, FinishWith, World
<1>1. CASE object.exists /\ (kind \in Retries \/ r.current)
  <2>1. caughtUp /\ copy = object /\ copy.exists
    BY <1>1 DEF CopyTells
  <2>2. /\ object \in Object
        /\ object' = [object EXCEPT !.state = state] 
        /\ caughtUp' = FALSE /\ witnessed' = TRUE
        /\ r' = Idle
        /\ UNCHANGED <<client, kind, copy, secret, healthy, restarts, changes>>
    BY <1>1 DEF RegistryTypeOK
  <2>3. object' \in Object /\ object'.spec = object.spec /\ object'.exists /\ object'.state = state
    BY <1>1, <2>2 DEF Object
  <2>4. RegistryTypeOK'
    BY <2>2, <2>3, IdleIsReconciler DEF RegistryTypeOK
  <2>5. SpecsLast' /\ CopyTells' /\ StoredFirst'
    BY <2>2, <2>3 DEF SpecsLast, CopyTells, StoredFirst, Idle
  <2>6. StatusIsSeen' /\ RunningIsRegistered'
    BY <2>1, <2>2, <2>3 DEF StatusIsSeen, RunningIsRegistered
  <2> QED
    BY <2>4, <2>5, <2>6
<1>2. CASE ~(object.exists /\ (kind \in Retries \/ r.current))
  <2>1. r' = Idle /\ UNCHANGED <<object, caughtUp, witnessed, client, kind, copy,
                                 secret, healthy, restarts, changes>>
    BY <1>2
  <2>2. RegistryTypeOK'
    BY <2>1, IdleIsReconciler DEF RegistryTypeOK
  <2>3. SpecsLast' /\ StatusIsSeen' /\ RunningIsRegistered'
    BY <2>1 DEF SpecsLast, StatusIsSeen, RunningIsRegistered
  <2>4. CopyTells' /\ StoredFirst'
    BY <2>1, IdleIsReconciler DEF CopyTells, StoredFirst
  <2> QED
    BY <2>2, <2>3, <2>4
<1> QED
  BY <1>1, <1>2

\* An outside change is counted.
LEMMA ChangingCounts ==
  ASSUME RegistryInv, Changing
  PROVE  /\ changes \in Nat /\ changes > 0 /\ changes' = changes - 1
         /\ changes' \in Nat /\ changes' <= changes
<1>1. changes \in Nat /\ changes > 0 /\ changes' = changes - 1
  BY DEF RegistryInv, RegistryTypeOK, Changing
<1> QED
  BY <1>1

\* Every step of the registry keeps its invariant.
LEMMA RegistryStep ==
  ASSUME RegistryInv, RegistryNext
  PROVE  RegistryInv'
<1> USE DEF RegistryInv
<1>1. CASE Read
  <2>1. r' \in Reconciler /\ r'.pc = "read" /\ r'.current = caughtUp
    BY <1>1 DEF Read, RegistryTypeOK, Object, Reconciler
  <2>2. UNCHANGED <<kind, copy, secret, healthy, restarts, changes, object,
                    caughtUp, client, witnessed>>
    BY <1>1 DEF Read, World
  <2>3. RegistryTypeOK'
    BY <2>1, <2>2 DEF RegistryTypeOK
  <2> QED
    BY <2>1, <2>2, <2>3 DEF SpecsLast, CopyTells, StatusIsSeen, StoredFirst,
       RunningIsRegistered
<1>2. CASE Unregister
  <2>1. /\ object.state = "" /\ client' \in Specs \cup {NoClient} /\ r.pc = "idle"
        /\ UNCHANGED <<kind, copy, secret, healthy, restarts, changes, object,
                       caughtUp, witnessed, r>>
    BY <1>2 DEF Unregister, World, StatusIsSeen, RegistryTypeOK
  <2>2. RegistryTypeOK'
    BY <2>1 DEF RegistryTypeOK
  <2> QED
    BY <2>1, <2>2 DEF SpecsLast, CopyTells, StatusIsSeen, StoredFirst,
       RunningIsRegistered
<1>3. CASE MissSecret \/ TestFails
  BY <1>3, FinishKeepsRegistry DEF MissSecret, TestFails
<1>4. CASE TestPasses
  <2>1. /\ r' \in Reconciler /\ r'.pc = "tested" /\ r'.current = r.current
        /\ UNCHANGED <<kind, copy, secret, healthy, restarts, changes, object,
                       caughtUp, client, witnessed>>
    BY <1>4 DEF TestPasses, World, RegistryTypeOK, Reconciler
  <2>2. RegistryTypeOK'
    BY <2>1 DEF RegistryTypeOK
  <2> QED
    BY <2>1, <2>2 DEF SpecsLast, CopyTells, StatusIsSeen, StoredFirst,
       RunningIsRegistered
<1>5. CASE Store
  <2>1. /\ r' \in Reconciler /\ r'.pc = "stored" /\ r'.current = r.current
        /\ client' \in Specs /\ client' # NoClient
        /\ UNCHANGED <<kind, copy, secret, healthy, restarts, changes, object,
                       caughtUp, witnessed>>
    BY <1>5, SpecsAreNumbers DEF Store, World, RegistryTypeOK, Reconciler
  <2>2. RegistryTypeOK'
    BY <2>1 DEF RegistryTypeOK
  <2> QED
    BY <2>1, <2>2 DEF SpecsLast, CopyTells, StatusIsSeen, StoredFirst,
       RunningIsRegistered
<1>6. CASE Announce
  BY <1>6, FinishKeepsRegistry DEF Announce, StoredFirst
<1>7. CASE CatchUp
  <2>1. /\ copy' = object /\ caughtUp' = TRUE
        /\ UNCHANGED <<kind, object, secret, healthy, client, witnessed, r,
                       restarts, changes>>
    BY <1>7 DEF CatchUp
  <2>2. RegistryTypeOK'
    BY <2>1 DEF RegistryTypeOK
  <2>3. ~object.exists => object.state = ""
    BY DEF StatusIsSeen
  <2> QED
    BY <2>1, <2>2, <2>3 DEF SpecsLast, CopyTells, StatusIsSeen, StoredFirst,
       RunningIsRegistered
<1>8. CASE Restart
  <2>1. /\ restarts' \in Nat /\ r' = Idle /\ client' = NoClient /\ witnessed' = FALSE
        /\ UNCHANGED <<kind, object, copy, caughtUp, secret, healthy, changes>>
    BY <1>8 DEF Restart, RegistryTypeOK
  <2>2. RegistryTypeOK'
    BY <2>1, IdleIsReconciler DEF RegistryTypeOK
  <2> QED
    BY <2>1, <2>2 DEF SpecsLast, CopyTells, StatusIsSeen, StoredFirst,
       RunningIsRegistered, Idle
<1>9. CASE ChangeObject
  <2>0. changes \in Nat /\ changes' \in Nat /\ changes' = changes - 1 /\ changes > 0
    BY <1>9, ChangingCounts DEF ChangeObject
  <2>1. /\ caughtUp' = FALSE
        /\ r \in Reconciler /\ r' = [r EXCEPT !.current = FALSE]
        /\ UNCHANGED <<kind, copy, secret, healthy, client, witnessed, restarts>>
    BY <1>9 DEF ChangeObject, RegistryTypeOK
  <2>2. r' \in Reconciler /\ r'.pc = r.pc /\ ~r'.current
    BY <2>1 DEF Reconciler
  <2>3. object \in Object /\ object.spec + 1 \in Specs
    <3>1. object \in Object /\ object.spec \in Specs
      BY DEF RegistryTypeOK, Object
    <3> QED
      BY <2>0, <3>1, SpecsAreNumbers DEF SpecsLast, Specs
  <2>4. /\ object' \in Object /\ object'.spec + changes' <= MaxChanges + 1
        /\ \/ object'.exists = object.exists /\ object'.state = object.state
           \/ object'.state = ""
    <3>1. object.spec \in Nat /\ object.spec + changes <= MaxChanges + 1
      BY <2>3, SpecsAreNumbers DEF SpecsLast, Object
    <3>2. CASE object.exists /\ object' = [object EXCEPT !.spec = @ + 1]
      <4>1. /\ object' \in Object /\ object'.spec = object.spec + 1
            /\ object'.exists = object.exists /\ object'.state = object.state
        BY <2>3, <3>2 DEF Object
      <4>2. (object.spec + 1) + (changes - 1) <= MaxChanges + 1
        BY <2>0, <3>1, SpecsAreNumbers
      <4> QED
        BY <2>0, <4>1, <4>2
    <3>3. CASE object.exists /\ object' = [object EXCEPT !.exists = FALSE, !.state = ""]
      <4>1. object' \in Object /\ object'.spec = object.spec /\ object'.state = ""
        BY <2>3, <3>3 DEF Object
      <4>2. object.spec + (changes - 1) <= MaxChanges + 1
        BY <2>0, <3>1, SpecsAreNumbers
      <4> QED
        BY <2>0, <4>1, <4>2
    <3>4. CASE ~object.exists /\ object' = [object EXCEPT !.exists = TRUE, !.spec = @ + 1]
      <4>1. object.state = ""
        BY <3>4 DEF StatusIsSeen
      <4>2. object' \in Object /\ object'.spec = object.spec + 1 /\ object'.state = ""
        BY <2>3, <3>4, <4>1 DEF Object
      <4>3. (object.spec + 1) + (changes - 1) <= MaxChanges + 1
        BY <2>0, <3>1, SpecsAreNumbers
      <4> QED
        BY <2>0, <4>2, <4>3
    <3> QED
      BY <1>9, <3>2, <3>3, <3>4 DEF ChangeObject
  <2>5. RegistryTypeOK'
    BY <2>0, <2>1, <2>2, <2>4 DEF RegistryTypeOK
  <2>6. StatusIsSeen'
    BY <2>1, <2>4 DEF StatusIsSeen
  <2>7. SpecsLast' /\ CopyTells' /\ StoredFirst' /\ RunningIsRegistered'
    BY <2>0, <2>1, <2>2, <2>4 DEF SpecsLast, CopyTells, StoredFirst, RunningIsRegistered
  <2> QED
    BY <2>5, <2>6, <2>7
<1>10. CASE ChangeBackend
  <2>0. changes \in Nat /\ changes' \in Nat /\ changes' <= changes
    BY <1>10, ChangingCounts DEF ChangeBackend
  <2>1. /\ changes' \in Nat /\ changes' <= changes
        /\ secret' \in BOOLEAN /\ healthy' \in BOOLEAN
        /\ UNCHANGED <<kind, object, copy, caughtUp, client, witnessed, r, restarts>>
    BY <1>10, <2>0 DEF ChangeBackend, RegistryTypeOK
  <2>2. RegistryTypeOK'
    BY <2>1 DEF RegistryTypeOK
  <2>3. SpecsLast'
    <3>1. object.spec \in Nat
      BY SpecsAreNumbers DEF RegistryTypeOK, Object
    <3> QED
      BY <2>0, <2>1, <3>1, SpecsAreNumbers DEF SpecsLast
  <2> QED
    BY <2>1, <2>2, <2>3 DEF CopyTells, StatusIsSeen, StoredFirst, RunningIsRegistered
<1> QED
  BY <1>1, <1>2, <1>3, <1>4, <1>5, <1>6, <1>7, <1>8, <1>9, <1>10
     DEF RegistryNext, RegistryWork

\* The reconciler of the account link only reads the registry.
LEMMA LinkReadsRegistry ==
  LinkWork \/ CheckFails \/ LinkCatchUp => UNCHANGED registryVars
BY DEF LinkWork, Begin, WaitForClient, Stop, Skip, CheckMembership, CheckEmail,
   Record, Save, CheckFails, LinkCatchUp, registryVars

\* Steps that leave the registry alone.
LEMMA RegistryUntouched ==
  ASSUME RegistryInv, UNCHANGED registryVars
  PROVE  RegistryInv'
BY DEF RegistryInv, registryVars, RegistryTypeOK, SpecsLast, CopyTells, StatusIsSeen,
   StoredFirst, RunningIsRegistered

\* A change that GitHub or the user of the link makes counts as one.
LEMMA LinkChangesCount ==
  ASSUME RegistryInv, ChangeLink
  PROVE  RegistryInv'
<1>1. /\ changes' \in Nat /\ changes' <= changes /\ changes \in Nat
      /\ UNCHANGED <<kind, object, copy, caughtUp, secret, healthy, client, witnessed,
                     r, restarts>>
  BY ChangingCounts DEF ChangeLink
<1>2. RegistryTypeOK'
  BY <1>1 DEF RegistryInv, RegistryTypeOK
<1>3. SpecsLast'
  <2>1. object.spec \in Nat /\ object.spec + changes <= MaxChanges + 1
    BY SpecsAreNumbers DEF RegistryInv, RegistryTypeOK, Object, SpecsLast
  <2>2. object.spec + changes' <= MaxChanges + 1
    BY <1>1, <2>1, SpecsAreNumbers
  <2> QED
    BY <1>1, <2>2 DEF SpecsLast
<1> QED
  BY <1>1, <1>2, <1>3 DEF RegistryInv, CopyTells, StatusIsSeen, StoredFirst,
     RunningIsRegistered

(***************************************************************************)
(* What the registry keeps true: types, versions and who has seen what.    *)
(***************************************************************************)
THEOREM RegistryAlways == Spec => []RegistryInv
<1>1. Init => RegistryInv
  <2> SUFFICES ASSUME Init PROVE RegistryInv
    OBVIOUS
  <2>1. /\ kind \in AllKinds /\ object = [exists |-> TRUE, spec |-> 1, state |-> ""]
        /\ copy = object /\ caughtUp = TRUE /\ secret = TRUE /\ healthy = TRUE
        /\ client = NoClient /\ witnessed = FALSE /\ r = Idle
        /\ restarts \in Nat /\ changes = MaxChanges /\ MaxChanges \in Nat
    BY KindsAssumption, ChangeAssumption DEF Init, RegistryInit
  <2>2. RegistryTypeOK
    BY <2>1, SpecsAreNumbers, IdleIsReconciler DEF RegistryTypeOK, Object
  <2>3. SpecsLast
    <3>1. object.spec = 1 /\ changes = MaxChanges
      BY <2>1
    <3>2. 1 + MaxChanges <= MaxChanges + 1
      BY SpecsAreNumbers
    <3> QED
      BY <3>1, <3>2 DEF SpecsLast
  <2>4. CopyTells /\ StatusIsSeen /\ StoredFirst /\ RunningIsRegistered
    BY <2>1, IdleIsReconciler DEF CopyTells, StatusIsSeen, StoredFirst, RunningIsRegistered
  <2> QED
    BY <2>2, <2>3, <2>4 DEF RegistryInv
<1>2. RegistryInv /\ [Next]_vars => RegistryInv'
  <2> SUFFICES ASSUME RegistryInv, [Next]_vars PROVE RegistryInv'
    OBVIOUS
  <2>1. CASE LinkWork \/ CheckFails \/ LinkCatchUp
    BY <2>1, LinkReadsRegistry, RegistryUntouched
  <2>2. CASE ChangeLink
    BY <2>2, LinkChangesCount
  <2>3. CASE RegistryNext
    BY <2>3, RegistryStep
  <2>4. CASE UNCHANGED vars
    BY <2>4, RegistryUntouched DEF vars
  <2> QED
    BY <2>1, <2>2, <2>3, <2>4 DEF Next, RegistryNext
<1> QED
  BY <1>1, <1>2, PTL DEF Spec

(***************************************************************************)
(* Whatever the kind of the object, an object that says it is running, in  *)
(* a status written since the last restart, has a client in the map, in    *)
(* whatever order the object is edited, deleted and created again while a  *)
(* reconcile is under way.                                                 *)
(***************************************************************************)
THEOREM RunningIsAlwaysRegistered == Spec => []RunningIsRegistered
<1>1. RegistryInv => RunningIsRegistered
  BY DEF RegistryInv
<1> QED
  BY <1>1, RegistryAlways, PTL

-----------------------------------------------------------------------------
(* The account link                                                        *)

\* A configuration that exists makes the worker at rest a worker.
LEMMA RestIsWorker ==
  ASSUME NEW c \in Config
  PROVE  /\ Rest \in Worker /\ Rest.pc = "idle" /\ Rest.todo = {}
         /\ [o \in Orgs |-> Unchecked] \in [Orgs -> Result]
<1>1. ASSUME NEW o \in Orgs PROVE Unchecked \in Result
  <2>1. c[o].domain \in Domains
    BY DEF Config, Entry
  <2>2. (CHOOSE d \in Domains : TRUE) \in Domains
    BY <2>1
  <2> QED
    BY <2>2 DEF Unchecked, Result
<1>2. [o \in Orgs |-> Unchecked] \in [Orgs -> Result]
  BY <1>1
<1>3. (CHOOSE d \in Config : TRUE) \in Config
  OBVIOUS
<1> QED
  BY <1>2, <1>3 DEF Rest, Worker

\* An answer is recorded for an organization that was still to check.
LEMMA RecordWorks ==
  ASSUME LinkInv, NEW o \in l.todo, NEW verdict \in Verdicts, Record(o, verdict)
  PROVE  /\ o \in Enabled(l.config)
         /\ l' \in Worker /\ l'.pc = "checking" /\ l'.config = l.config
         /\ l'.todo = l.todo \ {o}
         /\ l'.results[o] # Unchecked
         /\ \A p \in Orgs : p # o => l'.results[p] = l.results[p]
         /\ UNCHANGED <<link, linkFresh, Surroundings, failures>>
<1>1. l \in Worker /\ o \in Orgs /\ o \in Enabled(l.config)
  BY DEF LinkInv, LinkTypeOK, WorkIsEnabled, Worker, Enabled
<1> DEFINE answer == [domain |-> l.config[o].domain, status |-> verdict]
<1>2. answer \in Result /\ answer # Unchecked
  <2>1. l.config[o].domain \in Domains
    BY <1>1 DEF Worker, Config, Entry
  <2>2. verdict # "none"
    BY DEF Verdicts
  <2>3. answer \in Result
    BY <2>1 DEF Result
  <2>4. answer.status # Unchecked.status
    BY <2>2 DEF Unchecked
  <2> QED
    BY <2>3, <2>4
<1> HIDE DEF answer
<1>3. l' = [l EXCEPT !.pc = "checking", !.todo = @ \ {o}, !.org = None,
                     !.results[o] = answer]
  BY DEF Record, answer
<1>4. l'.results = [l.results EXCEPT ![o] = answer] /\ l'.pc = "checking"
      /\ l'.config = l.config /\ l'.todo = l.todo \ {o}
  BY <1>1, <1>3 DEF Worker
<1>5. l' \in Worker
  BY <1>1, <1>2, <1>3 DEF Worker
<1>6. l.results \in [Orgs -> Result]
  BY <1>1 DEF Worker
<1>7. /\ l'.results[o] = answer
      /\ \A p \in Orgs : p # o => l'.results[p] = l.results[p]
  BY <1>1, <1>4, <1>6
<1> QED
  BY <1>1, <1>2, <1>4, <1>5, <1>7 DEF Record

\* Every step of the account link keeps its types.
LEMMA LinkStep ==
  ASSUME LinkInv, RegistryInv, [Next]_vars
  PROVE  LinkInv'
<1>1. /\ link \in Link /\ linkCopy \in Link /\ l \in Worker /\ failures \in Nat
      /\ link.config \in Config /\ linkCopy.config \in Config
      /\ linkCopy.results \in [Orgs -> Result]
  BY DEF LinkInv, LinkTypeOK, Link
<1>2. /\ Rest \in Worker /\ Rest.pc = "idle" /\ Rest.todo = {}
  BY <1>1, RestIsWorker
<1> DEFINE Same == UNCHANGED <<link, linkCopy, linkFresh, installed, member, emails>>
<1>3. ASSUME l' = Rest, Same, failures' \in Nat
      PROVE  LinkInv'
  BY <1>2, <1>3 DEF LinkInv, LinkTypeOK, WorkIsEnabled
<1>4. ASSUME NEW o \in l.todo, NEW verdict \in Verdicts, Record(o, verdict),
             l.pc # "email" \/ l.org = o
      PROVE  LinkInv'
  <2>1. Same /\ failures' = failures
    BY <1>4, RecordWorks DEF Surroundings
  <2>2. l' \in Worker /\ l'.pc = "checking" /\ l'.todo \subseteq l.todo /\ l'.config = l.config
    BY <1>4, RecordWorks
  <2> QED
    BY <2>1, <2>2 DEF LinkInv, LinkTypeOK, WorkIsEnabled, Enabled
<1>5. ASSUME NEW expired \in SUBSET Orgs, Begin(expired)
      PROVE  LinkInv'
  <2> DEFINE due == Unknown(linkCopy.config, linkCopy.results) \cup expired
  <2>1. due \in SUBSET Orgs /\ due \subseteq Enabled(linkCopy.config)
    BY <1>5 DEF Begin, Unknown, Expirable, Enabled
  <2> HIDE DEF due
  <2>2. l' = [pc |-> "checking", config |-> linkCopy.config,
              results |-> linkCopy.results, todo |-> due, org |-> None]
    BY <1>5 DEF Begin, due
  <2>3. Same /\ failures' = failures
    BY <1>5 DEF Begin, Surroundings
  <2>4. l' \in Worker
    BY <1>1, <2>1, <2>2 DEF Worker
  <2>5. WorkIsEnabled'
    BY <2>1, <2>2 DEF WorkIsEnabled, Enabled
  <2> QED
    BY <2>3, <2>4, <2>5 DEF LinkInv, LinkTypeOK
<1>6. CASE WaitForClient
  BY <1>1, <1>3, <1>6 DEF WaitForClient, Stop, Surroundings
<1>7. ASSUME NEW o \in Orgs, Skip(o) \/ CheckMembership(o)
      PROVE  LinkInv'
  <2>1. CASE Skip(o)
    BY <1>4, <2>1 DEF Skip, Verdicts
  <2>2. CASE CheckMembership(o) /\ o \notin member
    BY <1>4, <2>2 DEF CheckMembership, Verdicts
  <2>3. CASE CheckMembership(o) /\ o \in member
    <3>1. l' = [l EXCEPT !.pc = "email", !.org = o] /\ o \in l.todo
          /\ Same /\ failures' = failures
      BY <2>3 DEF CheckMembership, Surroundings
    <3>2. l' \in Worker /\ l'.org = o /\ l'.todo = l.todo /\ l'.config = l.config
      BY <1>1, <3>1 DEF Worker
    <3> QED
      BY <3>1, <3>2 DEF LinkInv, LinkTypeOK, WorkIsEnabled, Enabled
  <2> QED
    BY <1>7, <2>1, <2>2, <2>3
<1>8. CASE CheckEmail
  <2>1. l.org \in l.todo
    BY <1>8 DEF CheckEmail, LinkInv, WorkIsEnabled
  <2> DEFINE verdict == IF l.config[l.org].domain \in emails THEN "verified" ELSE "no"
  <2>2. verdict \in Verdicts /\ Record(l.org, verdict)
    BY <1>8 DEF CheckEmail, Verdicts
  <2> QED
    BY <1>4, <2>1, <2>2
<1>9. CASE Save
  <2>1. /\ l' = Rest /\ link' = [link EXCEPT !.results = l.results]
        /\ linkFresh' = FALSE /\ failures' = failures
        /\ UNCHANGED <<linkCopy, installed, member, emails>>
    BY <1>9 DEF Save, Surroundings, Kept
  <2>2. link' \in Link
    BY <1>1, <2>1 DEF Link, Worker
  <2> QED
    BY <1>2, <2>1, <2>2 DEF LinkInv, LinkTypeOK, WorkIsEnabled
<1>10. CASE CheckFails
  <2>1. failures' \in Nat
    BY <1>1, <1>10 DEF CheckFails
  <2> QED
    BY <1>3, <1>10, <2>1 DEF CheckFails, Stop, Surroundings
<1>11. CASE LinkCatchUp
  BY <1>11 DEF LinkCatchUp, LinkInv, LinkTypeOK, WorkIsEnabled, Enabled
<1>12. CASE ChangeLink
  <2>1. UNCHANGED <<linkCopy, l, failures>>
    BY <1>12 DEF ChangeLink
  <2>2. WorkIsEnabled'
    BY <2>1 DEF LinkInv, WorkIsEnabled, Enabled
  <2>3. /\ link' \in Link /\ linkFresh' \in BOOLEAN
        /\ installed' \subseteq Orgs /\ member' \subseteq Orgs /\ emails' \subseteq Domains
    <3>1. ASSUME NEW c \in Configs PROVE [link EXCEPT !.config = c] \in Link
      BY <1>1, ConfigsAssumption DEF Link
    <3> QED
      BY <1>12, <3>1 DEF ChangeLink, LinkInv, LinkTypeOK
  <2> QED
    BY <1>1, <2>1, <2>2, <2>3 DEF LinkInv, LinkTypeOK
<1>13. CASE UNCHANGED linkVars
  BY <1>13 DEF linkVars, LinkInv, LinkTypeOK, WorkIsEnabled, Enabled
<1>14. CASE Restart /\ l' = Rest /\ UNCHANGED <<link, linkFresh, Surroundings, failures>>
  BY <1>1, <1>3, <1>14 DEF Surroundings
<1> QED
  BY <1>5, <1>6, <1>7, <1>8, <1>9, <1>10, <1>11, <1>12, <1>13, <1>14
     DEF Next, LinkWork, vars

\* What the reconciler holds, besides what it has renewed, is the annotation.
LEMMA CarriedStep ==
  ASSUME LinkInv, CarriedInv, StaleReads = FALSE, [Next]_vars
  PROVE  CarriedInv'
<1>1. /\ link \in Link /\ l \in Worker
      /\ Rest.pc = "idle"
  BY RestIsWorker DEF LinkInv, LinkTypeOK, Link, Rest
<1>2. ASSUME l' = Rest, UNCHANGED <<link, linkCopy, linkFresh>>
      PROVE  CarriedInv'
  BY <1>1, <1>2 DEF CarriedInv, LinkCopyTells, ResultsCarried
<1>3. ASSUME NEW o \in l.todo, NEW verdict \in Verdicts, Record(o, verdict), l.pc # "idle"
      PROVE  CarriedInv'
  <2>1. /\ UNCHANGED <<link, linkCopy, linkFresh>> /\ l'.config = l.config
        /\ o \in Enabled(l.config) /\ l'.results[o] # Unchecked
        /\ \A p \in Orgs : p # o => l'.results[p] = l.results[p]
    BY <1>3, RecordWorks DEF Surroundings
  <2>2. LinkCopyTells'
    BY <2>1 DEF CarriedInv, LinkCopyTells
  <2>3. ASSUME NEW p \in Orgs, l'.results[p] # link.results[p]
        PROVE  p \in Enabled(l.config) /\ l'.results[p] # Unchecked
    BY <1>3, <2>1, <2>3 DEF CarriedInv, ResultsCarried
  <2>4. ResultsCarried'
    BY <2>1, <2>3 DEF ResultsCarried
  <2> QED
    BY <2>2, <2>4 DEF CarriedInv
<1>4. ASSUME NEW expired \in SUBSET Orgs, Begin(expired)
      PROVE  CarriedInv'
  <2>1. linkFresh /\ linkCopy = link /\ l'.results = link.results
        /\ UNCHANGED <<link, linkCopy, linkFresh>>
    BY <1>4 DEF Begin, Surroundings, CarriedInv, LinkCopyTells
  <2> QED
    BY <2>1 DEF CarriedInv, LinkCopyTells, ResultsCarried
<1>5. CASE WaitForClient \/ CheckFails
  BY <1>2, <1>5 DEF WaitForClient, CheckFails, Stop, Surroundings
<1>6. ASSUME NEW o \in Orgs, Skip(o) \/ CheckMembership(o)
      PROVE  CarriedInv'
  <2>1. CASE Skip(o)
    BY <1>3, <2>1 DEF Skip, Verdicts
  <2>2. CASE CheckMembership(o) /\ o \notin member
    BY <1>3, <2>2 DEF CheckMembership, Verdicts
  <2>3. CASE CheckMembership(o) /\ o \in member
    <3>1. l' = [l EXCEPT !.pc = "email", !.org = o] /\ l.pc # "idle"
          /\ UNCHANGED <<link, linkCopy, linkFresh>>
      BY <2>3 DEF CheckMembership, Surroundings
    <3>2. l'.results = l.results /\ l'.config = l.config
      BY <1>1, <3>1 DEF Worker
    <3> QED
      BY <3>1, <3>2 DEF CarriedInv, LinkCopyTells, ResultsCarried, Enabled
  <2> QED
    BY <1>6, <2>1, <2>2, <2>3
<1>7. CASE CheckEmail
  <2>1. l.org \in l.todo /\ l.pc # "idle"
    BY <1>7 DEF CheckEmail, LinkInv, WorkIsEnabled
  <2> DEFINE verdict == IF l.config[l.org].domain \in emails THEN "verified" ELSE "no"
  <2>2. verdict \in Verdicts /\ Record(l.org, verdict)
    BY <1>7 DEF CheckEmail, Verdicts
  <2> QED
    BY <1>3, <2>1, <2>2
<1>8. CASE Save
  BY <1>1, <1>8 DEF Save, CarriedInv, LinkCopyTells, ResultsCarried
<1>9. CASE LinkCatchUp
  BY <1>9 DEF LinkCatchUp, CarriedInv, LinkCopyTells, ResultsCarried, Enabled
<1>10. CASE ChangeLink
  <2>1. l' = l /\ linkCopy' = linkCopy /\ link'.results = link.results
    BY <1>1, <1>10 DEF ChangeLink, Link
  <2>2. LinkCopyTells'
    BY <1>10, <2>1 DEF ChangeLink, CarriedInv, LinkCopyTells
  <2> QED
    BY <2>1, <2>2 DEF CarriedInv, ResultsCarried, Enabled
<1>11. CASE UNCHANGED linkVars
  BY <1>11 DEF linkVars, CarriedInv, LinkCopyTells, ResultsCarried, Enabled
<1>12. CASE Restart /\ l' = Rest /\ UNCHANGED <<link, linkFresh, Surroundings, failures>>
  BY <1>2, <1>12 DEF Surroundings
<1> QED
  BY <1>4, <1>5, <1>6, <1>7, <1>8, <1>9, <1>10, <1>11, <1>12
     DEF Next, LinkWork, vars

\* A step that changes a result writes what the reconciler has renewed.
LEMMA StepKeepsResults ==
  ASSUME LinkInv, CarriedInv, [Next]_vars, NEW o \in Orgs,
         link'.results[o] # link.results[o]
  PROVE  o \in Enabled(l.config) /\ link'.results[o] # Unchecked
<1>1. link \in Link
  BY DEF LinkInv, LinkTypeOK
<1>2. CASE Save
  <2>1. link'.results = l.results /\ l.pc # "idle"
    BY <1>1, <1>2 DEF Save, Link, Kept
  <2> QED
    BY <2>1 DEF CarriedInv, ResultsCarried
<1>3. ~Save => link'.results = link.results
  <2>1. CASE ChangeLink
    BY <1>1, <2>1 DEF ChangeLink, Link
  <2>2. ASSUME ~Save, ~ChangeLink PROVE link' = link
    BY <2>2 DEF Next, LinkWork, Begin, WaitForClient, Stop, Skip, CheckMembership,
       CheckEmail, Record, CheckFails, LinkCatchUp, linkVars, vars
  <2> QED
    BY <2>1, <2>2
<1> QED
  BY <1>2, <1>3

\* Initially nothing is in anybody's hands.
LEMMA LinkInit ==
  ASSUME Init
  PROVE  LinkInv /\ CarriedInv
<1>1. PICK c \in Configs : link = [config |-> c, results |-> [o \in Orgs |-> Unchecked]]
  BY DEF Init
<1>2. c \in Config
  BY ConfigsAssumption
<1>3. /\ Rest \in Worker /\ Rest.pc = "idle" /\ Rest.todo = {}
      /\ [o \in Orgs |-> Unchecked] \in [Orgs -> Result]
  BY <1>2, RestIsWorker
<1>4. link \in Link
  BY <1>1, <1>2, <1>3 DEF Link
<1> QED
  BY <1>3, <1>4, FailureAssumption
     DEF Init, LinkInv, LinkTypeOK, WorkIsEnabled, CarriedInv, LinkCopyTells, ResultsCarried

(***************************************************************************)
(* Type correctness of the two reconcilers together.                       *)
(***************************************************************************)
THEOREM TypeCorrect == Spec => []TypeOK
<1>1. Init => LinkInv
  BY LinkInit
<1>2. LinkInv /\ RegistryInv /\ [Next]_vars => LinkInv'
  BY LinkStep
<1>3. LinkInv /\ RegistryInv => TypeOK
  BY DEF LinkInv, RegistryInv, TypeOK
<1> QED
  BY <1>1, <1>2, <1>3, RegistryAlways, PTL DEF Spec

(***************************************************************************)
(* A reconcile that starts from an up-to-date cache never takes a result   *)
(* back and changes those of enabled organizations only, whatever the user *)
(* edits meanwhile and for any number of organizations and domains.        *)
(***************************************************************************)
THEOREM ResultsAreKept ==
  ASSUME StaleReads = FALSE
  PROVE  Spec => ResultsKept
<1>1. Init => LinkInv /\ CarriedInv
  BY LinkInit
<1>2. LinkInv /\ RegistryInv /\ [Next]_vars => LinkInv'
  BY LinkStep
<1>3. LinkInv /\ CarriedInv /\ [Next]_vars => CarriedInv'
  BY CarriedStep
<1>4. LinkInv /\ CarriedInv /\ [Next]_vars
      => [\A o \in Orgs :
            link'.results[o] # link.results[o]
            => o \in Enabled(l.config) /\ link'.results[o] # Unchecked]_vars
  BY StepKeepsResults
<1> QED
  BY <1>1, <1>2, <1>3, <1>4, RegistryAlways, PTL DEF Spec, ResultsKept

=============================================================================
