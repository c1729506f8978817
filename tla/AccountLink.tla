---------------------------- MODULE AccountLink ----------------------------
(***************************************************************************)
(* GithubAccountLinkReconciler: for the organizations that an annotation   *)
(* of a GithubAccountLink names it asks GitHub whether the user is a       *)
(* member with a verified e-mail address in a domain, and keeps the        *)
(* results in a second annotation, which decides whom the teams of the     *)
(* organization admit.                                                     *)
(*                                                                         *)
(* It takes its GitHub client from the map that ClientRegistry fills.      *)
(***************************************************************************)
EXTENDS ClientRegistry, FiniteSets

CONSTANTS
  Orgs,        \* organizations
  Domains,     \* e-mail domains
  Configs,     \* the configurations a user may give
  StaleReads,  \* TRUE: a reconcile may start from a cache that lags
  MaxFailures  \* bound on the calls that fail

None == "none"

Entry  == [enabled : BOOLEAN, domain : Domains, ttl : BOOLEAN]
Config == [Orgs -> Entry]

Verdicts == {"verified", "not-part-of-org", "no", "skipped"}
Result   == [domain : Domains, status : Verdicts \cup {"none"}]

\* What stands for a missing result.
Unchecked == [domain |-> CHOOSE d \in Domains : TRUE, status |-> "none"]

ASSUME OrgsAssumption    == IsFiniteSet(Orgs) /\ IsFiniteSet(Domains)
ASSUME ConfigsAssumption == Configs \subseteq Config
ASSUME FailureAssumption == StaleReads \in BOOLEAN /\ MaxFailures \in Nat

VARIABLES
  link,       \* the annotations at the API server
  linkCopy,   \* the informer's copy
  linkFresh,  \* which is the latest
  installed,  \* the organizations with a GithubOrganization
  member,     \* the organizations the user belongs to
  emails,     \* the domains the user has a verified address in
  l,          \* the reconciler
  failures

linkVars == <<link, linkCopy, linkFresh, installed, member, emails, l, failures>>
vars     == <<registryVars, linkVars>>

Link == [config : Config, results : [Orgs -> Result]]

Worker ==
  [ pc      : {"idle", "checking", "email"},
    config  : Config,
    results : [Orgs -> Result],
    todo    : SUBSET Orgs,
    org     : Orgs \cup {None} ]

Rest ==
  [ pc |-> "idle", results |-> [o \in Orgs |-> Unchecked], todo |-> {}, org |-> None,
    config |-> CHOOSE c \in Config : TRUE ]

LinkTypeOK ==
  /\ link \in Link /\ linkCopy \in Link /\ linkFresh \in BOOLEAN
  /\ installed \subseteq Orgs /\ member \subseteq Orgs /\ emails \subseteq Domains
  /\ l \in Worker
  /\ failures \in Nat

TypeOK == RegistryTypeOK /\ LinkTypeOK

Init ==
  /\ RegistryInit
  /\ \E c \in Configs : link = [config |-> c, results |-> [o \in Orgs |-> Unchecked]]
  /\ linkCopy = link /\ linkFresh = TRUE
  /\ installed = Orgs /\ member = Orgs /\ emails \in {Domains, {}}
  /\ kind # "github" => emails = {}
  /\ l = Rest
  /\ failures = MaxFailures

-----------------------------------------------------------------------------

Surroundings == <<linkCopy, installed, member, emails>>

Stop == l' = Rest /\ UNCHANGED <<registryVars, link, linkFresh, Surroundings>>

Enabled(config) == {o \in Orgs : config[o].enabled}

Unknown(config, results) ==
  {o \in Enabled(config) : results[o] = Unchecked}

\* Results with a TTL may have expired.
Expirable(config, results) ==
  {o \in Enabled(config) : results[o] # Unchecked /\ config[o].ttl}

\* A reconcile that finds something to check: a result is missing or one of
\* `expired' is too old.
Begin(expired) ==
  LET due == Unknown(linkCopy.config, linkCopy.results) \cup expired
  IN  /\ l.pc = "idle" /\ (linkFresh \/ StaleReads)
      /\ expired \subseteq Expirable(linkCopy.config, linkCopy.results)
      /\ due # {}
      /\ l' = [pc |-> "checking", config |-> linkCopy.config,
               results |-> linkCopy.results, todo |-> due, org |-> None]
      /\ UNCHANGED <<registryVars, link, linkFresh, Surroundings, failures>>

Registered == kind = "github" /\ client # NoClient

\* Results obtained so far are lost.
WaitForClient ==
  /\ l.pc = "checking" /\ l.todo # {} /\ ~Registered
  /\ Stop
  /\ UNCHANGED failures

Record(o, verdict) ==
  /\ l' = [l EXCEPT !.pc = "checking", !.todo = @ \ {o}, !.org = None,
                    !.results[o] = [domain |-> l.config[o].domain, status |-> verdict]]
  /\ UNCHANGED <<registryVars, link, linkFresh, Surroundings, failures>>

\* Mutant: no status is set for an organization that is not installed.
SkipUntold(o) ==
  /\ l.pc = "checking" /\ o \in l.todo /\ Registered /\ o \notin installed
  /\ Record(o, "")

\* No GithubOrganization: GitHub is not asked.
Skip(o) ==
  /\ l.pc = "checking" /\ o \in l.todo /\ Registered /\ o \notin installed
  /\ Record(o, "skipped")

CheckMembership(o) ==
  /\ l.pc = "checking" /\ o \in l.todo /\ Registered /\ o \in installed
  /\ IF o \in member
     THEN /\ l' = [l EXCEPT !.pc = "email", !.org = o]
          /\ UNCHANGED <<registryVars, link, linkFresh, Surroundings, failures>>
     ELSE Record(o, "not-part-of-org")

CheckEmail ==
  /\ l.pc = "email"
  /\ Record(l.org, IF l.config[l.org].domain \in emails THEN "verified" ELSE "no")

\* A call fails: the reconcile ends, and what it has obtained is lost.
CheckFails ==
  /\ l.pc # "idle"
  /\ failures > 0 /\ failures' = failures - 1
  /\ Stop

\* Mutant: results that were not renewed are dropped.
KeepOnlyRenewed(results) ==
  [o \in Orgs |-> IF results[o] = linkCopy.results[o] THEN Unchecked ELSE results[o]]

Kept(results) == results

\* The annotation of the latest object is overwritten as a whole.
Save ==
  /\ l.pc = "checking" /\ l.todo = {}
  /\ linkFresh
  /\ link' = [link EXCEPT !.results = Kept(l.results)] /\ linkFresh' = FALSE
  /\ l' = Rest
  /\ UNCHANGED <<registryVars, Surroundings, failures>>

LinkWork ==
  \/ \E expired \in SUBSET Orgs : Begin(expired)
  \/ WaitForClient
  \/ \E o \in Orgs : Skip(o) \/ CheckMembership(o)
  \/ CheckEmail \/ Save

-----------------------------------------------------------------------------

LinkCatchUp ==
  /\ ~linkFresh
  /\ linkCopy' = link /\ linkFresh' = TRUE
  /\ UNCHANGED <<registryVars, link, installed, member, emails, l, failures>>

\* The user edits the configuration; the account or the organizations change.
\* Without a GitHub there is nobody to ask about them.
ChangeLink ==
  /\ Changing /\ kind = "github"
  /\ \/ /\ \E c \in Configs \ {link.config} : link' = [link EXCEPT !.config = c]
        /\ linkFresh' = FALSE
        /\ UNCHANGED <<installed, member, emails>>
     \/ /\ \E o \in Orgs : \/ member' = member \ {o}
                           \/ member' = member \cup {o}
        /\ UNCHANGED <<link, linkFresh, installed, emails>>
     \/ /\ \E d \in Domains : emails' \in {emails \ {d}, emails \cup {d}}
        /\ UNCHANGED <<link, linkFresh, installed, member>>
     \/ /\ installed' \in {Orgs, {}}
        /\ UNCHANGED <<link, linkFresh, member, emails>>
  /\ UNCHANGED <<kind, object, copy, caughtUp, secret, healthy, client, witnessed,
                 r, restarts, linkCopy, l, failures>>

Next ==
  \/ LinkWork \/ CheckFails \/ LinkCatchUp \/ ChangeLink
  \/ (RegistryWork \/ CatchUp \/ ChangeObject \/ ChangeBackend) /\ UNCHANGED linkVars
  \/ Restart /\ l' = Rest
     /\ UNCHANGED <<link, linkFresh, Surroundings, failures>>

Spec == Init /\ [][Next]_vars

-----------------------------------------------------------------------------
(* The filter of the teams                                                 *)

\* Mutant: the domain a result is about is not looked at.
AdmitsAnyDomain(results, o, domain) ==
  /\ results[o] # Unchecked
  /\ results[o].status \in {"verified", "not-part-of-org"}

\* extendGreenhouseMembersWithGithubUsernames: team of organization o, for
\* which a verified address in `domain' is required; results in the format of
\* older versions are left out.
Admits(results, o, domain) ==
  /\ results[o] # Unchecked /\ results[o].domain = domain
  /\ results[o].status \in {"verified", "not-part-of-org"}

-----------------------------------------------------------------------------

(***************************************************************************)
(* A reconcile changes the results of enabled organizations only, and      *)
(* never takes a result back: those it did not renew survive the           *)
(* overwriting of the annotation.  Holds when it starts from an up-to-date *)
(* cache.                                                                  *)
(***************************************************************************)
ResultsKept ==
  [][\A o \in Orgs :
       link'.results[o] # link.results[o]
       => o \in Enabled(l.config) /\ link'.results[o] # Unchecked]_vars

\* What GitHub would answer the team's question at the moment.
Deserves(o, domain) == o \in installed /\ (o \notin member \/ domain \in emails)

(***************************************************************************)
(* Once changes, restarts and failures stop, a team admits the user if and *)
(* only if GitHub knows a verified address in the team's domain or the     *)
(* user is still to join; for enabled organizations whose results have a   *)
(* TTL, as long as a client can be built, also after the configured domain *)
(* has changed.                                                            *)
(***************************************************************************)
AdmissionSettles ==
  <>[](\A o \in Orgs :
         /\ kind = "github" /\ Serviceable
         /\ link.config[o].enabled /\ link.config[o].ttl
         => \A d \in Domains :
              Admits(link.results, o, d) <=> d = link.config[o].domain /\ Deserves(o, d))

(***************************************************************************)
(* The reconcilers go on, at the latest at the resync; the informers catch *)
(* up; a result with a TTL is found expired in the end.                    *)
(***************************************************************************)
FairSpec ==
  /\ Spec
  /\ WF_vars(CatchUp /\ UNCHANGED linkVars)
  /\ WF_vars(RegistryWork /\ UNCHANGED linkVars)
  /\ WF_vars(LinkCatchUp) /\ WF_vars(LinkWork)
  /\ \A o \in Orgs : SF_vars(\E expired \in SUBSET Orgs : o \in expired /\ Begin(expired))

=============================================================================
