----------------------------- MODULE EtagCache ------------------------------
(***************************************************************************)
(* Conditional requests for one paginated GitHub listing, the members of a *)
(* team, and the per-organization cache behind them.                       *)
(*                                                                         *)
(* The HTTP transport keeps an ETag per URL, that is per page; the         *)
(* provider keeps the parsed list of all pages, Members() under the URL of *)
(* the first page and MembersExtended() under that key with the suffix     *)
(* "#ext".  A 304 for any page makes the provider answer from its cache.   *)
(*                                                                         *)
(* Reconcile workers of several controllers share the cache.  Every lock   *)
(* of the cache is taken for one operation only, so a call is a sequence   *)
(* of steps.  An ETag is modelled by the page it was computed from.        *)
(***************************************************************************)
EXTENDS Naturals, Sequences, FiniteSets

CONSTANTS
  Readers,      \* reconcile workers that list the members
  Kinds,        \* methods they call: "plain" (Members), "ext"
  Pages,        \* what a page of members may hold
  Empty,        \* the page after the last one
  MaxPages,     \* bound on the pages of a listing
  MaxChanges,   \* bound on the changes of the listing
  Failures,     \* what may fail: "request", "body"
  MaxFailures,  \* bound on the failures
  None          \* no ETag, no value, no entry

AllKinds    == {"plain", "ext"}
AllFailures == {"request", "body"}

ASSUME KindsAssumption    == Kinds \subseteq AllKinds
ASSUME PagesAssumption    == Empty \notin Pages /\ None \notin Pages \cup {Empty}
ASSUME FailuresAssumption == Failures \subseteq AllFailures
ASSUME BoundsAssumption   == /\ MaxPages \in Nat \ {0}
                             /\ MaxChanges \in Nat /\ MaxFailures \in Nat

Listings == UNION {[1 .. n -> Pages] : n \in 1 .. MaxPages}

\* A list assembled from several answers; it may end in empty pages.
Lists == UNION {[1 .. n -> Pages \cup {Empty}] : n \in 0 .. MaxPages}

\* Key n is the URL of page n, key 0 the first URL with the suffix "#ext".
Keys    == 0 .. MaxPages
Etags   == Pages \cup {Empty, None}
Entries == [etag : Etags, value : Lists \cup {None}]

ASSUME NoneAssumption == None \notin Lists /\ None \notin Entries

VARIABLES
  listing,   \* the members on GitHub, page by page
  entries,   \* the cache; None where a key has no entry
  call,      \* the call each reader is in
  result,    \* what the last call of each reader returned
  current,   \* the listings GitHub has had during that call
  changes, failures

vars == <<listing, entries, call, result, current, changes, failures>>

Steps == {"idle", "send", "waiting", "answered", "fallback", "dropValue",
          "dropEtag", "finish", "store"}

Calls == [ pc     : Steps,
           kind   : AllKinds,
           page   : 1 .. MaxPages,
           etag   : Etags,          \* sent, then received or kept for the store
           status : {0, 200, 304},
           last   : BOOLEAN,        \* no NextPage
           list   : Lists ]

Outcomes == {"none", "list", "inconsistent", "error"}

Results == [outcome : Outcomes, list : Lists]

TypeOK ==
  /\ listing \in Listings
  /\ entries \in [Keys -> Entries \cup {None}]
  /\ call \in [Readers -> Calls]
  /\ result \in [Readers -> Results]
  /\ current \in [Readers -> SUBSET Listings]
  /\ changes \in 0 .. MaxChanges
  /\ failures \in 0 .. MaxFailures

NoCall == [ pc |-> "idle", kind |-> "plain", page |-> 1, etag |-> None,
            status |-> 0, last |-> FALSE, list |-> <<>> ]

Init ==
  /\ listing \in Listings
  /\ entries = [k \in Keys |-> None]
  /\ call = [r \in Readers |-> NoCall]
  /\ result = [r \in Readers |-> [outcome |-> "none", list |-> <<>>]]
  /\ current = [r \in Readers |-> {}]
  /\ changes = MaxChanges
  /\ failures = MaxFailures

-----------------------------------------------------------------------------
(* The cache                                                               *)

getEtag(k)  == IF entries[k] = None THEN None ELSE entries[k].etag
getValue(k) == IF entries[k] = None THEN None ELSE entries[k].value

set(k, e, v) == entries' = [entries EXCEPT ![k] = [etag |-> e, value |-> v]]

\* Mutant: a new ETag discards the value.
setEtagAlone(k, e) == set(k, e, None)

setEtagOnly(k, e) == set(k, e, getValue(k))

invalidate(k) == entries' = [entries EXCEPT ![k] = None]

\* Where a method keeps the list it assembled.
valueKey(kind) == IF kind = "ext" THEN 0 ELSE 1

-----------------------------------------------------------------------------
(* One call                                                                *)

Page(L, p) == IF p <= Len(L) THEN L[p] ELSE Empty

Return(r, outcome, list) ==
  /\ result' = [result EXCEPT ![r] = [outcome |-> outcome, list |-> list]]
  /\ call' = [call EXCEPT ![r] = NoCall]

Begin(r, kind) ==
  /\ call[r].pc = "idle"
  /\ call' = [call EXCEPT ![r] = [NoCall EXCEPT !.pc = "send", !.kind = kind]]
  /\ current' = [current EXCEPT ![r] = {listing}]
  /\ UNCHANGED <<listing, entries, result, changes, failures>>

\* The transport adds If-None-Match when it knows an ETag of the page.
Send(r) ==
  /\ call[r].pc = "send"
  /\ call' = [call EXCEPT ![r].pc = "waiting",
                          ![r].etag = getEtag(call[r].page)]
  /\ UNCHANGED <<listing, entries, result, current, changes, failures>>

\* GitHub answers 304 when the page still has the ETag that was sent.
Answer(r) ==
  /\ call[r].pc = "waiting"
  /\ LET p == Page(listing, call[r].page)
     IN call' = [call EXCEPT
          ![r].pc     = "answered",
          ![r].status = IF call[r].etag = p THEN 304 ELSE 200,
          ![r].etag   = p,
          ![r].last   = call[r].page >= Len(listing)]
  /\ UNCHANGED <<listing, entries, result, current, changes, failures>>

\* Mutant: the pages are read on past the last one.
ReceiveOn(r) ==
  /\ call[r].pc = "answered" /\ call[r].status = 200
  /\ setEtagOnly(call[r].page, call[r].etag)
  /\ call' = [call EXCEPT ![r].pc = "send", ![r].page = @ + 1,
                          ![r].list = Append(@, call[r].etag)]
  /\ UNCHANGED <<listing, result, current, changes, failures>>

\* 200: the transport stores the page's ETag, the provider takes the page.
ReceivePage(r) ==
  /\ call[r].pc = "answered" /\ call[r].status = 200
  /\ setEtagOnly(call[r].page, call[r].etag)
  /\ LET c == [call[r] EXCEPT !.list = Append(@, call[r].etag)]
     IN call' = [call EXCEPT
          ![r] = IF c.last THEN [c EXCEPT !.pc = "finish"]
                 ELSE [c EXCEPT !.pc = "send", !.page = @ + 1, !.status = 0]]
  /\ UNCHANGED <<listing, result, current, changes, failures>>

\* The body cannot be read after the transport has stored the ETag.
FailBody(r) ==
  /\ "body" \in Failures /\ failures > 0 /\ failures' = failures - 1
  /\ call[r].pc = "answered" /\ call[r].status = 200
  /\ setEtagOnly(call[r].page, call[r].etag)
  /\ Return(r, "error", <<>>)
  /\ UNCHANGED <<listing, current, changes>>

FailRequest(r) ==
  /\ "request" \in Failures /\ failures > 0 /\ failures' = failures - 1
  /\ call[r].pc = "waiting"
  /\ Return(r, "error", <<>>)
  /\ UNCHANGED <<listing, entries, current, changes>>

ReceiveNotModified(r) ==
  /\ call[r].pc = "answered" /\ call[r].status = 304
  /\ call' = [call EXCEPT ![r].pc = "fallback"]
  /\ UNCHANGED <<listing, entries, result, current, changes, failures>>

\* Mutant: a 304 without a list is answered by asking again at once.
FallbackOrResend(r) ==
  /\ call[r].pc = "fallback"
  /\ LET v == getValue(valueKey(call[r].kind))
     IN IF v # None THEN Return(r, "list", v)
        ELSE /\ call' = [call EXCEPT ![r].pc = "send"]
             /\ UNCHANGED result
  /\ UNCHANGED <<listing, entries, current, changes, failures>>

\* 304: the list assembled last, whichever page the answer was for.
Fallback(r) ==
  /\ call[r].pc = "fallback"
  /\ LET v == getValue(valueKey(call[r].kind))
     IN IF v # None THEN Return(r, "list", v)
        ELSE /\ call' = [call EXCEPT ![r].pc = "dropValue"]
             /\ UNCHANGED result
  /\ UNCHANGED <<listing, entries, current, changes, failures>>

\* No list either: the entry is dropped, for "ext" that of the URL as well.
DropValue(r) ==
  /\ call[r].pc = "dropValue"
  /\ invalidate(valueKey(call[r].kind))
  /\ IF call[r].kind = "ext"
     THEN /\ call' = [call EXCEPT ![r].pc = "dropEtag"]
          /\ UNCHANGED result
     ELSE Return(r, "inconsistent", <<>>)
  /\ UNCHANGED <<listing, current, changes, failures>>

DropEtag(r) ==
  /\ call[r].pc = "dropEtag"
  /\ invalidate(1)
  /\ Return(r, "inconsistent", <<>>)
  /\ UNCHANGED <<listing, current, changes, failures>>

\* All pages received: the list is stored with the ETag the cache now holds
\* for the first page.
Finish(r) ==
  /\ call[r].pc = "finish"
  /\ IF getEtag(1) # None
     THEN /\ call' = [call EXCEPT ![r].pc = "store", ![r].etag = getEtag(1)]
          /\ UNCHANGED result
     ELSE Return(r, "list", call[r].list)
  /\ UNCHANGED <<listing, entries, current, changes, failures>>

\* Mutant: the list is never stored.
ForgetList(r) ==
  /\ call[r].pc = "store"
  /\ Return(r, "list", call[r].list)
  /\ UNCHANGED <<listing, entries, current, changes, failures>>

\* Mutant: a list that is there already is not replaced.
StoreFirst(r) ==
  /\ call[r].pc = "store"
  /\ IF getValue(valueKey(call[r].kind)) # None THEN UNCHANGED entries
     ELSE set(valueKey(call[r].kind), call[r].etag, call[r].list)
  /\ Return(r, "list", call[r].list)
  /\ UNCHANGED <<listing, current, changes, failures>>

Store(r) ==
  /\ call[r].pc = "store"
  /\ set(valueKey(call[r].kind), call[r].etag, call[r].list)
  /\ Return(r, "list", call[r].list)
  /\ UNCHANGED <<listing, current, changes, failures>>

\* Members join or leave the team on GitHub.
Change(L) ==
  /\ changes > 0 /\ changes' = changes - 1
  /\ L # listing
  /\ listing' = L
  /\ current' = [r \in Readers |-> IF call[r].pc = "idle" THEN current[r]
                                   ELSE current[r] \cup {L}]
  /\ UNCHANGED <<entries, call, result, failures>>

-----------------------------------------------------------------------------

Step(r) ==
  \/ \E kind \in Kinds : Begin(r, kind)
  \/ Send(r) \/ Answer(r) \/ ReceivePage(r) \/ ReceiveNotModified(r)
  \/ Fallback(r) \/ DropValue(r) \/ DropEtag(r) \/ Finish(r) \/ Store(r)

Next ==
  \/ \E r \in Readers : Step(r) \/ FailBody(r) \/ FailRequest(r)
  \/ \E L \in Listings : Change(L)

Spec == Init /\ [][Next]_vars

\* Every object is reconciled again and again, and a call goes on until it
\* returns; nobody has to change the team.
FairSpec == Spec /\ \A r \in Readers : WF_vars(Step(r))

-----------------------------------------------------------------------------
(* Properties                                                              *)

\* Every page of the list, and its end, was GitHub's at some time in L.
Observed(list, L) ==
  /\ \A p \in 1 .. Len(list) : \E l \in L : Page(l, p) = list[p]
  /\ \E l \in L : Len(l) <= Len(list)

(***************************************************************************)
(* A list that is returned is what GitHub held during the call: caching    *)
(* never serves a roster that was already outdated when the call began.    *)
(* Holds for one method of one worker, one page and complete answers: see  *)
(* the README for what happens without these.                              *)
(***************************************************************************)
FreshRead ==
  \A r \in Readers :
    call[r].pc = "idle" /\ result[r].outcome = "list"
      => Observed(result[r].list, current[r])

(***************************************************************************)
(* A new ETag is recorded "while preserving any previously cached parsed   *)
(* value [...] so that a provider-cached value is not lost before the      *)
(* provider has a chance to re-store it" (etag_cache.go:62): the list kept *)
(* under the URL goes only together with the ETag, so that the next        *)
(* request is answered in full, whatever other workers store or drop.      *)
(***************************************************************************)
ValueKept ==
  [][getValue(1) # None => getValue(1)' # None \/ getEtag(1)' = None]_vars

(***************************************************************************)
(* Every call returns, through 304s, changes of the number of pages and    *)
(* entries that other workers drop or replace meanwhile.                   *)
(***************************************************************************)
CallsReturn == \A r \in Readers : call[r].pc # "idle" ~> call[r].pc = "idle"

(***************************************************************************)
(* "Status.Members reflects the GitHub-observed roster"                    *)
(* (githubteam_controller.go:606): once the team no longer changes, the    *)
(* lists returned are its members.                                         *)
(***************************************************************************)
RosterObserved ==
  \A r \in Readers :
    <>[](result[r].outcome = "list" /\ result[r].list = listing)

=============================================================================
