--------------------------- MODULE MemberListing ---------------------------
(***************************************************************************)
(* The HTTP member provider: one client, shared by all reconcile workers,  *)
(* that lists a group page by page and authorizes each request with an     *)
(* OAuth token it keeps.  Token and expiry are two fields of the client    *)
(* read and written without a lock; the group changes between two pages.   *)
(*                                                                         *)
(* Time is counted in ticks.  What is left of a token's life, and of the   *)
(* time the client keeps it, counts down; a worker on its way from the     *)
(* look at the token to its request is held up by at most MaxDelay ticks.  *)
(* A listing without pagination is one whose first page holds everybody.   *)
(***************************************************************************)
EXTENDS Integers, FiniteSets, SequencesExt

CONSTANTS
  Workers,      \* reconcile workers that share the client
  Users,        \* members the directory may list
  Groups,       \* the members at first, in the directory's order
  PageSize,     \* users on a page
  Half,         \* half of a token's life, in ticks
  MaxDelay,     \* ticks an authorization may take
  FaultKinds,   \* what may go wrong: see Fault
  MaxFaults,    \* bound on the number of faults
  MaxChanges    \* bound on the number of changes of the group

AllFaults == {"refused", "request", "revoked", "shape", "torn"}

ASSUME SizesAssumption == /\ IsFiniteSet(Users) /\ PageSize \in Nat \ {0}
                          /\ Groups \subseteq {s \in Seq(Users) : IsInjective(s)}
                          /\ FaultKinds \subseteq AllFaults
                          /\ MaxFaults \in Nat /\ MaxChanges \in Nat
\* Tokens live much longer than it takes to ask for one.
ASSUME TimesAssumption == /\ MaxDelay \in Nat /\ Half \in Nat \ {0}
                          /\ Half >= 3 * MaxDelay

\* "torn": neither of two tokens, read while one replaces the other.
Token   == [state : {"none", "issued", "revoked", "torn"}, life : 0 .. 2 * Half]
NoToken == [state |-> "none", life |-> 0]

VARIABLES
  group,         \* the group's members, in the directory's order
  accessToken,   \* of the client
  tokenExpiry,   \* ticks until then
  call,          \* what each worker is doing
  result,        \* what its call has returned, until the next
  faults, changes

vars == <<group, accessToken, tokenExpiry, call, result, faults, changes>>

Steps == {"idle", "check", "fetch", "token", "expiry", "take", "request"}

Call == [ pc     : Steps,
          page   : Nat \ {0},
          users  : Seq(Users),      \* of the pages answered
          token  : Token,           \* in the hands of the worker
          keep   : 0 .. Half,       \* half of expires_in, 0 if not given
          waited : 0 .. MaxDelay,   \* since the look at the token
          stayed : SUBSET Users,    \* in the group all through the call
          calm   : BOOLEAN ]        \* nobody left the group

Idle == [ pc |-> "idle", page |-> 1, users |-> <<>>,
          token |-> NoToken, keep |-> 0, waited |-> 0, stayed |-> {},
          calm |-> TRUE ]

\* An error never comes with a list.
Result == [ outcome : {"none", "error"}, users : {<<>>} ]
            \cup [ outcome : {"list"}, users : Seq(Users) ]

TypeOK ==
  /\ group \in Seq(Users) /\ IsInjective(group)
  /\ accessToken \in Token /\ tokenExpiry \in 0 .. Half
  /\ call \in [Workers -> Call]
  /\ result \in [Workers -> Result]
  /\ faults \in Nat /\ changes \in Nat

Init ==
  /\ group \in Groups
  /\ accessToken = NoToken /\ tokenExpiry = 0
  /\ call = [v \in Workers |-> Idle]
  /\ result = [v \in Workers |-> [outcome |-> "none", users |-> <<>>]]
  /\ faults = MaxFaults /\ changes = MaxChanges

-----------------------------------------------------------------------------

Fault(kind) == kind \in FaultKinds /\ faults > 0 /\ faults' = faults - 1

Client  == <<accessToken, tokenExpiry>>
Outside == <<group, changes>>

Do(v, c) == call' = [call EXCEPT ![v] = c] /\ UNCHANGED result

\* The call ends.
Return(v, outcome, users) ==
  /\ call' = [call EXCEPT ![v] = Idle]
  /\ result' = [result EXCEPT ![v] = [outcome |-> outcome, users |-> users]]

Begin(v) ==
  /\ call[v].pc = "idle"
  /\ call' = [call EXCEPT ![v] = [Idle EXCEPT !.pc = "check", !.stayed = Range(group)]]
  /\ result' = [result EXCEPT ![v] = [outcome |-> "none", users |-> <<>>]]
  /\ UNCHANGED <<Client, Outside, faults>>

-----------------------------------------------------------------------------
(* Authorization                                                           *)

\* Mutant: a token there is is good.
UsableAlways == accessToken # NoToken

Usable == accessToken # NoToken /\ tokenExpiry > 0

CheckToken(v) ==
  /\ call[v].pc = "check"
  /\ Do(v, [call[v] EXCEPT !.pc = IF Usable THEN "take" ELSE "fetch",
                           !.waited = 0])
  /\ UNCHANGED <<Client, Outside, faults>>

\* A new token; expires_in may be missing.
FetchToken(v) ==
  /\ call[v].pc = "fetch"
  /\ \E keep \in {0, Half} :
       Do(v, [call[v] EXCEPT !.pc = "token", !.keep = keep,
                             !.token = [state |-> "issued", life |-> 2 * Half]])
  /\ UNCHANGED <<Client, Outside, faults>>

StoreToken(v) ==
  /\ call[v].pc = "token"
  /\ accessToken' = call[v].token
  /\ Do(v, [call[v] EXCEPT !.pc = "expiry"])
  /\ UNCHANGED <<tokenExpiry, Outside, faults>>

\* Mutant: the token is kept for its whole life.
StoreWholeLife(v) ==
  /\ call[v].pc = "expiry"
  /\ tokenExpiry' = 2 * call[v].keep
  /\ Do(v, [call[v] EXCEPT !.pc = "take", !.keep = 0, !.token = NoToken])
  /\ UNCHANGED <<accessToken, Outside, faults>>

\* The expiry counts from now on, not from when the token was issued.
StoreExpiry(v) ==
  /\ call[v].pc = "expiry"
  /\ tokenExpiry' = call[v].keep
  /\ Do(v, [call[v] EXCEPT !.pc = "take", !.keep = 0, !.token = NoToken])
  /\ UNCHANGED <<accessToken, Outside, faults>>

\* The field is read once more, whoever wrote it last.
TakeToken(v) ==
  /\ call[v].pc = "take"
  /\ Do(v, [call[v] EXCEPT !.pc = "request", !.token = accessToken])
  /\ UNCHANGED <<Client, Outside, faults>>

\* The two words of the string are read while another worker writes them.
\* (An expiry that is read while it is written counts as passed or not,
\* which the order of the steps gives as well.)
TearToken(v) ==
  /\ call[v].pc = "take"
  /\ \E o \in Workers \ {v} : call[o].pc = "token"
  /\ Fault("torn")
  /\ Do(v, [call[v] EXCEPT !.pc = "request", !.token.state = "torn"])
  /\ UNCHANGED <<Client, Outside>>

FetchRefused(v) ==
  /\ call[v].pc = "fetch"
  /\ Fault("refused")
  /\ Return(v, "error", <<>>)
  /\ UNCHANGED <<Client, Outside>>

-----------------------------------------------------------------------------
(* Requests                                                                *)

Accepted(v) ==
  call[v].pc = "request" /\ call[v].token.state = "issued" /\ call[v].token.life > 0

\* What a page lists, and the total the answer names.
Page(p)    == SubSeq(group, (p - 1) * PageSize + 1,
                     IF p * PageSize < Len(group) THEN p * PageSize ELSE Len(group))
TotalPages == (Len(group) + PageSize - 1) \div PageSize

\* Mutant: the last page is not asked for.
ReceivePageButLast(v) ==
  /\ Accepted(v)
  /\ LET users == call[v].users \o Page(call[v].page)
     IN  IF call[v].page + 1 >= TotalPages THEN Return(v, "list", users)
         ELSE Do(v, [call[v] EXCEPT !.pc = "check", !.token = NoToken,
                                    !.page = @ + 1, !.users = users,
                                    !.waited = 0])
  /\ UNCHANGED <<Client, Outside, faults>>

\* The page is added to the list.  Every answer names the total anew.
ReceivePage(v) ==
  /\ Accepted(v)
  /\ LET users == call[v].users \o Page(call[v].page)
     IN  IF call[v].page >= TotalPages THEN Return(v, "list", users)
         ELSE Do(v, [call[v] EXCEPT !.pc = "check", !.token = NoToken,
                                    !.page = @ + 1, !.users = users,
                                    !.waited = 0])
  /\ UNCHANGED <<Client, Outside, faults>>

\* An answer without the results field and without a total ends the listing
\* as if it were the last page.
ReceiveOther(v) ==
  /\ Accepted(v)
  /\ Fault("shape")
  /\ Return(v, "list", call[v].users)
  /\ UNCHANGED <<Client, Outside>>

\* Mutant: what was listed so far is returned with the error.
FailWithList(v, why) ==
  /\ call[v].pc = "request" /\ why
  /\ Return(v, "error", call[v].users)
  /\ UNCHANGED <<Client, Outside>>

\* The client keeps the token that was not accepted.
Fail(v, why) ==
  /\ call[v].pc = "request" /\ why
  /\ Return(v, "error", <<>>)
  /\ UNCHANGED <<Client, Outside>>

Unauthorized(v) == Fail(v, ~Accepted(v)) /\ UNCHANGED faults
RequestFails(v) == Fail(v, Fault("request"))

-----------------------------------------------------------------------------
(* Surroundings                                                            *)

\* A tick passes, unless a worker has been held up long enough.
Tick ==
  /\ \A v \in Workers : call[v].pc \in {"idle", "check"} \/ call[v].waited < MaxDelay
  /\ LET Older(t) == [t EXCEPT !.life = IF @ = 0 THEN 0 ELSE @ - 1]
     IN  /\ accessToken' = Older(accessToken)
         /\ tokenExpiry' = IF tokenExpiry = 0 THEN 0 ELSE tokenExpiry - 1
         /\ call' = [v \in Workers |->
                       IF call[v].pc \in {"idle", "check"} THEN call[v]
                       ELSE [call[v] EXCEPT !.token = Older(@), !.waited = @ + 1]]
  /\ UNCHANGED <<result, Outside, faults>>

\* The server forgets the tokens it has issued.
Revoke ==
  /\ accessToken.state = "issued"
  /\ Fault("revoked")
  /\ LET Gone(t) == IF t.state = "issued" THEN [t EXCEPT !.state = "revoked"] ELSE t
     IN  /\ accessToken' = Gone(accessToken)
         /\ call' = [v \in Workers |-> [call[v] EXCEPT !.token = Gone(@)]]
  /\ UNCHANGED <<tokenExpiry, result, Outside>>

Notice(new, everybodyStayed) ==
  call' = [v \in Workers |->
             IF call[v].pc = "idle" THEN call[v]
             ELSE [call[v] EXCEPT !.stayed = @ \cap new,
                                  !.calm = @ /\ everybodyStayed]]

\* A member joins, anywhere in the order.
Join(u, i) ==
  /\ changes > 0 /\ changes' = changes - 1
  /\ u \notin Range(group)
  /\ group' = InsertAt(group, i, u)
  /\ Notice(Range(group'), TRUE)
  /\ UNCHANGED <<Client, result, faults>>

Leave(i) ==
  /\ changes > 0 /\ changes' = changes - 1
  /\ i \in DOMAIN group
  /\ group' = RemoveAt(group, i)
  /\ Notice(Range(group'), FALSE)
  /\ UNCHANGED <<Client, result, faults>>

-----------------------------------------------------------------------------

Step(v) ==
  \/ Begin(v) \/ CheckToken(v) \/ FetchToken(v) \/ StoreToken(v) \/ StoreExpiry(v)
  \/ TakeToken(v) \/ ReceivePage(v) \/ Unauthorized(v)

Next ==
  \/ \E v \in Workers : \/ Step(v) \/ TearToken(v) \/ FetchRefused(v)
                        \/ ReceiveOther(v) \/ RequestFails(v)
  \/ Tick \/ Revoke
  \/ \E i \in 1 .. Len(group) + 1 : Leave(i) \/ \E u \in Users : Join(u, i)

Spec == Init /\ [][Next]_vars

\* Teams are reconciled again and again, a call goes on until it returns,
\* and time passes; faults and changes need not happen.
FairSpec ==
  Spec /\ (\A v \in Workers : WF_vars(Step(v))) /\ SF_vars(Tick)

-----------------------------------------------------------------------------
(* Properties                                                              *)

(***************************************************************************)
(* No request is sent with a token that has expired, although a worker may *)
(* keep another worker's expiry with its own token: half a life makes up   *)
(* for the time the requests for the two have overlapped.                  *)
(***************************************************************************)
LiveToken ==
  \A v \in Workers :
    call[v].pc = "request" /\ call[v].token.state = "issued" => call[v].token.life > 0

(***************************************************************************)
(* A member who is in the group all through a listing is listed, also when *)
(* others join in front and shift everybody to a later page: whoever is    *)
(* missed would lose the team membership.  Holds for listings during which *)
(* nobody leaves and whose answers have the configured shape.              *)
(***************************************************************************)
NobodyMissed ==
  [][\A v \in Workers :
       /\ call[v].pc = "request" /\ call'[v].pc = "idle"
       /\ result'[v].outcome = "list" /\ faults' = faults /\ call[v].calm
       => call[v].stayed \subseteq Range(result'[v].users)]_vars

(***************************************************************************)
(* Once nothing goes wrong any more, calls stop failing: a token that the  *)
(* server no longer accepts is not dropped when it is refused, but its     *)
(* expiry passes and the next call asks for a new one.                     *)
(***************************************************************************)
Recovers == <>[](\A v \in Workers : result[v].outcome # "error")

=============================================================================
