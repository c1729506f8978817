--------------------------- MODULE EtagCacheProofs ---------------------------
(***************************************************************************)
(* What holds of the ETag cache for any pages, any number of readers,      *)
(* changes and failures; and what one reader is served.                    *)
(***************************************************************************)
EXTENDS EtagCache, TLAPS

-----------------------------------------------------------------------------
(* Lists of pages                                                          *)

Answers == Pages \cup {Empty}

\* Lists are the sequences of answers that are no longer than MaxPages.
LEMMA ListsAreSequences ==
  /\ \A list \in Lists : list \in Seq(Answers) /\ Len(list) \in 0 .. MaxPages
  /\ \A list \in Seq(Answers) : Len(list) <= MaxPages => list \in Lists
<1>1. ASSUME NEW list \in Lists
      PROVE  list \in Seq(Answers) /\ Len(list) \in 0 .. MaxPages
  <2>1. PICK n \in 0 .. MaxPages : list \in [1 .. n -> Answers]
    BY DEF Lists, Answers
  <2>2. n \in Nat
    OBVIOUS
  <2>3. list \in Seq(Answers) /\ Len(list) = n
    BY <2>1, <2>2
  <2> QED
    BY <2>3
<1>2. ASSUME NEW list \in Seq(Answers), Len(list) <= MaxPages
      PROVE  list \in Lists
  <2>1. Len(list) \in 0 .. MaxPages /\ list \in [1 .. Len(list) -> Answers]
    BY <1>2, BoundsAssumption
  <2> QED
    BY <2>1 DEF Lists, Answers
<1> QED
  BY <1>1, <1>2

\* A listing on GitHub has at least one page, and the page after its last
\* one is empty.
LEMMA ListingPages ==
  ASSUME NEW L \in Listings
  PROVE  /\ Len(L) \in 1 .. MaxPages
         /\ \A p \in 1 .. MaxPages : Page(L, p) \in Answers
<1>1. PICK n \in 1 .. MaxPages : L \in [1 .. n -> Pages]
  BY DEF Listings
<1>2. n \in Nat
  BY BoundsAssumption
<1>3. Len(L) = n /\ DOMAIN L = 1 .. n
  BY <1>1, <1>2
<1> QED
  BY <1>1, <1>3 DEF Page, Answers

-----------------------------------------------------------------------------
(* Types                                                                   *)

\* How far a call has got: the list has a page for every answer taken, and
\* one that was not for the last page leaves room for another.
CallOK(c) ==
  /\ c \in Calls
  /\ c.pc \in {"send", "waiting", "answered"} => Len(c.list) = c.page - 1
  /\ c.pc = "answered" => /\ c.etag \in Answers
                          /\ ~c.last => c.page < MaxPages

TypeInv == TypeOK /\ \A r \in Readers : CallOK(call[r])

\* Nothing is called yet, or any more.
LEMMA NoCallOK ==
  CallOK(NoCall) /\ NoCall.pc = "idle"
<1>1. <<>> \in Lists
  <2>1. <<>> \in Seq(Answers) /\ Len(<<>>) = 0 /\ 0 <= MaxPages
    BY BoundsAssumption
  <2> QED
    BY <2>1, ListsAreSequences
<1>2. 1 \in 1 .. MaxPages
  BY BoundsAssumption
<1>3. NoCall \in Calls /\ NoCall.pc = "idle"
  BY <1>1, <1>2 DEF NoCall, Calls, Steps, AllKinds, Etags
<1> QED
  BY <1>3 DEF CallOK

\* One reader's step: the others are where they were.
LEMMA OneCall ==
  ASSUME TypeInv, NEW r \in Readers, NEW c, CallOK(c), call' = [call EXCEPT ![r] = c]
  PROVE  call' \in [Readers -> Calls] /\ \A q \in Readers : CallOK(call'[q])
BY DEF TypeInv, TypeOK, CallOK

\* The end of a call, with the list it returns.
LEMMA Returned ==
  ASSUME TypeInv, NEW r \in Readers, NEW outcome \in Outcomes, NEW list \in Lists,
         Return(r, outcome, list)
  PROVE  /\ result' \in [Readers -> Results]
         /\ call' \in [Readers -> Calls] /\ \A q \in Readers : CallOK(call'[q])
<1>1. [outcome |-> outcome, list |-> list] \in Results
  BY DEF Results
<1>2. result' \in [Readers -> Results]
  BY <1>1 DEF Return, TypeInv, TypeOK
<1> QED
  BY <1>2, NoCallOK, OneCall DEF Return

\* What the cache holds of a key.
LEMMA CacheParts ==
  ASSUME TypeOK, NEW k \in Keys
  PROVE  getEtag(k) \in Etags /\ getValue(k) \in Lists \cup {None}
BY DEF TypeOK, getEtag, getValue, Entries, Etags

\* What the cache takes keeps it typed.
LEMMA CacheTyped ==
  ASSUME TypeOK, NEW k \in Keys
  PROVE  /\ \A e \in Etags, v \in Lists \cup {None} :
              set(k, e, v) => entries' \in [Keys -> Entries \cup {None}]
         /\ \A e \in Etags :
              setEtagOnly(k, e) => entries' \in [Keys -> Entries \cup {None}]
         /\ invalidate(k) => entries' \in [Keys -> Entries \cup {None}]
<1>1. ASSUME NEW e \in Etags, NEW v \in Lists \cup {None}, set(k, e, v)
      PROVE  entries' \in [Keys -> Entries \cup {None}]
  <2>1. [etag |-> e, value |-> v] \in Entries
    BY DEF Entries
  <2> QED
    BY <1>1, <2>1 DEF set, TypeOK
<1>2. invalidate(k) => entries' \in [Keys -> Entries \cup {None}]
  BY DEF invalidate, TypeOK
<1> QED
  BY <1>1, <1>2, CacheParts DEF setEtagOnly

\* The keys of pages and of lists.
LEMMA KeysAreKeys ==
  /\ 0 \in Keys /\ 1 \in Keys
  /\ \A p \in 1 .. MaxPages : p \in Keys
  /\ \A kind : valueKey(kind) \in Keys
BY BoundsAssumption DEF Keys, valueKey

\* Every step of a call keeps the types.
LEMMA StepTyped ==
  ASSUME TypeInv, NEW r \in Readers, Step(r) \/ FailBody(r) \/ FailRequest(r)
  PROVE  TypeInv'
<1> DEFINE c == call[r]
<1>0. /\ c \in Calls /\ CallOK(c) /\ listing \in Listings
      /\ entries \in [Keys -> Entries \cup {None}]
      /\ call \in [Readers -> Calls] /\ result \in [Readers -> Results]
      /\ current \in [Readers -> SUBSET Listings]
      /\ changes \in 0 .. MaxChanges /\ failures \in 0 .. MaxFailures
      /\ failures \in Nat /\ MaxFailures \in Nat
  BY BoundsAssumption DEF TypeInv, TypeOK
<1>a. /\ c.page \in 1 .. MaxPages /\ c.list \in Lists /\ c.etag \in Etags
      /\ c.list \in Seq(Answers) /\ Len(c.list) \in 0 .. MaxPages /\ MaxPages \in Nat
      /\ c.page \in Keys /\ c.page \in Nat
  BY <1>0, ListsAreSequences, KeysAreKeys, BoundsAssumption DEF Calls
<1>b. Answers \subseteq Etags
  BY DEF Answers, Etags
<1>c. failures > 0 /\ failures' = failures - 1 => failures' \in 0 .. MaxFailures
  BY <1>0
<1> HIDE DEF c
<1>1. ASSUME NEW kind \in Kinds, Begin(r, kind) PROVE TypeInv'
  <2> DEFINE new == [NoCall EXCEPT !.pc = "send", !.kind = kind]
  <2>1. kind \in AllKinds /\ NoCall \in Calls
    BY KindsAssumption, NoCallOK DEF CallOK
  <2>2. new \in Calls /\ new.pc = "send" /\ new.page = NoCall.page /\ new.list = NoCall.list
    BY <2>1 DEF Calls, Steps
  <2>3. NoCall.page = 1 /\ NoCall.list = <<>>
    BY DEF NoCall
  <2>4. CallOK(new)
    <3>1. Len(new.list) = new.page - 1
      BY <2>2, <2>3
    <3> QED
      BY <2>2, <3>1 DEF CallOK
  <2> HIDE DEF new
  <2>5. call' = [call EXCEPT ![r] = new]
    BY <1>1 DEF Begin, new
  <2>6. current' \in [Readers -> SUBSET Listings]
    BY <1>0, <1>1 DEF Begin
  <2> QED
    BY <1>0, <1>1, <2>4, <2>5, <2>6, OneCall DEF Begin, TypeInv, TypeOK
<1>2. ASSUME Send(r) PROVE TypeInv'
  <2> DEFINE new == [c EXCEPT !.pc = "waiting", !.etag = getEtag(c.page)]
  <2>1. getEtag(c.page) \in Etags /\ c.pc = "send"
    BY <1>2, <1>a, CacheParts DEF Send, TypeInv, c
  <2>2. new \in Calls /\ new.pc = "waiting" /\ new.page = c.page /\ new.list = c.list
    BY <1>0, <2>1 DEF Calls, Steps
  <2>3. CallOK(new)
    BY <1>0, <2>1, <2>2 DEF CallOK
  <2>4. call' = [call EXCEPT ![r] = new]
    BY <1>0, <1>2 DEF Send, c
  <2> HIDE DEF new
  <2> QED
    BY <1>0, <1>2, <2>3, <2>4, OneCall DEF Send, TypeInv, TypeOK
<1>3. ASSUME Answer(r) PROVE TypeInv'
  <2> DEFINE p == Page(listing, c.page)
             status == IF c.etag = p THEN 304 ELSE 200
             last == c.page >= Len(listing)
             new == [c EXCEPT !.pc = "answered", !.status = status, !.etag = p, !.last = last]
  <2>1. p \in Answers /\ p \in Etags /\ status \in {0, 200, 304} /\ last \in BOOLEAN
    BY <1>0, <1>a, <1>b, ListingPages
  <2>2. ~last => c.page < MaxPages
    BY <1>0, <1>a, ListingPages
  <2>3. call' = [call EXCEPT ![r] = new]
    BY <1>0, <1>3, ZenonT(40) DEF Answer, c
  <2> HIDE DEF p, status, last
  <2>4. /\ new \in Calls /\ new.pc = "answered" /\ new.page = c.page
        /\ new.list = c.list /\ new.etag = p /\ new.last = last
    BY <1>0, <2>1, ZenonT(40) DEF Calls, Steps
  <2>5. c.pc = "waiting"
    BY <1>3 DEF Answer, c
  <2> HIDE DEF new
  <2>6. CallOK(new)
    BY <1>0, <2>1, <2>2, <2>4, <2>5 DEF CallOK
  <2> QED
    BY <1>0, <1>3, <2>3, <2>6, OneCall DEF Answer, TypeInv, TypeOK
<1>4. ASSUME ReceivePage(r) PROVE TypeInv'
  <2> DEFINE list == Append(c.list, c.etag)
             ended == [c EXCEPT !.list = list, !.pc = "finish"]
             more == [c EXCEPT !.list = list, !.pc = "send", !.page = c.page + 1, !.status = 0]
             new == IF c.last THEN ended ELSE more
  <2>1. /\ c.pc = "answered" /\ c.etag \in Answers /\ Len(c.list) = c.page - 1
        /\ ~c.last => c.page < MaxPages
    BY <1>0, <1>4 DEF ReceivePage, CallOK, c
  <2>2. list \in Seq(Answers) /\ Len(list) = c.page
    BY <1>a, <2>1
  <2>3. list \in Lists
    <3>1. Len(list) <= MaxPages
      BY <1>a, <2>2
    <3> HIDE DEF list
    <3> QED
      BY <2>2, <3>1, ListsAreSequences
  <2>4. call' = [call EXCEPT ![r] = new]
    BY <1>0, <1>4 DEF ReceivePage, c, Calls
  <2>5. ~c.last => c.page + 1 \in 1 .. MaxPages
    BY <1>a, <2>1
  <2> HIDE DEF list
  <2>6. c.last => ended \in Calls /\ ended.pc = "finish"
    BY <1>0, <2>3 DEF Calls, Steps
  <2>7. ~c.last => /\ more \in Calls /\ more.pc = "send"
                   /\ more.list = list /\ more.page = c.page + 1
    BY <1>0, <2>3, <2>5 DEF Calls, Steps
  <2>8. c.page + 1 - 1 = c.page
    BY <1>a
  <2> HIDE DEF ended, more
  <2>9. CallOK(new)
    BY <2>2, <2>6, <2>7, <2>8 DEF CallOK
  <2>10. entries' \in [Keys -> Entries \cup {None}]
    BY <1>4, <1>a, CacheTyped DEF ReceivePage, TypeInv, c
  <2> HIDE DEF new
  <2> QED
    BY <1>0, <1>4, <2>4, <2>9, <2>10, OneCall, ZenonT(40) DEF ReceivePage, TypeInv, TypeOK
<1>d. "list" \in Outcomes /\ "inconsistent" \in Outcomes /\ "error" \in Outcomes
  BY DEF Outcomes
<1>e. <<>> \in Lists
  BY NoCallOK DEF CallOK, Calls, NoCall
<1>5. ASSUME FailBody(r) PROVE TypeInv'
  <2>1. entries' \in [Keys -> Entries \cup {None}]
    BY <1>5, <1>a, CacheTyped DEF FailBody, TypeInv, c
  <2>2. Return(r, "error", <<>>)
    BY <1>5 DEF FailBody
  <2> QED
    BY <1>0, <1>5, <1>c, <1>d, <1>e, <2>1, <2>2, Returned DEF FailBody, TypeInv, TypeOK
<1>6. ASSUME FailRequest(r) PROVE TypeInv'
  <2>1. Return(r, "error", <<>>)
    BY <1>6 DEF FailRequest
  <2> QED
    BY <1>0, <1>6, <1>c, <1>d, <1>e, <2>1, Returned DEF FailRequest, TypeInv, TypeOK
<1>7. ASSUME NEW pc \in {"fallback", "dropValue", "dropEtag"}, call' = [call EXCEPT ![r].pc = pc]
      PROVE  call' \in [Readers -> Calls] /\ \A q \in Readers : CallOK(call'[q])
  <2> DEFINE new == [c EXCEPT !.pc = pc]
  <2>1. new \in Calls /\ new.pc = pc
    BY <1>0 DEF Calls, Steps
  <2>2. CallOK(new)
    BY <2>1 DEF CallOK
  <2>3. call' = [call EXCEPT ![r] = new]
    BY <1>0, <1>7 DEF c
  <2> HIDE DEF new
  <2> QED
    BY <2>2, <2>3, OneCall
<1>8. ASSUME ReceiveNotModified(r) PROVE TypeInv'
  BY <1>0, <1>7, <1>8 DEF ReceiveNotModified, TypeInv, TypeOK
<1>9. ASSUME Fallback(r) PROVE TypeInv'
  <2> DEFINE v == getValue(valueKey(c.kind))
  <2>1. v \in Lists \cup {None}
    BY CacheParts, KeysAreKeys DEF TypeInv
  <2>2. IF v # None THEN Return(r, "list", v)
        ELSE call' = [call EXCEPT ![r].pc = "dropValue"] /\ UNCHANGED result
    BY <1>9 DEF Fallback, c
  <2> HIDE DEF v
  <2>3. /\ result' \in [Readers -> Results]
        /\ call' \in [Readers -> Calls] /\ \A q \in Readers : CallOK(call'[q])
    BY <1>0, <1>7, <1>d, <2>1, <2>2, Returned
  <2> QED
    BY <1>0, <1>9, <2>3 DEF Fallback, TypeInv, TypeOK
<1>10. ASSUME DropValue(r) PROVE TypeInv'
  <2>1. entries' \in [Keys -> Entries \cup {None}]
    BY <1>10, CacheTyped, KeysAreKeys DEF DropValue, TypeInv
  <2>2. \/ call' = [call EXCEPT ![r].pc = "dropEtag"] /\ UNCHANGED result
        \/ Return(r, "inconsistent", <<>>)
    BY <1>10 DEF DropValue
  <2>3. /\ result' \in [Readers -> Results]
        /\ call' \in [Readers -> Calls] /\ \A q \in Readers : CallOK(call'[q])
    BY <1>0, <1>7, <1>d, <1>e, <2>2, Returned
  <2> QED
    BY <1>0, <1>10, <2>1, <2>3 DEF DropValue, TypeInv, TypeOK
<1>11. ASSUME DropEtag(r) PROVE TypeInv'
  <2>1. entries' \in [Keys -> Entries \cup {None}]
    BY <1>11, CacheTyped, KeysAreKeys DEF DropEtag, TypeInv
  <2>2. Return(r, "inconsistent", <<>>)
    BY <1>11 DEF DropEtag
  <2> QED
    BY <1>0, <1>11, <1>d, <1>e, <2>1, <2>2, Returned DEF DropEtag, TypeInv, TypeOK
<1>12. ASSUME Finish(r) PROVE TypeInv'
  <2>1. CASE getEtag(1) # None
    <3> DEFINE new == [c EXCEPT !.pc = "store", !.etag = getEtag(1)]
    <3>1. getEtag(1) \in Etags
      BY CacheParts, KeysAreKeys DEF TypeInv
    <3>2. new \in Calls /\ new.pc = "store"
      BY <1>0, <3>1 DEF Calls, Steps
    <3>3. CallOK(new)
      BY <3>2 DEF CallOK
    <3>4. call' = [call EXCEPT ![r] = new] /\ UNCHANGED result
      BY <1>0, <1>12, <2>1 DEF Finish, c
    <3> HIDE DEF new
    <3> QED
      BY <1>0, <1>12, <3>3, <3>4, OneCall DEF Finish, TypeInv, TypeOK
  <2>2. CASE getEtag(1) = None
    <3>1. Return(r, "list", c.list)
      BY <1>12, <2>2 DEF Finish, c
    <3> QED
      BY <1>0, <1>12, <1>a, <1>d, <3>1, Returned DEF Finish, TypeInv, TypeOK
  <2> QED
    BY <2>1, <2>2
<1>13. ASSUME Store(r) PROVE TypeInv'
  <2>1. entries' \in [Keys -> Entries \cup {None}]
    BY <1>13, <1>a, CacheTyped, KeysAreKeys DEF Store, TypeInv, c
  <2>2. Return(r, "list", c.list)
    BY <1>13 DEF Store, c
  <2> QED
    BY <1>0, <1>13, <1>a, <1>d, <2>1, <2>2, Returned DEF Store, TypeInv, TypeOK
<1> QED
  BY <1>1, <1>2, <1>3, <1>4, <1>5, <1>6, <1>8, <1>9, <1>10, <1>11, <1>12, <1>13 DEF Step

\* So does every step of the system, a change of the team included.
LEMMA TypeInvKept ==
  ASSUME TypeInv, [Next]_vars
  PROVE  TypeInv'
<1>1. ASSUME NEW L \in Listings, Change(L) PROVE TypeInv'
  <2>1. changes' \in 0 .. MaxChanges
    BY <1>1, BoundsAssumption DEF Change, TypeInv, TypeOK
  <2>2. current' \in [Readers -> SUBSET Listings]
    BY <1>1 DEF Change, TypeInv, TypeOK
  <2> QED
    BY <1>1, <2>1, <2>2 DEF Change, TypeInv, TypeOK
<1>2. CASE UNCHANGED vars
  BY <1>2 DEF vars, TypeInv, TypeOK
<1> QED
  BY <1>1, <1>2, StepTyped DEF Next

\* Nothing is cached or called at first.
LEMMA Starts == Init => TypeInv
<1> SUFFICES ASSUME Init PROVE TypeInv
  OBVIOUS
<1>1. NoCall \in Calls /\ CallOK(NoCall) /\ <<>> \in Lists
  BY NoCallOK DEF CallOK, Calls, NoCall
<1>2. [outcome |-> "none", list |-> <<>>] \in Results
  BY <1>1 DEF Results, Outcomes
<1> QED
  BY <1>1, <1>2, BoundsAssumption DEF Init, TypeInv, TypeOK

\* The variables keep their types: no list grows beyond the pages a listing
\* can have, though the number of pages changes while it is read.
THEOREM TypeCorrect == Spec => []TypeOK
BY Starts, TypeInvKept, PTL DEF Spec, TypeInv

-----------------------------------------------------------------------------
(* The cache keeps what it is given                                        *)

\* What is found in the cache after it is written to.
LEMMA CacheAfter ==
  ASSUME TypeOK, NEW k \in Keys, NEW j \in Keys
  PROVE  /\ \A e \in Etags, v \in Lists \cup {None} :
              set(k, e, v) => /\ getEtag(j)' = (IF j = k THEN e ELSE getEtag(j))
                              /\ getValue(j)' = (IF j = k THEN v ELSE getValue(j))
         /\ \A e \in Etags :
              setEtagOnly(k, e) => /\ getEtag(j)' = (IF j = k THEN e ELSE getEtag(j))
                                   /\ getValue(j)' = getValue(j)
         /\ invalidate(k) => /\ getEtag(j)' = (IF j = k THEN None ELSE getEtag(j))
                             /\ getValue(j)' = (IF j = k THEN None ELSE getValue(j))
<1>0. entries \in [Keys -> Entries \cup {None}]
  BY DEF TypeOK
<1>1. ASSUME NEW e \in Etags, NEW v \in Lists \cup {None}, set(k, e, v)
      PROVE  /\ getEtag(j)' = (IF j = k THEN e ELSE getEtag(j))
             /\ getValue(j)' = (IF j = k THEN v ELSE getValue(j))
  <2> DEFINE new == [etag |-> e, value |-> v]
  <2>1. new \in Entries /\ new.etag = e /\ new.value = v
    BY DEF Entries
  <2>2. new # None
    BY <2>1, NoneAssumption
  <2>3. entries' = [entries EXCEPT ![k] = new]
    BY <1>1 DEF set
  <2> HIDE DEF new
  <2>4. entries'[j] = IF j = k THEN new ELSE entries[j]
    BY <1>0, <2>3
  <2> QED
    BY <2>1, <2>2, <2>4 DEF getEtag, getValue
<1>2. ASSUME NEW e \in Etags, setEtagOnly(k, e)
      PROVE  /\ getEtag(j)' = (IF j = k THEN e ELSE getEtag(j))
             /\ getValue(j)' = getValue(j)
  <2>1. getValue(k) \in Lists \cup {None} /\ set(k, e, getValue(k))
    BY <1>2, CacheParts DEF setEtagOnly
  <2>2. /\ getEtag(j)' = (IF j = k THEN e ELSE getEtag(j))
        /\ getValue(j)' = (IF j = k THEN getValue(k) ELSE getValue(j))
    BY <1>1, <2>1
  <2> QED
    BY <2>2
<1>3. invalidate(k) => /\ getEtag(j)' = (IF j = k THEN None ELSE getEtag(j))
                       /\ getValue(j)' = (IF j = k THEN None ELSE getValue(j))
  BY <1>0 DEF invalidate, getEtag, getValue
<1> QED
  BY <1>1, <1>2, <1>3

\* A step that does not write to the cache.
LEMMA CacheUntouched ==
  ASSUME UNCHANGED entries
  PROVE  \A j : getEtag(j)' = getEtag(j) /\ getValue(j)' = getValue(j)
BY DEF getEtag, getValue

\* The step of ValueKept.
Keeps == getValue(1) # None => getValue(1)' # None \/ getEtag(1)' = None

\* Whatever is done to the cache, the list under the URL goes only together
\* with its ETag.
LEMMA KeepsValue ==
  ASSUME TypeInv, [Next]_vars
  PROVE  Keeps
<1>0. 1 \in Keys /\ TypeOK
  BY KeysAreKeys DEF TypeInv
<1>1. ASSUME UNCHANGED entries PROVE Keeps
  BY <1>1, CacheUntouched DEF Keeps
<1>2. ASSUME NEW k \in Keys, NEW e \in Etags, setEtagOnly(k, e) PROVE Keeps
  BY <1>0, <1>2, CacheAfter DEF Keeps
<1>3. ASSUME NEW k \in Keys, invalidate(k) PROVE Keeps
  BY <1>0, <1>3, CacheAfter DEF Keeps
<1>4. ASSUME NEW k \in Keys, NEW e \in Etags, NEW v \in Lists, set(k, e, v) PROVE Keeps
  BY <1>0, <1>4, CacheAfter, NoneAssumption DEF Keeps
<1>5. ASSUME NEW r \in Readers, Step(r) \/ FailBody(r) \/ FailRequest(r) PROVE Keeps
  <2>0. /\ call[r].page \in Keys /\ call[r].etag \in Etags /\ call[r].list \in Lists
        /\ valueKey(call[r].kind) \in Keys
    BY KeysAreKeys DEF TypeInv, CallOK, Calls
  <2>1. \/ UNCHANGED entries
        \/ setEtagOnly(call[r].page, call[r].etag)
        \/ invalidate(valueKey(call[r].kind)) \/ invalidate(1)
        \/ set(valueKey(call[r].kind), call[r].etag, call[r].list)
    BY <1>5 DEF Step, Begin, Send, Answer, ReceivePage, ReceiveNotModified, Fallback,
                DropValue, DropEtag, Finish, Store, FailBody, FailRequest
  <2> QED
    BY <1>0, <1>1, <1>2, <1>3, <1>4, <2>0, <2>1
<1>6. ASSUME NEW L \in Listings, Change(L) PROVE Keeps
  BY <1>1, <1>6 DEF Change
<1>7. CASE UNCHANGED vars
  BY <1>1, <1>7 DEF vars
<1> QED
  BY <1>5, <1>6, <1>7 DEF Next

\* The list the provider keeps under the URL of a listing is dropped only
\* together with the ETag of the URL, whatever the workers that share the
\* cache store and drop between each other's steps: storing a new ETag never
\* loses a list that was there (setEtagOnly, etag_cache.go:62).
THEOREM ListKept == Spec => ValueKept
<1>1. TypeInv /\ [Next]_vars => [Keeps]_vars
  BY KeepsValue
<1>2. Init => TypeInv
  BY Starts
<1> QED
  BY <1>1, <1>2, TypeInvKept, PTL DEF Spec, ValueKept, Keeps

-----------------------------------------------------------------------------
(* One reader is served what GitHub holds                                  *)

\* What a worker that uses one method alone may rely on: the list in the
\* cache is the page its ETag stands for, and the ETag that is sent is still
\* there when the answer comes.
Fresh(r, kind) ==
  LET c == call[r]
      e == getEtag(1)
      v == getValue(valueKey(kind))
  IN /\ c.pc \notin {"dropValue", "dropEtag"}
     /\ c.pc \notin {"finish", "store"} /\ e # None => v = <<e>>
     /\ c.pc # "idle" => c.kind = kind /\ listing \in current[r]
     /\ c.pc = "waiting" => c.etag = e
     /\ c.pc = "answered" => /\ <<c.etag>> \in current[r] /\ c.last
                             /\ c.status = 304 => c.etag = e
     /\ c.pc = "fallback" => e \in Pages /\ <<e>> \in current[r]
     /\ c.pc \in {"finish", "store"} => /\ e # None
                                        /\ c.list = <<e>> /\ <<e>> \in current[r]
     /\ c.pc = "store" => c.etag = e
     /\ c.pc = "idle" /\ result[r].outcome = "list" => result[r].list \in current[r]

\* A listing of one page is that page.
LEMMA OnePage ==
  ASSUME MaxPages = 1, NEW L \in Listings
  PROVE  /\ Len(L) = 1 /\ Page(L, 1) \in Pages /\ L = <<Page(L, 1)>>
         /\ Page(L, 1) # None
<1>1. L \in [1 .. 1 -> Pages]
  BY DEF Listings
<1>2. L \in Seq(Pages) /\ Len(L) = 1
  <2>1. \A n \in Nat : L \in [1 .. n -> Pages] => L \in Seq(Pages) /\ Len(L) = n
    OBVIOUS
  <2> QED
    BY <1>1, <2>1
<1>3. Page(L, 1) = L[1] /\ L[1] \in Pages
  BY <1>1, <1>2 DEF Page
<1>4. L = <<L[1]>>
  BY <1>1, <1>2
<1> QED
  BY <1>2, <1>3, <1>4, PagesAssumption

\* A list that is a listing GitHub had is one that was observed.
LEMMA HadIsObserved ==
  ASSUME NEW LL \in SUBSET Listings, NEW list \in LL
  PROVE  Observed(list, LL)
<1>1. Len(list) \in Nat
  BY ListingPages
<1>2. \A p \in 1 .. Len(list) : Page(list, p) = list[p]
  BY <1>1 DEF Page
<1>3. Len(list) <= Len(list)
  BY <1>1
<1> QED
  BY <1>2, <1>3 DEF Observed

\* Every step of the only reader keeps what it relies on, when a body that
\* was announced is also read.
LEMMA FreshStep ==
  ASSUME NEW r, Readers = {r}, NEW kind, Kinds = {kind}, MaxPages = 1,
         TypeInv, Fresh(r, kind), Step(r) \/ FailRequest(r)
  PROVE  Fresh(r, kind)'
<1> DEFINE c == call[r]
           e == getEtag(1)
           vk == valueKey(kind)
           v == getValue(vk)
<1>0. /\ r \in Readers /\ c \in Calls /\ CallOK(c) /\ listing \in Listings
      /\ entries \in [Keys -> Entries \cup {None}]
      /\ call \in [Readers -> Calls] /\ result \in [Readers -> Results]
      /\ current \in [Readers -> SUBSET Listings] /\ TypeOK
  BY DEF TypeInv, TypeOK
<1>a. /\ c.page = 1 /\ c.list \in Lists /\ c.etag \in Etags
      /\ c.pc \in {"send", "waiting", "answered"} => c.list = <<>>
  <2>1. c.page \in 1 .. 1 /\ c.list \in Lists /\ c.etag \in Etags
    BY <1>0 DEF Calls
  <2>2. c.page = 1 /\ c.list \in Seq(Answers)
    BY <2>1, ListsAreSequences
  <2>3. c.pc \in {"send", "waiting", "answered"} => Len(c.list) = 0
    BY <1>0, <2>2 DEF CallOK
  <2> QED
    BY <2>1, <2>2, <2>3
<1>b. 1 \in Keys /\ vk \in Keys
  BY KeysAreKeys
<1>c. UNCHANGED entries => e' = e /\ v' = v
  BY CacheUntouched
<1>d. /\ c.pc \notin {"dropValue", "dropEtag"}
      /\ c.pc \notin {"finish", "store"} /\ e # None => v = <<e>>
      /\ c.pc # "idle" => c.kind = kind /\ listing \in current[r]
      /\ c.pc = "waiting" => c.etag = e
      /\ c.pc = "answered" => /\ <<c.etag>> \in current[r] /\ c.last
                              /\ c.status = 304 => c.etag = e
      /\ c.pc = "fallback" => e \in Pages /\ <<e>> \in current[r]
      /\ c.pc \in {"finish", "store"} => /\ e # None
                                         /\ c.list = <<e>> /\ <<e>> \in current[r]
      /\ c.pc = "store" => c.etag = e
  BY DEF Fresh
<1>e. ASSUME NEW d, c' = d, 
             /\ d.pc \notin {"dropValue", "dropEtag"}
             /\ d.pc \notin {"finish", "store"} /\ e' # None => v' = <<e'>>
             /\ d.pc # "idle" => d.kind = kind /\ listing' \in current'[r]
             /\ d.pc = "waiting" => d.etag = e'
             /\ d.pc = "answered" => /\ <<d.etag>> \in current'[r] /\ d.last
                                     /\ d.status = 304 => d.etag = e'
             /\ d.pc = "fallback" => e' \in Pages /\ <<e'>> \in current'[r]
             /\ d.pc \in {"finish", "store"} => /\ e' # None
                                                /\ d.list = <<e'>> /\ <<e'>> \in current'[r]
             /\ d.pc = "store" => d.etag = e'
             /\ d.pc = "idle" /\ result'[r].outcome = "list" => result'[r].list \in current'[r]
      PROVE  Fresh(r, kind)'
  BY <1>e DEF Fresh
<1>f. NoCall.pc = "idle"
  BY DEF NoCall
<1>g. ASSUME NEW outcome, NEW list, Return(r, outcome, list)
      PROVE  c' = NoCall /\ result'[r].outcome = outcome /\ result'[r].list = list
  BY <1>0, <1>g DEF Return
<1> HIDE DEF c, e, v, vk
<1>1. ASSUME NEW k \in Kinds, Begin(r, k) PROVE Fresh(r, kind)'
  <2> DEFINE d == [NoCall EXCEPT !.pc = "send", !.kind = k]
  <2>1. d.pc = "send" /\ d.kind = kind
    BY DEF NoCall
  <2>2. c' = d /\ c.pc = "idle"
    BY <1>0, <1>1 DEF Begin, c
  <2>3. e' = e /\ v' = v
    BY <1>1, <1>c DEF Begin
  <2>4. listing' \in current'[r]
    BY <1>0, <1>1 DEF Begin
  <2> HIDE DEF d
  <2> QED
    BY <1>d, <1>e, <2>1, <2>2, <2>3, <2>4
<1>2. ASSUME Send(r) PROVE Fresh(r, kind)'
  <2>1. /\ c'.pc = "waiting" /\ c'.etag = e /\ c'.kind = c.kind /\ c.pc = "send"
        /\ listing' = listing /\ current' = current
    BY <1>0, <1>2, <1>a DEF Send, Calls, c, e
  <2>2. e' = e /\ v' = v
    BY <1>2, <1>c DEF Send
  <2> QED
    BY <1>d, <1>e, <2>1, <2>2
<1>3. ASSUME Answer(r) PROVE Fresh(r, kind)'
  <2> DEFINE p == Page(listing, 1)
  <2>1. /\ c'.pc = "answered" /\ c'.etag = p /\ c'.kind = c.kind /\ c.pc = "waiting"
        /\ c'.status = (IF c.etag = p THEN 304 ELSE 200) /\ c'.last = (1 >= Len(listing))
        /\ listing' = listing /\ current' = current
    BY <1>0, <1>3, <1>a DEF Answer, Calls, c
  <2>2. e' = e /\ v' = v
    BY <1>3, <1>c DEF Answer
  <2>3. listing = <<p>> /\ Len(listing) = 1
    BY <1>0, OnePage
  <2>4. c'.last /\ (c'.status = 304 => c'.etag = c.etag)
    <3>1. 1 >= Len(listing)
      BY <2>3
    <3>2. c'.status = 304 => c.etag = p
      BY <2>1
    <3> QED
      BY <2>1, <3>1, <3>2
  <2> HIDE DEF p
  <2>5. c'.status = 304 => c'.etag = e'
    BY <1>d, <2>1, <2>2, <2>4
  <2>6. c'.kind = kind /\ listing' \in current'[r] /\ <<c'.etag>> \in current'[r]
    BY <1>d, <2>1, <2>3
  <2>7. e' # None => v' = <<e'>>
    BY <1>d, <2>1, <2>2
  <2>8. c'.pc = "answered"
    BY <2>1
  <2> QED
    BY <1>e, <2>4, <2>5, <2>6, <2>7, <2>8
<1>4. ASSUME ReceivePage(r) PROVE Fresh(r, kind)'
  <2>1. c.pc = "answered" /\ c.last /\ c.list = <<>>
    BY <1>4, <1>a, <1>d DEF ReceivePage, c
  <2>2. c' = [[c EXCEPT !.list = Append(c.list, c.etag)] EXCEPT !.pc = "finish"]
    BY <1>0, <1>4, <2>1 DEF ReceivePage, Calls, c
  <2>3. c'.pc = "finish" /\ c'.kind = c.kind /\ c'.list = Append(c.list, c.etag)
    BY <1>0, <2>2 DEF Calls
  <2>4. c'.list = <<c.etag>>
    BY <2>1, <2>3
  <2>5. listing' = listing /\ current' = current /\ setEtagOnly(1, c.etag)
    BY <1>4, <1>a DEF ReceivePage, c
  <2>6. e' = c.etag
    BY <1>0, <1>a, <1>b, <2>5, CacheAfter DEF e
  <2>7. <<c.etag>> \in Listings
    BY <1>0, <1>d, <2>1
  <2>8. c.etag # None
    <3>1. Page(<<c.etag>>, 1) = c.etag
      BY DEF Page
    <3> QED
      BY <2>7, <3>1, OnePage
  <2> QED
    BY <1>d, <1>e, <2>1, <2>3, <2>4, <2>5, <2>6, <2>8
<1>5. ASSUME ReceiveNotModified(r) PROVE Fresh(r, kind)'
  <2>1. /\ c'.pc = "fallback" /\ c'.kind = c.kind /\ c.pc = "answered" /\ c.status = 304
        /\ listing' = listing /\ current' = current
    BY <1>0, <1>5 DEF ReceiveNotModified, Calls, c
  <2>2. e' = e /\ v' = v
    BY <1>5, <1>c DEF ReceiveNotModified
  <2>3. <<e>> \in Listings
    BY <1>0, <1>d, <2>1
  <2>4. e \in Pages
    <3>1. Page(<<e>>, 1) = e
      BY DEF Page
    <3> QED
      BY <2>3, <3>1, OnePage
  <2>5. c'.kind = kind /\ listing' \in current'[r] /\ <<e'>> \in current'[r]
    BY <1>d, <2>1, <2>2
  <2>6. v' = <<e'>> /\ e' \in Pages /\ c'.pc = "fallback"
    BY <1>d, <2>1, <2>2, <2>4, PagesAssumption
  <2> QED
    BY <1>e, <2>5, <2>6
<1>6. ASSUME Fallback(r) PROVE Fresh(r, kind)'
  <2>1. c.pc = "fallback" /\ c.kind = kind /\ e \in Pages /\ <<e>> \in current[r]
    BY <1>6, <1>d DEF Fallback, c
  <2>2. e # None
    BY <2>1, PagesAssumption
  <2>3. v = <<e>>
    BY <1>d, <2>1, <2>2
  <2>4. v # None
    <3>1. <<e>> \in Seq(Answers) /\ Len(<<e>>) <= MaxPages
      BY <2>1 DEF Answers
    <3>2. <<e>> \in Lists
      BY <3>1, ListsAreSequences
    <3> QED
      BY <2>3, <3>2, NoneAssumption
  <2>5. Return(r, "list", v)
    BY <1>6, <2>1, <2>4 DEF Fallback, v, vk, c
  <2>6. /\ c' = NoCall /\ result'[r].list = v
        /\ listing' = listing /\ current' = current
    BY <1>6, <1>g, <2>5 DEF Fallback
  <2>7. e' = e /\ v' = v
    BY <1>6, <1>c DEF Fallback
  <2> QED
    BY <1>e, <1>f, <2>1, <2>3, <2>6, <2>7
<1>7. ASSUME DropValue(r) \/ DropEtag(r) PROVE Fresh(r, kind)'
  BY <1>7, <1>d DEF DropValue, DropEtag, c
<1>8. ASSUME Finish(r) PROVE Fresh(r, kind)'
  <2>1. c.pc = "finish" /\ e # None
    BY <1>8, <1>d DEF Finish, c
  <2>2. /\ c'.pc = "store" /\ c'.etag = e /\ c'.kind = c.kind /\ c'.list = c.list
        /\ listing' = listing /\ current' = current
    BY <1>0, <1>8, <2>1 DEF Finish, Calls, c, e
  <2>3. e' = e /\ v' = v
    BY <1>8, <1>c DEF Finish
  <2> QED
    BY <1>d, <1>e, <2>1, <2>2, <2>3
<1>9. ASSUME Store(r) PROVE Fresh(r, kind)'
  <2>1. /\ c.pc = "store" /\ c.kind = kind /\ c.etag = e
        /\ c.list = <<e>> /\ <<e>> \in current[r]
    BY <1>9, <1>d DEF Store, c
  <2>2. /\ set(vk, c.etag, c.list) /\ Return(r, "list", c.list)
        /\ listing' = listing /\ current' = current
    BY <1>9, <2>1 DEF Store, vk, c
  <2>3. c' = NoCall /\ result'[r].list = c.list
    BY <1>g, <2>2
  <2>4. e' = e /\ v' = <<e>>
    BY <1>0, <1>a, <1>b, <2>1, <2>2, CacheAfter DEF e, v
  <2> QED
    BY <1>e, <1>f, <2>1, <2>2, <2>3, <2>4
<1>10. ASSUME FailRequest(r) PROVE Fresh(r, kind)'
  <2>1. c.pc = "waiting" /\ Return(r, "error", <<>>)
    BY <1>10 DEF FailRequest, c
  <2>2. c' = NoCall /\ result'[r].outcome = "error"
    BY <1>g, <2>1
  <2>3. e' = e /\ v' = v
    BY <1>10, <1>c DEF FailRequest
  <2> QED
    BY <1>d, <1>e, <1>f, <2>1, <2>2, <2>3
<1> QED
  BY <1>1, <1>2, <1>3, <1>4, <1>5, <1>6, <1>7, <1>8, <1>9, <1>10 DEF Step

\* A change of the team becomes one of the listings GitHub had during a call.
LEMMA FreshChange ==
  ASSUME NEW r, Readers = {r}, NEW kind, TypeInv, Fresh(r, kind),
         NEW L \in Listings, Change(L)
  PROVE  Fresh(r, kind)'
<1>1. /\ call' = call /\ entries' = entries /\ result' = result
      /\ current[r] \subseteq current'[r]
      /\ call[r].pc # "idle" => listing' \in current'[r]
      /\ call[r].pc = "idle" => current'[r] = current[r]
  BY DEF Change, TypeInv, TypeOK
<1>2. \A j : getEtag(j)' = getEtag(j) /\ getValue(j)' = getValue(j)
  BY <1>1, CacheUntouched
<1> QED
  BY <1>1, <1>2 DEF Fresh

\* A worker that is the only one to list a team of one page, by one method,
\* and that can read every body it asked for, is never served a roster that
\* was already outdated when it began: the ETag it sends stands for the very
\* list in the cache.  With a second method, worker or page, or a body lost
\* after its ETag was stored, this does not hold.
THEOREM ServesFresh ==
  ASSUME NEW r, Readers = {r}, NEW kind, Kinds = {kind},
         MaxPages = 1, "body" \notin Failures
  PROVE  Spec => []FreshRead
<1>1. Init => Fresh(r, kind)
  <2> SUFFICES ASSUME Init PROVE Fresh(r, kind)
    OBVIOUS
  <2>1. call[r] = NoCall /\ NoCall.pc = "idle" /\ result[r].outcome = "none"
    BY DEF Init, NoCall
  <2>2. getEtag(1) = None
    BY KeysAreKeys DEF Init, getEtag
  <2> QED
    BY <2>1, <2>2 DEF Fresh
<1>2. TypeInv /\ Fresh(r, kind) /\ [Next]_vars => Fresh(r, kind)'
  <2> SUFFICES ASSUME TypeInv, Fresh(r, kind), [Next]_vars PROVE Fresh(r, kind)'
    OBVIOUS
  <2>1. CASE UNCHANGED vars
    <3>1. entries' = entries
      BY <2>1 DEF vars
    <3> QED
      BY <2>1, <3>1, CacheUntouched DEF vars, Fresh
  <2>2. ~FailBody(r)
    BY DEF FailBody
  <2> QED
    BY <2>1, <2>2, FreshStep, FreshChange DEF Next
<1>3. TypeInv /\ Fresh(r, kind) => FreshRead
  <2> SUFFICES ASSUME TypeInv, Fresh(r, kind), call[r].pc = "idle", result[r].outcome = "list"
               PROVE  Observed(result[r].list, current[r])
    BY DEF FreshRead
  <2>1. result[r].list \in current[r] /\ current[r] \in SUBSET Listings
    BY DEF Fresh, TypeInv, TypeOK
  <2> QED
    BY <2>1, HadIsObserved
<1> QED
  BY <1>1, <1>2, <1>3, Starts, TypeInvKept, PTL DEF Spec
=============================================================================
