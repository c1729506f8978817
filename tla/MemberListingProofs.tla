-------------------------- MODULE MemberListingProofs --------------------------
(***************************************************************************)
(* What holds of the HTTP member provider for any workers, groups, page    *)
(* sizes and token lives: tokens are alive when they are sent, and no one  *)
(* who stays in the group is left out of a listing.                        *)
(***************************************************************************)
EXTENDS MemberListing, SequenceTheorems, TLAPS

-----------------------------------------------------------------------------
(* Sequences                                                               *)

\* Where the members are after one has been put in at a position.
LEMMA Inserted ==
  ASSUME NEW S, NEW s \in Seq(S), NEW u \in S, NEW i \in 1 .. Len(s) + 1,
         NEW t, t = InsertAt(s, i, u)
  PROVE  /\ t \in Seq(S) /\ Len(t) = Len(s) + 1
         /\ \A j \in 1 .. Len(s) + 1 :
              t[j] = IF j < i THEN s[j] ELSE IF j = i THEN u ELSE s[j - 1]
<1> DEFINE a == SubSeq(s, 1, i - 1)
           b == SubSeq(s, i, Len(s))
<1>1. Len(s) \in Nat /\ i \in Nat
  OBVIOUS
<1>2. /\ a \in Seq(S) /\ Len(a) = i - 1
      /\ \A j \in 1 .. i - 1 : a[j] = s[j]
  BY <1>1
<1>3. /\ b \in Seq(S) /\ Len(b) = Len(s) - i + 1
      /\ \A j \in 1 .. Len(s) - i + 1 : b[j] = s[i + j - 1]
  BY <1>1
<1>4. t = (a \o <<u>>) \o b
  BY DEF InsertAt
<1> DEFINE h == a \o <<u>>
<1> HIDE DEF a, b
<1>5. /\ h \in Seq(S) /\ Len(h) = i
      /\ \A j \in 1 .. i : h[j] = IF j < i THEN a[j] ELSE u
  BY <1>1, <1>2
<1>8. t = h \o b
  BY <1>4
<1> HIDE DEF h
<1>6. /\ t \in Seq(S) /\ Len(t) = Len(s) + 1
      /\ \A j \in 1 .. Len(s) + 1 : t[j] = IF j <= i THEN h[j] ELSE b[j - i]
  <2>1. /\ t \in Seq(S) /\ Len(t) = Len(h) + Len(b)
        /\ \A j \in 1 .. Len(h) + Len(b) :
             t[j] = IF j <= Len(h) THEN h[j] ELSE b[j - Len(h)]
    BY <1>3, <1>5, <1>8, ConcatProperties
  <2>2. i + Len(b) = Len(s) + 1
    BY <1>1, <1>3
  <2> QED
    BY <1>5, <2>1, <2>2
<1>7. ASSUME NEW j \in 1 .. Len(s) + 1
      PROVE  t[j] = IF j < i THEN s[j] ELSE IF j = i THEN u ELSE s[j - 1]
  <2>1. CASE j < i
    BY <1>1, <1>2, <1>5, <1>6, <2>1
  <2>2. CASE j = i
    BY <1>1, <1>5, <1>6, <2>2
  <2>3. CASE j > i
    <3>1. j - i \in 1 .. Len(s) - i + 1 /\ i + (j - i) - 1 = j - 1
      BY <1>1, <2>3
    <3> QED
      BY <1>1, <1>3, <1>6, <2>3, <3>1
  <2> QED
    BY <1>1, <2>1, <2>2, <2>3
<1> QED
  BY <1>6, <1>7

\* Where the members are after the one at a position is gone.
LEMMA Removed ==
  ASSUME NEW S, NEW s \in Seq(S), NEW i \in DOMAIN s, NEW t, t = RemoveAt(s, i)
  PROVE  /\ t \in Seq(S) /\ Len(t) = Len(s) - 1
         /\ \A j \in 1 .. Len(s) - 1 : t[j] = IF j < i THEN s[j] ELSE s[j + 1]
<1> DEFINE a == SubSeq(s, 1, i - 1)
           b == SubSeq(s, i + 1, Len(s))
<1>1. Len(s) \in Nat /\ i \in 1 .. Len(s)
  OBVIOUS
<1>2. /\ a \in Seq(S) /\ Len(a) = i - 1
      /\ \A j \in 1 .. i - 1 : a[j] = s[j]
  BY <1>1
<1>3. /\ b \in Seq(S) /\ Len(b) = Len(s) - i
      /\ \A j \in 1 .. Len(s) - i : b[j] = s[i + 1 + j - 1]
  BY <1>1
<1>4. t = a \o b
  BY DEF RemoveAt
<1> HIDE DEF a, b
<1>6. /\ t \in Seq(S) /\ Len(t) = Len(s) - 1
      /\ \A j \in 1 .. Len(s) - 1 : t[j] = IF j < i THEN a[j] ELSE b[j - (i - 1)]
  <2>1. /\ t \in Seq(S) /\ Len(t) = Len(a) + Len(b)
        /\ \A j \in 1 .. Len(a) + Len(b) :
             t[j] = IF j <= Len(a) THEN a[j] ELSE b[j - Len(a)]
    BY <1>2, <1>3, <1>4, ConcatProperties
  <2>2. Len(a) + Len(b) = Len(s) - 1 /\ \A j \in Nat : j <= Len(a) <=> j < i
    BY <1>1, <1>2, <1>3
  <2> QED
    BY <1>1, <1>2, <2>1, <2>2
<1>7. ASSUME NEW j \in 1 .. Len(s) - 1
      PROVE  t[j] = IF j < i THEN s[j] ELSE s[j + 1]
  <2>1. CASE j < i
    BY <1>1, <1>2, <1>6, <2>1
  <2>2. CASE j >= i
    <3> DEFINE k == j - (i - 1)
    <3>1. k \in 1 .. Len(s) - i /\ i + 1 + k - 1 = j + 1
      BY <1>1, <2>2
    <3>2. t[j] = b[k]
      BY <1>1, <1>6, <2>2
    <3> HIDE DEF k
    <3>3. b[k] = s[j + 1]
      BY <1>3, <3>1
    <3> QED
      BY <2>2, <3>2, <3>3
  <2> QED
    BY <1>1, <2>1, <2>2
<1> QED
  BY <1>6, <1>7

\* The pages cover the group: what follows the last page the total names is
\* nothing.
LEMMA PagesCover ==
  ASSUME NEW n \in Nat, NEW size \in Nat \ {0}, NEW p \in Nat,
         (n + size - 1) \div size <= p
  PROVE  n <= p * size
<1> DEFINE q == (n + size - 1) \div size
           r == (n + size - 1) % size
<1>1. q \in Int /\ r \in 0 .. size - 1 /\ n + size - 1 = size * q + r
  OBVIOUS
<1> HIDE DEF q, r
<1>2. q <= p
  BY DEF q
<1>3. q * size <= p * size
  BY <1>1, <1>2
<1> QED
  BY <1>1, <1>3

-----------------------------------------------------------------------------
(* Types                                                                   *)

\* The numbers the times are made of.
LEMMA Times ==
  /\ MaxDelay \in Nat /\ Half \in Nat /\ Half >= 1 /\ 3 * MaxDelay <= Half
  /\ 0 \in 0 .. Half /\ 0 \in 0 .. 2 * Half /\ 2 * Half \in 0 .. 2 * Half
  /\ 0 \in 0 .. MaxDelay /\ Half \in 0 .. Half
BY TimesAssumption

\* What a worker has in its hands when no call is under way.
LEMMA IdleCall ==
  NoToken \in Token /\ Idle \in Call /\ Idle.pc = "idle"
<1>1. NoToken \in Token
  BY Times DEF NoToken, Token
<1>2. Idle \in Call
  BY <1>1, Times DEF Idle, Call, Steps
<1> QED
  BY <1>1, <1>2 DEF Idle

\* The results a call may have.
LEMMA ResultsTyped ==
  /\ [outcome |-> "none", users |-> <<>>] \in Result
  /\ [outcome |-> "error", users |-> <<>>] \in Result
  /\ \A users \in Seq(Users) : [outcome |-> "list", users |-> users] \in Result
BY DEF Result

\* A worker goes on with its call.
LEMMA Goes ==
  ASSUME TypeOK, NEW v \in Workers, NEW c \in Call, Do(v, c)
  PROVE  call' \in [Workers -> Call] /\ result' \in [Workers -> Result]
BY DEF TypeOK, Do

\* A worker's call ends.
LEMMA Ends ==
  ASSUME TypeOK, NEW v \in Workers, NEW outcome, NEW users,
         [outcome |-> outcome, users |-> users] \in Result, Return(v, outcome, users)
  PROVE  call' \in [Workers -> Call] /\ result' \in [Workers -> Result]
BY IdleCall DEF TypeOK, Return

\* A page lists the members at its places.
LEMMA PageLists ==
  ASSUME TypeOK, NEW p \in Nat \ {0}
  PROVE  /\ Page(p) \in Seq(Users)
         /\ \A i \in 1 .. Len(group) :
              (p - 1) * PageSize < i /\ i <= p * PageSize => group[i] \in Range(Page(p))
<1> DEFINE from == (p - 1) * PageSize + 1
           to == IF p * PageSize < Len(group) THEN p * PageSize ELSE Len(group)
           s == Page(p)
<1>1. /\ (p - 1) * PageSize \in Nat /\ p * PageSize \in Nat
      /\ (p - 1) * PageSize <= p * PageSize
  BY SizesAssumption
<1>2. group \in Seq(Users) /\ Len(group) \in Nat
  BY DEF TypeOK
<1>3. from \in Nat \ {0} /\ to \in Nat /\ to <= Len(group) /\ s = SubSeq(group, from, to)
  BY <1>1, <1>2 DEF Page
<1>4. to \in {p * PageSize, Len(group)} /\ (to <= p * PageSize)
  BY <1>1, <1>2
<1>5. ASSUME NEW i \in 1 .. Len(group), (p - 1) * PageSize < i, i <= p * PageSize
      PROVE  from <= i /\ i <= to
  BY <1>1, <1>2, <1>5
<1> HIDE DEF from, to, s
<1>6. s \in Seq(Users)
  BY <1>2, <1>3
<1>7. ASSUME NEW i \in 1 .. Len(group), from <= i, i <= to
      PROVE  group[i] \in Range(s)
  <2> DEFINE j == i - from + 1
  <2>1. j \in 1 .. to - from + 1 /\ from + j - 1 = i /\ from <= to
    BY <1>3, <1>7
  <2>2. Len(s) = to - from + 1
    BY <1>2, <1>3, <2>1
  <2> HIDE DEF j
  <2>3. s[j] = group[i] /\ j \in DOMAIN s
    BY <1>2, <1>3, <1>6, <2>1, <2>2
  <2> QED
    BY <2>3 DEF Range
<1> QED
  BY <1>5, <1>6, <1>7 DEF s

\* Every step keeps the types.
LEMMA TypeKept ==
  ASSUME TypeOK, [Next]_vars
  PROVE  TypeOK'
<1>0. /\ group \in Seq(Users) /\ IsInjective(group)
      /\ accessToken \in Token /\ tokenExpiry \in 0 .. Half
      /\ call \in [Workers -> Call] /\ result \in [Workers -> Result]
      /\ faults \in Nat /\ changes \in Nat
  BY DEF TypeOK
<1>a. ASSUME NEW kind, Fault(kind) PROVE faults' \in Nat
  BY <1>0, <1>a DEF Fault
<1>b. ASSUME NEW v \in Workers, NEW c, c = call[v]
      PROVE  /\ c \in Call /\ c.pc \in Steps /\ c.page \in Nat \ {0} /\ c.users \in Seq(Users)
             /\ c.token \in Token /\ c.keep \in 0 .. Half /\ c.waited \in 0 .. MaxDelay
             /\ c.stayed \in SUBSET Users /\ c.calm \in BOOLEAN
  BY <1>0, <1>b DEF Call
<1>1. ASSUME NEW v \in Workers, Begin(v) PROVE TypeOK'
  <2> DEFINE c == [Idle EXCEPT !.pc = "check", !.stayed = Range(group)]
  <2>1. Range(group) \subseteq Users
    BY <1>0 DEF Range
  <2>2. c \in Call
    BY <2>1, IdleCall DEF Call, Steps
  <2> HIDE DEF c
  <2>3. call' = [call EXCEPT ![v] = c]
    BY <1>1 DEF Begin, c
  <2> QED
    BY <1>0, <1>1, <2>2, <2>3, ResultsTyped DEF Begin, Client, Outside, TypeOK
<1>2. ASSUME NEW v \in Workers, CheckToken(v) PROVE TypeOK'
  <2> DEFINE pc == IF Usable THEN "take" ELSE "fetch"
             old == call[v]
             c == [old EXCEPT !.pc = pc, !.waited = 0]
  <2>0. pc \in Steps /\ old \in Call
    BY <1>b DEF Steps
  <2>2. Do(v, c)
    BY <1>2 DEF CheckToken
  <2> HIDE DEF pc, old
  <2>1. c \in Call
    BY <2>0, Times DEF Call
  <2> HIDE DEF c
  <2> QED
    BY <1>0, <1>2, <2>1, <2>2, Goes DEF CheckToken, Client, Outside, TypeOK
<1>3. ASSUME NEW v \in Workers, FetchToken(v) PROVE TypeOK'
  <2>1. PICK keep \in {0, Half} :
          Do(v, [call[v] EXCEPT !.pc = "token", !.keep = keep,
                                !.token = [state |-> "issued", life |-> 2 * Half]])
    BY <1>3 DEF FetchToken
  <2> DEFINE new == [state |-> "issued", life |-> 2 * Half]
             old == call[v]
             c == [old EXCEPT !.pc = "token", !.keep = keep, !.token = new]
  <2>2. new \in Token /\ keep \in 0 .. Half /\ "token" \in Steps /\ old \in Call
    BY <1>b, Times DEF Token, Steps
  <2>4. Do(v, c)
    BY <2>1
  <2> HIDE DEF new, old
  <2>3. c \in Call
    BY <2>2 DEF Call
  <2> HIDE DEF c
  <2> QED
    BY <1>0, <1>3, <2>3, <2>4, Goes DEF FetchToken, Client, Outside, TypeOK
<1>4. ASSUME NEW v \in Workers, StoreToken(v) PROVE TypeOK'
  <2> DEFINE c == [call[v] EXCEPT !.pc = "expiry"]
  <2>1. c \in Call
    BY <1>b DEF Call, Steps
  <2> HIDE DEF c
  <2>2. Do(v, c) /\ accessToken' \in Token
    BY <1>4, <1>b DEF StoreToken, c
  <2> QED
    BY <1>0, <1>4, <2>1, <2>2, Goes DEF StoreToken, Outside, TypeOK
<1>5. ASSUME NEW v \in Workers, StoreExpiry(v) PROVE TypeOK'
  <2> DEFINE old == call[v]
             c == [old EXCEPT !.pc = "take", !.keep = 0, !.token = NoToken]
  <2>2. Do(v, c) /\ tokenExpiry' \in 0 .. Half
    BY <1>5, <1>b DEF StoreExpiry
  <2>3. "take" \in Steps /\ old \in Call /\ 0 \in 0 .. Half
    BY <1>b, Times DEF Steps
  <2> HIDE DEF old
  <2>1. c \in Call
    BY <2>3, IdleCall DEF Call
  <2> HIDE DEF c
  <2> QED
    BY <1>0, <1>5, <2>1, <2>2, Goes DEF StoreExpiry, Outside, TypeOK
<1>6. ASSUME NEW v \in Workers, TakeToken(v) PROVE TypeOK'
  <2> DEFINE c == [call[v] EXCEPT !.pc = "request", !.token = accessToken]
  <2>1. c \in Call
    BY <1>0, <1>b, ZenonT(40) DEF Call, Steps
  <2> HIDE DEF c
  <2>2. Do(v, c)
    BY <1>6 DEF TakeToken, c
  <2> QED
    BY <1>0, <1>6, <2>1, <2>2, Goes DEF TakeToken, Client, Outside, TypeOK
<1>7. ASSUME NEW v \in Workers, TearToken(v) PROVE TypeOK'
  <2> DEFINE c == [call[v] EXCEPT !.pc = "request", !.token.state = "torn"]
  <2>1. [call[v].token EXCEPT !.state = "torn"] \in Token
    BY <1>b DEF Token
  <2>2. c \in Call
    BY <1>b, <2>1, ZenonT(40) DEF Call, Steps
  <2> HIDE DEF c
  <2>3. Do(v, c)
    BY <1>7 DEF TearToken, c
  <2> QED
    BY <1>0, <1>7, <1>a, <2>2, <2>3, Goes DEF TearToken, Client, Outside, TypeOK
<1>8. ASSUME NEW v \in Workers, FetchRefused(v) PROVE TypeOK'
  BY <1>0, <1>8, <1>a, Ends, ResultsTyped DEF FetchRefused, Client, Outside, TypeOK
<1>9. ASSUME NEW v \in Workers, ReceivePage(v) PROVE TypeOK'
  <2> DEFINE old == call[v]
             users == old.users \o Page(old.page)
             c == [old EXCEPT !.pc = "check", !.token = NoToken,
                              !.page = old.page + 1, !.users = users, !.waited = 0]
  <2>1. users \in Seq(Users)
    BY <1>b, PageLists
  <2>3. Return(v, "list", users) \/ Do(v, c)
    BY <1>9, <1>b DEF ReceivePage, Call
  <2>5. "check" \in Steps /\ old \in Call /\ old.page + 1 \in Nat \ {0}
    BY <1>b DEF Steps
  <2> HIDE DEF users, old
  <2>2. c \in Call
    BY <2>1, <2>5, IdleCall, Times DEF Call
  <2> HIDE DEF c
  <2>4. call' \in [Workers -> Call] /\ result' \in [Workers -> Result]
    BY <2>1, <2>2, <2>3, Goes, Ends, ResultsTyped
  <2> QED
    BY <1>0, <1>9, <2>4 DEF ReceivePage, Client, Outside, TypeOK
<1>10. ASSUME NEW v \in Workers, ReceiveOther(v) PROVE TypeOK'
  <2>1. call[v].users \in Seq(Users) /\ Return(v, "list", call[v].users)
    BY <1>10, <1>b DEF ReceiveOther
  <2> QED
    BY <1>0, <1>10, <1>a, <2>1, Ends, ResultsTyped DEF ReceiveOther, Client, Outside, TypeOK
<1>11. ASSUME NEW v \in Workers, Unauthorized(v) \/ RequestFails(v) PROVE TypeOK'
  <2>1. Return(v, "error", <<>>) /\ faults' \in Nat /\ UNCHANGED <<Client, Outside>>
    BY <1>0, <1>11, <1>a DEF Unauthorized, RequestFails, Fail
  <2> QED
    BY <1>0, <2>1, Ends, ResultsTyped DEF Client, Outside, TypeOK
<1>12. ASSUME Tick PROVE TypeOK'
  <2> DEFINE Older(t) == [t EXCEPT !.life = IF @ = 0 THEN 0 ELSE @ - 1]
             New(v) == IF call[v].pc \in {"idle", "check"} THEN call[v]
                       ELSE [call[v] EXCEPT !.token = Older(@), !.waited = @ + 1]
  <2>1. \A t \in Token : Older(t) \in Token
    BY Times DEF Token
  <2>2. /\ accessToken' = Older(accessToken)
        /\ tokenExpiry' = IF tokenExpiry = 0 THEN 0 ELSE tokenExpiry - 1
        /\ call' = [v \in Workers |-> New(v)]
    BY <1>12 DEF Tick
  <2> HIDE DEF Older
  <2>3. ASSUME NEW v \in Workers PROVE New(v) \in Call
    <3>1. CASE call[v].pc \in {"idle", "check"}
      BY <1>b, <3>1
    <3>2. CASE call[v].pc \notin {"idle", "check"}
      <4>1. call[v].waited + 1 \in 0 .. MaxDelay
        <5>1. call[v].waited < MaxDelay
          BY <1>12, <3>2 DEF Tick
        <5>2. call[v].waited \in 0 .. MaxDelay
          BY <1>b
        <5> QED
          BY <5>1, <5>2, Times
      <4>2. Older(call[v].token) \in Token
        BY <1>b, <2>1
      <4>3. New(v) = [call[v] EXCEPT !.token = Older(call[v].token), !.waited = call[v].waited + 1]
        BY <1>b, <3>2 DEF Call
      <4> HIDE DEF New
      <4> QED
        BY <1>b, <4>1, <4>2, <4>3 DEF Call
    <3> QED
      BY <3>1, <3>2
  <2> HIDE DEF New
  <2>4. call' \in [Workers -> Call] /\ accessToken' \in Token /\ tokenExpiry' \in 0 .. Half
    <3>1. tokenExpiry' \in 0 .. Half
      BY <1>0, <2>2, Times
    <3>2. call' \in [Workers -> Call]
      BY <2>2, <2>3
    <3> QED
      BY <1>0, <2>1, <2>2, <3>1, <3>2
  <2> QED
    BY <1>0, <1>12, <2>4 DEF Tick, Outside, TypeOK
<1>13. ASSUME Revoke PROVE TypeOK'
  <2> DEFINE Gone(t) == IF t.state = "issued" THEN [t EXCEPT !.state = "revoked"] ELSE t
  <2>1. \A t \in Token : Gone(t) \in Token
    BY DEF Token
  <2>2. /\ accessToken' = Gone(accessToken)
        /\ call' = [v \in Workers |-> [call[v] EXCEPT !.token = Gone(call[v].token)]]
    BY <1>0, <1>13 DEF Revoke, Call
  <2> HIDE DEF Gone
  <2>3. \A v \in Workers : [call[v] EXCEPT !.token = Gone(call[v].token)] \in Call
    BY <1>0, <2>1 DEF Call
  <2> QED
    BY <1>0, <1>13, <1>a, <2>1, <2>2, <2>3 DEF Revoke, Outside, TypeOK
<1>c. ASSUME NEW new, NEW all \in BOOLEAN, Notice(new, all)
      PROVE  call' \in [Workers -> Call]
  <2>1. \A v \in Workers :
          [call[v] EXCEPT !.stayed = @ \cap new, !.calm = @ /\ all] \in Call
    BY <1>0 DEF Call
  <2> QED
    BY <1>0, <1>c, <2>1 DEF Notice
<1>14. ASSUME NEW i \in 1 .. Len(group) + 1, NEW u \in Users, Join(u, i) PROVE TypeOK'
  <2> DEFINE t == InsertAt(group, i, u)
  <2>1. /\ t \in Seq(Users) /\ Len(t) = Len(group) + 1
        /\ \A j \in 1 .. Len(group) + 1 :
             t[j] = IF j < i THEN group[j] ELSE IF j = i THEN u ELSE group[j - 1]
    BY <1>0, Inserted, SMTT(30)
  <2> HIDE DEF t
  <2>2. group' = t /\ changes' \in Nat
    BY <1>0, <1>14 DEF Join, t
  <2>3. ASSUME NEW j \in 1 .. Len(group) PROVE group[j] # u
    BY <1>0, <1>14 DEF Join, Range
  <2>4. ASSUME NEW j \in 1 .. Len(group), NEW k \in 1 .. Len(group), group[j] = group[k]
        PROVE  j = k
    BY <1>0, <2>4 DEF IsInjective
  <2>5. ASSUME NEW j \in 1 .. Len(group) + 1, NEW k \in 1 .. Len(group) + 1, t[j] = t[k]
        PROVE  j = k
    <3> DEFINE Was(n) == IF n < i THEN n ELSE n - 1
    <3>1. \A n \in 1 .. Len(group) + 1 :
            n # i => Was(n) \in 1 .. Len(group) /\ t[n] = group[Was(n)]
      BY <1>0, <2>1
    <3>2. CASE j = i \/ k = i
      <4>1. t[i] = u
        BY <1>0, <2>1
      <4>2. \A n \in 1 .. Len(group) + 1 : n # i => t[n] # u
        <5> HIDE DEF Was
        <5> QED
          BY <2>3, <3>1
      <4> QED
        BY <2>5, <3>2, <4>1, <4>2
    <3>3. CASE j # i /\ k # i
      <4>1. Was(j) = Was(k)
        <5> HIDE DEF Was
        <5> QED
          BY <2>4, <2>5, <3>1, <3>3
      <4> QED
        BY <3>3, <4>1
    <3> QED
      BY <3>2, <3>3
  <2>6. IsInjective(t)
    BY <2>1, <2>5 DEF IsInjective
  <2> QED
    BY <1>0, <1>14, <1>c, <2>1, <2>2, <2>6 DEF Join, Client, TypeOK
<1>15. ASSUME NEW i, Leave(i) PROVE TypeOK'
  <2> DEFINE t == RemoveAt(group, i)
  <2>0. i \in DOMAIN group /\ group \in Seq(Users)
    BY <1>0, <1>15 DEF Leave
  <2>1. /\ t \in Seq(Users) /\ Len(t) = Len(group) - 1 /\ i \in 1 .. Len(group)
        /\ \A j \in 1 .. Len(group) - 1 : t[j] = IF j < i THEN group[j] ELSE group[j + 1]
    <3>1. i \in 1 .. Len(group)
      BY <2>0
    <3> HIDE DEF t
    <3>2. t = RemoveAt(group, i)
      BY DEF t
    <3> QED
      BY <2>0, <3>1, <3>2, Removed
  <2> HIDE DEF t
  <2>2. group' = t /\ changes' \in Nat
    BY <1>0, <1>15 DEF Leave, t
  <2>4. ASSUME NEW j \in 1 .. Len(group), NEW k \in 1 .. Len(group), group[j] = group[k]
        PROVE  j = k
    BY <1>0, <2>4 DEF IsInjective
  <2>5. ASSUME NEW j \in 1 .. Len(group) - 1, NEW k \in 1 .. Len(group) - 1, t[j] = t[k]
        PROVE  j = k
    <3> DEFINE Was(n) == IF n < i THEN n ELSE n + 1
    <3>1. \A n \in 1 .. Len(group) - 1 :
            Was(n) \in 1 .. Len(group) /\ t[n] = group[Was(n)]
      BY <1>0, <2>1
    <3>2. Was(j) = Was(k)
      <4> HIDE DEF Was
      <4> QED
        BY <2>4, <2>5, <3>1
    <3> QED
      BY <1>0, <2>1, <3>2
  <2>6. IsInjective(t)
    BY <2>1, <2>5 DEF IsInjective
  <2> QED
    BY <1>0, <1>15, <1>c, <2>1, <2>2, <2>6 DEF Leave, Client, TypeOK
<1>16. CASE UNCHANGED vars
  BY <1>16 DEF vars, TypeOK
<1> QED
  BY <1>1, <1>2, <1>3, <1>4, <1>5, <1>6, <1>7, <1>8, <1>9, <1>10, <1>11, <1>12, <1>13,
     <1>14, <1>15, <1>16 DEF Next, Step

\* Nobody has called yet, and the client has no token.
LEMMA Starts == Init => TypeOK
BY IdleCall, ResultsTyped, SizesAssumption, Times DEF Init, TypeOK

\* The variables keep their types: no worker is held up for longer than
\* assumed, nobody is in the group twice, and an error comes without a list.
THEOREM TypeCorrect == Spec => []TypeOK
BY Starts, TypeKept, PTL DEF Spec

-----------------------------------------------------------------------------
(* Tokens are alive when they are sent                                     *)

\* An issued token lives for n more ticks at least.
Lasts(t, n) == t.state = "issued" => t.life >= n

\* What the token that a worker has, or will take from the client, lives for
\* at least: since it looked at the client's, the worker has waited for some
\* ticks of MaxDelay, and a token stored meanwhile was fetched as long ago.
InHand(v) ==
  LET c == call[v]
  IN  /\ c.pc = "token"   => Lasts(c.token, 2 * Half - c.waited)
      /\ c.pc = "expiry"  => Lasts(accessToken, 2 * Half - MaxDelay - c.waited)
      /\ c.pc = "take"    => Lasts(accessToken, Half + 1 - 2 * MaxDelay - c.waited)
      /\ c.pc = "request" => Lasts(c.token, Half + 1 - 2 * MaxDelay - c.waited)

\* The expiry the client keeps may be that of another token; they were
\* fetched at most twice MaxDelay apart.
Kept == tokenExpiry > 0 => Lasts(accessToken, tokenExpiry + Half - 2 * MaxDelay)

TokensLast == Kept /\ \A v \in Workers : InHand(v)

\* A step of one worker that leaves the client's fields alone.
LEMMA OneInHand ==
  ASSUME TypeOK, TokensLast, NEW v \in Workers, NEW c, call' = [call EXCEPT ![v] = c],
         UNCHANGED Client, InHand(v)'
  PROVE  TokensLast'
<1>1. accessToken' = accessToken /\ tokenExpiry' = tokenExpiry
  BY DEF Client
<1>2. ASSUME NEW w \in Workers PROVE InHand(w)'
  <2>1. CASE w = v
    BY <2>1
  <2>2. CASE w # v
    <3>1. call'[w] = call[w] /\ InHand(w)
      BY <2>2 DEF TypeOK, TokensLast
    <3> QED
      BY <1>1, <3>1 DEF InHand
  <2> QED
    BY <2>1, <2>2
<1> QED
  BY <1>1, <1>2 DEF TokensLast, Kept

\* A worker without a token, and on no way to one, endangers nothing.
LEMMA EmptyHanded ==
  ASSUME TypeOK, TokensLast, NEW v \in Workers, NEW c, call' = [call EXCEPT ![v] = c],
         UNCHANGED Client, c.pc \in {"idle", "check", "fetch"}
  PROVE  TokensLast'
<1>1. call'[v] = c
  BY DEF TypeOK
<1>2. InHand(v)'
  BY <1>1 DEF InHand
<1> QED
  BY <1>2, OneInHand

\* The steps of authorization keep the tokens alive.
LEMMA AuthorizationLasts ==
  ASSUME TypeOK, TokensLast, NEW v \in Workers,
         \/ CheckToken(v) \/ FetchToken(v) \/ StoreToken(v) \/ StoreExpiry(v)
         \/ TakeToken(v) \/ TearToken(v)
  PROVE  TokensLast'
<1> DEFINE c == call[v]
<1>0. /\ c \in Call /\ InHand(v) /\ call \in [Workers -> Call]
      /\ accessToken \in Token /\ tokenExpiry \in 0 .. Half
      /\ c.token \in Token /\ c.keep \in 0 .. Half /\ c.waited \in 0 .. MaxDelay
  BY DEF TypeOK, TokensLast, Call
<1>a. accessToken.life \in Nat /\ c.token.life \in Nat /\ c.waited \in Nat /\ c.waited <= MaxDelay
  BY <1>0, Times DEF Token
<1>b. ASSUME NEW d, Do(v, d) PROVE call' = [call EXCEPT ![v] = d] /\ call'[v] = d
  BY <1>0, <1>b DEF Do
<1>1. ASSUME CheckToken(v) PROVE TokensLast'
  <2> DEFINE d == [c EXCEPT !.pc = IF Usable THEN "take" ELSE "fetch", !.waited = 0]
  <2>1. /\ d.pc = IF Usable THEN "take" ELSE "fetch"
        /\ d.waited = 0
    BY <1>0 DEF Call
  <2>2. Do(v, d) /\ UNCHANGED Client
    BY <1>1 DEF CheckToken
  <2> HIDE DEF d
  <2>3. call' = [call EXCEPT ![v] = d] /\ call'[v] = d
    BY <1>b, <2>2
  <2>4. Usable => Lasts(accessToken, Half + 1 - 2 * MaxDelay - 0)
    BY <1>0, <1>a, Times DEF TokensLast, Kept, Lasts, Usable
  <2>5. accessToken' = accessToken
    BY <2>2 DEF Client
  <2>6. InHand(v)'
    BY <2>1, <2>3, <2>4, <2>5 DEF InHand
  <2> QED
    BY <2>2, <2>3, <2>6, OneInHand
<1>2. ASSUME FetchToken(v) PROVE TokensLast'
  <2> DEFINE new == [state |-> "issued", life |-> 2 * Half]
  <2>1. PICK keep \in {0, Half} :
          Do(v, [c EXCEPT !.pc = "token", !.keep = keep, !.token = new])
    BY <1>2 DEF FetchToken
  <2> DEFINE d == [c EXCEPT !.pc = "token", !.keep = keep, !.token = new]
  <2>2. d.pc = "token" /\ d.token = new /\ d.waited = c.waited
    BY <1>0 DEF Call
  <2>3. call' = [call EXCEPT ![v] = d] /\ call'[v] = d
    BY <1>b, <2>1
  <2>4. Lasts(new, 2 * Half - c.waited)
    BY <1>a, Times DEF Lasts
  <2> HIDE DEF d, new
  <2>5. InHand(v)'
    BY <2>2, <2>3, <2>4 DEF InHand
  <2> QED
    BY <1>2, <2>3, <2>5, OneInHand DEF FetchToken
<1>3. ASSUME StoreToken(v) PROVE TokensLast'
  <2> DEFINE d == [c EXCEPT !.pc = "expiry"]
  <2>1. d.pc = "expiry" /\ d.waited = c.waited
    BY <1>0 DEF Call
  <2>2. Do(v, d) /\ accessToken' = c.token /\ tokenExpiry' = tokenExpiry
    BY <1>3 DEF StoreToken
  <2> HIDE DEF d
  <2>3. call' = [call EXCEPT ![v] = d] /\ call'[v] = d
    BY <1>b, <2>2
  <2>4. Lasts(accessToken', 2 * Half - MaxDelay)
    BY <1>0, <1>3, <1>a, <2>2, Times DEF StoreToken, InHand, Lasts
  <2>5. accessToken'.life \in Nat
    BY <1>a, <2>2
  <2>6. Kept'
    BY <1>0, <2>2, <2>4, <2>5, Times DEF Kept, Lasts
  <2>7. ASSUME NEW w \in Workers PROVE InHand(w)'
    <3>1. /\ call'[w].waited \in Nat
          /\ call'[w].pc \in {"token", "request"} => call'[w] = call[w]
      <4>1. CASE w = v
        BY <1>a, <2>1, <2>3, <4>1
      <4>2. CASE w # v
        BY <1>0, <2>3, <4>2, Times DEF Call
      <4> QED
        BY <4>1, <4>2
    <3>2. Lasts(accessToken', 2 * Half - MaxDelay - call'[w].waited)
      BY <2>4, <2>5, <3>1, Times DEF Lasts
    <3>3. Lasts(accessToken', Half + 1 - 2 * MaxDelay - call'[w].waited)
      BY <2>4, <2>5, <3>1, Times DEF Lasts
    <3>4. InHand(w)
      BY DEF TokensLast
    <3> QED
      BY <3>1, <3>2, <3>3, <3>4 DEF InHand
  <2> QED
    BY <2>6, <2>7 DEF TokensLast
<1>4. ASSUME StoreExpiry(v) PROVE TokensLast'
  <2> DEFINE d == [c EXCEPT !.pc = "take", !.keep = 0, !.token = NoToken]
  <2>1. d.pc = "take" /\ d.waited = c.waited
    BY <1>0 DEF Call
  <2>2. Do(v, d) /\ accessToken' = accessToken /\ tokenExpiry' = c.keep /\ c.pc = "expiry"
    BY <1>4 DEF StoreExpiry
  <2> HIDE DEF d
  <2>3. call' = [call EXCEPT ![v] = d] /\ call'[v] = d
    BY <1>b, <2>2
  <2>4. Lasts(accessToken, 2 * Half - MaxDelay - c.waited)
    BY <1>0, <2>2 DEF InHand
  <2>5. Kept'
    BY <1>0, <1>a, <2>2, <2>4, Times DEF Kept, Lasts
  <2>6. Lasts(accessToken, Half + 1 - 2 * MaxDelay - c.waited)
    BY <1>a, <2>4, Times DEF Lasts
  <2>7. ASSUME NEW w \in Workers PROVE InHand(w)'
    <3>1. CASE w = v
      BY <2>1, <2>2, <2>3, <2>6, <3>1 DEF InHand
    <3>2. CASE w # v
      <4>1. call'[w] = call[w] /\ InHand(w)
        BY <1>0, <2>3, <3>2 DEF TokensLast
      <4> QED
        BY <2>2, <4>1 DEF InHand
    <3> QED
      BY <3>1, <3>2
  <2> QED
    BY <2>5, <2>7 DEF TokensLast
<1>5. ASSUME TakeToken(v) PROVE TokensLast'
  <2> DEFINE d == [c EXCEPT !.pc = "request", !.token = accessToken]
  <2>1. d.pc = "request" /\ d.waited = c.waited /\ d.token = accessToken
    BY <1>0 DEF Call
  <2>2. Do(v, d) /\ c.pc = "take" /\ UNCHANGED Client
    BY <1>5 DEF TakeToken
  <2> HIDE DEF d
  <2>3. call' = [call EXCEPT ![v] = d] /\ call'[v] = d
    BY <1>b, <2>2
  <2>4. InHand(v)'
    BY <1>0, <2>1, <2>2, <2>3 DEF InHand
  <2> QED
    BY <2>2, <2>3, <2>4, OneInHand
<1>6. ASSUME TearToken(v) PROVE TokensLast'
  <2> DEFINE d == [c EXCEPT !.pc = "request", !.token.state = "torn"]
  <2>1. d.pc = "request" /\ d.token.state = "torn"
    BY <1>0 DEF Call, Token
  <2>2. Do(v, d) /\ UNCHANGED Client
    BY <1>6 DEF TearToken
  <2> HIDE DEF d
  <2>3. call' = [call EXCEPT ![v] = d] /\ call'[v] = d
    BY <1>b, <2>2
  <2>4. InHand(v)'
    BY <2>1, <2>3 DEF InHand, Lasts
  <2> QED
    BY <2>2, <2>3, <2>4, OneInHand
<1> QED
  BY <1>1, <1>2, <1>3, <1>4, <1>5, <1>6

\* So does time: what a tick takes from a token, it adds to the wait of the
\* workers and takes from the expiry.
LEMMA TickLasts ==
  ASSUME TypeOK, TokensLast, Tick
  PROVE  TokensLast'
<1> DEFINE Older(t) == [t EXCEPT !.life = IF @ = 0 THEN 0 ELSE @ - 1]
<1>0. /\ accessToken \in Token /\ tokenExpiry \in Nat /\ call \in [Workers -> Call]
      /\ accessToken' = Older(accessToken)
      /\ tokenExpiry' = IF tokenExpiry = 0 THEN 0 ELSE tokenExpiry - 1
  <2>1. accessToken \in Token /\ tokenExpiry \in Nat /\ call \in [Workers -> Call]
    BY Times DEF TypeOK
  <2>2. accessToken' = Older(accessToken)
    BY DEF Tick
  <2>3. tokenExpiry' = IF tokenExpiry = 0 THEN 0 ELSE tokenExpiry - 1
    BY DEF Tick
  <2> QED
    BY <2>1, <2>2, <2>3
<1>1. ASSUME NEW t \in Token, NEW n \in Int, Lasts(t, n)
      PROVE  Lasts(Older(t), n - 1)
  <2> DEFINE o == Older(t)
  <2>1. t.life \in Nat /\ o.state = t.state /\ o.life = IF t.life = 0 THEN 0 ELSE t.life - 1
    BY Times DEF Token
  <2> HIDE DEF o
  <2>2. Lasts(o, n - 1)
    BY <1>1, <2>1 DEF Lasts
  <2> QED
    BY <2>2 DEF o
<1> HIDE DEF Older
<1>2. Kept'
  <2>1. CASE tokenExpiry' > 0
    <3> DEFINE n == tokenExpiry + Half - 2 * MaxDelay
    <3>1. tokenExpiry > 0 /\ tokenExpiry' = tokenExpiry - 1 /\ n \in Int
      BY <1>0, <2>1, Times
    <3>2. Lasts(accessToken, n)
      BY <3>1 DEF TokensLast, Kept
    <3>3. n - 1 = tokenExpiry' + Half - 2 * MaxDelay
      BY <1>0, <3>1, Times
    <3> HIDE DEF n
    <3>4. Lasts(accessToken', n - 1)
      BY <1>0, <1>1, <3>1, <3>2
    <3> QED
      BY <3>3, <3>4 DEF Kept
  <2> QED
    BY <2>1 DEF Kept
<1>3. ASSUME NEW w \in Workers PROVE InHand(w)'
  <2> DEFINE c == call[w]
             a == 2 * Half - c.waited
             b == 2 * Half - MaxDelay - c.waited
             d == Half + 1 - 2 * MaxDelay - c.waited
  <2>1. CASE c.pc \in {"idle", "check"}
    <3>1. call'[w] = c
      BY <2>1 DEF Tick
    <3> QED
      BY <2>1, <3>1 DEF InHand
  <2>2. CASE c.pc \notin {"idle", "check"}
    <3>0. c \in Call /\ c.token \in Token /\ c.waited \in Nat /\ InHand(w)
      BY <1>0, Times DEF Call, TokensLast
    <3>1. call'[w] = [c EXCEPT !.token = Older(@), !.waited = @ + 1]
      BY <2>2 DEF Tick, Older
    <3>2. /\ call'[w].pc = c.pc /\ call'[w].token = Older(c.token)
          /\ call'[w].waited = c.waited + 1
      BY <3>0, <3>1 DEF Call
    <3>3. a \in Int /\ b \in Int /\ d \in Int
      BY <3>0, Times
    <3>4. /\ a - 1 = 2 * Half - call'[w].waited
          /\ b - 1 = 2 * Half - MaxDelay - call'[w].waited
          /\ d - 1 = Half + 1 - 2 * MaxDelay - call'[w].waited
      BY <3>0, <3>2, Times
    <3>5. /\ c.pc = "token"   => Lasts(c.token, a)
          /\ c.pc = "expiry"  => Lasts(accessToken, b)
          /\ c.pc = "take"    => Lasts(accessToken, d)
          /\ c.pc = "request" => Lasts(c.token, d)
      BY <3>0 DEF InHand
    <3> HIDE DEF c, a, b, d
    <3>6. /\ c.pc = "token"   => Lasts(call'[w].token, a - 1)
          /\ c.pc = "expiry"  => Lasts(accessToken', b - 1)
          /\ c.pc = "take"    => Lasts(accessToken', d - 1)
          /\ c.pc = "request" => Lasts(call'[w].token, d - 1)
      BY <1>0, <1>1, <3>0, <3>2, <3>3, <3>5
    <3> QED
      BY <3>2, <3>4, <3>6 DEF InHand
  <2> QED
    BY <2>1, <2>2
<1> QED
  BY <1>2, <1>3 DEF TokensLast

\* A revoked token is not an issued one; a change of the group is none of a
\* token.
LEMMA SurroundingsLast ==
  ASSUME TypeOK, TokensLast
  PROVE  /\ Revoke => TokensLast'
         /\ \A i, u : Join(u, i) \/ Leave(i) => TokensLast'
<1>0. accessToken \in Token /\ call \in [Workers -> Call]
  BY DEF TypeOK
<1>1. ASSUME Revoke PROVE TokensLast'
  <2> DEFINE Gone(t) == IF t.state = "issued" THEN [t EXCEPT !.state = "revoked"] ELSE t
  <2>1. ASSUME NEW t \in Token, NEW n PROVE Lasts(Gone(t), n)
    <3>1. Gone(t).state # "issued"
      BY DEF Token
    <3> QED
      BY <3>1 DEF Lasts
  <2>2. accessToken' = Gone(accessToken)
    BY <1>1 DEF Revoke
  <2>3. \A w \in Workers : call'[w] = [call[w] EXCEPT !.token = Gone(@)]
    BY <1>1 DEF Revoke
  <2> HIDE DEF Gone
  <2>4. \A w \in Workers : call'[w].token = Gone(call[w].token) /\ call[w].token \in Token
    BY <1>0, <2>3 DEF Call
  <2> QED
    BY <1>0, <2>1, <2>2, <2>4 DEF TokensLast, Kept, InHand
<1>2. ASSUME NEW i, NEW u, Join(u, i) \/ Leave(i) PROVE TokensLast'
  <2>1. \E new, all : Notice(new, all)
    BY <1>2 DEF Join, Leave
  <2>2. accessToken' = accessToken /\ tokenExpiry' = tokenExpiry
    BY <1>2 DEF Join, Leave, Client
  <2>3. \A w \in Workers : /\ call'[w].pc = call[w].pc
                           /\ call'[w].token = call[w].token
                           /\ call'[w].waited = call[w].waited
    BY <1>0, <2>1, ZenonT(40) DEF Notice, Call
  <2> QED
    BY <2>2, <2>3 DEF TokensLast, Kept, InHand
<1> QED
  BY <1>1, <1>2

\* Every step keeps the tokens alive.
LEMMA TokensKept ==
  ASSUME TypeOK, TokensLast, [Next]_vars
  PROVE  TokensLast'
<1>1. ASSUME NEW v \in Workers, NEW outcome, NEW users, Return(v, outcome, users),
             UNCHANGED Client
      PROVE  TokensLast'
  BY <1>1, EmptyHanded, IdleCall DEF Return
<1>2. ASSUME NEW v \in Workers, Begin(v) PROVE TokensLast'
  <2> DEFINE d == [Idle EXCEPT !.pc = "check", !.stayed = Range(group)]
  <2>1. d.pc = "check" /\ call' = [call EXCEPT ![v] = d] /\ UNCHANGED Client
    BY <1>2, IdleCall DEF Begin, Call
  <2> HIDE DEF d
  <2> QED
    BY <2>1, EmptyHanded
<1>3. ASSUME NEW v \in Workers, ReceivePage(v) PROVE TokensLast'
  <2> DEFINE c == call[v]
             users == c.users \o Page(c.page)
             d == [c EXCEPT !.pc = "check", !.token = NoToken, !.page = c.page + 1,
                            !.users = users, !.waited = 0]
  <2>0. c \in Call
    BY DEF TypeOK
  <2>1. d.pc = "check"
    BY <2>0 DEF Call
  <2>2. (Return(v, "list", users) \/ Do(v, d)) /\ UNCHANGED Client
    BY <1>3, <2>0 DEF ReceivePage, Call
  <2> HIDE DEF d
  <2> QED
    BY <1>1, <2>1, <2>2, EmptyHanded DEF Do
<1>4. ASSUME NEW v \in Workers,
             FetchRefused(v) \/ ReceiveOther(v) \/ Unauthorized(v) \/ RequestFails(v)
      PROVE  TokensLast'
  BY <1>1, <1>4 DEF FetchRefused, ReceiveOther, Unauthorized, RequestFails, Fail
<1>5. CASE UNCHANGED vars
  BY <1>5 DEF vars, TokensLast, Kept, InHand
<1> QED
  BY <1>2, <1>3, <1>4, <1>5, AuthorizationLasts, TickLasts, SurroundingsLast
  DEF Next, Step

\* No request goes out with a token that has expired, however the workers
\* fetch, store and take tokens and expiries past one another: keeping a
\* token for half of its life allows for three times the longest hold-up.
THEOREM TokensLive == Spec => []LiveToken
<1>1. Init => TokensLast
  BY DEF Init, Idle, NoToken, TokensLast, Kept, InHand
<1>2. TypeOK /\ TokensLast => LiveToken
  <2> SUFFICES ASSUME TypeOK, TokensLast, NEW v \in Workers, call[v].pc = "request",
                      call[v].token.state = "issued"
               PROVE  call[v].token.life > 0
    BY DEF LiveToken
  <2>1. call[v].waited \in 0 .. MaxDelay /\ call[v].token.life \in Nat
    BY Times DEF TypeOK, Call, Token
  <2>2. call[v].token.life >= Half + 1 - 2 * MaxDelay - call[v].waited
    BY DEF TokensLast, InHand, Lasts
  <2> QED
    BY <2>1, <2>2, Times
<1> QED
  BY <1>1, <1>2, Starts, TypeKept, TokensKept, PTL DEF Spec

-----------------------------------------------------------------------------
(* Nobody who stays is missed                                              *)

\* As long as nobody leaves, who has been in the group all through a call is
\* on the pages received or at a place that is still to be asked for.
Listed(c) ==
  c.pc # "idle" /\ c.calm =>
    \A u \in c.stayed : \/ u \in Range(c.users)
                        \/ \E i \in 1 .. Len(group) :
                             (c.page - 1) * PageSize < i /\ group[i] = u

AllListed == \A v \in Workers : Listed(call[v])

\* A step of one worker.
LEMMA OneListed ==
  ASSUME TypeOK, AllListed, NEW v \in Workers, NEW c, call' = [call EXCEPT ![v] = c],
         UNCHANGED group, Listed(c)
  PROVE  AllListed'
BY DEF TypeOK, AllListed, Listed

\* A page received: whoever was on it is listed, whoever was not is still to
\* come, and after the last page there is nobody.
LEMMA PageReceived ==
  ASSUME TypeOK, NEW c \in Call, Listed(c), c.pc # "idle", c.calm, NEW u \in c.stayed
  PROVE  LET users == c.users \o Page(c.page)
         IN  /\ \/ u \in Range(users)
                \/ \E i \in 1 .. Len(group) : c.page * PageSize < i /\ group[i] = u
             /\ c.page >= TotalPages => u \in Range(users)
<1> DEFINE s == Page(c.page)
           users == c.users \o s
<1>1. c.users \in Seq(Users) /\ c.page \in Nat \ {0} /\ Len(group) \in Nat
  BY DEF TypeOK, Call
<1>2. /\ s \in Seq(Users)
      /\ \A i \in 1 .. Len(group) :
           (c.page - 1) * PageSize < i /\ i <= c.page * PageSize => group[i] \in Range(s)
  BY <1>1, PageLists
<1> HIDE DEF s
<1>3. Range(c.users) \subseteq Range(users) /\ Range(s) \subseteq Range(users)
  <2>1. /\ Len(users) = Len(c.users) + Len(s)
        /\ \A i \in 1 .. Len(c.users) + Len(s) :
             users[i] = IF i <= Len(c.users) THEN c.users[i] ELSE s[i - Len(c.users)]
        /\ users \in Seq(Users)
    BY <1>1, <1>2, ConcatProperties
  <2> HIDE DEF users
  <2>2. DOMAIN users = 1 .. Len(users)
    BY <2>1
  <2>3. ASSUME NEW i \in DOMAIN c.users PROVE c.users[i] \in Range(users)
    <3>0. i \in 1 .. Len(c.users) /\ Len(c.users) \in Nat /\ Len(s) \in Nat
      BY <1>1, <1>2
    <3>1. i \in 1 .. Len(users) /\ users[i] = c.users[i]
      BY <2>1, <3>0
    <3> QED
      BY <2>2, <3>1 DEF Range
  <2>4. ASSUME NEW i \in DOMAIN s PROVE s[i] \in Range(users)
    <3> DEFINE j == Len(c.users) + i
    <3>1. j \in 1 .. Len(users) /\ j > Len(c.users) /\ j - Len(c.users) = i
      BY <1>1, <1>2, <2>1
    <3> HIDE DEF j
    <3>2. users[j] = s[i]
      BY <1>1, <1>2, <2>1, <3>1
    <3> QED
      BY <2>2, <3>1, <3>2 DEF Range
  <2> QED
    BY <2>3, <2>4 DEF Range
<1>4. c.page * PageSize \in Nat
  BY <1>1, SizesAssumption
<1>5. \/ u \in Range(users)
      \/ \E i \in 1 .. Len(group) : c.page * PageSize < i /\ group[i] = u
  BY <1>1, <1>2, <1>3, <1>4 DEF Listed
<1>6. c.page >= TotalPages => Len(group) <= c.page * PageSize
  BY <1>1, SizesAssumption, PagesCover DEF TotalPages
<1>7. c.page >= TotalPages => u \in Range(users)
  BY <1>1, <1>4, <1>5, <1>6
<1> QED
  BY <1>5, <1>7 DEF s

\* A change of the group: who joins moves the others towards the pages that
\* are still to come, and a call that sees someone leave is no longer calm.
LEMMA ChangeListed ==
  ASSUME TypeOK, AllListed
  PROVE  /\ \A u \in Users : \A i \in 1 .. Len(group) + 1 : Join(u, i) => AllListed'
         /\ \A i : Leave(i) => AllListed'
<1>0. group \in Seq(Users) /\ call \in [Workers -> Call]
  BY DEF TypeOK
<1>1. ASSUME NEW u \in Users, NEW i \in 1 .. Len(group) + 1, Join(u, i) PROVE AllListed'
  <2>1. /\ Len(group') = Len(group) + 1
        /\ \A j \in 1 .. Len(group) + 1 :
             group'[j] = IF j < i THEN group[j] ELSE IF j = i THEN u ELSE group[j - 1]
    BY <1>0, <1>1, Inserted DEF Join
  <2>2. ASSUME NEW k \in 1 .. Len(group)
        PROVE  \E j \in 1 .. Len(group') : k <= j /\ group'[j] = group[k]
    <3>1. CASE k < i
      BY <1>0, <2>1, <3>1
    <3>2. CASE k >= i
      <4>1. k + 1 \in 1 .. Len(group) + 1 /\ k + 1 > i /\ (k + 1) - 1 = k /\ k <= k + 1
        BY <1>0, <3>2
      <4>2. group'[k + 1] = group[k]
        BY <1>0, <2>1, <4>1
      <4> QED
        BY <2>1, <4>1, <4>2
    <3> QED
      BY <1>0, <3>1, <3>2
  <2>3. ASSUME NEW w \in Workers, call[w].pc # "idle", call'[w].calm
        PROVE  /\ call[w].calm /\ call'[w].page = call[w].page
               /\ call'[w].users = call[w].users /\ call'[w].stayed \subseteq call[w].stayed
    BY <1>0, <1>1, <2>3 DEF Join, Notice, Call
  <2>4. \A w \in Workers : call[w].pc = "idle" <=> call'[w].pc = "idle"
    BY <1>0, <1>1 DEF Join, Notice, Call
  <2>5. ASSUME NEW w \in Workers, call'[w].pc # "idle", call'[w].calm,
               NEW x \in call'[w].stayed, x \notin Range(call'[w].users)
        PROVE  \E j \in 1 .. Len(group') :
                 (call'[w].page - 1) * PageSize < j /\ group'[j] = x
    <3>1. PICK k \in 1 .. Len(group) : (call[w].page - 1) * PageSize < k /\ group[k] = x
      BY <2>3, <2>4, <2>5 DEF AllListed, Listed
    <3>2. PICK j \in 1 .. Len(group') : k <= j /\ group'[j] = group[k]
      BY <2>2
    <3>3. (call[w].page - 1) * PageSize \in Nat
      BY <1>0, SizesAssumption DEF Call
    <3>4. (call[w].page - 1) * PageSize < j
      BY <1>0, <2>1, <3>1, <3>2, <3>3
    <3> QED
      BY <2>3, <2>4, <2>5, <3>1, <3>2, <3>4
  <2> QED
    BY <2>5 DEF AllListed, Listed
<1>2. ASSUME NEW i, Leave(i) PROVE AllListed'
  <2>1. \A w \in Workers : call'[w].pc = "idle" \/ ~call'[w].calm
    BY <1>0, <1>2 DEF Leave, Notice, Call
  <2> QED
    BY <2>1 DEF AllListed, Listed
<1> QED
  BY <1>1, <1>2

\* What a call has listed is left as it is.
OnPage(d, c) ==
  d.calm = c.calm /\ d.stayed = c.stayed /\ d.users = c.users /\ d.page = c.page

\* Time and the server leave what has been listed alone.
LEMMA TimePasses ==
  ASSUME TypeOK, Tick \/ Revoke
  PROVE  /\ UNCHANGED Outside
         /\ \A w \in Workers : call'[w].pc = call[w].pc /\ OnPage(call'[w], call[w])
<1>1. CASE Tick
  <2>1. ASSUME NEW w \in Workers
        PROVE  call'[w].pc = call[w].pc /\ OnPage(call'[w], call[w])
    <3> DEFINE c == call[w]
    <3>1. c \in Call
      BY DEF TypeOK
    <3>2. \/ call'[w] = c
          \/ \E t, n : call'[w] = [c EXCEPT !.token = t, !.waited = n]
      BY <1>1, <3>1 DEF Tick, Call
    <3> HIDE DEF c
    <3>3. call'[w].pc = c.pc /\ OnPage(call'[w], c)
      BY <3>1, <3>2 DEF Call, OnPage
    <3> QED
      BY <3>3 DEF c
  <2> QED
    BY <1>1, <2>1 DEF Tick
<1>2. CASE Revoke
  <2>1. ASSUME NEW w \in Workers
        PROVE  call'[w].pc = call[w].pc /\ OnPage(call'[w], call[w])
    <3> DEFINE c == call[w]
    <3>1. c \in Call
      BY DEF TypeOK
    <3>2. \E t : call'[w] = [c EXCEPT !.token = t]
      BY <1>2 DEF Revoke
    <3> HIDE DEF c
    <3>3. call'[w].pc = c.pc /\ OnPage(call'[w], c)
      BY <3>1, <3>2 DEF Call, OnPage
    <3> QED
      BY <3>3 DEF c
  <2> QED
    BY <1>2, <2>1 DEF Revoke
<1> QED
  BY <1>1, <1>2

\* Every step keeps everybody listed.
LEMMA ListedKept ==
  ASSUME TypeOK, AllListed, [Next]_vars
  PROVE  AllListed'
<1>0. call \in [Workers -> Call] /\ group \in Seq(Users) /\ Len(group) \in Nat
  BY DEF TypeOK
<1>1. ASSUME NEW v \in Workers, NEW outcome, NEW users, Return(v, outcome, users),
             UNCHANGED Outside
      PROVE  AllListed'
  <2>1. Listed(Idle)
    BY IdleCall DEF Listed
  <2> QED
    BY <1>1, <2>1, OneListed DEF Return, Outside
<1>2. ASSUME NEW v \in Workers, Begin(v) PROVE AllListed'
  <2> DEFINE d == [Idle EXCEPT !.pc = "check", !.stayed = Range(group)]
  <2>1. d.page = 1 /\ d.stayed = Range(group)
    BY DEF Idle
  <2>2. call' = [call EXCEPT ![v] = d] /\ UNCHANGED group
    BY <1>2 DEF Begin, Outside
  <2>3. ASSUME NEW u \in Range(group)
        PROVE  \E i \in 1 .. Len(group) : (1 - 1) * PageSize < i /\ group[i] = u
    BY <1>0, SizesAssumption DEF Range
  <2> HIDE DEF d
  <2>4. Listed(d)
    BY <2>1, <2>3 DEF Listed
  <2> QED
    BY <2>2, <2>4, OneListed
<1>3. ASSUME NEW v \in Workers, NEW d, Do(v, d), UNCHANGED Outside, d.pc # "idle",
             call[v].pc # "idle", d.calm = call[v].calm, d.stayed = call[v].stayed,
             d.users = call[v].users, d.page = call[v].page
      PROVE  AllListed'
  <2>1. Listed(d)
    BY <1>3 DEF AllListed, Listed
  <2> QED
    BY <1>3, <2>1, OneListed DEF Do, Outside
<1>4. ASSUME NEW v \in Workers,
             \/ CheckToken(v) \/ FetchToken(v) \/ StoreToken(v) \/ StoreExpiry(v)
             \/ TakeToken(v) \/ TearToken(v)
      PROVE  AllListed'
  <2>1. call[v] \in Call
    BY <1>0
  <2> DEFINE c == call[v]
  <2>2. c \in Call
    BY <2>1
  <2>3. CASE CheckToken(v)
    <3> DEFINE d == [c EXCEPT !.pc = IF Usable THEN "take" ELSE "fetch", !.waited = 0]
    <3>2. Do(v, d) /\ UNCHANGED Outside /\ c.pc # "idle"
      BY <2>3 DEF CheckToken
    <3> HIDE DEF c
    <3>3. d.pc # "idle" /\ OnPage(d, c)
      BY <2>2 DEF Call, OnPage
    <3> HIDE DEF d
    <3> QED
      BY <1>3, <3>2, <3>3 DEF c, OnPage
  <2>4. CASE FetchToken(v)
    <3> DEFINE new == [state |-> "issued", life |-> 2 * Half]
    <3>1. PICK keep \in {0, Half} :
            Do(v, [c EXCEPT !.pc = "token", !.keep = keep, !.token = new])
      BY <2>4 DEF FetchToken
    <3> DEFINE d == [c EXCEPT !.pc = "token", !.keep = keep, !.token = new]
    <3>2. Do(v, d) /\ UNCHANGED Outside /\ c.pc # "idle"
      BY <2>4, <3>1 DEF FetchToken
    <3> HIDE DEF c
    <3>3. d.pc # "idle" /\ OnPage(d, c)
      BY <2>2 DEF Call, OnPage
    <3> HIDE DEF d
    <3> QED
      BY <1>3, <3>2, <3>3 DEF c, OnPage
  <2>5. CASE StoreToken(v)
    <3> DEFINE d == [c EXCEPT !.pc = "expiry"]
    <3>2. Do(v, d) /\ UNCHANGED Outside /\ c.pc # "idle"
      BY <2>5 DEF StoreToken
    <3> HIDE DEF c
    <3>3. d.pc # "idle" /\ OnPage(d, c)
      BY <2>2 DEF Call, OnPage
    <3> HIDE DEF d
    <3> QED
      BY <1>3, <3>2, <3>3 DEF c, OnPage
  <2>6. CASE StoreExpiry(v)
    <3> DEFINE d == [c EXCEPT !.pc = "take", !.keep = 0, !.token = NoToken]
    <3>2. Do(v, d) /\ UNCHANGED Outside /\ c.pc # "idle"
      BY <2>6 DEF StoreExpiry
    <3> HIDE DEF c
    <3>3. d.pc # "idle" /\ OnPage(d, c)
      BY <2>2 DEF Call, OnPage
    <3> HIDE DEF d
    <3> QED
      BY <1>3, <3>2, <3>3 DEF c, OnPage
  <2>7. CASE TakeToken(v)
    <3> DEFINE d == [c EXCEPT !.pc = "request", !.token = accessToken]
    <3>2. Do(v, d) /\ UNCHANGED Outside /\ c.pc # "idle"
      BY <2>7 DEF TakeToken
    <3> HIDE DEF c
    <3>3. d.pc # "idle" /\ OnPage(d, c)
      BY <2>2 DEF Call, OnPage
    <3> HIDE DEF d
    <3> QED
      BY <1>3, <3>2, <3>3 DEF c, OnPage
  <2>8. CASE TearToken(v)
    <3> DEFINE d == [c EXCEPT !.pc = "request", !.token.state = "torn"]
    <3>2. Do(v, d) /\ UNCHANGED Outside /\ c.pc # "idle"
      BY <2>8 DEF TearToken
    <3> HIDE DEF c
    <3>3. d.pc # "idle" /\ OnPage(d, c)
      BY <2>2 DEF Call, OnPage
    <3> HIDE DEF d
    <3> QED
      BY <1>3, <3>2, <3>3 DEF c, OnPage
  <2> QED
    BY <1>4, <2>3, <2>4, <2>5, <2>6, <2>7, <2>8
<1>5. ASSUME NEW v \in Workers, ReceivePage(v) PROVE AllListed'
  <2> DEFINE c == call[v]
             users == c.users \o Page(c.page)
             d == [c EXCEPT !.pc = "check", !.token = NoToken, !.page = c.page + 1,
                            !.users = users, !.waited = 0]
  <2>0. c \in Call /\ Listed(c) /\ c.pc # "idle"
    BY <1>0, <1>5 DEF AllListed, ReceivePage, Accepted
  <2>2. (Return(v, "list", users) \/ Do(v, d)) /\ UNCHANGED Outside
    BY <1>5, <2>0 DEF ReceivePage, Call
  <2> HIDE DEF c, users
  <2>5. d.page = c.page + 1 /\ d.users = users /\ d.calm = c.calm /\ d.stayed = c.stayed
    BY <2>0 DEF Call
  <2>1. d.page - 1 = c.page /\ d.users = users /\ d.calm = c.calm /\ d.stayed = c.stayed
    BY <2>0, <2>5 DEF Call
  <2> USE DEF users
  <2>3. c.calm => \A u \in c.stayed :
          \/ u \in Range(users)
          \/ \E i \in 1 .. Len(group) : c.page * PageSize < i /\ group[i] = u
    BY <2>0, PageReceived
  <2> HIDE DEF d, users, c
  <2>4. Listed(d)
    BY <2>1, <2>3 DEF Listed
  <2> QED
    BY <1>1, <2>2, <2>4, OneListed DEF Do, Outside
<1>6. ASSUME NEW v \in Workers,
             FetchRefused(v) \/ ReceiveOther(v) \/ Unauthorized(v) \/ RequestFails(v)
      PROVE  AllListed'
  BY <1>1, <1>6 DEF FetchRefused, ReceiveOther, Unauthorized, RequestFails, Fail
<1>7. ASSUME Tick \/ Revoke PROVE AllListed'
  <2>1. \A w \in Workers : call'[w].pc = call[w].pc /\ OnPage(call'[w], call[w])
    BY <1>7, TimePasses
  <2>2. group' = group
    BY <1>7, TimePasses DEF Outside
  <2> QED
    BY <2>1, <2>2 DEF AllListed, Listed, OnPage
<1>8. CASE UNCHANGED vars
  BY <1>8 DEF vars, AllListed, Listed
<1> QED
  BY <1>2, <1>4, <1>5, <1>6, <1>7, <1>8, ChangeListed DEF Next, Step

\* The step of NobodyMissed.
NoneMissed ==
  \A v \in Workers :
    /\ call[v].pc = "request" /\ call'[v].pc = "idle"
    /\ result'[v].outcome = "list" /\ faults' = faults /\ call[v].calm
    => call[v].stayed \subseteq Range(result'[v].users)

\* A listing that comes to its end has everybody who was there throughout.
LEMMA NoneMissedStep ==
  ASSUME TypeOK, AllListed, [Next]_vars
  PROVE  NoneMissed
<1> SUFFICES ASSUME NEW v \in Workers, call[v].pc = "request", call'[v].pc = "idle",
                    result'[v].outcome = "list", faults' = faults, call[v].calm
             PROVE  call[v].stayed \subseteq Range(result'[v].users)
  BY DEF NoneMissed
<1>0. /\ call \in [Workers -> Call] /\ result \in [Workers -> Result] /\ faults \in Nat
      /\ Listed(call[v])
  BY DEF TypeOK, AllListed
<1>1. ASSUME NEW w \in Workers, NEW c, call' = [call EXCEPT ![w] = c], c.pc # "idle"
      PROVE  FALSE
  BY <1>0, <1>1
<1>2. ~Tick /\ ~Revoke /\ ~(UNCHANGED vars)
  BY TimePasses DEF vars
<1>3. \A i, u : ~Join(u, i) /\ ~Leave(i)
  <2>1. ASSUME NEW new, NEW all, Notice(new, all) PROVE FALSE
    <3>1. call'[v].pc = call[v].pc
      BY <1>0, <2>1 DEF Notice, Call
    <3> QED
      BY <3>1
  <2> QED
    BY <2>1 DEF Join, Leave
<1>4. PICK w \in Workers : \/ Step(w) \/ TearToken(w) \/ FetchRefused(w)
                           \/ ReceiveOther(w) \/ RequestFails(w)
  BY <1>2, <1>3 DEF Next
<1>5. w = v
  <2>1. \E c : call' = [call EXCEPT ![w] = c]
    BY <1>4 DEF Step, Begin, CheckToken, FetchToken, StoreToken, StoreExpiry, TakeToken,
                ReceivePage, Unauthorized, TearToken, FetchRefused, ReceiveOther,
                RequestFails, Fail, Do, Return
  <2> QED
    BY <1>0, <2>1
<1>6. ~Begin(v) /\ ~CheckToken(v) /\ ~FetchToken(v) /\ ~StoreToken(v) /\ ~StoreExpiry(v)
      /\ ~TakeToken(v) /\ ~TearToken(v) /\ ~FetchRefused(v)
  BY DEF Begin, CheckToken, FetchToken, StoreToken, StoreExpiry, TakeToken, TearToken,
         FetchRefused
<1>7. \A kind : ~Fault(kind)
  BY <1>0 DEF Fault
<1>8. ~Unauthorized(v) /\ ~RequestFails(v) /\ ~ReceiveOther(v)
  BY <1>0, <1>7 DEF Unauthorized, RequestFails, Fail, ReceiveOther, Return
<1>9. ReceivePage(v)
  BY <1>4, <1>5, <1>6, <1>8 DEF Step
<1> DEFINE users == call[v].users \o Page(call[v].page)
<1>10. call[v].page >= TotalPages /\ Return(v, "list", users)
  <2>1. CASE call[v].page >= TotalPages
    BY <1>9, <2>1 DEF ReceivePage
  <2>2. CASE ~(call[v].page >= TotalPages)
    <3>1. call'[v].pc = "check"
      BY <1>0, <1>9, <2>2 DEF ReceivePage, Do, Call
    <3> QED
      BY <3>1
  <2> QED
    BY <2>1, <2>2
<1>11. result'[v].users = users
  BY <1>0, <1>10 DEF Return
<1>12. \A u \in call[v].stayed : u \in Range(users)
  BY <1>0, <1>10, PageReceived
<1> QED
  BY <1>11, <1>12

\* A member who is in the group all through a listing is listed, on whatever
\* pages the group is spread and however many join meanwhile and shift the
\* others, as long as nobody leaves and the answers have the right shape.
THEOREM NobodyIsMissed == Spec => NobodyMissed
<1>1. TypeOK /\ AllListed /\ [Next]_vars => [NoneMissed]_vars
  BY NoneMissedStep
<1>2. Init => AllListed
  BY DEF Init, Idle, AllListed, Listed
<1> QED
  BY <1>1, <1>2, Starts, TypeKept, ListedKept, PTL DEF Spec, NobodyMissed, NoneMissed
=============================================================================
