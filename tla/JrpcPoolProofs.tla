--------------------------- MODULE JrpcPoolProofs ---------------------------
(***************************************************************************)
(* For every set of backends and every number of calls: the addresses the  *)
(* pool keeps are those nobody has dropped, no backend gets a call twice,  *)
(* and success nobody is responsible for means that none is left.          *)
(***************************************************************************)
EXTENDS JrpcPool, FiniteSetTheorems, TLAPS

\* No address is listed twice, and what a call in progress has tried has been dropped.
PoolInv ==
    /\ TypeOK
    /\ \A i, j \in DOMAIN Ips : Ips[i] = Ips[j] => i = j
    /\ OnlyDroppedMissing
    /\ SentOncePerBackend
    /\ calling => made > 0 /\ tried \subseteq dropped
    /\ SilentOnlyWhenEmpty

\* Overwriting one element of a list without repetitions by the last one and cutting the
\* list short removes exactly that element, wherever it was.
LEMMA SwapRemoval ==
    ASSUME NEW S, NEW s \in Seq(S), \A i, j \in DOMAIN s : s[i] = s[j] => i = j,
           NEW k \in DOMAIN s
    PROVE  LET t == SubSeq([s EXCEPT ![k] = s[Len(s)]], 1, Len(s) - 1)
           IN  /\ t \in Seq(S)
               /\ \A i, j \in DOMAIN t : t[i] = t[j] => i = j
               /\ Range(t) = Range(s) \ {s[k]}
<1> DEFINE n == Len(s)
           u == [s EXCEPT ![k] = s[n]]
           t == SubSeq(u, 1, n - 1)
<1>1. n \in Nat \ {0} /\ k \in 1..n /\ DOMAIN s = 1..n /\ \A i \in 1..n : s[i] \in S
  OBVIOUS
<1>2. u \in Seq(S) /\ Len(u) = n /\ \A i \in 1..n : u[i] = IF i = k THEN s[n] ELSE s[i]
  BY <1>1
<1>3. t \in Seq(S) /\ Len(t) = n - 1 /\ \A i \in 1..(n - 1) : t[i] = u[i]
  BY <1>1, <1>2
<1>4. DOMAIN t = 1..(n - 1)
  BY <1>3
<1>5. \A i, j \in DOMAIN t : t[i] = t[j] => i = j
  BY <1>1, <1>2, <1>3, <1>4
<1>6. Range(t) \subseteq Range(s) \ {s[k]}
  BY <1>1, <1>2, <1>3, <1>4 DEF Range
<1>7. ASSUME NEW i \in 1..n, s[i] # s[k]
      PROVE  s[i] \in Range(t)
  <2>1. CASE i = n
    <3>1. k \in 1..(n - 1)
      BY <1>1, <1>7, <2>1
    <3>2. t[k] = s[i] /\ k \in DOMAIN t
      BY <1>2, <1>3, <1>4, <2>1, <3>1
    <3>3. QED
      BY <3>2, Zenon DEF Range
  <2>2. CASE i # n
    <3>1. i \in 1..(n - 1) /\ i # k
      <4>1. i # k
        BY <1>7, Zenon
      <4>2. n \in Nat /\ i \in 1..n
        BY <1>1, <1>7, Zenon
      <4> HIDE DEF n
      <4>3. QED
        BY <2>2, <4>1, <4>2
    <3>2. t[i] = s[i] /\ i \in DOMAIN t
      BY <1>2, <1>3, <1>4, <3>1
    <3>3. QED
      BY <3>2, Zenon DEF Range
  <2>3. QED
    BY <2>1, <2>2
<1>8. Range(s) \ {s[k]} \subseteq Range(t)
  BY <1>1, <1>7 DEF Range
<1>9. QED
  BY <1>3, <1>5, <1>6, <1>8

\* Dropping an address, listed or not, keeps the list what it should be.
LEMMA DropKeeps ==
    ASSUME PoolInv, NEW b \in Backend, Drop(b)
    PROVE  /\ Ips' \in Seq(Backend)
           /\ \A i, j \in DOMAIN Ips' : Ips'[i] = Ips'[j] => i = j
           /\ OnlyDroppedMissing'
           /\ dropped' \subseteq Backend
           /\ Active' \in {Active, None}
<1> USE DEF PoolInv, TypeOK, OnlyDroppedMissing, SentOncePerBackend, Drop
<1>1. CASE \E i \in DOMAIN Ips : Ips[i] = b
  <2> DEFINE k == CHOOSE i \in DOMAIN Ips : Ips[i] = b
  <2>1. k \in DOMAIN Ips /\ Ips[k] = b
    BY <1>1
  <2>2. Ips' = SubSeq([Ips EXCEPT ![k] = Ips[Len(Ips)]], 1, Len(Ips) - 1)
    BY <1>1
  <2> HIDE DEF k
  <2>3. /\ Ips' \in Seq(Backend)
        /\ \A i, j \in DOMAIN Ips' : Ips'[i] = Ips'[j] => i = j
        /\ Range(Ips') = Range(Ips) \ {Ips[k]}
    BY <2>1, <2>2, SwapRemoval
  <2>4. QED
    BY <2>1, <2>3
<1>2. CASE ~ \E i \in DOMAIN Ips : Ips[i] = b
  <2>1. Ips' = Ips /\ b \notin Range(Ips)
    BY <1>2 DEF Range
  <2>2. QED
    BY <2>1
<1>3. QED
  BY <1>1, <1>2

-----------------------------------------------------------------------------
\* The pool is built with every address once, in any order.
LEMMA InitPool == Init => PoolInv
<1> SUFFICES ASSUME Init PROVE PoolInv
  OBVIOUS
<1>1. Cardinality(Backend) \in Nat
  BY PoolAssumption, FS_CardinalityType
<1>2. /\ Ips \in [1..Cardinality(Backend) -> Backend]
      /\ \A i, j \in DOMAIN Ips : Ips[i] = Ips[j] => i = j
      /\ Range(Ips) = Backend
  BY DEF Init, Bijection, Injection, Surjection, IsInjective, Range
<1>3. Ips \in Seq(Backend)
  <2>1. \A i \in 1..Cardinality(Backend) : Ips[i] \in Backend
    BY <1>2
  <2>2. QED
    BY <1>1, <1>2, <2>1
<1>4. TypeOK
  <2>1. answer \in [1..MaxCalls -> {"none", "ok"} \cup OtherError]
    BY Zenon DEF Init
  <2>2. made \in 0..MaxCalls
    BY PoolAssumption DEF Init
  <2>3. /\ executed \subseteq 1..made /\ repeated \subseteq 1..made
        /\ tried \subseteq Backend /\ dropped \subseteq Backend
        /\ Active \in Clients \cup {None} /\ Clients \subseteq Backend
        /\ calling \in BOOLEAN
    BY DEF Init
  <2>4. QED
    BY <1>3, <2>1, <2>2, <2>3 DEF TypeOK
<1>5. OnlyDroppedMissing /\ SentOncePerBackend /\ SilentOnlyWhenEmpty
  BY <1>2 DEF Init, OnlyDroppedMissing, SentOncePerBackend, SilentOnlyWhenEmpty
<1>6. QED
  BY <1>2, <1>4, <1>5 DEF Init, PoolInv

\* The call is sent to the active backend, which it has not been sent to before.
LEMMA SendKeeps ==
    ASSUME PoolInv, NEW ran \in BOOLEAN, NEW a \in Answer, CallActive(ran, a)
    PROVE  PoolInv'
<1> USE DEF PoolInv, TypeOK, OnlyDroppedMissing, SentOncePerBackend, CallActive
<1>1. Active \in Backend /\ Active \notin tried /\ made \in 1..MaxCalls
  BY PoolAssumption
<1>2. repeated' = {} /\ tried' \subseteq Backend /\ executed' \subseteq 1..made'
      /\ executed \subseteq executed' /\ made' = made /\ Clients' = Clients
  BY <1>1
<1>3. CASE a \in FailoverError
  <2>1. Drop(Active) /\ calling' = calling /\ answer' = answer
    BY <1>3
  <2>2. tried' \subseteq dropped' /\ dropped \subseteq dropped'
    BY <1>1, <2>1 DEF Drop
  <2>3. SilentOnlyWhenEmpty'
    BY <1>2, <2>1, <2>2, DropKeeps, <1>1 DEF SilentOnlyWhenEmpty
  <2>4. QED
    BY <1>1, <1>2, <2>1, <2>2, <2>3, DropKeeps
<1>4. CASE a \notin FailoverError
  <2>1. calling' = FALSE /\ answer' = [answer EXCEPT ![made] = a]
        /\ UNCHANGED <<Ips, Active, dropped>> /\ a \in {"none", "ok"} \cup OtherError
    BY <1>4 DEF Ended, Answer
  <2>2. SilentOnlyWhenEmpty'
    BY <1>1, <1>2, <2>1 DEF SilentOnlyWhenEmpty
  <2>3. QED
    BY <1>1, <1>2, <2>1, <2>2
<1>5. QED
  BY <1>3, <1>4

\* Every step keeps the invariant.
LEMMA NextPool == PoolInv /\ [Next]_vars => PoolInv'
<1> SUFFICES ASSUME PoolInv, [Next]_vars PROVE PoolInv'
  OBVIOUS
<1> USE PoolAssumption
    DEF PoolInv, TypeOK, OnlyDroppedMissing, SentOncePerBackend, SilentOnlyWhenEmpty
<1>1. CASE Begin
  BY <1>1 DEF Begin
<1>2. ASSUME NEW b \in Backend, DropMachine(b)
      PROVE  PoolInv'
  <2>1. Drop(b)
    BY <1>2 DEF DropMachine
  <2>2. dropped \subseteq dropped'
    BY <2>1 DEF Drop
  <2>3. QED
    BY <1>2, <2>1, <2>2, DropKeeps DEF DropMachine
<1>3. CASE CallNobody
  <2>1. Range(Ips) = {} /\ dropped = Backend /\ made \in 1..MaxCalls
    BY <1>3 DEF CallNobody, Range
  <2>2. QED
    BY <1>3, <2>1 DEF CallNobody, Ended
<1>4. CASE Elect
  <2>1. Ips[1] \in Range(Ips) /\ Ips[1] \in Backend
    BY <1>4 DEF Elect, Range
  <2>2. QED
    BY <1>4, <2>1 DEF Elect
<1>5. CASE UNCHANGED vars
  BY <1>5 DEF vars
<1>6. QED
  BY <1>1, <1>2, <1>3, <1>4, <1>5, SendKeeps DEF Next, Call

\* The invariant holds of every behaviour, whoever fails and whatever is dropped when.
THEOREM PoolInvariance == Spec => []PoolInv
BY InitPool, NextPool, PTL DEF Spec

\* Types; the active backend has a client.
THEOREM TypeCorrect == Spec => []TypeOK
<1>1. PoolInv => TypeOK
  BY DEF PoolInv
<1>2. QED
  BY <1>1, PoolInvariance, PTL

\* Exactly the addresses nobody dropped are left, in a list that swaps its last element
\* into the gap.
THEOREM NothingLostOrKept == Spec => []OnlyDroppedMissing
<1>1. PoolInv => OnlyDroppedMissing
  BY DEF PoolInv
<1>2. QED
  BY <1>1, PoolInvariance, PTL

\* No backend gets the same call twice, however often it fails over.
THEOREM NeverSentTwice == Spec => []SentOncePerBackend
<1>1. PoolInv => SentOncePerBackend
  BY DEF PoolInv
<1>2. QED
  BY <1>1, PoolInvariance, PTL

\* Success without anybody who executed the call is reported only when every backend has
\* been dropped.
THEOREM SilenceMeansEmpty == Spec => []SilentOnlyWhenEmpty
<1>1. PoolInv => SilentOnlyWhenEmpty
  BY DEF PoolInv
<1>2. QED
  BY <1>1, PoolInvariance, PTL

=============================================================================
