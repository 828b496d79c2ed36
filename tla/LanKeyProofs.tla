---------------------------- MODULE LanKeyProofs ----------------------------
(* Theorems about LanKey, for any number of keys and any times that leave  *)
(* room for one failed refresh.                                            *)
EXTENDS LanKey, TLAPS

USE BoundsAssumption, TimesAssumption

-----------------------------------------------------------------------------
(* The inductive invariant *)

\* A key was replaced no longer ago than the cache has held it.
CacheIsRecent == cache.key # 0 => replaced[cache.key] <= cache.age

\* A call that has had its answer from EUCAS holds a key that was the
\* doorbell's in this tick; one that returns a cached key, one that was it
\* less than Ttl ago.
CallsAreRecent ==
    \A t \in Callers :
        /\ pc[t] \in {"store", "register"} => replaced[got[t]] = 0
        /\ pc[t] = "done" => replaced[got[t]] < Ttl

\* Only a key that the doorbell no longer has ages.
OthersAreCurrent == \A k \in Keys : k >= paired => replaced[k] = 0

\* A refresh ends in the tick that it began in, and at the timer's next turn
\* the timer fires.
RefreshIsPrompt ==
    /\ elapsed <= RefreshEvery
    /\ pc["refresh"] # "idle" => elapsed = 0

\* The refreshes that have failed since the last store, the one under way
\* included, account for the age of the cache.
AgeIsAccounted ==
    cache.key # 0 =>
        /\ failures = 0 /\ pc["refresh"] = "idle" => cache.age <= elapsed
        /\ failures = 0 /\ pc["refresh"] # "idle" => cache.age <= RefreshEvery
        /\ failures = 1 /\ pc["refresh"] = "idle" =>
              cache.age <= elapsed + RefreshEvery
        /\ failures = 1 /\ pc["refresh"] # "idle" =>
              cache.age <= 2 * RefreshEvery
        /\ pc["refresh"] \in {"register", "done"} => cache.age = 0

IInv ==
    /\ TypeOK
    /\ CacheIsRecent
    /\ CallsAreRecent
    /\ OthersAreCurrent
    /\ RefreshIsPrompt
    /\ AgeIsAccounted

USE DEF Callers, Keys, HasKey

\* The invariant holds initially.
LEMMA InitInv == Init => IInv
BY DEF Init, IInv, TypeOK, CacheIsRecent, CallsAreRecent, OthersAreCurrent,
       RefreshIsPrompt, AgeIsAccounted

\* A new pairing replaces a key whose age is nought.
LEMMA PairInv == IInv /\ Pair => IInv'
BY DEF Pair, IInv, TypeOK, CacheIsRecent, CallsAreRecent, OthersAreCurrent,
       RefreshIsPrompt, AgeIsAccounted, clock

\* The cache and the keys that were replaced age alike.
LEMMA TickInv == IInv /\ Tick => IInv'
<1> SUFFICES ASSUME IInv, Tick PROVE IInv'
  OBVIOUS
<1> USE DEF IInv, Tick, UpTo, RefreshIsDue, HasKey
<1>1. TypeOK'
  <2>0. \A n \in 0 .. Ttl : UpTo(n) \in 0 .. Ttl
    OBVIOUS
  <2>1. replaced' \in [Keys -> 0 .. Ttl]
    <3>1. replaced' = [k \in Keys |->
                          IF k < paired THEN UpTo(replaced[k]) ELSE replaced[k]]
      OBVIOUS
    <3>2. \A k \in Keys : replaced[k] \in 0 .. Ttl
      BY DEF TypeOK
    <3> HIDE DEF UpTo
    <3> QED
      BY <2>0, <3>1, <3>2
  <2>2. cache' \in [key : 0 .. paired', age : 0 .. Ttl]
    <3>1. cache' = [cache EXCEPT !.age = UpTo(cache.age)] /\ paired' = paired
      OBVIOUS
    <3>2. cache \in [key : 0 .. paired, age : 0 .. Ttl]
      BY DEF TypeOK
    <3> HIDE DEF UpTo
    <3> QED
      BY <2>0, <3>1, <3>2
  <2>3. elapsed' \in 0 .. Ttl
    BY DEF TypeOK
  <2>4. UNCHANGED <<paired, pc, got, asked, failures>>
    OBVIOUS
  <2> QED
    BY <2>1, <2>2, <2>3, <2>4 DEF TypeOK
<1>2. CacheIsRecent'
  BY DEF TypeOK, CacheIsRecent, OthersAreCurrent
<1>3. CallsAreRecent'
  BY DEF TypeOK, CallsAreRecent
<1>4. OthersAreCurrent'
  BY DEF TypeOK, OthersAreCurrent
<1>5. RefreshIsPrompt'
  BY DEF TypeOK, RefreshIsPrompt
<1>6. AgeIsAccounted'
  <2>1. cache'.key = cache.key /\ cache'.age <= cache.age + 1
    BY DEF TypeOK
  <2>2. elapsed' = elapsed + 1 /\ UNCHANGED <<pc, failures>>
    BY DEF TypeOK
  <2>3. pc["refresh"] = "idle" /\ cache.age \in Nat /\ elapsed \in Nat
    BY DEF TypeOK
  <2>4. cache'.age \in Nat
    BY <1>1 DEF TypeOK
  <2>5. ASSUME cache.key # 0, failures = 0 PROVE cache'.age <= elapsed'
    BY <2>1, <2>2, <2>3, <2>4, <2>5 DEF AgeIsAccounted
  <2>6. ASSUME cache.key # 0, failures = 1
        PROVE  cache'.age <= elapsed' + RefreshEvery
    BY <2>1, <2>2, <2>3, <2>4, <2>6 DEF AgeIsAccounted
  <2> HIDE DEF IInv, Tick
  <2> QED
    BY <2>1, <2>2, <2>3, <2>5, <2>6 DEF AgeIsAccounted
<1> QED
  BY <1>1, <1>2, <1>3, <1>4, <1>5, <1>6

\* A call begins.
LEMMA SpinUpAsksInv == IInv /\ SpinUpAsks => IInv'
<1> SUFFICES ASSUME IInv, SpinUpAsks PROVE IInv'
  OBVIOUS
<1> USE DEF IInv, SpinUpAsks, Fetch, CacheHits, doorbell, clock
<1>1. TypeOK'
  BY DEF TypeOK
<1>2. CallsAreRecent'
  BY DEF TypeOK, CallsAreRecent, CacheIsRecent
<1>3. CacheIsRecent' /\ OthersAreCurrent'
  BY DEF CacheIsRecent, OthersAreCurrent
<1>4. RefreshIsPrompt' /\ AgeIsAccounted'
  BY DEF TypeOK, RefreshIsPrompt, AgeIsAccounted
<1> QED
  BY <1>1, <1>2, <1>3, <1>4

LEMMA RefreshFiresInv == IInv /\ RefreshFires => IInv'
<1> SUFFICES ASSUME IInv, RefreshFires PROVE IInv'
  OBVIOUS
<1> USE DEF IInv, RefreshFires, RefreshIsDue, Fetch, doorbell
<1>1. TypeOK'
  BY DEF TypeOK
<1>2. CallsAreRecent'
  BY DEF TypeOK, CallsAreRecent
<1>3. CacheIsRecent' /\ OthersAreCurrent'
  BY DEF CacheIsRecent, OthersAreCurrent
<1>4. RefreshIsPrompt' /\ AgeIsAccounted'
  BY DEF TypeOK, RefreshIsPrompt, AgeIsAccounted
<1> QED
  BY <1>1, <1>2, <1>3, <1>4

\* A step that obtains no key, within the steps that a call takes.
LEMMA GoesInv ==
    ASSUME NEW t \in Callers, IInv, NEW from, NEW to, Goes(t, from, to),
           \/ from = "login" /\ to = "eucas"
           \/ from = "eucas" /\ to = "relogin"
           \/ from = "relogin" /\ to = "retry"
           \/ from = "register" /\ to = "done"
    PROVE  IInv'
<1> USE DEF IInv, Goes, doorbell, clock
<1>0. /\ pc' = [pc EXCEPT ![t] = to] /\ got' = got /\ paired' = paired
      /\ replaced' = replaced
  OBVIOUS
<1>1. TypeOK'
  <2>1. pc' \in [Callers ->
                   {"idle", "login", "eucas", "relogin", "retry"} \cup HasKey]
    BY <1>0 DEF TypeOK
  <2>2. \A u \in Callers : pc'[u] \in HasKey => got'[u] # 0
    BY <1>0 DEF TypeOK
  <2> QED
    BY <2>1, <2>2 DEF TypeOK
<1>2. CallsAreRecent'
  <2> SUFFICES ASSUME NEW u \in Callers
               PROVE  /\ pc'[u] \in {"store", "register"} => replaced'[got'[u]] = 0
                      /\ pc'[u] = "done" => replaced'[got'[u]] < Ttl
    BY DEF CallsAreRecent
  <2>1. CASE u = t
    BY <1>0, <2>1 DEF TypeOK, CallsAreRecent
  <2>2. CASE u # t
    BY <1>0, <2>2 DEF TypeOK, CallsAreRecent
  <2> QED
    BY <2>1, <2>2
<1>3. CacheIsRecent' /\ OthersAreCurrent'
  BY DEF CacheIsRecent, OthersAreCurrent
<1>4. RefreshIsPrompt' /\ AgeIsAccounted'
  BY DEF TypeOK, RefreshIsPrompt, AgeIsAccounted
<1> QED
  BY <1>1, <1>2, <1>3, <1>4

\* A call that raises before it has a key: if it is the refresh, it counts as
\* failed.
LEMMA RaisesInv ==
    ASSUME NEW t \in Callers, IInv, pc[t] \in {"eucas", "relogin", "retry"},
           Raises(t)
    PROVE  IInv'
<1> USE DEF IInv, Raises, UpTo, doorbell
<1>1. TypeOK'
  BY DEF TypeOK
<1>2. CallsAreRecent'
  BY DEF TypeOK, CallsAreRecent
<1>3. CacheIsRecent' /\ OthersAreCurrent'
  BY DEF CacheIsRecent, OthersAreCurrent
<1>4. RefreshIsPrompt'
  BY DEF TypeOK, RefreshIsPrompt
<1>5. AgeIsAccounted'
  BY DEF TypeOK, RefreshIsPrompt, AgeIsAccounted
<1> QED
  BY <1>1, <1>2, <1>3, <1>4, <1>5

\* EUCAS answers with the doorbell's key.
LEMMA EucasAnswersInv ==
    ASSUME NEW t \in Callers, IInv, EucasAnswers(t) PROVE IInv'
<1> USE DEF IInv, EucasAnswers, doorbell, clock
<1>1. TypeOK'
  BY DEF TypeOK
<1>2. CallsAreRecent'
  BY DEF TypeOK, CallsAreRecent, OthersAreCurrent
<1>3. CacheIsRecent' /\ OthersAreCurrent'
  BY DEF CacheIsRecent, OthersAreCurrent
<1>4. RefreshIsPrompt' /\ AgeIsAccounted'
  BY DEF TypeOK, RefreshIsPrompt, AgeIsAccounted
<1> QED
  BY <1>1, <1>2, <1>3, <1>4

\* What a call stores was the doorbell's key in this tick.
LEMMA StoreInv ==
    ASSUME NEW t \in Callers, IInv, Store(t) PROVE IInv'
<1> USE DEF IInv, Store, doorbell, clock
<1>1. TypeOK'
  BY DEF TypeOK
<1>2. CallsAreRecent'
  BY DEF TypeOK, CallsAreRecent
<1>3. CacheIsRecent' /\ OthersAreCurrent'
  BY DEF TypeOK, CacheIsRecent, CallsAreRecent, OthersAreCurrent
<1>4. RefreshIsPrompt' /\ AgeIsAccounted'
  BY DEF TypeOK, RefreshIsPrompt, AgeIsAccounted
<1> QED
  BY <1>1, <1>2, <1>3, <1>4

\* A refresh that returns ends the failures in a row.
LEMMA ReturnsInv ==
    ASSUME NEW t \in Callers, IInv, Returns(t) PROVE IInv'
<1> USE DEF IInv, Returns, doorbell
<1>1. TypeOK'
  BY DEF TypeOK
<1>2. CallsAreRecent'
  BY DEF TypeOK, CallsAreRecent
<1>3. CacheIsRecent' /\ OthersAreCurrent'
  BY DEF CacheIsRecent, OthersAreCurrent
<1>4. RefreshIsPrompt' /\ AgeIsAccounted'
  BY DEF TypeOK, RefreshIsPrompt, AgeIsAccounted
<1> QED
  BY <1>1, <1>2, <1>3, <1>4

\* Every step preserves the invariant.
LEMMA NextInv == IInv /\ [Next]_vars => IInv'
<1> SUFFICES ASSUME IInv, [Next]_vars PROVE IInv'
  OBVIOUS
<1>1. CASE Pair
  BY <1>1, PairInv
<1>2. CASE Tick
  BY <1>2, TickInv
<1>3. CASE SpinUpAsks
  BY <1>3, SpinUpAsksInv
<1>4. CASE RefreshFires
  BY <1>4, RefreshFiresInv
<1>5. ASSUME NEW t \in Callers, Ends(t) PROVE IInv'
  <2>1. CASE LoginEnds(t) \/ EucasFails(t) \/ ReloginEnds(t) \/ Registered(t)
    BY <2>1, GoesInv DEF LoginEnds, EucasFails, ReloginEnds, Registered
  <2>2. CASE EucasRefuses(t) \/ RetryFails(t)
    BY <2>2, RaisesInv DEF EucasRefuses, RetryFails
  <2>3. CASE EucasAnswers(t)
    BY <2>3, EucasAnswersInv
  <2>4. CASE Store(t)
    BY <2>4, StoreInv
  <2>5. CASE Returns(t)
    BY <2>5, ReturnsInv
  <2> QED
    BY <1>5, <2>1, <2>2, <2>3, <2>4, <2>5 DEF Ends
<1>6. CASE UNCHANGED vars
  BY <1>6 DEF vars, doorbell, clock, IInv, TypeOK, CacheIsRecent,
              CallsAreRecent, OthersAreCurrent, RefreshIsPrompt, AgeIsAccounted,
              HasKey
<1> QED
  BY <1>1, <1>2, <1>3, <1>4, <1>5, <1>6 DEF Next

LEMMA Invariance == Spec => []IInv
BY InitInv, NextInv, PTL DEF Spec
-----------------------------------------------------------------------------
(* What follows from it *)

\* fetch_lan_aes_key: its cache, its calls and its clock keep their types.
THEOREM TypeCorrect == Spec => []TypeOK
<1>1. IInv => TypeOK
  BY DEF IInv
<1> QED
  BY <1>1, Invariance, PTL

\* A key that fetch_lan_aes_key returns was the doorbell's less than Ttl ago.
THEOREM StaleBounded == Spec => []StaleIsBounded
<1>1. IInv => StaleIsBounded
  BY DEF IInv, CallsAreRecent, StaleIsBounded
<1> QED
  BY <1>1, Invariance, PTL

\* Unless two refreshes fail in a row the cache stays warm.
THEOREM StaysWarm == Spec => []WarmUnlessFailing
<1>1. IInv => WarmUnlessFailing
  BY DEF IInv, TypeOK, RefreshIsPrompt, AgeIsAccounted, WarmUnlessFailing,
         CacheHits
<1> QED
  BY <1>1, Invariance, PTL
=============================================================================
