------------------------------- MODULE LanKey -------------------------------
(***************************************************************************)
(* The AES key of the doorbell's LAN protocol: Hp7Api.fetch_lan_aes_key    *)
(* (api.py) keeps it in a cache that the relay's spin-up reads             *)
(* (_aes_key_provider of __init__.py) and that a timer refreshes by force  *)
(* (_refresh_aes).  Both run the method in a thread of the executor; they  *)
(* share the cache without a lock.  Pairing the doorbell anew gives it a   *)
(* new key; keys are numbered in their order.                              *)
(*                                                                         *)
(* The method's blocking calls (cloud login, EUCAS, the p2p registration)  *)
(* end in a step of their own.  The set-up of the entry has logged in, so  *)
(* the client exists and holds a token whenever a call is made.  The       *)
(* relay's lock admits one spin-up at a time, and a refresh ends long      *)
(* before the next one is due.  Time goes by in ticks.                     *)
(***************************************************************************)
EXTENDS Naturals

CONSTANTS
    MaxPairings,    \* bound: keys that the doorbell ever has
    Ttl,            \* AES_KEY_TTL
    RefreshEvery    \* _AES_REFRESH_INTERVAL

ASSUME BoundsAssumption == MaxPairings \in Nat \ {0}
ASSUME TimesAssumption ==
    /\ Ttl \in Nat /\ RefreshEvery \in Nat \ {0}
    /\ 2 * RefreshEvery < Ttl

VARIABLES
    paired,      \* the doorbell's key
    replaced,    \* ticks since each key was replaced, up to Ttl
    cache,       \* the entry of _aes_cache, its age up to Ttl; key 0 if none
    pc,          \* where each call of fetch_lan_aes_key is
    got,         \* the key that each call has obtained
    asked,       \* the doorbell's key when the spin-up asked for it
    elapsed,     \* ticks since the refresh timer fired, up to Ttl
    failures     \* refreshes that failed in a row, up to Ttl

doorbell == <<paired, replaced>>
clock    == <<elapsed, failures>>
vars == <<doorbell, cache, pc, got, asked, clock>>

Callers == {"spinup", "refresh"}
Keys    == 1 .. MaxPairings
HasKey  == {"store", "register", "done"}

TypeOK ==
    /\ paired \in Keys
    /\ replaced \in [Keys -> 0 .. Ttl]
    /\ cache \in [key : 0 .. paired, age : 0 .. Ttl]
    /\ pc \in [Callers -> {"idle", "login", "eucas", "relogin", "retry"} \cup HasKey]
    /\ got \in [Callers -> 0 .. paired]
    /\ \A t \in Callers : pc[t] \in HasKey => got[t] # 0
    /\ asked \in 0 .. paired
    /\ elapsed \in 0 .. Ttl /\ failures \in 0 .. Ttl

\* The set-up calls _refresh_aes at once.
Init ==
    /\ paired = 1 /\ replaced = [k \in Keys |-> 0]
    /\ cache = [key |-> 0, age |-> Ttl]
    /\ pc = [t \in Callers |-> "idle"]
    /\ got = [t \in Callers |-> 0]
    /\ asked = 0
    /\ elapsed = RefreshEvery /\ failures = 0
-----------------------------------------------------------------------------
(* The doorbell and the clock *)

\* The user pairs the doorbell anew.
Pair ==
    /\ paired < MaxPairings
    /\ paired' = paired + 1
    /\ UNCHANGED <<replaced, cache, pc, got, asked, clock>>

UpTo(n) == IF n < Ttl THEN n + 1 ELSE n

RefreshIsLate == elapsed >= Ttl                 \* seeded fault

RefreshIsDue == elapsed >= RefreshEvery

\* A tick is longer than a refresh, and than what a call does after EUCAS
\* has answered it; a due timer fires within its tick.
Tick ==
    /\ ~RefreshIsDue /\ pc["refresh"] = "idle"
    /\ pc["spinup"] \notin HasKey
    /\ replaced' = [k \in Keys |->
                       IF k < paired THEN UpTo(replaced[k]) ELSE replaced[k]]
    /\ cache' = [cache EXCEPT !.age = UpTo(@)]
    /\ elapsed' = UpTo(elapsed)
    /\ UNCHANGED <<paired, pc, got, asked, failures>>
-----------------------------------------------------------------------------
(* fetch_lan_aes_key *)

CacheHitsForEver == cache.key # 0               \* seeded fault

CacheHits == cache.key # 0 /\ cache.age < Ttl

\* The call of t, up to its return with the cached key or its cloud login.
Fetch(t, force) ==
    /\ pc[t] = "idle"
    /\ IF ~force /\ CacheHits
       THEN /\ pc' = [pc EXCEPT ![t] = "done"]
            /\ got' = [got EXCEPT ![t] = cache.key]
       ELSE /\ pc' = [pc EXCEPT ![t] = "login"]
            /\ got' = [got EXCEPT ![t] = 0]

\* _spin_up_upstream asks for the key.
SpinUpAsks ==
    /\ Fetch("spinup", FALSE)
    /\ asked' = paired
    /\ UNCHANGED <<doorbell, cache, clock>>

RefreshFires ==
    /\ RefreshIsDue
    /\ Fetch("refresh", TRUE)
    /\ elapsed' = 0
    /\ UNCHANGED <<doorbell, cache, asked, failures>>

\* The call's next step, in which it obtains no key.
Goes(t, from, to) ==
    /\ pc[t] = from
    /\ pc' = [pc EXCEPT ![t] = to]
    /\ UNCHANGED <<doorbell, cache, got, asked, clock>>

\* The call raises.
Raises(t) ==
    /\ pc' = [pc EXCEPT ![t] = "idle"]
    /\ failures' = IF t = "refresh" THEN UpTo(failures) ELSE failures
    /\ UNCHANGED <<doorbell, cache, got, asked, elapsed>>

\* The login that precedes EUCAS may fail: the call goes on with the old token.
LoginEnds(t) == Goes(t, "login", "eucas")

EucasAnswers(t) ==
    /\ pc[t] \in {"eucas", "retry"}
    /\ pc' = [pc EXCEPT ![t] = "store"]
    /\ got' = [got EXCEPT ![t] = paired]
    /\ UNCHANGED <<doorbell, cache, asked, clock>>

\* EUCAS answers without a key of 16 bytes: that is not tried again.
EucasRefusesUnchecked(t) ==                     \* seeded fault
    /\ pc[t] \in {"eucas", "retry"}
    /\ pc' = [pc EXCEPT ![t] = "store"]
    /\ UNCHANGED <<doorbell, cache, got, asked, clock>>

EucasRefuses(t) == pc[t] \in {"eucas", "retry"} /\ Raises(t)

EucasFails(t) == Goes(t, "eucas", "relogin")

ReloginEnds(t) == Goes(t, "relogin", "retry")

RetryFails(t) == pc[t] \in {"relogin", "retry"} /\ Raises(t)

StoreIfAbsent(t) ==                             \* seeded fault
    /\ pc[t] = "store"
    /\ pc' = [pc EXCEPT ![t] = "register"]
    /\ cache' = [key |-> IF cache.key = 0 THEN got[t] ELSE cache.key, age |-> 0]
    /\ UNCHANGED <<doorbell, got, asked, clock>>

Store(t) ==
    /\ pc[t] = "store"
    /\ pc' = [pc EXCEPT ![t] = "register"]
    /\ cache' = [key |-> got[t], age |-> 0]
    /\ UNCHANGED <<doorbell, got, asked, clock>>

\* _invoke_p2p_register ends, whatever comes of it.
Registered(t) == Goes(t, "register", "done")

\* The caller goes on with the key: the spin-up starts a LAN session.
Returns(t) ==
    /\ pc[t] = "done"
    /\ pc' = [pc EXCEPT ![t] = "idle"]
    /\ failures' = IF t = "refresh" THEN 0 ELSE failures
    /\ UNCHANGED <<doorbell, cache, got, asked, elapsed>>

Ends(t) ==
    \/ LoginEnds(t)
    \/ EucasAnswers(t) \/ EucasRefuses(t) \/ EucasFails(t)
    \/ ReloginEnds(t) \/ RetryFails(t)
    \/ Store(t) \/ Registered(t) \/ Returns(t)

Next ==
    \/ Pair \/ Tick
    \/ SpinUpAsks \/ RefreshFires
    \/ \E t \in Callers : Ends(t)

Spec == Init /\ [][Next]_vars

\* Time passes, calls end, and of the refreshes one succeeds again and again.
Fairness ==
    /\ SF_vars(Tick)
    /\ WF_vars(RefreshFires)
    /\ \A t \in Callers : WF_vars(Ends(t))
    /\ SF_vars(EucasAnswers("refresh"))

FairSpec == Spec /\ Fairness
-----------------------------------------------------------------------------
(* Safety *)

\* A key that fetch_lan_aes_key returns was the doorbell's less than Ttl ago,
\* whichever calls overlap and in whatever order they store what they got.
StaleIsBounded ==
    \A t \in Callers : pc[t] = "done" => replaced[got[t]] < Ttl

\* The refresh interval "keeps the cache permanently warm" (__init__.py:35-37):
\* once a key has been cached, and as long as no two refreshes fail in a row,
\* a spin-up need not wait for the cloud.
WarmUnlessFailing == cache.key # 0 /\ failures < 2 => CacheHits

\* After a re-pairing "the integration refetches it transparently the next
\* time a viewer connects" (README.md:99-101).
RefetchedOnConnect == pc["spinup"] = "done" => got["spinup"] >= asked
-----------------------------------------------------------------------------
(* Liveness, under FairSpec *)

\* The cache ends up with the doorbell's key, also when a call that overlapped
\* a re-pairing stores the old key over the new one.
KeyCatchesUp == <>[](cache.key = paired)
=============================================================================
