-------------------------- MODULE RedisKeys_proofs --------------------------
(***************************************************************************)
(* Proofs about what the server keeps in Redis: the counters of the rate   *)
(* limiter, for any number of requests, any limit and any window, and the  *)
(* permission cache, for any users, organizations, roles and goroutines;   *)
(* with and without faults.                                                *)
(***************************************************************************)
EXTENDS RateLimiter, PermissionCache, FiniteSetTheorems, TLAPS

-----------------------------------------------------------------------------
\* The rate limiter

\* The inductive invariant holds at the start: no key, no request under way.
LEMMA LimiterStart == LimiterInit => LimiterInv
  BY LimiterAssumption
     DEF LimiterInit, LimiterInv, LimiterTypeOK, LifeLimit, PlaceKept, OneSetter, TtlRuns,
         RecentKept, Setters, NoTtl

\* What a step does to the key: its life, its TTL and the place of a request that
\* created it stay in order.
LEMMA LimiterKeyStep ==
  LimiterInv /\ [LimiterNext]_limiterVars =>
    (LimiterTypeOK /\ LifeLimit /\ PlaceKept /\ OneSetter /\ TtlRuns)'
<1> DEFINE KeyInv == LimiterTypeOK /\ LifeLimit /\ PlaceKept /\ OneSetter /\ TtlRuns
<1> USE LimiterAssumption DEF NoTtl, Lost
<1> SUFFICES ASSUME KeyInv, [LimiterNext]_limiterVars PROVE KeyInv'
  BY DEF LimiterInv
<1> USE DEF LimiterTypeOK, LifeLimit, PlaceKept, OneSetter, TtlRuns, Setters
<1>1. ASSUME NEW r \in Requests, IncrFirst(r) PROVE KeyInv'
  BY <1>1 DEF IncrFirst
<1>2. ASSUME NEW r \in Requests, IncrLater(r) PROVE KeyInv'
  BY <1>2 DEF IncrLater, OverLimit, LetThrough
<1>3. ASSUME NEW r \in Requests, LoseReply(r) PROVE KeyInv'
  BY <1>3 DEF LoseReply
<1>4. ASSUME NEW r \in Requests, SetTtl(r) PROVE KeyInv'
  BY <1>4 DEF SetTtl, OverLimit, LetThrough
<1>5. ASSUME NEW r \in Requests, LoseTtl(r) PROVE KeyInv'
  BY <1>5 DEF LoseTtl, OverLimit, LetThrough
<1>6. ASSUME NEW r \in Requests, Crash(r) PROVE KeyInv'
  BY <1>6 DEF Crash
<1>7. CASE LimiterTick
  BY <1>7 DEF LimiterTick, Least
<1>8. CASE UNCHANGED limiterVars
  BY <1>8 DEF limiterVars
<1> QED
  BY <1>1, <1>2, <1>3, <1>4, <1>5, <1>6, <1>7, <1>8
     DEF LimiterNext, CheckRateLimit, FinishFirst

\* What got through recently belongs to the key's present life and, within a window,
\* to one earlier life at most: by the time a key expires, its TTL has run through the
\* whole window, so all that is recent is of the life that ends.
LEMMA RecentStep == LimiterInv /\ [LimiterNext]_limiterVars => RecentKept'
<1> SUFFICES ASSUME LimiterInv, [LimiterNext]_limiterVars PROVE RecentKept'
  OBVIOUS
<1> USE LimiterAssumption DEF LimiterInv, LimiterTypeOK, RecentKept
<1>1. CASE UNCHANGED << life, recent, sinceReset >>
  BY <1>1
<1>2. CASE LetThrough /\ UNCHANGED sinceReset
  BY <1>2 DEF LetThrough
<1>3. CASE LimiterTick
  <2>1. CASE keyTtl = 1
    <3>1. sinceReset + 1 >= Window
      BY <2>1 DEF TtlRuns
    <3>2. \A k \in 1..Window : recent[k] <= Limit
      BY <3>1 DEF LifeLimit
    <3>3. life' = 0 /\ sinceReset' = 0
      BY <1>3, <2>1 DEF LimiterTick
    <3> QED
      BY <1>3, <3>2, <3>3 DEF LimiterTick
  <2>2. CASE keyTtl # 1
    <3>1. life' = life /\ sinceReset' = Least(sinceReset + 1, Window)
      BY <1>3, <2>2 DEF LimiterTick
    <3> QED
      BY <1>3, <3>1 DEF LimiterTick, Least
  <2> QED
    BY <2>1, <2>2
<1>4. ASSUME NEW r \in Requests, CheckRateLimit(r) \/ FinishFirst(r)
      PROVE  UNCHANGED sinceReset /\ (UNCHANGED << life, recent >> \/ LetThrough)
  BY <1>4 DEF CheckRateLimit, FinishFirst, IncrFirst, IncrLater, LoseReply, SetTtl, LoseTtl,
     Crash
<1> QED
  BY <1>1, <1>2, <1>3, <1>4 DEF LimiterNext, limiterVars

\* Every step preserves the inductive invariant.
LEMMA LimiterStep == LimiterInv /\ [LimiterNext]_limiterVars => LimiterInv'
  BY LimiterKeyStep, RecentStep DEF LimiterInv

\* The inductive invariant holds in every reachable state.
THEOREM LimiterInductive == LimiterSpec => []LimiterInv
<1> QED
  BY LimiterStart, LimiterStep, PTL DEF LimiterSpec

\* Every variable of the limiter keeps its type: LimiterSpec => []LimiterTypeOK.
THEOREM LimiterTypeCorrect == LimiterSpec => []LimiterTypeOK
<1>1. LimiterInv => LimiterTypeOK
  BY DEF LimiterInv
<1> QED
  BY <1>1, LimiterInductive, PTL

\* Over one life of the key at most Limit requests get through: the request that
\* creates it has its place counted before its EXPIRE returns.
THEOREM LimitCorrect == LimiterSpec => []LifeLimit
<1>1. LimiterInv => LifeLimit
  BY DEF LimiterInv
<1> QED
  BY <1>1, LimiterInductive, PTL

\* Two expiries of the key are at least Window ticks apart: only LimiterTick deletes it,
\* and its TTL was Window when set.
THEOREM ResetsCorrect == LimiterSpec => ResetsApart
<1>1. ASSUME LimiterInv, [LimiterNext]_limiterVars
      PROVE  [Resetting => sinceReset + 1 >= Window]_limiterVars
  <2> USE LimiterAssumption, <1>1 DEF LimiterInv, LimiterTypeOK, NoTtl
  <2>1. CASE LimiterTick
    BY <2>1 DEF LimiterTick, Resetting, TtlRuns
  <2>2. ASSUME NEW r \in Requests, CheckRateLimit(r) PROVE ~Resetting
    BY <2>2 DEF CheckRateLimit, IncrFirst, IncrLater, LoseReply, Resetting
  <2>3. ASSUME NEW r \in Requests, FinishFirst(r) PROVE ~Resetting
    BY <2>3 DEF FinishFirst, SetTtl, LoseTtl, Crash, Resetting
  <2> QED
    BY <2>1, <2>2, <2>3 DEF LimiterNext
<1> QED
  BY <1>1, LimiterInductive, PTL DEF LimiterSpec, ResetsApart

\* In any Window consecutive ticks at most twice the limit gets through: what is not of
\* the key's present life is of one earlier life.
THEOREM TwiceLimitCorrect == LimiterSpec => []TwiceLimit
<1>1. LimiterInv => TwiceLimit
  BY LimiterAssumption DEF LimiterInv, LimiterTypeOK, LifeLimit, RecentKept, TwiceLimit
<1> QED
  BY <1>1, LimiterInductive, PTL

\* As long as nothing is lost, every place that was counted is taken or about to be.
PlacesTaken ==
  faults = 0 => /\ Setters = {} => life = Least(count, Limit)
                /\ Setters # {} => life + 1 = Least(count, Limit)

\* Every step keeps it so.
LEMMA PlacesStep == LimiterInv /\ PlacesTaken /\ [LimiterNext]_limiterVars => PlacesTaken'
<1> SUFFICES ASSUME LimiterInv, PlacesTaken, [LimiterNext]_limiterVars PROVE PlacesTaken'
  OBVIOUS
<1> USE LimiterAssumption
    DEF LimiterInv, LimiterTypeOK, LifeLimit, PlaceKept, OneSetter, PlacesTaken, Setters,
        Least, NoTtl
<1>1. ASSUME NEW r \in Requests, IncrFirst(r) PROVE PlacesTaken'
  BY <1>1 DEF IncrFirst
<1>2. ASSUME NEW r \in Requests, IncrLater(r) PROVE PlacesTaken'
  BY <1>2 DEF IncrLater, OverLimit, LetThrough
<1>3. ASSUME NEW r \in Requests, SetTtl(r) PROVE PlacesTaken'
  BY <1>3 DEF SetTtl, OverLimit, LetThrough
<1>4. ASSUME Lost PROVE PlacesTaken'
  BY <1>4 DEF Lost
<1>5. CASE LimiterTick
  BY <1>5 DEF LimiterTick, TtlRuns
<1>6. CASE UNCHANGED limiterVars
  BY <1>6 DEF limiterVars
<1> QED
  BY <1>1, <1>2, <1>3, <1>4, <1>5, <1>6
     DEF LimiterNext, CheckRateLimit, FinishFirst, LoseReply, LoseTtl, Crash

\* While nothing is lost, a request is refused only after Limit requests got through
\* or are about to.
THEOREM RefusalCorrect == LimiterSpec => NoEarlyRefusal
<1>1. LimiterInit => PlacesTaken
  BY LimiterAssumption DEF LimiterInit, PlacesTaken, Setters, Least
<1>2. LimiterSpec => []PlacesTaken
  BY <1>1, PlacesStep, LimiterInductive, PTL DEF LimiterSpec
<1>3. ASSUME LimiterInv PROVE Cardinality(Setters) = IF Setters = {} THEN 0 ELSE 1
  <2>1. CASE Setters = {}
    BY <2>1, FS_EmptySet
  <2>2. CASE Setters # {}
    <3>1. OneSetter
      BY <1>3 DEF LimiterInv
    <3>2. PICK r : Setters = {r}
      BY <2>2, <3>1 DEF OneSetter
    <3> QED BY <2>2, <3>2, FS_Singleton
  <2> QED BY <2>1, <2>2
<1>4. ASSUME LimiterInv, PlacesTaken, [LimiterNext]_limiterVars, Refusing, faults = 0
      PROVE  life + Cardinality(Setters) >= Limit
  <2> USE LimiterAssumption, <1>4 DEF LimiterInv, LimiterTypeOK, Refusing
  <2>1. count >= Limit
    <3>1. ASSUME NEW r \in Requests, IncrLater(r) PROVE count >= Limit
      BY <3>1 DEF IncrLater, OverLimit, LetThrough
    <3>2. ASSUME NEW r \in Requests, IncrFirst(r) PROVE FALSE
      BY <3>2 DEF IncrFirst
    <3>3. ASSUME NEW r \in Requests, LoseReply(r) \/ FinishFirst(r) PROVE FALSE
      BY <3>3 DEF LoseReply, FinishFirst, SetTtl, LoseTtl, Crash, Lost
    <3>4. ~LimiterTick /\ ~UNCHANGED limiterVars
      BY DEF LimiterTick, limiterVars
    <3> QED BY <3>1, <3>2, <3>3, <3>4 DEF LimiterNext, CheckRateLimit
  <2> QED BY <1>3, <2>1 DEF PlacesTaken, Least
<1>5. LimiterInv /\ PlacesTaken /\ [LimiterNext]_limiterVars =>
        [Refusing /\ faults = 0 => life + Cardinality(Setters) >= Limit]_limiterVars
  BY <1>4
<1> QED BY <1>2, <1>5, LimiterInductive, PTL DEF LimiterSpec, NoEarlyRefusal

-----------------------------------------------------------------------------
\* The permission cache
\* PermsOf stays within the permissions there are, and grows with the roles.
LEMMA PermsOfBounded ==
  ASSUME NEW roles \in SUBSET Roles PROVE PermsOf(roles) \in SUBSET Permissions
  BY DEF PermsOf, Permissions

\* The inductive invariant holds at the start: nothing cached, nobody reading.
LEMMA CacheStart == Init => IndInv
<1> SUFFICES ASSUME Init PROVE IndInv
  OBVIOUS
<1>1. TypeOK
  BY CacheAssumption DEF Init, TypeOK, ReaderState, AssignerState
<1>2. CacheIsSnapshot
  BY DEF Init, CacheIsSnapshot
<1>3. StoresSnapshot
  BY DEF Init, StoresSnapshot, IdleReader
<1>4. AnswersGranted
  BY DEF Init, AnswersGranted
<1> QED
  BY <1>1, <1>2, <1>3, <1>4 DEF IndInv

\* Returning from a lookup keeps the types of what it writes.
LEMMA ReturnType ==
  ASSUME TypeOK, NEW r \in Readers, NEW k \in Keys, NEW perms \in SUBSET Permissions,
         Return(r, k, perms)
  PROVE  /\ answer' \in [Readers -> {NoAnswer} \union Answer]
         /\ reader' \in [Readers -> ReaderState]
<1>1. [key |-> k, perms |-> perms] \in Answer
  BY DEF Answer
<1>2. IdleReader \in ReaderState
  BY DEF ReaderState
<1> QED
  BY <1>1, <1>2 DEF Return, TypeOK

\* Every step preserves the type invariant.
LEMMA StepType == TypeOK /\ [Next]_vars => TypeOK'
<1> USE CacheAssumption, PermsOfBounded
<1> SUFFICES ASSUME TypeOK, [Next]_vars PROVE TypeOK'
  OBVIOUS
<1>0. IdleReader \in ReaderState /\ IdleAssigner \in AssignerState
  BY DEF ReaderState, AssignerState
<1>a. ASSUME NEW r \in Readers, reader[r].pc \in {"fetch", "store"} PROVE reader[r].key \in Keys
  BY <1>a DEF TypeOK, ReaderState, IdleReader
<1>b. ASSUME NEW r \in Readers, reader[r].pc = "store" PROVE reader[r].perms \in SUBSET Permissions
  BY <1>b DEF TypeOK, ReaderState, IdleReader
<1>c. ASSUME NEW a \in Assigners, assigner[a].pc = "invalidate" PROVE assigner[a].key \in Keys
  BY <1>c DEF TypeOK, AssignerState, IdleAssigner
<1>1. ASSUME NEW r \in Readers, NEW k \in Keys, Hit(r, k) PROVE TypeOK'
  <2>1. cache[k] \in SUBSET Permissions
    BY <1>1 DEF Hit, CacheKey, TypeOK
  <2> QED
    BY <1>1, <2>1, ReturnType DEF Hit, CacheKey, TypeOK
<1>2. ASSUME NEW r \in Readers, NEW k \in Keys, Miss(r, k) PROVE TypeOK'
  <2>1. [pc |-> "fetch", key |-> k] \in ReaderState
    BY DEF ReaderState
  <2> QED
    BY <1>2, <2>1 DEF Miss, TypeOK
<1>3. ASSUME NEW r \in Readers, Fetch(r) \/ FetchCut(r) PROVE TypeOK'
  <2> DEFINE k == reader[r].key
  <2>1. k \in Keys
    BY <1>3, <1>a DEF Fetch, FetchCut
  <2>2. PICK perms \in SUBSET PermsOf(granted[k]), whole \in BOOLEAN : Fetched(r, perms, whole)
    BY <1>3 DEF Fetch, FetchCut
  <2>3. perms \in SUBSET Permissions
    BY <2>1 DEF TypeOK
  <2>4. [pc |-> "store", key |-> k, perms |-> perms, whole |-> whole] \in ReaderState
    BY <2>1, <2>3 DEF ReaderState
  <2>5. answer' \in [Readers -> {NoAnswer} \union Answer] /\ reader' \in [Readers -> ReaderState]
    <3>1. CASE perms = {}
      BY <2>1, <2>2, <3>1, ReturnType DEF Fetched
    <3>2. CASE perms # {}
      BY <2>2, <2>4, <3>2 DEF Fetched, TypeOK
    <3> QED
      BY <3>1, <3>2
  <2> QED
    BY <1>3, <2>5 DEF Fetch, FetchCut, TypeOK
<1>4. ASSUME NEW r \in Readers, FetchFault(r) PROVE TypeOK'
  BY <1>4, <1>0 DEF FetchFault, TypeOK
<1>5. ASSUME NEW r \in Readers, Store(r) PROVE TypeOK'
  <2>1. reader[r].key \in Keys /\ reader[r].perms \in SUBSET Permissions
    BY <1>5, <1>a, <1>b DEF Store, StoreFor
  <2>2. Ttl \in 0..Ttl
    OBVIOUS
  <2> QED
    BY <1>5, <2>1, <2>2, ReturnType DEF Store, StoreFor, CacheKey, TypeOK
<1>6. ASSUME NEW r \in Readers, StoreFault(r) PROVE TypeOK'
  <2>1. reader[r].key \in Keys /\ reader[r].perms \in SUBSET Permissions
    BY <1>6, <1>a, <1>b DEF StoreFault
  <2> QED
    BY <1>6, <2>1, ReturnType DEF StoreFault, TypeOK
<1>7. ASSUME NEW a \in Assigners, NEW k \in Keys, NEW ro \in Roles, Assign(a, k, ro)
      PROVE TypeOK'
  <2>1. [pc |-> "invalidate", key |-> k] \in AssignerState
    BY DEF AssignerState
  <2> QED
    BY <1>7, <2>1 DEF Assign, TypeOK
<1>8. ASSUME NEW a \in Assigners, Invalidate(a) PROVE TypeOK'
  <2>1. assigner[a].key \in Keys
    BY <1>8, <1>c DEF Invalidate
  <2> QED
    BY <1>8, <1>0, <2>1 DEF Invalidate, CacheKey, TypeOK
<1>9. ASSUME NEW a \in Assigners, InvalidateFault(a) PROVE TypeOK'
  BY <1>9, <1>0 DEF InvalidateFault, TypeOK
<1>10. CASE Tick
  BY <1>10 DEF Tick, TypeOK
<1>11. CASE UNCHANGED vars
  BY <1>11 DEF vars, TypeOK
<1> QED
  BY <1>1, <1>2, <1>3, <1>4, <1>5, <1>6, <1>7, <1>8, <1>9, <1>10, <1>11
     DEF Next, Continue

\* Roles are only added.
LEMMA RolesGrow ==
  ASSUME TypeOK, [Next]_vars, NEW k \in Keys
  PROVE  granted[k] \subseteq granted'[k] /\ PermsOf(granted[k]) \subseteq PermsOf(granted'[k])
<1>1. granted[k] \subseteq granted'[k]
  BY DEF TypeOK, Next, vars, Hit, Miss, Continue, Fetch, FetchCut, FetchFault, Store, StoreFor,
         StoreFault, Assign, Invalidate, InvalidateFault, Tick
<1> QED
  BY <1>1 DEF PermsOf

\* So what the roles give they still give, and a snapshot stays one.
LEMMA SnapshotStays ==
  ASSUME TypeOK, [Next]_vars, NEW k \in Keys, NEW perms
  PROVE  /\ Part(k, perms) => perms # {} /\ perms \subseteq PermsOf(granted'[k])
         /\ Snapshot(k, perms) => \E roles \in SUBSET granted'[k] : perms = PermsOf(roles)
  BY RolesGrow DEF Part, Snapshot

\* An entry is the one there was, or what a lookup has just stored.
LEMMA EntryMoves ==
  ASSUME TypeOK, [Next]_vars, NEW k \in Keys, cache'[k] # NoEntry
  PROVE  \/ cache'[k] = cache[k] /\ (k \in cut => k \in cut')
         \/ \E r \in Readers : /\ reader[r].pc = "store" /\ reader[r].key = k
                               /\ cache'[k] = reader[r].perms
                               /\ k \notin cut' => reader[r].whole
<1>1. ASSUME NEW r \in Readers, Store(r)
      PROVE  \/ cache'[k] = cache[k] /\ (k \in cut => k \in cut')
             \/ /\ reader[r].pc = "store" /\ reader[r].key = k
                /\ cache'[k] = reader[r].perms
                /\ k \notin cut' => reader[r].whole
  <2>1. reader[r].whole \in BOOLEAN
    BY <1>1 DEF Store, StoreFor, TypeOK, ReaderState, IdleReader
  <2> QED
    BY <1>1, <2>1 DEF Store, StoreFor, CacheKey, TypeOK
<1>2. ASSUME NEW a \in Assigners, Invalidate(a)
      PROVE  cache'[k] = cache[k] /\ (k \in cut => k \in cut')
  BY <1>2 DEF Invalidate, CacheKey, TypeOK
<1>3. CASE Tick
  BY <1>3 DEF Tick, TypeOK
<1>4. CASE UNCHANGED << cache, cut >>
  BY <1>4
<1>5. ASSUME NEW r \in Readers, Continue(r), ~Store(r) PROVE UNCHANGED << cache, cut >>
  BY <1>5 DEF Continue, Fetch, FetchCut, FetchFault, StoreFault
<1>6. ASSUME NEW r \in Readers, NEW q \in Keys, Hit(r, q) \/ Miss(r, q)
      PROVE  UNCHANGED << cache, cut >>
  BY <1>6 DEF Hit, Miss
<1>7. ASSUME NEW a \in Assigners,
             InvalidateFault(a) \/ \E q \in Keys, ro \in Roles : Assign(a, q, ro)
      PROVE  UNCHANGED << cache, cut >>
  BY <1>7 DEF InvalidateFault, Assign
<1> QED
  BY <1>1, <1>2, <1>3, <1>4, <1>5, <1>6, <1>7 DEF Next, vars

\* A lookup that is about to store was so before, or has just fetched what it
\* stores: all the roles give, or part of it if the query broke off.
LEMMA StoreMoves ==
  ASSUME TypeOK, [Next]_vars, NEW r \in Readers, reader'[r].pc = "store"
  PROVE  \/ reader'[r] = reader[r]
         \/ /\ granted' = granted /\ reader'[r].key = reader[r].key
            /\ Part(reader'[r].key, reader'[r].perms)
            /\ reader'[r].whole => reader'[r].perms = PermsOf(granted[reader'[r].key])
<1>1. reader'[r] = reader[r] \/ Fetch(r) \/ FetchCut(r)
  <2>1. ASSUME NEW q \in Readers, Fetch(q) \/ FetchCut(q), q # r PROVE reader'[r] = reader[r]
    BY <2>1 DEF Fetch, FetchCut, Fetched, Return, TypeOK
  <2>2. ASSUME NEW q \in Readers, FetchFault(q) \/ Store(q) \/ StoreFault(q)
        PROVE  reader'[r] = reader[r]
    BY <2>2 DEF FetchFault, Store, StoreFor, StoreFault, Return, TypeOK, IdleReader
  <2>3. ASSUME NEW q \in Readers, NEW k \in Keys, Hit(q, k) \/ Miss(q, k)
        PROVE  reader'[r] = reader[r]
    BY <2>3 DEF Hit, Miss, Return, TypeOK, IdleReader
  <2> QED
    BY <2>1, <2>2, <2>3 DEF Next, Continue, vars, Assign, Invalidate, InvalidateFault, Tick
<1>2. CASE Fetch(r)
  BY <1>2 DEF Fetch, Fetched, Return, Part, TypeOK, IdleReader
<1>3. CASE FetchCut(r)
  <2>1. PICK perms \in SUBSET PermsOf(granted[reader[r].key]) : Fetched(r, perms, FALSE)
    BY <1>3 DEF FetchCut
  <2> QED
    BY <1>3, <2>1 DEF FetchCut, Fetched, Return, Part, TypeOK, IdleReader
<1> QED
  BY <1>1, <1>2, <1>3

\* Every step preserves what is known of cached and fetched permissions.
LEMMA StepSnapshots ==
  IndInv /\ [Next]_vars => CacheIsSnapshot' /\ StoresSnapshot'
<1> SUFFICES ASSUME IndInv, [Next]_vars PROVE CacheIsSnapshot' /\ StoresSnapshot'
  OBVIOUS
<1> USE DEF IndInv
<1>1. ASSUME NEW k \in Keys, cache'[k] # NoEntry
      PROVE  Part(k, cache[k])' /\ (k \notin cut' => Snapshot(k, cache[k])')
  <2>1. Part(k, cache'[k]) /\ (k \notin cut' => Snapshot(k, cache'[k]))
    <3>1. CASE cache'[k] = cache[k] /\ (k \in cut => k \in cut')
      BY <1>1, <3>1 DEF CacheIsSnapshot
    <3>2. ASSUME NEW r \in Readers, reader[r].pc = "store", reader[r].key = k,
                 cache'[k] = reader[r].perms, k \notin cut' => reader[r].whole
          PROVE  Part(k, cache'[k]) /\ (k \notin cut' => Snapshot(k, cache'[k]))
      BY <3>2 DEF StoresSnapshot
    <3> QED
      BY <1>1, <3>1, <3>2, EntryMoves
  <2> QED
    BY <2>1, SnapshotStays DEF Part, Snapshot
<1>2. ASSUME NEW r \in Readers, reader'[r].pc = "store"
      PROVE  /\ Part(reader[r].key, reader[r].perms)'
             /\ reader'[r].whole => Snapshot(reader[r].key, reader[r].perms)'
  <2>1. CASE reader'[r] = reader[r]
    <3>1. reader[r].key \in Keys
      BY <1>2, <2>1 DEF TypeOK, ReaderState, IdleReader
    <3>2. /\ Part(reader[r].key, reader[r].perms)
          /\ reader[r].whole => Snapshot(reader[r].key, reader[r].perms)
      BY <1>2, <2>1 DEF StoresSnapshot
    <3>3. /\ reader[r].perms # {} /\ reader[r].perms \subseteq PermsOf(granted'[reader[r].key])
          /\ reader[r].whole =>
               \E roles \in SUBSET granted'[reader[r].key] : reader[r].perms = PermsOf(roles)
      BY <3>1, <3>2, SnapshotStays
    <3> QED
      BY <2>1, <3>3 DEF Part, Snapshot
  <2>2. CASE /\ granted' = granted
             /\ Part(reader'[r].key, reader'[r].perms)
             /\ reader'[r].whole => reader'[r].perms = PermsOf(granted[reader'[r].key])
    BY <2>2 DEF Part, Snapshot
  <2> QED
    BY <1>2, <2>1, <2>2, StoreMoves
<1> QED
  BY <1>1, <1>2 DEF CacheIsSnapshot, StoresSnapshot

\* Every step preserves that answers are granted.
LEMMA StepAnswers == IndInv /\ [Next]_vars => AnswersGranted'
<1> SUFFICES ASSUME IndInv, [Next]_vars, NEW r \in Readers, answer'[r] # NoAnswer
             PROVE  answer'[r].perms \subseteq PermsOf(granted'[answer'[r].key])
  BY DEF AnswersGranted
<1> USE DEF IndInv
<1>1. TypeOK'
  BY StepType
<1>2. answer'[r].key \in Keys
  BY <1>1 DEF TypeOK, Answer
<1>3. PermsOf(granted[answer'[r].key]) \subseteq PermsOf(granted'[answer'[r].key])
  BY <1>2, RolesGrow
<1>4. CASE answer'[r] = answer[r]
  BY <1>3, <1>4 DEF AnswersGranted
<1>5. CASE answer'[r] # answer[r]
  <2>1. \/ \E k \in Keys : Hit(r, k)
        \/ Fetch(r) \/ FetchCut(r) \/ Store(r) \/ StoreFault(r)
    BY <1>5 DEF TypeOK, Next, vars, Hit, Miss, Continue, FetchFault, Fetch, FetchCut, Fetched,
       Store, StoreFor, StoreFault, Return, Assign, Invalidate, InvalidateFault, Tick
  <2>2. ASSUME NEW k \in Keys, Hit(r, k) PROVE Part(answer'[r].key, answer'[r].perms)
    BY <2>2 DEF Hit, Return, CacheKey, TypeOK, CacheIsSnapshot
  <2>3. CASE Fetch(r) \/ FetchCut(r)
    <3>1. PICK perms \in SUBSET PermsOf(granted[reader[r].key]), whole \in BOOLEAN :
            Fetched(r, perms, whole)
      BY <2>3 DEF Fetch, FetchCut
    <3>2. answer'[r].perms = {}
      BY <1>5, <3>1 DEF Fetched, Return, TypeOK
    <3> QED
      BY <3>2
  <2>4. CASE Store(r) \/ StoreFault(r)
    <3>1. Part(answer'[r].key, answer'[r].perms)
      BY <2>4 DEF Store, StoreFor, StoreFault, Return, TypeOK, StoresSnapshot
    <3> QED
      BY <3>1, <1>3 DEF Part
  <2> QED
    BY <2>1, <2>2, <2>3, <2>4, <1>3 DEF Part
<1> QED
  BY <1>4, <1>5

\* The inductive invariant holds in every reachable state.
THEOREM CacheInductive == Spec => []IndInv
<1>1. IndInv /\ [Next]_vars => IndInv'
  BY StepType, StepSnapshots, StepAnswers DEF IndInv
<1> QED
  BY CacheStart, <1>1, PTL DEF Spec

\* Every variable of the permission cache keeps its type: Spec => []TypeOK.
THEOREM CacheTypeCorrect == Spec => []TypeOK
<1>1. IndInv => TypeOK
  BY DEF IndInv
<1> QED
  BY <1>1, CacheInductive, PTL

\* A lookup never returns a permission the user does not have in that organization.
THEOREM AnswersCorrect == Spec => []AnswersGranted
<1>1. IndInv => AnswersGranted
  BY DEF IndInv
<1> QED
  BY <1>1, CacheInductive, PTL

\* The first role of a user in an organization is never hidden by a stale entry,
\* unless that came from a query that broke off: the only non-empty snapshot of
\* one role is that role's permissions.
THEOREM FirstRoleCorrect == Spec => []FirstRoleNeverStale
<1>1. IndInv => FirstRoleNeverStale
  <2> SUFFICES ASSUME IndInv, NEW k \in Keys \ cut, NEW ro \in Roles, granted[k] = {ro},
                      cache[k] # NoEntry
               PROVE  cache[k] = RolePerms[ro]
    BY DEF FirstRoleNeverStale
  <2>1. PICK roles \in SUBSET granted[k] : cache[k] = PermsOf(roles)
    BY DEF IndInv, CacheIsSnapshot, Snapshot
  <2>2. cache[k] # {}
    BY DEF IndInv, CacheIsSnapshot, Part
  <2>3. roles = {ro}
    BY <2>1, <2>2 DEF PermsOf
  <2> QED
    BY <2>1, <2>3 DEF PermsOf
<1> QED
  BY <1>1, CacheInductive, PTL
=============================================================================
