-------------------------- MODULE PermissionCache --------------------------
(***************************************************************************)
(* The RBAC service: permissions of a user in an organization come from    *)
(* user_roles and role_permissions and are cached in Redis.  Lookups read  *)
(* the cache, then the tables, then fill the cache; assigning a role       *)
(* inserts the row, then deletes the cache entry.  Each of these is a      *)
(* round trip of its own.  A query that breaks off while its rows are read *)
(* is not noticed: the rows read so far are taken for the answer.          *)
(***************************************************************************)
EXTENDS Integers, FiniteSets

CONSTANTS
  Keys,        \* pairs of a user and an organization
  Roles,
  RolePerms,   \* role -> its permissions (role_permissions)
  Readers,     \* goroutines that check a permission
  Assigners,   \* goroutines that assign a role
  Ttl,         \* permissionCacheTTL, in ticks
  Faults,      \* TRUE: calls to Redis and to the database may fail
  NoEntry

Permissions == UNION {RolePerms[ro] : ro \in Roles}

ASSUME CacheAssumption ==
  /\ RolePerms \in [Roles -> SUBSET Permissions]
  /\ Ttl \in Nat \ {0}
  /\ Faults \in BOOLEAN
  /\ \A perms \in SUBSET Permissions : NoEntry # perms

VARIABLES
  granted,    \* user_roles: key -> roles
  cache,      \* Redis: key -> permissions, or NoEntry
  ttl,        \* Redis: key -> remaining life of the entry
  reader,     \* goroutine -> what it holds between two round trips
  assigner,   \* goroutine -> the key it has still to invalidate, or none
  answer,     \* goroutine -> its last lookup and what that returned
  cut         \* history: keys whose entry came from a query that broke off

vars == << granted, cache, ttl, reader, assigner, answer, cut >>

IdleReader == [pc |-> "idle"]
ReaderState ==
  {IdleReader} \union [pc : {"fetch"}, key : Keys]
               \union [pc : {"store"}, key : Keys, perms : SUBSET Permissions,
                        whole : BOOLEAN]
IdleAssigner == [pc |-> "idle"]
AssignerState == {IdleAssigner} \union [pc : {"invalidate"}, key : Keys]
NoAnswer == [pc |-> "none"]
Answer == [key : Keys, perms : SUBSET Permissions]

PermsOf(roles) == UNION {RolePerms[ro] : ro \in roles}

\* Fault: the organization is missing from the key.
CacheKeyShared(k) == CHOOSE x \in Keys : TRUE

\* user:<user>:org:<organization>:permissions
CacheKey(k) == k

Init ==
  /\ granted = [k \in Keys |-> {}]
  /\ cache = [k \in Keys |-> NoEntry]
  /\ ttl = [k \in Keys |-> 0]
  /\ reader = [r \in Readers |-> IdleReader]
  /\ assigner = [a \in Assigners |-> IdleAssigner]
  /\ answer = [r \in Readers |-> NoAnswer]
  /\ cut = {}

-----------------------------------------------------------------------------
\* GetUserPermissions

Return(r, k, perms) ==
  /\ answer' = [answer EXCEPT ![r] = [key |-> k, perms |-> perms]]
  /\ reader' = [reader EXCEPT ![r] = IdleReader]

Hit(r, k) ==
  /\ reader[r] = IdleReader
  /\ cache[CacheKey(k)] # NoEntry
  /\ Return(r, k, cache[CacheKey(k)])
  /\ UNCHANGED << granted, cache, ttl, assigner, cut >>

\* A failed GET counts as a miss.  The goroutine's previous answer is forgotten.
Miss(r, k) ==
  /\ reader[r] = IdleReader
  /\ cache[CacheKey(k)] = NoEntry \/ Faults
  /\ reader' = [reader EXCEPT ![r] = [pc |-> "fetch", key |-> k]]
  /\ answer' = [answer EXCEPT ![r] = NoAnswer]
  /\ UNCHANGED << granted, cache, ttl, assigner, cut >>

\* Fault: an empty result is cached too.
FetchCachingNothing(r) ==
  /\ reader[r].pc = "fetch"
  /\ LET k == reader[r].key IN
     reader' = [reader EXCEPT ![r] = [pc |-> "store", key |-> k,
                                      perms |-> PermsOf(granted[k]), whole |-> TRUE]]
  /\ UNCHANGED << granted, cache, ttl, assigner, answer, cut >>

\* An empty result is returned without caching it.
Fetched(r, perms, whole) ==
  IF perms = {}
  THEN Return(r, reader[r].key, {})
  ELSE /\ reader' = [reader EXCEPT ![r] = [pc |-> "store", key |-> @.key,
                                           perms |-> perms, whole |-> whole]]
       /\ UNCHANGED answer

Fetch(r) ==
  /\ reader[r].pc = "fetch"
  /\ Fetched(r, PermsOf(granted[reader[r].key]), TRUE)
  /\ UNCHANGED << granted, cache, ttl, assigner, cut >>

\* The query breaks off after some of its rows: rows.Next returns FALSE, nobody
\* asks rows.Err, and the rows read so far are the result.
FetchCut(r) ==
  /\ Faults
  /\ reader[r].pc = "fetch"
  /\ LET all == PermsOf(granted[reader[r].key]) IN
     \E perms \in (SUBSET all) \ {all} : Fetched(r, perms, FALSE)
  /\ UNCHANGED << granted, cache, ttl, assigner, cut >>

\* A query that cannot be sent, or a row that cannot be scanned, fails the lookup.
FetchFault(r) ==
  /\ Faults
  /\ reader[r].pc = "fetch"
  /\ reader' = [reader EXCEPT ![r] = IdleReader]
  /\ UNCHANGED << granted, cache, ttl, assigner, answer, cut >>

\* SET of what was fetched, for a while.
StoreFor(r, life) ==
  LET k == CacheKey(reader[r].key) IN
  /\ reader[r].pc = "store"
  /\ cache' = [cache EXCEPT ![k] = reader[r].perms]
  /\ ttl' = [ttl EXCEPT ![k] = life]
  /\ cut' = IF reader[r].whole THEN cut \ {k} ELSE cut \union {k}
  /\ Return(r, reader[r].key, reader[r].perms)
  /\ UNCHANGED << granted, assigner >>

\* Fault: the entry never expires.
StoreForever(r) == StoreFor(r, 0)

Store(r) == StoreFor(r, Ttl)

\* A failed SET is ignored.
StoreFault(r) ==
  /\ Faults
  /\ reader[r].pc = "store"
  /\ Return(r, reader[r].key, reader[r].perms)
  /\ UNCHANGED << granted, cache, ttl, assigner, cut >>

-----------------------------------------------------------------------------
\* AssignRole

\* INSERT ... ON CONFLICT DO NOTHING; an insert that fails ends the request and
\* changes nothing; one whose reply is lost goes on as InvalidateFault does.
Assign(a, k, ro) ==
  /\ assigner[a] = IdleAssigner
  /\ granted' = [granted EXCEPT ![k] = @ \union {ro}]
  /\ assigner' = [assigner EXCEPT ![a] = [pc |-> "invalidate", key |-> k]]
  /\ UNCHANGED << cache, ttl, reader, answer, cut >>

Invalidate(a) ==
  /\ assigner[a].pc = "invalidate"
  /\ cache' = [cache EXCEPT ![CacheKey(assigner[a].key)] = NoEntry]
  /\ ttl' = [ttl EXCEPT ![CacheKey(assigner[a].key)] = 0]
  /\ cut' = cut \ {CacheKey(assigner[a].key)}
  /\ assigner' = [assigner EXCEPT ![a] = IdleAssigner]
  /\ UNCHANGED << granted, reader, answer >>

\* A failed DEL is ignored; a process that dies here sends none.
InvalidateFault(a) ==
  /\ Faults
  /\ assigner[a].pc = "invalidate"
  /\ assigner' = [assigner EXCEPT ![a] = IdleAssigner]
  /\ UNCHANGED << granted, cache, ttl, reader, answer, cut >>

-----------------------------------------------------------------------------
Tick ==
  /\ \E k \in Keys : ttl[k] > 0
  /\ ttl' = [k \in Keys |-> IF ttl[k] = 0 THEN 0 ELSE ttl[k] - 1]
  /\ cache' = [k \in Keys |-> IF ttl[k] = 1 THEN NoEntry ELSE cache[k]]
  /\ cut' = {k \in cut : ttl[k] # 1}
  /\ UNCHANGED << granted, reader, assigner, answer >>

Continue(r) == Fetch(r) \/ FetchCut(r) \/ FetchFault(r) \/ Store(r) \/ StoreFault(r)

Next ==
  \/ \E r \in Readers : \/ \E k \in Keys : Hit(r, k) \/ Miss(r, k)
                        \/ Continue(r)
  \/ \E a \in Assigners : \/ \E k \in Keys, ro \in Roles : Assign(a, k, ro)
                          \/ Invalidate(a) \/ InvalidateFault(a)
  \/ Tick

Spec == Init /\ [][Next]_vars

\* The clock runs, and a lookup that has begun goes on.
FairSpec == Spec /\ WF_vars(Tick) /\ \A r \in Readers : WF_vars(Continue(r))

-----------------------------------------------------------------------------
\* Properties

TypeOK ==
  /\ granted \in [Keys -> SUBSET Roles]
  /\ cache \in [Keys -> (SUBSET Permissions) \union {NoEntry}]
  /\ ttl \in [Keys -> 0..Ttl]
  /\ reader \in [Readers -> ReaderState]
  /\ assigner \in [Assigners -> AssignerState]
  /\ answer \in [Readers -> {NoAnswer} \union Answer]
  /\ cut \subseteq Keys

\* A lookup never returns a permission the user does not have in that
\* organization, however stale the entry it came from.
AnswersGranted ==
  \A r \in Readers : answer[r] # NoAnswer =>
    answer[r].perms \subseteq PermsOf(granted[answer[r].key])

\* Staleness starts with the second role: empty results are not cached, so no
\* race can hide the first role a user gets in an organization.  Only a query that
\* broke off can, and no longer than the entry made of it lives.
FirstRoleNeverStale ==
  \A k \in Keys \ cut, ro \in Roles :
    granted[k] = {ro} => cache[k] \in {NoEntry, RolePerms[ro]}

Current(k) == cache[k] \in {NoEntry, PermsOf(granted[k])}

\* Whatever races, failures and broken queries have left in the cache, it stops
\* being stale for good once roles stop changing and no more queries break off.
EventuallyCurrent ==
  <>[][\A r \in Readers : ~FetchCut(r)]_vars => <>[](\A k \in Keys : Current(k))

-----------------------------------------------------------------------------
\* The inductive invariant: what is cached, or about to be, is something the
\* user's roles give, and what some of them give unless a query broke off.

Snapshot(k, perms) == \E roles \in SUBSET granted[k] : perms = PermsOf(roles)

Part(k, perms) == perms # {} /\ perms \subseteq PermsOf(granted[k])

CacheIsSnapshot ==
  \A k \in Keys : cache[k] # NoEntry =>
    /\ Part(k, cache[k])
    /\ k \notin cut => Snapshot(k, cache[k])

StoresSnapshot ==
  \A r \in Readers : reader[r].pc = "store" =>
    /\ Part(reader[r].key, reader[r].perms)
    /\ reader[r].whole => Snapshot(reader[r].key, reader[r].perms)

IndInv == TypeOK /\ CacheIsSnapshot /\ StoresSnapshot /\ AnswersGranted

=============================================================================
