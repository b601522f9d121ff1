---------------------------- MODULE RateLimiter ----------------------------
(***************************************************************************)
(* The rate limiter of the gateway pipeline for one managed endpoint: the  *)
(* Redis key rate:<app>:<endpoint>, shared by every server process, and    *)
(* the request goroutines that INCR it and, when the counter comes back as *)
(* 1, EXPIRE it in a second round trip.                                    *)
(***************************************************************************)
EXTENDS Integers, FiniteSets

CONSTANTS
  Requests,   \* request goroutines
  Limit,      \* EndpointPolicy.RateLimit
  Window,     \* the TTL, in ticks of the clock
  MaxFaults,  \* bound: calls to Redis and processes that are lost
  MaxCount    \* bound: the counter

ASSUME LimiterAssumption ==
  /\ Limit \in Nat \ {0}    \* a limit of 0 means the endpoint is not limited
  /\ Window \in Nat \ {0}
  /\ MaxFaults \in Nat
  /\ MaxCount \in Nat

NoTtl == 0

VARIABLES
  count,       \* the counter; 0 when the key does not exist
  keyTtl,      \* remaining life of the key, or NoTtl
  pc,          \* request -> "idle", or "expire" between its INCR and its EXPIRE
  life,        \* history: requests let through since the key was created
  recent,      \* history: k -> requests let through in the last k ticks
  sinceReset,  \* history: ticks since the key last expired, up to Window
  faults       \* calls and processes lost so far

limiterVars == << count, keyTtl, pc, life, recent, sinceReset, faults >>

LimiterInit ==
  /\ count = 0
  /\ keyTtl = NoTtl
  /\ pc = [r \in Requests |-> "idle"]
  /\ life = 0
  /\ recent = [k \in 1..Window |-> 0]
  /\ sinceReset = Window
  /\ faults = 0

-----------------------------------------------------------------------------
\* Faults: the comparison is off by one, either way.
OverLimitLate(n) == n > Limit + 1
OverLimitEarly(n) == n >= Limit

OverLimit(n) == n > Limit

\* The request goes on to the interceptors and the backend.
LetThrough ==
  /\ life' = life + 1
  /\ recent' = [k \in 1..Window |-> recent[k] + 1]

\* Fault: the window is not opened.
IncrFirstUnbounded(r) ==
  /\ pc[r] = "idle"
  /\ count = 0
  /\ count' = 1
  /\ LetThrough
  /\ UNCHANGED << keyTtl, pc, sinceReset, faults >>

\* INCR creates the key: this request must also set its TTL.
IncrFirst(r) ==
  /\ pc[r] = "idle"
  /\ count = 0
  /\ count' = 1
  /\ pc' = [pc EXCEPT ![r] = "expire"]
  /\ UNCHANGED << keyTtl, life, recent, sinceReset, faults >>

\* INCR on a key that exists decides at once.
IncrLater(r) ==
  /\ pc[r] = "idle"
  /\ count \in 1..(MaxCount - 1)
  /\ count' = count + 1
  /\ IF OverLimit(count + 1) THEN UNCHANGED << life, recent >> ELSE LetThrough
  /\ UNCHANGED << keyTtl, pc, sinceReset, faults >>

\* EXPIRE, which does nothing to a key that is gone.
SetTtl(r) ==
  /\ pc[r] = "expire"
  /\ keyTtl' = IF count > 0 THEN Window ELSE keyTtl
  /\ IF OverLimit(1) THEN UNCHANGED << life, recent >> ELSE LetThrough
  /\ pc' = [pc EXCEPT ![r] = "idle"]
  /\ UNCHANGED << count, sinceReset, faults >>

Lost ==
  /\ faults < MaxFaults
  /\ faults' = faults + 1

\* EXPIRE fails, or the client's context is cancelled: its result is not looked at.
LoseTtl(r) ==
  /\ Lost
  /\ pc[r] = "expire"
  /\ IF OverLimit(1) THEN UNCHANGED << life, recent >> ELSE LetThrough
  /\ pc' = [pc EXCEPT ![r] = "idle"]
  /\ UNCHANGED << count, keyTtl, sinceReset >>

\* The process dies between INCR and EXPIRE.
Crash(r) ==
  /\ Lost
  /\ pc[r] = "expire"
  /\ pc' = [pc EXCEPT ![r] = "idle"]
  /\ UNCHANGED << count, keyTtl, life, recent, sinceReset >>

\* INCR is executed but its reply is lost: the request is answered 429.
LoseReply(r) ==
  /\ Lost
  /\ pc[r] = "idle"
  /\ count < MaxCount
  /\ count' = count + 1
  /\ UNCHANGED << keyTtl, pc, life, recent, sinceReset >>

Least(a, b) == IF a < b THEN a ELSE b

\* One tick of the clock; a key whose TTL runs out is deleted.
LimiterTick ==
  /\ keyTtl' = IF keyTtl = NoTtl THEN NoTtl ELSE keyTtl - 1
  /\ IF keyTtl = 1
       THEN count' = 0 /\ life' = 0 /\ sinceReset' = 0
       ELSE UNCHANGED << count, life >> /\ sinceReset' = Least(sinceReset + 1, Window)
  /\ recent' = [k \in 1..Window |-> IF k = 1 THEN 0 ELSE recent[k - 1]]
  /\ UNCHANGED << pc, faults >>

CheckRateLimit(r) ==
  \/ IncrFirst(r)
  \/ IncrLater(r)
  \/ LoseReply(r)

FinishFirst(r) ==
  \/ SetTtl(r)
  \/ LoseTtl(r)
  \/ Crash(r)

LimiterNext ==
  \/ \E r \in Requests : CheckRateLimit(r) \/ FinishFirst(r)
  \/ LimiterTick

LimiterSpec == LimiterInit /\ [][LimiterNext]_limiterVars

\* The clock runs and a goroutine that is waiting for Redis goes on; nobody has
\* to send requests.
LimiterFairSpec ==
  /\ LimiterSpec
  /\ WF_limiterVars(LimiterTick)
  /\ \A r \in Requests : WF_limiterVars(FinishFirst(r))

-----------------------------------------------------------------------------
\* Properties

LimiterTypeOK ==
  /\ count \in Nat
  /\ keyTtl \in 0..Window
  /\ pc \in [Requests -> {"idle", "expire"}]
  /\ life \in Nat
  /\ recent \in [1..Window -> Nat]
  /\ sinceReset \in 0..Window
  /\ faults \in 0..MaxFaults

\* Over one life of the key no more than Limit requests get through, whichever
\* requests race for its creation and whatever Redis loses.
LifeLimit == life <= Limit

Resetting == count > 0 /\ count' = 0

\* The key never expires twice within one window, so two lives of it are all that
\* a window can touch.
ResetsApart == [][Resetting => sinceReset + 1 >= Window]_limiterVars

\* The counter is a fixed window, not the sliding one its comment names: in any
\* Window consecutive ticks at most twice the
\* limit gets through.
TwiceLimit == recent[Window] <= 2 * Limit

Refusing == count' = count + 1 /\ life' = life /\ pc' = pc /\ faults' = faults

Setters == {r \in Requests : pc[r] = "expire"}

\* As long as nothing is lost, nobody is refused before Limit requests got through or are
\* about to: a refused request costs later ones nothing.
NoEarlyRefusal ==
  [][Refusing /\ faults = 0 => life + Cardinality(Setters) >= Limit]_limiterVars

\* As long as nothing is lost, a window that was opened ends.
WindowEnds == count > 0 ~> count = 0 \/ faults > 0

-----------------------------------------------------------------------------
\* Why the limit holds: at most one request has created the key and not yet set
\* its TTL, its place is counted, and the key cannot expire under it.
PlaceKept ==
  /\ life <= count
  /\ \A r \in Setters : life < count /\ life < Limit /\ keyTtl = NoTtl

\* What got through since the key last expired got through in its present life, and
\* before that there was at most one life within a window.
RecentKept ==
  \A k \in 1..Window :
    /\ recent[k] <= life + Limit
    /\ k <= sinceReset + 1 => recent[k] <= life

\* A running TTL was set at least as long ago as it has run.
TtlRuns == keyTtl > 0 => count > 0 /\ sinceReset + keyTtl >= Window

OneSetter == \A r, s \in Setters : r = s

LimiterInv ==
  LimiterTypeOK /\ LifeLimit /\ PlaceKept /\ OneSetter /\ TtlRuns /\ RecentKept

=============================================================================
