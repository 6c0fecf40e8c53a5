---------------------------- MODULE ClickLimiter ----------------------------
(***************************************************************************)
(* backend/click_limiter.go: at most one counted click per visitor and     *)
(* work in minInterval, remembered in a map that forgets old entries.      *)
(*                                                                         *)
(* isAllowedClick reads the time BEFORE it takes the lock, so calls enter  *)
(* the map out of the order of their times, and a call may find that what  *)
(* it would have been compared with was evicted by one with a later time.  *)
(***************************************************************************)
EXTENDS Integers, FiniteSets

CONSTANTS
    Keys,             \* ip|workID
    Callers,          \* request goroutines
    MinInterval,      \* minInterval, in ticks of the monotonic clock
    MaxEntries,       \* maxEntries
    CleanupInterval,  \* cleanupInterval
    MaxWait,          \* assumed: no call waits longer than this for the lock
    MaxTime           \* bound: the clock stops here

\* The wait is assumed shorter than the nine intervals by which an entry
\* outlives its use (18 s as main.go configures it): a longer one lets a click
\* through too early.
ASSUME LimiterAssumption ==
    /\ MinInterval \in Nat \ {0}
    /\ MaxEntries \in Nat
    /\ CleanupInterval \in Nat
    /\ MaxWait \in Nat /\ MaxWait <= 9 * MinInterval
    /\ MaxTime \in Nat

VARIABLES
    clock,         \* the monotonic clock
    known,         \* the keys of lastClicks
    lastClicks,    \* and their values
    lastCleanup,   \* lastCleanup
    waiting,       \* calls between time.Now() and the lock
    now, key,      \* their local variables
    lastAccepted   \* history: time of the last click allowed for each key

limiterVars == <<clock, known, lastClicks, lastCleanup, waiting, now, key, lastAccepted>>

LimiterTypeOK ==
    /\ clock \in Nat
    /\ known \subseteq Keys
    /\ lastClicks \in [Keys -> 0..clock]
    /\ lastCleanup \in 0..clock
    /\ waiting \subseteq Callers
    /\ now \in [Callers -> 0..clock]
    /\ key \in [Callers -> Keys]
    /\ lastAccepted \in [Keys -> -MinInterval..clock]

\* createClickLimiter.  No click has been allowed yet: as if long ago.
LimiterInit ==
    /\ clock = 0
    /\ known = {}
    /\ lastClicks = [k \in Keys |-> 0]
    /\ lastCleanup = 0
    /\ waiting = {}
    /\ now = [p \in Callers |-> 0]
    /\ key \in [Callers -> Keys]
    /\ lastAccepted = [k \in Keys |-> -MinInterval]

Tick ==
    /\ clock < MaxTime
    /\ \A p \in waiting : clock - now[p] < MaxWait
    /\ clock' = clock + 1
    /\ UNCHANGED <<known, lastClicks, lastCleanup, waiting, now, key, lastAccepted>>

\* now := time.Now(), and then the lock is asked for.
Call(p, k) ==
    /\ p \notin waiting
    /\ waiting' = waiting \union {p}
    /\ now' = [now EXCEPT ![p] = clock]
    /\ key' = [key EXCEPT ![p] = k]
    /\ UNCHANGED <<clock, known, lastClicks, lastCleanup, lastAccepted>>

\* now.Sub(last) < minInterval: also true when last is the later of the two.
TooSoon(p) == key[p] \in known /\ now[p] - lastClicks[key[p]] < MinInterval

Reject(p) ==
    /\ p \in waiting
    /\ TooSoon(p)
    /\ waiting' = waiting \ {p}
    /\ UNCHANGED <<clock, known, lastClicks, lastCleanup, now, key, lastAccepted>>

\* Mutant: entries are kept just as long as a repeated click would be refused.
ExpireAtMinInterval(t) == t - MinInterval

\* now.Add(-l.minInterval * 10)
ExpireBefore(t) == t - 10 * MinInterval

\* Mutant: a map that is not full is never cleaned up.
CleanupWhenFull(t, entries) == Cardinality(entries) > MaxEntries

CleanupDue(t, entries) ==
    Cardinality(entries) > MaxEntries \/ t - lastCleanup >= CleanupInterval

\* The rest of isAllowedClick, under the lock: remember the click and, when
\* the map is full or has not been cleaned for a while, drop the old entries.
Accept(p) ==
    /\ p \in waiting
    /\ ~TooSoon(p)
    /\ LET t == now[p]
           clicks == [lastClicks EXCEPT ![key[p]] = t]
           entries == known \union {key[p]}
           expired == IF CleanupDue(t, entries)
                      THEN {k \in entries : clicks[k] < ExpireBefore(t)} ELSE {}
       IN  /\ known' = entries \ expired
           /\ lastClicks' = [k \in Keys |-> IF k \in expired THEN 0 ELSE clicks[k]]
           /\ lastCleanup' = IF CleanupDue(t, entries) THEN t ELSE lastCleanup
           /\ lastAccepted' = [lastAccepted EXCEPT ![key[p]] = t]
    /\ waiting' = waiting \ {p}
    /\ UNCHANGED <<clock, now, key>>

LimiterNext ==
    \/ Tick
    \/ \E p \in Callers :
         \/ \E k \in Keys : Call(p, k)
         \/ Reject(p)
         \/ Accept(p)

LimiterSpec == LimiterInit /\ [][LimiterNext]_limiterVars

-----------------------------------------------------------------------------
(* Properties *)

\* Two clicks of one visitor on one work that are both let through are at
\* least minInterval apart, in whatever order calls reach the lock and
\* whichever entries were evicted between them.
AcceptedApart ==
    [][\A p \in Callers :
         Accept(p) => now[p] - lastAccepted[key[p]] >= MinInterval]_limiterVars

\* The map is no larger than the recent past is busy: after every click let
\* through, an entry is at most ten intervals and a cleanup interval older
\* than the click, and when the map is over maxEntries at most ten intervals.
\* (The number of entries as such has no bound.)
EntriesAreRecent ==
    [][\A p \in Callers : Accept(p) =>
         \A k \in known' :
           lastClicks'[k] >= now[p] - 10 * MinInterval
              - (IF Cardinality(known') > MaxEntries THEN 0 ELSE CleanupInterval)]_limiterVars
=============================================================================
