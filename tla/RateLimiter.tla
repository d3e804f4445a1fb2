----------------------------- MODULE RateLimiter -----------------------------
(***************************************************************************)
(* The limiter in front of the login, MFA and OAuth routes: the times of    *)
(* the hits of every client address, in memory.                             *)
(*                                                                          *)
(* A call holds the mutex from the reading of the clock to its answer, so   *)
(* it is one step.  Hits that are over are dropped lazily: those of a key   *)
(* when it calls, whole keys by a sweep at most once per window.            *)
(*                                                                          *)
(* A slice of hits is the function from the place of a hit to its time; a   *)
(* key that is not in the map is one whose slice is empty.                  *)
(***************************************************************************)
EXTENDS Naturals, FiniteSets

CONSTANTS Keys, Max, Window, Second, MaxTime, None

ASSUME LimiterAssumption ==
    /\ Max \in Nat \ {0}
    /\ Window \in Nat \ {0}
    /\ Second \in Nat \ {0}
    /\ MaxTime \in Nat
    /\ None \notin Nat

VARIABLES
    now,             \* the clock, which never goes back
    hits,            \* hits[k]: the hits kept of k
    lastSweep,       \* when keys were last swept
    told,            \* told[k]: the time Retry-After last named to k, or None
    lastCall         \* history: when a request last came in

limiterVars == <<now, hits, lastSweep, told, lastCall>>

NoHits == [n \in {} |-> 0]
Places(h) == DOMAIN h
First(h) == CHOOSE n \in Places(h) : \A m \in Places(h) : n <= m
Last(h) == CHOOSE n \in Places(h) : \A m \in Places(h) : m <= n
Appended(h, t) ==
    LET next == IF Places(h) = {} THEN 1 ELSE Last(h) + 1
    IN [n \in Places(h) \cup {next} |-> IF n \in Places(h) THEN h[n] ELSE t]

\* time.After(cutoff), where the cutoff is a window before t.
AfterCutoff(time, t) == time + Window > t

\* The hits that still count at t.
Kept(h, t) ==
    LET live == {n \in Places(h) : AfterCutoff(h[n], t)}
    IN [n \in live |-> h[n]]

\* Mutation: a key is dropped when its first hit is over.
FirstIsOver(h, t) == Places(h) = {} \/ ~AfterCutoff(h[First(h)], t)
IsIdle(h, t) == Places(h) = {} \/ ~AfterCutoff(h[Last(h)], t)

\* Mutation: the sweep waits for another window.
SweepIsDueLate(t) == t - lastSweep >= 2 * Window
SweepIsDue(t) == t - lastSweep >= Window

Swept(t) ==
    IF SweepIsDue(t)
    THEN [k \in Keys |-> IF IsIdle(hits[k], t) THEN NoHits ELSE hits[k]]
    ELSE hits

\* Mutation: the limit is one request more.
HasRoomForOneMore(kept) == Cardinality(Places(kept)) <= Max
HasRoom(kept) == Cardinality(Places(kept)) < Max

\* Mutation: the wait counts from the newest hit.
WaitFromNewest(kept) == kept[Last(kept)] + Window - now
RetryAfter(kept) == kept[First(kept)] + Window - now

\* The header: whole seconds, rounded up, and one at least.
Seconds(wait) ==
    LET s == (wait + Second - 1) \div Second
    IN IF s < 1 THEN 1 ELSE s

\* What a call does to the clocks.
ClocksOfACall ==
    /\ lastSweep' = IF SweepIsDue(now) THEN now ELSE lastSweep
    /\ lastCall' = now
    /\ UNCHANGED now

Allowed(k) ==
    LET kept == Kept(Swept(now)[k], now)
    IN /\ HasRoom(kept)
       /\ hits' = [Swept(now) EXCEPT ![k] = Appended(kept, now)]
       /\ told' = [told EXCEPT ![k] = None]
       /\ ClocksOfACall

Limited(k) ==
    LET kept == Kept(Swept(now)[k], now)
    IN /\ ~HasRoom(kept)
       /\ hits' = [Swept(now) EXCEPT ![k] = kept]
       /\ told' = [told EXCEPT ![k] = now + Seconds(RetryAfter(kept)) * Second]
       /\ ClocksOfACall

Tick ==
    /\ now < MaxTime
    /\ now' = now + 1
    /\ UNCHANGED <<hits, lastSweep, told, lastCall>>

\* newRateLimiter: the process starts again and has counted nothing.
Restart ==
    /\ hits' = [k \in Keys |-> NoHits]
    /\ lastSweep' = now
    /\ told' = [k \in Keys |-> None]
    /\ lastCall' = now
    /\ UNCHANGED now

LimiterInit ==
    /\ now = 0
    /\ hits = [k \in Keys |-> NoHits]
    /\ lastSweep = 0
    /\ told = [k \in Keys |-> None]
    /\ lastCall = 0

LimiterNext ==
    \/ \E k \in Keys : Allowed(k) \/ Limited(k)
    \/ Tick
    \/ Restart

LimiterSpec == LimiterInit /\ [][LimiterNext]_limiterVars

-----------------------------------------------------------------------------
\* The hits of a key are in the order of their times, none in the future and no
\* more of them than a window admits.
LimiterTypeOK ==
    /\ now \in Nat
    /\ lastSweep \in 0..now
    /\ lastCall \in 0..now
    /\ \A k \in Keys :
        /\ IsFiniteSet(Places(hits[k])) /\ Places(hits[k]) \subseteq Nat \ {0}
        /\ hits[k] \in [Places(hits[k]) -> 0..now]
        /\ \A m, n \in Places(hits[k]) : m <= n => hits[k][m] <= hits[k][n]
        /\ Cardinality(Places(hits[k])) <= Max
    /\ told \in [Keys -> Nat \cup {None}]

\* The limiter is the sliding window it stands for: what it keeps of a key, less
\* what is over, is exactly what was let through within the window, although it
\* forgets lazily and forgets whole keys.
recentHits == [k \in Keys |-> Kept(hits[k], now)]
Promise == INSTANCE SlidingWindow WITH recent <- recentHits
KeepsThePromise == Promise!WindowSpec

\* What allow would say to k now.
Admits(k) == Cardinality(Places(Kept(hits[k], now))) < Max

\* A client that waits as long as Retry-After says is let through, and was told
\* to wait less than a second too long: the wait is counted from the hit whose
\* leaving makes room, whatever the sweeps do in the meantime.
RetryAfterIsExact ==
    \A k \in Keys : told[k] # None =>
        /\ now >= told[k] => Admits(k)
        /\ Admits(k) => told[k] < now + Second

\* When a request has come in, every key that is remembered was let through within
\* the two windows before it: the map does not grow with every address ever seen.
IdleKeysAreForgotten ==
    \A k \in Keys : \A n \in Places(hits[k]) :
        n = Last(hits[k]) => hits[k][n] + 2 * Window > lastCall

=============================================================================
