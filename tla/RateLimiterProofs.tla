-------------------------- MODULE RateLimiterProofs --------------------------
(***************************************************************************)
(* The rate limiter proved, for any clients, limit, window and length of a  *)
(* second: it implements SlidingWindow, it forgets, and what it tells a     *)
(* client to wait is exact.                                                 *)
(*                                                                          *)
(* The argument rests on two facts about slices of hits: they are numbered  *)
(* without a gap in the order of their times, so that the last is the       *)
(* newest, and pruning them at one time and then at a later one is pruning  *)
(* them at the later one, so that laziness is invisible.                    *)
(***************************************************************************)
EXTENDS RateLimiter, FiniteSetTheorems, WellFoundedInduction, TLAPS

\* A set of natural numbers that is not empty has a least one.
LEMMA LeastNatural ==
    ASSUME NEW S \in SUBSET Nat, S # {}
    PROVE  \E m \in S : \A n \in S : m <= n
<1> DEFINE Below(n) == 0..n
           T == {Below(n) : n \in S}
<1>1. IsWellFoundedOn(StrictSubsetOrdering(Nat), FiniteSubsetsOf(Nat))
  BY FS_StrictSubsetOrderingWellFounded
<1>2. T \subseteq FiniteSubsetsOf(Nat)
  <2>1. ASSUME NEW n \in S
        PROVE  Below(n) \in SUBSET Nat /\ IsFiniteSet(Below(n))
    BY FS_Interval
  <2>2. QED
    BY <2>1 DEF FiniteSubsetsOf
<1>3. T # {}
  OBVIOUS
<1> HIDE DEF T
<1>4. PICK B \in T : \A A \in T : ~ (<<A, B>> \in StrictSubsetOrdering(Nat))
  BY <1>1, <1>2, <1>3, WFMin
<1>5. PICK m \in S : B = Below(m)
  BY DEF T
<1>6. ASSUME NEW n \in S, n < m
      PROVE  FALSE
  <2>1. Below(n) \in T
    BY DEF T
  <2>2. Below(n) \in SUBSET Nat /\ Below(m) \in SUBSET Nat
    OBVIOUS
  <2>3. Below(n) \subseteq Below(m) /\ m \in Below(m) /\ m \notin Below(n)
    BY <1>6
  <2>4. <<Below(n), B>> \in StrictSubsetOrdering(Nat)
    BY <1>5, <2>2, <2>3 DEF StrictSubsetOrdering
  <2>5. QED
    BY <1>4, <2>1, <2>4
<1>7. QED
  BY <1>6

-----------------------------------------------------------------------------
(* Slices of hits.                                                          *)

\* The hits of a key are numbered without a gap, in the order of their times.
Slice(h, t) ==
    \E a, b \in Nat :
        /\ a >= 1
        /\ h \in [a..b -> 0..t]
        /\ \A m, n \in a..b : m <= n => h[m] <= h[n]

\* No hits at all are a slice too.
LEMMA NoHitsIsSlice ==
    ASSUME NEW t \in Nat
    PROVE  Slice(NoHits, t) /\ Places(NoHits) = {}
<1>1. NoHits \in [1..0 -> 0..t] /\ 1..0 = {}
  BY DEF NoHits
<1>2. QED
  BY <1>1 DEF Slice, Places

\* The ends of a slice are its first and its last place.
LEMMA Ends ==
    ASSUME NEW h, NEW t \in Nat, Slice(h, t), Places(h) # {}
    PROVE  /\ First(h) \in Places(h) /\ Last(h) \in Places(h)
           /\ \A n \in Places(h) : First(h) <= n /\ n <= Last(h)
<1>1. PICK a \in Nat, b \in Nat : a >= 1 /\ h \in [a..b -> 0..t]
  BY DEF Slice
<1>2. Places(h) = a..b
  BY <1>1 DEF Places
<1>3. a \in a..b /\ b \in a..b
  BY <1>2
<1>4. \E n \in Places(h) : \A m \in Places(h) : n <= m
  <2>1. \A m \in a..b : a <= m
    OBVIOUS
  <2>2. QED
    BY <1>2, <1>3, <2>1
<1>5. \E n \in Places(h) : \A m \in Places(h) : m <= n
  <2>1. \A m \in a..b : m <= b
    OBVIOUS
  <2>2. QED
    BY <1>2, <1>3, <2>1
<1>6. QED
  BY <1>4, <1>5 DEF First, Last

\* The places of a slice are finitely many, and its times do not go down.
LEMMA SliceFacts ==
    ASSUME NEW h, NEW t \in Nat, Slice(h, t)
    PROVE  /\ Places(h) \subseteq Nat \ {0}
           /\ IsFiniteSet(Places(h)) /\ Cardinality(Places(h)) \in Nat
           /\ h \in [Places(h) -> 0..t]
           /\ \A m, n \in Places(h) : m <= n => h[m] <= h[n]
<1>1. PICK a \in Nat, b \in Nat : /\ a >= 1
                                /\ h \in [a..b -> 0..t]
                                /\ \A m, n \in a..b : m <= n => h[m] <= h[n]
  BY DEF Slice
<1>2. Places(h) = a..b
  BY <1>1 DEF Places
<1>3. IsFiniteSet(a..b) /\ Cardinality(a..b) \in Nat
  <2>1. a \in Int /\ b \in Int
    OBVIOUS
  <2>2. IsFiniteSet(a..b)
    BY <2>1, FS_Interval
  <2>3. QED
    BY <2>2, FS_CardinalityType
<1>4. QED
  BY <1>1, <1>2, <1>3

\* What is kept of a slice is the slice of its hits that still count.
LEMMA KeptFacts ==
    ASSUME NEW h, NEW t \in Nat
    PROVE  /\ Places(Kept(h, t)) = {n \in Places(h) : AfterCutoff(h[n], t)}
           /\ \A n \in Places(Kept(h, t)) : Kept(h, t)[n] = h[n]
BY DEF Kept, Places

\* Pruning a slice leaves a slice: the hits that are over come first.
LEMMA KeptIsSlice ==
    ASSUME NEW h, NEW t \in Nat, NEW u \in Nat, t <= u, Slice(h, t)
    PROVE  Slice(Kept(h, u), u)
<1> DEFINE live == Places(Kept(h, u))
<1>1. PICK a \in Nat, b \in Nat : /\ a >= 1
                                /\ h \in [a..b -> 0..t]
                                /\ \A m, n \in a..b : m <= n => h[m] <= h[n]
  BY DEF Slice
<1>2. live = {n \in a..b : h[n] + Window > u}
  <2>1. live = {n \in Places(h) : AfterCutoff(h[n], u)}
    BY KeptFacts
  <2>2. Places(h) = a..b
    BY <1>1 DEF Places
  <2>3. QED
    BY <2>1, <2>2 DEF AfterCutoff
<1>3. Kept(h, u) = [n \in live |-> h[n]]
  BY DEF Kept, Places
<1>4. CASE live = {}
  <2>1. Kept(h, u) \in [1..0 -> 0..u] /\ 1..0 = {}
    BY <1>3, <1>4
  <2>2. QED
    BY <2>1 DEF Slice
<1>5. CASE live # {}
  <2>1. live \in SUBSET Nat
    BY <1>2
  <2> HIDE DEF live
  <2>2. PICK c \in live : \A n \in live : c <= n
    BY <1>5, <2>1, LeastNatural
  <2>3. ASSUME NEW n \in c..b
        PROVE  n \in live
    <3>1. c \in a..b /\ n \in a..b /\ c <= n
      BY <1>1, <1>2, <2>2
    <3>2. h[c] <= h[n] /\ h[c] + Window > u
      BY <1>1, <1>2, <2>2, <3>1
    <3>3. h[c] \in Nat /\ h[n] \in Nat
      BY <1>1, <3>1
    <3>4. h[n] + Window > u
      BY <3>2, <3>3, LimiterAssumption
    <3>5. QED
      BY <1>2, <3>1, <3>4
  <2>4. live = c..b
    <3>1. live \subseteq c..b
      BY <1>2, <2>1, <2>2
    <3>2. QED
      BY <2>3, <3>1
  <2>5. \A n \in live : n \in a..b /\ h[n] \in 0..u
    BY <1>1, <1>2
  <2>6. Kept(h, u) \in [c..b -> 0..u]
    BY <1>3, <2>4, <2>5
  <2>7. \A m, n \in c..b : m <= n => Kept(h, u)[m] <= Kept(h, u)[n]
    BY <1>1, <1>3, <2>4, <2>5
  <2>8. c \in Nat /\ c >= 1
    BY <1>1, <1>2, <2>2
  <2>9. QED
    BY <2>6, <2>7, <2>8 DEF Slice
<1>6. QED
  BY <1>4, <1>5

\* A hit that is added comes last.
LEMMA AppendedIsSlice ==
    ASSUME NEW h, NEW t \in Nat, Slice(h, t)
    PROVE  /\ Slice(Appended(h, t), t)
           /\ \E next \in Nat : /\ next \notin Places(h)
                               /\ Places(Appended(h, t)) = Places(h) \cup {next}
                               /\ Appended(h, t)[next] = t
                               /\ \A n \in Places(h) : n < next /\ Appended(h, t)[n] = h[n]
<1> DEFINE next == IF Places(h) = {} THEN 1 ELSE Last(h) + 1
<1>1. PICK a \in Nat, b \in Nat : /\ a >= 1
                                /\ h \in [a..b -> 0..t]
                                /\ \A m, n \in a..b : m <= n => h[m] <= h[n]
  BY DEF Slice
<1>2. Places(h) = a..b
  BY <1>1 DEF Places
<1>3. Appended(h, t) = [n \in Places(h) \cup {next} |-> IF n \in Places(h) THEN h[n] ELSE t]
  BY DEF Appended
<1>4. next \in Nat /\ \A n \in Places(h) : n < next
  <2>1. CASE Places(h) = {}
    BY <2>1
  <2>2. CASE Places(h) # {}
    <3>1. Last(h) \in a..b /\ \A n \in Places(h) : n <= Last(h)
      BY <1>2, <2>2, Ends
    <3>2. next = Last(h) + 1
      BY <2>2
    <3>3. \A n \in Places(h) : n \in Nat
      BY <1>2
    <3>4. QED
      BY <3>1, <3>2, <3>3
  <2>3. QED
    BY <2>1, <2>2
<1>5. \E c \in Nat : c >= 1 /\ Places(h) \cup {next} = c..next
  <2>1. CASE Places(h) = {}
    <3>1. Places(h) \cup {next} = 1..next
      BY <2>1
    <3>2. QED
      BY <3>1
  <2>2. CASE Places(h) # {}
    <3>1. a <= b
      BY <1>2, <2>2
    <3>2. b \in Places(h) /\ Last(h) \in a..b /\ b <= Last(h)
      BY <1>2, <2>2, <3>1, Ends
    <3>3. next = b + 1
      BY <2>2, <3>2
    <3>4. Places(h) \cup {next} = a..next
      BY <1>2, <3>1, <3>3
    <3>5. QED
      BY <1>1, <3>4
  <2>3. QED
    BY <2>1, <2>2
<1> HIDE DEF next
<1>6. PICK c \in Nat : c >= 1 /\ Places(h) \cup {next} = c..next
  BY <1>5
<1>7. Appended(h, t) \in [c..next -> 0..t]
  <2>1. \A n \in Places(h) : h[n] \in 0..t
    BY <1>1, <1>2
  <2>2. QED
    BY <1>3, <1>6, <2>1
<1>8. \A n \in Places(h) : Appended(h, t)[n] = h[n] /\ h[n] \in 0..t
  BY <1>1, <1>2, <1>3
<1>9. next \notin Places(h) /\ Appended(h, t)[next] = t
  BY <1>2, <1>3, <1>4
<1>10. ASSUME NEW m \in c..next, NEW n \in c..next, m <= n
       PROVE  Appended(h, t)[m] <= Appended(h, t)[n]
  <2>1. m \in Places(h) \cup {next} /\ n \in Places(h) \cup {next}
    BY <1>6
  <2>2. CASE n = next
    <3>1. Appended(h, t)[m] \in 0..t
      BY <1>7
    <3>2. QED
      BY <1>9, <2>2, <3>1
  <2>3. CASE n \in Places(h)
    <3>1. m \in Places(h)
      BY <1>2, <1>4, <1>10, <2>1, <2>3
    <3>2. QED
      BY <1>1, <1>2, <1>8, <1>10, <2>3, <3>1
  <2>4. QED
    BY <2>1, <2>2, <2>3
<1>11. Places(Appended(h, t)) = Places(h) \cup {next}
  BY <1>3 DEF Places
<1>12. Slice(Appended(h, t), t)
  BY <1>4, <1>6, <1>7, <1>10 DEF Slice
<1>13. QED
  BY <1>4, <1>8, <1>9, <1>11, <1>12

-----------------------------------------------------------------------------
(* What is still counted of a slice.                                        *)

\* Pruning twice is pruning once, at the later of the two times.
LEMMA KeptOfKept ==
    ASSUME NEW h, NEW t \in Nat, NEW u \in Nat, t <= u,
           \A n \in Places(h) : h[n] \in Nat
    PROVE  Kept(Kept(h, t), u) = Kept(h, u)
<1>1. Places(Kept(h, t)) = {n \in Places(h) : h[n] + Window > t}
  BY KeptFacts DEF AfterCutoff
<1>2. Places(Kept(h, u)) = {n \in Places(h) : h[n] + Window > u}
  BY KeptFacts DEF AfterCutoff
<1>3. \A n \in Places(Kept(h, t)) : Kept(h, t)[n] = h[n]
  BY KeptFacts
<1>4. Places(Kept(Kept(h, t), u)) = {n \in Places(Kept(h, t)) : Kept(h, t)[n] + Window > u}
  BY KeptFacts DEF AfterCutoff
<1>5. Places(Kept(Kept(h, t), u)) = Places(Kept(h, u))
  BY <1>1, <1>2, <1>3, <1>4, LimiterAssumption
<1>6. Kept(h, u) = [n \in Places(Kept(h, u)) |-> h[n]]
  BY DEF Kept, Places
<1>7. Kept(Kept(h, t), u) = [n \in Places(Kept(Kept(h, t), u)) |-> Kept(h, t)[n]]
  BY DEF Kept, Places
<1>8. \A n \in Places(Kept(h, u)) : Kept(h, t)[n] = h[n]
  BY <1>1, <1>2, <1>3, LimiterAssumption
<1>9. QED
  BY <1>5, <1>6, <1>7, <1>8

\* Of an idle key nothing counts any more.
LEMMA IdleCountsNothing ==
    ASSUME NEW h, NEW t \in Nat, Slice(h, t), IsIdle(h, t)
    PROVE  Kept(h, t) = NoHits
<1>1. \A n \in Places(h) : ~AfterCutoff(h[n], t)
  <2>1. CASE Places(h) = {}
    BY <2>1
  <2>2. CASE Places(h) # {}
    <3>1. Last(h) \in Places(h) /\ ~AfterCutoff(h[Last(h)], t)
      BY <2>2, Ends DEF IsIdle
    <3>2. ASSUME NEW n \in Places(h)
          PROVE  h[n] <= h[Last(h)] /\ h[n] \in Nat /\ h[Last(h)] \in Nat
      BY <2>2, Ends, SliceFacts
    <3>3. QED
      BY <3>1, <3>2, LimiterAssumption DEF AfterCutoff
  <2>3. QED
    BY <2>1, <2>2
<1>2. {n \in Places(h) : AfterCutoff(h[n], t)} = {}
  BY <1>1
<1>3. Kept(h, t) = [n \in {} |-> h[n]]
  BY <1>2 DEF Kept
<1>4. QED
  BY <1>3 DEF NoHits

\* Pruning adds no hit.
LEMMA KeptIsSmaller ==
    ASSUME NEW h, NEW t \in Nat, NEW u \in Nat, t <= u, Slice(h, t)
    PROVE  /\ IsFiniteSet(Places(Kept(h, u)))
           /\ Cardinality(Places(Kept(h, u))) \in Nat
           /\ Cardinality(Places(Kept(h, u))) <= Cardinality(Places(h))
<1>1. Places(Kept(h, u)) \in SUBSET Places(h)
  BY KeptFacts
<1>2. IsFiniteSet(Places(h))
  BY SliceFacts
<1>3. QED
  BY <1>1, <1>2, FS_Subset, FS_CardinalityType

-----------------------------------------------------------------------------
(* The type invariant.                                                      *)

Clocks == now \in Nat /\ lastSweep \in 0..now /\ lastCall \in 0..now

Slices ==
    /\ hits = [k \in Keys |-> hits[k]]
    /\ \A k \in Keys : Slice(hits[k], now) /\ Cardinality(Places(hits[k])) <= Max

LimiterInv == Clocks /\ Slices /\ told \in [Keys -> Nat \cup {None}]

\* The invariant says all that the type invariant says.
LEMMA InvIsType == LimiterInv => LimiterTypeOK
<1> SUFFICES ASSUME LimiterInv PROVE LimiterTypeOK
  OBVIOUS
<1>1. ASSUME NEW k \in Keys
      PROVE  /\ IsFiniteSet(Places(hits[k])) /\ Places(hits[k]) \subseteq Nat \ {0}
             /\ hits[k] \in [Places(hits[k]) -> 0..now]
             /\ \A m, n \in Places(hits[k]) : m <= n => hits[k][m] <= hits[k][n]
             /\ Cardinality(Places(hits[k])) <= Max
  BY SliceFacts DEF LimiterInv, Clocks, Slices
<1>2. QED
  BY <1>1 DEF LimiterInv, Clocks, LimiterTypeOK

\* A sweep drops only what counts no more.
LEMMA SweepLosesNothing ==
    ASSUME LimiterInv, NEW k \in Keys
    PROVE  /\ Swept(now)[k] \in {NoHits, hits[k]}
           /\ Slice(Swept(now)[k], now)
           /\ Cardinality(Places(Swept(now)[k])) <= Max
           /\ Kept(Swept(now)[k], now) = Kept(hits[k], now)
           /\ Swept(now) = [j \in Keys |-> Swept(now)[j]]
<1>1. now \in Nat /\ Slice(hits[k], now) /\ Cardinality(Places(hits[k])) <= Max
  BY DEF LimiterInv, Clocks, Slices
<1>2. Swept(now) = [j \in Keys |-> Swept(now)[j]]
  BY DEF Swept, LimiterInv, Slices
<1>3. Swept(now)[k] = IF SweepIsDue(now) /\ IsIdle(hits[k], now) THEN NoHits ELSE hits[k]
  BY DEF Swept
<1>4. CASE SweepIsDue(now) /\ IsIdle(hits[k], now)
  <2>1. Slice(NoHits, now) /\ Places(NoHits) = {} /\ Cardinality({}) = 0
    BY <1>1, NoHitsIsSlice, FS_EmptySet
  <2>2. Kept(NoHits, now) = NoHits
    <3>1. Kept(NoHits, now) = [n \in {} |-> NoHits[n]]
      BY <2>1 DEF Kept
    <3>2. QED
      BY <3>1 DEF NoHits
  <2>3. Kept(hits[k], now) = NoHits
    BY <1>1, <1>4, IdleCountsNothing
  <2>4. QED
    BY <1>2, <1>3, <1>4, <2>1, <2>2, <2>3, LimiterAssumption
<1>5. CASE ~(SweepIsDue(now) /\ IsIdle(hits[k], now))
  BY <1>1, <1>2, <1>3, <1>5
<1>6. QED
  BY <1>4, <1>5

\* What is left of a key when it calls.
LEMMA CallerFacts ==
    ASSUME LimiterInv, NEW k \in Keys
    PROVE  LET kept == Kept(Swept(now)[k], now)
           IN /\ Slice(kept, now) /\ kept = Kept(hits[k], now)
              /\ IsFiniteSet(Places(kept)) /\ Cardinality(Places(kept)) \in 0..Max
              /\ \A n \in Places(kept) : kept[n] \in 0..now /\ kept[n] + Window > now
<1> DEFINE swept == Swept(now)[k]
           kept == Kept(swept, now)
<1>1. now \in Nat /\ Slice(swept, now) /\ Cardinality(Places(swept)) <= Max
  BY SweepLosesNothing DEF LimiterInv, Clocks
<1>2. kept = Kept(hits[k], now)
  BY SweepLosesNothing
<1>3. /\ Places(kept) = {n \in Places(swept) : AfterCutoff(swept[n], now)}
      /\ \A n \in Places(kept) : kept[n] = swept[n]
  BY <1>1, KeptFacts
<1>4. swept \in [Places(swept) -> 0..now]
  BY <1>1, SliceFacts
<1>5. Cardinality(Places(swept)) \in Nat
  BY <1>1, SliceFacts
<1> HIDE DEF swept
<1>6. Slice(kept, now)
  BY <1>1, KeptIsSlice
<1>7. IsFiniteSet(Places(kept)) /\ Cardinality(Places(kept)) \in Nat
      /\ Cardinality(Places(kept)) <= Cardinality(Places(swept))
  BY <1>1, KeptIsSmaller
<1> HIDE DEF kept
<1>8. Cardinality(Places(kept)) \in 0..Max
  BY <1>1, <1>5, <1>7, LimiterAssumption
<1>9. \A n \in Places(kept) : kept[n] \in 0..now /\ kept[n] + Window > now
  BY <1>3, <1>4 DEF AfterCutoff
<1>10. QED
  BY <1>2, <1>6, <1>7, <1>8, <1>9 DEF kept, swept

\* The wait announced covers the wait, and exceeds it by less than a second.
LEMMA AnnouncedWait ==
    ASSUME NEW w \in Nat \ {0}
    PROVE  /\ Seconds(w) \in Nat
           /\ Seconds(w) = (w + Second - 1) \div Second
           /\ w <= Seconds(w) * Second /\ Seconds(w) * Second < w + Second
<1> DEFINE x == w + Second - 1
<1>1. x \in Nat /\ x >= Second /\ Second \in Nat \ {0}
  BY LimiterAssumption
<1> HIDE DEF x
<1>2. x \div Second >= 1 /\ x \div Second \in Nat
  BY <1>1
<1>3. (x \div Second) * Second <= x /\ x < (x \div Second) * Second + Second
  BY <1>1
<1>4. Seconds(w) = x \div Second
  BY <1>2 DEF Seconds, x
<1>5. (x \div Second) * Second \in Nat
  BY <1>1, <1>2
<1>6. QED
  BY <1>1, <1>2, <1>3, <1>4, <1>5 DEF x

\* The first of the hits that count is still to leave the window.
LEMMA WaitIsPositive ==
    ASSUME LimiterInv, NEW k \in Keys, ~HasRoom(Kept(Swept(now)[k], now))
    PROVE  LET kept == Kept(Swept(now)[k], now)
           IN /\ First(kept) \in Places(kept) /\ kept[First(kept)] \in 0..now
              /\ \A n \in Places(kept) : kept[First(kept)] <= kept[n]
              /\ RetryAfter(kept) = kept[First(kept)] + Window - now
              /\ RetryAfter(kept) \in Nat \ {0}
<1> DEFINE kept == Kept(Swept(now)[k], now)
<1>1. /\ Slice(kept, now) /\ Cardinality(Places(kept)) \in 0..Max
      /\ \A n \in Places(kept) : kept[n] \in 0..now /\ kept[n] + Window > now
  BY CallerFacts
<1>2. now \in Nat
  BY DEF LimiterInv, Clocks
<1>3. Places(kept) # {}
  <2>1. Cardinality(Places(kept)) # 0
    BY <1>1, LimiterAssumption DEF HasRoom
  <2>2. QED
    BY <2>1, FS_EmptySet
<1> HIDE DEF kept
<1>4. First(kept) \in Places(kept) /\ \A n \in Places(kept) : First(kept) <= n
  BY <1>1, <1>2, <1>3, Ends
<1>5. \A n \in Places(kept) : kept[First(kept)] <= kept[n]
  BY <1>1, <1>2, <1>4, SliceFacts
<1>6. RetryAfter(kept) = kept[First(kept)] + Window - now
  BY DEF RetryAfter
<1>7. RetryAfter(kept) \in Nat \ {0}
  BY <1>1, <1>2, <1>4, <1>6, LimiterAssumption
<1>8. QED
  BY <1>1, <1>4, <1>5, <1>6, <1>7 DEF kept

\* The limiter starts out empty.
LEMMA InitEstablishesInv == LimiterInit => LimiterInv
<1> SUFFICES ASSUME LimiterInit PROVE LimiterInv
  OBVIOUS
<1>1. Slice(NoHits, now) /\ Places(NoHits) = {} /\ Cardinality({}) = 0 /\ now \in Nat
  BY NoHitsIsSlice, FS_EmptySet DEF LimiterInit
<1>2. QED
  BY <1>1, LimiterAssumption DEF LimiterInit, LimiterInv, Clocks, Slices

\* A request let through adds one hit, for which there was room.
LEMMA AllowedKeepsInv ==
    ASSUME LimiterInv, NEW k \in Keys, Allowed(k)
    PROVE  LimiterInv'
<1> DEFINE kept == Kept(Swept(now)[k], now)
<1>1. /\ HasRoom(kept)
      /\ hits' = [Swept(now) EXCEPT ![k] = Appended(kept, now)]
      /\ told' = [told EXCEPT ![k] = None]
      /\ lastSweep' \in {lastSweep, now} /\ lastCall' = now /\ now' = now
  BY DEF Allowed, ClocksOfACall
<1>2. Slice(kept, now) /\ IsFiniteSet(Places(kept)) /\ Cardinality(Places(kept)) \in 0..Max
  BY CallerFacts
<1>3. now \in Nat
  BY DEF LimiterInv, Clocks
<1> HIDE DEF kept
<1>4. Slice(Appended(kept, now), now) /\ Cardinality(Places(Appended(kept, now))) <= Max
  <2>1. PICK next \in Nat : /\ next \notin Places(kept)
                           /\ Places(Appended(kept, now)) = Places(kept) \cup {next}
    BY <1>2, <1>3, AppendedIsSlice
  <2>2. Cardinality(Places(kept) \cup {next}) = Cardinality(Places(kept)) + 1
    BY <1>2, <2>1, FS_AddElement
  <2>3. QED
    BY <1>1, <1>2, <1>3, <2>1, <2>2, AppendedIsSlice, LimiterAssumption DEF HasRoom
<1>5. \A j \in Keys : hits'[j] = IF j = k THEN Appended(kept, now) ELSE Swept(now)[j]
  BY <1>1, SweepLosesNothing
<1>6. hits' = [j \in Keys |-> hits'[j]]
  BY <1>1, SweepLosesNothing
<1>7. \A j \in Keys : Slice(hits'[j], now) /\ Cardinality(Places(hits'[j])) <= Max
  BY <1>4, <1>5, SweepLosesNothing
<1>8. Slices'
  BY <1>1, <1>6, <1>7 DEF Slices
<1>9. Clocks' /\ told' \in [Keys -> Nat \cup {None}]
  BY <1>1 DEF LimiterInv, Clocks
<1>10. QED
  BY <1>8, <1>9 DEF LimiterInv

\* A request turned away leaves what counts.
LEMMA LimitedKeepsInv ==
    ASSUME LimiterInv, NEW k \in Keys, Limited(k)
    PROVE  LimiterInv'
<1> DEFINE kept == Kept(Swept(now)[k], now)
<1>1. /\ ~HasRoom(kept)
      /\ hits' = [Swept(now) EXCEPT ![k] = kept]
      /\ told' = [told EXCEPT ![k] = now + Seconds(RetryAfter(kept)) * Second]
      /\ lastSweep' \in {lastSweep, now} /\ lastCall' = now /\ now' = now
  BY DEF Limited, ClocksOfACall
<1>2. Slice(kept, now) /\ Cardinality(Places(kept)) \in 0..Max
  BY CallerFacts
<1>3. now \in Nat
  BY DEF LimiterInv, Clocks
<1>4. RetryAfter(kept) \in Nat \ {0}
  BY <1>1, WaitIsPositive
<1> HIDE DEF kept
<1>5. now + Seconds(RetryAfter(kept)) * Second \in Nat
  <2>1. Seconds(RetryAfter(kept)) \in Nat
    BY <1>4, AnnouncedWait
  <2>2. QED
    BY <1>3, <2>1, LimiterAssumption
<1>6. \A j \in Keys : hits'[j] = IF j = k THEN kept ELSE Swept(now)[j]
  BY <1>1, SweepLosesNothing
<1>7. hits' = [j \in Keys |-> hits'[j]]
  BY <1>1, SweepLosesNothing
<1>8. \A j \in Keys : Slice(hits'[j], now) /\ Cardinality(Places(hits'[j])) <= Max
  BY <1>2, <1>6, SweepLosesNothing, LimiterAssumption
<1>9. Slices'
  BY <1>1, <1>7, <1>8 DEF Slices
<1>10. Clocks' /\ told' \in [Keys -> Nat \cup {None}]
  BY <1>1, <1>5 DEF LimiterInv, Clocks
<1>11. QED
  BY <1>9, <1>10 DEF LimiterInv

\* A slice stays one as time passes.
LEMMA LaterSlice ==
    ASSUME NEW h, NEW t \in Nat, NEW u \in Nat, t <= u, Slice(h, t)
    PROVE  Slice(h, u)
<1>1. PICK a \in Nat, b \in Nat : /\ a >= 1
                                /\ h \in [a..b -> 0..t]
                                /\ \A m, n \in a..b : m <= n => h[m] <= h[n]
  BY DEF Slice
<1>2. h \in [a..b -> 0..u]
  BY <1>1
<1>3. QED
  BY <1>1, <1>2 DEF Slice

\* Every step keeps the invariant.
LEMMA StepKeepsInv == LimiterInv /\ [LimiterNext]_limiterVars => LimiterInv'
<1> SUFFICES ASSUME LimiterInv, [LimiterNext]_limiterVars PROVE LimiterInv'
  OBVIOUS
<1>1. CASE \E k \in Keys : Allowed(k)
  BY <1>1, AllowedKeepsInv
<1>2. CASE \E k \in Keys : Limited(k)
  BY <1>2, LimitedKeepsInv
<1>3. CASE Tick
  <2>1. \A k \in Keys : Slice(hits[k], now + 1)
    BY LaterSlice DEF LimiterInv, Clocks, Slices
  <2>2. QED
    BY <1>3, <2>1 DEF Tick, LimiterInv, Clocks, Slices
<1>4. CASE Restart
  <2>1. Slice(NoHits, now) /\ Places(NoHits) = {} /\ Cardinality({}) = 0
    BY NoHitsIsSlice, FS_EmptySet DEF LimiterInv, Clocks
  <2>2. QED
    BY <1>4, <2>1, LimiterAssumption DEF Restart, LimiterInv, Clocks, Slices
<1>5. CASE UNCHANGED limiterVars
  BY <1>5 DEF limiterVars, LimiterInv, Clocks, Slices
<1>6. QED
  BY <1>1, <1>2, <1>3, <1>4, <1>5 DEF LimiterNext

\* The invariant holds throughout.
LEMMA LimiterInvariant == LimiterSpec => []LimiterInv
<1>1. LimiterInit => LimiterInv
  BY InitEstablishesInv
<1>2. LimiterInv /\ [LimiterNext]_limiterVars => LimiterInv'
  BY StepKeepsInv
<1>3. QED
  BY <1>1, <1>2, PTL DEF LimiterSpec

\* What newRateLimiter, allow and sweep keep in memory is of the right types.
THEOREM LimiterTypeCorrect == LimiterSpec => []LimiterTypeOK
<1>1. LimiterInv => LimiterTypeOK
  BY InvIsType
<1>2. QED
  BY <1>1, LimiterInvariant, PTL

-----------------------------------------------------------------------------
(* The limiter is the sliding window of SlidingWindow: every step maps to   *)
(* one of its steps, because what counts of a key is not changed by pruning *)
(* and sweeping.                                                            *)

\* SlidingWindow counts with a Cardinality of its own, the same by definition.
LEMMA SameCount ==
    ASSUME NEW h
    PROVE  Promise!Count(h) = Cardinality(Places(h))
BY Zenon DEF Places, Promise!Count, Promise!Cardinality, Cardinality,
             Promise!IsFiniteSet, IsFiniteSet

\* What counts of the keys after a call of k that leaves h of it.
LEMMA CallCounts ==
    ASSUME LimiterInv, NEW k \in Keys, NEW h,
           hits' = [Swept(now) EXCEPT ![k] = h], now' = now
    PROVE  recentHits' = [recentHits EXCEPT ![k] = Kept(h, now)]
<1>1. \A j \in Keys : hits'[j] = IF j = k THEN h ELSE Swept(now)[j]
  BY SweepLosesNothing
<1>2. \A j \in Keys : Kept(hits'[j], now') = IF j = k THEN Kept(h, now) ELSE Kept(hits[j], now)
  BY <1>1, SweepLosesNothing
<1>3. recentHits' = [j \in Keys |-> Kept(hits'[j], now')]
  BY DEF recentHits
<1>4. QED
  BY <1>2, <1>3 DEF recentHits

\* allow, answering yes, lets the request through the window.
LEMMA AllowedIsLetThrough ==
    ASSUME LimiterInv, NEW k \in Keys, Allowed(k)
    PROVE  Promise!LetThrough(k)
<1> DEFINE kept == Kept(Swept(now)[k], now)
<1>1. /\ HasRoom(kept) /\ told' = [told EXCEPT ![k] = None] /\ now' = now
      /\ hits' = [Swept(now) EXCEPT ![k] = Appended(kept, now)]
  BY DEF Allowed, ClocksOfACall
<1>2. /\ Slice(kept, now) /\ kept = Kept(hits[k], now)
      /\ \A n \in Places(kept) : kept[n] \in 0..now /\ kept[n] + Window > now
  BY CallerFacts
<1>3. kept = recentHits[k]
  BY <1>2 DEF recentHits
<1>4. now \in Nat
  BY DEF LimiterInv, Clocks
<1>5. recentHits' = [recentHits EXCEPT ![k] = Kept(Appended(kept, now), now)]
  BY <1>1, CallCounts
<1> HIDE DEF kept
<1> DEFINE f == Appended(kept, now)
<1>6. PICK next \in Nat : /\ next \notin Places(kept)
                         /\ Places(f) = Places(kept) \cup {next}
                         /\ f[next] = now
                         /\ \A n \in Places(kept) : n < next /\ f[n] = kept[n]
  BY <1>2, <1>4, AppendedIsSlice
<1>7. f = [n \in Places(f) |-> f[n]]
  BY DEF Appended, Places
<1> HIDE DEF f
<1>8. \A n \in Places(f) : AfterCutoff(f[n], now)
  BY <1>2, <1>4, <1>6, LimiterAssumption DEF AfterCutoff
<1>9. Kept(f, now) = f
  <2>1. {n \in Places(f) : AfterCutoff(f[n], now)} = Places(f)
    BY <1>8
  <2>2. QED
    BY <1>7, <2>1 DEF Kept
<1>10. f = Promise!Appended(kept, now)
  <2>1. Places(kept) = DOMAIN kept
    BY DEF Places
  <2>2. Promise!NextPlace(kept) = IF Places(kept) = {} THEN 1 ELSE Last(kept) + 1
    <3>1. CASE Places(kept) = {}
      BY <2>1, <3>1 DEF Promise!NextPlace
    <3>2. CASE Places(kept) # {}
      <4>1. Promise!NextPlace(kept) = 1 + Last(kept)
        BY <2>1, <3>2 DEF Promise!NextPlace, Last
      <4>2. Last(kept) \in Nat
        BY <1>2, <1>4, <3>2, Ends, SliceFacts
      <4>3. QED
        BY <3>2, <4>1, <4>2
    <3>3. QED
      BY <3>1, <3>2
  <2>3. QED
    BY <2>1, <2>2 DEF f, Appended, Promise!Appended
<1>11. Promise!Count(kept) < Max
  <2>1. Promise!Count(kept) = Cardinality(Places(kept))
    BY SameCount
  <2>2. QED
    BY <1>1, <2>1 DEF HasRoom
<1>12. QED
  BY <1>1, <1>3, <1>5, <1>9, <1>10, <1>11 DEF f, Promise!LetThrough

\* allow, answering no, changes nothing that counts, and says when to return.
LEMMA LimitedIsTurnAway ==
    ASSUME LimiterInv, NEW k \in Keys, Limited(k)
    PROVE  Promise!TurnAway(k)
<1> DEFINE kept == Kept(Swept(now)[k], now)
<1>1. /\ ~HasRoom(kept) /\ hits' = [Swept(now) EXCEPT ![k] = kept] /\ now' = now
      /\ told' = [told EXCEPT ![k] = now + Seconds(RetryAfter(kept)) * Second]
  BY DEF Limited, ClocksOfACall
<1>2. /\ kept = Kept(hits[k], now) /\ Cardinality(Places(kept)) \in 0..Max
      /\ \A n \in Places(kept) : kept[n] \in 0..now
  BY CallerFacts
<1>3. now \in Nat
  BY DEF LimiterInv, Clocks
<1>4. \A n \in Places(hits[k]) : hits[k][n] \in Nat
  BY <1>3, SliceFacts DEF LimiterInv, Slices
<1>5. kept = recentHits[k]
  BY <1>2 DEF recentHits
<1>6. Kept(kept, now) = kept
  BY <1>2, <1>3, <1>4, KeptOfKept
<1>7. recentHits' = [recentHits EXCEPT ![k] = Kept(kept, now)]
  BY <1>1, CallCounts
<1>8. recentHits' = recentHits
  BY <1>5, <1>6, <1>7 DEF recentHits
<1>9. /\ RetryAfter(kept) = kept[First(kept)] + Window - now
      /\ RetryAfter(kept) \in Nat \ {0}
  BY <1>1, WaitIsPositive
<1>10. Seconds(RetryAfter(kept)) * Second = Promise!RoundedUp(RetryAfter(kept))
  BY <1>9, AnnouncedWait DEF Promise!RoundedUp
<1> HIDE DEF kept
<1>11. Promise!Oldest(kept) = kept[First(kept)]
  BY DEF Promise!Oldest, First, Places
<1>12. Promise!Count(kept) >= Max
  <2>1. Promise!Count(kept) = Cardinality(Places(kept))
    BY SameCount
  <2>2. QED
    BY <1>1, <1>2, <2>1, LimiterAssumption DEF HasRoom
<1>13. QED
  BY <1>1, <1>5, <1>8, <1>9, <1>10, <1>11, <1>12 DEF Promise!TurnAway

\* The clock moves the window on.
LEMMA TickIsTimePasses ==
    ASSUME LimiterInv, Tick
    PROVE  Promise!TimePasses
<1>1. now \in Nat /\ now' = now + 1 /\ now < MaxTime /\ UNCHANGED <<hits, told>>
  BY DEF Tick, LimiterInv, Clocks
<1>2. ASSUME NEW k \in Keys
      PROVE  Kept(hits[k], now + 1) = Promise!Within(recentHits[k], now + 1)
  <2>1. \A n \in Places(hits[k]) : hits[k][n] \in Nat
    BY <1>1, SliceFacts DEF LimiterInv, Slices
  <2>2. Kept(Kept(hits[k], now), now + 1) = Kept(hits[k], now + 1)
    BY <1>1, <2>1, KeptOfKept
  <2>3. recentHits[k] = Kept(hits[k], now)
    BY DEF recentHits
  <2>4. Promise!Within(recentHits[k], now + 1) = Kept(recentHits[k], now + 1)
    BY DEF Promise!Within, Kept, Places, AfterCutoff
  <2>5. QED
    BY <2>2, <2>3, <2>4
<1>3. recentHits' = [k \in Keys |-> Kept(hits[k], now + 1)]
  BY <1>1 DEF recentHits
<1>4. QED
  BY <1>1, <1>2, <1>3 DEF Promise!TimePasses

\* Of no hits, none counts.
LEMMA KeptOfNoHits ==
    ASSUME NEW t \in Nat
    PROVE  Kept(NoHits, t) = Promise!Nothing
<1>1. Places(NoHits) = {}
  BY NoHitsIsSlice
<1>2. Kept(NoHits, t) = [n \in {} |-> NoHits[n]]
  BY <1>1 DEF Kept
<1>3. QED
  BY <1>2 DEF Promise!Nothing

\* Every step is a step of the window, or a stutter.
LEMMA StepIsPromised ==
    ASSUME LimiterInv, [LimiterNext]_limiterVars
    PROVE  [Promise!WindowNext]_Promise!windowVars
<1>1. CASE \E k \in Keys : Allowed(k)
  BY <1>1, AllowedIsLetThrough DEF Promise!WindowNext
<1>2. CASE \E k \in Keys : Limited(k)
  BY <1>2, LimitedIsTurnAway DEF Promise!WindowNext
<1>3. CASE Tick
  BY <1>3, TickIsTimePasses DEF Promise!WindowNext
<1>4. CASE Restart
  <2>1. now \in Nat
    BY DEF LimiterInv, Clocks
  <2>2. recentHits' = [k \in Keys |-> Promise!Nothing]
    BY <1>4, <2>1, KeptOfNoHits DEF Restart, recentHits
  <2>3. QED
    BY <1>4, <2>2 DEF Restart, Promise!StartAgain, Promise!WindowNext
<1>5. CASE UNCHANGED limiterVars
  BY <1>5 DEF limiterVars, recentHits, Promise!windowVars
<1>6. QED
  BY <1>1, <1>2, <1>3, <1>4, <1>5 DEF LimiterNext

\* allow and sweep together implement the sliding window: no hit that counts is
\* forgotten, none that is over counts, and Retry-After is what the window says.
THEOREM LimiterKeepsThePromise == LimiterSpec => KeepsThePromise
<1>1. LimiterInit => Promise!WindowInit
  <2>1. SUFFICES ASSUME LimiterInit PROVE Promise!WindowInit
    OBVIOUS
  <2>2. now = 0 /\ told = [k \in Keys |-> None] /\ hits = [k \in Keys |-> NoHits]
    BY <2>1 DEF LimiterInit
  <2>3. \A k \in Keys : Kept(hits[k], now) = Promise!Nothing
    BY <2>2, KeptOfNoHits
  <2>4. recentHits = [k \in Keys |-> Promise!Nothing]
    BY <2>3 DEF recentHits
  <2>5. QED
    BY <2>2, <2>4 DEF Promise!WindowInit
<1>2. LimiterInv /\ [LimiterNext]_limiterVars => [Promise!WindowNext]_Promise!windowVars
  BY StepIsPromised
<1>3. QED
  BY <1>1, <1>2, LimiterInvariant, PTL DEF LimiterSpec, KeepsThePromise, Promise!WindowSpec

-----------------------------------------------------------------------------
(* Keys are forgotten: the newest hit of a remembered key was within a      *)
(* window of the last sweep, and the last sweep within one of the last call. *)

Newest(h) == h[Last(h)]

ForgetInv ==
    /\ lastCall < lastSweep + Window
    /\ \A k \in Keys : Places(hits[k]) # {} => Newest(hits[k]) + Window > lastSweep

\* The clocks and the keys that do not call, after a call.
LEMMA CallKeepsOthers ==
    ASSUME LimiterInv, ForgetInv, ClocksOfACall, NEW j \in Keys
    PROVE  /\ lastCall' < lastSweep' + Window
           /\ lastSweep' <= now /\ now \in Nat /\ lastSweep' \in Nat
           /\ Places(Swept(now)[j]) # {} => Newest(Swept(now)[j]) + Window > lastSweep'
<1>1. now \in Nat /\ lastSweep \in 0..now
  BY DEF LimiterInv, Clocks
<1>2. lastSweep' = (IF SweepIsDue(now) THEN now ELSE lastSweep) /\ lastCall' = now
  BY DEF ClocksOfACall
<1>3. lastCall' < lastSweep' + Window
  BY <1>1, <1>2, LimiterAssumption DEF SweepIsDue
<1>4. CASE SweepIsDue(now)
  <2>1. Swept(now)[j] = IF IsIdle(hits[j], now) THEN NoHits ELSE hits[j]
    BY <1>4 DEF Swept
  <2>2. Places(NoHits) = {}
    BY <1>1, NoHitsIsSlice
  <2>3. ~IsIdle(hits[j], now) => Newest(hits[j]) + Window > now
    BY DEF IsIdle, AfterCutoff, Newest
  <2>4. QED
    BY <1>1, <1>2, <1>3, <1>4, <2>1, <2>2, <2>3
<1>5. CASE ~SweepIsDue(now)
  <2>1. Swept(now)[j] = hits[j] /\ lastSweep' = lastSweep
    BY <1>2, <1>5 DEF Swept
  <2>2. QED
    BY <1>1, <1>3, <2>1 DEF ForgetInv
<1>6. QED
  BY <1>4, <1>5

\* After a request let through the bounds on what is remembered hold.
LEMMA AllowedForgets ==
    ASSUME LimiterInv, ForgetInv, NEW k \in Keys, Allowed(k)
    PROVE  ForgetInv'
<1> DEFINE kept == Kept(Swept(now)[k], now)
<1>1. hits' = [Swept(now) EXCEPT ![k] = Appended(kept, now)] /\ ClocksOfACall
  BY DEF Allowed
<1>2. Slice(kept, now) /\ now \in Nat
  BY CallerFacts DEF LimiterInv, Clocks
<1>3. \A j \in Keys : hits'[j] = IF j = k THEN Appended(kept, now) ELSE Swept(now)[j]
  BY <1>1, SweepLosesNothing
<1> HIDE DEF kept
<1>4. Newest(Appended(kept, now)) = now
  <2>1. PICK next \in Nat : /\ Places(Appended(kept, now)) = Places(kept) \cup {next}
                           /\ Appended(kept, now)[next] = now
                           /\ \A n \in Places(kept) : n < next
    BY <1>2, AppendedIsSlice
  <2>2. Slice(Appended(kept, now), now)
    BY <1>2, AppendedIsSlice
  <2>3. /\ Last(Appended(kept, now)) \in Places(kept) \cup {next}
        /\ next <= Last(Appended(kept, now))
    BY <1>2, <2>1, <2>2, Ends
  <2>4. Places(kept) \subseteq Nat
    BY <1>2, SliceFacts
  <2>5. Last(Appended(kept, now)) = next
    BY <2>1, <2>3, <2>4
  <2>6. QED
    BY <2>1, <2>5 DEF Newest
<1>5. ASSUME NEW j \in Keys, Places(hits'[j]) # {}
      PROVE  Newest(hits'[j]) + Window > lastSweep'
  BY <1>1, <1>2, <1>3, <1>4, <1>5, CallKeepsOthers, LimiterAssumption
<1>6. lastCall' < lastSweep' + Window
  BY <1>1, CallKeepsOthers
<1>7. QED
  BY <1>5, <1>6 DEF ForgetInv, Newest

\* After a request turned away they hold as well.
LEMMA LimitedForgets ==
    ASSUME LimiterInv, ForgetInv, NEW k \in Keys, Limited(k)
    PROVE  ForgetInv'
<1> DEFINE kept == Kept(Swept(now)[k], now)
<1>1. hits' = [Swept(now) EXCEPT ![k] = kept] /\ ClocksOfACall
  BY DEF Limited
<1>2. /\ Slice(kept, now) /\ now \in Nat
      /\ \A n \in Places(kept) : kept[n] \in 0..now /\ kept[n] + Window > now
  BY CallerFacts DEF LimiterInv, Clocks
<1>3. \A j \in Keys : hits'[j] = IF j = k THEN kept ELSE Swept(now)[j]
  BY <1>1, SweepLosesNothing
<1> HIDE DEF kept
<1>4. Places(kept) # {} => Newest(kept) \in Nat /\ Newest(kept) + Window > now
  BY <1>2, Ends DEF Newest
<1>5. ASSUME NEW j \in Keys, Places(hits'[j]) # {}
      PROVE  Newest(hits'[j]) + Window > lastSweep'
  BY <1>1, <1>3, <1>4, <1>5, CallKeepsOthers, LimiterAssumption
<1>6. lastCall' < lastSweep' + Window
  BY <1>1, CallKeepsOthers
<1>7. QED
  BY <1>5, <1>6 DEF ForgetInv, Newest

\* Every step keeps the bounds.
LEMMA StepForgets == LimiterInv /\ ForgetInv /\ [LimiterNext]_limiterVars => ForgetInv'
<1> SUFFICES ASSUME LimiterInv, ForgetInv, [LimiterNext]_limiterVars PROVE ForgetInv'
  OBVIOUS
<1>1. CASE \E k \in Keys : Allowed(k)
  BY <1>1, AllowedForgets
<1>2. CASE \E k \in Keys : Limited(k)
  BY <1>2, LimitedForgets
<1>3. CASE Tick
  BY <1>3 DEF Tick, ForgetInv, Newest
<1>4. CASE Restart
  <2>1. Places(NoHits) = {} /\ now \in Nat
    BY NoHitsIsSlice DEF LimiterInv, Clocks
  <2>2. QED
    BY <1>4, <2>1, LimiterAssumption DEF Restart, ForgetInv
<1>5. CASE UNCHANGED limiterVars
  BY <1>5 DEF limiterVars, ForgetInv, Newest
<1>6. QED
  BY <1>1, <1>2, <1>3, <1>4, <1>5 DEF LimiterNext

\* The bounds add up to two windows.
LEMMA ForgettingIsEnough == LimiterInv /\ ForgetInv => IdleKeysAreForgotten
<1> SUFFICES ASSUME LimiterInv, ForgetInv, NEW k \in Keys, NEW n \in Places(hits[k]),
                    n = Last(hits[k])
             PROVE  hits[k][n] + 2 * Window > lastCall
  BY DEF IdleKeysAreForgotten
<1>1. hits[k][n] \in Nat
  BY SliceFacts DEF LimiterInv, Clocks, Slices
<1>2. hits[k][n] + Window > lastSweep /\ lastCall < lastSweep + Window
  BY DEF ForgetInv, Newest
<1>3. QED
  BY <1>1, <1>2, LimiterAssumption DEF LimiterInv, Clocks

\* The sweeps of allow forget every address: whenever a request has come in, each
\* one that is still remembered was let through within two windows.
THEOREM IdleKeysForgotten == LimiterSpec => []IdleKeysAreForgotten
<1>1. LimiterInit => ForgetInv
  <2>1. SUFFICES ASSUME LimiterInit PROVE ForgetInv
    OBVIOUS
  <2>2. Places(NoHits) = {}
    BY NoHitsIsSlice
  <2>3. QED
    BY <2>1, <2>2, LimiterAssumption DEF LimiterInit, ForgetInv
<1>2. LimiterInv /\ ForgetInv /\ [LimiterNext]_limiterVars => ForgetInv'
  BY StepForgets
<1>3. LimiterInv /\ ForgetInv => IdleKeysAreForgotten
  BY ForgettingIsEnough
<1>4. QED
  BY <1>1, <1>2, <1>3, LimiterInvariant, PTL DEF LimiterSpec

-----------------------------------------------------------------------------
(* Retry-After: the time told to a client is that at which one hit leaves   *)
(* the window, rounded up, and that hit is the first of as many as fill it. *)

\* At t, with the hits h counting, T is when to come back: f is the time of the
\* hit waited for.
Due(h, T, t) ==
    \E f \in Nat :
        /\ f + Window <= T /\ T < f + Window + Second
        /\ f + Window > t => ~(Cardinality(Places(h)) < Max)
        /\ \A n \in Places(h) : h[n] \in Nat /\ h[n] + Window > t /\ f <= h[n]
        /\ Cardinality({n \in Places(h) : h[n] > f}) < Max

RetryInv == \A k \in Keys : told[k] # None => Due(Kept(hits[k], now), told[k], now)

\* The time told is due when the first hit that counts has left.
LEMMA LimitedTellsWhenDue ==
    ASSUME LimiterInv, NEW k \in Keys, Limited(k)
    PROVE  Due(Kept(Swept(now)[k], now), told'[k], now)
<1> DEFINE h == Kept(Swept(now)[k], now)
           f == h[First(h)]
<1>1. ~HasRoom(h) /\ told' = [told EXCEPT ![k] = now + Seconds(RetryAfter(h)) * Second]
  BY DEF Limited
<1>2. /\ IsFiniteSet(Places(h)) /\ Cardinality(Places(h)) \in 0..Max
      /\ \A n \in Places(h) : h[n] \in 0..now /\ h[n] + Window > now
  BY CallerFacts
<1>3. /\ First(h) \in Places(h) /\ f \in 0..now
      /\ \A n \in Places(h) : f <= h[n]
      /\ RetryAfter(h) = f + Window - now /\ RetryAfter(h) \in Nat \ {0}
  BY <1>1, WaitIsPositive
<1>4. now \in Nat /\ told'[k] = now + Seconds(RetryAfter(h)) * Second
  BY <1>1 DEF LimiterInv, Clocks
<1> HIDE DEF h
<1>5. f + Window <= told'[k] /\ told'[k] < f + Window + Second
  <2>1. /\ Seconds(RetryAfter(h)) \in Nat
        /\ RetryAfter(h) <= Seconds(RetryAfter(h)) * Second
        /\ Seconds(RetryAfter(h)) * Second < RetryAfter(h) + Second
    BY <1>3, AnnouncedWait
  <2>2. Seconds(RetryAfter(h)) * Second \in Nat
    BY <2>1, LimiterAssumption
  <2>3. QED
    BY <1>3, <1>4, <2>1, <2>2, LimiterAssumption
<1>6. Cardinality({n \in Places(h) : h[n] > f}) < Max
  <2>1. {n \in Places(h) : h[n] > f} \in SUBSET (Places(h) \ {First(h)})
    BY <1>2, <1>3
  <2>2. /\ IsFiniteSet(Places(h) \ {First(h)})
        /\ Cardinality(Places(h) \ {First(h)}) = Cardinality(Places(h)) - 1
    BY <1>2, <1>3, FS_RemoveElement
  <2>3. /\ Cardinality({n \in Places(h) : h[n] > f}) <= Cardinality(Places(h)) - 1
        /\ IsFiniteSet({n \in Places(h) : h[n] > f})
    BY <2>1, <2>2, FS_Subset
  <2>4. Cardinality({n \in Places(h) : h[n] > f}) \in Nat
    BY <2>3, FS_CardinalityType
  <2>5. QED
    BY <1>2, <2>3, <2>4, LimiterAssumption
<1>7. ~(Cardinality(Places(h)) < Max)
  BY <1>1 DEF HasRoom
<1>8. f \in Nat
  BY <1>3, <1>4
<1>9. \A n \in Places(h) : h[n] \in Nat /\ h[n] + Window > now /\ f <= h[n]
  BY <1>2, <1>3, <1>4
<1> HIDE DEF f
<1>10. Due(h, told'[k], now)
  BY <1>5, <1>6, <1>7, <1>8, <1>9 DEF Due
<1>11. QED
  BY <1>10 DEF h

\* What is due stays due as time passes.
LEMMA DueLater ==
    ASSUME NEW h, NEW T \in Nat, NEW t \in Nat, IsFiniteSet(Places(h)), Due(h, T, t)
    PROVE  Due(Kept(h, t + 1), T, t + 1)
<1>1. PICK f \in Nat :
        /\ f + Window <= T /\ T < f + Window + Second
        /\ f + Window > t => ~(Cardinality(Places(h)) < Max)
        /\ \A n \in Places(h) : h[n] \in Nat /\ h[n] + Window > t /\ f <= h[n]
        /\ Cardinality({n \in Places(h) : h[n] > f}) < Max
  BY DEF Due
<1> DEFINE g == Kept(h, t + 1)
<1>2. /\ Places(g) = {n \in Places(h) : h[n] + Window > t + 1}
      /\ \A n \in Places(g) : g[n] = h[n]
  BY KeptFacts DEF AfterCutoff
<1> HIDE DEF g
<1>3. f + Window > t + 1 => ~(Cardinality(Places(g)) < Max)
  <2>1. SUFFICES ASSUME f + Window > t + 1 PROVE ~(Cardinality(Places(g)) < Max)
    OBVIOUS
  <2>2. \A n \in Places(h) : h[n] + Window > t + 1
    BY <1>1, <2>1, LimiterAssumption
  <2>3. Places(g) = Places(h)
    BY <1>2, <2>2
  <2>4. QED
    BY <1>1, <2>1, <2>3, LimiterAssumption
<1>4. \A n \in Places(g) : g[n] \in Nat /\ g[n] + Window > t + 1 /\ f <= g[n]
  BY <1>1, <1>2
<1>5. Cardinality({n \in Places(g) : g[n] > f}) < Max
  <2>1. {n \in Places(g) : g[n] > f} \in SUBSET {n \in Places(h) : h[n] > f}
    BY <1>2
  <2>2. {n \in Places(h) : h[n] > f} \in SUBSET Places(h)
    OBVIOUS
  <2>3. IsFiniteSet({n \in Places(h) : h[n] > f})
    BY <2>2, FS_Subset
  <2>4. /\ Cardinality({n \in Places(g) : g[n] > f}) <= Cardinality({n \in Places(h) : h[n] > f})
        /\ IsFiniteSet({n \in Places(g) : g[n] > f})
    BY <2>1, <2>3, FS_Subset
  <2>5. /\ Cardinality({n \in Places(g) : g[n] > f}) \in Nat
        /\ Cardinality({n \in Places(h) : h[n] > f}) \in Nat
    BY <2>3, <2>4, FS_CardinalityType
  <2>6. QED
    BY <1>1, <2>4, <2>5, LimiterAssumption
<1>6. QED
  BY <1>1, <1>3, <1>4, <1>5 DEF Due, g

\* Every step keeps what was told due.
LEMMA StepKeepsRetry ==
    LimiterInv /\ RetryInv /\ [LimiterNext]_limiterVars => RetryInv'
<1> SUFFICES ASSUME LimiterInv, RetryInv, [LimiterNext]_limiterVars,
                    NEW j \in Keys, told'[j] # None
             PROVE  Due(Kept(hits'[j], now'), told'[j], now')
  BY DEF RetryInv
<1>1. now \in Nat /\ Slice(hits[j], now) /\ (told[j] # None => told[j] \in Nat)
  BY DEF LimiterInv, Clocks, Slices
<1>2. \A n \in Places(hits[j]) : hits[j][n] \in Nat
  BY <1>1, SliceFacts
<1>3. ASSUME NEW k \in Keys, Allowed(k)
      PROVE  Due(Kept(hits'[j], now'), told'[j], now')
  <2>1. /\ hits' = [Swept(now) EXCEPT ![k] = Appended(Kept(Swept(now)[k], now), now)]
        /\ told' = [told EXCEPT ![k] = None] /\ now' = now
    BY <1>3 DEF Allowed, ClocksOfACall
  <2>2. j # k /\ told'[j] = told[j]
    BY <2>1 DEF LimiterInv
  <2>3. hits'[j] = Swept(now)[j]
    BY <2>1, <2>2, SweepLosesNothing
  <2>4. QED
    BY <2>1, <2>2, <2>3, SweepLosesNothing DEF RetryInv
<1>4. ASSUME NEW k \in Keys, Limited(k)
      PROVE  Due(Kept(hits'[j], now'), told'[j], now')
  <2> DEFINE kept == Kept(Swept(now)[k], now)
             wait == Seconds(RetryAfter(kept)) * Second
  <2>1. /\ hits' = [Swept(now) EXCEPT ![k] = kept]
        /\ told' = [told EXCEPT ![k] = now + wait] /\ now' = now
    BY <1>4 DEF Limited, ClocksOfACall
  <2> HIDE DEF wait
  <2>2. CASE j = k
    <3>1. hits'[j] = kept
      BY <2>1, <2>2, SweepLosesNothing
    <3>2. kept = Kept(hits[j], now)
      BY <2>2, CallerFacts
    <3>3. Kept(kept, now) = kept
      BY <1>1, <1>2, <3>2, KeptOfKept
    <3>4. QED
      BY <1>4, <2>1, <2>2, <3>1, <3>3, LimitedTellsWhenDue
  <2>3. CASE j # k
    <3>1. told'[j] = told[j] /\ hits'[j] = Swept(now)[j]
      BY <2>1, <2>3, SweepLosesNothing DEF LimiterInv
    <3>2. QED
      BY <2>1, <3>1, SweepLosesNothing DEF RetryInv
  <2>4. QED
    BY <2>2, <2>3
<1>5. CASE Tick
  <2>1. now' = now + 1 /\ UNCHANGED <<hits, told>>
    BY <1>5 DEF Tick
  <2>2. Due(Kept(hits[j], now), told[j], now) /\ told[j] \in Nat
    BY <1>1, <2>1 DEF RetryInv
  <2>3. IsFiniteSet(Places(Kept(hits[j], now)))
    BY <1>1, KeptIsSmaller
  <2>4. Due(Kept(Kept(hits[j], now), now + 1), told[j], now + 1)
    BY <1>1, <2>2, <2>3, DueLater
  <2>5. Kept(Kept(hits[j], now), now + 1) = Kept(hits[j], now + 1)
    BY <1>1, <1>2, KeptOfKept
  <2>6. QED
    BY <2>1, <2>4, <2>5
<1>6. CASE Restart
  BY <1>6 DEF Restart
<1>7. CASE UNCHANGED limiterVars
  BY <1>7 DEF limiterVars, RetryInv
<1>8. QED
  BY <1>3, <1>4, <1>5, <1>6, <1>7 DEF LimiterNext

\* To come back when due is to be let through, and not a second earlier.
LEMMA DueIsExact == LimiterInv /\ RetryInv => RetryAfterIsExact
<1> SUFFICES ASSUME LimiterInv, RetryInv, NEW k \in Keys, told[k] # None
             PROVE  /\ now >= told[k] => Admits(k)
                    /\ Admits(k) => told[k] < now + Second
  BY DEF RetryAfterIsExact
<1> DEFINE h == Kept(hits[k], now)
<1>1. now \in Nat /\ told[k] \in Nat
  BY DEF LimiterInv, Clocks
<1>2. PICK f \in Nat :
        /\ f + Window <= told[k] /\ told[k] < f + Window + Second
        /\ f + Window > now => ~(Cardinality(Places(h)) < Max)
        /\ \A n \in Places(h) : h[n] \in Nat /\ h[n] + Window > now /\ f <= h[n]
        /\ Cardinality({n \in Places(h) : h[n] > f}) < Max
  BY DEF RetryInv, Due
<1>3. Admits(k) <=> Cardinality(Places(h)) < Max
  BY DEF Admits
<1> HIDE DEF h
<1>4. ASSUME now >= told[k]
      PROVE  Admits(k)
  <2>1. \A n \in Places(h) : h[n] > f
    BY <1>1, <1>2, <1>4, LimiterAssumption
  <2>2. {n \in Places(h) : h[n] > f} = Places(h)
    BY <2>1
  <2>3. QED
    BY <1>2, <1>3, <2>2
<1>5. ASSUME Admits(k)
      PROVE  told[k] < now + Second
  BY <1>1, <1>2, <1>3, <1>5, LimiterAssumption
<1>6. QED
  BY <1>4, <1>5

\* rateLimit names in Retry-After the first whole second at which allow lets the
\* client through, however many others call, and are swept, before it returns.
THEOREM RetryAfterExact == LimiterSpec => []RetryAfterIsExact
<1>1. LimiterInit => RetryInv
  BY DEF LimiterInit, RetryInv
<1>2. LimiterInv /\ RetryInv /\ [LimiterNext]_limiterVars => RetryInv'
  BY StepKeepsRetry
<1>3. LimiterInv /\ RetryInv => RetryAfterIsExact
  BY DueIsExact
<1>4. QED
  BY <1>1, <1>2, <1>3, LimiterInvariant, PTL DEF LimiterSpec

=============================================================================
