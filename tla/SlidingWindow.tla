---------------------------- MODULE SlidingWindow ----------------------------
(***************************************************************************)
(* What a rate limit promises: of the requests of one key, at most Max are  *)
(* let through within any Window.  Nothing is said of how it is kept.       *)
(***************************************************************************)
EXTENDS Naturals, FiniteSets

CONSTANTS
    Keys,            \* the clients that are told apart
    Max,             \* requests of one key within one window
    Window,          \* length of the window, in ticks
    Second,          \* ticks in a second, the unit of Retry-After
    MaxTime,         \* bound: the clock stops here
    None

VARIABLES
    now,             \* the clock, in ticks
    recent,          \* recent[k]: the times of the requests of k let through
                     \* within the window that ends now, numbered in order
    told             \* told[k]: when k was last told to come back, or None

windowVars == <<now, recent, told>>

\* The part of the numbered times f that a window ending at t still holds.
Within(f, t) == LET live == {n \in DOMAIN f : f[n] + Window > t}
                IN [n \in live |-> f[n]]

Nothing == [n \in {} |-> 0]

Count(f) == Cardinality(DOMAIN f)
Oldest(f) == f[CHOOSE n \in DOMAIN f : \A m \in DOMAIN f : n <= m]
NextPlace(f) ==
    IF DOMAIN f = {} THEN 1
    ELSE 1 + CHOOSE n \in DOMAIN f : \A m \in DOMAIN f : m <= n
Appended(f, t) == [n \in DOMAIN f \cup {NextPlace(f)} |-> IF n \in DOMAIN f THEN f[n] ELSE t]

\* A wait is announced in whole seconds, never shorter than it is.
RoundedUp(wait) == ((wait + Second - 1) \div Second) * Second

LetThrough(k) ==
    /\ Count(recent[k]) < Max
    /\ recent' = [recent EXCEPT ![k] = Appended(@, now)]
    /\ told' = [told EXCEPT ![k] = None]
    /\ UNCHANGED now

TurnAway(k) ==
    /\ Count(recent[k]) >= Max
    /\ told' = [told EXCEPT ![k] = now + RoundedUp(Oldest(recent[k]) + Window - now)]
    /\ UNCHANGED <<now, recent>>

TimePasses ==
    /\ now < MaxTime
    /\ now' = now + 1
    /\ recent' = [k \in Keys |-> Within(recent[k], now + 1)]
    /\ UNCHANGED told

\* What was counted is gone with the process.
StartAgain ==
    /\ recent' = [k \in Keys |-> Nothing]
    /\ told' = [k \in Keys |-> None]
    /\ UNCHANGED now

WindowInit ==
    /\ now = 0
    /\ recent = [k \in Keys |-> Nothing]
    /\ told = [k \in Keys |-> None]

WindowNext ==
    \/ \E k \in Keys : LetThrough(k) \/ TurnAway(k)
    \/ TimePasses
    \/ StartAgain

WindowSpec == WindowInit /\ [][WindowNext]_windowVars

=============================================================================
