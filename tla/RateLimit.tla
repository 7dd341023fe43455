----------------------------- MODULE RateLimit -----------------------------
(***************************************************************************)
(* The token buckets in front of the sockets (server/src/ratelimit.ts):    *)
(* per-address join limiting, with buckets created on first use and        *)
(* dropped again when the map is large.  Time is a clock of ticks; tokens  *)
(* are counted in units of 1/TokenUnits, so that a refill is exact.        *)
(***************************************************************************)
EXTENDS Naturals, FiniteSets, Sequences

CONSTANTS
    Address,
    Capacity,     \* burst, in tokens
    TokenUnits,   \* units in a token
    RefillUnits,  \* units added per tick
    MaxBuckets,   \* the 10 000 of KeyedRateLimiter.allow
    MaxTick       \* bound on the clock

ASSUME RateAssumption ==
    /\ Capacity \in Nat \ {0} /\ TokenUnits \in Nat \ {0}
    /\ RefillUnits \in Nat /\ MaxBuckets \in Nat /\ MaxTick \in Nat

VARIABLES
    clock,
    buckets,   \* Map of address to [tokens, at]
    grants     \* times at which an address was let in

rateVars == <<clock, buckets, grants>>

Full == Capacity * TokenUnits

RateInit ==
    /\ clock = 0
    /\ buckets = <<>>
    /\ grants = [a \in Address |-> <<>>]

\* refill: elapsed time turns into tokens, never above the capacity.
\* Mutant: the cap is missing.
refillUncapped(b) ==
    [tokens |-> b.tokens + (clock - b.at) * RefillUnits, at |-> clock]
refill(b) ==
    LET t == b.tokens + (clock - b.at) * RefillUnits IN
    [tokens |-> IF t > Full THEN Full ELSE t, at |-> clock]

\* prune forgets full buckets; looking refills the others.
\* Mutant: a bucket that could grant is forgotten.
isFullEnough(b) == refill(b).tokens >= TokenUnits
isFull(b) == refill(b).tokens >= Full
prune(m) == [a \in {x \in DOMAIN m : ~isFull(m[x])} |-> refill(m[a])]

allow(a) ==
    LET known == IF a \in DOMAIN buckets THEN buckets
                 ELSE IF Cardinality(DOMAIN buckets) >= MaxBuckets THEN prune(buckets)
                 ELSE buckets
        b == IF a \in DOMAIN known THEN refill(known[a])
             ELSE [tokens |-> Full, at |-> clock]
        ok == b.tokens >= TokenUnits
        left == IF ok THEN [b EXCEPT !.tokens = @ - TokenUnits] ELSE b
    IN
    /\ buckets' = [x \in DOMAIN known \cup {a} |-> IF x = a THEN left ELSE known[x]]
    /\ grants' = IF ok THEN [grants EXCEPT ![a] = Append(@, clock)] ELSE grants
    /\ UNCHANGED clock

Tick ==
    /\ clock < MaxTick
    /\ clock' = clock + 1
    /\ UNCHANGED <<buckets, grants>>

RateNext == Tick \/ \E a \in Address : allow(a)

RateSpec == RateInit /\ [][RateNext]_rateVars

\* Whatever was pruned in between, an address is never let in more often, in
\* any stretch of time, than a full bucket and the refill of that time allow.
RateHeld ==
    \A a \in Address : \A i, j \in DOMAIN grants[a] :
        i <= j => (j - i + 1) * TokenUnits <=
                      Full + (grants[a][j] - grants[a][i]) * RefillUnits
=============================================================================
