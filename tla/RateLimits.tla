----------------------------- MODULE RateLimits -----------------------------
(***************************************************************************)
(* The limiter in front of the API and of chat turns, for one client       *)
(* address: middleware/rate_limiter_redis.py and the TokenBucket it falls  *)
(* back to.  Every process reads its clock, then asks one Lua script in    *)
(* Redis, which prunes, counts and admits in one step; an answer that does *)
(* not arrive within a quarter of a second is an error although the script *)
(* may have run, and any error sends the request to the bucket its own     *)
(* process keeps.  Two requests of one address are taken to read different *)
(* clock values (the set's member is the float the clock returned).        *)
(***************************************************************************)
EXTENDS Integers, FiniteSetsExt

CONSTANTS
    Processes,   \* API processes behind one address of a client
    RequestLimit,       \* requests per window
    WindowTicks,      \* the window in ticks
    MaxTime,     \* bound: the clock
    MaxAsked     \* bound: requests

ASSUME LimiterAssumption ==
    /\ RequestLimit \in Nat \ {0} /\ WindowTicks \in Nat \ {0} /\ MaxTime \in Nat /\ MaxAsked \in Nat
    /\ IsFiniteSet(Processes)

VARIABLES
    clock,     \* time.time(), in ticks
    reachable, \* whether Redis answers at all
    slots,     \* the sorted set: members per score
    buckets,   \* process -> its fallback bucket [level, filled], or none
    asking,    \* process -> the request it is checking
    asked,     \* requests per stamp (history)
    admitted,  \* process -> requests its bucket let through, per tick (history)
    unearned   \* refusals without cause (history)

limiterVars == <<clock, reachable, slots, buckets, asking, asked, admitted, unearned>>

Shared == "shared"
NoBucket == [level |-> -1, filled |-> 0]
NotChecking == [step |-> "idle", stamp |-> 0]
Full == RequestLimit * WindowTicks          \* a token is WindowTicks units, a tick refills RequestLimit
Times == 0..MaxTime
Empty == [t \in Times |-> 0]

\* Running totals: Sums(counts)[n] is what was counted before tick n.
Sums(counts) ==
    LET sum[n \in 0..(MaxTime + 1)] == IF n = 0 THEN 0 ELSE sum[n - 1] + counts[n - 1]
    IN  sum
Floor(tick) == IF tick < 0 THEN 0 ELSE tick
Total(counts, from, to) == Sums(counts)[to + 1] - Sums(counts)[Floor(from)]

LimiterTypeOK ==
    /\ clock \in Times /\ reachable \in BOOLEAN /\ unearned \subseteq {Shared, "fallback"}
    /\ slots \in [Times -> 0..MaxAsked] /\ asked \in [Times -> 0..MaxAsked]
    /\ buckets \in [Processes -> [level : -1..(Full + MaxTime * RequestLimit), filled : Times]]
    /\ asking \in [Processes -> [step : {"idle", "sent"}, stamp : Times]]
    /\ admitted \in [Processes -> [Times -> 0..MaxAsked]]

LimiterInit ==
    /\ clock = 0 /\ reachable = TRUE /\ slots = Empty /\ asked = Empty /\ unearned = {}
    /\ admitted = [p \in Processes |-> Empty]
    /\ buckets = [p \in Processes |-> NoBucket]
    /\ asking = [p \in Processes |-> NotChecking]

\* A refusal needs RequestLimit other requests of the address in the window before
\* it, give or take the tick a call may last.
Earned(p) == Total(asked, asking[p].stamp - WindowTicks, MaxTime) > RequestLimit
Answered(p) == asking' = [asking EXCEPT ![p] = NotChecking]

-----------------------------------------------------------------------------
\* check reads the clock before it reaches Redis.
Check(p) ==
    /\ asking[p].step = "idle" /\ Total(asked, 0, MaxTime) < MaxAsked
    /\ asking' = [asking EXCEPT ![p] = [step |-> "sent", stamp |-> clock]]
    /\ asked' = [asked EXCEPT ![clock] = @ + 1]
    /\ UNCHANGED <<clock, reachable, slots, buckets, admitted, unearned>>

\* Mutant: expired entries stay until the key does.
KeepsAll(stamp) == slots

Pruned(stamp) == [t \in Times |-> IF t > stamp - WindowTicks THEN slots[t] ELSE 0]

\* The set after the script: an admitted request is entered, a refused one is not.
Entered(left, stamp) ==
    IF Total(left, 0, MaxTime) < RequestLimit THEN [left EXCEPT ![stamp] = @ + 1] ELSE left

\* Mutant: a bucket is not capped at its capacity.
Overflowing(b) == b.level + (clock - b.filled) * RequestLimit

\* TokenBucket._refill.
Refilled(b) ==
    LET level == b.level + (clock - b.filled) * RequestLimit IN IF level > Full THEN Full ELSE level

\* Mutant: every check starts with a fresh bucket.
FreshBucket(p) == Full

Level(p) == IF buckets[p] = NoBucket THEN Full ELSE Refilled(buckets[p])

\* _fallback_check: the bucket of this process, made when it is first needed.
FallBack(p) ==
    LET level == Level(p)
    IN  \/ /\ level >= WindowTicks
           /\ buckets' = [buckets EXCEPT ![p] = [level |-> level - WindowTicks, filled |-> clock]]
           /\ admitted' = [admitted EXCEPT ![p][clock] = @ + 1]
           /\ UNCHANGED unearned
        \/ /\ level < WindowTicks
           /\ buckets' = [buckets EXCEPT ![p] = [level |-> level, filled |-> clock]]
           /\ unearned' = unearned \cup (IF Earned(p) THEN {} ELSE {"fallback"})
           /\ UNCHANGED admitted

\* _redis_sliding_window: the script runs; its answer arrives or times out.
Evaluate(p) ==
    /\ asking[p].step = "sent" /\ reachable
    /\ LET left == Pruned(asking[p].stamp)
       IN  /\ slots' = Entered(left, asking[p].stamp)
           /\ \/ /\ unearned' = unearned \cup
                      (IF Total(left, 0, MaxTime) < RequestLimit \/ Earned(p) THEN {} ELSE {Shared})
                 /\ UNCHANGED <<buckets, admitted>>
              \/ FallBack(p)
    /\ Answered(p)
    /\ UNCHANGED <<clock, reachable, asked>>

\* The call fails or times out before the script ran.
NoAnswer(p) ==
    /\ asking[p].step = "sent"
    /\ FallBack(p) /\ Answered(p)
    /\ UNCHANGED <<clock, reachable, slots, asked>>

-----------------------------------------------------------------------------
\* Redis comes and goes, with or without its data; a process restarts.

Outage ==
    /\ reachable' = ~reachable
    /\ UNCHANGED <<clock, slots, buckets, asking, asked, admitted, unearned>>

Forget ==
    /\ ~reachable /\ slots # Empty /\ slots' = Empty
    /\ UNCHANGED <<clock, reachable, buckets, asking, asked, admitted, unearned>>

\* The quarter of a second is less than a tick, so a call spans two at most;
\* a key nobody added to for a whole window expires.
Pass ==
    /\ clock < MaxTime
    /\ \A p \in Processes : asking[p].step = "sent" => asking[p].stamp = clock
    /\ clock' = clock + 1
    /\ slots' = IF \A t \in Times : slots[t] > 0 => t + WindowTicks <= clock THEN Empty ELSE slots
    /\ UNCHANGED <<reachable, buckets, asking, asked, admitted, unearned>>

LimiterNext ==
    \/ \E p \in Processes : Check(p) \/ Evaluate(p) \/ NoAnswer(p)
    \/ Outage \/ Forget \/ Pass

LimiterSpec == LimiterInit /\ [][LimiterNext]_limiterVars

-----------------------------------------------------------------------------
\* Whoever is refused did ask RequestLimit times before within the window, by the
\* shared count or by the bucket of one process, whatever was lost, timed
\* out or answered twice in between (rate_limiter_redis.py check).
RefusalIsEarned == unearned = {}

\* One outage multiplies the limit by the processes and no more: in any
\* window a single bucket lets through at most its burst and its refill
\* (rate_limiter.py TokenBucket).
BucketsAreBounded ==
    \A p \in Processes, t \in Times :
        Total(admitted[p], t - WindowTicks + 1, t) < 2 * RequestLimit

LimitsAreFair == RefusalIsEarned /\ BucketsAreBounded
=============================================================================
