---------------------------- MODULE RateLimiter ----------------------------
(***************************************************************************)
(* enforce_rate_limit and SlidingWindowRateLimiter (app/api/deps.py): the  *)
(* sliding window each process keeps per identity.  The dependency is a    *)
(* coroutine that does not await, so a check is one step.                  *)
(*                                                                         *)
(* Time is counted in ticks, several to a second, because the code rounds  *)
(* the waiting time it advertises down to whole seconds.                   *)
(***************************************************************************)
EXTENDS Integers, Sequences

CONSTANTS
    Identity,        \* API keys, or client hosts
    Limit,           \* rate_limit_per_minute
    WindowSeconds,   \* 60 in the code
    TicksPerSecond,
    MaxTime          \* bound: ticks considered

ASSUME LimiterAssumption ==
    /\ Limit \in Nat \ {0}      \* zero or less turns the limiter off
    /\ WindowSeconds \in Nat \ {0}
    /\ TicksPerSecond \in Nat \ {0}
    /\ MaxTime \in Nat

VARIABLES
    now,             \* time.monotonic()
    hits,            \* _hits: admission times still held, per identity
    admitted,        \* history: all admission times
    promise          \* history: until when the last rejected caller was told to wait

limiterVars == <<now, hits, admitted, promise>>

WindowTicks == WindowSeconds * TicksPerSecond
None == -1           \* no promise outstanding

(* Mutant: the loop also drops what is exactly as old as the cutoff. *)
UnexpiredStrict(bucket, cutoff) ==
    LET n == CHOOSE k \in 0 .. Len(bucket) :
                /\ \A j \in 1 .. k : bucket[j] <= cutoff
                /\ k < Len(bucket) => bucket[k + 1] > cutoff
    IN  SubSeq(bucket, n + 1, Len(bucket))

(* The popleft loop: drop from the front while older than the cutoff. *)
Unexpired(bucket, cutoff) ==
    LET n == CHOOSE k \in 0 .. Len(bucket) :
                /\ \A j \in 1 .. k : bucket[j] < cutoff
                /\ k < Len(bucket) => bucket[k + 1] >= cutoff
    IN  SubSeq(bucket, n + 1, Len(bucket))

(* Mutant: the age of the oldest admission instead of what it has left. *)
RetryAfterAge(bucket) ==
    LET seconds == (now - bucket[1]) \div TicksPerSecond
    IN  IF seconds < 1 THEN 1 ELSE seconds

(* Seconds, rounded down: max(1, int(60 - (now - bucket[0]))) *)
RetryAfter(bucket) ==
    LET seconds == (WindowTicks - (now - bucket[1])) \div TicksPerSecond
    IN  IF seconds < 1 THEN 1 ELSE seconds

LimiterInit ==
    /\ now = 0
    /\ hits = [i \in Identity |-> <<>>]
    /\ admitted = [i \in Identity |-> <<>>]
    /\ promise = [i \in Identity |-> None]

Admit(i) ==
    LET bucket == Unexpired(hits[i], now - WindowTicks)
    IN  /\ Len(bucket) < Limit
        /\ hits' = [hits EXCEPT ![i] = Append(bucket, now)]
        /\ admitted' = [admitted EXCEPT ![i] = Append(@, now)]
        /\ promise' = [promise EXCEPT ![i] = None]
        /\ UNCHANGED now

Reject(i) ==
    LET bucket == Unexpired(hits[i], now - WindowTicks)
    IN  /\ Len(bucket) >= Limit
        /\ hits' = [hits EXCEPT ![i] = bucket]
        /\ promise' = [promise EXCEPT ![i] = now + RetryAfter(bucket) * TicksPerSecond]
        /\ UNCHANGED <<now, admitted>>

Tick ==
    /\ now < MaxTime
    /\ now' = now + 1
    /\ UNCHANGED <<hits, admitted, promise>>

LimiterNext ==
    \/ \E i \in Identity : Admit(i) \/ Reject(i)
    \/ Tick

LimiterSpec == LimiterInit /\ [][LimiterNext]_limiterVars
-----------------------------------------------------------------------------
LimiterTypeOK ==
    /\ now \in Nat
    /\ hits \in [Identity -> Seq(Nat)]
    /\ admitted \in [Identity -> Seq(Nat)]
    /\ promise \in [Identity -> Int]

(* However requests arrive and buckets are pruned, no window of sixty      *)
(* seconds, wherever it starts, holds more than Limit admissions of one    *)
(* identity: the Limit-th admission before any other is over a window old. *)
NeverOverLimit ==
    \A i \in Identity : \A k \in 1 .. Len(admitted[i]) :
        k + Limit <= Len(admitted[i]) =>
            admitted[i][k + Limit] - admitted[i][k] > WindowTicks

(* A caller that was told to wait and does so, without a success since, is *)
(* let in from one second after the advertised time: the time is rounded   *)
(* down, and an admission exactly a window old still counts.               *)
WaitingHelps ==
    \A i \in Identity :
        (promise[i] # None /\ now >= promise[i] + TicksPerSecond) =>
            Len(Unexpired(hits[i], now - WindowTicks)) < Limit
=============================================================================
