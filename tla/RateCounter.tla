---------------------------- MODULE RateCounter ----------------------------
(***************************************************************************)
(* Requests per minute (stats/RateCounter.ts): a ring of one bucket per    *)
(* second of a sliding window.  Buckets are never cleared by time; one is  *)
(* taken over when its index comes round again and a hit arrives.          *)
(*                                                                         *)
(* The clock is Date.now() in seconds.  It jumps ahead by any amount (the  *)
(* counter is idle, or the host sleeps).  That it is never set back is     *)
(* assumed: Date.now() follows the host's clock, which may be, and then    *)
(* buckets of seconds that are to come again count as if within the window.*)
(***************************************************************************)
EXTENDS Integers, Functions

CONSTANTS
    Window,     \* windowSeconds
    By,         \* how many events a hit stands for
    MaxSecond,  \* bound on the clock
    MaxHits     \* bound on the events of one second

ASSUME RateAssumption ==
    /\ Window \in Nat \ {0}
    /\ By \subseteq Nat
    /\ MaxSecond \in Nat /\ MaxHits \in Nat

VARIABLES
    now,      \* the current second
    buckets,  \* index -> events counted
    seconds,  \* index -> the second they belong to, -1 at first
    hits      \* history: second -> events that happened in it

rateVars == <<now, buckets, seconds, hits>>

Index == 0 .. Window - 1
Second == 0 .. MaxSecond

RateInit ==
    /\ now \in Second
    /\ buckets = [i \in Index |-> 0]
    /\ seconds = [i \in Index |-> -1]
    /\ hits    = [t \in Second |-> 0]

\* Mutant: a bucket whose turn comes again keeps its old count.
BucketAfterCarried(i, by) == buckets[i] + by

BucketAfter(i, by) == IF seconds[i] # now THEN by ELSE buckets[i] + by

hit(by) ==
    LET i == now % Window
    IN  /\ hits[now] + by <= MaxHits
        /\ buckets' = [buckets EXCEPT ![i] = BucketAfter(i, by)]
        /\ seconds' = [seconds EXCEPT ![i] = now]
        /\ hits' = [hits EXCEPT ![now] = @ + by]
        /\ UNCHANGED now

Tick ==
    /\ \E t \in Second : t > now /\ now' = t
    /\ UNCHANGED <<buckets, seconds, hits>>

RateNext == Tick \/ \E by \in By : hit(by)

RateSpec == RateInit /\ [][RateNext]_rateVars

\* Mutant: a window of one second too many.
oldestBefore == now - Window

oldest == now - Window + 1

\* Number of events within the window.
count == FoldFunctionOnSet(+, 0, buckets, {i \in Index : seconds[i] >= oldest})

-----------------------------------------------------------------------------
(* Properties *)

\* The last Window seconds, this one included.
InWindow(t) == now - Window < t /\ t <= now

\* Type invariant of the ring; no bucket holds more than one second's events.
RateTypeOK ==
    /\ now \in Second
    /\ buckets \in [Index -> 0 .. MaxHits]
    /\ seconds \in [Index -> Second \cup {-1}]
    /\ hits \in [Second -> 0 .. MaxHits]

\* The number shown is that of the events of the last Window seconds, however
\* the clock jumps and wherever in the ring the window begins.
CountIsWindow ==
    count = FoldFunctionOnSet(+, 0, hits, {t \in Second : InWindow(t)})

\* The buckets that are counted hold exactly the seconds of the window that had
\* events: each such second stands in its own bucket with all its events, and
\* a bucket that is counted holds one of them, or nothing.
BucketsAreWindow ==
    /\ \A t \in Second : InWindow(t) /\ hits[t] > 0 =>
          seconds[t % Window] = t /\ buckets[t % Window] = hits[t]
    /\ \A i \in Index : seconds[i] >= oldest /\ buckets[i] > 0 =>
          InWindow(seconds[i]) /\ seconds[i] % Window = i /\ hits[seconds[i]] = buckets[i]
=============================================================================
