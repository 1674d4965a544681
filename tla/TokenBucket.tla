--------------------------------- MODULE TokenBucket ---------------------------------
(***************************************************************************)
(* TokenBucketLimiter (apps/dashboard/lib/rate-limit.ts): one bucket per   *)
(* client key, refilled continuously, and at most MaxKeys buckets, the     *)
(* least recently seen one making room.  Tokens are counted in parts so    *)
(* that Rate of them come back in a second.                                *)
(***************************************************************************)
EXTENDS Integers, Sequences, SequencesExt

CONSTANTS
    Keys,       \* client keys
    Capacity,   \* capacity, in parts
    Cost,       \* one request's token, in parts
    Rate,       \* refillPerSecond, in parts
    MaxKeys,    \* maxKeys
    MaxTime,    \* bound: the clock
    MaxSteps    \* bound: how often the clock is set back

ASSUME BucketAssumption ==
    /\ Capacity \in Nat /\ Cost \in 1 .. Capacity /\ Rate \in Nat \ {0}
    /\ MaxKeys \in Nat \ {0} /\ MaxTime \in Nat /\ MaxSteps \in Nat

VARIABLES
    clock,      \* Date.now(), which may be set back
    elapsed,    \* seconds that really went by
    tracked,    \* buckets' keys in the map's order, oldest first
    tokens,     \* tokens[k]: parts left in k's bucket
    updated,    \* updated[k]: updatedMs
    born,       \* history: elapsed when k's bucket was made
    spent,      \* history: parts granted from it
    entitled,   \* history: entitled[k]: when k was told to come back, or 0
    recent      \* history: every key ever seen, by its last request

vars == <<clock, elapsed, tracked, tokens, updated, born, spent, entitled, recent>>

Init ==
    /\ clock = 1 /\ elapsed = 0
    /\ tracked = <<>> /\ recent = <<>>
    /\ tokens = [k \in Keys |-> 0]
    /\ updated = [k \in Keys |-> 0]
    /\ born = [k \in Keys |-> 0]
    /\ spent = [k \in Keys |-> 0]
    /\ entitled = [k \in Keys |-> 0]

Least(x, y)    == IF x <= y THEN x ELSE y
Greatest(x, y) == IF x >= y THEN x ELSE y
IsTracked(k)   == Contains(tracked, k)

\* A key moves to the end of a sequence, or joins it there.
Latest(seq, k) ==
    IF Contains(seq, k) THEN Append(RemoveAt(seq, CHOOSE i \in DOMAIN seq : seq[i] = k), k)
    ELSE Append(seq, k)

Tick ==
    /\ elapsed < MaxTime
    /\ clock' = clock + 1
    /\ elapsed' = elapsed + 1
    /\ UNCHANGED <<tracked, tokens, updated, born, spent, entitled, recent>>

\* The system clock is corrected backwards; what clients were told is void.
SetBack ==
    /\ clock > 1
    /\ elapsed - clock + 1 < MaxSteps
    /\ clock' = clock - 1
    /\ entitled' = [k \in Keys |-> 0]
    /\ UNCHANGED <<elapsed, tracked, tokens, updated, born, spent, recent>>

Refilled(k) == Least(Capacity, tokens[k] + Greatest(0, clock - updated[k]) * Rate)

\* Faulty variant: a key that comes again keeps its place in the map.
PlacedInPlace(k) ==
    IF IsTracked(k) THEN tracked
    ELSE Append(IF Len(tracked) >= MaxKeys THEN Tail(tracked) ELSE tracked, k)

\* delete and set move the key to the end of the map; a new key evicts the first.
Placed(k) ==
    IF IsTracked(k) THEN Latest(tracked, k)
    ELSE Append(IF Len(tracked) >= MaxKeys THEN Tail(tracked) ELSE tracked, k)

\* Math.max(1, Math.ceil(deficit / refillPerSecond))
Wait(level) == Greatest(1, (Cost - level + Rate - 1) \div Rate)

\* Faulty variant: the time of the last refill is not kept.
TryAcquireStale(k) ==
    LET level == IF IsTracked(k) THEN Refilled(k) ELSE Capacity IN
    /\ tracked' = Placed(k)
    /\ recent' = Latest(recent, k)
    /\ updated' = [updated EXCEPT ![k] = IF IsTracked(k) THEN @ ELSE clock]
    /\ born' = [born EXCEPT ![k] = IF IsTracked(k) THEN @ ELSE elapsed]
    /\ tokens' = [tokens EXCEPT ![k] = IF level >= Cost THEN level - Cost ELSE level]
    /\ spent' = [spent EXCEPT ![k] = (IF IsTracked(k) THEN @ ELSE 0)
                                     + (IF level >= Cost THEN Cost ELSE 0)]
    /\ entitled' = [entitled EXCEPT ![k] = IF level >= Cost THEN 0 ELSE clock + Wait(level)]
    /\ UNCHANGED <<clock, elapsed>>

\* tryAcquire(k), which has no await.
TryAcquire(k) ==
    LET level   == IF IsTracked(k) THEN Refilled(k) ELSE Capacity
        allowed == level >= Cost IN
    /\ tracked' = Placed(k)
    /\ recent' = Latest(recent, k)
    /\ updated' = [updated EXCEPT ![k] = clock]
    /\ tokens' = [tokens EXCEPT ![k] = IF allowed THEN level - Cost ELSE level]
    /\ born' = [born EXCEPT ![k] = IF IsTracked(k) THEN @ ELSE elapsed]
    /\ spent' = [spent EXCEPT ![k] = (IF IsTracked(k) THEN @ ELSE 0)
                                     + (IF allowed THEN Cost ELSE 0)]
    /\ entitled' = [entitled EXCEPT ![k] = IF allowed THEN 0 ELSE clock + Wait(level)]
    /\ UNCHANGED <<clock, elapsed>>

Next == Tick \/ SetBack \/ \E k \in Keys : TryAcquire(k)

Spec == Init /\ [][Next]_vars

(***************************************************************************)
(* Properties.                                                             *)
(***************************************************************************)

\* Type invariant; a bucket holds no debt and no more than its capacity.
TypeOK ==
    /\ clock \in Nat /\ elapsed \in Nat
    /\ tracked \in Seq(Keys) /\ recent \in Seq(Keys)
    /\ tokens \in [Keys -> 0 .. Capacity]
    /\ updated \in [Keys -> Nat]
    /\ born \in [Keys -> Nat]
    /\ spent \in [Keys -> Nat]
    /\ entitled \in [Keys -> Nat]

\* As long as a key is tracked it is granted its burst and what the time that
\* really went by refills, and no more, however the system clock is corrected.
RateHonoured ==
    \A k \in Keys : IsTracked(k) => spent[k] <= Capacity + Rate * (elapsed - born[k])

\* The map holds the keys seen last, at most MaxKeys of them: a key that keeps
\* coming is not evicted by keys that came before it did.
TrackedAreRecent ==
    /\ Len(tracked) <= MaxKeys
    /\ \E older \in 0 .. Len(recent) : tracked = SubSeq(recent, older + 1, Len(recent))

\* Retry-After is honest: a client that comes back no sooner than it was told
\* and sent nothing in between is let in, evicted or not.
RetryAfterHonest ==
    \A k \in Keys :
        entitled[k] # 0 /\ clock >= entitled[k] /\ clock' = clock /\ entitled'[k] # entitled[k]
        => entitled'[k] = 0

\* Who is refused is let in when it was told, and nobody is forgotten too soon.
LimiterHonest == [][TypeOK' /\ TrackedAreRecent' /\ RetryAfterHonest]_vars

================================================================================
