------------------------------- MODULE Limiter -------------------------------
(***************************************************************************)
(* The token buckets of internal/ratelimit, as operators on bucket maps:   *)
(* the in-memory Limiter (limiter.go) and the two Lua scripts that decide  *)
(* the same buckets in Redis (redis.go).                                   *)
(*                                                                         *)
(* A bucket refills burst units a minute, so with a minute of Minute ticks *)
(* a limit of n per minute is n \div Minute units a tick.  Units are whole *)
(* here; every limit is a multiple of Minute, so no refill rounds.  A      *)
(* decision is 0 when the request is admitted, else the position of the    *)
(* first requirement that failed (the code counts from 0 and says -1).     *)
(***************************************************************************)
EXTENDS Integers, Sequences, FiniteSets, SequencesExt

CONSTANTS
    Keys,       \* the bucket keys, such as an organisation's "rpm"
    Minute,     \* ticks of the clock in a minute
    BucketIdle, \* ticks after which Sweep forgets an untouched bucket
    NoBucket    \* a key without a bucket

ASSUME MinuteAssumption == Minute \in Nat \ {0}
ASSUME IdleAssumption == BucketIdle \in Nat

Requirements == [key : Keys, perMinute : Nat, take : BOOLEAN]

\* rate: a per-minute limit as units a tick, and the most a bucket holds.
PerTick(perMinute) == perMinute \div Minute
Burst(perMinute) == perMinute

AtMost(x, y) == IF x < y THEN x ELSE y

\* holds: a Take needs a whole unit, a token limit any credit at all.
Holds(take, tokens) == IF take THEN tokens >= 1 ELSE tokens > 0

Limited(reqs) == {i \in DOMAIN reqs : reqs[i].perMinute > 0}

-----------------------------------------------------------------------------
(* The in-memory Limiter.                                                  *)

Buckets == [tokens : Int, perMinute : Nat, last : Int, lastSeen : Int]

\* refill: an earlier clock refills nothing and leaves last where it was.
Refill(b, now) ==
    IF now > b.last
    THEN [b EXCEPT !.tokens = AtMost(Burst(b.perMinute),
                                     b.tokens + (now - b.last) * PerTick(b.perMinute)),
                   !.last = now, !.lastSeen = now]
    ELSE [b EXCEPT !.lastSeen = now]

\* get: a new bucket is full; a changed rate caps what is there at the new
\* burst before it refills.
Get(b, perMinute, now) ==
    IF b = NoBucket
    THEN [tokens |-> Burst(perMinute), perMinute |-> perMinute, last |-> now, lastSeen |-> now]
    ELSE Refill([b EXCEPT !.perMinute = perMinute,
                          !.tokens = IF b.perMinute # perMinute
                                     THEN AtMost(b.tokens, Burst(perMinute)) ELSE b.tokens],
                now)

\* The first loop of Admit: every limited requirement in order, until one fails.
AdmitCheck(bs, reqs, now) ==
    FoldLeft(LAMBDA acc, i :
                 IF acc.failed # 0 \/ reqs[i].perMinute = 0 THEN acc
                 ELSE LET b == Get(acc.buckets[reqs[i].key], reqs[i].perMinute, now)
                      IN  [buckets |-> [acc.buckets EXCEPT ![reqs[i].key] = b],
                           failed  |-> IF Holds(reqs[i].take, b.tokens) THEN 0 ELSE i],
             [buckets |-> bs, failed |-> 0],
             [i \in 1..Len(reqs) |-> i])

\* Limiter.ChargeAll: a bucket may go negative.
ChargeAllLocal(bs, reqs, n, now) ==
    FoldLeft(LAMBDA acc, req :
                 IF n = 0 \/ req.perMinute = 0 THEN acc
                 ELSE LET b == Get(acc[req.key], req.perMinute, now)
                      IN  [acc EXCEPT ![req.key] = [b EXCEPT !.tokens = @ - n]],
             bs, reqs)

\* Limiter.Admit: the units of the Take requirements are taken only when every
\* requirement held, all under one lock.
AdmitLocal(bs, reqs, now) ==
    LET checked == AdmitCheck(bs, reqs, now)
        takes   == SelectSeq(reqs, LAMBDA req : req.take)
    IN  IF checked.failed # 0 THEN checked
        ELSE [checked EXCEPT !.buckets = ChargeAllLocal(@, takes, 1, now)]

\* Limiter.Sweep.
SweepLocal(bs, now) ==
    [k \in Keys |-> IF bs[k] # NoBucket /\ now - bs[k].lastSeen > BucketIdle
                    THEN NoBucket ELSE bs[k]]

-----------------------------------------------------------------------------
(* The scripts.  A bucket in Redis is a hash with the tokens, the time they *)
(* are of, and Redis's own expiry.                                          *)

Hashes == [t : Int, ts : Int, expires : Int]

\* PEXPIRE, at Redis time at: the time a full refill takes, and a minute.
Expires(at) == at + 2 * Minute

\* The time of the last call, even if it is earlier.
ScriptRefillBack(h, perMinute, now) ==
    IF h = NoBucket THEN [t |-> Burst(perMinute), ts |-> now]
    ELSE [t  |-> h.t + (IF now > h.ts THEN (now - h.ts) * PerTick(perMinute) ELSE 0), ts |-> now]

\* The refill function of both scripts: uncapped, and the stored time never
\* moves back.
ScriptRefill(h, perMinute, now) ==
    IF h = NoBucket THEN [t |-> Burst(perMinute), ts |-> now]
    ELSE [t  |-> h.t + (IF now > h.ts THEN (now - h.ts) * PerTick(perMinute) ELSE 0),
          ts |-> IF now > h.ts THEN now ELSE h.ts]

Least(S) == CHOOSE x \in S : \A y \in S : x <= y

\* A script that forgets to cap what dripped in at the burst.
ScriptLevelUncapped(hs, reqs, i, now) ==
    ScriptRefill(hs[reqs[i].key], reqs[i].perMinute, now).t

\* The level admitSource decides requirement i by: the bucket is read and
\* refilled once, by the first requirement that names it, and capped by the
\* burst of each one up to i.
ScriptLevel(hs, reqs, i, now) ==
    LET same  == {j \in Limited(reqs) : reqs[j].key = reqs[i].key}
        first == Least(same)
    IN  Least({ScriptRefill(hs[reqs[i].key], reqs[first].perMinute, now).t}
              \cup {Burst(reqs[j].perMinute) : j \in {j \in same : j <= i}})

\* admitSource, at Redis time at: every bucket named is written and its expiry
\* renewed, whether the request is admitted or not.  The index that comes back
\* is the position of the requirement again, as Admit maps it.
AdmitScript(hs, reqs, now, at) ==
    LET lim    == Limited(reqs)
        failed == {i \in lim : ~Holds(reqs[i].take, ScriptLevel(hs, reqs, i, now))}
        named(k) == {i \in lim : reqs[i].key = k}
        units(k) == IF failed = {} THEN Cardinality({i \in named(k) : reqs[i].take}) ELSE 0
        last(k)  == CHOOSE i \in named(k) : \A j \in named(k) : j <= i
        write(k) == [t  |-> ScriptLevel(hs, reqs, last(k), now) - units(k),
                     ts |-> ScriptRefill(hs[k], reqs[Least(named(k))].perMinute, now).ts,
                     expires |-> Expires(at)]
    IN  [failed  |-> IF failed = {} THEN 0 ELSE Least(failed),
         buckets |-> [k \in Keys |-> IF named(k) = {} THEN hs[k] ELSE write(k)]]

\* chargeSource, at Redis time at, for the amounts n[k] of the keys in ks with
\* the limits perMinute[k].
ChargeScript(hs, ks, n, perMinute, now, at) ==
    [k \in Keys |->
        IF k \notin ks THEN hs[k]
        ELSE LET r == ScriptRefill(hs[k], perMinute[k], now)
             IN  [t |-> AtMost(r.t, Burst(perMinute[k])) - n[k], ts |-> r.ts,
                  expires |-> Expires(at)]]

\* Redis forgets a hash once its expiry has passed.
ExpireHashes(hs, at) ==
    [k \in Keys |-> IF hs[k] # NoBucket /\ hs[k].expires <= at THEN NoBucket ELSE hs[k]]

-----------------------------------------------------------------------------
(* What a bucket holds as of now, were it asked.                           *)

LocalLevel(b, perMinute, now) == Get(b, perMinute, now).tokens

HashLevel(h, perMinute, now) ==
    AtMost(ScriptRefill(h, perMinute, now).t, Burst(perMinute))
==============================================================================
