------------------------------ MODULE RateLimit ------------------------------
(***************************************************************************)
(* The rate limiter of several replicas that share their buckets through   *)
(* Redis (internal/ratelimit/redis.go), over the bucket operators of       *)
(* Limiter.  A round trip is not one step: the script may run, run again   *)
(* when the client library sends it once more, or run after the replica    *)
(* gave up on it, and its answer may be lost.  A replica that gets no      *)
(* answer decides with its own buckets and rests before it asks Redis      *)
(* again.  The tokens of answered requests are held and flushed in batches.*)
(***************************************************************************)
EXTENDS Limiter

CONSTANTS
    Replicas,
    Requests,
    Reqs,          \* the requirements of a request, as checkRates lists them
    Amounts,       \* the tokens a request may turn out to have used
    Redis,         \* the place the shared buckets are in
    NoReplica,
    RestFor,       \* ticks a replica decides locally after Redis failed
    MaxChargeKeys, \* the most buckets one charge script takes
    MaxTries,      \* how often the client library sends one script
    Stopping,      \* the replicas that are shut down in this instance
    MaxClock       \* bound on the clock

ASSUME RateLimitAssumption ==
    /\ Reqs \in Seq(Requirements)
    /\ \A i, j \in DOMAIN Reqs : Reqs[i].key = Reqs[j].key => i = j
    /\ Keys = {Reqs[i].key : i \in DOMAIN Reqs}
    /\ Redis \notin Replicas /\ NoReplica \notin Replicas
    /\ Stopping \subseteq Replicas
    /\ RestFor \in Nat /\ MaxChargeKeys \in Nat \ {0} /\ MaxTries \in Nat \ {0}

Places == Replicas \cup {Redis}
Req(k) == Reqs[CHOOSE i \in DOMAIN Reqs : Reqs[i].key = k]
Limit == [k \in Keys |-> Req(k).perMinute]
TokenKeys == {k \in Keys : ~Req(k).take /\ Limit[k] > 0}
Nothing == [k \in Keys |-> 0]

VARIABLES
    clock,
    hashes,   \* the buckets in Redis
    local,    \* the buckets of each replica's Limiter
    resting,  \* when each replica tries Redis again
    req,      \* the requests
    owed,     \* the charges each replica holds until its next flush
    flush,    \* the loop that sends them, one on each replica
    late,     \* scripts a replica gave up on before they ran
    left,     \* whether requests were still running when Run was stopped
    \* History, which no step reads.
    life,     \* since when each bucket has existed, and what was taken from it
    used,     \* what was ever taken from each bucket
    extra,    \* what was taken by runs of a script whose answer was lost
    asked     \* what ChargeAll was ever asked to charge

vars == <<clock, hashes, local, resting, req, owed, flush, late, left, life, used, extra, asked>>

Idle == [st |-> "idle", held |-> Nothing, batch |-> {}, now |-> 0, tries |-> 0, got |-> Nothing,
         final |-> FALSE]

New == [st |-> "new", at |-> NoReplica, now |-> 0, tries |-> 0, answer |-> 0, got |-> Nothing]

\* A request that has not returned yet.
Running == {"admitting", "sent", "ran", "admitted"}

Init ==
    /\ clock = 0
    /\ hashes = [k \in Keys |-> NoBucket]
    /\ local = [r \in Replicas |-> [k \in Keys |-> NoBucket]]
    /\ resting = [r \in Replicas |-> 0]
    /\ req = [q \in Requests |-> New]
    /\ owed = [r \in Replicas |-> Nothing]
    /\ flush = [r \in Replicas |-> Idle]
    /\ late = {}
    /\ left = [r \in Replicas |-> FALSE]
    /\ life = [p \in Places |-> [k \in Keys |-> [born |-> 0, out |-> 0]]]
    /\ used = [p \in Places |-> Nothing]
    /\ extra = Nothing
    /\ asked = Nothing

-----------------------------------------------------------------------------
(* History: what a change of the buckets at p took from them, measured by  *)
(* what they held as of now before it.                                     *)

Held(p, bs, k, now) ==
    IF p = Redis THEN HashLevel(bs[k], Limit[k], now) ELSE LocalLevel(bs[k], Limit[k], now)
Left(p, b) == IF p = Redis THEN b.t ELSE b.tokens
Since(p, b) == IF p = Redis THEN b.ts ELSE b.last

Touched(bs, new) == {k \in Keys : new[k] # bs[k]}
Taken(p, bs, new, now) ==
    [k \in Keys |-> IF k \in Touched(bs, new)
                    THEN Held(p, bs, k, now) - Left(p, new[k]) ELSE 0]

\* The buckets at p change from bs to new in a call made as of now.
Note(p, bs, new, now) ==
    LET took == Taken(p, bs, new, now)
    IN  /\ used' = [used EXCEPT ![p] = [k \in Keys |-> @[k] + took[k]]]
        /\ life' = [life EXCEPT ![p] = [k \in Keys |->
               CASE bs[k] = NoBucket /\ new[k] # NoBucket ->
                        [born |-> Since(p, new[k]), out |-> took[k]]
                 [] OTHER -> [@[k] EXCEPT !.out = @ + took[k]]]]

Plus(f, g) == [k \in Keys |-> f[k] + g[k]]

-----------------------------------------------------------------------------
(* Admit.                                                                  *)

\* A request reaches a replica; c.now is read here and used for every bucket,
\* however long the steps in between take.
Arrive(q, r) ==
    /\ req[q].st = "new"
    /\ ~flush[r].final /\ flush[r].st # "stopped"
    /\ req' = [req EXCEPT ![q].st = "admitting", ![q].at = r, ![q].now = clock]
    /\ UNCHANGED <<clock, hashes, local, resting, owed, flush, late, left, life, used, extra, asked>>

\* An admitted request goes on, on its replica; a refused one is over.
Decided(x, failed) ==
    IF failed = 0 THEN [New EXCEPT !.st = "admitted", !.at = x.at] ELSE [New EXCEPT !.st = "refused"]

\* local.Admit: the replica's own buckets decide.
DecideLocally(q) ==
    LET r == req[q].at
        d == AdmitLocal(local[r], Reqs, req[q].now)
    IN  /\ local' = [local EXCEPT ![r] = d.buckets]
        /\ Note(r, local[r], d.buckets, req[q].now)
        /\ req' = [req EXCEPT ![q] = Decided(@, d.failed)]

\* skip: Redis failed a moment ago.
AdmitSkips(q) ==
    /\ req[q].st = "admitting"
    /\ clock < resting[req[q].at]
    /\ DecideLocally(q)
    /\ UNCHANGED <<clock, hashes, resting, owed, flush, late, left, extra, asked>>

AdmitSends(q) ==
    /\ req[q].st = "admitting"
    /\ clock >= resting[req[q].at]
    /\ req' = [req EXCEPT ![q].st = "sent"]
    /\ UNCHANGED <<clock, hashes, local, resting, owed, flush, late, left, life, used, extra, asked>>

\* admitScript runs in Redis, once more if the client library sent it again.
\* Only the last answer can still come.
AdmitRuns(q) ==
    LET d == AdmitScript(hashes, Reqs, req[q].now, clock)
    IN  /\ req[q].st \in {"sent", "ran"}
        /\ req[q].tries < MaxTries
        /\ hashes' = d.buckets
        /\ Note(Redis, hashes, d.buckets, req[q].now)
        /\ req' = [req EXCEPT ![q].st = "ran", ![q].answer = d.failed, ![q].tries = @ + 1,
                              ![q].got = Taken(Redis, hashes, d.buckets, req[q].now)]
        /\ extra' = Plus(extra, req[q].got)
        /\ UNCHANGED <<clock, local, resting, owed, flush, late, left, asked>>

AdmitAnswered(q) ==
    /\ req[q].st = "ran"
    /\ req' = [req EXCEPT ![q] = Decided(@, @.answer)]
    /\ UNCHANGED <<clock, hashes, local, resting, owed, flush, late, left, life, used, extra, asked>>

\* No answer within the timeout: degrade, and local.Admit.  A script that has
\* not run yet still may.
AdmitGivesUp(q) ==
    /\ req[q].st \in {"sent", "ran"}
    /\ resting' = [resting EXCEPT ![req[q].at] = clock + RestFor]
    /\ DecideLocally(q)
    /\ extra' = Plus(extra, req[q].got)
    /\ late' = IF req[q].st = "sent"
               THEN late \cup {[script |-> "admit", now |-> req[q].now, n |-> Nothing]} ELSE late
    /\ UNCHANGED <<clock, hashes, owed, flush, left, asked>>

-----------------------------------------------------------------------------
(* ChargeAll, and the flush.                                               *)

\* The end of an answered request: what it used is noted for the next flush.
ChargeAll(q, n) ==
    LET r     == req[q].at
        units == [k \in Keys |-> IF k \in TokenKeys THEN n ELSE 0]
    IN  /\ req[q].st = "admitted"
        /\ req' = [req EXCEPT ![q] = [New EXCEPT !.st = "done"]]
        /\ owed' = [owed EXCEPT ![r] = Plus(@, units)]
        /\ asked' = Plus(asked, units)
        /\ UNCHANGED <<clock, hashes, local, resting, flush, late, left, life, used, extra>>

\* A flush that leaves the map it sends in place.
FlushTakesNoSwap(r) ==
    /\ flush[r].st = "idle"
    /\ owed[r] # Nothing
    /\ flush' = [flush EXCEPT ![r].st = "batch", ![r].held = owed[r], ![r].now = clock]
    /\ UNCHANGED <<clock, hashes, local, resting, req, owed, late, left, life, used, extra, asked>>

\* Flush: the held charges are swapped for an empty map under owedMu.
FlushTakes(r) ==
    /\ flush[r].st = "idle"
    /\ owed[r] # Nothing
    /\ flush' = [flush EXCEPT ![r].st = "batch", ![r].held = owed[r], ![r].now = clock]
    /\ owed' = [owed EXCEPT ![r] = Nothing]
    /\ UNCHANGED <<clock, hashes, local, resting, req, late, left, life, used, extra, asked>>

\* A Run that returns when its context is done.
RunStopsAtOnce(r) ==
    /\ flush[r].st = "idle"
    /\ flush' = [flush EXCEPT ![r].st = "batch", ![r].final = TRUE, ![r].now = clock]
    /\ left' = [left EXCEPT ![r] = \E q \in Requests : req[q].at = r /\ req[q].st \in Running]
    /\ UNCHANGED <<clock, hashes, local, resting, req, owed, late, life, used, extra, asked>>

\* Run's context is done, once the requests have returned or their grace is
\* over: one more flush, and Run returns.
RunStops(r) ==
    /\ flush[r].st = "idle"
    /\ flush' = [flush EXCEPT ![r].st = "batch", ![r].held = owed[r], ![r].now = clock,
                              ![r].final = TRUE]
    /\ owed' = [owed EXCEPT ![r] = Nothing]
    /\ left' = [left EXCEPT ![r] = \E q \in Requests : req[q].at = r /\ req[q].st \in Running]
    /\ UNCHANGED <<clock, hashes, local, resting, req, late, life, used, extra, asked>>

Unsent(r) == {k \in Keys : flush[r].held[k] > 0}

\* The next batch, in the order of a map: any buckets, as many as fit.
Batches(r) ==
    {ks \in SUBSET Unsent(r) : Cardinality(ks) = AtMost(MaxChargeKeys, Cardinality(Unsent(r)))}

\* What a batch charges each bucket.
InBatch(r, ks) == [k \in Keys |-> IF k \in ks THEN flush[r].held[k] ELSE 0]

FlushEnds(r) ==
    /\ flush[r].st = "batch" /\ Unsent(r) = {}
    /\ flush' = [flush EXCEPT ![r] = [Idle EXCEPT !.st = IF flush[r].final THEN "stopped" ELSE "idle"]]
    /\ UNCHANGED <<clock, hashes, local, resting, req, owed, late, left, life, used, extra, asked>>

\* The batch is done with, and the flush goes on to the next one.
BatchDone(r, ks) ==
    flush' = [flush EXCEPT ![r].st = "batch", ![r].batch = {}, ![r].tries = 0, ![r].got = Nothing,
                           ![r].held = [k \in Keys |-> IF k \in ks THEN 0 ELSE @[k]]]

\* chargeLocal.
ChargeLocally(r, ks) ==
    LET one(k) == <<[key |-> k, perMinute |-> Limit[k], take |-> FALSE]>>
        n   == InBatch(r, ks)
        new == [k \in Keys |-> ChargeAllLocal(local[r], one(k), n[k], flush[r].now)[k]]
    IN  /\ local' = [local EXCEPT ![r] = new]
        /\ Note(r, local[r], new, flush[r].now)
        /\ BatchDone(r, ks)

\* charge, for one batch: skip says that Redis failed a moment ago ...
ChargeSkips(r) ==
    /\ flush[r].st = "batch"
    /\ clock < resting[r]
    /\ \E ks \in Batches(r) : ks # {} /\ ChargeLocally(r, ks)
    /\ UNCHANGED <<clock, hashes, resting, req, owed, late, left, extra, asked>>

\* ... or the script is sent.
ChargeSends(r) ==
    /\ flush[r].st = "batch"
    /\ clock >= resting[r]
    /\ \E ks \in Batches(r) :
           ks # {} /\ flush' = [flush EXCEPT ![r].st = "sent", ![r].batch = ks]
    /\ UNCHANGED <<clock, hashes, local, resting, req, owed, late, left, life, used, extra, asked>>

ChargeRuns(r) ==
    LET new == ChargeScript(hashes, flush[r].batch, InBatch(r, flush[r].batch), Limit, flush[r].now, clock)
    IN  /\ flush[r].st \in {"sent", "ran"}
        /\ flush[r].tries < MaxTries
        /\ hashes' = new
        /\ Note(Redis, hashes, new, flush[r].now)
        /\ flush' = [flush EXCEPT ![r].st = "ran", ![r].tries = @ + 1,
                                  ![r].got = Taken(Redis, hashes, new, flush[r].now)]
        /\ extra' = Plus(extra, flush[r].got)
        /\ UNCHANGED <<clock, local, resting, req, owed, late, left, asked>>

ChargeAnswered(r) ==
    /\ flush[r].st = "ran"
    /\ BatchDone(r, flush[r].batch)
    /\ UNCHANGED <<clock, hashes, local, resting, req, owed, late, left, life, used, extra, asked>>

ChargeGivesUp(r) ==
    /\ flush[r].st \in {"sent", "ran"}
    /\ resting' = [resting EXCEPT ![r] = clock + RestFor]
    /\ ChargeLocally(r, flush[r].batch)
    /\ extra' = Plus(extra, flush[r].got)
    /\ late' = IF flush[r].st = "sent"
               THEN late \cup {[script |-> "charge", now |-> flush[r].now, n |-> InBatch(r, flush[r].batch)]}
               ELSE late
    /\ UNCHANGED <<clock, hashes, req, owed, left, asked>>

-----------------------------------------------------------------------------
(* The clock, Redis, and the sweep.                                        *)

\* A script that its sender gave up on reaches Redis after all.
LateRuns(x) ==
    LET new == IF x.script = "admit" THEN AdmitScript(hashes, Reqs, x.now, clock).buckets
               ELSE ChargeScript(hashes, {k \in Keys : x.n[k] > 0}, x.n, Limit, x.now, clock)
    IN  /\ hashes' = new
        /\ Note(Redis, hashes, new, x.now)
        /\ extra' = Plus(extra, Taken(Redis, hashes, new, x.now))
        /\ late' = late \ {x}
        /\ UNCHANGED <<clock, local, resting, req, owed, flush, left, asked>>

\* Redis expires what was not written for two minutes.
Tick ==
    /\ clock < MaxClock
    /\ clock' = clock + 1
    /\ hashes' = ExpireHashes(hashes, clock + 1)
    /\ UNCHANGED <<local, resting, req, owed, flush, late, left, life, used, extra, asked>>

Sweep(r) ==
    /\ local' = [local EXCEPT ![r] = SweepLocal(@, clock)]
    /\ local' # local
    /\ UNCHANGED <<clock, hashes, resting, req, owed, flush, late, left, life, used, extra, asked>>

Request(q) ==
    \/ \E r \in Replicas : Arrive(q, r)
    \/ AdmitSkips(q) \/ AdmitSends(q) \/ AdmitRuns(q) \/ AdmitAnswered(q) \/ AdmitGivesUp(q)
    \/ \E n \in Amounts : ChargeAll(q, n)

RoundTrip(r) == ChargeRuns(r) \/ ChargeAnswered(r) \/ ChargeGivesUp(r)
FlushStep(r) == FlushTakes(r) \/ FlushEnds(r) \/ ChargeSkips(r) \/ ChargeSends(r)

Next ==
    \/ \E q \in Requests : Request(q)
    \/ \E r \in Replicas : FlushStep(r) \/ RoundTrip(r) \/ Sweep(r)
    \/ \E r \in Stopping : RunStops(r)
    \/ \E x \in late : LateRuns(x)
    \/ Tick

Spec == Init /\ [][Next]_vars

\* The flush loop runs every chargeEvery, and a round trip ends in an answer or
\* in its timeout.
Fairness == \A r \in Replicas : WF_vars(FlushStep(r)) /\ WF_vars(RoundTrip(r))
LiveSpec == Spec /\ Fairness

-----------------------------------------------------------------------------
(* Properties.                                                             *)

Amount == [Keys -> Nat]

TypeOK ==
    /\ clock \in 0..MaxClock
    /\ hashes \in [Keys -> Hashes \cup {NoBucket}]
    /\ local \in [Replicas -> [Keys -> Buckets \cup {NoBucket}]]
    /\ resting \in [Replicas -> 0..(MaxClock + RestFor)]
    /\ req \in [Requests -> [st : {"new", "admitting", "sent", "ran", "admitted", "refused", "done"},
                             at : Replicas \cup {NoReplica}, now : 0..MaxClock, tries : 0..MaxTries,
                             answer : 0..Len(Reqs), got : Amount]]
    /\ owed \in [Replicas -> Amount]
    /\ flush \in [Replicas -> [st : {"idle", "batch", "sent", "ran", "stopped"},
                               held : Amount, batch : SUBSET Keys, now : 0..MaxClock,
                               tries : 0..MaxTries, got : Amount, final : BOOLEAN]]
    /\ \A x \in late : x \in [script : {"admit", "charge"}, now : 0..MaxClock, n : Amount]
    /\ left \in [Replicas -> BOOLEAN]
    /\ life \in [Places -> [Keys -> [born : 0..MaxClock, out : Int]]]
    /\ used \in [Places -> [Keys -> Int]]
    /\ extra \in Amount /\ asked \in Amount

Total(f(_), S) == MapThenSumSet(f, S)

Everywhere(k) == Total(LAMBDA p : used[p][k], Places)

Admitted == {q \in Requests : req[q].st \in {"admitted", "done"}}

(***************************************************************************)
(* Limits are accounted for once, whatever Redis answers.  The units ever  *)
(* taken from the buckets of a request limit, in Redis and on the replicas,*)
(* are the admitted requests: a refusal is free however the buckets of the *)
(* other levels stand.  The tokens ChargeAll was asked to charge are held, *)
(* in a flush's hands or taken from a bucket, once, through batches of     *)
(* which one fails and the next is made locally.  Scripts that ran         *)
(* unanswered come on top of both.                                         *)
(***************************************************************************)
AccountedOnce ==
    /\ \A k \in {k \in Keys : Req(k).take /\ Limit[k] > 0} :
           Everywhere(k) = Cardinality(Admitted) + extra[k] + Total(LAMBDA q : req[q].got[k], Requests)
    /\ \A k \in TokenKeys :
           Everywhere(k) + Total(LAMBDA r : owed[r][k] + flush[r].held[k], Replicas)
               = asked[k] + extra[k] + Total(LAMBDA r : flush[r].got[k], Replicas)

(***************************************************************************)
(* No bucket gives more than its burst and what drips in while it exists,  *)
(* although calls are made as of clocks that are not in order: a request   *)
(* keeps the time it was admitted with, and a router checks limits with it *)
(* much later ("can cost some refill but never mint tokens", redis.go).    *)
(***************************************************************************)
Bounded(p, k, b) ==
    b # NoBucket => Left(p, b) + life[p][k].out
                      <= Burst(Limit[k]) + (clock - life[p][k].born) * PerTick(Limit[k])
NeverMinted ==
    \A k \in Keys : /\ Bounded(Redis, k, hashes[k])
                    /\ \A r \in Replicas : Bounded(r, k, local[r][k])

(***************************************************************************)
(* Every charge reaches a bucket, however often Redis fails, at the end    *)
(* too: a Run that has returned leaves nothing held, unless a request was  *)
(* still running when it was told to stop.                                 *)
(***************************************************************************)
ChargesLand ==
    \A r \in Replicas :
        owed[r] # Nothing ~> ((owed[r] = Nothing /\ Unsent(r) = {})
                               \/ (flush[r].st = "stopped" /\ left[r]))
==============================================================================
