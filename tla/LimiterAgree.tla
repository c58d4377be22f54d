----------------------------- MODULE LimiterAgree -----------------------------
(***************************************************************************)
(* The two implementations of one interface, driven by the same calls: the *)
(* in-memory Limiter and the Redis scripts must decide alike ("Switching   *)
(* Redis on must not change how the limits behave", redis_test.go).  The   *)
(* lists of requirements, with unlimited ones, keys named twice and token  *)
(* limits between request limits, are CONSTANT; time never goes back, as   *)
(* one replica alone decides.                                              *)
(***************************************************************************)
EXTENDS Limiter

CONSTANTS
    Lists,       \* the lists of requirements requests are admitted with, each
                 \* with its key's limit or with 0
    Limit,       \* the limit per minute of each key
    Charges,     \* the amounts requests are charged at their end
    MaxCharges,  \* bound: how often requests are charged
    MaxClock

\* Only token limits are charged, and those take nothing on admission.
TokenKeys == {k \in Keys : \A reqs \in Lists : \A i \in DOMAIN reqs :
                             reqs[i].key = k => ~reqs[i].take}

VARIABLES
    clock,
    memory,  \* the Limiter's map of buckets
    hashes,  \* the hashes in Redis
    answers, \* what each last said to Admit
    charged, \* how often requests were charged
    apart    \* the buckets a deep debt may have set apart (history)

vars == <<clock, memory, hashes, answers, charged, apart>>

\* What bucket k holds in each.
Levels(k) == [memory |-> LocalLevel(memory[k], Limit[k], clock),
              redis  |-> HashLevel(hashes[k], Limit[k], clock)]

\* A debt is deep when a minute's refill leaves a bucket below zero.  Redis
\* forgets it two minutes after the last call that named the bucket, and
\* memory once no call looked at the bucket for BucketIdle.  The bucket is
\* apart from then on until it is full in both.
Deep(k) == Levels(k).memory < -Limit[k] \/ Levels(k).redis < -Limit[k]
Full(k) == Levels(k) = [memory |-> Limit[k], redis |-> Limit[k]]
Apart(ks) == apart' = {k \in apart \cup ks : ~Full(k)'}

Init ==
    /\ clock = 0
    /\ memory = [k \in Keys |-> NoBucket]
    /\ hashes = [k \in Keys |-> NoBucket]
    /\ answers = [memory |-> 0, redis |-> 0, apart |-> FALSE]
    /\ charged = 0
    /\ apart = {}

Tick ==
    /\ clock < MaxClock
    /\ clock' = clock + 1
    /\ hashes' = ExpireHashes(hashes, clock + 1)
    /\ UNCHANGED <<memory, answers, charged>>
    /\ Apart({})

\* Where the decisions differ only one takes the units, so the other buckets
\* of a request on a bucket that is apart come apart too.
Admit(reqs) ==
    LET m == AdmitLocal(memory, reqs, clock)
        r == AdmitScript(hashes, reqs, clock, clock)
        named == {reqs[i].key : i \in Limited(reqs)}
    IN  /\ memory' = m.buckets
        /\ hashes' = r.buckets
        /\ answers' = [memory |-> m.failed, redis |-> r.failed,
                       apart |-> named \cap apart # {}]
        /\ UNCHANGED <<clock, charged>>
        /\ Apart(IF answers'.apart THEN named ELSE {})

\* ChargeAll of one key's token bucket.
Charge(k, n) ==
    /\ charged < MaxCharges
    /\ charged' = charged + 1
    /\ memory' = ChargeAllLocal(memory, <<[key |-> k, perMinute |-> Limit[k], take |-> FALSE]>>,
                                n, clock)
    /\ hashes' = ChargeScript(hashes, {k}, [j \in Keys |-> n], Limit, clock, clock)
    /\ UNCHANGED <<clock, answers>>
    /\ Apart({j \in {k} : Deep(k)'})

Sweep ==
    /\ memory' = SweepLocal(memory, clock)
    /\ UNCHANGED <<clock, hashes, answers, charged>>
    /\ Apart({})

Next ==
    \/ Tick
    \/ \E reqs \in Lists : Admit(reqs)
    \/ \E k \in TokenKeys, n \in Charges : Charge(k, n)
    \/ Sweep

Spec == Init /\ [][Next]_vars

TypeOK ==
    /\ clock \in 0..MaxClock
    /\ memory \in [Keys -> Buckets \cup {NoBucket}]
    /\ hashes \in [Keys -> Hashes \cup {NoBucket}]
    /\ answers \in [memory : Nat, redis : Nat, apart : BOOLEAN]
    /\ charged \in 0..MaxCharges
    /\ apart \subseteq Keys

(***************************************************************************)
(* Redis and memory decide alike: every Admit names the same requirement,  *)
(* and every bucket holds as much in one as in the other, although the     *)
(* script writes buckets that the loop's early return does not reach, one  *)
(* forgets an untouched bucket after two minutes and the other after       *)
(* BucketIdle, and one caps when it refills and the other when it decides. *)
(* They part only on a debt of more than a minute's tokens, which PEXPIRE  *)
(* makes Redis forget and memory keeps, or which Sweep forgets because no  *)
(* loop came as far as its bucket: on that bucket and those of the         *)
(* requests on it, until it is full in both.                               *)
(***************************************************************************)
Agree ==
    /\ answers.memory = answers.redis \/ answers.apart
    /\ \A k \in Keys \ apart : Levels(k).memory = Levels(k).redis

==============================================================================
