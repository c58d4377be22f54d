--------------------------- MODULE KeyCacheProofs ---------------------------
(* The key cache, proved for any callers, keys and limits: a revoked key   *)
(* stays revoked on a replica that has heard of it, and a flood of one key *)
(* asks the database once.                                                 *)
EXTENDS KeyCache, FiniteSetTheorems, TLAPS

\* The calls that are in inflight, and those with a lookup of their own.
Active  == {"slot", "check", "query", "remember", "closed"}
Looking == {"check", "query", "remember", "closed"}

\* Where calls are kept: a call under way is the one in flight for its key,
\* and a lookup has a slot.
Booked ==
  /\ \A c \in Callers : call[c].state \in Active => inflight[call[c].key] = c
  /\ \A c \in Callers : call[c].state \in Looking => c \in slots

\* Where callers are: before it joins one has no call, and one that waits for
\* a slot or for its own lookup presents the key that is looked up.
Placed ==
  \A c \in Callers :
    /\ pc[c] \in {"cache", "join"} => call[c] = Idle /\ c \notin slots
    /\ pc[c] = "slot" <=> call[c].state = "slot"
    /\ pc[c] # "wait" => joined[c] = c
    /\ pc[c] \in {"slot", "wait"} /\ joined[c] = c /\ call[c].state # "idle"
         => call[c].key = key[c]
    /\ call[c].state \in {"idle", "slot", "check", "query"} => call[c].answer = NoAnswer

Announcements == changed \cup {channel[i] : i \in DOMAIN channel}

\* Nobody is ahead: what was forgotten was a change, and generations and drops
\* only grow.
Behind ==
  /\ \A k \in Keys : row[k].ver <= changes /\ forgotten[k] <= row[k].ver
  /\ \A a \in Announcements : a.ver <= row[a.key].ver
  /\ \A k \in Keys : keys[k] # NoEntry => keys[k].gen <= gen
  /\ \A c \in Callers : /\ call[c].gen <= gen /\ call[c].drops <= drops
                        /\ seen[c].gen <= gen /\ seen[c].drops <= drops
                        /\ seen[c].forgotten <= forgotten[key[c]]

\* An answer that lets a request in, and is not older than the version v.
Since(a, v) == a.value \in Usable => a.ver >= v

\* A caller that asks for itself, and the generation it asks in.
Asking(c) ==
  \/ pc[c] \in {"cache", "join", "slot"}
  \/ pc[c] = "wait" /\ joined[c] = c /\ call[c].state \in {"check", "query", "remember"}
AskedIn(c) == IF pc[c] \in {"cache", "join"} THEN seen[c].gen ELSE call[c].gen

\* The calls whose answer remember would still cache.
Cacheable(d) == call[d].state = "remember" /\ call[d].drops = drops

\* What is cached, or about to be, in a generation is as new as what was
\* forgotten when anyone who asks in it began to ask.
Fresh ==
  /\ \A k \in Keys :
       keys[k] # NoEntry /\ keys[k].gen = gen => Since(keys[k].answer, forgotten[k])
  /\ \A d \in Callers :
       Cacheable(d) /\ call[d].gen = gen => Since(call[d].answer, forgotten[call[d].key])
  /\ \A c \in Callers :
       Asking(c) /\ keys[key[c]] # NoEntry /\ keys[key[c]].gen = AskedIn(c)
         => Since(keys[key[c]].answer, seen[c].forgotten)
  /\ \A c, d \in Callers :
       Asking(c) /\ Cacheable(d) /\ call[d].key = key[c] /\ call[d].gen = AskedIn(c)
         => Since(call[d].answer, seen[c].forgotten)
  /\ \A c \in Callers :
       pc[c] = "wait" /\ joined[c] = c => Since(call[c].answer, seen[c].forgotten)

\* The inductive invariant.
Inv == TypeOK /\ Booked /\ Placed /\ Behind /\ Fresh

-----------------------------------------------------------------------------
(* Facts about the values.                                                 *)

Calls == [state : {"idle", "slot", "check", "query", "remember", "closed", "left"},
          answer : Answers, key : Keys, gen : Nat, drops : Nat]
Entries == [answer : Answers, ttl : 0..TTL \cup 0..NegativeTTL, gen : Nat]
Seens   == [gen : Nat, drops : Nat, forgotten : 0..MaxChanges]
Changes == [key : Keys, ver : 0..MaxChanges, kind : {"key", "any"}, here : BOOLEAN]

LEMMA ConstantTypes ==
  /\ AnyKey \in Keys /\ NoAnswer \in Answers /\ Failed \in Answers /\ Idle \in Calls
  /\ NoAnswer.value \notin Usable /\ Failed.value \notin Usable
  /\ MaxChanges \in Nat /\ TTL \in Nat /\ NegativeTTL \in Nat
  <1>1. AnyKey \in Keys
    BY KeyCacheAssumption DEF KeyCacheAssumption, AnyKey
  <1>2. NoAnswer \in Answers /\ Failed \in Answers /\ MaxChanges \in Nat
        /\ NoAnswer.value \notin Usable /\ Failed.value \notin Usable
    BY KeyCacheAssumption DEF KeyCacheAssumption, NoAnswer, Failed, Answers
  <1> QED
    BY <1>1, <1>2, KeyCacheAssumption DEF KeyCacheAssumption, Idle, Calls

\* An entry is a record of its own kind.
LEMMA EntryType ==
  ASSUME TypeOK, NEW k \in Keys, keys[k] # NoEntry
  PROVE  keys[k] \in Entries
  BY DEF TypeOK, Entries

\* Gone: the call with its answer, or none.
LEMMA GoneType ==
  ASSUME TypeOK, NEW c \in Callers, NEW a \in Answers, NEW others
  PROVE  /\ Gone(c, a, others) \in Calls
         /\ Gone(c, a, others) \in {Idle, [call[c] EXCEPT !.state = "left", !.answer = a]}
         /\ Gone(c, a, others) # Idle <=> Awaited(c, others)
  <1>1. call[c] \in Calls
    BY DEF TypeOK, Calls
  <1>2. [call[c] EXCEPT !.state = "left", !.answer = a] \in Calls
    BY <1>1 DEF Calls
  <1>3. [call[c] EXCEPT !.state = "left", !.answer = a].state = "left" /\ Idle.state = "idle"
    BY <1>1 DEF Calls, Idle
  <1> QED
    BY <1>2, <1>3, ConstantTypes DEF Gone

\* StopWaiting: at most a call that has left goes.
LEMMA StopsWaiting ==
  ASSUME TypeOK, NEW c \in Callers, StopWaiting(c)
  PROVE  /\ call' \in [Callers -> Calls]
         /\ \A d \in Callers : \/ call'[d] = call[d]
                               \/ /\ d = joined[c] /\ call[d].state = "left" /\ call'[d] = Idle
                                  /\ ~Awaited(d, Callers \ {c})
  <1>1. joined[c] \in Callers /\ call \in [Callers -> Calls]
    BY DEF TypeOK, Calls
  <1> DEFINE j == joined[c]
  <1>2. CASE call[j].state = "left"
    <2>1. call' = [call EXCEPT ![j] = Gone(j, call[j].answer, Callers \ {c})]
      BY <1>1, <1>2 DEF StopWaiting
    <2>2. call[j].answer \in Answers
      BY <1>1 DEF Calls
    <2>3. /\ Gone(j, call[j].answer, Callers \ {c}) \in Calls
          /\ \/ Gone(j, call[j].answer, Callers \ {c}) = Idle
             \/ Gone(j, call[j].answer, Callers \ {c})
                  = [call[j] EXCEPT !.state = "left", !.answer = call[j].answer]
          /\ Gone(j, call[j].answer, Callers \ {c}) # Idle <=> Awaited(j, Callers \ {c})
      BY <1>1, <2>2, GoneType
    <2>4. [call[j] EXCEPT !.state = "left", !.answer = call[j].answer] = call[j]
      BY <1>1, <1>2 DEF Calls
    <2> QED
      BY <1>1, <1>2, <2>1, <2>3, <2>4
  <1>3. CASE call[j].state # "left"
    <2>1. call' = [call EXCEPT ![j] = call[j]]
      BY <1>1, <1>3 DEF StopWaiting
    <2> QED
      BY <1>1, <2>1
  <1> QED
    BY <1>2, <1>3

-----------------------------------------------------------------------------
LEMMA InitInv == Init => Inv
  <1> SUFFICES ASSUME Init PROVE Inv
    OBVIOUS
  <1>1. TypeOK
    <2>1. row \in [Keys -> [value : Usable \cup Rejected, ver : 0..MaxChanges]]
      BY ConstantTypes DEF Init
    <2>2. call \in [Callers -> Calls]
      BY ConstantTypes DEF Init
    <2>3. seen \in [Callers -> [gen : Nat, drops : Nat, forgotten : 0..MaxChanges]]
      BY ConstantTypes DEF Init, Unseen
    <2>4. slots \subseteq Callers /\ Cardinality(slots) <= MaxLookups
      BY FS_EmptySet, KeyCacheAssumption DEF Init, KeyCacheAssumption
    <2> QED
      BY <2>1, <2>2, <2>3, <2>4, ConstantTypes DEF Init, TypeOK, Calls
  <1>2. Booked /\ Placed
    BY DEF Init, Booked, Placed, Active, Looking, Idle
  <1>3. Behind
    BY <1>1, ConstantTypes DEF Init, TypeOK, Behind, Announcements, Idle, Unseen
  <1>4. Fresh
    BY DEF Init, Fresh, Asking, Cacheable, Idle
  <1> QED
    BY <1>1, <1>2, <1>3, <1>4 DEF Inv

(* The type invariant.                                                     *)

\* Forget keeps the cache's types.
LEMMA ForgetType ==
  ASSUME TypeOK, NEW a \in Changes, Forget(a)
  PROVE  /\ keys' \in [Keys -> {NoEntry} \cup Entries]
         /\ gen' \in Nat /\ drops' \in Nat
         /\ forgotten' \in [Keys -> 0..MaxChanges]
  <1>1. keys' \in [Keys -> {NoEntry} \cup Entries]
    <2>1. keys \in [Keys -> {NoEntry} \cup Entries]
      BY DEF TypeOK, Entries
    <2>2. \/ keys' = keys
          \/ keys' = [keys EXCEPT ![a.key] = NoEntry]
          \/ keys' = [keys EXCEPT ![a.key] = @]
      BY DEF Forget
    <2> QED
      BY <2>1, <2>2
  <1>2. gen' \in Nat /\ drops' \in Nat
    BY DEF TypeOK, Forget
  <1>3. a.key \in Keys /\ a.ver \in 0..MaxChanges
    BY DEF Changes
  <1>4. forgotten' \in [Keys -> 0..MaxChanges]
    BY <1>3 DEF TypeOK, Forget
  <1> QED
    BY <1>1, <1>2, <1>4

LEMMA TypeKept == TypeOK /\ Behind /\ [Next]_vars => TypeOK'
  <1> SUFFICES ASSUME TypeOK, Behind, [Next]_vars PROVE TypeOK'
    OBVIOUS
  <1>0. /\ call \in [Callers -> Calls] /\ keys \in [Keys -> {NoEntry} \cup Entries]
        /\ changed \subseteq Changes /\ channel \in Seq(Changes)
        /\ seen \in [Callers -> Seens] /\ gen \in Nat /\ drops \in Nat
        /\ forgotten \in [Keys -> 0..MaxChanges]
    BY DEF TypeOK, Calls, Entries, Changes, Seens
  <1>r. ASSUME NEW c \in Callers, Return(c)
        PROVE  /\ seen' \in [Callers -> [gen : Nat, drops : Nat, forgotten : 0..MaxChanges]]
               /\ key' \in [Callers -> Keys] /\ joined' \in [Callers -> Callers]
               /\ pc' \in [Callers -> {"idle", "cache", "join", "slot", "wait"}]
    BY <1>r, ConstantTypes, SMTT(20) DEF Return, TypeOK, Unseen
  <1>1. ASSUME NEW c \in Callers, Resolve(c) PROVE TypeOK'
    <2>1. seen' \in [Callers -> Seens] /\ key' \in [Callers -> Keys]
      <3>1. PICK k \in Keys :
              /\ key' = [key EXCEPT ![c] = k]
              /\ seen' = [seen EXCEPT ![c] = [gen |-> gen, drops |-> 0, forgotten |-> forgotten[k]]]
        BY <1>1 DEF Resolve
      <3>2. [gen |-> gen, drops |-> 0, forgotten |-> forgotten[k]] \in Seens
        BY <1>0 DEF Seens
      <3> QED
        BY <1>0, <3>1, <3>2 DEF TypeOK
    <2> QED
      BY <1>1, <2>1 DEF TypeOK, Resolve, Go, Seens, cache, lookups, announced
  <1>2. ASSUME NEW c \in Callers, LookupCache(c) PROVE TypeOK'
    <2>1. CASE Hit(key[c], seen[c].gen)
      BY <1>2, <1>r, <2>1 DEF TypeOK, LookupCache, cache, lookups, announced
    <2>2. CASE ~Hit(key[c], seen[c].gen)
      <3>1. [seen[c] EXCEPT !.drops = drops] \in Seens
        BY <1>0 DEF Seens
      <3>2. seen' \in [Callers -> Seens]
        BY <1>0, <1>2, <2>2, <3>1 DEF LookupCache
      <3> QED
        BY <1>2, <2>2, <3>2 DEF TypeOK, LookupCache, Go, Seens, cache, lookups, announced
    <2> QED
      BY <2>1, <2>2
  <1>3. ASSUME NEW c \in Callers, Join(c) PROVE TypeOK'
    <2>0. seen' \in [Callers -> Seens]
      <3>1. [seen[c] EXCEPT !.gen = 0, !.drops = 0] \in Seens
        BY <1>0 DEF Seens
      <3> QED
        BY <1>0, <1>3, <3>1 DEF Join
    <2>1. CASE inflight[key[c]] # NoCall
      BY <1>3, <2>0, <2>1 DEF TypeOK, Join, Go, Seens, cache, announced
    <2>2. CASE inflight[key[c]] = NoCall
      <3>1. [state |-> "slot", answer |-> NoAnswer, key |-> key[c], gen |-> seen[c].gen,
             drops |-> seen[c].drops] \in Calls
        BY ConstantTypes DEF TypeOK, Calls
      <3>2. call' \in [Callers -> Calls]
        BY <1>0, <1>3, <2>2, <3>1 DEF Join
      <3> QED
        <4>0. inflight' = [inflight EXCEPT ![key[c]] = c] /\ pc' = [pc EXCEPT ![c] = "slot"]
          BY <1>3, <2>2 DEF Join, Go
        <4>1. /\ inflight' \in [Keys -> Callers \cup {NoCall}]
              /\ pc' \in [Callers -> {"idle", "cache", "join", "slot", "wait"}]
          BY <4>0 DEF TypeOK
        <4>2. UNCHANGED <<row, changes, cache, slots, key, joined, announced>>
          BY <1>3, <2>2 DEF Join
        <4> QED
          BY <2>0, <3>2, <4>1, <4>2 DEF TypeOK, Calls, Seens, cache, announced
    <2> QED
      BY <2>1, <2>2
  <1>4. ASSUME NEW c \in Callers, TakeSlot(c) PROVE TypeOK'
    <2>1. call' \in [Callers -> Calls]
      BY <1>0, <1>4 DEF TakeSlot, Calls
    <2>2. IsFiniteSet(slots) /\ Cardinality(slots) \in Nat
      BY KeyCacheAssumption, FS_Subset, FS_CardinalityType DEF TypeOK, KeyCacheAssumption
    <2>3. slots' \subseteq Callers /\ Cardinality(slots') <= MaxLookups
      <3>1. /\ MaxLookups \in Nat /\ Cardinality(slots) < MaxLookups /\ slots \subseteq Callers
            /\ slots' = slots \cup {c}
        BY <1>4, KeyCacheAssumption DEF TypeOK, TakeSlot, KeyCacheAssumption
      <3>2. Cardinality(slots') \in {Cardinality(slots), Cardinality(slots) + 1}
        BY <2>2, <3>1, FS_AddElement
      <3> QED
        BY <2>2, <3>1, <3>2
    <2> QED
      BY <1>4, <2>1, <2>3 DEF TypeOK, TakeSlot, Go, Calls, cache, announced
  <1>5. ASSUME NEW c \in Callers, GiveUpSlot(c) PROVE TypeOK'
    <2>1. call' \in [Callers -> Calls]
      BY <1>0, <1>5, GoneType, ConstantTypes DEF GiveUpSlot
    <2> QED
      BY <1>5, <1>r, <2>1 DEF TypeOK, GiveUpSlot, Calls, cache, announced
  <1>6. ASSUME NEW c \in Callers, Answered(c) \/ HangUp(c) PROVE TypeOK'
    <2>1. call' \in [Callers -> Calls]
      BY <1>6, StopsWaiting DEF Answered, HangUp
    <2> QED
      BY <1>6, <1>r, <2>1 DEF TypeOK, Answered, HangUp, Calls, cache, announced
  <1>7. ASSUME NEW c \in Callers, Check(c) PROVE TypeOK'
    <2>1. Hit(call[c].key, call[c].gen) => keys[call[c].key].answer \in Answers
      BY <1>0 DEF Hit, Calls, Entries
    <2>2. call' \in [Callers -> Calls]
      <3>1. ASSUME NEW a \in Answers
            PROVE  /\ [call[c] EXCEPT !.state = "closed", !.answer = a] \in Calls
                   /\ [call[c] EXCEPT !.state = "query"] \in Calls
        BY <1>0 DEF Calls
      <3> QED
        BY <1>0, <1>7, <2>1, <3>1, ConstantTypes DEF Check
    <2> QED
      BY <1>7, <2>2 DEF TypeOK, Check, Calls, cache, callers, announced
  <1>8. ASSUME NEW c \in Callers, Query(c) PROVE TypeOK'
    <2>1. row[call[c].key] \in Answers /\ Failed \in Answers
      BY <1>0, ConstantTypes DEF TypeOK, Calls, Answers
    <2>2. call' \in [Callers -> Calls]
      <3>1. ASSUME NEW a \in Answers
            PROVE  [call EXCEPT ![c].state = "remember", ![c].answer = a] \in [Callers -> Calls]
        <4>1. [call[c] EXCEPT !.state = "remember", !.answer = a] \in Calls
          BY <1>0 DEF Calls
        <4>2. [call EXCEPT ![c].state = "remember", ![c].answer = a]
                = [call EXCEPT ![c] = [call[c] EXCEPT !.state = "remember", !.answer = a]]
          BY <1>0
        <4> QED
          BY <1>0, <4>1, <4>2
      <3> QED
        <4>1. PICK a \in {row[call[c].key], Failed} :
                call' = [call EXCEPT ![c].state = "remember", ![c].answer = a]
          BY <1>8 DEF Query
        <4>2. a \in Answers
          BY <2>1
        <4> QED
          BY <3>1, <4>1, <4>2
    <2> QED
      BY <1>8, <2>2 DEF TypeOK, Query, Calls, cache, callers, announced
  <1>9. ASSUME NEW c \in Callers, Remember(c) PROVE TypeOK'
    <2>1. call' \in [Callers -> Calls]
      BY <1>0, <1>9 DEF Remember, Calls
    <2>2. [answer |-> call[c].answer, ttl |-> TTLOf(call[c].answer), gen |-> call[c].gen]
            \in Entries
      BY <1>0, ConstantTypes DEF Calls, Entries, TTLOf
    <2>3. keys' \in [Keys -> {NoEntry} \cup Entries]
      BY <1>0, <1>9, <2>2 DEF Remember, Cached
    <2> QED
      BY <1>9, <2>1, <2>3 DEF TypeOK, Remember, Calls, Entries, callers, announced
  <1>10. ASSUME NEW c \in Callers, Leave(c) PROVE TypeOK'
    <2>1. call' \in [Callers -> Calls]
      <3>1. call[c].answer \in Answers
        BY <1>0 DEF Calls
      <3> QED
        BY <1>0, <1>10, <3>1, GoneType DEF Leave
    <2> QED
      BY <1>10, <2>1 DEF TypeOK, Leave, Calls, cache, callers, announced
  <1>11. ASSUME NEW c \in Callers, FreeSlot(c) PROVE TypeOK'
    <2>1. IsFiniteSet(slots) /\ Cardinality(slots) \in Nat
      BY KeyCacheAssumption, FS_Subset, FS_CardinalityType DEF TypeOK, KeyCacheAssumption
    <2>2. slots' \subseteq Callers /\ Cardinality(slots') <= MaxLookups
      <3>1. /\ MaxLookups \in Nat /\ Cardinality(slots) <= MaxLookups /\ slots \subseteq Callers
            /\ slots' = slots \ {c}
        BY <1>11, KeyCacheAssumption DEF TypeOK, FreeSlot, KeyCacheAssumption
      <3>2. Cardinality(slots') \in {Cardinality(slots), Cardinality(slots) - 1}
        BY <2>1, <3>1, FS_RemoveElement
      <3> QED
        BY <2>1, <3>1, <3>2
    <2> QED
      BY <1>11, <2>2 DEF TypeOK, FreeSlot, cache, callers, announced
  <1>12. ASSUME NEW k \in Keys, Change(k) PROVE TypeOK'
    <2>1. row[k].ver + 1 \in 0..MaxChanges
      BY <1>12, ConstantTypes DEF TypeOK, Change, Behind
    <2>2. changed' \subseteq Changes
      BY <1>0, <1>12, <2>1 DEF Change, Changes
    <2>3. row' \in [Keys -> [value : Usable \cup Rejected, ver : 0..MaxChanges]]
      BY <1>12, <2>1 DEF TypeOK, Change
    <2> QED
      BY <1>12, <2>2, <2>3, ConstantTypes DEF TypeOK, Change, Changes, cache, lookups, callers
  <1>13. ASSUME NEW a \in changed, ForgetHere(a) PROVE TypeOK'
    <2>1. a \in Changes /\ changed' \subseteq Changes
      BY <1>0, <1>13 DEF ForgetHere, Changes
    <2> QED
      BY <1>13, <2>1, ForgetType DEF TypeOK, ForgetHere, Changes, Entries, lookups, callers
  <1>14. ASSUME NEW a \in changed, Notify(a) \/ NotifyLost(a) PROVE TypeOK'
    <2>1. channel' \in Seq(Changes) /\ changed' \subseteq Changes
      <3>1. Append(channel, a) \in Seq(Changes)
        BY <1>0
      <3> QED
        BY <1>0, <1>14, <3>1 DEF Notify, NotifyLost
    <2> QED
      BY <1>14, <2>1 DEF TypeOK, Notify, NotifyLost, Changes, cache, lookups, callers
  <1>15. CASE Listen
    <2>1. Head(channel) \in Changes /\ channel' \in Seq(Changes)
      BY <1>0, <1>15 DEF Listen
    <2> QED
      BY <1>15, <2>1, ForgetType DEF TypeOK, Listen, Changes, Entries, lookups, callers
  <1>16. CASE Disconnect
    <2>1. channel' \in Seq(Changes)
      BY <1>16 DEF Disconnect
    <2> QED
      BY <1>16, <2>1 DEF TypeOK, Disconnect, Changes, cache, lookups, callers
  <1>17. CASE Tick \/ Sweep
    <2>1. ASSUME NEW e \in Entries, e.ttl > 0
          PROVE  [e EXCEPT !.ttl = @ - 1] \in Entries
      BY <2>1, ConstantTypes DEF Entries
    <2>2. keys' \in [Keys -> {NoEntry} \cup Entries]
      BY <1>0, <1>17, <2>1 DEF Tick, Sweep
    <2> QED
      BY <1>17, <2>2 DEF TypeOK, Tick, Sweep, Entries, lookups, callers, announced
  <1>18. CASE UNCHANGED vars
    BY <1>18 DEF TypeOK, vars, cache, lookups, callers, announced
  <1> QED
    BY <1>1, <1>2, <1>3, <1>4, <1>5, <1>6, <1>7, <1>8, <1>9, <1>10, <1>11, <1>12, <1>13, <1>14,
       <1>15, <1>16, <1>17, <1>18 DEF Next, ResolveSteps, LookupSteps, Announce

-----------------------------------------------------------------------------
(* Calls and callers.                                                      *)

\* What takes no part in the lookups.
Aside == \/ \E k \in Keys : Change(k)
         \/ Announce \/ Tick \/ Sweep \/ UNCHANGED vars

LEMMA AsideSteps ==
  ASSUME Aside
  PROVE  UNCHANGED <<inflight, slots, call, pc, key, seen, joined>>
  BY DEF Aside, Change, Announce, ForgetHere, Notify, NotifyLost, Listen, Disconnect, Tick, Sweep,
     vars, lookups, callers

LEMMA NextSteps ==
  ASSUME [Next]_vars
  PROVE  \/ \E c \in Callers :
              \/ Resolve(c) \/ LookupCache(c) \/ Join(c) \/ TakeSlot(c) \/ GiveUpSlot(c)
              \/ Answered(c) \/ HangUp(c)
              \/ Check(c) \/ Query(c) \/ Remember(c) \/ Leave(c) \/ FreeSlot(c)
         \/ Aside
  BY DEF Next, ResolveSteps, LookupSteps, Aside

\* A lookup's own step: the call goes on, for the same key.
LEMMA LookupStep ==
  ASSUME TypeOK, NEW c \in Callers, Check(c) \/ Query(c) \/ Remember(c)
  PROVE  /\ \A d \in Callers \ {c} : call'[d] = call[d]
         /\ call'[c].key = call[c].key /\ call'[c].gen = call[c].gen
         /\ call'[c].drops = call[c].drops
         /\ call[c].state \in {"check", "query", "remember"}
         /\ call'[c].state \in {"query", "remember", "closed"}
         /\ call'[c].state = "query" => call'[c].answer = call[c].answer
         /\ UNCHANGED <<row, gen, drops, forgotten, inflight, slots, pc, key, seen, joined>>
  <1>0. call \in [Callers -> Calls]
    BY DEF TypeOK, Calls
  <1>1. CASE Check(c)
    BY <1>0, <1>1 DEF Check, Calls, cache, callers
  <1>2. CASE Query(c)
    BY <1>0, <1>2 DEF Query, Calls, cache, callers
  <1>3. CASE Remember(c)
    BY <1>0, <1>3 DEF Remember, Calls, callers
  <1> QED
    BY <1>1, <1>2, <1>3

LEMMA CallsKept == TypeOK /\ Booked /\ Placed /\ [Next]_vars => Booked' /\ Placed'
  <1> SUFFICES ASSUME TypeOK, Booked, Placed, [Next]_vars PROVE Booked' /\ Placed'
    OBVIOUS
  <1>0. /\ call \in [Callers -> Calls] /\ key \in [Callers -> Keys]
        /\ inflight \in [Keys -> Callers \cup {NoCall}] /\ joined \in [Callers -> Callers]
        /\ pc \in [Callers -> {"idle", "cache", "join", "slot", "wait"}] /\ slots \subseteq Callers
    BY DEF TypeOK, Calls
  <1>i. Idle.state = "idle" /\ Idle.answer = NoAnswer /\ NoCall \notin Callers
    BY KeyCacheAssumption DEF KeyCacheAssumption, Idle
  <1>1. ASSUME NEW c \in Callers, Resolve(c) PROVE Booked' /\ Placed'
    <2>1. /\ UNCHANGED <<inflight, slots, call, joined>>
          /\ pc[c] = "idle" /\ call[c] = Idle /\ c \notin slots
          /\ pc' = [pc EXCEPT ![c] = "cache"]
          /\ \A d \in Callers \ {c} : key'[d] = key[d]
      BY <1>0, <1>1 DEF Resolve, Go, lookups
    <2> QED
      BY <1>0, <1>i, <2>1 DEF Booked, Placed
  <1>2. ASSUME NEW c \in Callers, LookupCache(c) PROVE Booked' /\ Placed'
    <2>1. /\ UNCHANGED <<inflight, slots, call>>
          /\ pc[c] = "cache" /\ pc'[c] \in {"join", "idle"} /\ joined'[c] = c
          /\ \A d \in Callers \ {c} : pc'[d] = pc[d] /\ key'[d] = key[d] /\ joined'[d] = joined[d]
      BY <1>0, <1>2 DEF LookupCache, Return, Go, lookups, Placed
    <2> QED
      BY <1>0, <1>i, <2>1 DEF Booked, Placed
  <1>3. ASSUME NEW c \in Callers, Join(c) PROVE Booked' /\ Placed'
    <2>0. pc[c] = "join" /\ call[c] = Idle /\ slots' = slots /\ key' = key /\ c \notin slots
      BY <1>3 DEF Join, Placed
    <2>1. CASE inflight[key[c]] # NoCall
      <3>1. /\ UNCHANGED <<inflight, call>>
            /\ joined' = [joined EXCEPT ![c] = inflight[key[c]]] /\ pc' = [pc EXCEPT ![c] = "wait"]
        BY <1>3, <2>1 DEF Join, Go
      <3> QED
        BY <1>0, <1>i, <2>0, <3>1 DEF Booked, Placed
    <2>2. CASE inflight[key[c]] = NoCall
      <3>1. /\ inflight' = [inflight EXCEPT ![key[c]] = c] /\ joined' = joined
            /\ pc' = [pc EXCEPT ![c] = "slot"]
            /\ call' = [call EXCEPT ![c] = [state |-> "slot", answer |-> NoAnswer, key |-> key[c],
                                           gen |-> seen[c].gen, drops |-> seen[c].drops]]
        BY <1>3, <2>2 DEF Join, Go
      <3>2. /\ \A d \in Callers \ {c} : call'[d] = call[d]
            /\ call'[c].state = "slot" /\ call'[c].answer = NoAnswer /\ call'[c].key = key[c]
        BY <1>0, <3>1
      <3>3. Booked'
        BY <1>0, <1>i, <2>0, <2>2, <3>1, <3>2 DEF Booked, Active, Looking, Calls
      <3>4. Placed'
        BY <1>0, <2>0, <3>1, <3>2 DEF Placed
      <3> QED
        BY <3>3, <3>4
    <2> QED
      BY <2>1, <2>2
  <1>4. ASSUME NEW c \in Callers, TakeSlot(c) PROVE Booked' /\ Placed'
    <2>1. /\ pc[c] = "slot" /\ slots' = slots \cup {c} /\ pc' = [pc EXCEPT ![c] = "wait"]
          /\ UNCHANGED <<inflight, key, joined>>
      BY <1>4 DEF TakeSlot, Go
    <2>2. /\ \A d \in Callers \ {c} : call'[d] = call[d]
          /\ call'[c].state = "check" /\ call'[c].key = call[c].key
          /\ call'[c].answer = call[c].answer
      BY <1>0, <1>4 DEF TakeSlot, Calls
    <2>3. Booked'
      BY <1>0, <2>1, <2>2 DEF Booked, Placed, Active, Looking
    <2>4. Placed'
      BY <1>0, <2>1, <2>2 DEF Placed
    <2> QED
      BY <2>3, <2>4
  <1>5. ASSUME NEW c \in Callers, GiveUpSlot(c) PROVE Booked' /\ Placed'
    <2>1. /\ pc[c] = "slot" /\ inflight' = [inflight EXCEPT ![key[c]] = NoCall] /\ slots' = slots
          /\ pc' = [pc EXCEPT ![c] = "idle"] /\ joined' = [joined EXCEPT ![c] = c]
          /\ \A d \in Callers \ {c} : key'[d] = key[d]
      BY <1>0, <1>5 DEF GiveUpSlot, Return
    <2>2. /\ \A d \in Callers \ {c} : call'[d] = call[d]
          /\ call'[c] = Idle \/ call'[c].state = "left"
      <3>1. Gone(c, Failed, Callers \ {c})
              \in {Idle, [call[c] EXCEPT !.state = "left", !.answer = Failed]}
        BY GoneType, ConstantTypes
      <3>2. [call[c] EXCEPT !.state = "left", !.answer = Failed].state = "left"
        BY <1>0 DEF Calls
      <3> QED
        BY <1>0, <1>5, <3>1, <3>2 DEF GiveUpSlot
    <2>3. call[c].state = "slot" /\ call[c].key = key[c]
      BY <2>1 DEF Placed
    <2>4. Booked'
      BY <1>0, <1>i, <2>1, <2>2, <2>3, SMTT(20) DEF Booked, Active, Looking, Calls
    <2>5. Placed'
      BY <1>0, <1>i, <2>1, <2>2, <2>3 DEF Placed
    <2> QED
      BY <2>4, <2>5
  <1>6. ASSUME NEW c \in Callers, Answered(c) \/ HangUp(c) PROVE Booked' /\ Placed'
    <2>1. /\ pc[c] = "wait" /\ UNCHANGED <<inflight, slots>>
          /\ pc' = [pc EXCEPT ![c] = "idle"] /\ joined' = [joined EXCEPT ![c] = c]
          /\ \A d \in Callers \ {c} : key'[d] = key[d]
      BY <1>0, <1>6 DEF Answered, HangUp, Return
    <2>2. \A d \in Callers : \/ call'[d] = call[d]
                             \/ call[d].state = "left" /\ call'[d] = Idle
      BY <1>6, StopsWaiting DEF Answered, HangUp
    <2>3. Booked'
      BY <1>0, <1>i, <2>1, <2>2 DEF Booked, Active, Looking
    <2>4. Placed'
      BY <1>0, <1>i, <2>1, <2>2 DEF Placed
    <2> QED
      BY <2>3, <2>4
  <1>7. ASSUME NEW c \in Callers, Check(c) \/ Query(c) \/ Remember(c) PROVE Booked' /\ Placed'
    <2>1. Booked'
      BY <1>0, <1>7, LookupStep DEF Booked, Active, Looking
    <2>2. Placed'
      <3>1. /\ \A d \in Callers \ {c} : call'[d] = call[d]
            /\ call'[c].key = call[c].key
            /\ call[c].state \in {"check", "query", "remember"}
            /\ call'[c].state \in {"query", "remember", "closed"}
            /\ call'[c].state = "query" => call'[c].answer = call[c].answer
            /\ UNCHANGED <<slots, pc, key, joined>>
        BY <1>7, LookupStep
      <3>2. call[c].state = "remember" => call'[c].state # "query"
        BY <1>0, <1>7 DEF Check, Query, Remember, Calls
      <3> QED
        BY <1>0, <1>i, <3>1, <3>2 DEF Placed
    <2> QED
      BY <2>1, <2>2
  <1>8. ASSUME NEW c \in Callers, Leave(c) PROVE Booked' /\ Placed'
    <2>1. /\ call[c].state = "closed" /\ inflight' = [inflight EXCEPT ![call[c].key] = NoCall]
          /\ UNCHANGED <<slots, pc, key, joined>>
      BY <1>8 DEF Leave, callers
    <2>2. /\ \A d \in Callers \ {c} : call'[d] = call[d]
          /\ \/ call'[c] = Idle
             \/ call'[c].state = "left" /\ call'[c].key = call[c].key
      <3>0. call[c].answer \in Answers
        BY <1>0 DEF Calls
      <3>1. Gone(c, call[c].answer, Callers)
              \in {Idle, [call[c] EXCEPT !.state = "left", !.answer = call[c].answer]}
        BY <3>0, GoneType
      <3>2. /\ [call[c] EXCEPT !.state = "left", !.answer = call[c].answer].state = "left"
            /\ [call[c] EXCEPT !.state = "left", !.answer = call[c].answer].key = call[c].key
        BY <1>0 DEF Calls
      <3> QED
        BY <1>0, <1>8, <3>1, <3>2 DEF Leave
    <2>3. Booked'
      <3>1. ASSUME NEW d \in Callers, call'[d].state \in Active
            PROVE  d # c /\ call'[d] = call[d] /\ inflight'[call[d].key] = d
        <4>1. d # c /\ call'[d] = call[d]
          BY <1>i, <2>2, <3>1 DEF Active
        <4>2. inflight[call[d].key] = d /\ inflight[call[c].key] = c
          BY <2>1, <3>1, <4>1 DEF Booked, Active
        <4> QED
          BY <1>0, <2>1, <4>1, <4>2 DEF Calls
      <3> QED
        BY <2>1, <3>1 DEF Booked, Active, Looking
    <2>4. Placed'
      BY <1>0, <1>i, <2>1, <2>2 DEF Placed
    <2> QED
      BY <2>3, <2>4
  <1>9. ASSUME NEW c \in Callers, FreeSlot(c) PROVE Booked' /\ Placed'
    BY <1>0, <1>9 DEF FreeSlot, Booked, Placed, Looking, callers
  <1>10. CASE Aside
    BY <1>10, AsideSteps DEF Booked, Placed
  <1> QED
    BY <1>1, <1>2, <1>3, <1>4, <1>5, <1>6, <1>7, <1>8, <1>9, <1>10, NextSteps

-----------------------------------------------------------------------------
(* What only grows.                                                        *)

\* What Forget does: it drops entries, or ends the generation, or both keeps
\* queries under way from being cached.
LEMMA ForgetSteps ==
  ASSUME TypeOK, Behind, NEW a \in Announcements, a \in Changes, Forget(a)
  PROVE  /\ gen' \in Nat /\ drops' \in Nat /\ gen <= gen' /\ drops <= drops'
         /\ gen < gen' \/ drops < drops'
         /\ \A k \in Keys : keys'[k] = keys[k] \/ keys'[k] = NoEntry
         /\ \A k \in Keys : forgotten[k] <= forgotten'[k] /\ forgotten'[k] <= row[k].ver
         /\ \A k \in Keys : \/ forgotten'[k] = forgotten[k] \/ gen < gen' \/ keys'[k] = NoEntry
                            \/ keys'[k].answer.value \notin Usable
  <1>0. /\ gen \in Nat /\ drops \in Nat /\ keys \in [Keys -> {NoEntry} \cup Entries]
        /\ forgotten \in [Keys -> 0..MaxChanges] /\ MaxChanges \in Nat
        /\ a.key \in Keys /\ a.ver \in 0..MaxChanges /\ a.ver <= row[a.key].ver
    BY ConstantTypes DEF TypeOK, Entries, Changes, Behind
  <1>1. \A k \in Keys : forgotten[k] <= row[k].ver /\ row[k].ver \in Nat
    BY ConstantTypes DEF TypeOK, Behind
  <1>2. \A k \in Keys : forgotten[k] <= forgotten'[k] /\ forgotten'[k] <= row[k].ver
    BY <1>0, <1>1 DEF Forget
  <1>3. \A k \in Keys \ {a.key} : forgotten'[k] = forgotten[k]
    BY <1>0 DEF Forget
  <1>4. CASE a.kind = "key"
    <2>1. /\ keys' = [keys EXCEPT ![a.key] =
                        IF @ # NoEntry /\ @.answer.value \in Usable THEN NoEntry ELSE @]
          /\ drops' = drops + 1 /\ gen' = gen
      BY <1>4 DEF Forget
    <2>2. \/ keys'[a.key] = NoEntry
          \/ keys'[a.key] = keys[a.key] /\ keys'[a.key].answer.value \notin Usable
      BY <1>0, <2>1
    <2>3. \A k \in Keys \ {a.key} : keys'[k] = keys[k]
      BY <1>0, <2>1
    <2> QED
      BY <1>0, <1>2, <1>3, <2>1, <2>2, <2>3
  <1>5. CASE a.kind # "key"
    <2>1. gen' = gen + 1 /\ keys' = keys /\ drops' = drops
      BY <1>5 DEF Forget
    <2> QED
      BY <1>0, <1>2, <2>1
  <1> QED
    BY <1>4, <1>5

\* The first announcement on the channel is one.
LEMMA HeadAnnounced ==
  ASSUME TypeOK, channel # <<>>
  PROVE  /\ Head(channel) \in Announcements /\ Head(channel) \in Changes
         /\ \A i \in DOMAIN Tail(channel) :
              i + 1 \in DOMAIN channel /\ Tail(channel)[i] = channel[i + 1]
  <1>1. channel \in Seq(Changes)
    BY DEF TypeOK, Changes
  <1>2. Head(channel) = channel[1] /\ 1 \in DOMAIN channel
    BY <1>1
  <1> QED
    BY <1>1, <1>2 DEF Announcements

LEMMA BehindKept == TypeOK /\ Behind /\ Placed /\ [Next]_vars => Behind'
  <1> SUFFICES ASSUME TypeOK, Behind, Placed, [Next]_vars PROVE Behind'
    OBVIOUS
  <1>0. /\ call \in [Callers -> Calls] /\ key \in [Callers -> Keys]
        /\ keys \in [Keys -> {NoEntry} \cup Entries]
        /\ seen \in [Callers -> Seens] /\ gen \in Nat /\ drops \in Nat
        /\ forgotten \in [Keys -> 0..MaxChanges] /\ joined \in [Callers -> Callers]
        /\ changed \subseteq Changes /\ channel \in Seq(Changes) /\ changes \in Nat
        /\ row \in [Keys -> [value : Usable \cup Rejected, ver : 0..MaxChanges]]
    BY ConstantTypes, SMTT(20) DEF TypeOK, Calls, Entries, Changes, Seens
  <1>i. /\ Idle.gen = 0 /\ Idle.drops = 0
        /\ Unseen.gen = 0 /\ Unseen.drops = 0 /\ Unseen.forgotten = 0
        /\ AnyKey \in Keys
    BY ConstantTypes DEF Idle, Unseen
  <1>b. /\ \A d \in Callers : /\ call[d].gen \in Nat /\ call[d].drops \in Nat
                             /\ call[d].gen <= gen /\ call[d].drops <= drops
        /\ \A d \in Callers : /\ seen[d].gen \in Nat /\ seen[d].drops \in Nat
                             /\ seen[d].gen <= gen /\ seen[d].drops <= drops
                             /\ seen[d].forgotten <= forgotten[key[d]]
        /\ \A k \in Keys : row[k].ver <= changes /\ forgotten[k] <= row[k].ver
        /\ 0 <= gen /\ 0 <= drops
    BY <1>0 DEF Calls, Seens, Behind
  <1> DEFINE SeenThen(d) == /\ seen'[d].gen <= gen /\ seen'[d].drops <= drops
                            /\ seen'[d].forgotten <= forgotten[key'[d]]
  <1>c. ASSUME UNCHANGED <<row, changes, cache, announced>>,
               \A c \in Callers : call'[c].gen <= gen /\ call'[c].drops <= drops,
               \A c \in Callers : SeenThen(c)
        PROVE  Behind'
    BY <1>c DEF Behind, Announcements, cache, announced
  <1>1. ASSUME NEW c \in Callers, Resolve(c) PROVE Behind'
    <2>1. PICK k \in Keys :
            /\ key' = [key EXCEPT ![c] = k]
            /\ seen' = [seen EXCEPT ![c] = [gen |-> gen, drops |-> 0, forgotten |-> forgotten[k]]]
      BY <1>1 DEF Resolve
    <2>2. \A d \in Callers : SeenThen(d)
      BY <1>0, <2>1, ConstantTypes, SMTT(20) DEF Behind, Seens
    <2>3. UNCHANGED <<row, changes, cache, announced, call>>
      BY <1>1 DEF Resolve, lookups
    <2> QED
      BY <1>c, <2>2, <2>3 DEF Behind
  <1>r. ASSUME NEW c \in Callers, Return(c)
        PROVE  \A d \in Callers : SeenThen(d)
    BY <1>0, <1>i, <1>r, ConstantTypes DEF Return, Behind
  <1>2. ASSUME NEW c \in Callers, LookupCache(c) PROVE Behind'
    <2>1. UNCHANGED <<row, changes, cache, announced, call>>
      BY <1>2 DEF LookupCache, lookups
    <2>2. \A d \in Callers : SeenThen(d)
      <3>1. CASE Hit(key[c], seen[c].gen)
        BY <1>2, <1>r, <3>1 DEF LookupCache
      <3>2. CASE ~Hit(key[c], seen[c].gen)
        <4>1. seen' = [seen EXCEPT ![c].drops = drops] /\ key' = key
          BY <1>2, <3>2 DEF LookupCache
        <4>2. \A d \in Callers : /\ seen'[d].gen = seen[d].gen
                                 /\ seen'[d].drops \in {seen[d].drops, drops}
                                 /\ seen'[d].forgotten = seen[d].forgotten
          BY <1>0, <4>1 DEF Seens
        <4> QED
          BY <1>0, <4>1, <4>2 DEF Behind
      <3> QED
        BY <3>1, <3>2
    <2> QED
      BY <1>c, <2>1, <2>2 DEF Behind
  <1>3. ASSUME NEW c \in Callers, Join(c) PROVE Behind'
    <2>1. UNCHANGED <<row, changes, cache, announced>> /\ key' = key
      BY <1>3 DEF Join
    <2>2. \A d \in Callers : /\ seen'[d].gen \in {0, seen[d].gen}
                             /\ seen'[d].drops \in {0, seen[d].drops}
                             /\ seen'[d].forgotten = seen[d].forgotten
      BY <1>0, <1>3 DEF Join, Seens
    <2>3. \A d \in Callers : \/ call'[d] = call[d]
                             \/ call'[d].gen = seen[d].gen /\ call'[d].drops = seen[d].drops
      BY <1>0, <1>3 DEF Join
    <2> QED
      <3>1. \A d \in Callers : call'[d].gen <= gen /\ call'[d].drops <= drops
        BY <2>3 DEF Behind
      <3>2. \A d \in Callers : SeenThen(d)
        BY <1>b, <2>1, <2>2
      <3> QED
        BY <1>c, <2>1, <3>1, <3>2
  <1>4. ASSUME NEW c \in Callers,
               TakeSlot(c) \/ Check(c) \/ Query(c) \/ Leave(c) \/ FreeSlot(c)
        PROVE  Behind'
    <2>1. UNCHANGED <<row, changes, cache, announced, seen, key>>
      BY <1>4 DEF TakeSlot, Check, Query, Leave, FreeSlot, callers
    <2>2. \A d \in Callers : \/ call'[d] = Idle
                             \/ call'[d].gen = call[d].gen /\ call'[d].drops = call[d].drops
      <3>1. CASE TakeSlot(c) \/ FreeSlot(c)
        <4>1. call' = call \/ call' = [call EXCEPT ![c].state = "check"]
          BY <3>1 DEF TakeSlot, FreeSlot
        <4>2. /\ [call[c] EXCEPT !.state = "check"].gen = call[c].gen
              /\ [call[c] EXCEPT !.state = "check"].drops = call[c].drops
          BY <1>0 DEF Calls
        <4> QED
          BY <1>0, <4>1, <4>2
      <3>2. CASE Check(c) \/ Query(c)
        BY <3>2, LookupStep
      <3>3. CASE Leave(c)
        <4>1. call' = [call EXCEPT ![c] = Gone(c, call[c].answer, Callers)]
          BY <1>0, <3>3 DEF Leave
        <4>2. call[c].answer \in Answers
          BY <1>0 DEF Calls
        <4>3. Gone(c, call[c].answer, Callers)
                \in {Idle, [call[c] EXCEPT !.state = "left", !.answer = call[c].answer]}
          BY <4>2, GoneType
        <4>4. [call[c] EXCEPT !.state = "left", !.answer = call[c].answer].gen = call[c].gen
              /\ [call[c] EXCEPT !.state = "left", !.answer = call[c].answer].drops = call[c].drops
          BY <1>0 DEF Calls
        <4> QED
          BY <1>0, <4>1, <4>3, <4>4
      <3> QED
        BY <1>4, <3>1, <3>2, <3>3
    <2> QED
      <3>1. \A d \in Callers : call'[d].gen <= gen /\ call'[d].drops <= drops
        BY <1>b, <1>i, <2>2
      <3>2. \A d \in Callers : SeenThen(d)
        BY <2>1 DEF Behind
      <3> QED
        BY <1>c, <2>1, <3>1, <3>2
  <1>5. ASSUME NEW c \in Callers, GiveUpSlot(c) \/ Answered(c) \/ HangUp(c) PROVE Behind'
    <2>1. UNCHANGED <<row, changes, cache, announced>> /\ Return(c)
      BY <1>5 DEF GiveUpSlot, Answered, HangUp
    <2>2. \A d \in Callers : \/ call'[d] = Idle
                             \/ call'[d].gen = call[d].gen /\ call'[d].drops = call[d].drops
      <3>1. CASE GiveUpSlot(c)
        <4>1. Gone(c, Failed, Callers \ {c})
                \in {Idle, [call[c] EXCEPT !.state = "left", !.answer = Failed]}
          BY ConstantTypes, GoneType
        <4>2. [call[c] EXCEPT !.state = "left", !.answer = Failed].gen = call[c].gen
              /\ [call[c] EXCEPT !.state = "left", !.answer = Failed].drops = call[c].drops
          BY <1>0 DEF Calls
        <4> QED
          BY <1>0, <3>1, <4>1, <4>2 DEF GiveUpSlot
      <3>2. CASE Answered(c) \/ HangUp(c)
        BY <3>2, StopsWaiting DEF Answered, HangUp
      <3> QED
        BY <1>5, <3>1, <3>2
    <2> QED
      <3>1. \A d \in Callers : call'[d].gen <= gen /\ call'[d].drops <= drops
        BY <1>b, <1>i, <2>2
      <3>2. \A d \in Callers : SeenThen(d)
        BY <1>r, <2>1
      <3> QED
        BY <1>c, <2>1, <3>1, <3>2
  <1>6. ASSUME NEW c \in Callers, Remember(c) PROVE Behind'
    <2>1. /\ UNCHANGED <<row, changes, gen, drops, forgotten, announced, seen, key>>
      BY <1>6 DEF Remember, callers
    <2>2. \A d \in Callers : call'[d].gen = call[d].gen /\ call'[d].drops = call[d].drops
      BY <1>6, LookupStep
    <2>3. \A k \in Keys : keys'[k] = keys[k] \/ keys'[k].gen = call[c].gen
      BY <1>0, <1>6 DEF Remember, Cached
    <2> QED
      <3>1. \A k \in Keys : keys'[k] # NoEntry => keys'[k].gen <= gen
        BY <1>b, <2>3 DEF Behind
      <3>2. Announcements' = Announcements
        BY <2>1 DEF Announcements, announced
      <3> QED
        BY <2>1, <2>2, <3>1, <3>2 DEF Behind
  <1>7. ASSUME NEW k \in Keys, Change(k) PROVE Behind'
    <2>0. \A j \in Keys : row[j].ver \in Nat /\ forgotten[j] \in Nat
      BY <1>0, ConstantTypes
    <2>1. /\ UNCHANGED <<keys, gen, drops, forgotten, call, seen, key, channel>>
          /\ changes' = changes + 1
      BY <1>7 DEF Change, cache, lookups, callers
    <2>2. \A j \in Keys : row'[j].ver = row[j].ver + IF j = k THEN 1 ELSE 0
      BY <1>0, <1>7 DEF Change
    <2>3. \A a \in changed' : a \in changed \/ (a.key = k /\ a.ver = row[k].ver + 1)
      BY <1>7 DEF Change
    <2>4. \A a \in Announcements' : a.ver <= row'[a.key].ver
      <3>1. ASSUME NEW a \in Announcements, a \in Changes PROVE a.ver <= row'[a.key].ver
        <4>1. a.ver <= row[a.key].ver /\ a.key \in Keys /\ a.ver \in Nat /\ row[a.key].ver \in Nat
          BY <1>0, <3>1, ConstantTypes DEF Behind, Changes
        <4> QED
          BY <2>2, <4>1
      <3>2. Announcements \subseteq Changes
        BY <1>0 DEF Announcements
      <3>3. \A a \in Announcements' : a \in Announcements \/ (a.key = k /\ a.ver = row[k].ver + 1)
        BY <2>1, <2>3 DEF Announcements
      <3> QED
        BY <2>0, <2>2, <3>1, <3>2, <3>3
    <2>5. \A j \in Keys : row'[j].ver <= changes' /\ forgotten'[j] <= row'[j].ver
      <3>1. changes \in Nat
        BY <1>0
      <3> QED
        BY <1>b, <2>0, <2>1, <2>2, <3>1
    <2> QED
      BY <2>1, <2>4, <2>5 DEF Behind
  <1>f. ASSUME NEW a \in Announcements, a \in Changes, Forget(a), Announcements' \subseteq
                 Announcements \cup {[a EXCEPT !.here = FALSE]},
               UNCHANGED <<row, changes, lookups, callers>>
        PROVE  Behind'
    <2>1. UNCHANGED <<row, changes, call, seen, key>>
      BY <1>f DEF lookups, callers
    <2>2. \A b \in Announcements' : b.ver <= row[b.key].ver
      <3>1. [a EXCEPT !.here = FALSE].ver = a.ver /\ [a EXCEPT !.here = FALSE].key = a.key
        BY <1>f DEF Changes
      <3> QED
        BY <1>f, <3>1 DEF Behind
    <2>3. /\ gen' \in Nat /\ drops' \in Nat /\ gen <= gen' /\ drops <= drops'
          /\ \A k \in Keys : keys'[k] = keys[k] \/ keys'[k] = NoEntry
          /\ \A k \in Keys : forgotten[k] <= forgotten'[k] /\ forgotten'[k] <= row[k].ver
      BY <1>f, ForgetSteps
    <2>4. \A k \in Keys : keys'[k] # NoEntry => keys'[k].gen <= gen'
      BY <1>0, <2>3 DEF Behind, Entries
    <2>5. \A c \in Callers : /\ call'[c].gen <= gen' /\ call'[c].drops <= drops'
                             /\ seen'[c].gen <= gen' /\ seen'[c].drops <= drops'
      BY <1>0, <2>1, <2>3 DEF Behind, Calls, Seens
    <2>6. forgotten' \in [Keys -> 0..MaxChanges]
      BY <1>f, ForgetType
    <2>7. \A c \in Callers : seen'[c].forgotten <= forgotten'[key'[c]]
      BY <1>0, <2>1, <2>3, <2>6, ConstantTypes, SMTT(20) DEF Behind, Seens
    <2> QED
      BY <2>1, <2>2, <2>3, <2>4, <2>5, <2>7 DEF Behind
  <1>8. ASSUME NEW a \in changed, ForgetHere(a) PROVE Behind'
    <2>1. a \in Announcements /\ a \in Changes
      BY <1>0 DEF Announcements
    <2>2. Announcements' \subseteq Announcements \cup {[a EXCEPT !.here = FALSE]}
      BY <1>8 DEF ForgetHere, Announcements
    <2> QED
      BY <1>8, <1>f, <2>1, <2>2 DEF ForgetHere
  <1>9. CASE Listen
    <2>1. channel # <<>> /\ channel' = Tail(channel) /\ changed' = changed
      BY <1>9 DEF Listen
    <2>2. Announcements' \subseteq Announcements
      BY <2>1, HeadAnnounced DEF Announcements
    <2> QED
      BY <1>9, <1>f, <2>1, <2>2, HeadAnnounced DEF Listen
  <1>10. ASSUME UNCHANGED <<row, changes, cache, lookups, callers>>,
                Announcements' \subseteq Announcements
         PROVE  Behind'
    BY <1>10 DEF Behind, cache, lookups, callers
  <1>11. ASSUME NEW a \in changed, Notify(a) PROVE Behind'
    <2>1. channel' = Append(channel, a) /\ changed' = changed \ {a}
      BY <1>11 DEF Notify
    <2>2. \A i \in DOMAIN channel' : channel'[i] \in Announcements
      BY <1>0, <2>1 DEF Announcements
    <2>3. Announcements' \subseteq Announcements
      BY <2>1, <2>2 DEF Announcements
    <2> QED
      BY <1>10, <1>11, <2>3 DEF Notify
  <1>12. ASSUME NEW a \in changed, NotifyLost(a) PROVE Behind'
    <2>1. Announcements' \subseteq Announcements
      BY <1>12 DEF NotifyLost, Announcements
    <2> QED
      BY <1>10, <1>12, <2>1 DEF NotifyLost
  <1>13. CASE Disconnect
    <2>1. Announcements' \subseteq Announcements
      BY <1>13 DEF Disconnect, Announcements
    <2> QED
      BY <1>10, <1>13, <2>1 DEF Disconnect
  <1>14. CASE Tick \/ Sweep
    <2>1. UNCHANGED <<row, changes, gen, drops, forgotten, call, seen, key, changed, channel>>
      BY <1>14 DEF Tick, Sweep, lookups, callers, announced
    <2>2. \A k \in Keys : keys'[k] = NoEntry \/ (keys[k] # NoEntry /\ keys'[k].gen = keys[k].gen)
      BY <1>0, <1>14 DEF Tick, Sweep, Entries
    <2> QED
      BY <2>1, <2>2 DEF Behind, Announcements
  <1>15. CASE UNCHANGED vars
    BY <1>15 DEF vars, Behind, Announcements, cache, lookups, callers, announced
  <1> QED
    BY <1>1, <1>2, <1>3, <1>4, <1>5, <1>6, <1>7, <1>8, <1>9, <1>11, <1>12, <1>13, <1>14, <1>15
       DEF Next, ResolveSteps, LookupSteps, Announce

-----------------------------------------------------------------------------
(* Freshness.                                                              *)

\* A waiting caller's own answer is as new as it may expect.
AnswerFresh(c) == pc[c] = "wait" /\ joined[c] = c => Since(call[c].answer, seen[c].forgotten)

\* A step after which nobody new asks, no new answer may be cached and no new
\* entry is there keeps the cache fresh.
LEMMA FreshShrinks ==
  ASSUME Fresh, UNCHANGED <<gen, drops, forgotten>>,
         \A k \in Keys : \/ keys'[k] = NoEntry
                         \/ /\ keys[k] # NoEntry
                            /\ keys'[k].answer = keys[k].answer /\ keys'[k].gen = keys[k].gen,
         \A c \in Callers : Asking(c)' => /\ Asking(c) /\ AskedIn(c)' = AskedIn(c)
                                          /\ seen'[c].forgotten = seen[c].forgotten
                                          /\ key'[c] = key[c],
         \A d \in Callers : Cacheable(d)' => /\ Cacheable(d) /\ call'[d].answer = call[d].answer
                                             /\ call'[d].gen = call[d].gen
                                             /\ call'[d].key = call[d].key,
         \A c \in Callers : AnswerFresh(c)',
         key' \in [Callers -> Keys]
  PROVE  Fresh'
  <1>1. \A k \in Keys :
          keys'[k] # NoEntry /\ keys'[k].gen = gen' => Since(keys'[k].answer, forgotten'[k])
    BY DEF Fresh
  <1>2. \A d \in Callers : Cacheable(d)' /\ call'[d].gen = gen'
                             => Since(call'[d].answer, forgotten'[call'[d].key])
    BY DEF Fresh
  <1>3. \A c \in Callers :
          Asking(c)' /\ keys'[key'[c]] # NoEntry /\ keys'[key'[c]].gen = AskedIn(c)'
            => Since(keys'[key'[c]].answer, seen'[c].forgotten)
    BY DEF Fresh
  <1>4. \A c, d \in Callers :
          Asking(c)' /\ Cacheable(d)' /\ call'[d].key = key'[c] /\ call'[d].gen = AskedIn(c)'
            => Since(call'[d].answer, seen'[c].forgotten)
    BY DEF Fresh
  <1> QED
    BY <1>1, <1>2, <1>3, <1>4 DEF Fresh, AnswerFresh, Since

\* What lets nobody in is fresh.
LEMMA NeverOutdated ==
  ASSUME NEW v
  PROVE  Since(NoAnswer, v) /\ Since(Failed, v) /\ Since(Idle.answer, v)
  BY ConstantTypes DEF Since, Idle

\* Forget: the entries and the answers it leaves are none of the new state's,
\* or were read after what it forgets.
LEMMA ForgetFresh ==
  ASSUME TypeOK, Behind, Fresh, NEW a \in Announcements, a \in Changes, Forget(a),
         UNCHANGED <<call, pc, key, seen, joined>>
  PROVE  Fresh'
  <1>0. /\ gen \in Nat /\ drops \in Nat /\ keys \in [Keys -> {NoEntry} \cup Entries]
        /\ call \in [Callers -> Calls] /\ key \in [Callers -> Keys]
    BY DEF TypeOK, Entries, Calls
  <1>1. /\ gen' \in Nat /\ drops' \in Nat /\ gen <= gen' /\ drops <= drops'
        /\ gen < gen' \/ drops < drops'
        /\ \A k \in Keys : keys'[k] = keys[k] \/ keys'[k] = NoEntry
        /\ \A k \in Keys : \/ forgotten'[k] = forgotten[k] \/ gen < gen' \/ keys'[k] = NoEntry
                           \/ keys'[k].answer.value \notin Usable
    BY ForgetSteps
  <1>2. \A k \in Keys :
          keys'[k] # NoEntry /\ keys'[k].gen = gen' => Since(keys'[k].answer, forgotten'[k])
    <2> SUFFICES ASSUME NEW k \in Keys, keys'[k] # NoEntry, keys'[k].gen = gen'
                 PROVE  Since(keys'[k].answer, forgotten'[k])
      OBVIOUS
    <2>1. keys'[k] = keys[k] /\ keys[k].gen <= gen /\ keys[k].gen \in Nat
      BY <1>0, <1>1 DEF Behind, Entries
    <2>2. gen' = gen
      BY <1>0, <1>1, <2>1
    <2>3. Since(keys[k].answer, forgotten[k])
      BY <2>1, <2>2 DEF Fresh
    <2> QED
      BY <1>0, <1>1, <2>1, <2>2, <2>3 DEF Since
  <1>3. \A d \in Callers : Cacheable(d)' => Cacheable(d) /\ gen < gen'
    BY <1>0, <1>1 DEF Cacheable, Behind, Calls
  <1>4. \A d \in Callers : Cacheable(d)' => call'[d].gen # gen'
    BY <1>0, <1>1, <1>3 DEF Behind, Calls
  <1>5. \A c \in Callers : (Asking(c)' <=> Asking(c)) /\ AskedIn(c)' = AskedIn(c)
    BY DEF Asking, AskedIn
  <1>6. \A c \in Callers :
          Asking(c)' /\ keys'[key'[c]] # NoEntry /\ keys'[key'[c]].gen = AskedIn(c)'
            => Since(keys'[key'[c]].answer, seen'[c].forgotten)
    BY <1>0, <1>1, <1>5 DEF Fresh
  <1>7. \A c, d \in Callers :
          Asking(c)' /\ Cacheable(d)' /\ call'[d].key = key'[c] /\ call'[d].gen = AskedIn(c)'
            => Since(call'[d].answer, seen'[c].forgotten)
    BY <1>3, <1>5 DEF Fresh
  <1>8. \A c \in Callers :
          pc'[c] = "wait" /\ joined'[c] = c => Since(call'[c].answer, seen'[c].forgotten)
    BY DEF Fresh
  <1> QED
    BY <1>2, <1>4, <1>6, <1>7, <1>8 DEF Fresh, Since

LEMMA FreshKept == Inv /\ TypeOK' /\ [Next]_vars => Fresh'
  <1> SUFFICES ASSUME Inv, TypeOK', [Next]_vars PROVE Fresh'
    OBVIOUS
  <1>0. /\ call \in [Callers -> Calls] /\ key \in [Callers -> Keys]
        /\ keys \in [Keys -> {NoEntry} \cup Entries]
        /\ seen \in [Callers -> Seens] /\ gen \in Nat /\ drops \in Nat
        /\ joined \in [Callers -> Callers]
        /\ pc \in [Callers -> {"idle", "cache", "join", "slot", "wait"}]
    BY DEF Inv, TypeOK, Calls, Entries, Seens
  <1>k. key' \in [Callers -> Keys]
    BY DEF TypeOK
  <1>p. TypeOK /\ Booked /\ Placed /\ Behind /\ Fresh
    BY DEF Inv
  <1>a. \A c \in Callers : AnswerFresh(c)
    BY <1>p DEF Fresh, AnswerFresh
  <1>v. \A k \in Keys : row[k].ver \in Nat /\ forgotten[k] \in Nat
    BY <1>p, ConstantTypes DEF TypeOK
  <1>i. Idle.state = "idle" /\ Idle.answer = NoAnswer
    BY DEF Idle
  <1>q. ASSUME UNCHANGED <<keys, gen, drops, forgotten>>,
               \A c \in Callers : Asking(c)' => /\ Asking(c) /\ AskedIn(c)' = AskedIn(c)
                                                /\ seen'[c].forgotten = seen[c].forgotten
                                                /\ key'[c] = key[c],
               \A d \in Callers : Cacheable(d)' => call'[d] = call[d],
               \A c \in Callers : AnswerFresh(c)'
        PROVE  Fresh'
    <2>1. \A d \in Callers : Cacheable(d)' => /\ Cacheable(d) /\ call'[d].answer = call[d].answer
                                              /\ call'[d].gen = call[d].gen
                                              /\ call'[d].key = call[d].key
      BY <1>q DEF Cacheable
    <2> QED
      BY <1>k, <1>p, <1>q, <2>1, FreshShrinks
  <1>1. ASSUME NEW c \in Callers, Resolve(c) PROVE Fresh'
    <2>1. PICK k \in Keys :
            /\ key' = [key EXCEPT ![c] = k]
            /\ seen' = [seen EXCEPT ![c] = [gen |-> gen, drops |-> 0, forgotten |-> forgotten[k]]]
      BY <1>1 DEF Resolve
    <2>2. /\ pc' = [pc EXCEPT ![c] = "cache"]
          /\ UNCHANGED <<keys, gen, drops, forgotten, call, joined>>
      BY <1>1 DEF Resolve, Go, cache, lookups
    <2>3. key'[c] = k /\ seen'[c].gen = gen /\ seen'[c].forgotten = forgotten[k] /\ pc'[c] = "cache"
      BY <1>0, <2>1, <2>2
    <2>4. \A e \in Callers \ {c} : key'[e] = key[e] /\ seen'[e] = seen[e] /\ pc'[e] = pc[e]
      BY <1>0, <2>1, <2>2
    <2>5. \A e \in Callers \ {c} : (Asking(e)' <=> Asking(e)) /\ AskedIn(e)' = AskedIn(e)
      BY <2>2, <2>4 DEF Asking, AskedIn
    <2>6. AskedIn(c)' = gen
      BY <2>3 DEF AskedIn
    <2>7. \A d \in Callers : Cacheable(d)' <=> Cacheable(d)
      BY <2>2 DEF Cacheable
    <2>8. \A e \in Callers :
            Asking(e)' /\ keys'[key'[e]] # NoEntry /\ keys'[key'[e]].gen = AskedIn(e)'
              => Since(keys'[key'[e]].answer, seen'[e].forgotten)
      BY <1>p, <2>2, <2>3, <2>4, <2>5, <2>6 DEF Fresh
    <2>9. \A e, d \in Callers :
            Asking(e)' /\ Cacheable(d)' /\ call'[d].key = key'[e] /\ call'[d].gen = AskedIn(e)'
              => Since(call'[d].answer, seen'[e].forgotten)
      BY <1>p, <2>2, <2>3, <2>4, <2>5, <2>6, <2>7 DEF Fresh
    <2>10. \A e \in Callers :
             pc'[e] = "wait" /\ joined'[e] = e => Since(call'[e].answer, seen'[e].forgotten)
      BY <1>p, <2>2, <2>3, <2>4 DEF Fresh
    <2>11. /\ \A j \in Keys :
                keys'[j] # NoEntry /\ keys'[j].gen = gen' => Since(keys'[j].answer, forgotten'[j])
           /\ \A d \in Callers : Cacheable(d)' /\ call'[d].gen = gen'
                                   => Since(call'[d].answer, forgotten'[call'[d].key])
      BY <1>p, <2>2, <2>7 DEF Fresh
    <2> QED
      BY <2>8, <2>9, <2>10, <2>11 DEF Fresh, Since
  <1>2. ASSUME NEW c \in Callers, LookupCache(c) PROVE Fresh'
    <2>1. /\ UNCHANGED <<keys, gen, drops, forgotten, call>> /\ pc[c] = "cache"
          /\ \A e \in Callers \ {c} : /\ pc'[e] = pc[e] /\ key'[e] = key[e]
                                      /\ joined'[e] = joined[e] /\ seen'[e] = seen[e]
          /\ \/ pc'[c] = "idle"
             \/ /\ pc'[c] = "join" /\ key'[c] = key[c]
                /\ seen'[c].gen = seen[c].gen /\ seen'[c].forgotten = seen[c].forgotten
      BY <1>0, <1>2 DEF LookupCache, Return, Go, Seens, cache, lookups
    <2>2. \A e \in Callers : Asking(e)' => /\ Asking(e) /\ AskedIn(e)' = AskedIn(e)
                                           /\ seen'[e].forgotten = seen[e].forgotten
                                           /\ key'[e] = key[e]
      BY <2>1 DEF Asking, AskedIn
    <2>3. \A e \in Callers : AnswerFresh(e)'
      BY <1>a, <2>1 DEF AnswerFresh, Since
    <2> QED
      BY <1>q, <2>1, <2>2, <2>3
  <1>3. ASSUME NEW c \in Callers, Join(c) PROVE Fresh'
    <2>0. /\ pc[c] = "join" /\ call[c] = Idle /\ UNCHANGED <<keys, gen, drops, forgotten, key>>
          /\ seen'[c].forgotten = seen[c].forgotten
          /\ \A e \in Callers \ {c} : seen'[e] = seen[e]
      BY <1>0, <1>3, <1>p DEF Join, Placed, cache, Seens
    <2>1. CASE inflight[key[c]] # NoCall
      <3>1. /\ call' = call /\ pc'[c] = "wait"
            /\ \A e \in Callers \ {c} : pc'[e] = pc[e] /\ joined'[e] = joined[e]
        BY <1>0, <1>3, <2>1 DEF Join, Go
      <3>2. \A e \in Callers : Asking(e)' => /\ Asking(e) /\ AskedIn(e)' = AskedIn(e)
                                             /\ seen'[e].forgotten = seen[e].forgotten
                                             /\ key'[e] = key[e]
        BY <1>i, <2>0, <3>1 DEF Asking, AskedIn
      <3>3. \A e \in Callers : AnswerFresh(e)'
        BY <1>a, <1>i, <2>0, <3>1, NeverOutdated DEF AnswerFresh
      <3> QED
        BY <1>q, <2>0, <3>1, <3>2, <3>3
    <2>2. CASE inflight[key[c]] = NoCall
      <3>1. /\ joined' = joined /\ pc'[c] = "slot"
            /\ call'[c].state = "slot" /\ call'[c].gen = seen[c].gen
            /\ \A e \in Callers \ {c} : pc'[e] = pc[e] /\ call'[e] = call[e]
        BY <1>0, <1>3, <2>2 DEF Join, Go
      <3>2. \A e \in Callers : Asking(e)' => /\ Asking(e) /\ AskedIn(e)' = AskedIn(e)
                                             /\ seen'[e].forgotten = seen[e].forgotten
                                             /\ key'[e] = key[e]
        BY <2>0, <3>1 DEF Asking, AskedIn
      <3>3. \A e \in Callers : AnswerFresh(e)'
        BY <1>a, <2>0, <3>1 DEF AnswerFresh, Since
      <3>4. \A d \in Callers : Cacheable(d)' => call'[d] = call[d]
        BY <3>1 DEF Cacheable
      <3> QED
        BY <1>q, <2>0, <3>2, <3>3, <3>4
    <2> QED
      BY <2>1, <2>2
  <1>4. ASSUME NEW c \in Callers, TakeSlot(c) PROVE Fresh'
    <2>1. /\ pc[c] = "slot" /\ pc'[c] = "wait"
          /\ UNCHANGED <<keys, gen, drops, forgotten, key, seen, joined>>
          /\ \A e \in Callers \ {c} : pc'[e] = pc[e]
      BY <1>0, <1>4 DEF TakeSlot, Go, cache
    <2>2. /\ \A d \in Callers \ {c} : call'[d] = call[d]
          /\ call'[c].state = "check" /\ call'[c].gen = call[c].gen
          /\ call'[c].answer = call[c].answer
      BY <1>0, <1>4 DEF TakeSlot, Calls
    <2>3. \A e \in Callers : Asking(e)' => /\ Asking(e) /\ AskedIn(e)' = AskedIn(e)
                                           /\ seen'[e].forgotten = seen[e].forgotten
                                           /\ key'[e] = key[e]
      BY <2>1, <2>2 DEF Asking, AskedIn
    <2>4. call'[c].answer = NoAnswer
      BY <1>p, <2>1, <2>2 DEF Placed
    <2>5. \A e \in Callers : AnswerFresh(e)'
      BY <1>a, <2>1, <2>2, <2>4, NeverOutdated DEF AnswerFresh
    <2>6. \A d \in Callers : Cacheable(d)' => call'[d] = call[d]
      BY <2>2 DEF Cacheable
    <2> QED
      BY <1>q, <2>1, <2>3, <2>5, <2>6
  <1>5. ASSUME NEW c \in Callers, GiveUpSlot(c) \/ Answered(c) \/ HangUp(c) PROVE Fresh'
    <2>1. /\ pc'[c] = "idle" /\ UNCHANGED <<keys, gen, drops, forgotten>>
          /\ \A e \in Callers \ {c} : /\ pc'[e] = pc[e] /\ key'[e] = key[e]
                                      /\ joined'[e] = joined[e] /\ seen'[e] = seen[e]
      BY <1>0, <1>5 DEF GiveUpSlot, Answered, HangUp, Return, cache
    <2>2. \A d \in Callers : \/ call'[d] = call[d]
                             \/ call'[d] = Idle /\ call[d].state = "left"
                             \/ d = c /\ call'[d].state \in {"idle", "left"}
      <3>1. CASE GiveUpSlot(c)
        <4>1. Gone(c, Failed, Callers \ {c})
                \in {Idle, [call[c] EXCEPT !.state = "left", !.answer = Failed]}
          BY <1>p, ConstantTypes, GoneType
        <4>2. [call[c] EXCEPT !.state = "left", !.answer = Failed].state = "left"
          BY <1>0 DEF Calls
        <4> QED
          BY <1>0, <1>i, <3>1, <4>1, <4>2 DEF GiveUpSlot
      <3>2. CASE Answered(c) \/ HangUp(c)
        BY <1>p, <3>2, StopsWaiting DEF Answered, HangUp
      <3> QED
        BY <1>5, <3>1, <3>2
    <2>3. \A e \in Callers : Asking(e)' => /\ Asking(e) /\ AskedIn(e)' = AskedIn(e)
                                           /\ seen'[e].forgotten = seen[e].forgotten
                                           /\ key'[e] = key[e]
      <3> SUFFICES ASSUME NEW e \in Callers, Asking(e)'
                   PROVE  /\ Asking(e) /\ AskedIn(e)' = AskedIn(e)
                          /\ seen'[e].forgotten = seen[e].forgotten /\ key'[e] = key[e]
        OBVIOUS
      <3>1. e # c
        BY <2>1 DEF Asking
      <3>2. CASE call'[e] = call[e]
        BY <2>1, <3>1, <3>2 DEF Asking, AskedIn
      <3>3. CASE call'[e] = Idle /\ call[e].state = "left"
        <4>1. pc[e] \in {"cache", "join", "slot"}
          BY <1>i, <2>1, <3>1, <3>3 DEF Asking
        <4> QED
          BY <1>i, <1>p, <3>3, <4>1 DEF Placed
      <3> QED
        BY <2>2, <3>1, <3>2, <3>3
    <2>4. \A e \in Callers : AnswerFresh(e)'
      BY <1>a, <1>i, <2>1, <2>2, NeverOutdated DEF AnswerFresh
    <2>5. \A d \in Callers : Cacheable(d)' => call'[d] = call[d]
      BY <1>i, <2>2 DEF Cacheable
    <2> QED
      BY <1>q, <2>1, <2>3, <2>4, <2>5
  <1>6. ASSUME NEW c \in Callers, Check(c) PROVE Fresh'
    <2>1. /\ \A d \in Callers \ {c} : call'[d] = call[d]
          /\ call'[c].gen = call[c].gen
          /\ UNCHANGED <<gen, drops, forgotten, pc, key, seen, joined>>
          /\ call[c].state = "check" /\ call'[c].state \in {"query", "closed"}
          /\ call'[c].state = "query" => call'[c].answer = call[c].answer
      <3>1. call[c].state = "check"
        BY <1>6 DEF Check
      <3>2. call'[c].state \in {"query", "closed"}
        BY <1>0, <1>6 DEF Check, Calls
      <3> QED
        BY <1>6, <1>p, <3>1, <3>2, LookupStep
    <2>2. keys' = keys
      BY <1>6 DEF Check, cache
    <2>3. \A e \in Callers : Asking(e)' => /\ Asking(e) /\ AskedIn(e)' = AskedIn(e)
                                           /\ seen'[e].forgotten = seen[e].forgotten
                                           /\ key'[e] = key[e]
      BY <2>1 DEF Asking, AskedIn
    <2>4. \A d \in Callers : Cacheable(d)' => call'[d] = call[d]
      BY <2>1 DEF Cacheable
    <2>5. AnswerFresh(c)'
      <3> SUFFICES ASSUME pc[c] = "wait", joined[c] = c
                   PROVE  Since(call'[c].answer, seen[c].forgotten)
        BY <2>1 DEF AnswerFresh, Since
      <3>1. call[c].key = key[c] /\ Asking(c) /\ AskedIn(c) = call[c].gen
        BY <1>p, <2>1 DEF Placed, Asking, AskedIn
      <3>2. CASE Hit(call[c].key, call[c].gen)
        <4>1. call'[c].answer = keys[key[c]].answer
          BY <1>0, <1>6, <3>1, <3>2 DEF Check, Calls
        <4>2. keys[key[c]] # NoEntry /\ keys[key[c]].gen = AskedIn(c)
          BY <3>1, <3>2 DEF Hit
        <4> QED
          BY <1>p, <3>1, <4>1, <4>2 DEF Fresh
      <3>3. CASE ~Hit(call[c].key, call[c].gen)
        <4>1. call'[c].state = "query"
          BY <1>0, <1>6, <3>3 DEF Check, Calls
        <4> QED
          BY <1>a, <2>1, <4>1 DEF AnswerFresh
      <3> QED
        BY <3>2, <3>3
    <2>6. \A e \in Callers : AnswerFresh(e)'
      BY <1>a, <2>1, <2>5 DEF AnswerFresh
    <2> QED
      BY <1>q, <2>1, <2>2, <2>3, <2>4, <2>6
  <1>7. ASSUME NEW c \in Callers, Query(c) PROVE Fresh'
    <2>1. /\ \A d \in Callers \ {c} : call'[d] = call[d]
          /\ call'[c].gen = call[c].gen /\ call'[c].key = call[c].key
          /\ UNCHANGED <<gen, drops, forgotten, pc, key, seen, joined>>
      BY <1>7, <1>p, LookupStep
    <2>2. keys' = keys /\ call[c].state = "query" /\ call'[c].state = "remember"
          /\ call'[c].answer \in {row[call[c].key], Failed}
      BY <1>0, <1>7 DEF Query, Calls, cache
    <2>3. ASSUME NEW v \in Nat, v <= forgotten[call[c].key]
          PROVE  Since(call'[c].answer, v)
      <3>1. /\ call[c].key \in Keys /\ row[call[c].key].ver \in Nat
            /\ forgotten[call[c].key] \in Nat
            /\ forgotten[call[c].key] <= row[call[c].key].ver
        <4>1. call[c].key \in Keys
          BY <1>0 DEF Calls
        <4>2. forgotten[call[c].key] <= row[call[c].key].ver
          BY <1>p, <4>1 DEF Behind
        <4> QED
          BY <1>v, <4>1, <4>2
      <3>2. v <= row[call[c].key].ver
        BY <2>3, <3>1
      <3>3. Since(row[call[c].key], v)
        BY <3>1, <3>2 DEF Since
      <3> QED
        BY <2>2, <3>3, NeverOutdated
    <2>4. \A e \in Callers : (Asking(e)' <=> Asking(e)) /\ AskedIn(e)' = AskedIn(e)
      BY <2>1, <2>2 DEF Asking, AskedIn
    <2>5. \A d \in Callers \ {c} : Cacheable(d)' => Cacheable(d)
      BY <2>1 DEF Cacheable
    <2>6. \A e \in Callers : seen[e].forgotten \in Nat /\ seen[e].forgotten <= forgotten[key[e]]
      BY <1>0, <1>p, ConstantTypes DEF Behind, Seens
    <2>7. forgotten[call[c].key] \in Nat
      BY <1>0, <1>p, ConstantTypes DEF TypeOK, Calls
    <2>8. \A d \in Callers : Cacheable(d)' /\ call'[d].gen = gen'
                               => Since(call'[d].answer, forgotten'[call'[d].key])
      <3>1. Since(call'[c].answer, forgotten[call[c].key])
        BY <2>3, <2>7
      <3> QED
        BY <1>p, <2>1, <2>5, <3>1 DEF Fresh
    <2>9. \A e, d \in Callers :
            Asking(e)' /\ Cacheable(d)' /\ call'[d].key = key'[e] /\ call'[d].gen = AskedIn(e)'
              => Since(call'[d].answer, seen'[e].forgotten)
      <3> SUFFICES ASSUME NEW e \in Callers, NEW d \in Callers, Asking(e)', Cacheable(d)',
                          call'[d].key = key'[e], call'[d].gen = AskedIn(e)'
                   PROVE  Since(call'[d].answer, seen[e].forgotten)
        BY <2>1
      <3>1. CASE d = c
        BY <2>1, <2>3, <2>6, <3>1
      <3>2. CASE d # c
        BY <1>p, <2>1, <2>4, <2>5, <3>2 DEF Fresh
      <3> QED
        BY <3>1, <3>2
    <2>10. \A e \in Callers :
             pc'[e] = "wait" /\ joined'[e] = e => Since(call'[e].answer, seen'[e].forgotten)
      <3>1. pc[c] = "wait" /\ joined[c] = c => call[c].key = key[c]
        BY <1>p, <2>2 DEF Placed
      <3>2. pc[c] = "wait" /\ joined[c] = c => Since(call'[c].answer, seen[c].forgotten)
        BY <2>3, <2>6, <3>1
      <3> QED
        BY <1>p, <2>1, <3>2 DEF Fresh
    <2>11. /\ \A j \in Keys :
                keys'[j] # NoEntry /\ keys'[j].gen = gen' => Since(keys'[j].answer, forgotten'[j])
           /\ \A e \in Callers :
                Asking(e)' /\ keys'[key'[e]] # NoEntry /\ keys'[key'[e]].gen = AskedIn(e)'
                  => Since(keys'[key'[e]].answer, seen'[e].forgotten)
      BY <1>p, <2>1, <2>2, <2>4 DEF Fresh
    <2> QED
      BY <2>8, <2>9, <2>10, <2>11 DEF Fresh, Since
  <1>8. ASSUME NEW c \in Callers, Remember(c) PROVE Fresh'
    <2>1. /\ \A d \in Callers \ {c} : call'[d] = call[d]
          /\ UNCHANGED <<gen, drops, forgotten, pc, key, seen, joined>>
      BY <1>8, <1>p, LookupStep
    <2>2. /\ call[c].state = "remember" /\ call'[c].state = "closed"
          /\ call'[c].answer = call[c].answer /\ call'[c].gen = call[c].gen
      BY <1>0, <1>8 DEF Remember, Calls
    <2>3. \A j \in Keys : \/ keys'[j] = keys[j]
                          \/ /\ j = call[c].key /\ Cacheable(c)
                             /\ keys'[j].answer = call[c].answer /\ keys'[j].gen = call[c].gen
      BY <1>0, <1>8, <2>2 DEF Remember, Cached, Cacheable
    <2>4. \A e \in Callers : Asking(e)' => Asking(e)
      BY <2>1, <2>2 DEF Asking
    <2>5. \A e \in Callers : AskedIn(e)' = AskedIn(e)
      BY <2>1, <2>2 DEF AskedIn
    <2>6. \A d \in Callers : Cacheable(d)' => Cacheable(d) /\ call'[d] = call[d]
      BY <2>1, <2>2 DEF Cacheable
    <2>7. \A j \in Keys :
            keys'[j] # NoEntry /\ keys'[j].gen = gen' => Since(keys'[j].answer, forgotten'[j])
      BY <1>p, <2>1, <2>3 DEF Fresh
    <2>8. \A e \in Callers :
            Asking(e)' /\ keys'[key'[e]] # NoEntry /\ keys'[key'[e]].gen = AskedIn(e)'
              => Since(keys'[key'[e]].answer, seen'[e].forgotten)
      BY <1>0, <1>p, <2>1, <2>3, <2>4, <2>5 DEF Fresh
    <2>9. /\ \A d \in Callers : Cacheable(d)' /\ call'[d].gen = gen'
                                  => Since(call'[d].answer, forgotten'[call'[d].key])
          /\ \A e, d \in Callers :
               Asking(e)' /\ Cacheable(d)' /\ call'[d].key = key'[e] /\ call'[d].gen = AskedIn(e)'
                 => Since(call'[d].answer, seen'[e].forgotten)
      BY <1>p, <2>1, <2>4, <2>5, <2>6 DEF Fresh
    <2>10. \A e \in Callers :
             pc'[e] = "wait" /\ joined'[e] = e => Since(call'[e].answer, seen'[e].forgotten)
      BY <1>p, <2>1, <2>2 DEF Fresh
    <2> QED
      BY <2>7, <2>8, <2>9, <2>10 DEF Fresh, Since
  <1>9. ASSUME NEW c \in Callers, Leave(c) PROVE Fresh'
    <2>1. UNCHANGED <<keys, gen, drops, forgotten, pc, key, seen, joined>>
      BY <1>9 DEF Leave, cache, callers
    <2>2. /\ \A d \in Callers \ {c} : call'[d] = call[d]
          /\ \/ call'[c] = Idle
             \/ call'[c].state = "left" /\ call'[c].answer = call[c].answer
                /\ call'[c].gen = call[c].gen
      <3>0. call[c].answer \in Answers
        BY <1>0 DEF Calls
      <3>1. Gone(c, call[c].answer, Callers)
              \in {Idle, [call[c] EXCEPT !.state = "left", !.answer = call[c].answer]}
        BY <1>p, <3>0, GoneType
      <3>2. /\ [call[c] EXCEPT !.state = "left", !.answer = call[c].answer].state = "left"
            /\ [call[c] EXCEPT !.state = "left", !.answer = call[c].answer].answer = call[c].answer
            /\ [call[c] EXCEPT !.state = "left", !.answer = call[c].answer].gen = call[c].gen
        BY <1>0 DEF Calls
      <3> QED
        BY <1>0, <1>9, <3>1, <3>2 DEF Leave
    <2>0. call[c].state = "closed"
      BY <1>9 DEF Leave
    <2>3. \A e \in Callers : Asking(e)' => /\ Asking(e) /\ AskedIn(e)' = AskedIn(e)
                                           /\ seen'[e].forgotten = seen[e].forgotten
                                           /\ key'[e] = key[e]
      <3>1. \A e \in Callers \ {c} : (Asking(e)' <=> Asking(e)) /\ AskedIn(e)' = AskedIn(e)
        BY <2>1, <2>2 DEF Asking, AskedIn
      <3>2. ~Asking(c)'
        <4>1. pc[c] \notin {"cache", "join", "slot"}
          BY <1>i, <1>p, <2>0 DEF Placed
        <4> QED
          BY <1>i, <2>1, <2>2, <4>1 DEF Asking
      <3> QED
        BY <2>1, <3>1, <3>2
    <2>4. \A e \in Callers : AnswerFresh(e)'
      BY <1>a, <1>i, <2>1, <2>2, NeverOutdated DEF AnswerFresh
    <2>5. \A d \in Callers : Cacheable(d)' => call'[d] = call[d]
      BY <1>i, <2>2 DEF Cacheable
    <2> QED
      BY <1>q, <2>1, <2>3, <2>4, <2>5
  <1>s. ASSUME UNCHANGED <<gen, drops, forgotten, call, pc, key, seen, joined>>,
               \A k \in Keys : \/ keys'[k] = NoEntry
                               \/ /\ keys[k] # NoEntry
                                  /\ keys'[k].answer = keys[k].answer /\ keys'[k].gen = keys[k].gen
        PROVE  Fresh'
    <2>1. \A e \in Callers : Asking(e)' => /\ Asking(e) /\ AskedIn(e)' = AskedIn(e)
                                           /\ seen'[e].forgotten = seen[e].forgotten
                                           /\ key'[e] = key[e]
      BY <1>s DEF Asking, AskedIn
    <2>2. \A d \in Callers : Cacheable(d)' => /\ Cacheable(d) /\ call'[d].answer = call[d].answer
                                              /\ call'[d].gen = call[d].gen
                                              /\ call'[d].key = call[d].key
      BY <1>s DEF Cacheable
    <2>3. \A e \in Callers : AnswerFresh(e)'
      BY <1>a, <1>s DEF AnswerFresh
    <2> QED
      BY <1>k, <1>p, <1>s, <2>1, <2>2, <2>3, FreshShrinks
  <1>10. CASE Tick \/ Sweep
    <2>1. UNCHANGED <<gen, drops, forgotten, call, pc, key, seen, joined>>
      BY <1>10 DEF Tick, Sweep, lookups, callers
    <2>2. \A k \in Keys : \/ keys'[k] = NoEntry
                          \/ /\ keys[k] # NoEntry
                             /\ keys'[k].answer = keys[k].answer /\ keys'[k].gen = keys[k].gen
      BY <1>0, <1>10 DEF Tick, Sweep, Entries
    <2> QED
      BY <1>s, <2>1, <2>2
  <1>11. CASE \/ \E c \in Callers : FreeSlot(c)
              \/ \E k \in Keys : Change(k)
              \/ \E a \in changed : Notify(a) \/ NotifyLost(a)
              \/ Disconnect \/ UNCHANGED vars
    <2>1. UNCHANGED <<keys, gen, drops, forgotten, call, pc, key, seen, joined>>
      BY <1>11 DEF FreeSlot, Change, Notify, NotifyLost, Disconnect, vars, cache, lookups, callers
    <2> QED
      BY <1>s, <2>1
  <1>12. ASSUME NEW a \in changed, ForgetHere(a) PROVE Fresh'
    <2>1. a \in Announcements /\ a \in Changes
      BY <1>p DEF Announcements, TypeOK, Changes
    <2> QED
      BY <1>12, <1>p, <2>1, ForgetFresh DEF ForgetHere, lookups, callers
  <1>13. CASE Listen
    <2>1. channel # <<>>
      BY <1>13 DEF Listen
    <2> QED
      BY <1>13, <1>p, <2>1, HeadAnnounced, ForgetFresh DEF Listen, lookups, callers
  <1> QED
    BY <1>1, <1>2, <1>3, <1>4, <1>5, <1>6, <1>7, <1>8, <1>9, <1>10, <1>11, <1>12, <1>13
       DEF Next, ResolveSteps, LookupSteps, Announce

-----------------------------------------------------------------------------
LEMMA InvKept == Inv /\ [Next]_vars => Inv'
  BY TypeKept, CallsKept, BehindKept, FreshKept DEF Inv

LEMMA InvHolds == Spec => []Inv
  BY InitInv, InvKept, PTL DEF Spec

(* Every variable keeps its type; in particular no more lookups run at     *)
(* once than lookup's semaphore has slots.                                 *)
THEOREM KeyCacheTypeOK == Spec => []TypeOK
  <1>1. Inv => TypeOK
    BY DEF Inv
  <1> QED
    BY <1>1, InvHolds, PTL

(* LoadOrStore, the slots and the deferred calls share one query between   *)
(* all misses of a key, however requests come, hang up and give up.        *)
THEOREM KeyCacheOneQueryPerKey == Spec => []OneQueryPerKey
  <1>1. Inv => OneQueryPerKey
    BY DEF Inv, Booked, Active, Looking, OneQueryPerKey
  <1> QED
    BY <1>1, InvHolds, PTL

(* Resolve, lookup, remember and Forget read gen, the cache and drops at   *)
(* different times, and still no key that was changed and forgotten here   *)
(* is served as it was before to a request that came after.                *)
THEOREM KeyCacheKeyFresh == Spec => []KeyFresh
  <1>1. Inv => KeyFresh
    <2> SUFFICES ASSUME Inv PROVE KeyFresh
      OBVIOUS
    <2>0. TypeOK /\ Behind /\ Fresh
      BY DEF Inv
    <2>1. ASSUME NEW k \in Keys, Hit(k, gen), keys[k].answer.value \in Usable
          PROVE  keys[k].answer.ver >= forgotten[k]
      BY <2>0, <2>1 DEF Hit, Fresh, Since
    <2>2. ASSUME NEW c \in Callers, pc[c] = "cache", Hit(key[c], seen[c].gen)
          PROVE  ~Outdated(c, keys[key[c]].answer)
      <3>1. Since(keys[key[c]].answer, seen[c].forgotten)
        BY <2>0, <2>2 DEF Hit, Fresh, Asking, AskedIn
      <3>2. keys[key[c]].answer.ver \in Nat /\ seen[c].forgotten \in Nat
        BY <2>0, <2>2, ConstantTypes, SMTT(20) DEF TypeOK, Hit, Answers
      <3> QED
        BY <3>1, <3>2 DEF Since, Outdated
    <2>3. ASSUME NEW c \in Callers, pc[c] = "wait", joined[c] = c
          PROVE  ~Outdated(c, call[c].answer)
      <3>1. Since(call[c].answer, seen[c].forgotten)
        BY <2>0, <2>3 DEF Fresh
      <3>2. call[c].answer.ver \in Nat /\ seen[c].forgotten \in Nat
        BY <2>0, ConstantTypes, SMTT(20) DEF TypeOK, Answers
      <3> QED
        BY <3>1, <3>2 DEF Since, Outdated
    <2> QED
      BY <2>1, <2>2, <2>3 DEF KeyFresh
  <1> QED
    BY <1>1, InvHolds, PTL
=============================================================================
