------------------------------ MODULE KeyCache ------------------------------
(***************************************************************************)
(* The key cache of one replica: Resolve, lookup, remember, Forget and     *)
(* Sweep of internal/registry/registry.go, the announcements of            *)
(* internal/control/server.go that drop entries, and the LISTEN connection *)
(* of internal/store/store.go they come over.                              *)
(*                                                                         *)
(* Requests resolve keys over and over.  A miss starts one query that all  *)
(* concurrent misses of the key share, while the control plane changes the *)
(* key's row and announces it, here and on other replicas.                 *)
(***************************************************************************)
EXTENDS Naturals, Sequences, FiniteSets

CONSTANTS
  Callers,     \* the goroutines that resolve keys
  Keys,        \* the keys they present, all well formed
  Usable,      \* what a row can be: the ones that resolve to a policy ...
  Rejected,    \* ... and the ones that are refused (revoked, pending, ...)
  TTL,         \* Options.TTL and NegativeTTL, in ticks
  NegativeTTL,
  MaxLookups,  \* maxLookups
  MaxChanges,  \* bound: how often rows change
  NoCall       \* no call is in flight

ASSUME KeyCacheAssumption ==
  /\ IsFiniteSet(Callers) /\ IsFiniteSet(Keys) /\ Keys # {}
  /\ Usable \cap Rejected = {} /\ Usable # {}
  /\ {"canceled", "error"} \cap (Usable \cup Rejected) = {}
  /\ TTL \in Nat \ {0} /\ NegativeTTL \in Nat \ {0}
  /\ MaxLookups \in Nat \ {0} /\ MaxChanges \in Nat
  /\ NoCall \notin Callers

VARIABLES
  row,       \* each key's row: its value, and how often it has changed
  changes,   \* how often any row has
  keys,      \* Registry.keys: no entry, or an answer with its ttl and gen
  gen,       \* Registry.gen
  drops,     \* Registry.drops
  inflight,  \* Registry.inflight: the caller whose call is under way, per key
  slots,     \* Registry.lookups: the callers whose lookup has a slot
  call,      \* each caller's own call: its state and its answer
  pc,        \* where each caller is in Resolve
  key,       \* the key it presents
  seen,      \* the gen and drops it read, and the changes forgotten before
  joined,    \* the caller whose call it waits for
  changed,   \* changes committed and not yet announced everywhere
  channel,   \* notifications on their way to the listener
  forgotten  \* how many of each key's changes this replica has forgotten

cache     == <<keys, gen, drops, forgotten>>
lookups   == <<inflight, slots, call>>
callers   == <<pc, key, seen, joined>>
announced == <<changed, channel>>
vars      == <<row, changes, cache, lookups, callers, announced>>

NoEntry  == [none |-> TRUE]
NoAnswer == [value |-> "canceled", ver |-> 0]
Failed   == [value |-> "error", ver |-> 0]
Unseen   == [gen |-> 0, drops |-> 0, forgotten |-> 0]
AnyKey   == CHOOSE k \in Keys : TRUE
Idle     == [state |-> "idle", answer |-> NoAnswer, key |-> AnyKey, gen |-> 0, drops |-> 0]

Init ==
  /\ row \in [Keys -> {[value |-> v, ver |-> 0] : v \in Usable \cup Rejected}]
  /\ changes = 0
  /\ keys = [k \in Keys |-> NoEntry]
  /\ gen = 0
  /\ drops = 0
  /\ forgotten = [k \in Keys |-> 0]
  /\ inflight = [k \in Keys |-> NoCall]
  /\ slots = {}
  /\ call = [c \in Callers |-> Idle]
  /\ pc = [c \in Callers |-> "idle"]
  /\ key = [c \in Callers |-> AnyKey]
  /\ seen = [c \in Callers |-> Unseen]
  /\ joined = [c \in Callers |-> c]
  /\ changed = {}
  /\ channel = <<>>

-----------------------------------------------------------------------------
(* Resolve.                                                                *)

Go(c, to) == pc' = [pc EXCEPT ![c] = to]

\* lookupCache: an entry of this generation that has not expired.
Hit(k, g) == keys[k] # NoEntry /\ keys[k].gen = g /\ keys[k].ttl > 0

\* Resolve returns its answer, and forgets what it knew.
Return(c) ==
  /\ seen' = [seen EXCEPT ![c] = Unseen]
  /\ key' = [key EXCEPT ![c] = AnyKey]
  /\ joined' = [joined EXCEPT ![c] = c]
  /\ pc' = [pc EXCEPT ![c] = "idle"]

\* gen is read first.
Resolve(c) ==
  /\ pc[c] = "idle" /\ call[c] = Idle /\ c \notin slots
  /\ \E k \in Keys :
       /\ key' = [key EXCEPT ![c] = k]
       /\ seen' = [seen EXCEPT ![c] = [gen |-> gen, drops |-> 0, forgotten |-> forgotten[k]]]
  /\ Go(c, "cache")
  /\ UNCHANGED <<row, changes, cache, lookups, joined, announced>>

\* lookupCache, under the lock: the entry, and the drops a query will follow.
LookupCache(c) ==
  /\ pc[c] = "cache"
  /\ IF Hit(key[c], seen[c].gen)
     THEN Return(c)
     ELSE /\ seen' = [seen EXCEPT ![c].drops = drops]
          /\ Go(c, "join")
          /\ UNCHANGED <<key, joined>>
  /\ UNCHANGED <<row, changes, cache, lookups, announced>>

\* A bug: a miss always starts a call of its own.
JoinNever(c) ==
  /\ pc[c] = "join"
  /\ seen' = [seen EXCEPT ![c] = [@ EXCEPT !.gen = 0, !.drops = 0]]
  /\ inflight' = [inflight EXCEPT ![key[c]] = c]
  /\ call' = [call EXCEPT ![c] = [state |-> "slot", answer |-> NoAnswer, key |-> key[c],
                                 gen |-> seen[c].gen, drops |-> seen[c].drops]]
  /\ Go(c, "slot")
  /\ UNCHANGED <<row, changes, cache, slots, key, joined, announced>>

\* LoadOrStore: join the call under way, or start one.  From here on only the
\* call needs what c has read.
Join(c) ==
  /\ pc[c] = "join"
  /\ seen' = [seen EXCEPT ![c] = [@ EXCEPT !.gen = 0, !.drops = 0]]
  /\ IF inflight[key[c]] # NoCall
     THEN /\ joined' = [joined EXCEPT ![c] = inflight[key[c]]]
          /\ Go(c, "wait")
          /\ UNCHANGED <<inflight, call>>
     ELSE /\ inflight' = [inflight EXCEPT ![key[c]] = c]
          /\ call' = [call EXCEPT ![c] = [state |-> "slot", answer |-> NoAnswer, key |-> key[c],
                                         gen |-> seen[c].gen, drops |-> seen[c].drops]]
          /\ Go(c, "slot")
          /\ UNCHANGED joined
  /\ UNCHANGED <<row, changes, cache, slots, key, announced>>

\* A slot is free: the query runs on its own.
TakeSlot(c) ==
  /\ pc[c] = "slot"
  /\ Cardinality(slots) < MaxLookups
  /\ slots' = slots \cup {c}
  /\ call' = [call EXCEPT ![c].state = "check"]
  /\ Go(c, "wait")
  /\ UNCHANGED <<row, changes, cache, inflight, key, seen, joined, announced>>

\* Others wait for c's call.
Awaited(c, others) == \E d \in others : pc[d] = "wait" /\ joined[d] = c

\* A call that has left inflight is gone once nobody waits for it.
Gone(c, answer, others) ==
  IF Awaited(c, others) THEN [call[c] EXCEPT !.state = "left", !.answer = answer] ELSE Idle

\* The caller hangs up before it had a slot: those who joined are told that
\* the lookups are busy.
GiveUpSlot(c) ==
  /\ pc[c] = "slot"
  /\ call' = [call EXCEPT ![c] = Gone(c, Failed, Callers \ {c})]
  /\ inflight' = [inflight EXCEPT ![key[c]] = NoCall]
  /\ Return(c)
  /\ UNCHANGED <<row, changes, cache, slots, announced>>

\* c no longer waits.
StopWaiting(c) ==
  call' = [call EXCEPT ![joined[c]] =
             IF @.state = "left" THEN Gone(joined[c], @.answer, Callers \ {c}) ELSE @]

\* wait: the call's answer ...
Answered(c) ==
  /\ pc[c] = "wait"
  /\ call[joined[c]].state \in {"closed", "left"}
  /\ Return(c)
  /\ StopWaiting(c)
  /\ UNCHANGED <<row, changes, cache, inflight, slots, announced>>

\* ... or the caller hangs up.
HangUp(c) ==
  /\ pc[c] = "wait"
  /\ Return(c)
  /\ StopWaiting(c)
  /\ UNCHANGED <<row, changes, cache, inflight, slots, announced>>

-----------------------------------------------------------------------------
(* lookup, the goroutine of a call.                                        *)

\* The cache is looked at again: a call that ended in between has filled it.
Check(c) ==
  /\ call[c].state = "check"
  /\ IF Hit(call[c].key, call[c].gen)
     THEN call' = [call EXCEPT ![c].state = "closed", ![c].answer = keys[call[c].key].answer]
     ELSE call' = [call EXCEPT ![c].state = "query"]
  /\ UNCHANGED <<row, changes, cache, inflight, slots, callers, announced>>

\* LookupKey reads the row, or the database fails.
Query(c) ==
  /\ call[c].state = "query"
  /\ \E a \in {row[call[c].key], Failed} :
       call' = [call EXCEPT ![c].state = "remember", ![c].answer = a]
  /\ UNCHANGED <<row, changes, cache, inflight, slots, callers, announced>>

TTLOf(a) == IF a.value \in Usable THEN TTL ELSE NegativeTTL

\* keys, with the answer of c's call under generation g.
Cached(c, g) ==
  [keys EXCEPT ![call[c].key] =
     [answer |-> call[c].answer, ttl |-> TTLOf(call[c].answer), gen |-> g]]

\* remember: never a failure, and nothing read before a drop.
Remember(c) ==
  /\ call[c].state = "remember"
  /\ keys' = IF call[c].answer # Failed /\ drops = call[c].drops
             THEN Cached(c, call[c].gen) ELSE keys
  /\ call' = [call EXCEPT ![c].state = "closed"]
  /\ UNCHANGED <<row, changes, gen, drops, forgotten, inflight, slots, callers, announced>>

\* The deferred calls: done was closed as the lookup ended, so that callers
\* have the answer by now; the call leaves inflight ...
Leave(c) ==
  /\ call[c].state = "closed"
  /\ inflight' = [inflight EXCEPT ![call[c].key] = NoCall]
  /\ call' = [call EXCEPT ![c] = Gone(c, @.answer, Callers)]
  /\ UNCHANGED <<row, changes, cache, slots, callers, announced>>

\* A bug: a query's slot is never given back.
FreeSlotNever(c) == FALSE /\ UNCHANGED vars

\* ... and only then gives its slot back.
FreeSlot(c) ==
  /\ c \in slots /\ call[c].state \in {"left", "idle"}
  /\ slots' = slots \ {c}
  /\ UNCHANGED <<row, changes, cache, inflight, call, callers, announced>>

-----------------------------------------------------------------------------
(* Changes, and what forgets them.                                         *)

\* The control plane, here or in another process, changes a key's row and
\* will announce it: as a key's change, or as one to everything.
Change(k) ==
  /\ changes < MaxChanges
  /\ changes' = changes + 1
  /\ \E v \in (Usable \cup Rejected) \ {row[k].value}, kind \in {"key", "any"}, here \in BOOLEAN :
       /\ row' = [row EXCEPT ![k] = [value |-> v, ver |-> @.ver + 1]]
       /\ changed' = changed \cup {[key |-> k, ver |-> row[k].ver + 1, kind |-> kind, here |-> here]}
  /\ UNCHANGED <<cache, lookups, callers, channel>>

\* A bug: a key's change drops its entry but lets queries under way be cached.
ForgetOnlyEntries(a) ==
  /\ IF a.kind = "key"
     THEN /\ keys' = [keys EXCEPT ![a.key] =
                        IF @ # NoEntry /\ @.answer.value \in Usable THEN NoEntry ELSE @]
          /\ UNCHANGED <<gen, drops>>
     ELSE gen' = gen + 1 /\ UNCHANGED <<keys, drops>>
  /\ forgotten' = [forgotten EXCEPT ![a.key] = IF @ < a.ver THEN a.ver ELSE @]

\* Forget: drop the key's entry if it resolved, or start a new generation.
Forget(a) ==
  /\ IF a.kind = "key"
     THEN /\ keys' = [keys EXCEPT ![a.key] =
                        IF @ # NoEntry /\ @.answer.value \in Usable THEN NoEntry ELSE @]
          /\ drops' = drops + 1
          /\ UNCHANGED gen
     ELSE gen' = gen + 1 /\ UNCHANGED <<keys, drops>>
  /\ forgotten' = [forgotten EXCEPT ![a.key] = IF @ < a.ver THEN a.ver ELSE @]

\* announce, in this process: Forget comes first.
ForgetHere(a) ==
  /\ a \in changed /\ a.here
  /\ Forget(a)
  /\ changed' = (changed \ {a}) \cup {[a EXCEPT !.here = FALSE]}
  /\ UNCHANGED <<row, changes, lookups, callers, channel>>

\* Notify: Postgres sends it to whoever listens.
Notify(a) ==
  /\ a \in changed /\ ~a.here
  /\ changed' = changed \ {a}
  /\ channel' = Append(channel, a)
  /\ UNCHANGED <<row, changes, cache, lookups, callers>>

\* Notify fails, the listener is not connected, or the process dies between
\* the commit and the announcement.
NotifyLost(a) ==
  /\ a \in changed
  /\ changed' = changed \ {a}
  /\ UNCHANGED <<row, changes, cache, lookups, callers, channel>>

\* listenOnce.
Listen ==
  /\ channel # <<>>
  /\ Forget(Head(channel))
  /\ channel' = Tail(channel)
  /\ UNCHANGED <<row, changes, lookups, callers, changed>>

\* The connection drops, with what was on its way.
Disconnect ==
  /\ channel # <<>>
  /\ channel' = <<>>
  /\ UNCHANGED <<row, changes, cache, lookups, callers, changed>>

\* A bug: entries do not age.
NoTick == UNCHANGED vars

\* Time passes for the entries.
Tick ==
  /\ \E k \in Keys : keys[k] # NoEntry /\ keys[k].ttl > 0
  /\ keys' = [k \in Keys |->
                IF keys[k] # NoEntry /\ keys[k].ttl > 0 THEN [keys[k] EXCEPT !.ttl = @ - 1]
                ELSE keys[k]]
  /\ UNCHANGED <<row, changes, gen, drops, forgotten, lookups, callers, announced>>

\* Sweep drops what no lookup would hit any more.
Sweep ==
  /\ \E k \in Keys : keys[k] # NoEntry /\ ~Hit(k, gen)
  /\ keys' = [k \in Keys |-> IF Hit(k, gen) THEN keys[k] ELSE NoEntry]
  /\ UNCHANGED <<row, changes, gen, drops, forgotten, lookups, callers, announced>>

-----------------------------------------------------------------------------
ResolveSteps(c) == \/ LookupCache(c) \/ Join(c) \/ TakeSlot(c) \/ Answered(c)

LookupSteps(c) == Check(c) \/ Query(c) \/ Remember(c) \/ Leave(c) \/ FreeSlot(c)

Announce == \/ \E a \in changed : ForgetHere(a) \/ Notify(a) \/ NotifyLost(a)
            \/ Listen \/ Disconnect

Next == \/ \E c \in Callers : \/ Resolve(c) \/ ResolveSteps(c)
                              \/ GiveUpSlot(c) \/ HangUp(c) \/ LookupSteps(c)
        \/ \E k \in Keys : Change(k)
        \/ Announce \/ Tick \/ Sweep

Spec == Init /\ [][Next]_vars

(* Time passes, and goroutines that can run do: Resolve's own steps and    *)
(* each lookup, whose query a timeout ends.  A slot is a channel send, and *)
(* Go serves its waiters in turn: SF of TakeSlot.  Nothing promises that   *)
(* announcements arrive.                                                   *)
FairSpec ==
  /\ Spec
  /\ WF_vars(Tick)
  /\ \A c \in Callers : /\ WF_vars(ResolveSteps(c)) /\ SF_vars(TakeSlot(c))
                        /\ WF_vars(LookupSteps(c))

-----------------------------------------------------------------------------
(* Properties.                                                             *)

Answers == [value : Usable \cup Rejected \cup {"canceled", "error"}, ver : 0..MaxChanges]

TypeOK ==
  /\ row \in [Keys -> [value : Usable \cup Rejected, ver : 0..MaxChanges]]
  /\ changes \in 0..MaxChanges
  /\ keys \in [Keys -> {NoEntry} \cup
                 [answer : Answers, ttl : 0..TTL \cup 0..NegativeTTL, gen : Nat]]
  /\ gen \in Nat /\ drops \in Nat
  /\ inflight \in [Keys -> Callers \cup {NoCall}]
  /\ slots \subseteq Callers /\ Cardinality(slots) <= MaxLookups
  /\ call \in [Callers -> [state : {"idle", "slot", "check", "query", "remember", "closed",
                                    "left"},
                           answer : Answers, key : Keys, gen : Nat, drops : Nat]]
  /\ pc \in [Callers -> {"idle", "cache", "join", "slot", "wait"}]
  /\ key \in [Callers -> Keys]
  /\ seen \in [Callers -> [gen : Nat, drops : Nat, forgotten : 0..MaxChanges]]
  /\ joined \in [Callers -> Callers]
  /\ changed \subseteq [key : Keys, ver : 0..MaxChanges, kind : {"key", "any"}, here : BOOLEAN]
  /\ channel \in Seq([key : Keys, ver : 0..MaxChanges, kind : {"key", "any"}, here : BOOLEAN])
  /\ forgotten \in [Keys -> 0..MaxChanges]

\* Usable, but older than a change that was forgotten before c asked.
Outdated(c, a) == a.value \in Usable /\ a.ver < seen[c].forgotten

(* A revoked key stays revoked on a replica that has heard of it.  An      *)
(* entry that would be served as usable was read after every change of the *)
(* key that Forget has dropped here, however queries and announcements     *)
(* race; and a request that asks after a change was forgotten here is not  *)
(* let in on what the key was before, from the cache or by its own query,  *)
(* although it reads gen, the cache and drops at different times.  Only by *)
(* joining a query that another began before can it be.                    *)
KeyFresh ==
  /\ \A k \in Keys :
       Hit(k, gen) /\ keys[k].answer.value \in Usable => keys[k].answer.ver >= forgotten[k]
  /\ \A c \in Callers :
       /\ pc[c] = "cache" /\ Hit(key[c], seen[c].gen) => ~Outdated(c, keys[key[c]].answer)
       /\ pc[c] = "wait" /\ joined[c] = c => ~Outdated(c, call[c].answer)

(* A flood of one key asks the database once: of the calls that wait for   *)
(* a slot or query, no two are for one key, and one that queries has a     *)
(* slot, so that the rest of the database pool stays free.                 *)
OneQueryPerKey ==
  LET running == {c \in Callers : call[c].state \in {"check", "query", "remember", "closed"}}
      waiting == {c \in Callers : call[c].state = "slot"}
  IN  /\ running \subseteq slots
      /\ \A c, d \in running \cup waiting : call[c].key = call[d].key => c = d

(* Even when every announcement is lost, the cache does not keep a stale   *)
(* answer: once rows stop changing, it comes to hold only what they are.   *)
StaleGoes == <>[](\A k \in Keys : Hit(k, gen) => keys[k].answer = row[k])

(* Every request gets an answer about its key or hangs up: sharing a query *)
(* never leaves one waiting for a call that nobody finishes.               *)
ResolveEnds == \A c \in Callers : pc[c] # "idle" ~> pc[c] = "idle"
=============================================================================
