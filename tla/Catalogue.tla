------------------------------ MODULE Catalogue ------------------------------
(***************************************************************************)
(* What an organisation's administrators keep: its models, filters,        *)
(* routers, MCP servers and guardrails, and the handlers of the control    *)
(* API that change them (internal/control: models.go, filters.go,          *)
(* routers.go, mcp.go, policy.go, hooks.go) over internal/store.           *)
(*                                                                         *)
(* A name in one row stands for another row: a filter names its model, a   *)
(* router its models and filters, a guardrail filters and servers.  No     *)
(* foreign key holds them, so every handler that checks a name, or that    *)
(* nothing has it, holds LockReferences from its checks to its write: a    *)
(* slot of this process, a connection with a transaction that writes       *)
(* nothing, and the advisory lock of the organisation.  The checks and the *)
(* write need one more connection.                                         *)
(*                                                                         *)
(* db has the tables of one organisation; a table is a function from the   *)
(* aliases in it.  stale is history: the guardrails RotateKey copied from  *)
(* one that was rewritten before it committed.                             *)
(* Each process serves one request at a time, one of the                   *)
(* calls of the setup, on one instance of the control API: instances share *)
(* the database and the advisory lock, each has slots and a pool.          *)
(***************************************************************************)
EXTENDS Routers, Pricing, TLC

CONSTANTS
  Procs,       \* the requests served at once
  MaxConns,    \* the connections of the pool
  Org,         \* the organisation's id
  NoProc,
  NoRead,      \* a request that has read no row
  Setups       \* by name, what to start from: tables, calls, how many, and which
               \* instance serves each process

ASSUME CatalogueAssumption == MaxConns \in Nat /\ MaxConns >= 2

VARIABLES setup, db, procs, lock, left

vars == <<setup, db, procs, lock, left>>

Idle == [pc |-> "idle", call |-> [op |-> "none"], read |-> NoRead]
Put(f, x, v) == (x :> v) @@ f
Drop(f, x) == [y \in DOMAIN f \ {x} |-> f[y]]

Init ==
  /\ setup \in DOMAIN Setups
  /\ db = Setups[setup].db
  /\ left = Setups[setup].maxStarts
  /\ procs = [p \in Procs |-> Idle]
  /\ lock = NoProc

(***************************************************************************)
(* Reading the tables.                                                     *)
(***************************************************************************)
OrgScope == <<"org", Org>>
storedLimits(d, scope) == IF scope \in DOMAIN d.rails THEN d.rails[scope] ELSE NoLimits

\* A guardrail row counts while its scope exists; a deleted project's may stay.
ScopeExists(d, scope) ==
  CASE scope[1] = "org" -> TRUE
    [] scope[1] = "project" -> scope[2] \in DOMAIN d.projects
    [] OTHER -> scope[2] \in DOMAIN d.keys
LiveScopes(d) == {s \in DOMAIN d.rails : ScopeExists(d, s)}

FilterUsers(d, alias) == {s \in LiveScopes(d) : Contains(d.rails[s].filters, alias)}
MCPServerUsers(d, alias) ==
  {s \in LiveScopes(d) : d.rails[s].tools # NoList /\ \E e \in d.rails[s].tools : ServerOf(e) = alias}
\* The organisation's own list counts only when it names nothing else.
RouterUsers(d, alias) ==
  {s \in LiveScopes(d) : /\ d.rails[s].models # NoList /\ alias \in d.rails[s].models
                         /\ s[1] = "org" => d.rails[s].models = {alias}}
routersUsing(d, kind, alias) == {r \in DOMAIN d.routers : Uses(d.routers[r], kind, alias)}

UsesModel(f) == f.mode # "pattern"
FilterReadsWith(f) == IF UsesModel(f) THEN {f.model} ELSE {}
ModelUsers(d, alias) ==
  {f \in DOMAIN d.filters : alias \in FilterReadsWith(d.filters[f])} \cup routersUsing(d, "model", alias)

(***************************************************************************)
(* The checks each handler makes once it holds the lock.                   *)
(***************************************************************************)
\* choice: it is only asked to choose, which a decision model also does.
checkReaderModel(d, alias, choice) ==
  LET m   == d.models[alias]
      lim == storedLimits(d, OrgScope)
  IN  /\ alias \in DOMAIN d.models
      /\ m.kind = "chat" \/ (m.kind = "decision" /\ choice)
      /\ ~m.subscription
      /\ Listed(lim.models, alias) /\ Listed(lim.locations, m.location)

checkFilterFields(d, f) ==
  IF UsesModel(f)
  THEN f.rules = 0 /\ f.model # Unset /\ f.prompt \in 1..MaxRoutePrompt
       /\ checkReaderModel(d, f.model, f.mode = "gate")
  ELSE f.model = Unset /\ f.prompt = 0 /\ f.rules > 0

sameOriginsReversed(prev, next) == prev \subseteq next
sameOrigins(prev, next) == next \subseteq prev

\* putModel: key is "keep", "clear" or "set"; a platform or subscription model
\* keeps none.  Sealed is what the row then holds, the hosts it was entered for.
found(d, alias) == alias \in DOMAIN d.models
Kept(d, c) == found(d, c.alias) /\ c.key = "keep" /\ d.models[c.alias].key # NoKey
Sealed(d, c) ==
  CASE c.key = "set" -> c.model.hosts
    [] Covers(c.model) \/ c.model.subscription \/ c.key = "clear" \/ ~found(d, c.alias) -> NoKey
    [] OTHER -> d.models[c.alias].key
PutModelChecks(d, c) ==
  /\ found(d, c.alias) \/ c.alias \notin DOMAIN d.routers
  /\ c.model.subscription => ModelUsers(d, c.alias) = {}
  /\ ~Covers(c.model) /\ Kept(d, c) => sameOrigins(d.models[c.alias].hosts, c.model.hosts)

DeleteModelChecks(d, c) == ModelUsers(d, c.alias) = {} /\ found(d, c.alias)

PutRouterChecks(d, c) ==
  /\ ~Problem(c.router, [models |-> d.models, filters |-> d.filters])
  /\ \A s \in Routes(c.router) : \A m \in RouteReadsWith(s) : checkReaderModel(d, m, TRUE)
  /\ c.alias \notin DOMAIN d.models

\* deleteUnused
DeleteFilterChecks(d, c) ==
  routersUsing(d, "filter", c.alias) = {} /\ FilterUsers(d, c.alias) = {} /\ c.alias \in DOMAIN d.filters
DeleteRouterChecks(d, c) == RouterUsers(d, c.alias) = {} /\ c.alias \in DOMAIN d.routers
DeleteServerChecks(d, c) == MCPServerUsers(d, c.alias) = {} /\ c.alias \in DOMAIN d.servers

checkGuardrailFilters(d, lim) == Range(lim.filters) \subseteq DOMAIN d.filters
checkAllowList(d, scope, lim) ==
  scope[1] = "org" /\ lim.models # NoList =>
    /\ \A f \in DOMAIN d.filters : FilterReadsWith(d.filters[f]) \subseteq lim.models
    /\ \A r \in DOMAIN d.routers : \A s \in Routes(d.routers[r]) : RouteReadsWith(s) \subseteq lim.models
checkAllowedTools(d, lim) == lim.tools # NoList => \A e \in lim.tools : ServerOf(e) \in DOMAIN d.servers
\* The chain above a scope with lim in its place: every filter of it that runs
\* a model must run it inside the locations.
Level(scope, lim) == [type |-> scope[1], id |-> scope[2], limits |-> lim]
ChainWith(d, scope, project, lim) ==
  LET above == IF scope[1] = "org" THEN <<>> ELSE <<Level(OrgScope, storedLimits(d, OrgScope))>>
      mid == IF scope[1] = "key" /\ project # Unset
             THEN <<Level(<<"project", project>>, storedLimits(d, <<"project", project>>))>> ELSE <<>>
  IN  above \o mid \o <<Level(scope, lim)>>
checkFilterLocations(d, scope, project, lim) ==
  lim.locations # NoList =>
    LET res == Resolve([subscription |-> FALSE], ChainWith(d, scope, project, lim))
    IN  \A f \in Range(res.filters) \cap DOMAIN d.filters :
          \A m \in FilterReadsWith(d.filters[f]) :
            m \in DOMAIN d.models /\ Listed(res.locations, d.models[m].location)
PutGuardrailsChecks(d, c) ==
  /\ checkGuardrailFilters(d, c.limits)
  /\ checkAllowList(d, c.scope, c.limits)
  /\ checkAllowedTools(d, c.limits)
  /\ checkFilterLocations(d, c.scope, c.project, c.limits)

ChecksHold(d, c) ==
  CASE c.op = "putModel"      -> PutModelChecks(d, c)
    [] c.op = "deleteModel"   -> DeleteModelChecks(d, c)
    [] c.op = "putFilter"     -> checkFilterFields(d, c.filter)
    [] c.op = "deleteFilter"  -> DeleteFilterChecks(d, c)
    [] c.op = "putRouter"     -> PutRouterChecks(d, c)
    [] c.op = "deleteRouter"  -> DeleteRouterChecks(d, c)
    [] c.op = "deleteServer"  -> DeleteServerChecks(d, c)
    [] c.op = "putGuardrails" -> PutGuardrailsChecks(d, c)

(***************************************************************************)
(* Before the lock: what is wrong with a body on its face, and what the    *)
(* handler fills in.  Tidied is the call the rest of the handler works on. *)
(***************************************************************************)
Tidied(c) ==
  CASE c.op = "putModel" ->
         [c EXCEPT !.model = Filled(PriceAtFee(IF Covers(@) /\ CanLock(@) THEN Lock(@) ELSE @))]
    [] c.op = "putRouter" -> [c EXCEPT !.router = tidySteps(@)]
    [] c.op = "putGuardrails" -> [c EXCEPT !.limits = KeptFilters(checkSystemPrompt(Located(Periods(@))))]
    [] OTHER -> c
Acceptable(d, c) ==
  CASE c.op = "putModel" ->
         /\ Covers(c.model) => c.key # "set" /\ CanLock(c.model)
         /\ LET m == IF Covers(c.model) THEN Lock(c.model) ELSE c.model
            IN  CheckModel(PriceAtFee(m), c.priced \/ Covers(m) \/ m.provider = "")
         /\ c.model.subscription => c.key # "set"
    [] c.op = "putFilter" -> c.filter.mode \in {Unset, "rewrite", "gate", "pattern"}
    [] c.op = "putGuardrails" -> ScopeExists(d, c.scope) /\ ~countProblem(c.limits) /\ ~locationProblem(c.limits)
    [] OTHER -> TRUE

(***************************************************************************)
(* LockReferences.                                                         *)
(***************************************************************************)
LockedOps == {"putModel", "deleteModel", "putFilter", "deleteFilter", "putRouter", "deleteRouter",
              "deleteServer", "putGuardrails"}
\* Those with a slot, and with a transaction, on the instance that serves p.
Beside(p) == {q \in Procs : Setups[setup].at[q] = Setups[setup].at[p]}
HasSlot(p) == {q \in Beside(p) : procs[q].pc \in {"begin", "wait", "check", "write", "allow"}}
HasConn(p) == {q \in Beside(p) : procs[q].pc \in {"wait", "check", "write", "allow", "rotate", "commit", "disable"}}

SlotsOfPool == MaxConns
Slots == IF MaxConns \div 2 > 1 THEN MaxConns \div 2 ELSE 1
FreeConn(p) == Cardinality(HasConn(p)) < MaxConns

Goto(p, pc) == procs' = [procs EXCEPT ![p].pc = pc]

Start(p, c) ==
  /\ procs[p].pc = "idle" /\ left > 0
  /\ c \in Setups[setup].calls /\ c.op \in LockedOps
  /\ Acceptable(db, c)
  /\ left' = left - 1
  /\ procs' = [procs EXCEPT ![p] = [pc |-> "slot", call |-> Tidied(c), read |-> NoRead]]
  /\ UNCHANGED <<setup, db, lock>>

TakeSlot(p) ==
  /\ procs[p].pc = "slot" /\ Cardinality(HasSlot(p)) < Slots
  /\ Goto(p, "begin")
  /\ UNCHANGED <<setup, db, lock, left>>

Begin(p) ==
  /\ procs[p].pc = "begin" /\ FreeConn(p)
  /\ Goto(p, "wait")
  /\ UNCHANGED <<setup, db, lock, left>>

LockNothing(p) ==
  /\ procs[p].pc = "wait"
  /\ Goto(p, "check")
  /\ UNCHANGED <<setup, db, lock, left>>
LockReferences(p) ==
  /\ procs[p].pc = "wait" /\ lock = NoProc
  /\ lock' = p
  /\ Goto(p, "check")
  /\ UNCHANGED <<setup, db, left>>

\* release rolls the transaction back and frees the slot.
Release(p) == procs' = [procs EXCEPT ![p] = Idle]
Unlocked(p) == IF lock = p THEN NoProc ELSE lock

Checks(p) ==
  /\ procs[p].pc = "check" /\ FreeConn(p)
  /\ IF ChecksHold(db, procs[p].call)
     THEN Goto(p, "write") /\ UNCHANGED lock
     ELSE Release(p) /\ lock' = Unlocked(p)
  /\ UNCHANGED <<setup, db, left>>

\* The client is gone: the next call on its context fails, and what was written
\* stays.  A statement already sent is the write itself.
Cancel(p) ==
  /\ procs[p].pc # "idle"
  /\ Release(p) /\ lock' = Unlocked(p)
  /\ UNCHANGED <<setup, db, left>>

(***************************************************************************)
(* The writes.                                                             *)
(***************************************************************************)
Writing(p, op) == procs[p].pc = "write" /\ procs[p].call.op = op /\ FreeConn(p)
Done(p) == Release(p) /\ lock' = Unlocked(p) /\ UNCHANGED <<setup, left>>
Then(p, pc) == Goto(p, pc) /\ UNCHANGED <<setup, lock, left>>

\* enabledAfterPut: what the body says, else what was stored, else on.
EnabledAfterPut(said, isNew, was) == IF said # Unset THEN said = "on" ELSE isNew \/ was

PutModel(p) ==
  LET c == procs[p].call
      new == ~found(db, c.alias)
      row == [c.model EXCEPT !.key = Sealed(db, c),
                             !.enabled = EnabledAfterPut(c.enabled, new, ~new /\ db.models[c.alias].enabled)]
  IN  /\ Writing(p, "putModel")
      /\ db' = [db EXCEPT !.models = Put(@, c.alias, row)]
      /\ IF new THEN Then(p, "allow") ELSE Done(p)

\* deleteAllowed: the alias comes off every allow-list, or it would allow
\* whatever is added under it next.
Unlisted(rails, alias) ==
  [s \in DOMAIN rails |-> [rails[s] EXCEPT !.models = IF @ = NoList THEN @ ELSE @ \ {alias}]]
DeleteModel(p) ==
  LET a == procs[p].call.alias
  IN  /\ Writing(p, "deleteModel")
      /\ db' = [db EXCEPT !.models = Drop(@, a), !.rails = Unlisted(@, a)]
      /\ Done(p)

PutFilter(p) ==
  LET c == procs[p].call
      row == [c.filter EXCEPT !.mode = IF @ = Unset THEN "rewrite" ELSE @]
  IN  /\ Writing(p, "putFilter")
      /\ db' = [db EXCEPT !.filters = Put(@, c.alias, row)]
      /\ Done(p)

DeleteFilter(p) ==
  /\ Writing(p, "deleteFilter")
  /\ db' = [db EXCEPT !.filters = Drop(@, procs[p].call.alias)]
  /\ Done(p)

\* allowReaching: a new router goes on a list that has every model it reaches.
allowReaching(d, router) ==
  LET list == storedLimits(d, OrgScope).models
  IN  list # NoList /\ router.alias \notin list /\ Reaches(router) \subseteq list
PutRouter(p) ==
  LET c == procs[p].call
      new == c.alias \notin DOMAIN db.routers
  IN  /\ Writing(p, "putRouter")
      /\ db' = [db EXCEPT !.routers = Put(@, c.alias, c.router)]
      /\ IF new /\ allowReaching(db, c.router) THEN Then(p, "allow") ELSE Done(p)

\* A router's counts go with it.
DeleteRouter(p) ==
  LET a == procs[p].call.alias
  IN  /\ Writing(p, "deleteRouter")
      /\ db' = [db EXCEPT !.routers = Drop(@, a), !.rails = Unlisted(@, a), !.counts = @ \ {a}]
      /\ Done(p)

DeleteMCPServer(p) ==
  /\ Writing(p, "deleteServer")
  /\ db' = [db EXCEPT !.servers = Drop(@, procs[p].call.alias)]
  /\ Done(p)

PutGuardrails(p) ==
  LET c == procs[p].call
  IN  /\ Writing(p, "putGuardrails")
      /\ db' = [db EXCEPT !.rails = Put(@, c.scope, c.limits), !.stale = @ \ {c.scope}]
      /\ Done(p)

\* AllowInOrg adds a new model or router to the organisation's list, if it
\* keeps one.
AllowInOrg(p) ==
  LET list == storedLimits(db, OrgScope).models
  IN  /\ procs[p].pc = "allow" /\ FreeConn(p)
      /\ db' = IF list = NoList THEN db
               ELSE [db EXCEPT !.rails[OrgScope].models = @ \cup {procs[p].call.alias}]
      /\ Done(p)

(***************************************************************************)
(* putMCPServer reads the row and writes it without the lock.              *)
(***************************************************************************)
ReadServer(p, c) ==
  /\ procs[p].pc = "idle" /\ left > 0 /\ FreeConn(p)
  /\ c \in Setups[setup].calls /\ c.op = "putServer" /\ c.host \notin Unreadable
  /\ LET was == IF c.alias \in DOMAIN db.servers THEN db.servers[c.alias] ELSE NoRead
         moved == was # NoRead /\ was.key # NoKey /\ c.key = "keep" /\ ~sameOrigins({was.host}, {c.host})
     IN  IF moved THEN UNCHANGED procs
         ELSE procs' = [procs EXCEPT ![p] = [pc |-> "server", call |-> c, read |-> was]]
  /\ left' = left - 1
  /\ UNCHANGED <<setup, db, lock>>

\* UpsertMCPServer: a key not sent is the key of the row as it is now.
PutMCPServer(p) ==
  LET c == procs[p].call
      now == IF c.alias \in DOMAIN db.servers THEN db.servers[c.alias].key ELSE NoKey
      was == procs[p].read
      row == [host |-> c.host,
              enabled |-> EnabledAfterPut(c.enabled, was = NoRead, was # NoRead /\ was.enabled),
              key |-> CASE c.key = "set" -> {c.host} [] c.key = "clear" -> NoKey [] OTHER -> now]
  IN  /\ procs[p].pc = "server" /\ FreeConn(p)
      /\ db' = [db EXCEPT !.servers = Put(@, c.alias, row)]
      /\ Release(p) /\ UNCHANGED <<setup, lock, left>>

\* What a request that has its turn does next.
Step(p) ==
  \/ TakeSlot(p) \/ Begin(p) \/ LockReferences(p) \/ Checks(p)
  \/ PutModel(p) \/ DeleteModel(p) \/ PutFilter(p) \/ DeleteFilter(p)
  \/ PutRouter(p) \/ DeleteRouter(p) \/ DeleteMCPServer(p) \/ PutGuardrails(p)
  \/ AllowInOrg(p) \/ PutMCPServer(p)
Calls(p) == \E c \in Setups[setup].calls : Start(p, c) \/ ReadServer(p, c)

(***************************************************************************)
(* Properties.                                                             *)
(***************************************************************************)
\* Whatever order administrators write and delete in, a stored name has its
\* row: a guardrail's filters and servers, a filter's model, a router's models
\* and filters; the gateway refuses every request a dangling name covers.  The
\* one guardrail that may name what is gone is the copy RotateKey made, without
\* the lock, of a key's guardrail that was rewritten before it committed.
\* What reads requests before anything is redacted, a filter or a deciding
\* route step, runs on a model the organisation allows and pays for, however
\* the list, the model and the reader change; and no alias is both a model and
\* a router, which would make the router unreachable.
NamesHold ==
  LET readers == UNION {FilterReadsWith(db.filters[f]) : f \in DOMAIN db.filters} \cup
                 UNION {UNION {RouteReadsWith(s) : s \in Routes(db.routers[r])} : r \in DOMAIN db.routers}
  IN
  /\ \A s \in LiveScopes(db) \ db.stale : checkGuardrailFilters(db, db.rails[s]) /\ checkAllowedTools(db, db.rails[s])
  /\ \A f \in DOMAIN db.filters : FilterReadsWith(db.filters[f]) \subseteq DOMAIN db.models
  /\ \A r \in DOMAIN db.routers :
       LET p == db.routers[r]
       IN  /\ ReadsWith(p) \subseteq DOMAIN db.models
           /\ \A s \in Steps(p) : s.kind = "filter" => s.ref \in DOMAIN db.filters
  /\ \A m \in readers : Listed(storedLimits(db, OrgScope).models, m)
  /\ \A m \in readers \cap DOMAIN db.models : ~db.models[m].subscription
  /\ DOMAIN db.models \cap DOMAIN db.routers = {}

\* A model's stored credential only goes to hosts it was entered for, and the
\* deployment's key only to the provider itself, through any series of saves.
KeyStaysHome ==
  \A a \in DOMAIN db.models :
    LET m == db.models[a]
        served == finishModel(m)
    IN  /\ served.sent = "own" => served.hosts \subseteq m.key
        /\ served.sent = "platform" => served.hosts \subseteq OwnHosts(Providers[m.provider])

\* The same of an MCP server's credential.  The code does not keep it when two
\* saves of one server interleave (README): TLC shows it under MCServerSetups.
ServerKeyStaysHome ==
  \A a \in DOMAIN db.servers : db.servers[a].key # NoKey => db.servers[a].host \in db.servers[a].key

\* A backend that misreports its cache counts never makes an answer refund a
\* budget, and never bills a token twice: at most twice the dearest price.
Reports == [input : {1, 5}, output : {1}, cached : {-1, 2, 6}, write : {-2, 4}, hour : {-1, 3}]
NoRefund ==
  \A m \in {[finishModel(db.models[a]) EXCEPT !.alias = ""] : a \in DOMAIN db.models}, t \in Reports :
    LET p == prices(m, t.input)
        dearest == Higher(Higher(2 * p.input, p.output), Higher(p.cached, p.write))
        bill == Bill(m, t, t)
    IN  /\ Cost(m, t) \in 0..(((t.input + t.output) * dearest) \div PerM)
        /\ Billed(m) => bill.micros >= 0 /\ bill.cached + bill.write <= bill.input

\* Every save or delete that waits for its turn finishes: the pool always has
\* a connection left for the checks of whoever holds the lock.
HoldersFinish == \A p \in Procs : procs[p].pc # "idle" ~> procs[p].pc = "idle"
=============================================================================
