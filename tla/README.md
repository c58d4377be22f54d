# Keera Gateway: a TLA+ development

Keera Gateway stands between an organisation's programs and the providers of
language models. It resolves the key a request carries, applies guardrails,
budgets, credit and rate limits, runs filters and routers, forwards the request,
streams the answer back, and records what it cost. A control plane in the same
process edits organisations, keys, models and policy in Postgres, and takes
payments. Several replicas run side by side over one database, and optionally
over one Redis.

This directory models the parts of it where several goroutines, replicas or
outside parties meet in one piece of state, checks them with TLC on small
instances, and proves the central properties of eight of them with TLAPS for every
instance. `PROJECT.json` lists each component, each run, the source lines every
definition stands for, the mutants that show each property can fail, the hazards
and the findings.

    tlc -workers 2 -config MCRecorder.cfg MCRecorder    # any run of PROJECT.json
    tlapm RecorderProofs.tla                            # the proofs

## 1. The system and its parts

| Part | State | Operations | Meets |
| --- | --- | --- | --- |
| Usage recorder (`usage/recorder.go`, `store/usage.go`) | two bounded queues, a batch, counters | `Record`, `Run`, `flush`, `drain`, `WriteEvents` | every request; Postgres; shutdown |
| Budgets and holds (`registry/budget.go`, steps of `gateway/serve.go`) | windows by scope, running requests, local credit, holds | check, hold, start, charge, end, release, reconcile | requests; the recorder's delay; payments |
| Key cache (`registry.go`) | cached keys, generation, drops, shared queries, slots | `Resolve`, `Forget`, `Sweep` | requests; the control plane; LISTEN/NOTIFY |
| Policy reload (`registry.go`) | four indexes, a pending set, a channel of one token | `want`, `refreshPending`, `refreshAll`, `listenOnce` | the listener; failing reads |
| Payments (`control/payments.go`, `charges.go`, `store/credit.go`) | payments, accounts, saved cards, recurring charges | start, tie, charge, settle, poll, webhook, forget a card | PostFinance; replicas; crashes |
| Rate limits (`ratelimit/*.go`) | buckets in memory and in Redis, held charges | `Admit`, `ChargeAll`, `Flush`, `Sweep` | requests; Redis; shutdown |
| Request pipeline (`gateway/serve.go`, `router.go`, `filter.go`, `forward.go`) | one call | receive, admit, route, filter, attempt, answer, finish | all of the above; providers |
| API dialects (`gateway/messages.go`, `responses.go`, `*_native.go`, `body.go`, `text.go`) | none | translate a request, find its text, prepare it for its own provider | filters; the pipeline |
| Answer streams (`gateway/sse.go`, `events.go`, `*_stream.go`) | what a stream has said so far, what is written and not flushed | read, fold, translate, write, ping, count | providers; clients hanging up; a timer |
| MCP gateway (`gateway/mcp.go`) | the requests whose answers are awaited | inspect, admit, filter, forward, read answers, record | MCP servers; budgets |
| Policy combining (`policy/*.go`) | none | check and combine limits, price an answer, say where a model is hosted | keys; the pipeline |
| Keys, agents (`control/keys.go`, `agents.go`, `store/tenants.go`) | keys, projects, people | create, activate, rotate, revoke, disable | the key cache; other administrators |
| Sign-in (`authn/`, `control/auth.go`, `cliauth.go`, `signup.go`, `directory.go`) | sessions, codes, tokens, flows, sign-ups, links to directories | begin, exchange, place, link, re-check, switch, end | browsers, identity providers, administrators |
| Passkeys (`control/passkeys.go`, `authn/passkey.go`) | passkeys, set-up links, challenges | issue, set up, sign in, remove | browsers, administrators, a directory |
| Control API (`control/*.go`) | rows of models, filters, routers, servers, guardrails | put, delete, lock references, announce | other replicas; policy reload |
| Live view, reports (`control/live.go`, `store/reports.go`) | watchers | watch, notify | NOTIFY |
| Start and shutdown (`server/serve.go`) | background loops, requests in flight | start, drain, stop in order | the recorder, the limiter |

Configuration, the catalogue of providers, secrets, metrics, the command line and
the web panel hold no state that changes concurrently; `PROJECT.json` says of each
why it is left out.

What is hard in it, and what makes each part correct:

* **Checks and charges are apart.** A limit is checked before a request and
  charged after it, with a body, filters, routers and a provider in between.
  Holds must not leak, and a reconcile that reads the database in between must
  not let the credit be spent twice over.
* **Everything is cached and announced.** A key or policy is read, then changed,
  then announced; a cached row must not outlive the announcement, and a lost
  announcement must only cost time.
* **Nothing is billed twice and nothing is lost silently**, though writes time
  out with an unknown outcome, queues fill up and the process is stopped.
* **Money comes from outside.** A payment is settled by whichever of the answer,
  a webhook, a visit and a poll comes first, and any process may die in between.
* **Redis may answer late, twice or not at all**, and a request is then decided
  again elsewhere.
* **Handlers are several statements.** A sign-in, a re-check, a rotation or a save
  reads, decides and writes in steps, and other requests, other replicas or a
  failure come between any two of them.
* **Streams end badly in many ways**, and each must be told to the client, recorded
  and paid for as what it was.

## 2. The modules

Each module names in its comments the functions it models; `map` in
`PROJECT.json` gives the lines. A step of a model is what the code does under one
lock, in one statement or in one transaction; whatever may come between two of
those interleaves. Variables that no step reads and only a property does are
marked as history.

### Recorder

`request` is each request's place in `Record`; `ch` and `billed` are the two
channels, `batch`, `pc` and `then` are the locals of `Run`, and `rows` and `bills`
count what Postgres holds for each event. `Record`, `RecordFull`, `Unblock` and
`BlockedTooLong` are `Record`; `Poll`, `Select`, `Tick`, `Flush`, `StartDrain` and
`Drain` are the loop. A write ends as it can end: all of it lands (`WriteAll`), it
fails with an outcome nobody knows (`WriteFails`, where it may have landed), its
context is cancelled, or Postgres refuses it and the events are written one by one
(`EachWritten`, `EachRefused`, `BillsWritten`, ...). `StopRecorder` is what
`serve` does at shutdown.

`Ledger` is what the recorder promises whoever calls `Record`: an event is in its
hands, or refused and counted; what is stored is stored once, a row never without
its bills; what leaves its hands is counted as written only when it is all there;
and as long as the database answers, only what it refuses is given up. It has
neither queues nor batches. The refinement mapping is `Books` in `Recorder`: the
events handed over are those whose `Record` has returned, and those in hand are in a
queue or in the batch.

* `recorder`: five requests, queues of one, batches of two, a usage row and a
  bill that Postgres refuses. *Conservation*: every event is queued, in the batch,
  written or counted as dropped, exactly once. *ImplementsLedger*: `Recorder`
  implements `Ledger`. *BilledNotCrowdedOut*: events without bills never cost a
  billed one its place. *RunEnds*: a stopped recorder drains and returns, and with it
  every `Record`, unless requests were left behind by the shutdown's grace.
* `recorder_stop` (violated): see the findings.

### Budgets

One replica, one organisation with one money budget and one limit of requests per
day; `deploy` says which of them it has and what it pays with. `w`, `running`,
`balance` and `held` are the fields of `Budgets`; each request walks through
`Receive`, `CheckQuotas`, `HoldCredit`, `CheckBudgets`, `StartRequest`, `HookSpends`,
`Finish`, `ChargeCredit`, `Record`, `EndRequest`, `ReleaseCredit`, or is refused or
abandoned on the way. `Write` and `Lose` are the recorder as this part sees it;
`LoadSpend`/`Reconcile` and `LoadCredit`/`ReconcileCredit` are the two halves of a
reconcile, for the loop and for the control plane.

* `budgets`, over four deployments (one pays in advance and has credit for one
  request, one has none and tops up twice, one has a daily limit and one a budget
  across two midnights): *CountsMatch*: what is held is what the requests under way hold,
  and the running count of the open day is the requests that started in it.
  *Overdraft*: the credit goes below zero by less than what one request holds, and
  beyond that by no more than two amounts the code accepts: the most that was on its way
  to the database when any one reconcile brought an older balance back (`gap`), and what
  requests charged since the last hold cost beyond their own holds (`beyond`), which a
  request without an output ceiling may. Both are history. *Converges*: the local figures
  come to match the database's.

### KeyCache

Callers resolve keys over and over. `keys`, `gen`, `drops`, `inflight` and `slots`
are the registry's fields, `call` is the shared query a caller owns, `row` is the
key's row and `channel` is the LISTEN connection, which `Disconnect` empties.
`Resolve`, `LookupCache`, `Join`, `TakeSlot` and `Answered` are `Resolve`; `Check`,
`Query`, `Remember`, `Leave` and `FreeSlot` are `lookup`, in the order the code takes
its locks. Closing `done` is part of the step before it: nobody can tell the two
apart. `forgotten` and `seen[c].forgotten` are history.

* `keycache`: *KeyFresh*: no usable answer that is still in use is older than a
  change this replica has forgotten, nor is a request let in on one, from the cache
  or by its own query, although it reads the generation, the cache and the drops at
  different times. *OneQueryPerKey*, with callers hanging up. *StaleGoes* and
  *ResolveEnds*, with every announcement possibly lost.

### PolicyReload

A change is the number of its commit; `index[o][<<i, t>>]` is the last change of
table `t` that index `i` holds for an organisation. The listener is `Note` and
`Wake`, the loop is `Take`, `NextOrg`, `Read`, `ReadFails` and `Swap`, and `Tick` is
the timer that asks for everything.

* `reload`: *NoLostWake*: a change the listener heard of is in every index, or
  the loop has it in hand, or something will wake the loop for it. *NeverBack*: no
  index goes back to an older change. *ComesFresh*: the indexes come to hold what
  the database does, though notifications are lost.

### Payments

One organisation. `pay`, `account` and `charge` are tables; `tx` is PostFinance,
an external party that makes, charges and ends transactions; `start` is the process
that starts a payment, which may crash after any step. A settlement is read
(`Webhook`, `VisitBilling`, `Poll`, `Answered`) and recorded later (`Record`), or
not at all (`RecordLost`). `ListDue` and `CreatePayment` are the two halves of a
round: what it charges was listed before. A payment's age is counted in the steps
the code compares it with (a minute, ten minutes, an hour, a day). A payment that
is still being started is younger than ten minutes, because each call of a start
ends within thirty seconds; payments age independently of each other.

* `payments`: *CreditedOnce*: the balance is what was paid less what was used, and
  credit is given only for money that came in, in full. *OneChargePerKind*: no
  second charge of the saved card while a first of the same kind may still take money. A
  top-up and a recurring charge each look at their own kind (`topUpIsDue`,
  `chargeIsDue`), a round does both, and the two may be open together. *PeriodsPaidOnce*:
  each period of a recurring charge is paid by one payment, and each further one is
  flagged.

### Limiter, LimiterAgree and RateLimit

`Limiter` has no state: it is the two implementations of a bucket as operators.
`AdmitLocal`, `ChargeAllLocal` and `SweepLocal` follow `limiter.go` loop by loop;
`AdmitScript` and `ChargeScript` say what the Lua scripts leave in Redis. A limit
is a multiple of the ticks in a minute, so levels are whole; the code's are
floats, and rounding is not modelled. `LimiterAgree` drives both with the same
calls. `RateLimit` composes them: replicas with buckets of their own, one Redis,
scripts that run, run again or run late, answers that are lost, the rest after a
failure, and the charges that are held and flushed in batches.

* `ratelimit` has both. `RateLimit`: *AccountedOnce*: what was ever taken from a
  request limit, measured on the buckets, is the admitted requests and what
  unanswered scripts took, a refusal is free, and held charges are neither lost nor
  doubled. *NeverMinted*: no bucket gives more than its burst and its refill, with
  clocks out of order. *ChargesLand*: a held charge reaches a bucket, however often
  Redis fails, and none is left once the loop was stopped. `LimiterAgree`: *Agree*:
  memory and scripts name the same requirement and keep the same levels, through
  early returns, keys listed twice, debts of any depth, expiry and sweep. `apart` is
  history: the buckets that owed more than a minute's limit, which the two forget at
  different times (see the findings), and those a request had together with one of them,
  until they are full in both. On every other bucket they agree.

### Pipeline

One inference request, from the upload to its row. `c` is the code's `call`, and
`stage` is how far `serve` has come: `Receive`, `Decode`, `Admit`, the router's steps
(`RouterFilters`, `RouterLimit`, `RouterPrompt`, `RouterRoute`, `RouterModel`,
`RouterUnknown`), `Place` (`destinations`, `useNative`, `fits`), the key's filters
(`RunFilter`, `EndChain`), `Prepare`, one `Send` and `Came` for each destination,
`Answer`, and `Return` for what was deferred. `spent`, `running`, `held` and
`inflight` are what the request leaves in `Budgets` and in the loads; `sent` is
history. `HangUp`, `CutOff` and `Reload` happen between any two steps. Routers are
constants: trees of steps, walked by `StepsOf` and `Reaches`. What a limit, a filter
or a deciding model answers is a choice, and so is what it costs. A body is the
filters whose rewriting is in it; the client's own and the translated one are kept
apart, as the code keeps them. The index is `up`, the models that can be served: a
reload enables and disables models, and moves none to another provider's key.

* `pipeline`: *EndsClean*: one usage row for each request, however it ends; each
  scope was charged locally what the row carries, hooks of refused requests and
  limits met half way included; and no hold, running count or busy destination
  outlives the request. *EveryStepPassed*: both bodies carry every rewrite and the
  prompt, though the translation is made early, late or twice; nothing is sent that a
  filter of the key has not passed; and failing over never skips a branch's steps.
  *KeyCallsPaid*: credit is held before the deployment's key is used, whichever way
  the router gets there, and the last call on that key is billed though the client
  leaves, the process stops or no usage record comes.

### Directory, Accounts, Principals and SignIn

`Directory` is what an identity provider's answer is made into: the checks of OIDC,
GitHub and LDAP, the role a group or an address gives, which domains a provider
vouches for. `Accounts` has one operator for each statement of the store on people
and sign-ins. `Principals` is what a caller may do. `SignIn` composes them: a request
is a task in a slot whose `pc` is the statement or the provider call it is about to
make, so two requests interleave anywhere, and `Abort` ends one anywhere (a database
error, a client that leaves, a process that dies). `Callback`, `PasswordSignIn`,
`CliToken`, `CompleteSignup`, `LocalLogin` begin a sign-in and `Place`, `Link`,
`Sync`, `SyncOthers`, `SyncEach`, `Remember`, `Ttl`, `StartSession` go on with it;
`Request` is a signed-in one, with the re-check of its directory (`Claim`, `Ask`,
`Record`, `Failed`, `EndLink`) before its route (`Logout`, `SwitchOrg`, `AddUserRoute`,
`UpdateUser`, `DisableUser`, ...). `SyncOthers` reads the person's other rows and
`SyncEach` writes one of them; `SignOut` is one of the three DELETEs of
`deleteSessionsWhere`, which only `DisableUser` and `EndLink` have in one transaction. In
`Ask` the provider takes the token back and gives another before anything is known of
the rest of its answer, which may fail a check or come after the ten seconds. Time
appears as what it does: a check becomes due, a sign-in expires. `over`, `spent`,
`reused`, `lost`, `appointed`, `crossed` and `settled` are history.

* `signin`, over six deployments: *SignInsHold*: the row behind a session, a token
  or a code belongs to the identity that signed in. Each DELETE of a sign-out or a role
  change, and the whole of a disabled person's or a refusal, leaves nothing of its kind
  that the person had when it ran, and no code that was in the table then becomes a
  token; a code that a terminal had taken by then does. *TokenSpentOnce*: a rotating
  provider is shown a refresh token once, unless the one it gave in exchange was lost:
  the answer failed a check or came too late, or the row was not written.
  *RolesAppointed*: administrators were appointed by the organisation or by the directory
  its addresses land in, and an operator whom a sign-in or a check has demoted is
  operator nowhere, unless the request that did it was `crossed`: another request, or an
  open sign-up, of the same person carried the operator role at some time since it began.
  What is exempt in the three is in the findings.

### Passkeys

The same for accounts no directory vouches for. A removal is the one transaction
longer than a statement: `CountKeys` reads before `LockOwner` has waited, as READ
COMMITTED does. After somebody else's removal `SignOut` deletes the sign-ins table by
table. `keys` is by row; `CredentialOf` is the credential of each, so that one whose row
is gone can be registered again and one whose row is there cannot.

* `passkeys`: *PasskeysApart*: a passkey belongs to a passkey account, never to an
  operator or to a row a directory has taken. *UsedOnce*: a counter value is
  accepted once and a set-up link makes one passkey.

### Guardrails, Routers, Pricing, Catalogue and Tenants

`Guardrails`, `Routers` and `Pricing` are pure: what a level may set and how the
levels combine; which routers may be saved; what an answer costs, who is billed for
it and where a model is hosted. `Catalogue` has the handlers that save and delete
models, filters, routers, servers and guardrails. `LockReferences` is modelled as it
is built: a slot of the instance, a connection with a transaction, the advisory lock
of the organisation, and one more connection for the checks. `Tenants` adds keys,
projects and people, and resolves a key as `lookupKey` does.

* `catalogue`, over five setups: *NamesHold*: no stored name dangles, the models that
  read requests are allowed and paid for, and no alias is both model and router. One
  guardrail is exempt, the copy a rotation made without the lock of a guardrail that was
  rewritten before it committed (`db.stale`, history; see the findings).
  *KeyStaysHome*: a stored credential goes only to hosts it was entered for.
  *NoRefund*: misreported cache counts never refund. *ChainEnforced*: a key may use
  what every level allows, every limit has a counter of its own, and Keera Agents is
  told the same. *OneLive*: of a key and its rotations one works. *HoldersFinish*:
  every save that waits finishes.

### Dialects, Answers, Streams and MCPGateway

`Dialects` translates a request; `Answers` translates an answer, whole and event by
event; both are pure. In `Streams`, `Decode` makes the request and the reader
(`Read`, `Line`, `Fold`, `LastEvent`, `Write`, `Close`, `Stop`) passes the answer on
while `Arrive` and `Break` are the upstream, `TickWrites` and `TickFlushes` the pings,
and `Leave` the client. `MCPGateway` is one exchange with an MCP server: `Inspect`,
`admit`, `Filter`, `forward`, then `Push` for what the server sends, `HangUp`,
`FailPending` and `Release`.

* `streams`: *StreamIsWhole*: the blocks of every translated stream open and close in
  sequence; of an orderly one, what a client puts together is what it would have had
  unstreamed; and a stream passed on arrives line by line. The reference is `encode` over
  `WholeAnswer`, which is defined on the script, by the fragments that name a tool, and
  not by the stream's own folding. *EndIsTold*: complete is said and recorded exactly of
  answers that are, but for a chat stream passed on that ends inside the `null` of a
  `finish_reason`; with a model of the chain on the deployment's key the answer is read to
  its end though the client left; an estimate covers the chat tokens that were sent; and
  nothing written waits for the upstream. *RequestKept*: tool results follow their calls, the model gets no
  text the filters did not read, and a provider gets no tool that is not the
  client's. *CallRecordedOnce*: one row for each tool call that was carried, with
  what was held and charged. *OnlyAllowedTools*: no call, list or header beyond what
  the key may use.

  A stream is orderly with its text before its calls, the fragments of a call together
  and each call under an index of its own, as the models' own APIs send it. The scripts
  have others too, and those are held to the sequence alone. An MCP batch has distinct ids, a server answers in kind, and a
  header has one value.

## 3. Bounds, and why they are enough

| Run | Bounds | What they still reach |
| --- | --- | --- |
| recorder | 5 events, queues of 1, batches of 2 | both queues full at once, a blocked `Record`, a batch of one of each kind, a second batch, a stop with both queues full |
| budgets | 2 requests, four deployments, 2 top-ups or the ends of 2 days, an answer that costs up to twice its hold | a hold that blocks another, a reconcile between a charge and its row, a request that starts in one day and ends in the next with another one there |
| keycache | 2 callers, 1 key, 1 slot, 1 change | an owner and a joiner; a change before, during and after a query; a second query that waits for the first one's slot |
| reload | 2 organisations, 2 changes, 1 failure, 3 of the 5 tables | a pass for one and for all, a change noted during a pass, a failure between two organisations; the shared table `limited` that two indexes are made of |
| payments | 2 payments of any kind, 2 settlements at once, 1 period, 1 act of a person, 1 use of credit | two ends of one payment racing, a payment that starts while another is pending, a period paid by card and on the page |
| ratelimit | 1 replica, 2 requests with an organisation's two limits and a key's token limit, batches of 1, 1 tick, each script sent once | a request decided locally while another's script is on its way; a script that runs in time, late or never; a batch answered and the next one lost; a charge noted during a flush; a stop in the middle. `BucketIdle` is 0 so that the sweep happens within the clock. Of the agreement: 2 keys, 8 ticks (four minutes), 2 charges of up to twice a limit; a sweep and an expiry after refills, with debts that are paid by then and debts that are not |
| pipeline | 1 request, 4 models, 4 routers, 3 filters, 1 reload | every kind of step and route; a fail-over over three destinations; a filter after a translation; a branch that is the only way to the key; a model that goes away between the decision and its use |
| signin | 2 requests at once, 3 to 5 in all, 2 organisations, 2 directories, 3 refresh tokens, 2 sign-ups, 1 change of a directory | every pair of handlers statement by statement; a re-check between two statements of a sign-in; a code taken between two DELETEs; a person in two tenants; one who comes with another address; one with two sign-ups open |
| passkeys | 2 requests at once, 3 in all, 2 people, 4 passkeys of 3 credentials, counters to 2 | two copies of a key; a credential that is registered again; a link in two browsers; a removal that waits for a removal |
| catalogue | 2 requests at once, 3 in all, 2 connections | a delete between a check and a write, on one instance and on two; a rotation that waits for a rotation; a rewritten guardrail and a deletion between a rotation's copy and its commit |
| streams | scripts of up to ten lines, one exchange, `MaxEventLines` 3, `MaxLine` 2, `MaxPings` 2, `MaxPushes` 3 | a cut after every line and within one; an event over the limit; a ping between a write and its flush; answers out of order, twice and never |

Requests meet only in the index, the budgets, the limits and the loads. What one
leaves there decides whether another is let in and in which order destinations are
tried, both of which are choices in `Pipeline`; so one request is enough, and
`Budgets` and `RateLimit` have what two do to each other.

With `MaxTries` 1 the client library sends a script once; that it may send it again
is modelled (`AdmitRuns`, `ChargeRuns`), and too large for this run together with
the liveness it checks. Replicas meet in Redis alone, where the scripts of two of them interleave as those
of two requests of one replica do, so one replica is enough for `ratelimit`.

The bounded counters (`MaxChanges`, `MaxFails`, `MaxTopUps`, `MaxHook`, `MaxCost`, `MaxCharges`, `MaxPeriod`,
`MaxPeriods`, `MaxSpend`, `MaxAdmin`, `MaxReads`, `MaxClock`, `MaxTries`, `MaxServed`,
`MaxTokens`, `MaxCount`, `MaxPings`, `MaxPushes`, `maxStarts`) stand in
guards of the actions they bound. Deadlock is not checked where a model really
stops: after its last request, payment or tick. `Pipeline` has a step for its end
(`Ended`), so that a request that is stuck anywhere else is a deadlock.

Symmetry is used over the payments of `payments` and over the handlers of `signin`,
which check no liveness.

## 4. Fairness

* Recorder: weak for `Run` and for the timer of a blocked `Record`: goroutines are
  scheduled, and each write has a timeout. Strong for the case of the `select` that
  sees the stop: Go chooses at random among the ready cases.
* Budgets: weak for each request and for the loop's steps; strong for a load that
  succeeds, as the loop tries for ever and the database comes back.
* KeyCache: weak for the callers' own steps and the clock; strong for taking a
  slot, since those who wait on a channel are served in order.
* PolicyReload: weak for the loop and a read's end, strong for the ticker. Nothing
  is assumed of the listener.
* RateLimit: weak for the flush loop and for the end of a round trip, which has a
  timeout. Nothing is assumed of Redis.
* Catalogue: weak for every request's own steps. Locks and connections are handed
  to those who wait in order, which `HoldersFinish` needs nothing stronger for: with
  two requests, whoever waits is next.
* Payments, Pipeline, SignIn, Passkeys and Streams are checked for safety only.

## 5. What is proved

`RecorderProofs`, from `RecorderAssumption` alone (any finite set of events, any
queue and batch size):

* `RecorderTypeOK`: `Spec => []TypeOK`. Inductive together with the lengths of the
  queues; one step per action.
* `RecorderConservation`: `Spec => []Conservation`. The counters are numbers while
  events are a set, so the argument adds up cardinalities: each action moves one
  event, or the whole batch, from one of the places to another. The arithmetic is
  in lemmas without variables, since the prover does not mix primed lengths and
  sums.

* `RecorderImplementsLedger`: `Spec => ImplementsLedger`, each step of the recorder
  being a step of `Ledger` under the mapping `Books`, or none. Three parts are added
  to the invariant. *Apart*: an event is in one place, once, and only after its
  `Record` returned, so a write cannot find its rows there already. *Progress*: the
  database has nothing of what is queued or still ahead in the batch, and of the
  part of a batch that was written one by one it has all it takes. *Tally*: what is
  missing of that part is at most what counts as lost, which makes the count of
  written events honest.
* `RecorderStoredOnce`: no row and no bill is stored twice. It follows from the
  refinement: `Ledger` stores only what is not there.
* `RecorderBilledNotCrowdedOut`: `Spec => BilledNotCrowdedOut`.

`BudgetsProofs`, from `BudgetsAssumption` (any requests, any deployments):

* `BudgetsTypeOK` and `BudgetsCountsMatch`: `Spec => []CountsMatch`. The invariant adds
  *Stage*, what a request's place tells of its hold and its scopes (a request that has
  not come to `HoldCredit` holds nothing, one that counts as running has started),
  and *Dated*, nothing is dated later than today. Without *Dated* a request could end
  in a day that has not begun.
* `BudgetsOverdraft`: `Spec => []Overdraft`, which is a sum of costs over requests. The
  invariant *Books* follows the money from the row back to the hold. *Filed*: where a
  row is tells where its request is. *Snapped*: a balance that was read is too high only
  by the charges that landed since, which is what a slow reconcile brings back. *Seen*:
  the local balance is too high by no more than `gap`, the most one reconcile forgot; it
  replaces the balance, so what several forgot does not add up. *Covered*: with `gap` and
  `beyond` added, what is left covers the holds still to be charged, but for less than
  one; a hold is given when the local balance is positive, and *Seen* makes that a fact
  about the account, so `beyond` begins again there.

`KeyCacheProofs`, from `KeyCacheAssumption` (any callers, keys, slots and changes):

* `KeyCacheTypeOK`, `KeyCacheOneQueryPerKey` (`Spec => []OneQueryPerKey`) and
  `KeyCacheKeyFresh` (`Spec => []KeyFresh`). *Booked* and *Placed* say where calls and
  callers are: a call under way is the one in flight for its key and has its slot.
  *Behind*: nobody is ahead of the row, the generation or the drops. *Fresh* is the
  argument itself: an entry of the present generation, or an answer `remember` would
  still cache in it, is as new as what was forgotten, and for a caller that asks in an
  earlier generation, as new as what was forgotten when it began. `Forget` keeps it by
  counting a drop, `Sweep` and the reconnect by a new generation.

`PaymentsProofs`, from `PaymentsAssumption` (any number of payments, periods and
settlements at once):

* `PaymentsTypeOK`, `PaymentsOneChargePerKind` and `PaymentsPeriodsPaidOnce`.
  *StartOK*: where the process that starts a payment is tells where its transaction
  is, crashes included. *ReadsOK*: what was read of a transaction still holds when it
  is recorded, however late. *EndsOK*: a payment is paid for money that came in, and
  an open transaction has a pending payment or one that is a day old. *Alone*: one
  payment by card of a kind is pending at a time. *Due*: no period is paid before the
  earlier ones are.
* `PaymentsMoneyMoves`: each step adds to the balance exactly the credit of the one
  payment it moves to paid, or takes off what is used.
* `PaymentsCreditedOnce`: `Spec => []CreditedOnce`, which adds that up over all payments.

Both sums are `SumFunction` of the community modules, a recursive function over the
subsets of its index set. The lemmas *SumsThere*, *SumIs* and *SumMoves* say that this
function exists, that it does not depend on the order of the elements, and that a change
at one index changes the sum by as much. Where an induction is needed it is a least
counterexample in the size of the subset (`WFMin`), for one fixed predicate at a time.

`PipelineProofs`, from `PipelineAssumption` and `TreeAssumption` (any models, filters and
routers whose steps `Router.Problem` lets through; the steps of a router are a tree):

* `PipelineEndsClean`, `PipelineEveryStepPassed` and `PipelineKeyCallsPaid`
  (`Spec => []EndsClean` and so on). One inductive invariant of ten parts carries the
  three. *Books*: while the request is under way each of its scopes is charged what its
  filters and routes have cost so far, and afterwards what its row says. *Counts*: it
  runs in each of its counted scopes once and is in flight at one model at most.
  *Ahead*: a step of the router that is still to come has no scope the request has
  entered, so no limit is counted twice; this is where the tree is needed. *Chosen*: a
  decision leads only to models the router reaches. *Credit*: credit is held for every
  model on the deployment's key the request may still come to. *Filtered*: the key's
  filters have run, or are queued, or the request is being refused. *Bodied*: each body
  that exists has every rewrite, and the one a model of the chain will get exists.
  *Sendings*: what was sent is a prefix of the chain, with that body. *Paid*: what is
  owed for the last call is on the row. *Form* is the type of the call.

`PasskeysProofs`, from `PasskeysAssumption` (any people, passkeys, links and browsers;
an id that means nothing is no row, no provider is called `passkey`, and the tables are
consistent at the start):

* `PasskeysStayApart` (`Spec => []PasskeysApart`) and `PasskeysUsedOnce`
  (`Spec => []UsedOnce`). *Sane*: what a row refers to is there, an open passkey belongs
  to a passkey account, and each request knows of the tables what it has checked. A row
  that is a passkey account stays one as long as it is there, which is why the check
  before `StorePasskey` may be a statement old. *Counted*: no counter value that was
  accepted is above the stored one while the passkey is there, and a removed passkey
  does not come back. *Linked*: a link is taken by one request, which makes at most one
  passkey of it, and a link that is gone is not given out again.

`SignInProofs`, from `SignInAssumption` (any people, providers, organisations, sign-ins
and requests at once; an id that means nothing is no row, no provider issues the
operator key's stand-in, and at the start no two people have a rotating refresh token
in common and nobody is invited as an operator, which `mayGrant` never allows):

* `SignInTokenSpentOnce` (`Spec => []TokenSpentOnce`). *TokenSpentOnce* says nothing of
  where the tokens are, so the inductive invariant does. *Alone*: a rotating token has
  one holder, which is an identity (as stored, or as a check under way read it), an
  unconfirmed sign-up, or a request that has yet to store it. *Issued*: nobody has a
  token that was not given out. *Unspent*: a token the provider has taken back is with
  an identity whose check has the next one in hand, or whose next one was lost, with its
  answer or before it was stored.
  *OneCheck*: one request at a time asks a directory about a person and no further check
  of that person is due meanwhile, which is what `ClaimDirectoryCheck` is for.
* `SignInSignInsHold` (`Spec => []SignInsHold`), by one lemma for each statement of
  `Accounts` and one for each action. *SignedIn*: rows of people and sign-ins fit
  together, and what an ending was meant for is deleted. *Knows*: a request past the
  choice of its row has a row its person owns; rows stay and keep whoever has taken
  them (`Grows`), so this outlives what others do between two statements. *Asked*: the
  row a switch goes to is the person's own, or an invitation it still has to take.
  *Came* and *Redeemed*: a code that is being redeemed is deleted and not over, and no
  request came with one. Without the last a sign-out of one sign-in could end a code that
  is already on its way to being a token. A DELETE takes what it finds (`Endings`), so
  nothing needs to hold between the three of a sign-out.
* `SignInRolesAppointed` (`Spec => []RolesAppointed`), on top of the same invariant.
  *Lands*: a sign-in that may make a row makes it where its directory's addresses land.
  This stays true while organisations are made, because they are made only by a sign-up
  or when there is none (`Dirs`). *Watched* is whom nobody may be about to make an
  operator: the settled identities, and those with a request under way that is not
  crossed. *Demotes* and *Opened*: no request, and no sign-up that is open, is about to
  make an operator of them, so no step gives a row of theirs the role (`OldOps`).
  *Reads*: an uncrossed request that has read and not yet written its person's rows has
  read every operator role they have; what it leaves behind when it has written the last
  of them is none, and the identity is settled.

`PolicyReloadProofs`, from `PolicyReloadAssumption` and `TablesAssumption` (any
organisations, any number of changes and failures):

* `ReloadTypeOK`, `ReloadNoLostWake` (`Spec => []NoLostWake`) and `ReloadNeverBack`
  (`Spec => NeverBack`). The inductive invariant is `TypeOK` and three parts.
  *Ordered*: no index and nothing read is newer than the database. *ReadAhead*:
  what a pass has read is at least as new as the indexes it will replace; this is
  what keeps an index from going back, and it needs that only one pass runs.
  *Told*: every change the listener has told of is in the indexes, in what has been
  read, still to be read by the pass under way, or wanted again.

TLC has checked each of these inductive invariants on the instance of its component's
run.

Model-checked only: everything under fairness (*RunEnds*, *Converges*, *StaleGoes*,
*ResolveEnds*, *ComesFresh*, *ChargesLand*, *HoldersFinish*), which is out of the
prover's reach; *AccountedOnce*, *NeverMinted* and *Agree*, which fold over sequences of
charges and need an induction over them; *StreamIsWhole*, *EndIsTold* and *RequestKept*,
whose translations are recursive; and the invariants of `Catalogue`, `Tenants` and
`MCPGateway`, see the plan.


## 6. Findings

`recorder_stop` is a run that TLC shows violated: after the stop, `Run` may still
take events and write them on the cancelled context, so they are dropped although
the database works. The line it contradicts is quoted in `PROJECT.json`.

The models also reach these. The first five are stated as definitions that no run
checks; naming one as an INVARIANT (the first as a PROPERTY) of its module's cfg
shows the trace.

* *ForgottenNotCharged* (Payments): a round charges the card it listed, though
  another card has replaced it since (`store/credit.go:265`, against
  `control/payments.go:238`, "if this fails, the token is never charged again").
* *DeliveredIsBilled* (Pipeline): a model on the deployment's key got the request and
  did not begin to answer in time; the request fails over, another model answers, and
  the first call is billed to nobody (`forward.go:142`). The last call of a chain is
  billed the most it may have used (`credit.go:92`, `serve.go:862`,
  `docs/billing.md:145`).
* *LastPasskeyStays* (Passkeys): two removals of a person's two passkeys both pass.
  The count stands in the statement that waits for the owner's lock, and sees the
  rows as they were before it waited; `store/passkeys.go:80` says "two removals cannot
  both pass".
* *DisabledHasNone* (Passkeys): a set-up that has checked the account stores its
  passkey after the person was disabled (`control/passkeys.go:338`), so enabling them
  lets it in without the new link of `docs/sso.md:682`.
* *ServerKeyStaysHome* (Catalogue, with `Setups <- MCServerSetups`): two saves of one
  MCP server, each from the row it read (`control/mcp.go:73`), leave the credential
  entered for one host on a row that goes to another. Models are saved under the lock
  for that reason (`control/models.go:207`).
* A sign-up keeps the role its person had when it was opened. Somebody who opened one
  as an operator, joined an organisation otherwise and was demoted since still becomes
  operator of the organisation they then sign up (`store/signup.go:108`), until the
  directory is asked again, though `docs/sso.md:76` says "Remove a person from the group,
  and they are demoted within 15 minutes". The proof of *RolesAppointed* met this: without
  `Pending` in `Carried` the invariant is not inductive.
* The same line is missed by a switch of organisation. `switchOrg` reads that the person
  is an operator (`control/memberships.go:148`), a re-check or a sign-in demotes them
  everywhere, and the switch then writes the operator role it read on the row it goes to
  (`memberships.go:200`), where it stays until the next check. *RolesAppointed* exempts
  this as `crossed`; with `crossed` left empty TLC shows the trace.
* A sign-out everywhere, or a role change, deletes the codes in one statement and the
  tokens in the next. A code a terminal had taken before (`store/cli.go:31`) is in
  neither, and becomes a token after both, though `store/session.go:57` says a role change
  signs a row out "everywhere", and that this "includes pending command-line sign-ins,
  whose code could still mint a token". *SignInsHold* exempts it: such a code is not in
  `over`.
* A provider rotates the refresh token and the ID token it sends along does not verify,
  is of somebody else, or the ten seconds are over (`authn/oidc.go:389`,
  `control/directory.go:73`). The new token is dropped with the answer, the stored one is
  spent, and the next check shows it again, which a rotating provider takes for theft and
  ends the link; `oidc.go:381` says "Keep the returned refresh token: some providers
  rotate it". *TokenSpentOnce* exempts it as `lost`.
* A token bucket in Redis expires a minute after it would be full from empty
  (`ratelimit/redis.go:209`), and with it any debt of more than a minute's limit, though
  `limiter_test.go` says that a charge "can overdraw, so one huge request is paid for
  later". The in-memory bucket keeps the debt until nobody has used it for `BucketIdle`,
  ten minutes (`control/server.go:400`). So the two part, against `redis_test.go:330`,
  "Switching Redis on must not change how the limits behave". *Agree* with `apart` left
  empty shows the trace.
* A rotation copies its key's guardrail in its transaction and without `LockReferences`
  (`store/tenants.go:717`, `store/guardrails.go:39`). If the guardrail is rewritten
  without a filter or a server after the copy, and that is deleted before the commit,
  the new key's guardrail names what is gone and every request with it is refused, which
  the lock is for (`guardrails.go:87`, "so the check still holds at the write").
  *NamesHold* without `db.stale` shows the trace. The copy may keep the alias of a model
  that was deleted meanwhile, too.
* Two requests that arrive together both pass a limit of one per day, because
  `checkQuotas` and `StartRequest` are two critical sections (`serve.go:518`), though
  `registry/budget.go:94` says they "cannot all slip under the limit".
* A request whose upload crosses midnight is charged to one day in memory and to
  another in the database (`store/usage.go:183`, against `gateway/serve.go:42`).
* A request that comes after a key was forgotten can join a query that read the row
  before, and is let in (`registry.go:646`), though `docs/gateway.md:645` says a
  revoked key "stops working right away". *KeyFresh* shows that this is the only
  way it can be.
* A recurring charge created between `forgetCard`'s two queries is left without a
  card (`control/payments.go:214`, against `docs/billing.md:271`).
* A negative count of input or output tokens is not clamped and makes an answer's
  cost negative (`policy/policy.go:168`, against the comment above it).
* The chunks of a text completion hold no `"delta"` (`gateway/sse.go:253`), so a streamed
  `/v1/completions` that is cancelled before its usage record is charged no output, though
  `gateway/serve.go:1071` says that the tokens "are charged on an estimate, or any client
  could dodge its budget by cancelling". *EndIsTold* covers chat tokens only.
* A chat stream passed on that ends cleanly inside `"finish_reason":null` counts as
  finished, as the beginning of `null` is taken for a reason (`gateway/sse.go:298`),
  though `sse.go:190` says that a finish reason is what "every backend sends at the end of
  a whole answer". *EndIsTold* exempts it (`EndsInNull`).
* Of streams that are not orderly: fragments of two tool calls that alternate open a
  block without a name for the second half (`gateway/events.go:110`), and calls
  without an index run into one (`gateway/sse.go:692`); a dropped reasoning item between two tool outputs lets the
  images of the first come between them (`gateway/responses.go:158`).

## 7. Plan

The components that carry the gateway's own logic are modelled. What is left is to
prove more of it for every instance, in this order:

1. *OneLive* of `Tenants`.
2. Lemmas about combining guardrails and clamping token counts.
3. Of `RateLimit`, what does not depend on the folds: the part of *NeverMinted* that
   is about one bucket.

Also open: that a charge of a saved card ends (polls and crashes under fairness), and
the money's arithmetic (VAT, fees).

## 8. What is not modelled

Of the pipeline, the order in which loads put the destinations and `send`'s turn over
a model's backends (choices here), the gateway's own token counts, the per-minute token charges,
metrics and traces. Of the dialects, JSON itself and the fields that are passed on
unread. Of sign-in, cookies, the limits of sign-in attempts and the cryptography of
OIDC, LDAP and WebAuthn, whose verdicts are inputs; a re-check that brings no new refresh
token stores the old one again in the code and leaves it in `SignIn`. Of the control API, the settings
and the deletion of an organisation, test calls of hooks and the playground. VAT,
fees and currency arithmetic, receipts, and the advisory rate-limit headers are data
without control. Reports, the live view, configuration, secrets, metrics, the command
line and the web panel keep no state that a request depends on. The numbers of
Limiter are whole where the code has floats. A process that dies loses its held token
charges and its queued events; the models stop before that, except Payments, where a
crash between two steps is what the polls exist for, and SignIn and Passkeys, where a
request may stop between any two statements. A statement that fails in `Catalogue` or
`Tenants` ends its transaction, and is left out.

## 9. Further hazards

`PROJECT.json` has the forty that matter most. These are of the same kind; in
brackets the property that would catch it. Those without one are in section 6, or the
code's documents do not say what should happen.

* `usage/recorder.go:186`: A write that timed out may have landed: a retry would bill
  twice. (*ImplementsLedger*)
* `usage/recorder.go:107`: A request that waits for room in a queue whose writer
  stalled never returns, and the shutdown that waits for it never comes to stop the
  recorder. (*RunEnds*)
* `gateway/serve.go:518`: The limit of requests per day is checked and counted in two
  steps.
* `registry/registry.go:601`: keepSpend and the control plane both load and replace
  the credit, so an older read can be applied last. (*Overdraft*, *Converges*)
* `registry/budget.go:128`: A request ends in another window than the one running
  counts by then. (*CountsMatch*)
* `store/usage.go:183`: The row is stamped on arrival and the limits are checked after
  the upload; midnight lies between.
* `registry/registry.go:646`: A request joins a query that began before the key was
  revoked. (*KeyFresh*)
* `registry/registry.go:301`: A change is noted while the loop is between taking the
  pending set and finishing a pass, so a wake-up could be swallowed by the pass
  already running. (*NoLostWake*)
* `control/payments.go:214`: forgetCard checks for recurring charges in one query and
  forgets the card in another.
* `control/payments.go:494`: Webhooks are lost, late or repeated, and a failed payment
  can still be paid. (*CreditedOnce*)
* `control/payments.go:616`: The amount asked is computed in integer micros and
  compared with the float PostFinance returns, rounded to centimes.
* `ratelimit/redis.go:209`: A bucket charged below what one minute refills expires
  before its debt is paid.
* `ratelimit/redis.go:331`: Shutdown stops the flush loop while charges are held.
  (*ChargesLand*)
* `gateway/serve.go:151`: A router's limit step adds scopes while the request runs,
  and the deferred EndRequest has to count them too, or a daily limit shows a request
  as running for ever. (*EndsClean*)
* `gateway/forward.go:139`: Fail-over begins a count of in-flight requests per
  destination; each exit has to release exactly the ones it began. (*EndsClean*)
* `gateway/serve.go:855`: The client leaves, or the process stops, at any point of
  forwarding: what was used on the deployment's key must be billed all the same, and a
  request ends with one row. (*KeyCallsPaid*, *EndsClean*)
* `gateway/credit.go:16`: Credit is held before the router has chosen, for the models
  it may reach; a path that Reaches misses would spend the deployment's money without
  a hold. (*KeyCallsPaid*)
* `store/session.go:332`: Two sign-ins, or a sign-in and an invitation, place one
  address or one external id at once: a session could act as a row that another
  identity took. (*SignInsHold*)
* `control/directory.go:98`: The provider rotated the refresh token and storing the
  new one fails: the link has only a spent token.
* `control/auth.go:451`: The directory demotes an operator row by row, and a row of the
  person in another organisation is made or taken meanwhile. (*RolesAppointed*)
* `control/memberships.go:200`: Switching organisations carries the operator role over
  from a row read a statement earlier, while the directory demotes the person.
* `control/cliauth.go:240`: The life of a new sign-in is chosen from whether the
  identity has a link to its directory, and the link is ended before the session is
  stored: the session then lasts a month with nobody re-checking it.
* `store/cli.go:31`: A code is taken, the person is signed out everywhere, and the
  token is stored afterwards.
* `control/passkeys.go:333`: One set-up link is opened in two browsers and both
  finish. (*UsedOnce*)
* `store/passkeys.go:85`: Two removals of a person's two passkeys: the count stands in
  the statement that waits for the row lock and reads the rows as they were before it
  waited, so both pass, against the comment at store/passkeys.go:80.
* `control/passkeys.go:338`: A set-up has checked the account and stores its passkey
  after the person was disabled, so enabling them lets that passkey in.
* `control/filters.go:307`: The organisation's allow-list is narrowed while a filter
  or a deciding step is saved with a model it no longer holds. (*NamesHold*)
* `control/mcp.go:73`: Two saves of one MCP server, one that keeps the credential and
  one that moves the host, each from the row it read: they are not under
  LockReferences as the models are.
* `control/models.go:178`: The model is stored and adding it to the organisation's
  allow-list fails: the model is there and nobody may use it, until it is saved again.
* `store/tenants.go:553`: A key is created or rotated from a check of its person that
  was true before the person was disabled and enabled again.
* `control/agents.go:352`: What Keera Agents is told of a project is combined on
  another path than what the gateway enforces for the keys it issued there.
  (*ChainEnforced*)
* `gateway/responses_stream.go:277`: A fragment of a custom tool's argument ends
  inside an escape or between the halves of a surrogate pair. (*StreamIsWhole*)
* `gateway/sse.go:133`: The upstream closes after its last event without the blank
  line that ends it, or in the middle of a line. (*StreamIsWhole*, *EndIsTold*)
* `gateway/serve.go:1068`: The stream breaks before its usage record: what was sent on
  the deployment's key would be free. (*EndIsTold*, *KeyCallsPaid*)
* `gateway/mcp.go:381`: A filter rewrites a call's arguments, and an Mcp-Param header
  still carries the value from before. (*OnlyAllowedTools*)
* `gateway/messages.go:390`: A turn mixes tool results, text and images; the chat API
  wants every result right after the turn that called, and images in a turn of their
  own. (*RequestKept*)
* `gateway/responses.go:170`: Images in the output of one of several calls would come
  between the outputs. (*RequestKept*)
