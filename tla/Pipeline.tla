------------------------------ MODULE Pipeline ------------------------------
(***************************************************************************)
(* One inference request on its way through the gateway: serve and what it *)
(* calls in internal/gateway (serve.go, router.go, route.go, filter.go,    *)
(* forward.go, credit.go, refuse.go, window.go), from the upload to the    *)
(* usage row.                                                              *)
(*                                                                         *)
(* Around it the client may leave, the policy index may be reloaded, a     *)
(* provider may fail before or after it got the request, and the process   *)
(* may be told to stop.  The verdict of every limit, filter and deciding   *)
(* model is a choice, as is what it costs.  Prices are 0 or 1.             *)
(***************************************************************************)
EXTENDS Integers, Sequences, FiniteSets

CONSTANTS
  Models,      \* the organisation's chat models, and those of them ...
  OnKey,       \* ... on the deployment's provider key (PlatformKey)
  Native,      \* ... sent the client's own API when the request came in it
  Subscribed,  \* ... paid by the caller's own subscription
  Filters,     \* its filters, and those of them ...
  Shadow,      \* ... that only watch
  Rewriters,   \* ... that may rewrite (the others are gates)
  KeyFilters,  \* Resolved.Filters, in order
  KeyPrompt,   \* the key's levels have a system prompt
  Steps,       \* every router step there is, by id
  Starts,      \* the first step of each router
  NoStep, NoModel,
  KeyScope,    \* Resolved.Scopes, and ...
  QuotaScope,  \* ... Resolved.Quotas; a limit step's scope is its id
  HooksBilled, \* a filter or a deciding model is billed to the credit
  MaxReloads   \* bound: how often the index changes during the request

StepIds == DOMAIN Steps
Limits  == {s \in StepIds : Steps[s].kind = "limit"}
Scopes  == {KeyScope, QuotaScope} \cup Limits
\* The scopes with the meter 'requests': daily and monthly limits.
Counted == {QuotaScope} \cup {s \in Limits : Steps[s].counted}
Modes   == {"instruction", "header", "size", "fallback", "measured"}
Stages  == {"receive", "decode", "admit", "router", "placed", "place", "filter",
            "prepare", "forward", "sent", "answer", "return", "done"}
Results == {"undelivered", "lost", "5xx", "4xx", "ok"}

ASSUME PipelineAssumption ==
  /\ OnKey \subseteq Models /\ Native \subseteq Models
  /\ Subscribed \subseteq Native \ OnKey
  /\ Shadow \subseteq Filters /\ Rewriters \subseteq Filters
  /\ KeyFilters \in Seq(Filters) /\ KeyPrompt \in BOOLEAN /\ HooksBilled \in BOOLEAN
  /\ Starts \subseteq StepIds /\ NoStep \notin StepIds /\ NoModel \notin Models
  /\ KeyScope \notin StepIds /\ QuotaScope \notin StepIds /\ KeyScope # QuotaScope
  /\ MaxReloads \in Nat
  /\ \A s \in StepIds : Steps[s].kind = "route" =>
       /\ Steps[s].mode \in Modes
       /\ Steps[s].dests \in Seq(Models) /\ Steps[s].dests # <<>>
       /\ Steps[s].fallback \in {NoModel} \cup {Steps[s].dests[i] : i \in DOMAIN Steps[s].dests}
       /\ Steps[s].branches \in [Models -> StepIds \cup {NoStep}]
  /\ \A s \in StepIds : Steps[s].kind \in {"filter", "prompt", "limit"} => Steps[s].next \in StepIds
  /\ \A s \in Limits : Steps[s].exceeded \in StepIds \cup {NoStep}

VARIABLES
  c,         \* the call: what serve and its steps keep of the request
  spent,     \* Budgets: what each scope's window was charged for the request
  running,   \* Budgets.running: requests under way, per counted scope
  held,      \* Budgets.held: there is credit held for the request
  inflight,  \* loads: requests in flight, per model
  up,        \* the models that can be served, as the policy index has them
  reloads,   \* how often it changed
  gone,      \* the client's context has ended
  cut,       \* the stop, or the end of readOnFor, ended the outlasting context
  sent,      \* what went out to a model's backends, and what became of it
  rows       \* the usage events recorded

server == <<spent, running, held, inflight>>
world  == <<up, reloads, gone, cut>>
vars   == <<c, server, world, sent, rows>>

\* A body: whether there is one, the filters whose rewriting is in it, and
\* whether the standing system prompt is.
NoBody   == [here |-> FALSE, edits |-> {}, prompt |-> FALSE]
RawBody  == [NoBody EXCEPT !.here = TRUE]
NoRun    == [micros |-> 0, stop |-> FALSE, edits |-> {}, ran |-> {}, applied |-> {}]
Undecided == [alias |-> NoModel, chain |-> <<>>, micros |-> 0, refused |-> FALSE]

Elems(q) == {q[i] : i \in DOMAIN q}
\* The orders q can be put in.
Orders(q) == {p \in [DOMAIN q -> Elems(q)] : Elems(p) = Elems(q)}
\* The elements of q that are in set, in their order.
Kept(q, set) ==
  LET upto[n \in 0..Len(q)] ==
        IF n = 0 THEN <<>>
        ELSE IF q[n] \in set THEN Append(upto[n - 1], q[n]) ELSE upto[n - 1]
  IN  upto[Len(q)]

-----------------------------------------------------------------------------
(* Routers: trees of steps.                                                *)

\* What can follow a step.
After(s) ==
  CASE Steps[s].kind = "route" -> {Steps[s].branches[m] : m \in Models} \ {NoStep}
    [] Steps[s].kind = "limit" -> {Steps[s].next, Steps[s].exceeded} \ {NoStep}
    [] Steps[s].kind \in {"filter", "prompt"} -> {Steps[s].next}
    [] OTHER -> {}

\* A step is written inside the one it follows, so none comes again further
\* down: of any steps there is one that none of them follows.
ASSUME TreeAssumption ==
  \A some \in SUBSET StepIds : some # {} => \E s \in some : After(s) \cap some = {}

\* Router.Steps: every step of the router that starts at s.
StepsOf[s \in StepIds] == {s} \cup UNION {StepsOf[x] : x \in After(s)}

\* Router.Reaches: every model the router may send to.  A destination with a
\* branch is reached only through it.
Reaches(s) ==
  UNION {CASE Steps[x].kind = "model" -> {Steps[x].ref}
           [] Steps[x].kind = "route" ->
                {m \in Elems(Steps[x].dests) : Steps[x].branches[m] = NoStep}
           [] OTHER -> {} : x \in StepsOf[s]}

\* The filter steps in a row from s on, and the step after them.
FilterRow[s \in StepIds] ==
  IF Steps[s].kind = "filter" THEN <<Steps[s].ref>> \o FilterRow[Steps[s].next] ELSE <<>>
AfterRow[s \in StepIds] ==
  IF Steps[s].kind = "filter" THEN AfterRow[Steps[s].next] ELSE s

\* serveable: the model can answer a chat request, as the index has it now.
Serveable(m) == m \in up

\* askGuard and answerCost: what one call of a filter's or a route step's
\* model may cost, failed and broken-off ones included.
HookCost == 0..1

-----------------------------------------------------------------------------
(* What every ending shares.                                               *)

\* hookMicros: what the request's route steps and filters spent.
HookMicros(cc) == cc.filterMicros + cc.decision.micros + cc.earlier

Charge(scopes, micros) ==
  spent' = [s \in Scopes |-> IF s \in scopes THEN spent[s] + micros ELSE spent[s]]

\* closeEarly: the row of a request that ended before a model answered, for
\* refuse and for hungUp.
CloseEarly(cc) ==
  /\ rows' = Append(rows, [cost |-> HookMicros(cc), scopes |-> cc.scopes, bill |-> 0])
  /\ c' = [cc EXCEPT !.stage = "return"]

\* finish: the budgets are charged the answer, the hooks' spend having been
\* charged as it happened, and the row carries both.  A subscription's answer
\* costs the organisation nothing.  A model on the deployment's key is billed.
Finish(cc, tokens) ==
  LET cost == IF cc.model \in Subscribed THEN 0 ELSE tokens
  IN  /\ Charge(cc.scopes, cost)
      /\ rows' = Append(rows, [cost   |-> cost + HookMicros(cc),
                               scopes |-> cc.scopes,
                               bill   |-> IF cc.model \in OnKey /\ tokens > 0 THEN cc.at ELSE 0])
      /\ c' = [cc EXCEPT !.stage = "return"]

ChainOnKey(cc) == \E m \in Elems(cc.chain) : m \in OnKey

\* ctx.Err() of the context the request is forwarded with.
ContextOver == IF ChainOnKey(c) THEN cut ELSE gone

-----------------------------------------------------------------------------
(* receive, decode, target and admit.                                      *)

\* receive: the whole body, a refusal before anything is deferred, or a
\* client that left mid-upload, which gets no answer and no row.
Receive ==
  /\ c.stage = "receive"
  /\ \/ c' = [c EXCEPT !.stage = "decode"] /\ UNCHANGED rows
     \/ /\ rows' = Append(rows, [cost |-> 0, scopes |-> c.scopes, bill |-> 0])
        /\ c' = [c EXCEPT !.stage = "done"]
     \/ c' = [c EXCEPT !.stage = "done", !.silent = TRUE] /\ UNCHANGED rows
  /\ UNCHANGED <<server, world, sent>>

\* target: a router, or a model that may be called directly.
Callable(m) == IF m \in Subscribed THEN c.dialect ELSE Serveable(m)

Decode ==
  /\ c.stage = "decode"
  /\ \/ CloseEarly(c)
     \/ /\ c.start = NoStep => Callable(c.model)
        /\ c' = IF c.dialect THEN [c EXCEPT !.stage = "admit", !.native = RawBody]
                             ELSE [c EXCEPT !.stage = "admit", !.body = RawBody]
        /\ UNCHANGED rows
  /\ UNCHANGED <<server, world, sent>>

\* billed: the request may call a model that is billed to the credit.
Billed ==
  \/ HooksBilled /\ (c.start # NoStep \/ KeyFilters # <<>>)
  \/ (IF c.start = NoStep THEN {c.model} ELSE Reaches(c.start)) \cap OnKey # {}

\* admit: a due charge, a filter outside the allowed locations, the rates and
\* the quotas refuse before credit is held, the credit itself and the budgets
\* after; a request let through counts against the quotas from then on.
Admit ==
  /\ c.stage = "admit"
  /\ \/ CloseEarly(c) /\ UNCHANGED <<held, running>>
     \/ /\ CloseEarly(c)
        /\ ~(c.model \in Subscribed /\ KeyFilters = <<>>)
        /\ Billed /\ held' = TRUE /\ UNCHANGED running
     \/ /\ c' = [c EXCEPT !.scopes = @ \cup {QuotaScope},
                          !.stage = IF c.start = NoStep THEN "place" ELSE "router"]
        /\ held' = Billed
        /\ running' = [running EXCEPT ![QuotaScope] = @ + 1]
        /\ UNCHANGED rows
  /\ UNCHANGED <<spent, inflight, world, sent>>

-----------------------------------------------------------------------------
(* Filters: runFilters, applyFilters and chainFilter, for a row of filter  *)
(* steps of the router and for the key's own.                              *)

\* A chain of filters begins.  Without text none runs; a body that cannot be
\* read is refused.
StartChain(cc, queue, by) ==
  [cc EXCEPT !.stage = "filter", !.by = by,
             !.queue = IF cc.text = "some" THEN queue ELSE <<>>,
             !.run = [NoRun EXCEPT !.stop = queue # <<>> /\ cc.text = "unreadable"]]

\* chainFilter ends the chain here: with a refusal, or quietly for a client
\* that left.
StopChain(run, refused) ==
  c' = [c EXCEPT !.queue = <<>>, !.run = [run EXCEPT !.stop = refused]]

\* chainFilter goes on with the next filter.
NextFilter(run) == c' = [c EXCEPT !.queue = Tail(@), !.run = run]

RunFilter ==
  /\ c.stage = "filter" /\ c.queue # <<>>
  /\ LET f == Head(c.queue) IN
     \/ StopChain(c.run, TRUE)        \* no filter of that alias any more
     \/ \E cost \in HookCost :
          LET paid  == [c.run EXCEPT !.micros = @ + cost]
              noted == [paid EXCEPT !.ran = @ \cup {f}]
              on    == [noted EXCEPT !.applied = @ \cup {f}]
          IN  \/ gone /\ StopChain(paid, FALSE)
              \/ IF f \in Shadow THEN NextFilter(noted) ELSE StopChain(noted, TRUE)
              \/ IF f \in Shadow THEN NextFilter(noted) ELSE NextFilter(on)
              \/ /\ f \in Rewriters \ Shadow
                 /\ NextFilter([on EXCEPT !.edits = @ \cup {f}])
  /\ UNCHANGED <<server, world, sent, rows>>

\* retranslate: the OpenAI-shaped body made again from the client's own.
Retranslated(cc) == [cc EXCEPT !.body = cc.native]

OutdatedTranslated(cc) == cc.native.here /\ cc.translated

\* Whether the translation has to be made again after a chain rewrote the
\* client's own body: routerFilters asks whether there is one, useFilters
\* whether some destination gets it.
Outdated(cc) ==
  cc.native.here /\ (IF cc.by = "router" THEN cc.body.here ELSE cc.translated)

\* The chain is over: its spend is charged on every outcome, then its refusal
\* or the client's absence ends the request, else what it rewrote goes into
\* the body that would be sent now.
EndChain ==
  /\ c.stage = "filter" /\ c.queue = <<>>
  /\ Charge(c.scopes, c.run.micros)
  /\ LET added  == [c EXCEPT !.filterMicros = @ + c.run.micros, !.run = NoRun,
                             !.ran = @ \cup c.run.ran, !.applied = @ \cup c.run.applied,
                             !.stage = IF c.by = "router" THEN "router" ELSE "prepare"]
         passed == [added EXCEPT !.edits = @ \cup c.run.edits]
         edited == IF c.native.here
                     THEN [passed EXCEPT !.native.edits = @ \cup c.run.edits]
                     ELSE [passed EXCEPT !.body.edits = @ \cup c.run.edits]
     IN  IF c.run.stop \/ gone THEN CloseEarly(added)
         ELSE IF c.run.edits = {} THEN c' = passed /\ UNCHANGED rows
         ELSE \/ CloseEarly(added)    \* it could not be rebuilt
              \/ /\ c' = IF Outdated(edited) THEN Retranslated(edited) ELSE edited
                 /\ UNCHANGED rows
  /\ UNCHANGED <<running, held, inflight, world, sent>>

-----------------------------------------------------------------------------
(* Routers: useRouter and its steps.                                       *)

AtStep(kind) == c.stage = "router" /\ Steps[c.step].kind = kind

RouterFilters ==
  /\ AtStep("filter")
  /\ c' = StartChain([c EXCEPT !.step = AfterRow[c.step]], FilterRow[c.step], "router")
  /\ UNCHANGED <<server, world, sent, rows>>

\* routerLimit: within the limit the request is charged to it in full, from
\* what was spent so far; over it, it takes the exceeded branch, if any.
RouterLimit ==
  /\ AtStep("limit")
  /\ \/ /\ c' = [c EXCEPT !.scopes = @ \cup {c.step}, !.step = Steps[c.step].next]
        /\ Charge({c.step}, HookMicros(c))
        /\ running' = IF c.step \in Counted THEN [running EXCEPT ![c.step] = @ + 1] ELSE running
        /\ UNCHANGED rows
     \/ /\ IF Steps[c.step].exceeded = NoStep
             THEN CloseEarly(c)
             ELSE c' = [c EXCEPT !.step = Steps[c.step].exceeded] /\ UNCHANGED rows
        /\ UNCHANGED <<spent, running>>
  /\ UNCHANGED <<held, inflight, world, sent>>

RouterPrompt ==
  /\ AtStep("prompt")
  /\ c' = [c EXCEPT !.prompted = TRUE, !.step = Steps[c.step].next]
  /\ UNCHANGED <<server, world, sent, rows>>

\* routerModel: the router ends here, whatever an earlier step ranked.
RouterModel ==
  /\ AtStep("model")
  /\ IF Serveable(Steps[c.step].ref)
       THEN /\ c' = [c EXCEPT !.model = Steps[c.step].ref, !.decision.chain = <<>>,
                              !.stage = "place"]
            /\ UNCHANGED rows
       ELSE CloseEarly(c)
  /\ UNCHANGED <<server, world, sent>>

\* A step a newer version wrote.
RouterUnknown ==
  /\ AtStep("unknown")
  /\ CloseEarly(c)
  /\ UNCHANGED <<server, world, sent>>

-----------------------------------------------------------------------------
(* Route steps: routerRoute, useRoute, route and chain.                    *)

Decides(r) == r.mode = "instruction" /\ Len(r.dests) > 1

Chose(m, cost)  == [alias |-> m, chain |-> <<m>>, micros |-> cost, refused |-> FALSE]
Tries(q)        == [alias |-> q[1], chain |-> q, micros |-> 0, refused |-> FALSE]
Refused(cost)   == [Undecided EXCEPT !.micros = cost, !.refused = TRUE]

\* routeFallback: an undecided request goes to the step's fallback, if any.
Fallback(r, cost) == IF r.fallback = NoModel THEN Refused(cost) ELSE Chose(r.fallback, cost)

\* sortDestinations: the destinations that can be served, as written.
Offered(r) == Kept(r.dests, up)

\* sized: every destination that can be served, best size first.
Sized(r, text) ==
  IF text = "unreadable" \/ Offered(r) = <<>> THEN {Refused(0)}
  ELSE {Tries(q) : q \in Orders(Offered(r))}

\* byHeader: the destination the header names, the only one tried.
ByHeader(r) == {Fallback(r, 0)} \cup {Chose(m, 0) : m \in Elems(Offered(r))}

\* chain: the destinations in the written order, or in a measured one.
Chain(r) ==
  IF Offered(r) = <<>>
    THEN {IF r.mode = "instruction" THEN Fallback(r, 0) ELSE Refused(0)}
    ELSE {Tries(q) : q \in IF r.mode = "measured" THEN Orders(Offered(r)) ELSE {Offered(r)}}

\* decide: the step's model picks one of those offered, fails, or is broken
\* off with the client's context.
Decided(r) ==
  {Fallback(r, cost) : cost \in HookCost}
    \cup (IF gone THEN {[Undecided EXCEPT !.micros = cost] : cost \in HookCost} ELSE {})
    \cup {Chose(m, cost) : m \in Elems(Offered(r)), cost \in HookCost}

\* route: what a step may come to, from the index as it is now.
Routed(r, text) ==
  CASE r.mode = "size"   -> Sized(r, text)
    [] r.mode = "header" -> ByHeader(r)
    [] r.mode # "size" /\ r.mode # "header" /\ ~Decides(r) -> Chain(r)
    [] OTHER -> IF Len(Offered(r)) = 1 THEN {Chose(Offered(r)[1], 0)}
                ELSE IF text = "unreadable" THEN {Refused(0)}
                ELSE IF text = "none" THEN {Fallback(r, 0)}
                ELSE Decided(r)

\* translate: the OpenAI-shaped body, the first time something needs it.
Translated(cc) == IF cc.body.here THEN cc ELSE [cc EXCEPT !.body = cc.native]

\* routerRoute, up to the decision.  What earlier steps spent is kept.
RouterRoute ==
  /\ AtStep("route")
  /\ LET r     == Steps[c.step]
         reads == Decides(r) \/ r.mode = "size"
         kept  == [c EXCEPT !.earlier = @ + c.decision.micros, !.decision = Undecided,
                            !.route = c.step]
         read  == IF reads THEN Translated(kept) ELSE kept
     IN  \/ reads /\ ~c.body.here /\ CloseEarly(kept)
         \/ /\ \E d \in Routed(r, c.text) :
                 c' = [read EXCEPT !.decision = d, !.stage = "placed"]
            /\ UNCHANGED rows
  /\ UNCHANGED <<server, world, sent>>

\* The destinations that may be failed over to: those without a branch.
Unbranched(chain, branches) == Kept(chain, {m \in Models : branches[m] = NoStep})

\* useRoute after the decision, and the rest of routerRoute: it is charged on
\* every outcome; the model has to be there still; a branch goes on with its
\* steps, and without one the destinations that have one are not failed over
\* to.
Placed ==
  /\ c.stage = "placed"
  /\ Charge(c.scopes, c.decision.micros)
  /\ LET d == c.decision
         branches == Steps[c.route].branches
     IN  IF d.refused \/ gone \/ ~Serveable(d.alias)
           THEN CloseEarly(c)
           ELSE /\ c' = IF branches[d.alias] # NoStep
                          THEN [c EXCEPT !.model = d.alias, !.step = branches[d.alias],
                                         !.stage = "router"]
                          ELSE [c EXCEPT !.model = d.alias, !.step = NoStep, !.stage = "place",
                                         !.decision.chain = Unbranched(@, branches)]
                /\ UNCHANGED rows
  /\ UNCHANGED <<running, held, inflight, world, sent>>

-----------------------------------------------------------------------------
(* From the chosen model to the body that is sent.                         *)

\* destinations: the models to try, as the index has them now.
Destinations(cc) ==
  LET there == Kept(cc.decision.chain, up)
  IN  IF Len(cc.decision.chain) < 2 \/ there = <<>> THEN <<cc.model>> ELSE there

SendsNative(cc, m) == cc.native.here /\ m \in Native

\* destinations, useNative and fits, then the key's filters begin.  The
\* client's own body is kept only if a destination gets it; one that only its
\* provider can read goes nowhere else.  A filter the router ran is skipped.
Place ==
  /\ c.stage = "place"
  /\ LET chosen == Destinations(c)
         chain  == IF c.native.here /\ c.needsNative
                     THEN Kept(chosen, {m \in Models : SendsNative(c, m)}) ELSE chosen
         some   == \E m \in Elems(chain) : SendsNative(c, m)
         others == \E m \in Elems(chain) : ~SendsNative(c, m)
         made   == IF others THEN Translated(c) ELSE c
         ready  == [made EXCEPT !.chain = chain,
                                !.translated = c.native.here /\ others,
                                !.native = IF some THEN @ ELSE NoBody]
         left   == Kept(KeyFilters, Filters \ c.ran)
     IN  \/ CloseEarly([c EXCEPT !.chain = chain])   \* untranslatable, or too long
         \/ /\ chain # <<>>
            /\ c' = StartChain(ready, left, "key")
            /\ UNCHANGED rows
  /\ UNCHANGED <<server, world, sent>>

\* prepare: the standing system prompt goes into every body that may be sent.
Prepare ==
  /\ c.stage = "prepare"
  /\ LET prompt == KeyPrompt \/ c.prompted
         With(b) == [b EXCEPT !.prompt = b.here /\ prompt]
     IN  \/ prompt /\ CloseEarly(c)
         \/ /\ c' = [c EXCEPT !.body = With(@), !.native = With(@), !.stage = "forward"]
            /\ UNCHANGED rows
  /\ UNCHANGED <<server, world, sent>>

-----------------------------------------------------------------------------
(* forward and answer.                                                     *)

\* outbound: the body a destination is sent.
Outbound(m) == IF SendsNative(c, m) THEN c.native ELSE c.body

\* One round of forward's loop: the destination is busy, and the request is
\* on its way.
Send ==
  /\ c.stage = "forward"
  /\ LET m == c.chain[c.at]
     IN  /\ inflight' = [inflight EXCEPT ![m] = @ + 1]
         /\ sent' = Append(sent, [model |-> m, body |-> Outbound(m), result |-> "lost"])
  /\ c' = [c EXCEPT !.stage = "sent"]
  /\ UNCHANGED <<spent, running, held, world, rows>>

\* send comes back: no backend could be reached, the request got there and no
\* answer came, or an answer began.  The next destination is tried only after
\* a failure, while there is one and the context lasts.
Came ==
  /\ c.stage = "sent"
  /\ \E result \in Results :
       /\ sent' = [sent EXCEPT ![Len(sent)].result = result]
       /\ IF /\ c.at < Len(c.chain) /\ ~ContextOver
             /\ result \in {"undelivered", "lost", "5xx"}
            THEN /\ inflight' = [inflight EXCEPT ![c.chain[c.at]] = @ - 1]
                 /\ c' = [c EXCEPT !.at = @ + 1, !.stage = "forward"]
            ELSE /\ c' = [c EXCEPT !.stage = "answer", !.busy = c.chain[c.at]]
                 /\ UNCHANGED inflight
  /\ UNCHANGED <<spent, running, held, world, rows>>

OrNothing(tokens, m) == tokens

\* billUnreported: on the deployment's key the most it may have used.
OrMost(tokens, m) == IF m \in OnKey /\ tokens = 0 THEN 1 ELSE tokens

\* relayStream and relayBuffered: the tokens the row says.  A stream without
\* its usage record is charged an estimate, unless it is on the key; a
\* buffered answer may not say, or not be read to its end.
Relayed(m, usage, streaming) ==
  IF usage \/ (streaming /\ m \notin OnKey) THEN 1 ELSE 0

\* answer, once forward has returned.
Answer ==
  /\ c.stage = "answer"
  /\ LET m      == c.chain[c.at]
         result == sent[Len(sent)].result
         by     == [c EXCEPT !.model = m]
     IN  IF gone /\ ~ChainOnKey(c) THEN CloseEarly(c) /\ UNCHANGED spent
         ELSE CASE result = "undelivered" -> Finish(by, 0)
                [] result = "lost" -> Finish(by, OrMost(0, m))
                [] OTHER -> \E usage, streaming \in BOOLEAN :
                     LET tokens == Relayed(m, usage, streaming)
                     IN  /\ usage => result = "ok" \/ streaming
                         /\ Finish(by, IF result = "ok" THEN OrMost(tokens, m) ELSE tokens)
  /\ UNCHANGED <<running, held, inflight, world, sent>>

\* EndRequest's scopes are read when it is deferred, before the router's.
ReturnOwnScopes ==
  /\ c.stage = "return"
  /\ inflight' = [m \in Models |-> IF m = c.busy THEN inflight[m] - 1 ELSE inflight[m]]
  /\ running' = [s \in Counted |-> IF s \in c.scopes \ StepIds THEN running[s] - 1
                                                               ELSE running[s]]
  /\ held' = FALSE
  /\ c' = [c EXCEPT !.stage = "done"]
  /\ UNCHANGED <<spent, world, sent, rows>>

\* What was deferred: the destination, the counts of every scope the request
\* has by now, and the credit.
Return ==
  /\ c.stage = "return"
  /\ inflight' = [m \in Models |-> IF m = c.busy THEN inflight[m] - 1 ELSE inflight[m]]
  /\ running' = [s \in Counted |-> IF s \in c.scopes THEN running[s] - 1 ELSE running[s]]
  /\ held' = FALSE
  /\ c' = [c EXCEPT !.stage = "done"]
  /\ UNCHANGED <<spent, world, sent, rows>>

-----------------------------------------------------------------------------
(* Around the request.                                                     *)

HangUp ==
  /\ ~gone /\ c.stage # "done"
  /\ gone' = TRUE
  /\ UNCHANGED <<c, server, up, reloads, cut, sent, rows>>

\* The process stops, or the client left and readOnFor has passed.
CutOff ==
  /\ ~cut /\ c.stage # "done"
  /\ cut' = TRUE
  /\ UNCHANGED <<c, server, up, reloads, gone, sent, rows>>

\* A reload enables, disables, locks or unlocks models.  It does not move one
\* to another provider's key, and the filters stay as they are.
Reload ==
  /\ reloads < MaxReloads /\ c.stage # "done"
  /\ \E now \in SUBSET (Models \ Subscribed) : now # up /\ up' = now
  /\ reloads' = reloads + 1
  /\ UNCHANGED <<c, server, gone, cut, sent, rows>>

Init ==
  /\ \E start \in Starts \cup {NoStep}, model \in Models \cup {NoModel},
        dialect, needsNative \in BOOLEAN, text \in {"some", "none", "unreadable"} :
       /\ (start = NoStep) <=> (model # NoModel)
       /\ needsNative => dialect
       /\ c = [stage |-> "receive", start |-> start, step |-> start, model |-> model,
               dialect |-> dialect, needsNative |-> needsNative, text |-> text,
               silent |-> FALSE, body |-> NoBody, native |-> NoBody, translated |-> FALSE,
               scopes |-> {KeyScope}, filterMicros |-> 0, earlier |-> 0,
               decision |-> Undecided, route |-> NoStep, prompted |-> FALSE,
               queue |-> <<>>, by |-> "key", run |-> NoRun,
               ran |-> {}, applied |-> {}, edits |-> {},
               chain |-> <<>>, at |-> 1, busy |-> NoModel]
  /\ spent = [s \in Scopes |-> 0] /\ running = [s \in Counted |-> 0]
  /\ held = FALSE /\ inflight = [m \in Models |-> 0]
  /\ up = Models \ Subscribed /\ reloads = 0 /\ gone = FALSE /\ cut = FALSE
  /\ sent = <<>> /\ rows = <<>>

\* Nothing follows the end of a request.
Ended == c.stage = "done" /\ UNCHANGED vars

Work == \/ Receive \/ Decode \/ Admit
        \/ RunFilter \/ EndChain
        \/ RouterFilters \/ RouterLimit \/ RouterPrompt \/ RouterModel \/ RouterUnknown
        \/ RouterRoute \/ Placed \/ Place \/ Prepare
        \/ Send \/ Came \/ Answer \/ Return

Next == Work \/ HangUp \/ CutOff \/ Reload \/ Ended

Spec == Init /\ [][Next]_vars

-----------------------------------------------------------------------------
(* Properties.                                                             *)

Bodies == [here : BOOLEAN, edits : SUBSET Filters, prompt : BOOLEAN]

\* Every part of the call and of the server keeps its shape.
TypeOK ==
  /\ c.stage \in Stages
  /\ c.step \in StepIds \cup {NoStep} /\ c.model \in Models \cup {NoModel}
  /\ c.body \in Bodies /\ c.native \in Bodies
  /\ c.scopes \subseteq Scopes /\ c.ran \subseteq Filters /\ c.applied \subseteq Filters
  /\ Elems(c.chain) \subseteq Models /\ c.at \in 1..(Len(c.chain) + 1)
  /\ spent \in [Scopes -> Nat] /\ running \in [Counted -> Nat]
  /\ inflight \in [Models -> Nat] /\ held \in BOOLEAN
  /\ \A i \in DOMAIN sent : sent[i].model \in Models /\ sent[i].result \in Results

\* serve and its defers, closeEarly, forward's release on fail-over: however a
\* request ends (refused by any step, left, failed over, answered, cut off), it
\* leaves one usage row, only a client that left mid-upload leaves none; each
\* scope on the row has been charged locally exactly what the row carries, hook
\* spend of refused requests included and counted from before a limit step was
\* passed, and no other scope anything; and it leaves no hold on the credit, no
\* request counted as running (a router's limits included) and no destination
\* that looks busy.
EndsClean ==
  /\ Len(rows) <= 1 /\ \A m \in Models : inflight[m] <= 1
  /\ rows # <<>> =>
       \A s \in Scopes : spent[s] = IF s \in rows[1].scopes THEN rows[1].cost ELSE 0
  /\ c.stage = "done" =>
       /\ rows = <<>> <=> c.silent
       /\ ~held
       /\ \A s \in Counted : running[s] = 0
       /\ \A m \in Models : inflight[m] = 0

\* useFilters, translate, retranslate, useNative, prepare and routerRoute: a
\* request with text goes out only once every enforcing filter of the key has
\* passed it, here or in the router; in whichever of the two bodies it goes, it
\* carries every rewrite an enforcing filter made and the administrators'
\* prompt; and failing over never reaches a destination that has a branch,
\* which would skip the branch's steps.
EveryStepPassed ==
  /\ (sent # <<>> /\ c.text = "some") => Elems(KeyFilters) \ Shadow \subseteq c.applied
  /\ \A i \in DOMAIN sent :
       /\ sent[i].body.here
       /\ sent[i].body.edits = c.edits
       /\ sent[i].body.prompt = (KeyPrompt \/ c.prompted)
  /\ \A i \in 2..Len(sent) : Steps[c.route].branches[sent[i].model] = NoStep

\* A call that may have cost the deployment: it got to the provider on the
\* deployment's key and was not refused there.
Owed(i) == sent[i].model \in OnKey /\ sent[i].result \in {"lost", "ok"}

\* billed, Reaches, answer, relayStream, billUnreported: a model on the
\* deployment's key is only sent a request for which credit was held before
\* anything was spent, however the router got there; and the last call on that
\* key is billed whether the client stays, leaves or the process stops, and
\* whether or not a usage record came.
KeyCallsPaid ==
  /\ (sent # <<>> /\ sent[Len(sent)].model \in OnKey /\ c.stage # "done") => held
  /\ (c.stage = "done" /\ sent # <<>> /\ Owed(Len(sent))) => rows[1].bill = Len(sent)

\* mostTokens (credit.go) says that a call on the deployment's key with no
\* usage record is billed the most it may have used, so losing the record
\* never means paying less.  The code does not keep it of a call that is given
\* up on before the request fails over (README).
DeliveredIsBilled ==
  c.stage = "done" => \A i \in DOMAIN sent : Owed(i) => rows[1].bill = i

=============================================================================
