------------------------------ MODULE Routers ------------------------------
(***************************************************************************)
(* A router as it is written and checked: internal/policy/router.go, the   *)
(* routes of policy.go and tidySteps of internal/control/routers.go.       *)
(*                                                                         *)
(* The tree of steps is a sequence in the order Router.Steps walks it,     *)
(* with the place of each following step; 0 is no step.  A router without  *)
(* a start has no steps.  Of a text only its size counts, of a header only *)
(* whether it is usable or carries a credential.                           *)
(***************************************************************************)
EXTENDS Guardrails

CONSTANTS
  MaxRouterSteps, MaxDestinations, MaxHeaderValues,
  MaxStepPrompt, MaxRoutePrompt  \* in units of text

StepKinds == {"filter", "route", "rate_limit", "budget", "model", "system_prompt"}
RouteModes == {"instruction", "fallback", "latency", "least-busy", "size", "header"}

LimitKind(k) == k \in {"rate_limit", "budget"}
NamingKind(k) == k \in {"filter", "model"}
DecidingMode(m) == m \in {Unset, "instruction"}
ChoosingMode(m) == DecidingMode(m) \/ m = "header"

\* A step with nothing set.  Ceilings, values and branches are functions.
None == [x \in {} |-> 0]
BlankStep ==
  [id |-> Unset, kind |-> Unset, ref |-> Unset, requests |-> 0, tokens |-> 0, micros |-> 0,
   text |-> 0, mode |-> Unset, model |-> Unset, dests |-> <<>>, ceilings |-> None,
   fallback |-> Unset, header |-> Unset, values |-> None, period |-> Unset, next |-> 0,
   exceeded |-> 0, branches |-> None]

Steps(p) == Range(p.steps)
Routes(p) == {s \in Steps(p) : s.kind = "route"}
RateOf(s) == [requests |-> s.requests, tokens |-> s.tokens, period |-> s.period]
BudgetOf(s) == [micros |-> s.micros, period |-> s.period]

\* An instruction step with one destination still counts its model: it reads
\* as soon as there is a second.
RouteReadsWith(s) == IF DecidingMode(s.mode) /\ s.model # Unset THEN {s.model} ELSE {}

Uses(p, kind, alias) ==
  \E s \in Steps(p) :
    \/ s.kind = kind /\ s.ref = alias
    \/ kind = "model" /\ s.kind = "route" /\ (s.model = alias \/ Contains(s.dests, alias))

Reaches(p) ==
  {s.ref : s \in {t \in Steps(p) : t.kind = "model"}} \cup
  UNION {Range(s.dests) \ DOMAIN s.branches : s \in Routes(p)}
ReadsWith(p) == Reaches(p) \cup UNION {RouteReadsWith(s) : s \in Routes(p)}

\* What a limit step counts under.
StepScopes(p, s) ==
  LET id == <<p.alias, s.id>>
  IN  IF s.kind = "budget"
      THEN <<[Scope("router", <<id>>, BudgetPer(BudgetOf(s))) EXCEPT !.budget = s.micros]>>
      ELSE LET month == Scope("router", <<id>>, "month")
               q == CountQuotas(RateOf(s), month)
           IN  IF q # <<>> THEN q ELSE <<CountMonth(RateOf(s), month)>>

(***************************************************************************)
(* tidySteps fills in periods and modes and drops ceilings of zero.        *)
(***************************************************************************)
tidyStep(s) ==
  [s EXCEPT
     !.period   = CASE s.kind = "budget" -> BudgetPer(BudgetOf(s))
                    [] s.kind = "rate_limit" -> RatePer(RateOf(s))
                    [] OTHER -> @,
     !.mode     = IF s.kind = "route" /\ @ = Unset THEN "instruction" ELSE @,
     !.ceilings = [d \in {x \in DOMAIN @ : @[x] > 0} |-> @[d]]]
tidySteps(p) == [p EXCEPT !.steps = [i \in DOMAIN @ |-> tidyStep(@[i])]]

(***************************************************************************)
(* Problem: what keeps a router from being saved.  refs has the models and *)
(* filters of the organisation, by alias; NoList is none of that alias.    *)
(***************************************************************************)
answererProblem(alias, refs) ==
  \/ alias \notin DOMAIN refs.models
  \/ refs.models[alias].kind # "chat"
  \/ refs.models[alias].subscription

leftoverProblem(s) ==
  ~DecidingMode(s.mode) /\ (s.model # Unset \/ s.text # 0 \/ (s.fallback # Unset /\ ~ChoosingMode(s.mode)))

\* Exactly one destination of a size step has no ceiling.
Unbounded(s) == {d \in Range(s.dests) : d \notin DOMAIN s.ceilings \/ s.ceilings[d] <= 0}
ceilingProblem(s) ==
  ~(DOMAIN s.ceilings \subseteq Range(s.dests)) \/ Cardinality(Unbounded(s)) # 1

headerProblem(s) ==
  \/ s.header \notin {"usable"}
  \/ DOMAIN s.values = {} \/ Cardinality(DOMAIN s.values) > MaxHeaderValues
  \/ ~(Range(s.values) \subseteq Range(s.dests))
  \/ \E d \in Range(s.dests) : d \notin Range(s.values) \cup {s.fallback}

routeProblem(s, refs) ==
  LET n == Len(s.dests)
  IN  \/ s.mode \notin RouteModes \cup {Unset}
      \/ leftoverProblem(s)
      \/ DOMAIN s.ceilings # {} /\ s.mode # "size"
      \/ (s.header # Unset \/ DOMAIN s.values # {}) /\ s.mode # "header"
      \/ DecidingMode(s.mode) /\ (s.model = Unset \/ s.text = 0)
      \/ s.text > MaxRoutePrompt
      \/ n = 0 \/ n > MaxDestinations
      \/ s.fallback # Unset /\ ~Contains(s.dests, s.fallback)
      \/ Cardinality(Range(s.dests)) < n
      \/ \E d \in Range(s.dests) : answererProblem(d, refs)
      \/ s.mode = "size" /\ ceilingProblem(s)
      \/ s.mode = "header" /\ headerProblem(s)
      \/ \E d \in DOMAIN s.branches : ~Contains(s.dests, d) \/ s.branches[d] = 0

\* The fields that belong to other kinds of step.
MisplacedField(s) ==
  \/ ~NamingKind(s.kind) /\ s.ref # Unset
  \/ NamingKind(s.kind) /\ s.ref = Unset
  \/ s.kind \notin {"system_prompt", "route"} /\ s.text # 0
  \/ s.kind # "route" /\ (\/ s.mode # Unset \/ s.model # Unset \/ s.dests # <<>>
                          \/ DOMAIN s.ceilings # {} \/ s.fallback # Unset
                          \/ s.header # Unset \/ DOMAIN s.values # {})
  \/ s.kind # "rate_limit" /\ (s.requests # 0 \/ s.tokens # 0)
  \/ s.kind # "budget" /\ s.micros # 0
  \/ ~LimitKind(s.kind) /\ (s.period # Unset \/ s.exceeded # 0)
  \/ s.kind # "route" /\ DOMAIN s.branches # {}
  \/ s.kind \in {"route", "model"} /\ s.next # 0
  \/ s.kind \notin {"route", "model"} /\ s.next = 0

stepProblem(s, refs) ==
  \/ s.kind \notin StepKinds
  \/ MisplacedField(s)
  \/ s.kind = "filter" /\ s.ref \notin DOMAIN refs.filters
  \/ s.kind = "route" /\ routeProblem(s, refs)
  \/ s.kind = "model" /\ answererProblem(s.ref, refs)
  \/ s.kind = "rate_limit" /\ RateProblem(RateOf(s))
  \/ s.kind = "system_prompt" /\ (s.text = 0 \/ s.text > MaxStepPrompt)
  \/ s.kind = "budget" /\ BudgetProblem(BudgetOf(s))

Problem(p, refs) ==
  \/ p.steps = <<>>
  \/ Len(p.steps) > MaxRouterSteps
  \/ \E i \in DOMAIN p.steps :
       \/ p.steps[i].id = Unset
       \/ \E j \in 1..(i - 1) : p.steps[j].id = p.steps[i].id
       \/ stepProblem(p.steps[i], refs)

(***************************************************************************)
(* Who may call a router, by its alias and by where its models run.        *)
(***************************************************************************)
MayCallRouter(r, p, models) ==
  /\ Listed(r.models, p.alias) /\ ~r.key.subscription
  /\ r.locations = NoList
     \/ \A a \in ReadsWith(p) : a \in DOMAIN models /\ models[a].location \in r.locations
=============================================================================
