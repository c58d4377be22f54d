----------------------------- MODULE Guardrails -----------------------------
(***************************************************************************)
(* What a level of the policy chain may set, and how the levels of a key,  *)
(* its organisation, its project and the key itself, combine into what the *)
(* gateway enforces: internal/policy (policy.go, mcp.go, router.go's       *)
(* quotas) and the checks of internal/control/policy.go on what is stored. *)
(*                                                                         *)
(* An allow-list is a set or NoList: only what it holds is ever asked.     *)
(* Rate limits, budgets and filters stay sequences, because the code goes  *)
(* through them in order and a later one may replace an earlier one.  A    *)
(* tool entry is <<server>> for all its tools or <<server, tool>>.  A      *)
(* prompt is a sequence of paragraphs.                                     *)
(***************************************************************************)
EXTENDS Integers, Sequences, FiniteSets, SequencesExt

CONSTANTS
  NoList,      \* a nil allow-list: the level says nothing
  Written,     \* how each way to type a valid location is stored
  MaxPerMinute \* the largest limit a token bucket counts

ASSUME GuardrailsAssumption == MaxPerMinute \in Nat

Unset == ""
Levels == <<"org", "project", "key">>

Limits == [models : {NoList} \cup SUBSET STRING, locations : {NoList} \cup SUBSET STRING,
           tools : {NoList} \cup SUBSET Seq(STRING), rates : Seq([requests : Int, tokens : Int, period : STRING]),
           budgets : Seq([micros : Int, period : STRING]), prompt : Seq(STRING), filters : Seq(STRING)]
NoLimits == [models |-> NoList, locations |-> NoList, tools |-> NoList, rates |-> <<>>,
             budgets |-> <<>>, prompt |-> <<>>, filters |-> <<>>]

(***************************************************************************)
(* Allow-lists.                                                            *)
(***************************************************************************)
Listed(list, x) == list = NoList \/ x \in list

\* Of two entries that meet, the narrower one is kept.
narrowList(cur, next, covers(_, _)) ==
  {b \in next : \E a \in cur : covers(a, b)} \cup
  {a \in cur : \E b \in next : ~covers(a, b) /\ covers(b, a)}

narrowAllowList(cur, next, covers(_, _)) ==
  IF next = NoList THEN cur
  ELSE IF cur = NoList THEN next
  ELSE narrowList(cur, next, covers)

intersect(cur, next) == narrowAllowList(cur, next, LAMBDA a, b : a = b)

\* A server covers each of its tools.
ServerOf(e) == e[1]
intersectTools(cur, next) ==
  narrowAllowList(cur, next, LAMBDA a, b : a = b \/ (Len(a) = 1 /\ Len(b) = 2 /\ ServerOf(a) = ServerOf(b)))

AllowsTool(tools, server, tool) ==
  tools = NoList \/ <<server>> \in tools \/ <<server, tool>> \in tools
AllowsWholeServer(tools, server) == Listed(tools, <<server>>)
AllowsServer(tools, server) == tools = NoList \/ \E e \in tools : ServerOf(e) = server

(***************************************************************************)
(* Rate limits and budgets.                                                *)
(***************************************************************************)
RatePer(r)   == IF r.period = Unset THEN "minute" ELSE r.period
BudgetPer(b) == IF b.period = Unset THEN "month" ELSE b.period
ValidPeriod(p) == p \in {"day", "month"}
PerMinute(r) == RatePer(r) = "minute"

RateProblem(r) ==
  \/ ~PerMinute(r) /\ ~ValidPeriod(r.period)
  \/ r.requests < 0 \/ r.tokens < 0 \/ (r.requests = 0 /\ r.tokens = 0)
  \/ PerMinute(r) /\ (r.requests > MaxPerMinute \/ r.tokens > MaxPerMinute)
BudgetProblem(b) == ~ValidPeriod(BudgetPer(b)) \/ b.micros <= 0

\* One limit of each kind per period; a stored one states its period.
TwicePer(q, Per(_)) == \E i, j \in DOMAIN q : i < j /\ Per(q[i]) = Per(q[j])
countProblemTwice(lim) ==
  \/ \E i \in DOMAIN lim.rates : RateProblem(lim.rates[i])
  \/ \E i \in DOMAIN lim.budgets : BudgetProblem(lim.budgets[i])
countProblem(lim) ==
  \/ \E i \in DOMAIN lim.rates : RateProblem(lim.rates[i])
  \/ TwicePer(lim.rates, RatePer)
  \/ \E i \in DOMAIN lim.budgets : BudgetProblem(lim.budgets[i])
  \/ TwicePer(lim.budgets, BudgetPer)
Periods(lim) ==
  [lim EXCEPT !.rates   = [i \in DOMAIN @ |-> [@[i] EXCEPT !.period = RatePer(lim.rates[i])]],
              !.budgets = [i \in DOMAIN @ |-> [@[i] EXCEPT !.period = BudgetPer(lim.budgets[i])]]]

Scope(type, id, period) ==
  [type |-> type, id |-> id, period |-> period, rpm |-> 0, tpm |-> 0, budget |-> 0,
   meter |-> "cost", quota |-> 0]
Least(a, b) == IF a < b THEN a ELSE b

\* A daily or monthly rate limit: a scope per meter that has a limit.  Its id
\* carries the meter, so it never counts in the window of a budget.
quotas(type, id, period, requests, tokens) ==
  LET of(meter, quota) ==
        IF quota <= 0 THEN <<>>
        ELSE <<[Scope(type, <<id, meter>>, period) EXCEPT !.meter = meter, !.quota = quota]>>
  IN  of("requests", requests) \o of("tokens", tokens)

CountQuotas(r, month) ==
  IF ValidPeriod(RatePer(r)) THEN quotas(month.type, month.id[1], RatePer(r), r.requests, r.tokens)
  ELSE <<>>
CountMonth(r, month) ==
  IF ValidPeriod(RatePer(r)) THEN month
  ELSE [month EXCEPT !.rpm = Least(r.requests, MaxPerMinute), !.tpm = Least(r.tokens, MaxPerMinute)]

Amount(meter, micros, tokens) ==
  CASE meter = "requests" -> 1 [] meter = "tokens" -> tokens [] OTHER -> micros

(***************************************************************************)
(* Resolve: the chain combined, outermost level first.                     *)
(***************************************************************************)
JoinPrompts(cur, next) == cur \o next
appendFilters(cur, next) == FoldLeft(LAMBDA q, f : IF Contains(q, f) THEN q ELSE Append(q, f), cur, next)

\* A level's scopes: the month's, which carries the limits per minute, and the
\* day's when it has a budget per day.
LevelScopes(type, id, lim) ==
  LET month == FoldLeft(LAMBDA sc, r : CountMonth(r, sc), Scope(type, <<id>>, "month"), lim.rates)
      last(p) == SelectSeq(lim.budgets, LAMBDA b : (BudgetPer(b) = "day") = (p = "day"))
      budget(p) == IF last(p) = <<>> THEN 0 ELSE last(p)[Len(last(p))].micros
  IN  <<[month EXCEPT !.budget = budget("month")]>> \o
      (IF last("day") = <<>> THEN <<>> ELSE <<[Scope(type, <<id>>, "day") EXCEPT !.budget = budget("day")]>>)
LevelQuotas(type, id, lim) ==
  FoldLeft(LAMBDA q, r : q \o CountQuotas(r, Scope(type, <<id>>, "month")), <<>>, lim.rates)

\* narrow applies one level's limits to what the levels above left.
narrow(r, lim) ==
  [r EXCEPT !.models    = intersect(@, lim.models),
            !.locations = intersect(@, lim.locations),
            !.prompt    = JoinPrompts(@, lim.prompt),
            !.filters   = appendFilters(@, lim.filters),
            !.tools     = intersectTools(@, lim.tools)]

\* chain is the levels of a key, outermost first: their type, id and limits.
Resolve(key, chain) ==
  LET unlimited == [key |-> key, models |-> NoList, locations |-> NoList, prompt |-> <<>>,
                    filters |-> <<>>, tools |-> NoList, scopes |-> <<>>, quotas |-> <<>>]
      level(r, lv) ==
        [narrow(r, lv.limits) EXCEPT
           !.scopes = @ \o LevelScopes(lv.type, lv.id, lv.limits),
           !.quotas = @ \o LevelQuotas(lv.type, lv.id, lv.limits)]
  IN  FoldLeft(level, unlimited, chain)

\* A subscription model takes only a subscription key, and no other model does.
MayUse(r, m) ==
  /\ r.key.subscription = m.subscription
  /\ Listed(r.models, m.alias)
  /\ Listed(r.locations, m.location)

(***************************************************************************)
(* The rest of what is checked before a guardrail is stored.               *)
(***************************************************************************)
\* Locations are written as models name theirs: lower case, trimmed, once each.
locationProblem(lim) == lim.locations # NoList /\ ~(lim.locations \subseteq DOMAIN Written)
Located(lim) == [lim EXCEPT !.locations = IF @ = NoList THEN @ ELSE {Written[l] : l \in @}]
\* An emptied prompt is none.
checkSystemPrompt(lim) == [lim EXCEPT !.prompt = SelectSeq(@, LAMBDA p : p # Unset)]
\* A filter named twice runs once, and an empty name is skipped.
KeptFilters(lim) == [lim EXCEPT !.filters = appendFilters(<<>>, SelectSeq(@, LAMBDA f : f # Unset))]
=============================================================================
