----------------------------- MODULE MCPipeline -----------------------------
(***************************************************************************)
(* Pipeline with four models and four routers: "key" is a provider's model *)
(* on the deployment's key, spoken to in its own API, "big" and "small"    *)
(* are served locally, and "plan" is paid by the caller's subscription.    *)
(***************************************************************************)
EXTENDS Pipeline

FourModels == {"key", "big", "small", "plan"}

Blank == [kind |-> "unknown", ref |-> NoModel, next |-> NoStep, exceeded |-> NoStep,
          counted |-> FALSE, mode |-> "fallback", dests |-> <<>>, fallback |-> NoModel,
          branches |-> [m \in FourModels |-> NoStep]]

FilterStep(f, next)      == [Blank EXCEPT !.kind = "filter", !.ref = f, !.next = next]
LimitStep(q, next, over) == [Blank EXCEPT !.kind = "limit", !.counted = q, !.next = next,
                                          !.exceeded = over]
ModelStep(m)             == [Blank EXCEPT !.kind = "model", !.ref = m]
RouteStep(mode, dests, fallback) ==
  [Blank EXCEPT !.kind = "route", !.mode = mode, !.dests = dests, !.fallback = fallback]

\* Router a: an instruction step, then a daily limit and a second decision in
\* one branch, redaction in the other.  Router b: a prompt and a filter before
\* a fail-over whose second destination has a branch.  Router c: a budget that
\* sends what exceeds it to a header step, one of whose branches is the only
\* way to the deployment's key.  Router d: by size, or a step this
\* version does not know.
FourRouters ==
  [a1 |-> [RouteStep("instruction", <<"key", "big">>, "big") EXCEPT
             !.branches = [m \in FourModels |->
                CASE m = "key" -> "a2" [] m = "big" -> "a4" [] OTHER -> NoStep]],
   a2 |-> LimitStep(TRUE, "a3", NoStep),
   a3 |-> RouteStep("instruction", <<"big", "small">>, NoModel),
   a4 |-> FilterStep("redact", "a5"),
   a5 |-> ModelStep("big"),
   b1 |-> [Blank EXCEPT !.kind = "prompt", !.next = "b2"],
   b2 |-> FilterStep("trial", "b3"),
   b3 |-> [RouteStep("measured", <<"key", "big", "small">>, NoModel) EXCEPT
             !.branches = [m \in FourModels |-> IF m = "big" THEN "b4" ELSE NoStep]],
   b4 |-> FilterStep("redact", "b5"),
   b5 |-> ModelStep("big"),
   c1 |-> LimitStep(FALSE, "c2", "c3"),
   c2 |-> RouteStep("fallback", <<"big", "small">>, NoModel),
   c3 |-> [RouteStep("header", <<"small", "big">>, "small") EXCEPT
             !.branches = [m \in FourModels |-> IF m = "small" THEN "c4" ELSE NoStep]],
   c4 |-> ModelStep("key"),
   d1 |-> LimitStep(TRUE, "d2", "d3"),
   d2 |-> RouteStep("size", <<"small", "key">>, NoModel),
   d3 |-> Blank]

FourStarts == {"a1", "b1", "c1", "d1"}

RedactThenGate == <<"redact", "gate">>
=============================================================================
