----------------------------- MODULE MCCatalogue -----------------------------
(* One organisation with a self-hosted model, one at a provider with its own *)
(* key, and one the deployment pays for; each setup is a race to look at.    *)
EXTENDS Tenants

CONSTANT acme

Prices(i, o, c, w) == [above |-> 0, input |-> i, output |-> o, cached |-> c, write |-> w]
Cheap == Prices(3, 5, 1, 4)
MCProviders ==
  [anthropic |-> [endpoint |-> "anthropic.com", endpoints |-> [k \in {} |-> ""], location |-> "usa",
                  models |-> [claude |-> [kind |-> "chat", prices |-> Cheap,
                                          long |-> [Prices(6, 9, 0, 0) EXCEPT !.above = 2]]]],
   swiss |-> [endpoint |-> "swiss.ch", endpoints |-> [embedding |-> "embed.swiss.ch"], location |-> "ch",
              models |-> [apertus |-> [kind |-> "chat", prices |-> Cheap, long |-> NoTier]]]]
MCWritten == [ch |-> "ch", CH |-> "ch", usa |-> "usa", onprem |-> "onprem"]

Model(provider, backend, hosts) ==
  [alias |-> "", kind |-> "chat", provider |-> provider, backend |-> backend, hosts |-> hosts,
   location |-> "", subscription |-> FALSE, enabled |-> TRUE, key |-> NoKey, sent |-> "none",
   prices |-> Prices(2, 2, 0, 7), long |-> NoTier, billing |-> NoBilling]
Local == Model("", "llama", {"vllm"})
Claude == Model("anthropic", "claude", {"anthropic.com"})
Plan == [Claude EXCEPT !.subscription = TRUE]
At(hosts) == Model("anthropic", "claude", hosts)
Row(alias, m) == Filled(PriceAtFee([m EXCEPT !.alias = alias]))

PutM(alias, m, key) == [op |-> "putModel", alias |-> alias, model |-> [m EXCEPT !.alias = alias], key |-> key,
                        priced |-> FALSE, enabled |-> Unset]
Filter(m) == [model |-> m, mode |-> Unset, prompt |-> 1, rules |-> 0]
PutF(alias, f) == [op |-> "putFilter", alias |-> alias, filter |-> f]
Del(op, alias) == [op |-> op, alias |-> alias]
Rails(scope, project, lim) == [op |-> "putGuardrails", scope |-> scope, project |-> project, limits |-> lim]
PutS(host, key) == [op |-> "putServer", alias |-> "git", host |-> host, key |-> key, enabled |-> Unset]
PutR(alias, steps) == [op |-> "putRouter", alias |-> alias, router |-> [alias |-> alias, steps |-> steps]]

Org1 == <<"org", acme>>
P1 == <<"project", "p1">>
K1 == <<"key", "k1">>

(* A filter, then a step that decides between two models, one behind a limit. *)
Deciding ==
  <<[BlankStep EXCEPT !.id = "a", !.kind = "filter", !.ref = "f", !.next = 2],
    [BlankStep EXCEPT !.id = "b", !.kind = "route", !.model = "n", !.text = 1, !.dests = <<"m", "n">>,
                      !.branches = "m" :> 3],
    [BlankStep EXCEPT !.id = "c", !.kind = "budget", !.micros = 5, !.next = 4, !.exceeded = 5],
    [BlankStep EXCEPT !.id = "d", !.kind = "model", !.ref = "m"],
    [BlankStep EXCEPT !.id = "e", !.kind = "model", !.ref = "n"]>>
Plain == <<[BlankStep EXCEPT !.id = "a", !.kind = "model", !.ref = "m"]>>
Headed == <<[BlankStep EXCEPT !.id = "a", !.kind = "rate_limit", !.requests = 1, !.next = 2],
            [BlankStep EXCEPT !.id = "b", !.kind = "route", !.mode = "header", !.header = "usable",
                              !.dests = <<"m", "n">>, !.values = [x |-> "m"], !.fallback = "n"]>>
Sized == <<[BlankStep EXCEPT !.id = "a", !.kind = "route", !.mode = "size", !.dests = <<"m", "n">>,
                             !.ceilings = [m |-> 3, n |-> 0]]>>

K(project) == [Key(project, "ann", "standard", Unset, "k1", "k1") EXCEPT !.hash = "k1"]
Base == [models |-> [m |-> Row("m", Local), n |-> Row("n", Local)], filters |-> [f |-> Filter("m")],
         routers |-> [r \in {} |-> 0], servers |-> [git |-> [host |-> "git.ch", enabled |-> TRUE, key |-> NoKey]],
         rails |-> [s \in {} |-> 0], stale |-> {}, counts |-> {"r"}, projects |-> [p1 |-> 1],
         keys |-> [k1 |-> K("p1")], users |-> [ann |-> [disabled |-> FALSE]]]
Setup(db0, calls, n) == [db |-> db0, calls |-> calls, maxStarts |-> n, at |-> [p \in Procs |-> p]]
Together(s) == [s EXCEPT !.at = [p \in Procs |-> acme]]
With(lim) == [Base EXCEPT !.rails = (Org1 :> lim)]
Models(list) == [NoLimits EXCEPT !.models = list]
Filters(list) == [NoLimits EXCEPT !.filters = list]

(* Names written and deleted at once. *)
Names == Setup(Base,
  {Del("deleteModel", "m"), PutF("f", Filter("n")), PutF("g", Filter("m")),
   Del("deleteFilter", "f"), PutR("r", Deciding), PutR("m", Plain), PutM("r", Local, "keep"),
   Rails(P1, "p1", Filters(<<"f", "f", "">>)), [op |-> "deleteProject", project |-> "p1"],
   [op |-> "revokeKey", key |-> "k1"]}, 3)

(* The allow-list, the readers and the models they read with. *)
Lists == Setup([With(Models({"m", "n"})) EXCEPT !.models = @ @@ [c |-> Row("c", Claude)]],
  {Rails(Org1, "", Models({"m"})), Rails(Org1, "", Models({"n", "c"})), Rails(Org1, "", [NoLimits EXCEPT !.locations = {"CH"}]),
   PutR("r", Deciding), PutR("s", Headed), PutR("t", Sized), PutF("f", Filter("n")), PutF("f", Filter("c")),
   PutM("n", Plan, "keep"), PutM("z", Local, "keep"), Del("deleteRouter", "r"), Del("deleteModel", "n")}, 3)

(* The credential of a model that moves. *)
Creds == Setup([Base EXCEPT !.models = @ @@ [c |-> [Row("c", At({"a.ch"})) EXCEPT !.key = {"a.ch"}]]],
  {PutM("c", At({"a.ch", "b.ch"}), "keep"), PutM("c", At({"a.ch", "b.ch"}), "set"), PutM("c", At({"b.ch"}), "keep"),
   PutM("c", Plan, "keep"), PutM("c", At({"c.ch"}), "clear"),
   PutM("c", Model("swiss", "apertus", {"x"}), "keep"), PutM("c", Model("swiss", "other", {"x"}), "keep")}, 3)

(* The guardrails of a key's whole chain. *)
Rate(p, r, t) == [requests |-> r, tokens |-> t, period |-> p]
Spend(p, m) == [micros |-> m, period |-> p]
Levels3 == Setup([Base EXCEPT !.models = @ @@ [c |-> Row("c", Claude)], !.routers = [r |-> tidySteps([alias |-> "r", steps |-> Plain])]],
  {Rails(Org1, "", [NoLimits EXCEPT !.models = {"m", "c", "r"}, !.budgets = <<Spend("", 9), Spend("day", 3)>>,
                                    !.filters = <<"f">>]),
   Rails(P1, "p1", [NoLimits EXCEPT !.models = {"m", "n"}, !.tools = {<<"git">>}, !.rates = <<Rate("", 2, 0), Rate("day", 4, 7)>>]),
   Rails(P1, "p1", [NoLimits EXCEPT !.budgets = <<Spend("month", 5), Spend("", 6)>>]),
   Rails(P1, "p1", [NoLimits EXCEPT !.locations = {"CH", "onprem"}, !.tools = {<<"git", "read">>}]),
   Rails(K1, "p1", [NoLimits EXCEPT !.tools = {<<"git", "write">>, <<"git", "read">>}, !.budgets = <<Spend("day", 1)>>]),
   Rails(K1, "p1", [NoLimits EXCEPT !.tools = {<<"svn">>}]),
   Del("deleteServer", "git"), PutS("git.ch", "set"),
   [op |-> "serviceCreateKey", project |-> "p1", user |-> "ann", kind |-> "standard", pending |-> FALSE, budget |-> 4]}, 3)

(* Keys made, activated, rotated and revoked while people, projects and what *)
(* their guardrails name go.                                                 *)
Create(project, user, pending) ==
  [op |-> "createKey", project |-> project, user |-> user, kind |-> "standard", pending |-> pending, budget |-> 0]
Keys == Setup([Base EXCEPT !.keys = @ @@ [k2 |-> Key("p1", "ann", "standard", Unset, "none", "k2")],
                           !.rails = (K1 :> [Filters(<<"f">>) EXCEPT !.tools = {<<"git">>}])],
  {Create("", "ann", FALSE), Create("p1", "", TRUE), Create("p1", "ann", TRUE),
   [op |-> "activateKey", key |-> "k2"], [op |-> "rotateKey", key |-> "k1", copy |-> <<>>],
   [op |-> "rotateKey", key |-> "k2", copy |-> <<>>], [op |-> "revokeKey", key |-> "k1"],
   [op |-> "serviceRevokeKey", key |-> "k1"],
   [op |-> "disableUser", user |-> "ann"], [op |-> "enableUser", user |-> "ann"],
   [op |-> "createProject", project |-> "p2", created |-> 2], [op |-> "deleteProject", project |-> "p1"],
   Rails(K1, "p1", [NoLimits EXCEPT !.budgets = <<Spend("day", 1)>>]),
   Del("deleteFilter", "f"), Del("deleteServer", "git")}, 3)

MCSetups == [names |-> Names, lists |-> Lists, creds |-> Together(Creds), levels |-> Levels3, keys |-> Keys]

(* Two administrators save one MCP server; for ServerKeyStaysHome alone. *)
Servers == Setup([Base EXCEPT !.servers = [git |-> [host |-> "a.ch", enabled |-> TRUE, key |-> {"a.ch"}]]],
                 {PutS("a.ch", "keep"), PutS("b.ch", "set"), PutS("b.ch", "clear")}, 2)
MCServerSetups == [servers |-> Servers]
=============================================================================
