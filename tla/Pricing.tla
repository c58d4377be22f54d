------------------------------- MODULE Pricing -------------------------------
(***************************************************************************)
(* What a model is, what an answer costs and who is billed for it:         *)
(* internal/policy (policy.go, billing.go, hosting.go) and the checks of   *)
(* internal/catalog on a model that is saved.                              *)
(*                                                                         *)
(* A backend is a host; a model's backends are a set of them.  Prices are  *)
(* per PerM tokens.  A value the form leaves out is Unset, or -1 where it  *)
(* is a number.                                                            *)
(***************************************************************************)
EXTENDS Integers, FiniteSets

CONSTANTS
  PerM,          \* the tokens a price is for, a million in the code
  Providers,     \* the built-in table: provider -> what it serves and where
  NoKey,         \* no credential of its own
  PlatformKeys,  \* the providers the deployment has a key for
  Prepaid,       \* organisations pay from credit
  GatewayFee,    \* the deployment's fee per PerM tokens, 0 is none
  Inside,        \* the hosts inside the network
  Unreadable     \* the hosts no address can be read from

ASSUME PricingAssumption ==
  /\ PerM \in Nat \ {0} /\ GatewayFee \in Nat /\ Prepaid \in BOOLEAN
  /\ PlatformKeys \subseteq DOMAIN Providers

Kinds == {"chat", "completion", "embedding", "rerank", "decision"}
NoPrices == [above |-> 0, input |-> 0, output |-> 0, cached |-> 0, write |-> 0]
NoTier == [NoPrices EXCEPT !.above = -1]

(***************************************************************************)
(* The cost of an answer.                                                  *)
(***************************************************************************)
Lower(a, b)  == IF a < b THEN a ELSE b
Higher(a, b) == IF a > b THEN a ELSE b

clampedLoose(t) ==
  LET cached == Lower(Higher(t.cached, 0), t.input)
      write  == Lower(Higher(t.write, 0), t.input)
  IN  [t EXCEPT !.cached = cached, !.write = write, !.hour = Lower(Higher(t.hour, 0), write)]
clamped(t) ==
  LET cached == Lower(Higher(t.cached, 0), t.input)
      write  == Lower(Higher(t.write, 0), t.input - cached)
  IN  [t EXCEPT !.cached = cached, !.write = write, !.hour = Lower(Higher(t.hour, 0), write)]

\* A long prompt counts every input token, cached or not.
prices(m, input) == IF m.long # NoTier /\ input > m.long.above THEN m.long ELSE m.prices
\* Zero is not stated, and a price not stated errs high.
cachedInputMicros(p) == IF p.cached = 0 THEN p.input ELSE p.cached
cacheWriteMicros(p)  == IF p.write = 0 THEN p.input ELSE p.write

\* Go's division cuts towards zero.
Quot(a, b) == IF a < 0 THEN -((-a) \div b) ELSE a \div b

Cost(m, reported) ==
  LET t == clamped(reported)
      p == prices(m, t.input)
  IN  Quot((t.input - t.cached - t.write) * p.input + t.cached * cachedInputMicros(p) +
           (t.write - t.hour) * cacheWriteMicros(p) + t.hour * 2 * p.input + t.output * p.output, PerM)

(***************************************************************************)
(* Where a model runs.  The weakest of its backends decides.               *)
(***************************************************************************)
HostingOf(host) == IF host \in Unreadable THEN "unknown" ELSE IF host \in Inside THEN "internal" ELSE "external"
Hosting(m) ==
  LET of == {HostingOf(b) : b \in m.hosts}
  IN  CASE of = {} -> "unknown"
        [] "external" \in of -> "external"
        [] "unknown" \in of -> "unknown"
        [] OTHER -> "internal"
CheckBackend(m) == m.hosts # {} /\ m.backend # "" /\ m.hosts \cap Unreadable = {}

(***************************************************************************)
(* The provider table.                                                     *)
(***************************************************************************)
Known(name) == name \in DOMAIN Providers
EndpointFor(prov, kind) == IF kind \in DOMAIN prov.endpoints THEN prov.endpoints[kind] ELSE prov.endpoint
OwnHosts(prov) == {prov.endpoint} \cup {prov.endpoints[k] : k \in DOMAIN prov.endpoints}
InTable(prov, id) == id \in DOMAIN prov.models
ProviderKinds(prov) == {prov.models[id].kind : id \in DOMAIN prov.models}

\* Check: the provider serves the kind, and the model is in the table or priced.
Check(prov, kind, id, priced) ==
  /\ kind \in ProviderKinds(prov)
  /\ InTable(prov, id) => kind = prov.models[id].kind
  /\ InTable(prov, id) \/ priced

AtProvider(m) == Known(m.provider) /\ m.hosts # {} /\ m.hosts \subseteq OwnHosts(Providers[m.provider])

\* Covers: the deployment's key pays.  Lock fixes what its models may not choose.
Covers(m) == m.provider \in PlatformKeys /\ ~m.subscription
CanLock(m) == InTable(Providers[m.provider], m.backend)
Lock(m) ==
  LET prov  == Providers[m.provider]
      known == prov.models[m.backend]
  IN  [m EXCEPT !.hosts = {EndpointFor(prov, known.kind)}, !.prices = known.prices, !.long = known.long]

\* A self-hosted model costs the gateway fee whatever price was sent.
PriceAtFee(m) ==
  IF m.provider # "" THEN m
  ELSE [m EXCEPT !.prices = [above |-> 0, input |-> GatewayFee, output |-> GatewayFee,
                             cached |-> GatewayFee, write |-> GatewayFee],
                 !.long = NoTier]

(***************************************************************************)
(* CheckModel fills in the kind and the location, and refuses the rest.    *)
(***************************************************************************)
\* The callers' own sign-ins go to the backend: it must be Anthropic's.
checkSubscription(m) ==
  m.subscription => /\ m.provider = "anthropic" /\ m.kind = "chat"
                    /\ m.hosts = {Providers["anthropic"].endpoint}
LocationKnown(m) == m.location # "" \/ Known(m.provider) \/ Hosting(m) = "internal"
Filled(m) ==
  [m EXCEPT !.kind = IF @ = "" THEN "chat" ELSE @,
            !.location = IF @ # "" THEN @ ELSE IF Known(m.provider) THEN Providers[m.provider].location ELSE "onprem"]
CheckModel(m, priced) ==
  /\ CheckBackend(m)
  /\ Filled(m).kind \in Kinds
  /\ m.provider # "" => Known(m.provider) /\ Check(Providers[m.provider], Filled(m).kind, m.backend, priced)
  /\ LocationKnown(m)
  /\ m.long = NoTier \/ m.long.above > 0
  /\ checkSubscription(Filled(m))

(***************************************************************************)
(* The bill of a call.  The registry gives a model its billing: the list   *)
(* price on the deployment's key, the gateway fee on any other.            *)
(***************************************************************************)
NoBilling == [fee |-> -1, credit |-> FALSE, atProvider |-> FALSE]

\* usePlatformKey: a model the table does not know goes out without any key.
usePlatformKey(m) ==
  IF ~CanLock(m) THEN [m EXCEPT !.sent = "none"]
  ELSE [Lock(m) EXCEPT !.sent = "platform", !.billing = [fee |-> 0, credit |-> Prepaid, atProvider |-> TRUE]]
\* finishModel: a stored model as the gateway serves it.
finishModel(m) ==
  IF Covers(m) THEN usePlatformKey(m)
  ELSE [PriceAtFee(m) EXCEPT
          !.sent = IF m.key = NoKey THEN "none" ELSE "own",
          !.billing = IF GatewayFee = 0 THEN NoBilling
                      ELSE [fee |-> GatewayFee, credit |-> Prepaid, atProvider |-> AtProvider(m)]]
CountsTokens(m) == m.billing # NoBilling /\ m.billing.fee > 0 /\ ~m.billing.atProvider
Billed(m) == m.billing # NoBilling /\ (m.billing.fee > 0 \/ ~m.subscription)
line(m, t, micros) ==
  [input |-> t.input, cached |-> t.cached, write |-> t.write, output |-> t.output, micros |-> micros,
   credit |-> IF m.billing.credit THEN micros ELSE 0]
fee(m, reported, counted) ==
  LET t == clamped(IF CountsTokens(m) THEN counted ELSE reported)
  IN  line(m, t, Quot((t.input + t.output) * m.billing.fee, PerM))
Bill(m, reported, counted) ==
  IF m.billing.fee > 0 THEN fee(m, reported, counted)
  ELSE LET t == clamped(reported) IN line(m, t, Cost(m, t))
=============================================================================
