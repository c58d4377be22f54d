----------------------------- MODULE MCPGateway -----------------------------
(***************************************************************************)
(* One HTTP exchange with an MCP server through the gateway:               *)
(* internal/gateway/mcp.go.  The gateway reads the client's messages,      *)
(* answers the ones it refuses, runs the filters over a tool call's        *)
(* arguments, forwards the rest with the server's credential and reads the *)
(* answers on their way back.  The server may answer in any order, twice   *)
(* or never, push what belongs to another connection, refuse the           *)
(* credential or break off; the client may hang up at any time.            *)
(*                                                                         *)
(* The arguments of a call are the sequence of their strings, in the order *)
(* of their keys; an Mcp-Param header has one value, which may be in a     *)
(* Base64 that does not decode.  What the budgets keep of the call, its    *)
(* place in the quotas and the credit its filters hold, are two counters.  *)
(***************************************************************************)
EXTENDS Integers, Sequences, FiniteSets, SequencesExt

CONSTANTS
  NoList,    \* a key that may call every tool
  NoId,      \* a message without an id
  Posts,     \* what a client sends, by name
  Server,    \* the alias the client asks for
  Pushes,    \* what a server may send at once: a message or a batch
  MaxPushes, \* bounds what one stream carries
  FilterFee, \* what the filters of one call cost
  CallHold   \* the credit they hold for it

ASSUME MCPAssumption == MaxPushes \in Nat /\ FilterFee \in Nat /\ CallHold \in Nat

LOCAL Policy == INSTANCE Guardrails WITH Written <- <<>>, MaxPerMinute <- 0

VARIABLES
  post,       \* the exchange
  xpc,        \* where its handler is
  waits,      \* pending: the requests whose answers are read, by id
  header,     \* the Mcp-Param headers the server is sent
  sent,       \* the messages it was sent
  got,        \* the messages the client was sent
  toolRows,   \* the rows recorded
  inQuota,    \* the call that is counted in flight, or none
  held,       \* the exchange's credit
  inFlight,   \* what the budgets hold of both
  creditHeld,
  charged,    \* what the filters charged the budgets
  left,       \* the client hung up
  pushes

mcpVars == <<post, xpc, waits, header, sent, got, toolRows, inQuota, held, inFlight, creditHeld, charged, left, pushes>>

(***************************************************************************)
(* Messages.                                                               *)
(***************************************************************************)
rpcMessage == [method |-> "", id |-> NoId, readable |-> TRUE, tool |-> "", args |-> <<>>]
isRequest(m) == m.method # "" /\ m.id # NoId
isResponse(m) == m.method = "" /\ m.id # NoId
IsToolCall(m) == m.method = "tools/call"

\* An answer or another message of the server's.
Result == [method |-> "", id |-> NoId, error |-> FALSE, outcome |-> "ok", tools |-> {}, scope |-> "",
           capabilities |-> {}]
rpcFail == [Result EXCEPT !.error = TRUE]

partialMethods ==
  {"initialize", "ping", "tools/list", "tools/call", "logging/setLevel", "tasks/get", "tasks/result", "tasks/cancel"}
hiddenCapabilities == {"resources", "prompts", "completions"}

refuseUnanswerable(m) == IsToolCall(m) /\ m.id = NoId
mcpName(m) == IF m.method \in {"tools/call", "prompts/get", "resources/read"} THEN m.tool ELSE ""
headersMatch(m) ==
  /\ post.hMethod \in {"", m.method}
  /\ post.hName = "" \/ (post.hReads /\ post.hName = mcpName(m))
mayRequest(m) ==
  ~isRequest(m) \/ Policy!AllowsWholeServer(post.tools, Server) \/ m.method \in partialMethods

pendingRPC == [method |-> "", tool |-> "", admitted |-> FALSE, cost |-> 0]
With(f, k, v) == [x \in DOMAIN f \cup {k} |-> IF x = k THEN v ELSE f[x]]
Without(f, k) == [x \in DOMAIN f \ {k} |-> f[x]]
await(w, m) ==
  IF isRequest(m) /\ m.method \in {"tools/list", "initialize"}
  THEN With(w, m.id, [pendingRPC EXCEPT !.method = m.method]) ELSE w

\* record: a call that was admitted is a row of the quotas too.
Row(p, outcome) == [tool |-> p.tool, outcome |-> outcome, quotas |-> p.admitted, cost |-> p.cost]

(***************************************************************************)
(* The server's messages, read on their way to the client.                 *)
(***************************************************************************)
capabilities(m) ==
  IF Policy!AllowsWholeServer(post.tools, Server) THEN m
  ELSE [m EXCEPT !.capabilities = @ \ hiddenCapabilities]

allowedTools(tools) == {t \in tools : Policy!AllowsTool(post.tools, Server, t)}

\* A bug: only lists this exchange asked for are trimmed.
toolListAsked(m) == IF m.id \in DOMAIN waits THEN [m EXCEPT !.tools = allowedTools(@)] ELSE m

\* A list that depends on the key is not for a shared cache.
toolList(m) ==
  IF m.error THEN m
  ELSE [m EXCEPT !.scope = IF @ = "public" THEN "private" ELSE @, !.tools = allowedTools(@)]

\* What is waited for after a message, the rows it makes, and what goes on.
serverMessage(acc, m) ==
  LET p == IF m.id \in DOMAIN acc.waits THEN acc.waits[m.id] ELSE [pendingRPC EXCEPT !.method = "tools/list"]
      rest == Without(acc.waits, m.id)
  IN  IF (DOMAIN acc.waits = {} /\ post.tools = NoList) \/ ~isResponse(m) THEN [acc EXCEPT !.out = Append(@, m)]
      ELSE CASE p.method = "initialize" -> [acc EXCEPT !.waits = rest, !.out = Append(@, capabilities(m))]
             [] p.method = "tools/list" -> [acc EXCEPT !.waits = rest, !.out = Append(@, toolList(m))]
             [] p.method = "tools/call" ->
                  [acc EXCEPT !.waits = rest, !.out = Append(@, m),
                              !.rows = Append(@, Row(p, IF m.error THEN "no_result" ELSE m.outcome))]
\* The server answers a request in kind: only a list lists tools.
InKind(ms) ==
  \A i \in DOMAIN ms : ms[i].id \in DOMAIN waits /\ waits[ms[i].id].method # "tools/list" => ms[i].tools = {}
ReadPush(ms) == FoldLeft(serverMessage, [waits |-> waits, rows |-> <<>>, out |-> <<>>], ms)

\* A bug: a call without an answer is forgotten.
ForgetPending(w) == <<>>

\* failPending: a call left without an answer is recorded as such.
Unanswered(w) == {k \in DOMAIN w : w[k].method = "tools/call"}
failPending(w) == SetToSeq({Row(w[k], "no_result") : k \in Unanswered(w)})

(***************************************************************************)
(* The exchange.                                                           *)
(***************************************************************************)
MCPIdle(p) ==
  /\ post = p
  /\ waits = <<>> /\ header = p.params /\ sent = <<>> /\ got = <<>> /\ toolRows = <<>>
  /\ inQuota = FALSE /\ held = 0 /\ inFlight = 0 /\ creditHeld = 0 /\ charged = 0
  /\ left = FALSE /\ pushes = 0
MCPInit == xpc = "begin" /\ \E p \in DOMAIN Posts : MCPIdle(Posts[p])

Answer(ms) == got' = got \o (IF left THEN <<>> ELSE ms)

\* A server the key may not call any tool of does not exist for it.
mcpBegin ==
  /\ xpc = "begin"
  /\ LET found == post.server \in {"there", "locked"} /\ Policy!AllowsServer(post.tools, Server) /\ ~post.subscription
     IN  IF found /\ post.server # "locked"
         THEN xpc' = (IF post.how = "post" THEN "inspect" ELSE "forward") /\ UNCHANGED got
         ELSE xpc' = "release" /\ Answer(<<rpcFail>>)
  /\ UNCHANGED <<post, waits, header, sent, toolRows, inQuota, held, inFlight, creditHeld, charged, left, pushes>>

\* inspect, inspectBatch and the first checks of toolCall.
Refused == /\ Answer(<<rpcFail>>)
           /\ xpc' = "release"
           /\ UNCHANGED <<sent, waits>>
Inspect ==
  /\ xpc = "inspect"
  /\ LET m == post.msgs[1]
         p == [pendingRPC EXCEPT !.method = m.method, !.tool = m.tool]
     IN  CASE post.batch ->
                /\ IF \A i \in DOMAIN post.msgs : mayRequest(post.msgs[i]) /\ ~IsToolCall(post.msgs[i])
                   THEN /\ waits' = FoldLeft(await, waits, post.msgs)
                        /\ sent' = post.msgs
                        /\ xpc' = "forward"
                        /\ UNCHANGED got
                   ELSE Refused
                /\ UNCHANGED toolRows
           [] ~post.batch /\ (refuseUnanswerable(m) \/ ~headersMatch(m) \/ ~mayRequest(m)) ->
                Refused /\ UNCHANGED toolRows
           [] ~post.batch /\ ~refuseUnanswerable(m) /\ headersMatch(m) /\ mayRequest(m) /\ ~IsToolCall(m) ->
                /\ waits' = await(waits, m)
                /\ sent' = <<m>>
                /\ xpc' = "forward"
                /\ UNCHANGED <<got, toolRows>>
           [] OTHER ->
                CASE ~m.readable -> Refused /\ UNCHANGED toolRows
                  [] m.readable /\ ~Policy!AllowsTool(post.tools, Server, m.tool) ->
                       Refused /\ toolRows' = Append(toolRows, Row(p, "denied"))
                  [] OTHER -> xpc' = "admit" /\ UNCHANGED <<waits, sent, got, toolRows>>
  /\ UNCHANGED <<post, header, inQuota, held, inFlight, creditHeld, charged, left, pushes>>

Call == [pendingRPC EXCEPT !.method = "tools/call", !.tool = post.msgs[1].tool, !.admitted = inQuota, !.cost = charged]
toolFailed(p, outcome) ==
  /\ Answer(<<[Result EXCEPT !.id = post.msgs[1].id, !.outcome = "failed"]>>)
  /\ toolRows' = Append(toolRows, Row(p, outcome))

\* admit: charges, rates and quotas say no, or the filters' credit is held; and
\* StartRequest.  What they say is the business of Budgets and RateLimit.
admit ==
  /\ xpc = "admit"
  /\ \/ /\ toolFailed(Call, "denied")
        /\ xpc' = "release"
        /\ UNCHANGED <<inQuota, held, inFlight, creditHeld>>
     \/ /\ held' = IF post.filters = "billed" THEN CallHold ELSE 0
        /\ creditHeld' = creditHeld + held'
        /\ inQuota' = TRUE
        /\ inFlight' = inFlight + 1
        /\ xpc' = "filter"
        /\ UNCHANGED <<got, toolRows>>
  /\ UNCHANGED <<post, waits, header, sent, charged, left, pushes>>

\* syncParams: a header that copied a value the filters took out goes with it.
syncParams(h, before, after) ==
  [k \in DOMAIN h |->
     LET at == {i \in DOMAIN before : before[i] = h[k].value}
         first == CHOOSE i \in at : \A j \in at : i <= j
     IN  IF ~h[k].reads \/ at = {} \/ \E i \in at : after[i] = h[k].value THEN h[k]
         ELSE [h[k] EXCEPT !.value = after[first]]]

\* applyFilters over every string of the arguments: Cleaned is what a filter
\* that rewrites leaves of them, any part of them.
Cleaned(args) == {[i \in DOMAIN args |-> IF i \in at THEN "clean" ELSE args[i]] : at \in SUBSET DOMAIN args}
Filter ==
  /\ xpc = "filter"
  /\ LET m == post.msgs[1]
         p == [Call EXCEPT !.cost = charged']
         To(args) == /\ sent' = <<[m EXCEPT !.args = args]>>
                     /\ header' = syncParams(header, m.args, args)
                     /\ waits' = With(waits, m.id, p)
                     /\ xpc' = "forward"
                     /\ UNCHANGED <<got, toolRows>>
     IN  \/ post.filters = "none" /\ UNCHANGED charged /\ To(m.args)
         \/ /\ post.filters # "none"
            /\ charged' = charged + FilterFee
            /\ \/ ~left /\ \E args \in Cleaned(m.args) : To(args)
               \/ /\ \E outcome \in {"refused", "no_result"} : toolFailed(p, outcome)
                  /\ xpc' = "release"
                  /\ UNCHANGED <<sent, header, waits>>
               \/ /\ left
                  /\ toolRows' = Append(toolRows, Row(p, "no_result"))
                  /\ xpc' = "release"
                  /\ UNCHANGED <<sent, header, waits, got>>
  /\ UNCHANGED <<post, inQuota, held, inFlight, creditHeld, left, pushes>>

\* forward and relay: no answer at all, a refused credential, a JSON answer, an
\* event stream, or something that is not MCP.
forward ==
  /\ xpc = "forward"
  /\ \/ Answer(<<rpcFail>>) /\ xpc' = "fail" /\ UNCHANGED <<waits, toolRows>>
     \/ ~left /\ xpc' = "fail" /\ UNCHANGED <<got, waits, toolRows>>
     \/ ~left /\ xpc' = "stream" /\ UNCHANGED <<got, waits, toolRows>>
     \/ /\ ~left
        /\ \E ms \in {p \in Pushes : InKind(p)} :
             LET r == ReadPush(ms)
             IN  waits' = r.waits /\ toolRows' = toolRows \o r.rows /\ Answer(r.out)
        /\ xpc' = "fail"
  /\ UNCHANGED <<post, header, sent, inQuota, held, inFlight, creditHeld, charged, left, pushes>>

\* The stream ends when the server closes it, or a write to the client fails.
Push ==
  /\ xpc = "stream"
  /\ \/ /\ pushes < MaxPushes
        /\ \E ms \in {p \in Pushes : InKind(p)} :
             LET r == ReadPush(ms)
             IN  waits' = r.waits /\ toolRows' = toolRows \o r.rows /\ Answer(r.out)
        /\ xpc' = IF left THEN "fail" ELSE "stream"
        /\ pushes' = pushes + 1
     \/ xpc' = "fail" /\ UNCHANGED <<waits, toolRows, got, pushes>>
  /\ UNCHANGED <<post, header, sent, inQuota, held, inFlight, creditHeld, charged, left>>

FailPending ==
  /\ xpc = "fail"
  /\ toolRows' = toolRows \o failPending(waits)
  /\ waits' = <<>>
  /\ xpc' = "release"
  /\ UNCHANGED <<post, header, sent, got, inQuota, held, inFlight, creditHeld, charged, left, pushes>>

\* The deferred EndRequest and ReleaseCredit of mcpPost.
Release ==
  /\ xpc = "release"
  /\ inFlight' = IF inQuota THEN inFlight - 1 ELSE inFlight
  /\ creditHeld' = creditHeld - held
  /\ xpc' = "ended"
  /\ UNCHANGED <<post, waits, header, sent, got, toolRows, inQuota, held, charged, left, pushes>>

HangUp ==
  /\ xpc \notin {"off", "ended"} /\ ~left
  /\ left' = TRUE
  /\ UNCHANGED <<post, xpc, waits, header, sent, got, toolRows, inQuota, held, inFlight, creditHeld, charged, pushes>>

MCPNext ==
  mcpBegin \/ Inspect \/ admit \/ Filter \/ forward \/ Push \/ FailPending \/ Release \/ HangUp

(***************************************************************************)
(* CallRecordedOnce: when an exchange is over, the tool call it carried,   *)
(* unless it could not be read at all, has exactly one row, however often  *)
(* the server answered it; the row counts against the quotas exactly if    *)
(* the call was counted in flight and costs what its filters charged; and  *)
(* neither the count nor the credit stays held.  mcp.go, toolCall,         *)
(* serverMessage, failPending and mcpPost.                                 *)
(***************************************************************************)
Carried ==
  LET m == post.msgs[1]
  IN  /\ post.how = "post" /\ ~post.batch
      /\ post.server = "there" /\ ~post.subscription /\ Policy!AllowsServer(post.tools, Server)
      /\ isRequest(m) /\ IsToolCall(m) /\ m.readable /\ headersMatch(m)
CallRecordedOnce ==
  /\ xpc = "ended" =>
       /\ inFlight = 0 /\ creditHeld = 0
       /\ Len(toolRows) = IF Carried THEN 1 ELSE 0
       /\ Carried => /\ toolRows[1].quotas = inQuota
                     /\ toolRows[1].cost = charged
  /\ Len(toolRows) <= 1

(***************************************************************************)
(* OnlyAllowedTools: the server gets no call of a tool the key may not     *)
(* use, and no header with a value the filters took out of the arguments;  *)
(* the client sees no such tool in any list, one it did not ask for on     *)
(* this connection too.  mcp.go, toolCall, syncParams, allowedTools.       *)
(***************************************************************************)
OnlyAllowedTools ==
  /\ \A i \in DOMAIN got : \A t \in got[i].tools : Policy!AllowsTool(post.tools, Server, t)
  /\ \A i \in DOMAIN sent :
       IsToolCall(sent[i]) =>
         /\ Policy!AllowsTool(post.tools, Server, sent[i].tool)
         /\ \A k \in DOMAIN header :
              header[k].reads /\ header[k].value \in Range(post.msgs[1].args) => header[k].value \in Range(sent[i].args)

=============================================================================
