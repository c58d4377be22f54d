------------------------------- MODULE Answers -------------------------------
(***************************************************************************)
(* What the gateway makes of an answer: the whole one, translated into the *)
(* client's API, and each event of a streamed one as it passes.            *)
(* internal/gateway: sse.go, events.go, messages_stream.go,                *)
(* responses_stream.go, messages_native.go, responses_native.go, count.go, *)
(* and encode of messages.go, responses.go and shape.go.                   *)
(*                                                                         *)
(* A text is a sequence of words.  The arguments of a call are a sequence  *)
(* of JSON tokens; OpenInput opens the string of a custom tool's one       *)
(* argument.  Identifiers the gateway makes itself, the numbers of events  *)
(* and times are left out, and where the Responses API sends several       *)
(* events for one thing, such as the end of an item, one stands for them.  *)
(***************************************************************************)
EXTENDS Dialects

CONSTANTS NoUsage, NoIndex

Max2(a, b) == IF a >= b THEN a ELSE b

(***************************************************************************)
(* Arguments.  bs is a backslash, q a quote, hi and lo the halves of an    *)
(* escaped surrogate pair, six bytes each.                                 *)
(***************************************************************************)
OpenInput == <<"{", "input", "key", ":", "q">>
Bytes(tokens) == FoldLeft(LAMBDA n, t : n + (IF t \in {"hi", "lo"} THEN 6 ELSE 1), 0, tokens)

\* How much of the inside of a string can be decoded now, and whether it ends.
stringPrefix(raw) ==
  LET from[n \in 0..Len(raw)] ==
        IF n = Len(raw) THEN [n |-> n, end |-> FALSE]
        ELSE CASE raw[n + 1] = "q" -> [n |-> n, end |-> TRUE]
               [] raw[n + 1] = "bs" -> IF n + 2 > Len(raw) THEN [n |-> n, end |-> FALSE] ELSE from[n + 2]
               [] raw[n + 1] = "hi" ->
                    IF Bytes(SubSeq(raw, n + 1, Len(raw))) < 12 THEN [n |-> n, end |-> FALSE]
                    ELSE IF raw[n + 2] \in {"hi", "lo"} THEN from[n + 2] ELSE from[n + 1]
               [] OTHER -> from[n + 1]
  IN  from[0]

\* The string itself: escapes undone, a half pair replaced.
Unquoted(raw) ==
  LET from[n \in 1..(Len(raw) + 1)] ==
        IF n > Len(raw) THEN <<>>
        ELSE CASE raw[n] = "bs" -> <<<<"escaped", raw[n + 1]>>>> \o from[n + 2]
               [] raw[n] = "hi" /\ n < Len(raw) /\ raw[n + 1] = "lo" -> <<<<"pair">>>> \o from[n + 2]
               [] raw[n] \in {"hi", "lo"} -> <<<<"replaced">>>> \o from[n + 1]
               [] OTHER -> <<<<raw[n]>>>> \o from[n + 1]
  IN  from[1]

\* encoding/json's decoder: {"input": "..."} read whole.
InputOf(args) ==
  LET rest == SubSeq(args, Len(OpenInput) + 1, Len(args))
      quotes == {i \in DOMAIN rest : rest[i] = "q" /\ (i = 1 \/ rest[i - 1] # "bs")}
      close == CHOOSE i \in quotes : \A j \in quotes : i <= j
  IN  IF IsPrefix(OpenInput, args) /\ quotes # {} /\ SubSeq(rest, close + 1, Len(rest)) = <<"}">>
      THEN Unquoted(SubSeq(rest, 1, close - 1)) ELSE NoText
Valid(args) ==
  \/ InputOf(args) # NoText
  \/ Len(args) >= 2 /\ Head(args) = "{" /\ Last(args) = "}" /\ "q" \notin Range(args)

toolInput(args) == IF Valid(args) THEN args ELSE <<"{", "}">>
Bare(args) == [i \in DOMAIN args |-> <<args[i]>>]
customInput(args) ==
  LET Or(t) == IF t = NoText THEN Bare(args) ELSE t
  IN  Or(InputOf(args))

\* inputStream: the text of a custom tool's argument, read as it comes.
inputStream == [raw |-> <<>>, inside |-> FALSE, done |-> FALSE, sent |-> <<>>]
ReadInput(in, args) ==
  LET all == in.raw \o args
      began == in.inside \/ IsPrefix(OpenInput, all)
      raw == IF in.inside THEN all ELSE SubSeq(all, Len(OpenInput) + 1, Len(all))
      p == stringPrefix(raw)
      text == Unquoted(SubSeq(raw, 1, p.n))
  IN  CASE in.done -> [in |-> in, text |-> <<>>]
        [] ~in.done /\ ~began ->
             [in |-> [in EXCEPT !.raw = all, !.done = ~IsPrefix(all, OpenInput)], text |-> <<>>]
        [] OTHER ->
             [in |-> [raw |-> SubSeq(raw, p.n + 1, Len(raw)), inside |-> TRUE, done |-> p.end,
                      sent |-> in.sent \o text],
              text |-> text]

(***************************************************************************)
(* Chat chunks, and the whole answer they come from.                       *)
(***************************************************************************)
\* A text completion's choice holds its text beside no delta.
oaiStreamChunk ==
  [ok |-> TRUE, text |-> <<>>, reasoning |-> <<>>, calls |-> <<>>, finish |-> "", choice |-> TRUE,
   delta |-> TRUE, usage |-> NoUsage, failed |-> FALSE]
Torn == [oaiStreamChunk EXCEPT !.ok = FALSE, !.choice = FALSE]

chatChunks == [finish |-> "", usage |-> NoUsage, deltas |-> 0, failed |-> FALSE]
Index(tc) == IF tc.index = NoIndex THEN 0 ELSE tc.index

Generated(c) == c.text # <<>> \/ c.reasoning # <<>> \/ c.calls # <<>>

\* What a translated stream keeps of a chunk besides its content.
fold(cc, c) ==
  IF ~c.ok THEN cc
  ELSE LET u == [cc EXCEPT !.usage = IF c.usage = NoUsage THEN @ ELSE c.usage]
       IN  IF c.failed THEN [u EXCEPT !.failed = TRUE]
           ELSE IF ~c.choice THEN u
           ELSE [u EXCEPT !.deltas = @ + (IF Generated(c) THEN 1 ELSE 0),
                          !.finish = IF c.finish = "" THEN @ ELSE c.finish]
Content(c) == IF c.ok /\ ~c.failed /\ c.choice THEN c.text ELSE <<>>
Fragments(c) == IF c.ok /\ ~c.failed /\ c.choice THEN c.calls ELSE <<>>

endedFailure(failed, ended) == failed \/ ~ended

\* writtenBytes: the text, the reasoning and the calls.
writtenBytes(c) ==
  IF ~c.ok \/ ~c.choice THEN 0
  ELSE Len(c.text) + Len(c.reasoning) + FoldLeft(LAMBDA n, t : n + Len(t.name) + Bytes(t.args), 0, c.calls)

stopReason(finish) ==
  CASE finish = "length" -> "max_tokens" [] finish \in {"tool_calls", "function_call"} -> "tool_use"
    [] OTHER -> "end_turn"
responseStatus(finish) == IF finish \in {"length", "content_filter"} THEN "incomplete" ELSE "completed"

\* upstreamID: an id the upstream left out is made.
upstreamID(id) == IF id = "" THEN "made" ELSE id

\* A call as the client declared its tool: in its namespace, or with its text.
CallItem(names, id, name, args) ==
  IF name \notin DOMAIN names
  THEN [type |-> "function_call", id |-> id, ns |-> <<>>, name |-> name, input |-> args]
  ELSE LET d == names[name]
       IN  [type |-> IF d.custom THEN "custom_tool_call" ELSE "function_call", id |-> id, ns |-> d.ns,
            name |-> d.name, input |-> IF d.custom THEN customInput(args) ELSE args]
MessageItem(text) == [type |-> "message", id |-> "", ns |-> <<>>, name |-> <<>>, input |-> text]

\* A call as each API opens it.
openToolUse(tc, args) ==
  [type |-> "tool_use", id |-> upstreamID(tc.id), ns |-> <<>>, name |-> tc.name, input |-> args]
openCall(names, tc, args) == CallItem(names, upstreamID(tc.id), tc.name, args)

\* encode: a whole answer in the client's API.
Spoken(whole) == IF whole.text = <<>> THEN <<>> ELSE <<MessageItem(whole.text)>>
encodeMessages(whole) ==
  [stop |-> stopReason(whole.finish), usage |-> whole.usage,
   content |-> Spoken(whole) \o SetTo(whole.calls, LAMBDA tc : openToolUse(tc, toolInput(tc.args)))]
encodeResponses(names, whole) ==
  [stop |-> responseStatus(whole.finish), usage |-> whole.usage,
   content |-> Spoken(whole) \o SetTo(whole.calls, LAMBDA tc : openCall(names, tc, tc.args))]
encode(kind, names, whole) ==
  IF kind = "messages" THEN encodeMessages(whole) ELSE encodeResponses(names, whole)

(***************************************************************************)
(* A translated stream: the one open block, the fragments that belong to   *)
(* it, and the events they become.                                         *)
(***************************************************************************)
Ev(type, at, body) == [type |-> type, at |-> at, body |-> body]

NewStream(names) ==
  [chunks |-> chatChunks, names |-> names, started |-> FALSE, next |-> 0, open |-> NoIndex, isTool |-> FALSE,
   tool |-> NoIndex, item |-> MessageItem(<<>>), text |-> <<>>, in |-> inputStream, done |-> <<>>, out |-> <<>>]

Emit(s, ev) == [s EXCEPT !.out = Append(@, ev)]
start(s) == IF s.started THEN s ELSE Emit([s EXCEPT !.started = TRUE], Ev("start", NoIndex, <<>>))

\* A custom tool's text is sent as it is read, a function's arguments as they come.
InputDelta(s, at, text) == IF text = <<>> THEN s ELSE Emit(s, Ev("delta", at, text))

\* A tool's input is sent when its block closes, if it is not the empty one.
closeBlock(s) ==
  LET input == toolInput(s.text)
      last == IF s.isTool /\ input # <<"{", "}">> THEN input ELSE <<>>
  IN  Emit(InputDelta([s EXCEPT !.open = NoIndex, !.text = <<>>], s.open, last), Ev("stop", s.open, <<>>))

\* closeCall: what is left of a custom tool's text, and the call as a whole.
closeCall(s) ==
  LET custom == s.item.type = "custom_tool_call"
      With(input) ==
        [item |-> [s.item EXCEPT !.input = input],
         last |-> IF custom /\ IsPrefix(s.in.sent, input) THEN SubSeq(input, Len(s.in.sent) + 1, Len(input)) ELSE <<>>]
  IN  With(IF custom THEN customInput(s.text) ELSE s.text)
closeItem(s) ==
  LET shut == [s EXCEPT !.open = NoIndex, !.text = <<>>]
      As(c) == Emit([InputDelta(shut, s.open, c.last) EXCEPT !.done = Append(@, c.item)], Ev("stop", s.open, c.item))
  IN  As(IF s.isTool THEN closeCall(s) ELSE [item |-> [s.item EXCEPT !.input = s.text], last |-> <<>>])

CloseOpen(kind, s) ==
  IF s.open = NoIndex THEN s ELSE IF kind = "messages" THEN closeBlock(s) ELSE closeItem(s)

Open(s, isTool, index, item) ==
  Emit([s EXCEPT !.open = s.next, !.next = @ + 1, !.isTool = isTool, !.tool = index, !.item = item,
                 !.text = <<>>, !.in = inputStream], Ev("open", s.next, item))

\* The same that takes any tool call's fragment for the open one's.
EnterAnyTool(kind, s, isTool, index, item) ==
  IF s.open # NoIndex /\ s.isTool = isTool THEN s ELSE Open(CloseOpen(kind, s), isTool, index, item)

\* enter: the open block is the one the fragment belongs to, or the next opens.
enter(kind, s, isTool, index, item) ==
  IF s.open # NoIndex /\ s.isTool = isTool /\ (~isTool \/ s.tool = index) THEN s
  ELSE Open(CloseOpen(kind, s), isTool, index, item)

text(kind, s, t) ==
  LET Say(e) == Emit([e EXCEPT !.text = @ \o t], Ev("delta", e.open, t))
  IN  Say(enter(kind, start(s), FALSE, NoIndex, MessageItem(<<>>)))

\* On the Messages surface the input waits for the block to close; on the other
\* one arguments go on as they come.
toolCall(s, tc) ==
  [enter("messages", start(s), TRUE, Index(tc), openToolUse(tc, <<>>)) EXCEPT !.text = @ \o tc.args]
toolDelta(s, tc) ==
  LET Pass(e, read) == InputDelta([e EXCEPT !.text = @ \o tc.args, !.in = read.in], e.open, read.text)
      Into(e) == Pass(e, IF e.item.type = "custom_tool_call" /\ tc.args # <<>> THEN ReadInput(e.in, tc.args)
                         ELSE [in |-> e.in, text |-> tc.args])
  IN  Into(enter("responses", start(s), TRUE, Index(tc), openCall(s.names, tc, <<>>)))

\* chunk: the text, then each fragment.
chunk(kind, s, c) ==
  LET folded == [s EXCEPT !.chunks = fold(@, c)]
      said == IF Content(c) = <<>> THEN folded ELSE text(kind, folded, Content(c))
  IN  FoldLeft(LAMBDA t, tc : IF kind = "messages" THEN toolCall(t, tc) ELSE toolDelta(t, tc), said, Fragments(c))

failure(s) == endedFailure(s.chunks.failed, s.chunks.finish # "")

\* A stream cut short closed as if it were whole.
FinishAnyway(s, cut) ==
  Emit(CloseOpen("messages", start(s)),
       Ev("completed", NoIndex, [stop |-> stopReason(s.chunks.finish), usage |-> s.chunks.usage, content |-> <<>>]))

\* finish: the message closed, or the failure said.
finishMessages(s, cut) ==
  IF cut THEN Emit(s, Ev("failed", NoIndex, <<>>))
  ELSE Emit(CloseOpen("messages", start(s)),
            Ev("completed", NoIndex, [stop |-> stopReason(s.chunks.finish), usage |-> s.chunks.usage, content |-> <<>>]))
finishResponses(s, cut) ==
  LET Complete(closed) ==
        Emit(closed, Ev("completed", NoIndex, [stop |-> responseStatus(s.chunks.finish), usage |-> s.chunks.usage,
                                               content |-> closed.done]))
  IN  IF cut THEN Emit(start(s), Ev("failed", NoIndex, s.done)) ELSE Complete(CloseOpen("responses", start(s)))
finish(kind, s, cut) == IF kind = "messages" THEN finishMessages(s, cut) ELSE finishResponses(s, cut)

(***************************************************************************)
(* A provider's own stream, watched as it passes.  An event is its type    *)
(* and its usage record; model says whose name it carries.                 *)
(***************************************************************************)
nativeEvent == [type |-> "", usage |-> NoUsage, model |-> FALSE]
UsageOf(in, out, read, write) == [input |-> in, output |-> out, read |-> read, write |-> write]
noUsage == UsageOf(0, 0, 0, 0)

\* The larger of each count: the stream reports them in pieces.
merge(u, o) ==
  UsageOf(Max2(u.input, o.input), Max2(u.output, o.output), Max2(u.read, o.read), Max2(u.write, o.write))

\* Anthropic's input count leaves out what the cache read and wrote.
tokens(u) == [u EXCEPT !.input = u.input + u.read + u.write]

nativeStream == [usage |-> noUsage, started |-> FALSE, ended |-> FALSE, deltas |-> 0, stopped |-> FALSE,
                 failed |-> FALSE]

anthropicEvent(ns, ev) ==
  CASE ev.type = "content_block_delta" -> [ns EXCEPT !.deltas = @ + 1]
    [] ev.type = "message_stop" -> [ns EXCEPT !.stopped = TRUE]
    [] ev.type = "error" -> [ns EXCEPT !.failed = TRUE]
    [] ev.type = "message_start" /\ ev.usage # NoUsage ->
         [ns EXCEPT !.usage = merge(@, ev.usage), !.started = TRUE]
    [] ev.type = "message_delta" /\ ev.usage # NoUsage ->
         [ns EXCEPT !.usage = merge(@, ev.usage), !.ended = TRUE]
    [] OTHER -> ns

responsesEvent(ns, ev) ==
  LET u == IF ev.usage = NoUsage THEN ns ELSE [ns EXCEPT !.usage = ev.usage, !.ended = TRUE]
  IN  CASE ev.type = "delta" -> [ns EXCEPT !.deltas = @ + 1]
        [] ev.type = "error" -> [ns EXCEPT !.failed = TRUE]
        [] ev.type \in {"completed", "incomplete"} -> [u EXCEPT !.stopped = TRUE]
        [] ev.type = "failed" -> [u EXCEPT !.failed = TRUE]
        [] OTHER -> u

\* counts: the usage record, and whether it was filled in from the deltas.
NativeCounts(kind, ns) ==
  LET u == IF kind = "anthropic" THEN tokens(ns.usage) ELSE ns.usage
  IN  CASE ns.ended -> [usage |-> u, partial |-> FALSE]
        [] ~ns.ended /\ ns.started -> [usage |-> [u EXCEPT !.output = Max2(@, ns.deltas)], partial |-> TRUE]
        [] OTHER -> [usage |-> NoUsage, partial |-> FALSE]

\* renameIn, renameModel: the client sees the alias.
Renamed(ev) == [ev EXCEPT !.model = FALSE]

=============================================================================
