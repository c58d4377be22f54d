------------------------------- MODULE Streams -------------------------------
(***************************************************************************)
(* One exchange on a chat surface: the request as it is decoded, and the   *)
(* streamed answer on its way through the gateway.  internal/gateway:      *)
(* serve.go (decode, relayStream), sse.go, events.go, native.go, count.go. *)
(*                                                                         *)
(* The reader is the request's own goroutine: it reads lines from the      *)
(* upstream, folds each into what it knows of the answer and writes the    *)
(* events that come of it.  On the Messages surface a timer writes pings   *)
(* beside it, under the pinger's lock.  The upstream sends a script of     *)
(* lines and may break off at any point, in a line too; the client may     *)
(* leave at any time.                                                      *)
(*                                                                         *)
(* The kinds: openai passes a chat stream on, messages and responses       *)
(* translate one, anthropic and native pass a provider's own stream on.    *)
(* The key of a case says on whose key the chain is: on the client's or    *)
(* the organisation's own, on the deployment's, or on it in another        *)
(* destination of the chain than the one that answers.                     *)
(***************************************************************************)
EXTENDS Answers

CONSTANTS
  Prompt,        \* the key's system prompt, a text
  Cases,         \* what a client asks and an upstream sends, by name
  MaxEventLines, \* maxEventBytes, in lines
  MaxLine,       \* the limit of one line or one translated event, in lines
  MaxPings       \* bounds the pings of one stream

ASSUME StreamsAssumption == MaxEventLines \in Nat /\ MaxLine \in Nat /\ MaxPings \in Nat

VARIABLES
  ask,      \* the exchange under way
  pc,       \* where the reader is
  session,  \* what the session key is made of
  made,     \* the request as it goes to the model
  arrived,  \* lines read from the upstream, at of them folded
  at,
  torn,     \* the last line arrived only in part: no, or early in it, in the
            \* middle of why the model stopped, or late, after it
  ended,    \* how the upstream's stream ended: open, eof, error or large
  st,       \* what the stream knows of the answer
  event,    \* the lines of the event being gathered
  todo,     \* events to write
  wire,     \* events written to the client, shown of them flushed
  shown,
  pending,  \* a flush is due
  waiting,  \* the reader waits in the upstream's Read
  failed,   \* a write to the client failed
  gone,     \* the client left
  tick,     \* the timer: idle, or between its write and its flush
  pings,
  counted,  \* the text counter
  row       \* what is recorded of the stream

lineVars == <<arrived, at, torn, ended, st, event>>
outVars == <<todo, wire, shown, pending, failed>>
tickVars == <<tick, pings>>
vars == <<ask, pc, session, made, lineVars, outVars, waiting, gone, tickVars, counted, row>>

Kind == ask.kind
Script == ask.script
Translates == Kind \in {"messages", "responses"}
Native == Kind \in {"anthropic", "native"}
chainOnKey == ask.key # "own"

NoRow == [cut |-> FALSE, usage |-> NoUsage, estimated |-> FALSE, output |-> 0]
ssePipe == [usageOnly |-> FALSE, finished |-> FALSE, failed |-> FALSE, usage |-> NoUsage, deltas |-> 0]

Idle ==
  /\ session = NoMessages
  /\ made = Failed
  /\ arrived = 0 /\ at = 0 /\ torn = "no" /\ ended = "open"
  /\ st = ssePipe
  /\ event = <<>>
  /\ todo = <<>> /\ wire = <<>> /\ shown = 0
  /\ pending = FALSE /\ waiting = FALSE /\ failed = FALSE /\ gone = FALSE
  /\ tick = "idle" /\ pings = 0
  /\ counted = 0
  /\ row = NoRow
Init == (\E c \in DOMAIN Cases : ask = Cases[c]) /\ pc = "decode" /\ Idle

\* The stream is not, or no longer, under way.
Over == pc \in {"off", "decode", "refused", "done"}

(***************************************************************************)
(* The request.  A filter reads its text first; a text it cannot read is   *)
(* refused.                                                                *)
(***************************************************************************)
Decode ==
  /\ pc = "decode"
  /\ LET req == ask.req
         prompted == IF Prompt = <<>> THEN req ELSE addSystem(req, Prompt)
         out == CASE req.api \in {"chat", "completion", "rerank"} -> Made(<<>>)
                  [] Native -> IF chainOnKey THEN onKey(prompted) ELSE [ok |-> TRUE, req |-> prompted]
                  [] ~Native /\ needsNative(req) -> Failed
                  [] OTHER -> decodeBody(req)
     IN  /\ session' = opening(req)
         /\ \E m \in {IF textOf(req).ok THEN out ELSE Failed} :
              /\ made' = IF m.ok THEN m ELSE Failed
              /\ pc' = IF m.ok /\ Script # <<>> THEN "next" ELSE "refused"
              /\ st' = CASE Kind = "openai" -> ssePipe
                         [] Native -> nativeStream
                         [] Translates -> NewStream(IF m.ok /\ Kind = "responses" THEN m.names ELSE <<>>)
  /\ UNCHANGED <<ask, arrived, at, torn, ended, event, outVars, waiting, gone, tickVars, counted, row>>

(***************************************************************************)
(* flushBeforeRead.                                                        *)
(***************************************************************************)
Flushed == shown' = (IF pending /\ ~gone THEN Len(wire) ELSE shown)

\* The flushes held back happen before the reader waits.
Read ==
  /\ pc = "next" /\ at = arrived /\ ended = "open"
  /\ Flushed
  /\ pending' = FALSE
  /\ waiting' = TRUE
  /\ pc' = "wait"
  /\ UNCHANGED <<ask, session, made, lineVars, todo, wire, failed, gone, tickVars, counted, row>>

\* later, of an event written by the timer: at once while the reader waits.
later(written) ==
  /\ shown' = IF waiting /\ ~gone THEN Len(written) ELSE shown
  /\ pending' = ~waiting

(***************************************************************************)
(* The upstream.                                                           *)
(***************************************************************************)
IsData(l) == l.is \in {"data", "part", "mid", "late"}
Written(l) == IF l.is = "data" /\ Kind \notin {"anthropic", "native"} THEN writtenBytes(l.chunk) ELSE 0

\* A read brings one or more lines, which the text counter reads as they come.
Arrive ==
  /\ pc = "wait"
  /\ \E n \in (arrived + 1)..Len(Script) :
       /\ arrived' = n
       /\ counted' = FoldLeft(LAMBDA k, l : k + Written(l), counted, SubSeq(Script, arrived + 1, n))
  /\ waiting' = FALSE
  /\ pc' = "next"
  /\ UNCHANGED <<ask, session, made, at, torn, ended, st, event, outVars, gone, tickVars, row>>

\* It ends, or breaks off, between two lines or in one.
Break ==
  /\ pc = "wait"
  /\ ended' \in {"eof", "error"}
  /\ torn' \in {"no"} \cup (IF arrived = Len(Script) THEN {} ELSE IF Kind = "openai" THEN {"early", "mid", "late"} ELSE {"early"})
  /\ arrived' = arrived + (IF torn' = "no" THEN 0 ELSE 1)
  /\ waiting' = FALSE
  /\ pc' = "next"
  /\ UNCHANGED <<ask, session, made, at, st, event, outVars, gone, tickVars, counted, row>>

(***************************************************************************)
(* The lines.  A line is data with a chunk or an event, part of one split  *)
(* over two lines, blank, the end marker, something else, or too long.     *)
(***************************************************************************)
TornOf(l) ==
  IF l.is = "data" /\ torn \in {"mid", "late"} THEN [l EXCEPT !.is = torn]
  ELSE IF IsData(l) THEN [is |-> "data", chunk |-> IF Native THEN nativeEvent ELSE Torn]
  ELSE [is |-> "other"]
Line == IF torn # "no" /\ at + 1 = arrived THEN TornOf(Script[at + 1]) ELSE Script[at + 1]

\* The data of an event: its one line, or the two halves of a split one.
DataOf(ls) ==
  LET ds == SelectSeq(ls, IsData)
  IN  CASE Len(ds) = 1 /\ ds[1].is = "data" -> ds[1].chunk
        [] Len(ds) = 2 /\ ds[1].is = "part" /\ ds[2] = ds[1] -> ds[1].chunk
        [] OTHER -> IF Native THEN nativeEvent ELSE Torn

\* pipeSSE reads each data line by itself, before the event is whole.
HasDelta(c) == c.choice /\ c.delta
inspect(p, c) ==
  IF ~c.ok THEN p
  ELSE [p EXCEPT !.deltas = @ + (IF HasDelta(c) THEN 1 ELSE 0),
                 !.usage = IF c.usage = NoUsage THEN @ ELSE c.usage,
                 !.usageOnly = IF c.usage = NoUsage THEN @ ELSE ~c.choice,
                 !.finished = @ \/ c.finish # "",
                 !.failed = @ \/ c.failed]

\* It searches the bytes, so a line that breaks off in its chunk may have said
\* that the model wrote or that it failed.  The beginning of a finish reason is
\* taken for one, the beginning of null too.
hasValue(p, l) ==
  [p EXCEPT !.deltas = @ + (IF HasDelta(l.chunk) THEN 1 ELSE 0),
            !.finished = @ \/ l.chunk.finish # "" \/ (l.is = "mid" /\ l.chunk.choice),
            !.failed = @ \/ l.chunk.failed]
AddToPipe(p, l) ==
  CASE l.is = "data" -> inspect(p, l.chunk) [] l.is \in {"mid", "late"} -> hasValue(p, l) [] OTHER -> p

\* The event that is complete: what is known after it, and what is written.
HasData(ls) == \E i \in DOMAIN ls : IsData(ls[i])
Named(l) == IF IsData(l) /\ Native THEN [l EXCEPT !.chunk = Renamed(@)] ELSE l
emitNative(s, ls) ==
  [st |-> IF ~HasData(ls) THEN s
          ELSE IF Kind = "anthropic" THEN anthropicEvent(s, DataOf(ls)) ELSE responsesEvent(s, DataOf(ls)),
   out |-> IF ls = <<>> THEN <<>> ELSE <<SetTo(ls, Named)>>]
emitOpenAI(s, ls) ==
  [st |-> [s EXCEPT !.usageOnly = FALSE],
   out |-> IF ls = <<>> \/ (s.usageOnly /\ ask.drop) THEN <<>> ELSE <<ls>>]
emit(s, ls) ==
  CASE Kind = "openai" -> emitOpenAI(s, ls)
    [] Native -> emitNative(s, ls)
    [] Translates -> LET Told(t) == [st |-> [t EXCEPT !.out = <<>>], out |-> t.out]
                     IN  Told(IF HasData(ls) THEN chunk(Kind, s, DataOf(ls)) ELSE s)

Size(ls) == IF Translates THEN Len(SelectSeq(ls, IsData)) ELSE Len(ls)

Fold ==
  /\ pc = "next" /\ at < arrived
  /\ at' = at + 1
  /\ LET l == Line
         p == IF Kind = "openai" THEN AddToPipe(st, l) ELSE st
         ls == Append(event, l)
         due == l.is = "blank" \/ (Kind = "openai" /\ Size(ls) > MaxEventLines)
         large == l.is = "huge" \/ (Kind # "openai" /\ Size(ls) > MaxLine)
     IN  IF large
         THEN /\ ended' = "large" /\ arrived' = at + 1 /\ pc' = "close"
              /\ UNCHANGED <<st, event, todo>>
         ELSE /\ \E r \in {IF due THEN emit(p, ls) ELSE [st |-> p, out |-> <<>>]} :
                   /\ st' = r.st
                   /\ todo' = r.out
                   /\ pc' = IF r.out # <<>> THEN "write" ELSE "next"
              /\ event' = IF due THEN <<>> ELSE ls
              /\ UNCHANGED <<ended, arrived>>
  /\ UNCHANGED <<ask, session, made, torn, wire, shown, pending, failed, waiting, gone, tickVars, counted, row>>

\* A last event without its blank line still counts.
LastEvent ==
  /\ pc = "next" /\ at = arrived /\ ended \in {"eof", "error"}
  /\ \E r \in {emit(st, event)} :
       /\ st' = r.st
       /\ todo' = r.out
       /\ pc' = IF r.out # <<>> THEN "last" ELSE "close"
  /\ event' = <<>>
  /\ UNCHANGED <<ask, session, made, arrived, at, torn, ended, wire, shown, pending, failed, waiting, gone,
                 tickVars, counted, row>>

\* What a write leaves of the client's events.  With a destination of the chain
\* on the deployment's key, afterHangUp drops what a client that left would get.
Sent(ev) == IF gone THEN wire ELSE Append(wire, ev)

\* One event goes out under the pinger's lock; a failed write ends the stream.
Write ==
  /\ pc \in {"write", "last", "closing"} /\ todo # <<>> /\ tick = "idle"
  /\ IF (gone /\ ~chainOnKey) \/ failed
     THEN /\ failed' = TRUE
          /\ todo' = <<>>
          /\ pc' = IF pc = "closing" THEN "closing" ELSE "close"
          /\ UNCHANGED <<wire, pending>>
     ELSE /\ wire' = Sent(Head(todo))
          /\ pending' = TRUE
          /\ todo' = Tail(todo)
          /\ pc' = IF Len(todo) > 1 \/ pc = "closing" THEN pc ELSE IF pc = "write" THEN "next" ELSE "close"
          /\ UNCHANGED failed
  /\ UNCHANGED <<ask, session, made, lineVars, shown, waiting, gone, tickVars, counted, row>>

(***************************************************************************)
(* The end.                                                                *)
(***************************************************************************)
Cut ==
  \/ ended # "eof"
  \/ CASE Kind = "openai" -> endedFailure(st.failed, st.finished)
       [] Native -> endedFailure(st.failed, st.stopped)
       [] Translates -> failure(st)

\* finish: a client that is gone gets nothing more.
Close ==
  /\ pc = "close" /\ tick = "idle"
  /\ IF Translates /\ ~failed
     THEN \E f \in {finish(Kind, st, Cut)} : st' = [f EXCEPT !.out = <<>>] /\ todo' = f.out
     ELSE UNCHANGED <<st, todo>>
  /\ pc' = "closing"
  /\ UNCHANGED <<ask, session, made, arrived, at, torn, ended, event, wire, shown, pending, failed, waiting, gone,
                 tickVars, counted, row>>

\* stop and now, and what is recorded: the record that came, or an estimate; an
\* early end, unless the client left.  A call on the deployment's key is not
\* estimated here but billed the most it may have used, as Pipeline has it.
Counts ==
  CASE Kind = "openai" -> [usage |-> st.usage, deltas |-> st.deltas, partial |-> FALSE]
    [] Native -> [deltas |-> st.deltas] @@ NativeCounts(Kind, st)
    [] Translates -> [usage |-> st.chunks.usage, deltas |-> st.chunks.deltas, partial |-> FALSE]
Stop ==
  /\ pc = "closing" /\ todo = <<>> /\ tick = "idle"
  /\ Flushed
  /\ pending' = FALSE
  /\ pc' = "done"
  /\ row' = LET c == Counts
                unpaid == c.usage = NoUsage /\ ask.key # "deployment"
            IN  [cut |-> (failed \/ Cut) /\ ~gone, usage |-> c.usage, estimated |-> unpaid \/ c.partial,
                 output |-> IF c.usage # NoUsage THEN c.usage.output ELSE IF unpaid THEN c.deltas ELSE 0]
  /\ UNCHANGED <<ask, session, made, lineVars, todo, wire, failed, waiting, gone, tickVars, counted>>

(***************************************************************************)
(* The timer and the client.                                               *)
(***************************************************************************)
Ping == Ev("ping", NoIndex, <<>>)
Ticking == Kind = "messages" /\ ~Over

TickWrites ==
  /\ Ticking /\ tick = "idle" /\ ~failed /\ pings < MaxPings
  /\ pings' = pings + 1
  /\ IF gone /\ ~chainOnKey THEN failed' = TRUE /\ UNCHANGED <<wire, tick>>
     ELSE wire' = Sent(Ping) /\ tick' = "wrote" /\ UNCHANGED failed
  /\ UNCHANGED <<ask, pc, session, made, lineVars, todo, shown, pending, waiting, gone, counted, row>>

TickFlushes ==
  /\ tick = "wrote"
  /\ tick' = "idle"
  /\ later(wire)
  /\ UNCHANGED <<ask, pc, session, made, lineVars, todo, wire, failed, waiting, gone, pings, counted, row>>

Leave ==
  /\ ~Over /\ ~gone
  /\ gone' = TRUE
  /\ UNCHANGED <<ask, pc, session, made, lineVars, outVars, waiting, tickVars, counted, row>>

Reader == Decode \/ Read \/ Fold \/ LastEvent \/ Write \/ Close \/ Stop
Next == Reader \/ Arrive \/ Break \/ TickWrites \/ TickFlushes \/ Leave

Spec == Init /\ [][Next]_vars

(***************************************************************************)
(* The answer again, read from the upstream's lines without the stream:    *)
(* the events among the lines that arrived whole, and what they say.       *)
(***************************************************************************)
WholeLines == SubSeq(Script, 1, IF torn # "no" /\ at = arrived THEN at - 1 ELSE at)
EventsIn(ls) ==
  LET all == FoldLeft(LAMBDA a, l : IF l.is = "blank" THEN [done |-> Append(a.done, Append(a.cur, l)), cur |-> <<>>]
                                    ELSE [a EXCEPT !.cur = Append(@, l)],
                      [done |-> <<>>, cur |-> <<>>], ls)
  IN  all.done \o (IF all.cur = <<>> THEN <<>> ELSE <<all.cur>>)
Said == SetTo(SelectSeq(EventsIn(WholeLines), HasData), DataOf)

LastOf(s, none) == IF s = <<>> THEN none ELSE Last(s)

\* The fragments that begin a call: they name its tool.  Every other one goes on
\* with the latest call begun under the same index.
Begins(frags) == SelectSeq([i \in DOMAIN frags |-> i], LAMBDA i : frags[i].name # <<>>)
CallsIn(frags) ==
  LET begins == Begins(frags)
      GoesOn(i, k) == /\ frags[k].index = frags[i].index
                      /\ \A b \in Range(begins) : i < b /\ b <= k => frags[b].index # frags[i].index
      Call(i) == [id |-> frags[i].id, name |-> frags[i].name,
                  args |-> FlattenSeq([k \in 1..(Len(frags) - i + 1) |->
                             IF GoesOn(i, i + k - 1) THEN frags[i + k - 1].args ELSE <<>>])]
  IN  SetTo(begins, Call)
AllFragments == FlattenSeq(SetTo(Said, Fragments))
WholeAnswer ==
  LET ok == SelectSeq(Said, LAMBDA c : c.ok)
  IN  [text |-> FlattenSeq(SetTo(Said, Content)), calls |-> CallsIn(AllFragments),
       finish |-> LastOf(SelectSeq(SetTo(SelectSeq(ok, LAMBDA c : c.choice /\ ~c.failed), LAMBDA c : c.finish),
                                   LAMBDA f : f # ""), ""),
       usage |-> LastOf(SelectSeq(SetTo(ok, LAMBDA c : c.usage), LAMBDA u : u # NoUsage), NoUsage)]

\* What the models' own APIs send: the text before the calls, the fragments of a
\* call together, and each call under an index of its own, one at most with none,
\* which stands for 0.
Orderly ==
  \A said \in {Said} : \A frags \in {AllFragments} :
    /\ \A i, j \in DOMAIN said : i < j /\ Fragments(said[i]) # <<>> => Content(said[j]) = <<>>
    /\ \A i, j, k \in DOMAIN frags :
         i < j /\ j < k /\ frags[i].index = frags[k].index => frags[j].index = frags[i].index
    /\ \A b, c \in Range(Begins(frags)) : b # c => Index(frags[b]) # Index(frags[c])

Heard == SelectSeq(wire, LAMBDA e : e.type # "ping")
Completed == Heard # <<>> /\ Last(Heard).type = "completed"

\* What a client puts together from the events.
Rebuilt ==
  LET opens == SelectSeq(Heard, LAMBDA e : e.type = "open")
      Deltas(o) == FlattenSeq(SetTo(SelectSeq(Heard, LAMBDA e : e.type = "delta" /\ e.at = o.at), LAMBDA e : e.body))
      Input(o) == IF o.body.type = "tool_use" /\ Deltas(o) = <<>> THEN <<"{", "}">> ELSE Deltas(o)
  IN  SetTo(opens, LAMBDA o : [o.body EXCEPT !.input = Input(o)])

\* Blocks open and close one after the other, and nothing follows the end.
InSequence ==
  \A es \in {Heard} : \A i \in DOMAIN es :
    LET Earlier(type) == Cardinality({j \in 1..(i - 1) : es[j].type = type})
    IN  /\ i > 1 => es[i - 1].type \notin {"completed", "failed"}
        /\ es[i].type \in {"open", "delta", "stop", "completed"} => es[1].type = "start"
        /\ es[i].type \in {"open", "completed"} => Earlier("open") = Earlier("stop")
        /\ es[i].type = "open" => es[i].at = Earlier("open")
        /\ es[i].type \in {"delta", "stop"} => es[i].at + 1 = Earlier("open") /\ es[i].at = Earlier("stop")

(***************************************************************************)
(* StreamIsWhole: the blocks of a translated stream open and close in      *)
(* sequence, whatever the model sends.  When it sends its text before its  *)
(* calls, each call's fragments together and each call under its own       *)
(* index, a client that puts the blocks together has the answer it would   *)
(* have had unstreamed, the stop reason and the usage with it.  (Fragments *)
(* of two calls in turn become blocks of their own, all but the first      *)
(* nameless, and two calls without an index become one.)  And a stream     *)
(* that is passed on arrives line by line as it came, but for the          *)
(* usage-only event the gateway asked for itself.  messages_stream.go and  *)
(* responses_stream.go against encode; events.go, enter; sse.go, pipeSSE   *)
(* and native.go, pipeNative.                                              *)
(***************************************************************************)
StreamIsWhole ==
  /\ Translates => InSequence
  /\ pc = "done" /\ Translates /\ Completed /\ Orderly =>
       \A answer \in {WholeAnswer} : \A whole \in {encode(Kind, st.names, answer)}, told \in {Last(Heard).body} :
         LET Readable(i) == answer.calls = <<>> \/ whole.content[i].type # "custom_tool_call"
                              \/ InputOf(answer.calls[i - (Len(whole.content) - Len(answer.calls))].args) # NoText
         IN  /\ told.stop = whole.stop /\ told.usage = whole.usage
             /\ Kind = "responses" => told.content = whole.content
             /\ Len(Rebuilt) = Len(whole.content)
             /\ \A i \in DOMAIN whole.content : Readable(i) => Rebuilt[i] = whole.content[i]
  /\ pc = "done" /\ ~Translates /\ ~failed /\ ~(gone /\ chainOnKey) /\ ended # "large" =>
       LET Dropped(ls) == /\ Kind = "openai" /\ ask.drop
                          /\ \E i \in DOMAIN ls : ls[i].is = "data" /\ ls[i].chunk.usage # NoUsage /\ ~ls[i].chunk.choice
           lines == FlattenSeq(SelectSeq(EventsIn(WholeLines), LAMBDA ls : ~Dropped(ls)))
           out == FlattenSeq(wire)
       IN  IsPrefix(SetTo(lines, Named), out) /\ Len(out) <= Len(lines) + (IF torn = "no" THEN 0 ELSE 1)

(***************************************************************************)
(* EndIsTold: the client is told that the answer is complete, and it is    *)
(* recorded as such, exactly when the model said why it stopped, reported  *)
(* no failure and its stream ended cleanly; only a chat stream passed on   *)
(* that ends inside the null of a finish_reason is taken for complete.     *)
(* With a destination of the chain on the deployment's key the answer is   *)
(* read to its end, though the client left.  Where the output is estimated *)
(* nobody pays for less than the chat tokens he was sent; the chunks of a  *)
(* text completion hold no delta and are not counted.  While the reader    *)
(* waits for the upstream, every event that was written has been flushed,  *)
(* a ping the timer wrote meanwhile too.  events.go, endedFailure,         *)
(* serve.go, relayStream and afterHangUp, sse.go, hasValue, inspect and    *)
(* flushBeforeRead.                                                        *)
(***************************************************************************)
BrokeOff == torn \in {"mid", "late"} /\ at = arrived /\ IsData(Script[at])
EndsInNull == BrokeOff /\ torn = "mid" /\ Script[at].chunk.choice /\ Script[at].chunk.finish = ""
Finished ==
  CASE Native -> \E ev \in Range(Said) : ev.type \in {"message_stop", "completed", "incomplete"}
    [] Translates -> WholeAnswer.finish # ""
    [] OTHER -> \/ \E c \in Range(Said) : c.ok /\ c.finish # ""
                \/ BrokeOff /\ Script[at].chunk.finish # ""
ModelFailed ==
  CASE Native -> \E ev \in Range(Said) : ev.type \in {"error", "failed"}
    [] Translates -> \E c \in Range(Said) : c.ok /\ c.failed
    [] OTHER -> \/ \E c \in Range(Said) : c.ok /\ c.failed
                \/ BrokeOff /\ Script[at].chunk.failed
Tokens ==
  CASE Native -> SelectSeq(wire, LAMBDA ls : DataOf(ls).type \in {"delta", "content_block_delta"})
    [] Translates -> SelectSeq(wire, LAMBDA e : e.type = "delta" /\ e.at = 0)
    [] OTHER -> SelectSeq(FlattenSeq(wire), LAMBDA l : l.is = "data" /\ l.chunk.delta /\ Generated(l.chunk))
EndIsTold ==
  /\ pc = "done" =>
       /\ \A whole \in {ended = "eof" /\ Finished /\ ~ModelFailed} :
            ~gone => (EndsInNull \/ (row.cut <=> ~whole)) /\ (Translates => (Completed <=> whole))
       /\ chainOnKey => ended # "open"
       /\ row.estimated => row.output >= Len(Tokens)
  /\ (waiting \/ pc = "done") /\ tick = "idle" /\ ~gone => shown = Len(wire)

(***************************************************************************)
(* RequestKept: each tool result follows the turn that called the tool;    *)
(* the translation brings the model no text the filters did not read; and  *)
(* what goes to a provider on the deployment's key has only tools the      *)
(* client runs, asks for none that is gone, names no MCP server the        *)
(* provider would call and is not kept there.                              *)
(* messages.go, responses.go, body.go checkKeys, hosted.go.                *)
(***************************************************************************)
Asked == ask.req
CallIds(m) == {m.calls[i].id : i \in DOMAIN m.calls}

\* A conversation a client's own loop makes: results right after their calls.
Proper ==
  CASE Asked.api = "messages" ->
         \A i \in DOMAIN Asked.messages : \A k \in DOMAIN InnerBlocks(Asked.messages[i].content) :
           LET b == InnerBlocks(Asked.messages[i].content)[k]
           IN  b.type = "tool_result" =>
                 i > 1 /\ \E u \in Range(InnerBlocks(Asked.messages[i - 1].content)) : u.type = "tool_use" /\ u.id = b.id
    [] Asked.api = "responses" /\ Asked.input.is = "blocks" ->
         LET its == Asked.input.blocks
         IN  \A i \in DOMAIN its : isToolOutput(its[i].type) =>
               \E j \in 1..(i - 1) :
                 /\ its[j].type \in Calls /\ its[j].callID = its[i].callID
                 /\ \E k \in j..(i - 1) : /\ \A n \in j..k : its[n].type \in Calls
                                          /\ \A n \in (k + 1)..(i - 1) : isToolOutput(its[n].type)
    [] OTHER -> TRUE
Answered(ms, i) ==
  \E j \in 1..(i - 1) : /\ ms[j].role = "assistant" /\ ms[i].callID \in CallIds(ms[j])
                        /\ \A k \in (j + 1)..(i - 1) : ms[k].role = "tool"
WordsOf(m) == Words(m.content) \cup UNION {Words(m.parts[i].text) : i \in DOMAIN m.parts}

RequestKept ==
  /\ pc # "decode" /\ Translates /\ made.ok =>
       /\ Proper => \A i \in DOMAIN made.msgs : made.msgs[i].role = "tool" => Answered(made.msgs, i)
       /\ UNION {WordsOf(made.msgs[i]) : i \in DOMAIN made.msgs} \subseteq textOf(Asked).words
  /\ pc # "decode" /\ Native /\ chainOnKey /\ made.ok =>
       LET client == IF Kind = "anthropic" THEN anthropicClientTools ELSE openAIClientTools
           tools == Range(made.req.tools)
           c == made.req.choice
       IN  /\ \A t \in tools : keepsTool(t.type, client)
           /\ c # NoChoice /\ c.name \in {t.name : t \in Range(Asked.tools)} => c.name \in {t.name : t \in tools}
           /\ IF Kind = "native" THEN ~made.req.store ELSE made.req.mcpServers = {}

=============================================================================
