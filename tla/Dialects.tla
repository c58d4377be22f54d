------------------------------ MODULE Dialects ------------------------------
(***************************************************************************)
(* What the gateway makes of a request in the Anthropic Messages or the    *)
(* OpenAI Responses API: the chat request it is translated to, the text    *)
(* its filters read in it, and what it becomes on its way to the provider  *)
(* itself.  internal/gateway: messages.go, responses.go, native.go,        *)
(* messages_native.go, responses_native.go, hosted.go, text.go.            *)
(*                                                                         *)
(* A text is a sequence of words, NoText when there is none at all; blank  *)
(* lines between joined texts carry nothing.  A content is a text, a       *)
(* sequence of blocks, missing, or of another JSON type.  A tool's name is *)
(* a sequence of parts, so that the name of a tool in a namespace and a    *)
(* plain name that spells the same are one.  A tool type stands for every  *)
(* type its prefix matches.                                                *)
(***************************************************************************)
EXTENDS Naturals, Sequences, FiniteSets, SequencesExt

CONSTANTS NoText, NoChoice, NoMessages

(***************************************************************************)
(* Texts, contents, and the chat messages a translation makes.             *)
(***************************************************************************)
isEmpty(t) == t \in {NoText, <<>>}
orEmpty(t) == IF t = NoText THEN <<>> ELSE t
joinTexts(ts) ==
  LET kept == SelectSeq(ts, LAMBDA t : ~isEmpty(t))
  IN  IF kept = <<>> THEN NoText ELSE FlattenSeq(kept)

NoContent == [is |-> "none"]
OddContent == [is |-> "other"]
Str(t) == [is |-> "text", text |-> t]
Blocks(bs) == [is |-> "blocks", blocks |-> bs]

chatMessage == [role |-> "", content |-> NoText, parts |-> <<>>, calls |-> <<>>, callID |-> ""]
TextPart(t) == [text |-> t, image |-> FALSE]
ImagePart == [text |-> <<>>, image |-> TRUE]
Failed == [ok |-> FALSE, msgs |-> <<>>]
Made(ms) == [ok |-> TRUE, msgs |-> ms]

\* The messages of several conversions one after the other, if all succeed.
InTurn(rs) ==
  IF \A i \in DOMAIN rs : rs[i].ok THEN Made(FlattenSeq([i \in DOMAIN rs |-> rs[i].msgs])) ELSE Failed

SetTo(s, F(_)) == [i \in DOMAIN s |-> F(s[i])]

(***************************************************************************)
(* A Messages request.  A block that does not fit the gateway's struct has *)
(* fits false; one with a key in another case has spelled false, which the *)
(* translation reads and an exact match does not.                          *)
(***************************************************************************)
anthropicBlock ==
  [type |-> "", fits |-> TRUE, spelled |-> TRUE, text |-> <<>>, id |-> "", name |-> <<>>, input |-> <<"{", "}">>,
   content |-> NoContent, source |-> "none", inner |-> NoContent, title |-> <<>>, context |-> <<>>,
   url |-> <<>>]

NeededBlocks == {"text", "image", "tool_use", "tool_result"}
decodeBlocks(bs) ==
  [ok |-> \A i \in DOMAIN bs : bs[i].fits \/ bs[i].type \notin NeededBlocks,
   blocks |-> SelectSeq(bs, LAMBDA b : b.fits)]

\* The blocks of a content where the code reads blocks or nothing.
InnerBlocks(c) ==
  LET Read(d) == IF d.ok THEN d.blocks ELSE <<>>
  IN  IF c.is = "blocks" THEN Read(decodeBlocks(c.blocks)) ELSE <<>>

RECURSIVE blockText(_)
joinText(bs) == joinTexts(SetTo(bs, blockText))
blockText(b) ==
  CASE b.type = "text" -> b.text
    [] b.type = "document" /\ b.source = "text" -> joinTexts(<<b.title, b.text>>)
    [] b.type = "document" /\ b.source = "content" -> joinTexts(<<b.title, joinText(InnerBlocks(b.inner))>>)
    [] b.type = "search_result" -> joinTexts(<<b.title, b.url, joinText(InnerBlocks(b.content))>>)
    [] OTHER -> NoText

systemText(c) ==
  CASE c.is = "text" -> c.text
    [] c.is = "blocks" /\ \A i \in DOMAIN c.blocks : c.blocks[i].fits -> joinText(c.blocks)
    [] OTHER -> NoText

HasImage(b) == b.type = "image" /\ b.source \in {"url", "base64"}
imageParts(bs) == SetTo(SelectSeq(bs, HasImage), LAMBDA b : ImagePart)

toolResult(c) ==
  CASE c.is = "none" -> [ok |-> TRUE, text |-> <<>>, images |-> <<>>]
    [] c.is = "text" -> [ok |-> TRUE, text |-> c.text, images |-> <<>>]
    [] c.is = "blocks" /\ decodeBlocks(c.blocks).ok ->
         [ok |-> TRUE, text |-> orEmpty(joinText(InnerBlocks(c))), images |-> imageParts(InnerBlocks(c))]
    [] OTHER -> [ok |-> FALSE, text |-> <<>>, images |-> <<>>]

convertAssistant(bs) ==
  LET uses == SelectSeq(bs, LAMBDA b : b.type = "tool_use")
      calls == SetTo(uses, LAMBDA b : [id |-> b.id, name |-> b.name, args |-> b.input])
      text == joinText(bs)
  IN  [chatMessage EXCEPT !.role = "assistant", !.calls = calls,
                          !.content = IF text = NoText /\ calls = <<>> THEN <<>> ELSE text]

\* The parts of the user's own turn one block adds.
UserParts(b) ==
  CASE b.type \in {"text", "document", "search_result"} ->
         IF isEmpty(blockText(b)) THEN <<>> ELSE <<TextPart(blockText(b))>>
    [] b.type = "image" -> imageParts(<<b>>)
    [] b.type = "tool_result" -> toolResult(b.content).images
    [] OTHER -> <<>>

convertUser(bs) ==
  LET results == SelectSeq(bs, LAMBDA b : b.type = "tool_result")
      user == [chatMessage EXCEPT !.role = "user"]
      Tool(b) == [chatMessage EXCEPT !.role = "tool", !.callID = b.id, !.content = toolResult(b.content).text]
      Own(parts) == CASE parts = <<>> -> <<>>
                      [] Len(parts) = 1 /\ ~parts[1].image -> <<[user EXCEPT !.content = parts[1].text]>>
                      [] OTHER -> <<[user EXCEPT !.parts = parts]>>
      OrEmpty(msgs) == IF msgs = <<>> THEN <<[user EXCEPT !.content = <<>>]>> ELSE msgs
  IN  IF \E b \in Range(results) : ~toolResult(b.content).ok THEN Failed
      ELSE Made(OrEmpty(SetTo(results, Tool) \o Own(FlattenSeq(SetTo(bs, UserParts)))))

convertMessage(m) ==
  IF m.role \notin {"user", "assistant", "system"} THEN Failed
  ELSE IF m.content.is = "text"
  THEN Made(<<[chatMessage EXCEPT !.role = m.role, !.content = m.content.text]>>)
  ELSE IF m.content.is # "blocks" \/ ~decodeBlocks(m.content.blocks).ok THEN Failed
  ELSE LET bs == InnerBlocks(m.content)
       IN  CASE m.role = "assistant" -> Made(<<convertAssistant(bs)>>)
             [] m.role = "system" ->
                  Made(<<[chatMessage EXCEPT !.role = "system", !.content = orEmpty(joinText(bs))]>>)
             [] OTHER -> convertUser(bs)

convertMessages(in) ==
  LET sys == systemText(in.system)
      first == IF isEmpty(sys) THEN <<>> ELSE <<[chatMessage EXCEPT !.role = "system", !.content = sys]>>
      After(rest) == IF rest.ok THEN Made(first \o rest.msgs) ELSE Failed
  IN  After(InTurn(SetTo(in.messages, convertMessage)))

(***************************************************************************)
(* Tools.  The types a client runs itself; every other one is hosted.      *)
(***************************************************************************)
anthropicClientTools == {"custom", "bash_", "text_editor_", "computer_", "memory_"}
openAIClientTools ==
  {"function", "custom", "namespace", "local_shell", "computer_use_preview", "shell", "apply_patch"}
choiceKinds == {"auto", "any", "none", "required", "tool", "function", "custom", "allowed_tools"}

keepsTool(type, client) == type = "" \/ type \in client
hostedChoice(type, client) == type # "" /\ type \notin choiceKinds /\ ~keepsTool(type, client)

convertTools(tools) ==
  SetTo(SelectSeq(tools, LAMBDA t : t.name # <<>> /\ keepsTool(t.type, anthropicClientTools)),
        LAMBDA t : t.name)

ChoiceWord == [auto |-> "auto", any |-> "required", none |-> "none"]
addToolChoice(c) ==
  CASE c = NoChoice -> NoChoice
    [] c # NoChoice /\ c.type \in DOMAIN ChoiceWord -> [type |-> ChoiceWord[c.type], name |-> <<>>]
    [] c # NoChoice /\ c.type = "tool" /\ c.name # <<>> -> [type |-> "function", name |-> c.name]
    [] OTHER -> NoChoice

\* What is left of the tools and the choice on the deployment's own key.
stripTools(req, client) ==
  LET kept == SelectSeq(req.tools, LAMBDA t : keepsTool(t.type, client))
      gone == {IF t.name # <<>> THEN t.name ELSE <<t.type>> :
                 t \in {u \in Range(req.tools) : ~keepsTool(u.type, client)}}
      c == req.choice
  IN  IF Len(kept) = Len(req.tools) THEN req
      ELSE [req EXCEPT !.tools = kept,
                       !.choice = IF c # NoChoice /\ (c.name \in gone \/ hostedChoice(c.type, client))
                                  THEN NoChoice ELSE c]

\* Both names, joined; a namespace's own underscores at the seam go.
chatToolName(ns, name) == IF ns = <<>> THEN name ELSE ns \o name

\* The tools as they are declared one after the other, each with its namespace.
Declared(tools) ==
  FlattenSeq(SetTo(tools, LAMBDA t :
    IF t.type # "namespace" THEN <<[ns |-> <<>>, tool |-> t]>>
    ELSE SetTo(t.tools, LAMBDA u : [ns |-> t.name, tool |-> u])))

\* A name is taken by the first tool that is a function or a custom tool.
responsesTools(tools) ==
  LET ds == Declared(tools)
      Name(i) == chatToolName(ds[i].ns, ds[i].tool.name)
      Usable(i) == ds[i].tool.name # <<>> /\ ds[i].tool.type \in {"function", "custom"}
      kept == {i \in DOMAIN ds : Usable(i) /\ \A j \in 1..(i - 1) : ~(Usable(j) /\ Name(j) = Name(i))}
      as == {i \in kept : ds[i].ns # <<>> \/ ds[i].tool.type = "custom"}
      At(n) == CHOOSE i \in as : Name(i) = n
  IN  [tools |-> {Name(i) : i \in kept}, count |-> Cardinality(kept),
       names |-> [n \in {Name(i) : i \in as} |->
                    [ns |-> ds[At(n)].ns, name |-> ds[At(n)].tool.name,
                     custom |-> ds[At(n)].tool.type = "custom"]]]

responsesToolChoice(c) ==
  CASE c = NoChoice -> NoChoice
    [] c # NoChoice /\ c.type \in {"auto", "none", "required"} /\ c.name = <<>> -> c
    [] c # NoChoice /\ c.type \in {"function", "custom"} /\ c.name # <<>> ->
         [type |-> "function", name |-> chatToolName(c.ns, c.name), ns |-> <<>>]
    [] OTHER -> NoChoice

(***************************************************************************)
(* A Responses request.                                                    *)
(***************************************************************************)
responsesItem ==
  [type |-> "message", fits |-> TRUE, spelled |-> TRUE, role |-> "user", content |-> NoContent, callID |-> "",
   name |-> <<>>, ns |-> <<>>, args |-> <<"{", "}">>, output |-> NoContent]
responsesPart ==
  [type |-> "", fits |-> TRUE, spelled |-> TRUE, text |-> <<>>, title |-> <<>>, held |-> TRUE,
   stdout |-> <<>>, stderr |-> <<>>]

Calls == {"function_call", "custom_tool_call", "local_shell_call"}
isToolOutput(type) == type \in {"function_call_output", "custom_tool_call_output", "local_shell_call_output"}
translatedItem(type) == type \in {"", "message"} \cup Calls \/ isToolOutput(type)

TextTypes == {"input_text", "output_text", "text", "refusal"}
\* A file or an image that is not sent inline lives at OpenAI.
responsesContent(c) ==
  LET fileText(p) == joinTexts(<<p.title, p.text>>)
      Part(p) == CASE p.type \in TextTypes -> <<TextPart(p.text)>>
                   [] p.type = "input_file" /\ p.held -> IF fileText(p) = NoText THEN <<>> ELSE <<TextPart(fileText(p))>>
                   [] p.type = "input_image" /\ p.held -> <<ImagePart>>
                   [] OTHER -> <<>>
      Of(parts) ==
        [ok |-> TRUE,
         text |-> orEmpty(joinTexts(SetTo(SelectSeq(parts, LAMBDA p : ~p.image), LAMBDA p : p.text))),
         parts |-> IF \E i \in DOMAIN parts : parts[i].image THEN parts ELSE <<>>]
  IN  CASE c.is = "none" -> [ok |-> TRUE, text |-> <<>>, parts |-> <<>>]
        [] c.is = "text" -> [ok |-> TRUE, text |-> c.text, parts |-> <<>>]
        [] c.is = "blocks" /\ \A i \in DOMAIN c.blocks : c.blocks[i].fits -> Of(FlattenSeq(SetTo(c.blocks, Part)))
        [] OTHER -> [ok |-> FALSE, text |-> <<>>, parts |-> <<>>]

addMessageItem(msgs, it) ==
  LET role == IF it.role = "developer" THEN "system" ELSE it.role
      With(c) ==
        IF role \notin {"user", "assistant", "system"} \/ ~c.ok THEN Failed
        ELSE Made(Append(msgs, [chatMessage EXCEPT !.role = role, !.content = c.text,
                                                   !.parts = IF role = "user" THEN c.parts ELSE <<>>]))
  IN  With(responsesContent(it.content))

\* Calls of one turn go on one assistant message.
addCall(msgs, it) ==
  LET call == [id |-> it.callID, args |-> it.args,
               name |-> IF it.type = "local_shell_call" THEN <<"local_shell">> ELSE chatToolName(it.ns, it.name)]
      n == Len(msgs)
  IN  IF n > 0 /\ msgs[n].role = "assistant"
      THEN [msgs EXCEPT ![n].calls = Append(@, call),
                        ![n].content = IF isEmpty(@) THEN NoText ELSE @]
      ELSE Append(msgs, [chatMessage EXCEPT !.role = "assistant", !.calls = <<call>>])

\* The messages after an item, and the images a tool's output held.
addItem(msgs, it) ==
  LET Output(c) ==
        (IF c.ok THEN Made(Append(msgs, [chatMessage EXCEPT !.role = "tool", !.callID = it.callID, !.content = c.text]))
         ELSE Failed)
        @@ [images |-> SelectSeq(c.parts, LAMBDA p : p.image)]
  IN  CASE it.type \in {"", "message"} -> addMessageItem(msgs, it) @@ [images |-> <<>>]
        [] it.type \in Calls -> Made(addCall(msgs, it)) @@ [images |-> <<>>]
        [] isToolOutput(it.type) -> Output(responsesContent(it.output))
        [] OTHER -> Made(msgs) @@ [images |-> <<>>]

WithImages(msgs, images) ==
  IF images = <<>> THEN msgs ELSE Append(msgs, [chatMessage EXCEPT !.role = "user", !.parts = images])

\* The same with each output's images right after it.
AddImagesAtOnce(acc, it) ==
  LET Added(r) == IF ~it.fits \/ ~r.ok THEN [acc EXCEPT !.ok = FALSE]
                  ELSE [ok |-> TRUE, msgs |-> WithImages(r.msgs, r.images), images |-> <<>>]
  IN  IF ~acc.ok \/ (~it.fits /\ ~translatedItem(it.type)) THEN acc ELSE Added(addItem(acc.msgs, it))

\* Images a tool returned follow the tool results as a user turn.
AddItemTo(acc, it) ==
  LET flush == ~isToolOutput(it.type)
      Added(r) == IF ~it.fits \/ ~r.ok THEN [acc EXCEPT !.ok = FALSE]
                  ELSE [ok |-> TRUE, msgs |-> r.msgs, images |-> (IF flush THEN <<>> ELSE acc.images) \o r.images]
  IN  IF ~acc.ok \/ (~it.fits /\ ~translatedItem(it.type)) THEN acc
      ELSE Added(addItem(IF flush THEN WithImages(acc.msgs, acc.images) ELSE acc.msgs, it))

responsesMessages(in) ==
  LET first == IF isEmpty(in.instructions) THEN <<>>
               ELSE <<[chatMessage EXCEPT !.role = "system", !.content = in.instructions]>>
      Whole(all) == IF all.ok THEN Made(WithImages(all.msgs, all.images)) ELSE Failed
  IN  CASE in.input.is = "text" -> Made(Append(first, [chatMessage EXCEPT !.role = "user", !.content = in.input.text]))
        [] in.input.is = "blocks" ->
             Whole(FoldLeft(AddItemTo, [ok |-> TRUE, msgs |-> first, images |-> <<>>], in.input.blocks))
        [] OTHER -> Failed

(***************************************************************************)
(* The settings both APIs share with a chat request, and the ones that     *)
(* have another name or none there.                                        *)
(***************************************************************************)
Settings ==
  [messages |-> [max_tokens |-> "max_tokens", stream |-> "stream", temperature |-> "temperature",
                 top_p |-> "top_p", top_k |-> "top_k", stop_sequences |-> "stop",
                 disable_parallel_tool_use |-> "parallel_tool_calls"],
   responses |-> [max_output_tokens |-> "max_tokens", stream |-> "stream", temperature |-> "temperature",
                  top_p |-> "top_p", parallel_tool_calls |-> "parallel_tool_calls",
                  text_format |-> "response_format"]]
addSampling(api, set) == {Settings[api][f] : f \in set \cap DOMAIN Settings[api]}

\* decodeBody: the chat request, or why there is none.
decodeMessages(req) ==
  convertMessages(req) @@ [tools |-> Range(convertTools(req.tools)), choice |-> addToolChoice(req.choice),
                           settings |-> addSampling("messages", req.settings), names |-> <<>>]
decodeResponses(req) ==
  LET With(t) ==
        [tools |-> t.tools, choice |-> IF t.count > 0 THEN responsesToolChoice(req.choice) ELSE NoChoice,
         settings |-> addSampling("responses", req.settings) \
                        (IF t.count > 0 THEN {} ELSE {"parallel_tool_calls"}),
         names |-> t.names]
  IN  responsesMessages(req) @@ With(responsesTools(req.tools))
decodeBody(req) ==
  CASE req.api = "messages" -> IF req.messages = <<>> THEN Failed ELSE decodeMessages(req)
    [] req.api = "responses" -> decodeResponses(req)

(***************************************************************************)
(* The text the filters read: the words, and whether every object on the   *)
(* way is one the gateway can read.                                        *)
(***************************************************************************)
Words(t) == IF t = NoText THEN {} ELSE Range(t)
Nothing == [ok |-> TRUE, words |-> {}]
Seen(t) == [ok |-> TRUE, words |-> Words(t)]
Unread == [ok |-> FALSE, words |-> {}]
All(docs) == [ok |-> \A i \in DOMAIN docs : docs[i].ok, words |-> UNION {docs[i].words : i \in DOMAIN docs}]

\* objects: a misspelled key is refused.
checkKeys(obj, doc) == IF obj.spelled THEN doc ELSE Unread
InBlocks(c, F(_)) == IF c.is = "blocks" THEN All(SetTo(c.blocks, F)) ELSE Nothing
InText(c) == IF c.is = "text" THEN Seen(c.text) ELSE Nothing

RECURSIVE addTextBlock(_)
addTextBlock(b) ==
  checkKeys(b,
    CASE b.type = "text" -> Seen(b.text)
      [] b.type = "search_result" -> All(<<Seen(b.title), Seen(b.url), InBlocks(b.content, addTextBlock)>>)
      [] b.type = "document" ->
           All(<<Seen(b.title), Seen(b.context),
                 IF b.source = "text" THEN Seen(b.text)
                 ELSE IF b.source = "content" THEN All(<<InText(b.inner), InBlocks(b.inner, addTextBlock)>>)
                 ELSE Nothing>>)
      [] OTHER -> Nothing)

anthropicText(req) ==
  LET Block(b) == All(<<addTextBlock(b),
                        IF b.type = "tool_result"
                        THEN All(<<InText(b.content), InBlocks(b.content, addTextBlock)>>) ELSE Nothing>>)
      Turn(m) == All(<<InText(m.content), InBlocks(m.content, Block)>>)
  IN  All(<<InText(req.system), InBlocks(req.system, addTextBlock), All(SetTo(req.messages, Turn))>>)

Outputs == {"function_call_output", "custom_tool_call_output", "local_shell_call_output", "shell_call_output",
            "apply_patch_call_output"}
addFileText(p) == All(<<Seen(p.title), IF p.held THEN Seen(p.text) ELSE Nothing>>)
responsesText(req) ==
  LET Typed(p) == CASE p.type \in TextTypes -> Seen(p.text)
                    [] p.type = "input_file" -> addFileText(p)
                    [] OTHER -> Nothing
      Shell(it, p) == IF it.type = "shell_call_output" THEN All(<<Seen(p.stdout), Seen(p.stderr)>>) ELSE Nothing
      Field(it) == IF it.type \in Outputs THEN it.output ELSE it.content
      Item(it) ==
        LET Part(p) == checkKeys(p, All(<<Typed(p), Shell(it, p)>>))
        IN  checkKeys(it, All(<<InText(Field(it)), InBlocks(Field(it), Part)>>))
  IN  All(<<Seen(req.instructions), InText(req.input), InBlocks(req.input, Item)>>)

\* A chat request: a part whose text cannot be read is refused.
MediaParts == {"image_url", "input_image", "image_embeds", "input_audio", "audio_url", "video_url", "file"}
addChatPart(p) ==
  IF ~p.fits \/ ~p.spelled THEN Unread
  ELSE CASE p.type \in TextTypes \cup {"thinking"} \/ (p.type = "" /\ p.text # <<>>) -> Seen(p.text)
         [] p.type \in {"search_result", "document"} -> addTextBlock(p)
         [] p.type \in MediaParts -> Nothing
         [] OTHER -> Unread
extractChat(req) ==
  LET Content(c) == CASE c.is = "none" -> Nothing
                      [] c.is = "text" -> Seen(c.text)
                      [] c.is = "blocks" -> All(SetTo(c.blocks, addChatPart))
                      [] OTHER -> Unread
  IN  All(SetTo(req.messages, LAMBDA m : All(<<Content(m.content), Seen(m.reasoning)>>)))

\* A rerank's query and documents, where text beside 'text' is refused.
extractRerank(req) ==
  LET Document(d) == IF ~d.spelled \/ ~d.fits \/ d.title # <<>> THEN Unread ELSE Seen(d.text)
  IN  All(<<Seen(req.query), All(SetTo(req.documents, Document))>>)

\* A completion's prompt is one text.
extractScalar(req) == Seen(req.prompt)

textOf(req) ==
  CASE req.api = "messages" -> anthropicText(req)
    [] req.api = "responses" -> responsesText(req)
    [] req.api = "chat" -> extractChat(req)
    [] req.api = "rerank" -> extractRerank(req)
    [] req.api = "completion" -> extractScalar(req)

(***************************************************************************)
(* A request for the provider itself.                                      *)
(***************************************************************************)
storedConversation(req) == req.api = "responses" /\ req.stored
needsNative(req) == storedConversation(req)
\* The Messages API also asks the provider to call MCP servers.
stripHostedTools(req) == [stripTools(req, anthropicClientTools) EXCEPT !.mcpServers = {}]
\* Nothing is kept at the provider, nor answered later, on the shared key.
onKey(req) ==
  CASE req.api = "messages" -> [ok |-> TRUE, req |-> stripHostedTools(req)]
    [] req.api = "responses" ->
         [ok |-> ~req.background /\ ~req.stored,
          req |-> [stripTools(req, openAIClientTools) EXCEPT !.store = FALSE]]

\* The system prompt goes ahead of the client's own.
addSystem(req, prompt) ==
  CASE req.api = "messages" ->
         LET own == CASE req.system.is = "text" -> <<[anthropicBlock EXCEPT !.type = "text", !.text = req.system.text]>>
                      [] req.system.is = "blocks" -> req.system.blocks
                      [] OTHER -> <<>>
         IN  [req EXCEPT !.system = Blocks(<<[anthropicBlock EXCEPT !.type = "text", !.text = prompt]>> \o own)]
    [] req.api = "responses" -> [req EXCEPT !.instructions = prompt \o orEmpty(@)]

(***************************************************************************)
(* The first user message, which names the session of a task.              *)
(***************************************************************************)
ContentOf(m) == [content |-> m.content, parts |-> m.parts]
openingOfChat(msgs) ==
  LET users == SelectSeq(msgs, LAMBDA m : m.role = "user")
  IN  IF users = <<>> THEN NoMessages ELSE ContentOf(users[1])
openingIn(rs) == openingOfChat(FlattenSeq(SetTo(rs, LAMBDA r : IF r.ok THEN r.msgs ELSE <<>>)))
opening(req) ==
  CASE req.api = "messages" -> openingIn(SetTo(req.messages, convertMessage))
    [] req.api = "responses" /\ req.input.is = "text" -> [content |-> req.input.text, parts |-> <<>>]
    [] req.api = "responses" /\ req.input.is = "blocks" ->
         openingIn(SetTo(req.input.blocks, LAMBDA it : IF it.fits THEN addItem(<<>>, it) ELSE Failed))
    [] OTHER -> NoMessages

=============================================================================
