------------------------------ MODULE MCStreams ------------------------------
(* One exchange at a time: a chat stream, or a request to an MCP server.     *)
EXTENDS Streams, MCPGateway

(* Upstream lines. *)
D(c) == <<[is |-> "data", chunk |-> c], [is |-> "blank"]>>
Halves(c) == <<[is |-> "part", chunk |-> c], [is |-> "part", chunk |-> c], [is |-> "blank"]>>
Done == <<[is |-> "done"], [is |-> "blank"]>>
Comment == [is |-> "other"]
Huge == [is |-> "huge"]

Text(t) == [oaiStreamChunk EXCEPT !.text = t]
Thought == [oaiStreamChunk EXCEPT !.reasoning = <<"hm">>]
Ends(c, why) == [c EXCEPT !.finish = why]
Frag(i, id, name, args) == [index |-> i, id |-> id, name |-> name, args |-> args]
CallOf(frags) == [oaiStreamChunk EXCEPT !.calls = frags]
U == UsageOf(3, 2, 1, 0)
Usage == [oaiStreamChunk EXCEPT !.choice = FALSE, !.usage = U]
Written1(t) == [Text(t) EXCEPT !.delta = FALSE]
Wrong == [oaiStreamChunk EXCEPT !.choice = FALSE, !.failed = TRUE]

N(type) == [nativeEvent EXCEPT !.type = type]
Named1(type) == [N(type) EXCEPT !.model = TRUE]
With1(ev, u) == [ev EXCEPT !.usage = u]

(* Requests. *)
T(t) == [anthropicBlock EXCEPT !.type = "text", !.text = t]
Img == [anthropicBlock EXCEPT !.type = "image", !.source = "url"]
Use(id) == [anthropicBlock EXCEPT !.type = "tool_use", !.id = id, !.name = <<"f">>]
Res(id, c) == [anthropicBlock EXCEPT !.type = "tool_result", !.id = id, !.content = c]
Hit == [anthropicBlock EXCEPT !.type = "search_result", !.title = <<"t">>, !.url = <<"u">>, !.content = Blocks(<<T(<<"s">>)>>)]
Doc(c) == [anthropicBlock EXCEPT !.type = "document", !.source = "content", !.title = <<"t">>, !.inner = c]
Turn(role, c) == [role |-> role, content |-> c]
Tool(type, name) == [type |-> type, name |-> name, tools |-> <<>>]
Messages(ms) == [api |-> "messages", system |-> Str(<<"sys">>), messages |-> ms, tools |-> <<>>, choice |-> NoChoice,
                 settings |-> {"max_tokens", "stop_sequences", "thinking"}, mcpServers |-> {}]
Hello == Messages(<<Turn("user", Str(<<"hi">>))>>)
Loop(results) == Messages(<<Turn("user", Str(<<"go">>)), Turn("assistant", Blocks(<<T(<<"ok">>), Use("c1"), Use("c2")>>)),
                            Turn("user", Blocks(results))>>)

I(role, c) == [responsesItem EXCEPT !.role = role, !.content = c]
FC(id) == [responsesItem EXCEPT !.type = "function_call", !.callID = id, !.name = <<"f">>]
Out(id, c) == [responsesItem EXCEPT !.type = "function_call_output", !.callID = id, !.output = c]
P(type, t) == [responsesPart EXCEPT !.type = type, !.text = t]
Responses(items) == [api |-> "responses", instructions |-> <<"sys">>, input |-> Blocks(items), tools |-> <<>>,
                     choice |-> NoChoice, settings |-> {"max_output_tokens", "parallel_tool_calls"}, stored |-> FALSE,
                     background |-> FALSE, store |-> TRUE]
Ask == [Responses(<<>>) EXCEPT !.input = Str(<<"hi">>)]
Edit == [Ask EXCEPT !.tools = <<Tool("custom", <<"edit">>),
                                [Tool("namespace", <<"ns">>) EXCEPT !.tools = <<Tool("function", <<"f">>)>>],
                                Tool("function", <<"ns", "f">>), Tool("web_search", <<"web">>)>>,
                    !.choice = [type |-> "function", name |-> <<"f">>, ns |-> <<"ns">>]]
Chat(parts) == [api |-> "chat", messages |-> <<[role |-> "user", content |-> Blocks(parts), reasoning |-> <<>>]>>]

Complete == [api |-> "completion", prompt |-> <<"hi">>]

Case(kind, req, script) == [kind |-> kind, req |-> req, script |-> script, drop |-> TRUE, key |-> "own"]
Only(kind, req) == Case(kind, req, <<>>)
On(key, case) == [case EXCEPT !.key = key]

MCPrompt == <<"be kind">>

MCCases ==
  [\* translated into the Messages API
   text |-> Case("messages", Hello, D(Thought) \o D(Text(<<"a">>)) \o D(Ends(Text(<<"b">>), "length")) \o D(Usage) \o Done),
   tools |-> Case("messages", Hello,
     D(Text(<<"a">>)) \o D(CallOf(<<Frag(0, "c1", <<"f">>, <<"{">>)>>)) \o
     D(CallOf(<<Frag(0, "", <<>>, <<"x", "}">>), Frag(1, "c2", <<"g">>, <<"{">>)>>)) \o
     D(Ends(CallOf(<<Frag(1, "", <<>>, <<"q">>)>>), "tool_calls"))),
   woven |-> Case("messages", Hello,
     D(CallOf(<<Frag(0, "c1", <<"f">>, <<"{">>), Frag(1, "c2", <<"g">>, <<"{">>), Frag(0, "", <<>>, <<"}">>)>>)) \o
     D(Ends(Text(<<"a">>), "stop"))),
   merged |-> Case("messages", Hello,
     D(CallOf(<<Frag(NoIndex, "c1", <<"f">>, <<"{", "}">>)>>)) \o D(Ends(CallOf(<<Frag(NoIndex, "c2", <<"g">>, <<"{", "}">>)>>), "tool_calls"))),
   readOn |-> On("deployment", Case("messages", Hello, D(Text(<<"a">>)) \o D(Ends(Text(<<"b">>), "stop")) \o D(Usage))),
   fails |-> Case("messages", Hello, D(Torn) \o D(Text(<<"a">>)) \o D(Wrong) \o D(Ends(Text(<<"b">>), "stop"))),
   \* into the Responses API
   edits |-> Case("responses", Edit,
     D(CallOf(<<Frag(0, "c1", <<"edit">>, <<"{", "input", "key">>)>>)) \o
     D(CallOf(<<Frag(0, "", <<>>, <<":", "q", "x", "bs">>)>>)) \o D(CallOf(<<Frag(0, "", <<>>, <<"q", "hi">>)>>)) \o
     D(Ends(CallOf(<<Frag(0, "", <<>>, <<"lo", "y", "q", "}">>)>>), "tool_calls"))),
   spaces |-> Case("responses", Edit,
     D(Text(<<"a">>)) \o D(CallOf(<<Frag(NoIndex, "", <<"ns", "f">>, <<"{">>)>>)) \o
     D(Ends(CallOf(<<Frag(NoIndex, "", <<>>, <<"}">>), Frag(1, "c2", <<"edit">>, <<"{", "x", "}">>)>>), "content_filter")) \o
     D(Usage)),
   split |-> Case("responses", Ask, Halves(Text(<<"a">>)) \o D(Ends(oaiStreamChunk, "stop")) \o <<Comment>>),
   long |-> Case("responses", Ask, D(Ends(Text(<<"a">>), "stop")) \o <<Huge>>),
   \* passed on
   openai |-> Case("openai", Chat(<<P("text", <<"hi">>)>>),
     D(Text(<<"a">>)) \o <<Comment, Comment>> \o D(Ends(Text(<<"b">>), "stop")) \o D(Usage) \o Done),
   kept |-> [Case("openai", Chat(<<P("text", <<"hi">>)>>), D(Text(<<"a">>)) \o D(Wrong) \o D(Usage)) EXCEPT !.drop = FALSE],
   completes |-> Case("openai", Complete, D(Written1(<<"a">>)) \o D(Ends(Written1(<<"b">>), "stop"))),
   onChain |-> On("chain", Case("openai", Chat(<<P("text", <<"hi">>)>>), D(Text(<<"a">>)) \o D(Ends(Text(<<"b">>), "stop")) \o D(Usage))),
   anthropic |-> On("deployment", Case("anthropic",
     [Hello EXCEPT !.tools = <<Tool("web_", <<"web">>), Tool("custom", <<"f">>)>>,
                   !.choice = [type |-> "tool", name |-> <<"web">>], !.mcpServers = {"git"}],
     D(With1(Named1("message_start"), UsageOf(3, 1, 2, 1))) \o D(N("content_block_delta")) \o D(N("content_block_delta")) \o
     D(With1(N("message_delta"), UsageOf(0, 4, 0, 0))) \o D(N("message_stop")))),
   partial |-> Case("anthropic", Hello,
     D(With1(Named1("message_start"), UsageOf(3, 1, 2, 1))) \o D(N("content_block_delta")) \o D(N("content_block_delta")) \o
     D(N("message_stop"))),
   native |-> On("deployment", Case("native", [Edit EXCEPT !.choice = [type |-> "web_search", name |-> <<>>, ns |-> <<>>]],
     D(Named1("created")) \o D(N("delta")) \o D(With1(Named1("completed"), U)))),
   broken |-> Case("native", Ask, D(N("delta")) \o Halves(N("delta")) \o D(With1(N("failed"), U))),
   refusal |-> Case("anthropic", Hello, D(N("content_block_delta")) \o D(N("error"))),
   bulky |-> Case("native", Ask, <<Comment, Comment, Comment>> \o D(N("delta"))),
   \* requests
   results |-> Only("messages", Loop(<<T(<<"see">>), Res("c1", Str(<<"r">>)),
                      Res("c2", Blocks(<<T(<<"w">>), Img, Hit>>)), Doc(Blocks(<<T(<<"d">>)>>))>>)),
   bare |-> Only("messages", Loop(<<Res("c1", NoContent), Res("c2", OddContent)>>)),
   spelled |-> Only("messages", Messages(<<Turn("user", Blocks(<<[T(<<"hidden">>) EXCEPT !.spelled = FALSE]>>))>>)),
   unfit |-> Only("messages", Messages(<<Turn("user", Blocks(<<[Hit EXCEPT !.fits = FALSE], T(<<"x">>)>>))>>)),
   none |-> Only("messages", Messages(<<>>)),
   chosen |-> Only("messages", [Hello EXCEPT !.system = Blocks(<<T(<<"sys">>), Hit>>),
                     !.tools = <<Tool("custom", <<"f">>), Tool("web_", <<"web">>)>>, !.choice = [type |-> "any", name |-> <<>>]]),
   outputs |-> Only("responses", Responses(<<I("developer", Str(<<"dev">>)), I("user", Blocks(<<P("input_text", <<"q">>), P("input_file", <<"f">>)>>)),
                      FC("c1"), FC("c2"), Out("c1", Blocks(<<P("input_text", <<"r">>), P("input_image", <<>>)>>)),
                      Out("c2", Str(<<"s">>)), I("assistant", Str(<<"ok">>)), FC("c3"), Out("c3", NoContent)>>)),
   items |-> Only("responses", Responses(<<[I("user", NoContent) EXCEPT !.type = "reasoning", !.fits = FALSE],
                      [I("user", NoContent) EXCEPT !.type = "reasoning"], I("user", Blocks(<<P("input_image", <<>>), P("input_text", <<"x">>)>>))>>)),
   odd |-> Only("responses", Responses(<<I("robot", Str(<<"x">>))>>)),
   badpart |-> Only("responses", Responses(<<I("user", Blocks(<<[P("input_text", <<"hidden">>) EXCEPT !.spelled = FALSE]>>))>>)),
   stored |-> Only("responses", [Ask EXCEPT !.stored = TRUE]),
   later |-> On("deployment", Only("native", [Ask EXCEPT !.background = TRUE])),
   keyed |-> On("deployment", Only("native", [Ask EXCEPT !.tools = <<Tool("web_search", <<>>), Tool("function", <<"f">>)>>,
                      !.choice = [type |-> "tool", name |-> <<"web_search">>, ns |-> <<>>]])),
   shell |-> Only("responses", Responses(<<[Out("c1", Blocks(<<[P("", <<>>) EXCEPT !.stdout = <<"o">>, !.stderr = <<"e">>]>>))
                                               EXCEPT !.type = "shell_call_output"]>>)),
   media |-> Only("openai", Chat(<<P("image_url", <<>>), Hit>>)),
   unread |-> Only("openai", Chat(<<P("mystery", <<"x">>)>>)),
   ranks |-> Only("openai", [api |-> "rerank", query |-> <<"q">>, documents |-> <<P("text", <<"d">>)>>])]

(* MCP. *)
M(method, id) == [rpcMessage EXCEPT !.method = method, !.id = id]
TC(tool, args) == [M("tools/call", 1) EXCEPT !.tool = tool, !.args = args]
Sends(tools, msgs) ==
  [how |-> "post", batch |-> FALSE, msgs |-> msgs, tools |-> tools, server |-> "there", subscription |-> FALSE,
   filters |-> "none", hMethod |-> "", hName |-> "", hReads |-> TRUE, params |-> <<>>]
Some == {<<"srv", "read">>, <<"else">>}
Params == [p |-> [reads |-> TRUE, value |-> "secret"], q |-> [reads |-> TRUE, value |-> "other"],
           b |-> [reads |-> FALSE, value |-> "secret"]]

MCPosts ==
  [call |-> [Sends(Some, <<TC("read", <<"secret", "x", "secret">>)>>) EXCEPT !.filters = "billed", !.params = Params,
                                                                          !.hMethod = "tools/call", !.hName = "read"],
   plain |-> Sends(NoList, <<TC("write", <<"x">>)>>),
   free |-> [Sends(NoList, <<TC("write", <<"x">>)>>) EXCEPT !.filters = "free"],
   denied |-> Sends(Some, <<TC("write", <<"x">>)>>),
   unnamed |-> Sends(Some, <<[TC("", <<>>) EXCEPT !.readable = FALSE]>>),
   notice |-> Sends(NoList, <<[TC("read", <<>>) EXCEPT !.id = NoId]>>),
   mismatch |-> [Sends(NoList, <<TC("read", <<>>)>>) EXCEPT !.hName = "write"],
   prompts |-> Sends(Some, <<M("prompts/get", 1)>>),
   list |-> Sends(Some, <<M("tools/list", 1)>>),
   lists |-> Sends(NoList, <<M("tools/list", 1)>>),
   batch |-> [Sends(Some, <<M("initialize", 1), M("tools/list", 2), M("ping", NoId)>>) EXCEPT !.batch = TRUE],
   batched |-> [Sends(Some, <<M("ping", 2), TC("read", <<>>)>>) EXCEPT !.batch = TRUE],
   resumed |-> [Sends(Some, <<>>) EXCEPT !.how = "get"],
   elsewhere |-> Sends({<<"else">>}, <<M("tools/list", 1)>>),
   locked |-> [Sends(NoList, <<M("ping", 1)>>) EXCEPT !.server = "locked"],
   plan |-> [Sends(NoList, <<M("ping", 1)>>) EXCEPT !.subscription = TRUE]]

Says(id) == [Result EXCEPT !.id = id]
Offers == [Says(1) EXCEPT !.tools = {"read", "write"}, !.scope = "public"]
MCPushes ==
  {<<Says(1)>>, <<[Says(1) EXCEPT !.error = TRUE]>>, <<Offers>>, <<[Offers EXCEPT !.id = 2], [Says(1) EXCEPT !.capabilities = {"tools", "prompts"}]>>,
   <<[Result EXCEPT !.method = "notifications/progress"]>>}

(* One of the two is under way. *)
MCInit == \/ Init /\ xpc = "off" /\ MCPIdle(MCPosts.call)
          \/ MCPInit /\ pc = "off" /\ ask = MCCases.text /\ Idle
MCNext == \/ Next /\ UNCHANGED mcpVars
          \/ MCPNext /\ UNCHANGED vars
MCSpec == MCInit /\ [][MCNext]_<<vars, mcpVars>>

=============================================================================
