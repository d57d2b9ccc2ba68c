----------------------------- MODULE MCAlgorithms -----------------------------
(***************************************************************************)
(* The pure parts of the program over small inputs: every state but the    *)
(* first is one input, and the invariants compare what the code makes of   *)
(* it with what it is meant to be.                                         *)
(***************************************************************************)
EXTENDS TraceBuild, RequestParser, StructuredQuery, RoutePolicy, ConfigRules

VARIABLE input

Some(what) == input.what = what
UpTo(S, n) == UNION {[1 .. k -> S] : k \in 0 .. n}
Option(S) == {{}} \cup {{x} : x \in S}

-----------------------------------------------------------------------------
(* What becomes of a capture.                                              *)
Event0 == [id |-> 1, run_plugins |-> TRUE, status |-> {"ok"}, plugin_metadata |-> {}, tags |-> << >>,
    session_key |-> {}, user_id |-> {}, user_name |-> {}, messages |-> << >>,
    upstream |-> [origin |-> "u1"], credential_scope_hash |-> {}, api_key_hash |-> {},
    plugin_request_headers |-> << >>, response_chunk_timings |-> << >>, ttft_ms |-> {},
    response_body_truncated |-> FALSE, content_type |-> {}, error |-> {}, model |-> {},
    request_kind |-> {}]
Parsed0 == [session_key_hint |-> {<<"h">>}, messages |-> << >>, tool_calls_truncated |-> FALSE,
    first_output_offset |-> {}, stream_complete |-> {}, request_kind |-> "chat", error |-> {},
    model |-> {}, usage |-> {}, usage_complete |-> FALSE]
SomeTags == {<< >>, <<"a">>, <<"b">>, <<"a", "w">>, <<"a", NUL>>, <<"M">>, <<"E">>}
SomeNames == Option({<< >>, <<"a">>, <<"w", "a">>})
SomeMessages == [role : {<<"r">>, <<"w">>}, content : {<<"a">>, <<"w">>, <<"w", "a">>, <<NUL>>},
                 content_truncated : {FALSE}]

(* Tags of the request and of a plugin, names of either, and a truncated   *)
(* message or none.                                                        *)
ChooseTags ==
    \E tags \in UpTo(SomeTags, 2), more \in UpTo(SomeTags, 2), given \in SomeNames,
       named \in Option({<<"a">>}), long, calls \in BOOLEAN :
        input' = [what |-> "trace",
            event |-> [Event0 EXCEPT !.tags = tags, !.user_id = given],
            parsed |-> [Parsed0 EXCEPT !.tool_calls_truncated = calls, !.messages =
                IF long THEN <<[role |-> <<"r">>, content |-> <<"w", "a">>, content_truncated |-> FALSE]>>
                ELSE << >>],
            hooks |-> <<[NoEffects EXCEPT !.tags = more, !.user_id = named]>>]
ChooseMessages ==
    \E sent \in UpTo(SomeMessages, 2), found \in UpTo(SomeMessages, 2), cut \in BOOLEAN :
        input' = [what |-> "trace",
            event |-> [Event0 EXCEPT !.messages =
                [i \in DOMAIN sent |-> [sent[i] EXCEPT !.content_truncated = cut]]],
            parsed |-> [Parsed0 EXCEPT !.messages = found],
            hooks |-> << >>]

GivenTags == {<< >>} \cup ToSet(input.event.tags) \cup
             UNION {ToSet(input.hooks[i].tags) : i \in DOMAIN input.hooks}
GivenName == FoldLeft(LAMBDA acc, h : First(acc, h.user_id), input.event.user_id, input.hooks)

(* Whatever limits a capture runs into (trace.rs, bound_trace_tags,        *)
(* bound_session_messages, bound_optional_text), what is stored respects   *)
(* them, and a trace without a mark of loss is whole: all its messages,    *)
(* tags and names are as they were given.  A mark is not set for nothing.  *)
UnmarkedTraceIsWhole ==
    Some("trace") =>
        LET t == BuildTrace(input.event, input.parsed, input.hooks)
            messages == input.event.messages \o input.parsed.messages
            all_messages == t.messages = messages /\ \A i \in DOMAIN messages : ~messages[i].content_truncated
            all_tags == GivenTags \ {<< >>} \subseteq ToSet(t.tags)
            all_names == t.user_id = GivenName \ {<< >>}
            own_tags == input.parsed.tool_calls_truncated => TOOL_CALLS_TRUNCATED \in ToSet(t.tags)
        IN  /\ Len(t.tags) <= MaxTags /\ Len(t.messages) <= MaxMessages
            /\ \A x \in ToSet(t.tags) : x # << >> /\ Bytes(x) <= MaxTagBytes /\ ~HasNul(x)
            /\ \A m \in ToSet(t.messages) : ~HasNul(m.content) /\ Bytes(m.content) <= MaxContentBytes
            /\ MESSAGES_TRUNCATED \in ToSet(t.tags) \/ all_messages
            /\ ENRICHMENT_TRUNCATED \in ToSet(t.tags) \/ (all_tags /\ all_names /\ own_tags)
            /\ MESSAGES_TRUNCATED \in ToSet(t.tags) \ GivenTags => ~all_messages
            /\ ENRICHMENT_TRUNCATED \in ToSet(t.tags) \ GivenTags => ~(all_tags /\ all_names /\ own_tags)

-----------------------------------------------------------------------------
(* Two requests.                                                           *)
Key(k) == [utf8 |-> TRUE, scheme |-> {"bearer"}, secret |-> k, length |-> 8]
Binary(k) == [Key(k) EXCEPT !.utf8 = FALSE]
SomeHeaders == [name : {<<"authorization">>, <<"x-", "api-key">>}, value : {Key("k1"), Key("k2"), Binary("k1")}]
Places == {"session_id", "conversation_id", "conversation", "conversation.id", "number"}
SomeRequests == [headers : UpTo(SomeHeaders, 2), origin : {"u1", "u2"}, hint : Option({<< >>, <<"h">>}),
                 place : Places]

(* The body of a request that names its conversation at some place, or has *)
(* something there that is no text.                                        *)
Value(hint) == [text |-> hint, id |-> {}]
BodyOf(r) ==
    CASE r.hint = {} -> NoRequest
      [] r.hint # {} /\ r.place = "number" -> [NoRequest EXCEPT !.session_id = {Value({})}]
      [] r.hint # {} /\ r.place = "conversation.id" ->
            [NoRequest EXCEPT !.conversation = {[text |-> {}, id |-> {Value(r.hint)}]}]
      [] OTHER -> [NoRequest EXCEPT ![r.place] = {Value(r.hint)}]
Named(r) == IF r.place = "number" THEN {} ELSE r.hint \ {<< >>}

ChoosePair ==
    \E a, b \in SomeRequests, store \in BOOLEAN :
        /\ Len(b.headers) <= 1 /\ b.place = "session_id"
        /\ a.place # "session_id" => a.hint # {}
        /\ input' = [what |-> "pair", a |-> a, b |-> b,
              cfg |-> [sensitive_headers |-> {}, store_header_hash |-> store,
                       upstream_header |-> <<"x-", "upstream">>]]

NoAnswer == [document |-> {NoDoc}, events |-> << >>]
SessionOf(r, id) ==
    LET redacted == RedactHeaders(r.headers, input.cfg)
    IN  BuildTrace([Event0 EXCEPT !.id = id, !.upstream.origin = r.origin,
                       !.credential_scope_hash = redacted.credential_scope_hash,
                       !.api_key_hash = redacted.first_secret_hash,
                       !.plugin_request_headers = HeadersToJson(r.headers)],
                   ParseTrace("chat/completions", {BodyOf(r)}, NoAnswer), << >>).session_key

(* The credential a request was made with: the first header that has one. *)
CredentialIn(r) ==
    LET At1(name) == SelectSeq(r.headers, LAMBDA h : h.name = name)
        found == At1(<<"authorization">>) \o At1(<<"x-", "api-key">>)
    IN  IF found = << >> THEN {} ELSE {Head(found).value}

(* Requests share a session exactly if they name the same conversation of  *)
(* the same credential at the same upstream (parsers.rs, parse_trace;      *)
(* trace.rs, scoped_session_key; redaction.rs,                             *)
(* credential_scope_from_headers), wherever they name it and whether or    *)
(* not header hashes are stored; a request that names none is on its own.  *)
SessionsDoNotMix ==
    Some("pair") =>
        LET same == /\ Named(input.a) = Named(input.b) /\ Named(input.a) # {}
                    /\ input.a.origin = input.b.origin
                    /\ CredentialIn(input.a) = CredentialIn(input.b)
        IN  (SessionOf(input.a, 1) = SessionOf(input.b, 2)) <=> same

-----------------------------------------------------------------------------
(* Headers of a request or a response, some of them secret, and those that *)
(* name an upstream; and what the configuration adds.                      *)
Internal == <<"x-", "internal">>
Upstream == <<"x-", "upstream">>
Secret == {<<"x", "token", "s">>, <<"my-", "api-key">>, <<"set-", "cookie">>} \cup ToSet(CredentialHeaders)
SomeUris == [parses : BOOLEAN, user : Option({"u"}), path : {"p"}, fragment : Option({"f"}),
             query : Option(UpTo([name : {"n"}, value : Option({"v"})], 1))]
SomeStored == [name : {<<"x", "token", "s">>, <<"my-", "api-key">>, <<"x-", "goog-", "api-key">>,
                       <<"set-", "cookie">>, Internal}, value : {Key("k1"), Key("k2"), Binary("k1")}]
    \cup {[name |-> Upstream, value |-> [utf8 |-> TRUE, scheme |-> {}, secret |-> u, length |-> 9]] : u \in SomeUris}
Candidates == [name : {Internal, <<"x-">>}, star : BOOLEAN, padded : BOOLEAN]
ChooseHeaders ==
    \E headers \in UpTo(SomeStored, 2), more \in Option(Candidates), store \in BOOLEAN :
        input' = [what |-> "headers", headers |-> headers,
                  cfg |-> [sensitive_headers |-> more, store_header_hash |-> store, upstream_header |-> Upstream]]

(* Whether a header is secret by its name or by what a candidate says but  *)
(* for the blanks around it, which the validation overlooks.               *)
NamedBy(candidate, name) ==
    IF candidate.star /\ candidate.name = <<"x-">> THEN name[1] = "x-" ELSE name = candidate.name
IsSecret(name) == name \in Secret \/ \E c \in input.cfg.sensitive_headers : NamedBy(c, name)
IsHidden(uri) ==
    /\ uri.user = {} /\ uri.fragment = {}
    /\ \A q \in uri.query : \A i \in DOMAIN q : q[i].value = {"REDACTED"}

(* Of a request the proxy does not refuse (proxy.rs, resolve_upstream),    *)
(* nothing secret is stored (redaction.rs): headers that contain a         *)
(* credential, by their names or by the configuration, show neither of the *)
(* values they may have been sent with, the URL of another upstream has no *)
(* user and no query values, and there is no digest of anything unless     *)
(* digests are to be stored.  Two cases are left out because the code does *)
(* store something then: a configured name with blanks around it, which    *)
(* validation accepts and which matches nothing, and a response that has   *)
(* the name of the override header on a URL with a user, which is digested *)
(* whatever the setting.                                                   *)
SecretsAreNotStored ==
    Some("headers") /\ OverrideAccepted(input.headers, Upstream)
                    /\ (\A c \in input.cfg.sensitive_headers : ~c.padded) =>
        LET redacted == RedactHeaders(input.headers, input.cfg)
        IN  /\ \A n \in DOMAIN redacted.json :
                  LET stored == redacted.json[n]
                  IN  /\ IsSecret(n) => stored.form = "redacted"
                      /\ n = Upstream => stored.form = "redacted" \/ IsHidden(stored.value)
                      /\ stored.form # "plain" /\ ~input.cfg.store_header_hash => stored.sha256 = {}
            /\ ~input.cfg.store_header_hash => redacted.first_secret_hash = {}

-----------------------------------------------------------------------------
(* Streamed answers: two pieces of text, up to three tool calls, each with *)
(* arguments in two pieces and as the provider writes them, blanks and     *)
(* all, and the usage the provider ends with, if any.                      *)
SomeAnswers == [text : UpTo({<< >>, <<"x">>}, 2),
                tools : UpTo({EmptyObject, <<"p", " ", "q">>, <<"p", " ", "q", "r">>}, 3),
                usage : {{}, {[input |-> {5}, output |-> {7}, cached |-> {2}, created |-> {}]}}]
ToolName(i) == <<<<"f", "g", "h">>[i]>>
Piece(name, arguments) == [name |-> name, arguments |-> arguments, input |-> {}]
Input(i, value) == [name |-> {ToolName(i)}, arguments |-> {}, input |-> {value}]
Halves(arguments) ==
    LET half == Len(arguments) \div 2
    IN  <<SubSeq(arguments, 1, half), SubSeq(arguments, half + 1, Len(arguments))>>
PerTool(answer, Of(_)) == FlattenSeq([i \in DOMAIN answer.tools |-> Of(i)])

(* Where the calls are: in a list of their own, or among other items. *)
KeyOf(kind, i) == IF kind = "chat" THEN <<0, i - 1>> ELSE <<<<2, 10, 11>>[i]>>
Whole(kind, answer, i) ==
    [key |-> KeyOf(kind, i), piece |-> IF kind = "anthropic" THEN Input(i, answer.tools[i])
                                       ELSE Piece({ToolName(i)}, {answer.tools[i]})]
(* What is streamed of a call: an empty input is not. *)
Argued(kind, answer, i) ==
    IF kind = "anthropic" /\ answer.tools[i] = EmptyObject THEN << >> ELSE answer.tools[i]

(* The answer as one document. *)
DocumentOf(kind, answer) ==
    LET text == FlattenSeq(answer.text)
        Pieces(type) == [i \in DOMAIN answer.text |-> Part({type}, {answer.text[i]})]
        doc == [NoDoc EXCEPT !.usage = answer.usage, !.status = {"completed"},
                             !.tools = [i \in DOMAIN answer.tools |-> Whole(kind, answer, i)]]
    IN  CASE kind = "chat" -> [doc EXCEPT !.choice = {IF text = << >> THEN NullValue ELSE Str(text)}]
          [] kind = "responses" ->
                [doc EXCEPT !.output = {<<Pieces("output_text"), <<Part({"refusal"}, {<<"no">>})>>>>}]
          [] kind = "anthropic" ->
                [doc EXCEPT !.content = {Pieces("text") \o <<Part({"tool_use"}, {})>>}]

(* What each protocol sends, in order.  The counts at the start of an      *)
(* Anthropic stream are provisional; a Responses stream repeats at its end *)
(* what it has sent.                                                       *)
AnthropicEvents(answer) ==
    LET Typ(t) == [Blank EXCEPT !.type = t]
        First0 == [NoUsage EXCEPT !.input = {5}, !.output = {1}, !.cached = {2}]
    IN  <<[Typ("message_start") EXCEPT !.inner = [NoDoc EXCEPT !.model = {"m"}, !.usage = {First0}]],
          Typ("text_block")>>
        \o [i \in DOMAIN answer.text |-> [Typ("content_block_delta") EXCEPT !.text = answer.text[i]]]
        \o PerTool(answer, LAMBDA i :
              <<[Typ("tool_block") EXCEPT !.tool = {[key |-> KeyOf("anthropic", i), piece |-> Input(i, EmptyObject)]}]>>
              \o [h \in 1 .. 2 |-> [Typ("content_block_delta") EXCEPT !.at = KeyOf("anthropic", i) \o <<0>>,
                    !.tool = {[key |-> KeyOf("anthropic", i), piece |->
                        Piece({}, {Halves(Argued("anthropic", answer, i))[h]})]}]])
        \o <<[Typ("message_delta") EXCEPT !.doc = [NoDoc EXCEPT !.usage =
                 {[NoUsage EXCEPT !.output = u.output] : u \in answer.usage}]],
             Typ("message_stop")>>

ChatEvents(answer) ==
    LET Chunk(content, tools) == [Blank EXCEPT !.choices =
            {<<[index |-> 0, content |-> content, refusal |-> FALSE, tools |-> tools]>>}]
    IN  [i \in DOMAIN answer.text |-> Chunk(answer.text[i], << >>)]
        \o PerTool(answer, LAMBDA i : [h \in 1 .. 2 |->
              Chunk(<< >>, <<[key |-> KeyOf("chat", i), piece |->
                  Piece(IF h = 1 THEN {ToolName(i)} ELSE {}, {Halves(answer.tools[i])[h]})]>>)])
        \o <<[Blank EXCEPT !.choices = {<< >>}, !.doc.usage = answer.usage],
             [Blank EXCEPT !.type = "[DONE]"]>>

ResponsesEvents(answer) ==
    LET Typ(t) == [Blank EXCEPT !.type = t]
        text == FlattenSeq(answer.text)
    IN  <<[Typ("response.created") EXCEPT !.inner.model = {"m"}]>>
        \o [i \in DOMAIN answer.text |->
              [Typ("response.output_text.delta") EXCEPT !.text = answer.text[i]]]
        \o <<[Typ("response.output_text.done") EXCEPT !.text = text]>>
        \o PerTool(answer, LAMBDA i :
              <<[Typ("response.output_item") EXCEPT !.tool =
                    {[key |-> KeyOf("responses", i), piece |-> Piece({ToolName(i)}, {<< >>})]}]>>
              \o [h \in 1 .. 2 |-> [Typ("response.function_call_arguments.delta") EXCEPT !.tool =
                    {[key |-> KeyOf("responses", i), piece |-> Piece({}, {Halves(answer.tools[i])[h]})]}]]
              \o <<[Typ("response.output_item") EXCEPT !.tool = {Whole("responses", answer, i)}]>>)
        \o <<[Typ("response.completed") EXCEPT !.inner =
                [DocumentOf("responses", answer) EXCEPT !.model = {"m"}]]>>

EventsOf(kind, answer) ==
    CASE kind = "anthropic" -> AnthropicEvents(answer) [] kind = "chat" -> ChatEvents(answer)
      [] kind = "responses" -> ResponsesEvents(answer)

ChooseStream ==
    \E kind \in {"anthropic", "chat", "responses"}, answer \in SomeAnswers :
        LET events == EventsOf(kind, answer)
        IN  \E n \in 0 .. Len(events), cut \in BOOLEAN :
                input' = [what |-> "stream", kind |-> kind, answer |-> answer, cut |-> cut,
                          events |-> SubSeq(events, 1, n), whole |-> n = Len(events)]

(* A request: a system prompt, and turns in one of the forms a protocol    *)
(* has for them.                                                           *)
SomeTurns == [role : {<<"user">>, <<"assistant">>}, form : {"plain", "parts", "call"}, text : {<<"x">>, <<"y", "z">>}]
ChooseRequest ==
    \E kind \in {"anthropic", "chat", "responses"}, system \in Option({<<"s">>}), turns \in UpTo(SomeTurns, 2) :
        input' = [what |-> "request", kind |-> kind, system |-> system, turns |-> turns]

PathOf(kind) == CASE kind = "chat" -> "chat/completions" [] kind = "responses" -> "responses"
                  [] kind = "anthropic" -> "messages"
ContentOf(turn) ==
    IF turn.form = "plain" THEN Str(turn.text)
    ELSE Parts([i \in DOMAIN turn.text |-> Part({"text"}, {<<turn.text[i]>>})])
TurnOf(kind, turn) ==
    CASE turn.form # "call" /\ kind # "responses" ->
            [role |-> {turn.role}, content |-> {ContentOf(turn)}, tool_calls |-> << >>]
      [] turn.form # "call" /\ kind = "responses" ->
            [json |-> "object", type |-> {}, role |-> {turn.role}, content |-> {ContentOf(turn)},
             text |-> {}, value |-> << >>]
      [] turn.form = "call" /\ kind = "chat" ->
            [role |-> {turn.role}, content |-> {NullValue}, tool_calls |-> <<turn.text>>]
      [] turn.form = "call" /\ kind = "anthropic" ->
            [role |-> {turn.role}, tool_calls |-> << >>,
             content |-> {Parts(<<Part({"text"}, {}), [type |-> {"tool_use"}, text |-> {}, content |-> {turn.text}]>>)}]
      [] turn.form = "call" /\ kind = "responses" ->
            [json |-> "object", type |-> {"function_call"}, role |-> {}, content |-> {}, text |-> {},
             value |-> turn.text]
RequestOf(kind, system, turns) ==
    LET prompt == {Str(t) : t \in system}
        items == {[i \in DOMAIN turns |-> TurnOf(kind, turns[i])]}
        r == [NoRequest EXCEPT !.max_tokens = TRUE, !.model = {<<"m">>}]
    IN  CASE kind = "responses" -> [r EXCEPT !.instructions = prompt, !.input = items]
          [] OTHER -> [r EXCEPT !.system = prompt, !.messages = items]

(* What was said in a turn. *)
Told(kind, turn) ==
    IF turn.form # "call" THEN Message(turn.role, turn.text)
    ELSE Message(IF kind = "anthropic" THEN turn.role ELSE <<"tool_call">>, ToJson(turn.text))

Price == [input |-> 2, output |-> 3, cache_read |-> {1}, cache_write |-> {}]
Elapsed(chunk) == 10 * chunk  \* two events in every chunk
Parsed(n) == ParseStream(SubSeq(input.events, 1, n), input.kind)
HasOutput(r) == r.text # << >> \/ \E c \in ToSet(r.tool_calls) : c.arguments # << >>

(* What a trace shows of an answer that was streamed or sent at once. *)
ExchangeOf(answer) == ParseTrace(PathOf(input.kind), {RequestOf(input.kind, {}, << >>)}, answer)
Streamed == ExchangeOf([document |-> {}, events |-> input.events])
Sent == ExchangeOf([document |-> {DocumentOf(input.kind, input.answer)}, events |-> << >>])
(* The same but for the blanks in the arguments of a call, or for what of  *)
(* them was cut; a call's name comes first in its message.                 *)
SameMessage(m, n, cut) ==
    \/ m = n
    \/ /\ m.role = <<"tool_call">> /\ n.role = m.role
       /\ IF cut THEN m.content[2] = n.content[2] ELSE Serialized(m.content) = Serialized(n.content)
SameExchange(a, b) ==
    /\ Len(a.messages) = Len(b.messages)
    /\ \A i \in DOMAIN a.messages : SameMessage(a.messages[i], b.messages[i],
                                       a.tool_calls_truncated \/ b.tool_calls_truncated)
    /\ a.usage_complete = b.usage_complete
    /\ a.usage_complete => a.usage = b.usage

TimedTrace(r) ==
    BuildTrace([Event0 EXCEPT !.content_type = {"text/event-stream"}, !.model = {<<"m">>},
                    !.response_body_truncated = input.cut, !.response_chunk_timings =
                       [i \in 1 .. Len(input.events) |-> [end |-> 2 * i, elapsed |-> Elapsed(i)]]],
               r @@ [session_key_hint |-> {}, messages |-> << >>, request_kind |-> input.kind], << >>)
FirstOutputIsTimed(r, t, outputs) ==
    /\ IF r.first_output_offset = {} THEN outputs = {}
       ELSE \A n \in r.first_output_offset :
              (n \in outputs \/ Parsed(n).tool_calls_truncated) /\ n - 1 \notin outputs
    /\ t.ttft_ms = {Elapsed((n + 1) \div 2) : n \in r.first_output_offset}
PricedIfWhole(r, t) ==
    /\ EstimatedCost(t, <<"m">> :> Price) =
          IF r.usage_complete /\ ~input.cut
          THEN {(IF input.kind = "anthropic" THEN 5 ELSE 3) * Price.input + 7 * Price.output + 2 * 1}
          ELSE {}
    /\ (t.error = {}) <=> (input.whole \/ input.cut)
StreamIsReassembled(r, t) ==
    LET tools == input.answer.tools
        calls == {[name |-> ToolName(i), arguments |-> Argued(input.kind, input.answer, i)] : i \in DOMAIN tools}
        total == IF input.kind = "anthropic" THEN {7} ELSE {5}
        fits == Len(tools) <= MaxTools /\ \A i \in DOMAIN tools : Len(tools[i]) <= MaxToolText
    IN  /\ IsPrefix(r.text, FlattenSeq(input.answer.text))
        /\ \A c \in ToSet(r.tool_calls) : \E w \in calls :
              c.name = w.name /\ IsPrefix(c.arguments, w.arguments)
        /\ r.stream_complete = {input.whole}
        /\ r.usage_complete => r.usage.input = total /\ r.usage.output = {7}
        /\ r.usage_complete <=> input.whole /\ input.answer.usage # {}
        /\ r.tool_calls_truncated => ~fits
        /\ input.whole =>
              /\ SameExchange(Streamed, Sent)
              /\ r.text = FlattenSeq(input.answer.text)
              /\ \/ r.tool_calls_truncated
                 \/ ToSet(r.tool_calls) = calls /\ Len(r.tool_calls) = Cardinality(calls)
        /\ FirstOutputIsTimed(r, t, {n \in 0 .. Len(input.events) : HasOutput(Parsed(n))})
        /\ PricedIfWhole(r, t)

(* Every turn of a request is kept once, in order and under its role,      *)
(* whatever form the protocol gives it (parsers.rs).                       *)
(* Of an answer that was broken off anywhere the parser (response.rs) has  *)
(* a true prefix and never a usage that it calls complete; of a whole one  *)
(* it has text, tool calls and usage exactly, unless it says that calls    *)
(* were cut; the same answer sent as one document leaves the same usage    *)
(* and the same messages in the same order, the arguments of a call as the *)
(* same JSON, of which an Anthropic document has lost the blanks.  The     *)
(* order is that of the string keys, 10 before 2.  The first output is the *)
(* event with which text or arguments begin, be they of a call that is not *)
(* kept, and its time that of the chunk it came in.  A trace (trace.rs) is *)
(* priced, every token once, only if all of the answer was seen, and one   *)
(* that was broken off says so.                                            *)
ExchangesAreReassembled ==
    /\ Some("request") =>
        LET r == ParseTrace(PathOf(input.kind), {RequestOf(input.kind, input.system, input.turns)}, NoAnswer)
        IN  /\ r.request_kind = input.kind /\ r.model = {<<"m">>}
            /\ r.messages = SetToSeq({Message(<<"system">>, t) : t \in input.system})
                            \o [i \in DOMAIN input.turns |-> Told(input.kind, input.turns[i])]
    /\ Some("stream") => \A r \in {Parsed(Len(input.events))} : StreamIsReassembled(r, TimedTrace(r))

-----------------------------------------------------------------------------
(* Queries: a filter on a field of a dataset, and the value of that field. *)
SomeValues == {[json |-> "null", bytes |-> 4, of |-> "", v |-> 0]} \cup
    [json : {"string"}, bytes : {1, MaxStringBytes, MaxStringBytes + 1}, of : {"", "uuid", "timestamp"}, v : {1, 2}]
    \cup [json : {"int", "bool", "object"}, bytes : {1, MaxJsonBytes + 1}, of : {""}, v : {1, 2}]

ChooseFilter ==
    \E dataset \in Datasets : \E name \in Names(dataset) \cup {"plugin_metadata.p", "nothing"} :
    \E op \in QueryOps, value \in Option(SomeValues), cell \in Option(0 .. 2) :
        /\ cell = {0} => name = "plugin_metadata.p"
        /\ input' = [what |-> "filter", dataset |-> dataset, op |-> op, value |-> value, cell |-> cell,
              field |-> [name |-> name, path |-> IF name # "plugin_metadata.p" THEN {}
                                                 ELSE {<<[bytes |-> 1, plain |-> TRUE]>>}]]

(* The operators the schema names are those the query accepts with some    *)
(* value, and no row is lost between a condition and its opposite: a row   *)
(* matches exactly one of is_null and is_not_null and, if it has a value,  *)
(* exactly one of eq and ne, of gt and lte, and of lt and gte; a missing   *)
(* value matches no comparison, a JSON null in plugin metadata, which      *)
(* counts as missing for is_null, may match one (query.rs).  Defaults are  *)
(* fields.                                                                 *)
FiltersMatchSchema ==
    Some("filter") =>
        /\ ToSet(DefaultFields(input.dataset)) \cup {DefaultOrder(input.dataset)} \subseteq Names(input.dataset)
        /\ Cardinality(QueryField(input.dataset, input.field)) <= 1
        /\ \A kind \in QueryField(input.dataset, input.field) :
              LET value == Received(input.value)
                  Sel(op) == Selects(kind, op, value, input.cell)
                  Opposite(a, b) == Accepts(kind, a, value) =>
                      Accepts(kind, b, value) /\ (input.cell # {} <=> (Sel(a) # Sel(b)))
              IN  /\ (input.op \in Operators(kind)) <=>
                        \E x \in SomeValues : AcceptsQuery(
                            [dataset |-> input.dataset, fields |-> {}, order_by |-> <<input.field>>,
                             filters |-> <<[field |-> input.field, op |-> input.op, value |-> {x}]>>])
                  /\ Sel("is_null") # Sel("is_not_null")
                  /\ Opposite("eq", "ne") /\ Opposite("gt", "lte") /\ Opposite("lt", "gte")
                  /\ (Accepts(kind, input.op, value) /\ input.op \notin {"is_null", "is_not_null"}
                      /\ Sel(input.op)) => Sel("is_not_null") \/ input.cell = {JSON_NULL}

-----------------------------------------------------------------------------
(* Pages.                                                                  *)
ChoosePage ==
    \E limit \in Option(-1 .. MaxLimit + 1), total \in 0 .. MaxOffset + 1 :
        input' = [what |-> "pages", limit |-> limit, total |-> total]

(* The pages a client gets by following the offset of each to the next. *)
Pages(limit, total) ==
    LET Follow(pages) ==
            LET page == IF pages = << >> THEN ReadPage(PageFrom(limit, {}), total)
                        ELSE ReadPage(PageFrom(limit, Last(pages).next), total)
            IN  IF pages # << >> /\ Last(pages).next = {} THEN pages ELSE Append(pages, page)
    IN  FoldLeft(LAMBDA acc, i : Follow(acc), << >>, [i \in 1 .. total + 1 |-> i])

(* Whatever limit a client asks for, the pages it follows (paging.rs) show *)
(* every row once, and the last of them says so, as long as the offset     *)
(* stays within its maximum.                                               *)
PagesTile ==
    Some("pages") =>
        LET pages == Pages(input.limit, input.total)
        IN  /\ UNION {pages[i].rows : i \in DOMAIN pages} = 1 .. input.total
            /\ \A i, j \in DOMAIN pages : i # j => pages[i].rows \cap pages[j].rows = {}
            /\ Last(pages).next = {}
            /\ \A i \in DOMAIN pages : pages[i].rows # {} \/ input.total = 0

(* What a query or a list of pages says of the rows is so: filters select  *)
(* what the schema says they do (query.rs), and pages show each row once   *)
(* (paging.rs).                                                            *)
QueriesAreAnswered == FiltersMatchSchema /\ PagesTile

-----------------------------------------------------------------------------
(* Paths, upstreams and plugin lookups.                                    *)
Chars == {"/", ".", "%2e", "%2f", "%5c", "\\", "a", "%61"}
ChoosePath == \E path \in UpTo(Chars, 5) : input' = [what |-> "path", path |-> <<"/">> \o path]

SomeSegments == UpTo({"", "a", "*"}, 2)
SomeUrlRecords == [scheme : {"http", "ws", "ftp"}, host : {"h", ""}, port : {1, 2}, path : SomeSegments,
                   credentials : BOOLEAN, query : Option({"q"}), fragment : BOOLEAN]
PlainUrls == {u \in SomeUrlRecords : u.host = "h" /\ ~u.credentials /\ ~u.fragment}
ChooseEntry == \E e \in SomeUrlRecords, any \in BOOLEAN :
    input' = [what |-> "entry", url |-> e, any |-> any]

SomeSettings == [preset : {"custom", "litellm"}, path_prefixes : {{}, {{<<"v1">>}}, {{}}},
                 capture_path_prefixes : {{}, {{<<"v1", "chat">>}}, {{}}}]
SomePaths == LitellmCapturePrefixes \cup LitellmForwardPrefixes \cup
             {p \o <<"x">> : p \in LitellmCapturePrefixes} \cup {<< >>, <<"key", "generate">>, <<"v1x">>}
ChooseRoute == \E cfg \in SomeSettings, path \in SomePaths, method \in {"GET", "POST"}, ws \in BOOLEAN :
    input' = [what |-> "route", cfg |-> cfg, path |-> path, method |-> method, websocket |-> ws]

(* The prefixes /a and /a/a, the one forwarded, the other captured. *)
SlashA == << << >>, <<"a">> >>
SomePrefixes == {SlashA, Append(SlashA, <<"a">>)}
PathSettings == [preset |-> "custom", path_prefixes |-> {{SlashA}},
                 capture_path_prefixes |-> {{Append(SlashA, <<"a">>)}}]

(* The paths let through (routing.rs, unambiguous_path) are those of which *)
(* a URL library makes nothing else and an upstream that decodes every     *)
(* escape makes the same segments, decoded; so a path under a prefix is    *)
(* still under it when the upstream looks at it.  Of what is forwarded,    *)
(* what is captured would be so by the upstream's path too, and the other  *)
(* way round unless something is escaped: with "%61" for "a" a path is     *)
(* forwarded and not captured that its upstream takes for one that is, so  *)
(* "audit decisions must not change" (routing.rs) holds of paths without   *)
(* ordinary escapes only.  An allowlist entry admits its own URL and those *)
(* below it and nothing beside it, a plugin's entry nothing but its own,   *)
(* with another query if it says so; the presets capture nothing that is   *)
(* not forwarded.                                                          *)
RoutesAreUnambiguous ==
    /\ Some("path") =>
          LET segments == Split(input.path, {"/"})
          IN  /\ UnambiguousPath(input.path) <=>
                    /\ NormalizedSegments(input.path) = segments
                    /\ UpstreamSegments(input.path) = [i \in DOMAIN segments |-> Decoded(segments[i])]
              /\ UnambiguousPath(input.path) => \A p \in SomePrefixes :
                    PathPrefixMatches(p, segments) => PathPrefixMatches(p, UpstreamSegments(input.path))
              /\ UnambiguousPath(input.path) /\ PathAllows(EffectivePathPrefixes(PathSettings), segments) =>
                    LET written == Captures(PathSettings, "POST", segments, FALSE)
                        served == Captures(PathSettings, "POST", UpstreamSegments(input.path), FALSE)
                    IN  /\ written => served
                        /\ served => written \/ Decoded(input.path) # input.path
    /\ Some("entry") =>
          /\ \A e \in ParseUpstreamAllowEntry([form |-> "url", url |-> input.url]), u \in PlainUrls :
                UpstreamAllows({e}, u) <=>
                    /\ [u EXCEPT !.path = << >>, !.query = {}] = [input.url EXCEPT !.path = << >>]
                    /\ IsPrefix(Trimmed(input.url.path), u.path)
          /\ ValidPluginUrl([url |-> input.url, any_query |-> input.any]) =>
                \A u \in SomeUrlRecords : AllowedUrlAllows([url |-> input.url, any_query |-> input.any], u)
                    => [u EXCEPT !.query = {}] = [input.url EXCEPT !.query = {}]
    /\ Some("route") /\ input.cfg.path_prefixes = {} /\ input.cfg.capture_path_prefixes = {} =>
          (Captures(input.cfg, input.method, input.path, input.websocket) =>
              PathAllows(EffectivePathPrefixes(input.cfg), input.path))

-----------------------------------------------------------------------------
(* Configurations: the defaults or a production file, with one setting     *)
(* changed in the file and one in the environment; and all combinations of *)
(* the settings about signing in.                                          *)
Sample == [f \in Settings |->
    CASE f = "deployment" -> "production" [] f \in {"allow_upstreams", "allowed_domains"} -> "good"
      [] f = "retention_days" -> "ok" [] f \in {"password_hash", "metrics_bearer_token"} -> "good"
      [] f = "public_url" -> <<"https", "a", TRUE>> [] f = "cookie_secure" -> "true"
      [] f = "admin_listen" -> <<"lo", 2, FALSE>> [] f = "proxy_public_url" -> <<"https", "b", TRUE>>
      [] OTHER -> Default[f]]
WithOauth == [Sample EXCEPT !["issuer_url"] = "good", !["client_id"] = "good", !["client_secret"] = "good",
                            !["oauth.enabled"] = "true"]

ChooseConfig ==
    \E file \in {Default, Sample}, f \in Settings : \E v \in Values(f) :
        \/ input' = [what |-> "config", file |-> [file EXCEPT ![f] = v], env |-> << >>,
                     given |-> file[f] = v]
        \/ \E g \in Settings : \E raw \in Raw(g) :
              input' = [what |-> "config", file |-> [file EXCEPT ![f] = v], env |-> g :> raw,
                        given |-> FALSE]

ChooseSignIn ==
    \E password \in Values("password"), hash \in Values("password_hash"),
       deployment \in Values("deployment"), oauth \in {"true", "false"} :
        input' = [what |-> "config", env |-> << >>, given |-> FALSE, file |->
            [WithOauth EXCEPT !["password"] = password, !["password_hash"] = hash,
                !["deployment"] = deployment, !["oauth.enabled"] = oauth]]

SomePlugins == [name : {"padded", "p", "q"}, wasm_path : {"blank", "good"},
    hooks : UpTo({"start", "headers", "end"}, 2), timeout_ms : {"zero", "ok", "over"},
    urls : [count : 0 .. MaxUrls + 1, valid : BOOLEAN], auth : SUBSET {"header", "env"}]
Usual(p) == p.wasm_path = "good" /\ p.timeout_ms = "ok" /\ p.urls = [count |-> 0, valid |-> TRUE] /\ p.auth = {}
ChoosePlugins ==
    \/ \E p \in SomePlugins : input' = [what |-> "plugins", plugins |-> <<p>>]
    \/ \E p, q \in {r \in SomePlugins : Usual(r)} : input' = [what |-> "plugins", plugins |-> <<p, q>>]

(* What a list of plugins makes of a trace when each adds one field. *)
Heard(plugins, hook) ==
    RunHook([i \in DOMAIN plugins |->
        [NoEffects EXCEPT !.metadata = << >>] @@
        [plugin |-> plugins[i].name, custom_fields |-> "by" :> i,
         fate |-> IF hook \in ToSet(plugins[i].hooks) THEN "said" ELSE "silent"]])

Passwords == {"blank", "default", "custom", "secret"}
Claims(address) == {<<ip, address[2]>> : ip \in IF address[1] = "any" THEN {"lo", "any"} ELSE {address[1]}}

(* Of the configurations the program accepts (config.rs), file and         *)
(* environment together, none leaves everybody out, unless its hash has    *)
(* blanks around it, and none in production lets in a default or plain     *)
(* password, through whichever way the password is verified (auth.rs).     *)
(* If its listeners can be bound at all (main.rs) they do not claim the    *)
(* same address, and plugins do not overwrite each other's metadata.  The  *)
(* defaults and the production sample are accepted.                        *)
AcceptedConfigHolds ==
    /\ Some("config") =>
          /\ input.given => \E cfg \in Load(input.file, input.env) : Valid(cfg)
          /\ \A cfg \in Load(input.file, input.env) : Valid(cfg) =>
                LET enter == {p \in Passwords : VerifyPassword(p, cfg)}
                IN  /\ enter # {} \/ On(cfg, "oauth.enabled") \/ cfg["password_hash"] = "padded"
                    /\ Production(cfg) => enter \subseteq {"secret"}
                    /\ Binds(cfg) /\ cfg["admin_listen"][1] # "none" /\ cfg["listen"][2] # 0 =>
                          Claims(cfg["admin_listen"]) \cap Claims(cfg["listen"]) = {}
    /\ Some("plugins") /\ ValidPlugins(input.plugins) =>
          LET t == RunHooks([NoEffects EXCEPT !.metadata = << >>], Event0,
                            <<Heard(input.plugins, "start"), Heard(input.plugins, "headers"),
                              Heard(input.plugins, "end")>>)
          IN  \A i \in DOMAIN input.plugins : t.metadata[input.plugins[i].name].fields = "by" :> i

-----------------------------------------------------------------------------
(* OAuth: a configuration, an account and the provider's answers.          *)
Discoveries == {d \in [got : Got, metadata : Metadata] : d.got # "document" => d.metadata = Fallback}
Tokens == {t \in [got : Got, access_token : BOOLEAN] : t.got # "document" => ~t.access_token}
UserInfos(emails) ==
    {i \in [got : Got, email : Option(emails), email_verified : {{}, {FALSE}, {TRUE}}, within : BOOLEAN] :
        i.got # "document" => i.email = {} /\ i.email_verified = {} /\ ~i.within}
Good == [got |-> "document"]

AnnOut == <<"ANN", "@", "out">>
SomeLists == {<<{}, {}>>, <<{AnnOut}, {}>>, <<{}, {<<"in">>}>>}
MoreLists == {{}, {AnnOut}, {<<"ann">>}, {<<"ann", "@", "in", "@", "out">>}, {<<"ann", "@", "in", "non-ascii">>}}
    \X {{}, {<<"IN">>}, {<<"*", ".", "in">>}, {<<"@", "in">>}, {<<"in", " ">>}, {<<"ann", ".", "in">>}, {<<".", "in">>}}
SomeOauths(lists) == [deployment : {"development", "production"}, require_email_verified : BOOLEAN,
                      allowed_emails : {l[1] : l \in lists}, allowed_domains : {l[2] : l \in lists}]
Addressed == {<<a, "@">> \o rest : a \in {"ann", "bob"}, rest \in UpTo({"ann", "@", "in", "out", "."}, 3)}
             \cup {<< >>, <<"ann">>, <<"@", "in">>, <<"in">>}

ChooseOauth ==
    \E cfg \in SomeOauths(SomeLists), discovery \in Discoveries, token \in Tokens,
       info \in UserInfos({<<"ann", "@", "out">>, <<"bob", "@", "IN">>, <<"bob", "@", "out">>}) :
        input' = [what |-> "oauth", cfg |-> cfg, discovery |-> discovery, token |-> token, info |-> info]
ChooseAddress ==
    \E cfg \in SomeOauths(MoreLists), email \in Addressed :
        input' = [what |-> "oauth", cfg |-> cfg, discovery |-> Good @@ [metadata |-> Fallback],
            token |-> Good @@ [access_token |-> TRUE],
            info |-> Good @@ [email |-> {email}, email_verified |-> {TRUE}, within |-> TRUE]]

(* The sample with these settings of OAuth, as it is loaded. *)
ConfigOf(o) ==
    NormalizeSensitiveDefaults([WithOauth EXCEPT !["deployment"] = o.deployment,
        !["require_email_verified"] = IF o.require_email_verified THEN "true" ELSE "false",
        !["allowed_emails"] = ListClass(o.allowed_emails, ValidAllowedEmail),
        !["allowed_domains"] = ListClass(o.allowed_domains, ValidAllowedDomain)])

(* An address is listed as it is or ends with "@" and a listed domain. *)
Listed(o, email) ==
    \/ \E e \in o.allowed_emails : Lower(e) = Lower(email)
    \/ \E d \in o.allowed_domains : IsSuffix(<<"@">> \o Lower(d), Lower(email))

(* Whatever discovery, token and userinfo requests answer (auth.rs,        *)
(* finish_oauth), and whatever lists validation accepts (config.rs), in    *)
(* production whoever is let in has an address that the provider vouched   *)
(* for and that is listed or ends with "@" and a listed domain; elsewhere  *)
(* anyone may enter if nothing is listed.  Such an account is let in, in   *)
(* capitals or not, if all answers are as they should be or discovery      *)
(* fails in a way that has a fallback: no accepted entry is without effect.*)
OnlyMeantUsersEnter ==
    Some("oauth") /\ Valid(ConfigOf(input.cfg)) =>
        LET users == FinishOauth(input.cfg, input.discovery, input.token, input.info)
            open == input.cfg.allowed_emails \cup input.cfg.allowed_domains = {}
            production == input.cfg.deployment = "production"
            answered == /\ {input.token.got, input.info.got} = {"document"} /\ input.token.access_token
                        /\ input.info.within /\ input.info.email_verified = {TRUE}
                        /\ input.discovery.got \in {"nothing", "status"} \/
                           (input.discovery.got = "document" /\ input.discovery.metadata = Fallback)
        IN  /\ users # {} /\ production => input.info.email_verified = {TRUE}
            /\ \A user \in users : Listed(input.cfg, user) \/ (open /\ ~production)
            /\ answered => users = {Lower(e) : e \in {x \in input.info.email : open \/ Listed(input.cfg, x)}}

-----------------------------------------------------------------------------
Init == input = [what |-> "nothing"]

(* What the input is to be about; then the input. *)
ChooseSubject ==
    /\ Some("nothing")
    /\ \E s \in {"tags", "messages", "pair", "headers", "stream", "request", "filter", "page", "path", "entry",
                 "route", "config", "signin", "plugins", "oauth", "address"} :
          input' = [what |-> "subject", subject |-> s]
About(s) == Some("subject") /\ input.subject = s
Next ==
    \/ ChooseSubject
    \/ About("tags") /\ ChooseTags
    \/ About("messages") /\ ChooseMessages
    \/ About("pair") /\ ChoosePair
    \/ About("headers") /\ ChooseHeaders
    \/ About("stream") /\ ChooseStream
    \/ About("request") /\ ChooseRequest
    \/ About("filter") /\ ChooseFilter
    \/ About("page") /\ ChoosePage
    \/ About("path") /\ ChoosePath
    \/ About("entry") /\ ChooseEntry
    \/ About("route") /\ ChooseRoute
    \/ About("config") /\ ChooseConfig
    \/ About("signin") /\ ChooseSignIn
    \/ About("plugins") /\ ChoosePlugins
    \/ About("oauth") /\ ChooseOauth
    \/ About("address") /\ ChooseAddress
Spec == Init /\ [][Next]_input
=============================================================================
