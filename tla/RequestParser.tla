---------------------------- MODULE RequestParser ----------------------------
(***************************************************************************)
(* What parse_trace (parsers.rs) makes of a request and its answer: the    *)
(* kind of the exchange, its model, its messages and the conversation it   *)
(* names.  A path is known by what it ends with.  A request that is JSON   *)
(* has the fields of NoRequest, each an option; a body that is not JSON is *)
(* no document.  Texts and contents are as in ResponseParser.              *)
(***************************************************************************)
EXTENDS ResponseParser

NoRequest == [model |-> {}, max_tokens |-> FALSE, system |-> {}, instructions |-> {},
              messages |-> {}, input |-> {},
              session_id |-> {}, conversation_id |-> {}, conversation |-> {}]

Classify(path, request) ==
    CASE path = "chat/completions" -> "chat"
      [] path = "responses" -> "responses"
      [] path = "messages" /\ \E r \in request : r.max_tokens -> "anthropic"
      [] OTHER -> IF request # {} THEN "json" ELSE "http"

RoleOf(item) == IF item.role = {} THEN <<"user">> ELSE CHOOSE r \in item.role : TRUE

(* Mutant of ItemMessages: calls are only looked for beside a content. *)
ItemMessagesSpoken(item) ==
    LET said == SetToSeq({Message(RoleOf(item), c) : c \in StringifyContent(item.content)})
    IN  IF said = << >> THEN said
        ELSE said \o [i \in DOMAIN item.tool_calls |-> Message(<<"tool_call">>, ToJson(item.tool_calls[i]))]

(* A message of a request is [role, content, tool_calls]. *)
ItemMessages(item) ==
    SetToSeq({Message(RoleOf(item), c) : c \in StringifyContent(item.content)})
    \o [i \in DOMAIN item.tool_calls |-> Message(<<"tool_call">>, ToJson(item.tool_calls[i]))]

(* An item of the input is a text, an object [type, role, content, text],  *)
(* or something that is skipped.                                           *)
InputItem(item) ==
    LET content == StringifyContent(item.content)
        text == Or(content, item.text)
    IN  CASE item.json = "string" -> <<Message(<<"user">>, item.value)>>
          [] item.json = "object" /\ item.type = {"function_call"} ->
                <<Message(<<"tool_call">>, ToJson(item.value))>>
          [] item.json = "object" /\ item.type = {"function_call_output"} ->
                <<Message(<<"tool">>, ToJson(item.value))>>
          [] item.json = "object" /\ item.type \notin {{"function_call"}, {"function_call_output"}} ->
                SetToSeq({Message(RoleOf(item), t) : t \in text \ {<< >>}})
          [] OTHER -> << >>

(* The input is the sequence of its items, one that is no array being an   *)
(* item itself.                                                            *)
ResponsesInputMessages(input) == FlattenSeq([i \in DOMAIN input |-> InputItem(input[i])])

CollectRequestMessages(kind, r) ==
    SetToSeq({Message(<<"system">>, c) : c \in StringifyContent(Or(r.system, r.instructions))})
    \o (IF r.messages # {}
        THEN LET items == CHOOSE m \in r.messages : TRUE
             IN  FlattenSeq([i \in DOMAIN items |-> ItemMessages(items[i])])
        ELSE IF kind = "responses" /\ r.input # {}
        THEN ResponsesInputMessages(CHOOSE items \in r.input : TRUE)
        ELSE << >>)

(* Mutant of SessionKeyHint: a text is expected where an object may be. *)
SessionKeyHintPlain(r) ==
    UNION {v.text : v \in Or(r.session_id, Or(r.conversation_id, r.conversation))}

(* The first place that has a value decides, be it a text or not; a value  *)
(* is [text, id], the text if it is one, the id if it is an object.        *)
SessionKeyHint(r) ==
    LET id == UNION {v.id : v \in r.conversation}
        value == Or(r.session_id, Or(r.conversation_id, Or(id, r.conversation)))
    IN  UNION {v.text : v \in value}

(* What is said in an exchange: by the request, by the answer, by calls. *)
MessagesOf(kind, request, document, response) ==
    LET asked == {CollectRequestMessages(kind, r) : r \in request}
        answered == IF document # {} THEN {CollectResponseMessages(d) : d \in document}
                    ELSE {<<Message(<<"assistant">>, t)>> : t \in {response.text} \ {<< >>}}
        called == [i \in DOMAIN response.tool_calls |-> Message(<<"tool_call">>,
                      ToJson(response.tool_calls[i].name \o response.tool_calls[i].arguments))]
    IN  FlattenSeq(SetToSeq(asked)) \o FlattenSeq(SetToSeq(answered)) \o called

(* The answer is [document, events]: JSON, or else a stream. *)
ResponseOf(kind, answer) ==
    IF answer.document = {} THEN ParseStream(answer.events, kind)
    ELSE ParseDocument(CHOOSE d \in answer.document : TRUE, kind)

Exchange(kind, request, document, response) ==
    [response EXCEPT !.model = Or(@, UNION {r.model : r \in request})]
    @@ [request_kind |-> kind, messages |-> MessagesOf(kind, request, document, response),
        session_key_hint |-> UNION {SessionKeyHint(r) : r \in request}]

ParseTrace(path, request, answer) ==
    LET kind == Classify(path, request)
    IN  Exchange(kind, request, answer.document, ResponseOf(kind, answer))
=============================================================================
