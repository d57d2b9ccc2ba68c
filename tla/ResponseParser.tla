--------------------------- MODULE ResponseParser ---------------------------
(***************************************************************************)
(* What the response parser (parsers/response.rs) makes of a provider's    *)
(* answer: the server-sent events of the three protocols it knows, folded  *)
(* one by one into text, tool calls, usage and the offset of the first     *)
(* output.  Texts are sequences of tokens.  Something that may be missing  *)
(* is a set with one member or none.                                       *)
(***************************************************************************)
EXTENDS Naturals, Sequences, SequencesExt, TLC

CONSTANTS MaxTools, MaxToolText

Or(a, b) == IF a # {} THEN a ELSE b
Get0(option) == IF option = {} THEN 0 ELSE CHOOSE n \in option : TRUE

(* A JSON object the parser observes: the whole body, an event, or the     *)
(* message or response in one.  usage has the counts under whichever name  *)
(* the provider gives them, a negative one counting as absent; tools are   *)
(* the calls it holds, and its text is where its protocol puts it: the     *)
(* content of the first choice, output_text, the parts of each output item *)
(* or the parts of its content.                                            *)
NoUsage == [input |-> {}, output |-> {}, cached |-> {}, created |-> {}]
NoDoc == [model |-> {}, error |-> {}, status |-> {}, usage |-> {}, tools |-> << >>,
          choice |-> {}, output_text |-> {}, output |-> {}, content |-> {}]

(* An event: its type, itself as a document, the document in it, a place   *)
(* <<output_index, content_index>>, pieces of text and of a tool call, and *)
(* the choices of a chat chunk.                                            *)
Blank == [type |-> "", doc |-> NoDoc, inner |-> NoDoc, at |-> <<0, 0>>, text |-> << >>,
          thinking |-> FALSE, tool |-> {}, choices |-> {}]

Start == [model |-> {}, error |-> {}, usage |-> NoUsage, tools |-> << >>, texts |-> << >>,
          truncated |-> FALSE, first_output_offset |-> {}, terminal |-> FALSE,
          final_usage_seen |-> FALSE]

-----------------------------------------------------------------------------
Observe(p, doc) ==
    [p EXCEPT
        !.model = Or(doc.model, @),
        !.error = LET failed == doc.status \cap {"failed", "incomplete", "cancelled"}
                  IN  IF doc.error # {} THEN doc.error ELSE Or(@, failed),
        !.usage = [c \in DOMAIN @ |-> IF doc.usage = {} THEN @[c]
                                      ELSE Or((CHOOSE u \in doc.usage : TRUE)[c], @[c])]]

(* append_bounded: what fits, and whether that is all. *)
AppendBounded(target, text) ==
    target \o SubSeq(text, 1, LET room == MaxToolText - Len(target)
                              IN  IF Len(text) < room THEN Len(text) ELSE room)
Overflows(target, text) == Len(target) + Len(text) > MaxToolText

(* serde_json writes a value without the blanks it was sent with.  It also *)
(* sorts the members of an object: a value has one here.                   *)
Serialized(json) == SelectSeq(json, LAMBDA t : t # " ")
EmptyObject == <<"{}">>

(* A piece of a tool call is [name, arguments, input], each an option:     *)
(* arguments are a text and are kept as they come, an input is a JSON      *)
(* value, which is written out anew and takes the place of what was there. *)
Tool(p, key, piece, append) ==
    LET old == IF key \in DOMAIN p.tools THEN p.tools[key] ELSE [name |-> << >>, arguments |-> << >>]
        value == {Serialized(v) : v \in piece.input} \ {EmptyObject}
        anew == piece.arguments = {} /\ value # {}
        more == [name |-> piece.name, arguments |-> IF anew THEN value ELSE piece.arguments]
        Base(f) == IF more[f] = {} \/ (append /\ ~(f = "arguments" /\ anew)) THEN old[f] ELSE << >>
        More(f) == IF more[f] = {} THEN << >> ELSE CHOOSE t \in more[f] : TRUE
        new == [f \in {"name", "arguments"} |-> AppendBounded(Base(f), More(f))]
    IN  IF key \notin DOMAIN p.tools /\ Cardinality(DOMAIN p.tools) >= MaxTools
        THEN [p EXCEPT !.truncated = TRUE]
        ELSE [p EXCEPT !.tools = (key :> new) @@ @,
                       !.truncated = @ \/ \E f \in DOMAIN new : Overflows(Base(f), More(f))]

CollectTools(p, doc) ==
    FoldLeft(LAMBDA acc, t : Tool(acc, t.key, t.piece, FALSE), p, doc.tools)

TextDelta(p, key, text) ==
    IF text = << >> THEN p
    ELSE [p EXCEPT !.texts = (key :> ((IF key \in DOMAIN @ THEN @[key] ELSE << >>) \o text)) @@ @]

-----------------------------------------------------------------------------
(* Contents (parsers.rs).  A JSON value is [json, text, parts]: null, a    *)
(* string, an array of parts or something else; a part is [type, text,     *)
(* content], each an option, and has no text of another JSON type.  A      *)
(* value written as JSON is its texts in brackets.                         *)
Part(type, text) == [type |-> type, text |-> text, content |-> {}]
NullValue == [json |-> "null", text |-> << >>, parts |-> << >>]
Str(text) == [NullValue EXCEPT !.json = "string", !.text = text]
Parts(parts) == [NullValue EXCEPT !.json = "array", !.parts = parts]
TextOf(options) == FlattenSeq([i \in DOMAIN options |->
                       IF options[i] = {} THEN << >> ELSE CHOOSE t \in options[i] : TRUE])
PartTexts(parts) == [i \in DOMAIN parts |-> Or(parts[i].text, parts[i].content)]
ToJson(text) == <<"{">> \o text \o <<"}">>

StringifyContent(value) ==
    LET Of(v) ==
          LET texts == PartTexts(v.parts)
              tools == \E i \in DOMAIN v.parts : v.parts[i].type \in {{"tool_use"}, {"tool_result"}}
              bare == \A i \in DOMAIN texts : texts[i] = {}
          IN  CASE v.json = "null" -> {}
                [] v.json = "string" -> {v.text}
                [] v.json = "array" -> {IF tools \/ bare THEN ToJson(TextOf(texts)) ELSE TextOf(texts)}
                [] OTHER -> {ToJson(v.text)}
    IN  UNION {Of(v) : v \in value}

Contents(messages) == FlattenSeq([i \in DOMAIN messages |-> messages[i].content])
Message(role, content) == [role |-> role, content |-> content, content_truncated |-> FALSE]

(* collect_response_messages: the first of the four places that speaks. *)
CollectResponseMessages(doc) ==
    LET choice == StringifyContent(doc.choice)
        Texts(parts) == TextOf([i \in DOMAIN parts |-> parts[i].text])
        Written(part) == part.type \subseteq {"output_text", "text"}
        contents ==
            IF choice # {} THEN choice
            ELSE IF doc.output_text # {} THEN doc.output_text
            ELSE IF doc.output # {}
            THEN {Texts(SelectSeq(FlattenSeq(items), Written)) : items \in doc.output} \ {<< >>}
            ELSE {Texts(parts) : parts \in doc.content} \ {<< >>}
    IN  SetToSeq({Message(<<"assistant">>, c) : c \in contents})

-----------------------------------------------------------------------------
Terminal(p) == [p EXCEPT !.terminal = TRUE]

(* A choice of a chat chunk is [index, content, refusal, tools]. *)
Choice(p, c) ==
    FoldLeft(LAMBDA acc, t : Tool(acc, t.key, t.piece, TRUE),
             IF c.index = 0 THEN TextDelta(p, <<0, 0>>, c.content) ELSE p, c.tools)

Final == {"response.completed", "response.failed", "response.incomplete"}
Typed(p, e) ==
    CASE e.type \in {"message_start", "response.created"} -> Observe(p, e.inner)
      [] e.type \in {"message_stop", "[DONE]"} -> Terminal(p)
      [] e.type \in Final ->
            LET q == Terminal(CollectTools(Observe(p, e.inner), e.inner))
            IN  [q EXCEPT !.final_usage_seen = e.inner.usage # {},
                          !.texts = IF @ # << >> THEN @
                                    ELSE <<0, 0>> :> Contents(CollectResponseMessages(e.inner))]
      [] e.type = "response.output_text.delta" -> TextDelta(p, e.at, e.text)
      [] e.type = "response.output_text.done" ->
            IF e.at \in DOMAIN p.texts THEN p ELSE [p EXCEPT !.texts = (e.at :> e.text) @@ @]
      [] e.type \in {"response.output_item", "tool_block"} ->
            FoldLeft(LAMBDA acc, t : Tool(acc, t.key, t.piece, FALSE), p, SetToSeq(e.tool))
      [] e.type = "response.function_call_arguments.delta" ->
            FoldLeft(LAMBDA acc, t : Tool(acc, t.key, t.piece, TRUE), p, SetToSeq(e.tool))
      [] e.type = "text_block" -> TextDelta(p, e.at, e.text)
      [] e.type = "content_block_delta" ->
            FoldLeft(LAMBDA acc, t : Tool(acc, t.key, t.piece, TRUE), TextDelta(p, e.at, e.text),
                     SetToSeq(e.tool))
      [] OTHER -> p

(* Whether an event carries generated output. *)
GrowsTool(t) == t.piece.arguments \notin {{}, {<< >>}}
Generated(e) ==
    \/ e.type \in {"response.output_text.delta", "text_block", "content_block_delta"} /\ e.text # << >>
    \/ e.type = "content_block_delta" /\ e.thinking
    \/ e.type \in {"response.function_call_arguments.delta", "content_block_delta"}
       /\ \E t \in e.tool : GrowsTool(t)
    \/ \E cs \in e.choices : \E c \in ToSet(cs) :
          \/ c.index = 0 /\ c.content # << >>
          \/ c.refusal \/ \E t \in ToSet(c.tools) : GrowsTool(t)

UsageIsFinal(e) ==
    \/ e.type = "message_delta" /\ \E u \in e.doc.usage : u.output # {}
    \/ e.choices # {} /\ e.doc.usage # {}

Event(p, e, offset) ==
    LET seen == [Observe(p, e.doc) EXCEPT !.final_usage_seen = @ \/ UsageIsFinal(e)]
        typed == Typed(seen, e)
        chosen == FoldLeft(Choice, typed, IF e.choices = {} THEN << >> ELSE CHOOSE cs \in e.choices : TRUE)
    IN  [chosen EXCEPT !.first_output_offset = IF Generated(e) /\ @ = {} THEN {offset} ELSE @]

-----------------------------------------------------------------------------
(* Anthropic counts cached input apart. *)
TotalInput(kind, usage) ==
    IF kind # "anthropic" THEN usage.input
    ELSE {n + Get0(usage.cached) + Get0(usage.created) : n \in usage.input}

(* Mutant of UsageComplete: provisional counts of a start event will do. *)
UsageCompleteAtTheEnd(p, usage) == p.terminal /\ usage.input # {} /\ usage.output # {}

UsageComplete(p, usage) ==
    p.terminal /\ p.final_usage_seen /\ usage.input # {} /\ usage.output # {}

(* A tool call is kept under a string such as "anthropic:2" or             *)
(* "chat:0:10"; its key here has the numbers in that string.  Strings are  *)
(* ordered by their characters, the colon coming after the digits, so 10   *)
(* is before 2.  Indices have at most two digits.                          *)
Characters(key) ==
    FlattenSeq([i \in DOMAIN key |->
        (IF i = 1 THEN << >> ELSE <<10>>) \o
        (IF key[i] < 10 THEN <<key[i]>> ELSE <<key[i] \div 10, key[i] % 10>>)])
KeyBefore(a, b) ==
    LET x == Characters(a)
        y == Characters(b)
    IN  \E n \in 0 .. Len(x) :
          /\ n < Len(y) /\ SubSeq(x, 1, n) = SubSeq(y, 1, n)
          /\ n = Len(x) \/ x[n + 1] < y[n + 1]
ToolCalls(tools) ==
    LET keys == SetToSortSeq(DOMAIN tools, KeyBefore)
    IN  [i \in DOMAIN keys |-> tools[keys[i]]]

(* The texts in the order of their keys. *)
JoinTexts(texts) ==
    LET Before(a, b) == a[1] < b[1] \/ (a[1] = b[1] /\ a[2] < b[2])
    IN  FlattenSeq([i \in 1..Cardinality(DOMAIN texts) |->
                       texts[SetToSortSeq(DOMAIN texts, Before)[i]]])

Finish(p, kind) ==
    LET usage == [p.usage EXCEPT !.input = TotalInput(kind, p.usage)]
    IN  [usage |-> usage, usage_complete |-> UsageComplete(p, usage),
         tool_calls |-> ToolCalls(p.tools), tool_calls_truncated |-> p.truncated, error |-> p.error,
         model |-> p.model, text |-> JoinTexts(p.texts),
         first_output_offset |-> p.first_output_offset]

(* A body that is one JSON document, and one that is a stream whose events *)
(* end at the given offsets; a decoder error keeps what came before.       *)
ParseDocument(doc, kind) ==
    [stream_complete |-> {}] @@
    Finish([Terminal(CollectTools(Observe(Start, doc), doc)) EXCEPT !.final_usage_seen = TRUE], kind)

ParseStream(events, kind) ==
    LET p == FoldLeftDomain(LAMBDA acc, i : Event(acc, events[i], i), Start, events)
    IN  [stream_complete |-> {p.terminal}] @@ Finish(p, kind)
=============================================================================
