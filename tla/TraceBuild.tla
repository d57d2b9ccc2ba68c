----------------------------- MODULE TraceBuild -----------------------------
(***************************************************************************)
(* build_trace (trace.rs): how a captured event, what the parsers found in *)
(* its bodies and what the plugins said become the record to store.  A     *)
(* text is a sequence of characters: "w" is two bytes wide, NUL must not   *)
(* reach the database.  The tags the code itself adds are single           *)
(* characters.  Something that may be missing is a set with one member or  *)
(* none.                                                                   *)
(***************************************************************************)
EXTENDS Redaction, TLC

CONSTANTS MaxTags, MaxTagBytes, MaxMessages, MaxRoleBytes, MaxContentBytes,
          MaxIdentityBytes

NUL == "NUL"
MESSAGES_TRUNCATED == <<"M">>
ENRICHMENT_TRUNCATED == <<"E">>
SESSION_UNLINKED == <<"U">>
TOOL_CALLS_TRUNCATED == <<"T">>

Bytes(text) == FoldLeft(LAMBDA n, c : n + IF c = "w" THEN 2 ELSE 1, 0, text)
HasNul(text) == NUL \in ToSet(text)
StripNul(text) == Remove(text, NUL)

(* The longest prefix of whole characters within the limit. *)
TruncateUtf8(text, max) ==
    SubSeq(text, 1, CHOOSE n \in 0..Len(text) :
        /\ Bytes(SubSeq(text, 1, n)) <= max
        /\ n = Len(text) \/ Bytes(SubSeq(text, 1, n + 1)) > max)

(* A text as it is stored, and whether that took anything away. *)
Bounded(text, max) == TruncateUtf8(StripNul(text), max)
Changed(text, max) == HasNul(text) \/ Bytes(StripNul(text)) > max

BoundOptionalText(value, max) ==
    [value |-> {Bounded(t, max) : t \in {u \in value : StripNul(u) # << >>}},
     modified |-> \E t \in value : Changed(t, max)]

-----------------------------------------------------------------------------
(* Mutant of TooManyTags: the room the marks take is forgotten. *)
TooManyTagsIgnoringMarks(normalized, marks) == Len(normalized) > MaxTags

TooManyTags(normalized, marks) == Len(normalized) > MaxTags - Len(marks)

(* Empty tags go unnoticed, duplicates merge, the marks of a loss always   *)
(* find room.                                                              *)
BoundTraceTags(tags, messages_truncated, identity_truncated) ==
    LET kept == SelectSeq([i \in DOMAIN tags |-> Bounded(tags[i], MaxTagBytes)],
                          LAMBDA t : t # << >>)
        normalized == FoldLeft(LAMBDA out, t : IF t \in ToSet(out) THEN out ELSE Append(out, t),
                               << >>, kept)
        lost == \E i \in DOMAIN tags : Changed(tags[i], MaxTagBytes)
        marks == IF messages_truncated THEN <<MESSAGES_TRUNCATED>> ELSE << >>
        required == marks \o
            (IF identity_truncated \/ lost \/ TooManyTags(normalized, marks)
             THEN <<ENRICHMENT_TRUNCATED>> ELSE << >>)
        user == SelectSeq(normalized, LAMBDA t : t \notin ToSet(required))
        room == MaxTags - Len(required)
    IN  SubSeq(user, 1, IF Len(user) < room THEN Len(user) ELSE room) \o required

-----------------------------------------------------------------------------
(* Messages: the first half and the newest of a long conversation. *)
KeepEnds(messages) ==
    LET start == MaxMessages \div 2
    IN  IF Len(messages) <= MaxMessages THEN messages
        ELSE SubSeq(messages, 1, start) \o
             SubSeq(messages, Len(messages) - (MaxMessages - start) + 1, Len(messages))

BoundSessionMessages(messages) ==
    LET kept == KeepEnds(messages)
    IN  [messages |-> [i \in DOMAIN kept |->
            [role |-> Bounded(kept[i].role, MaxRoleBytes),
             content |-> Bounded(kept[i].content, MaxContentBytes),
             content_truncated |-> kept[i].content_truncated \/ Changed(kept[i].content, MaxContentBytes)]],
         truncated |-> \/ Len(messages) > MaxMessages
                       \/ \E i \in DOMAIN kept : \/ Changed(kept[i].role, MaxRoleBytes)
                                                 \/ Changed(kept[i].content, MaxContentBytes)
                                                 \/ kept[i].content_truncated]

-----------------------------------------------------------------------------
(* Plugins.  A metadata value is [object, fields]; the first session and   *)
(* user named win, also among the plugins of one hook (effects.merge).     *)
ObjectOrEmpty(metadata) ==
    IF metadata = {} THEN << >>
    ELSE LET m == CHOOSE v \in metadata : TRUE
         IN  IF m.object THEN m.fields ELSE [k \in {"value"} |-> m]

MergeMetadata(old, new) ==
    [k \in DOMAIN old \cup DOMAIN new |->
        IF k \notin DOMAIN new THEN old[k]
        ELSE IF k \in DOMAIN old /\ old[k].object /\ new[k].object
        THEN [object |-> TRUE, fields |-> new[k].fields @@ old[k].fields]
        ELSE new[k]]

(* What the plugins of one hook said, in their order: [plugin, fate,       *)
(* custom_fields, tags, warnings, session_key, user_id, user_name]; one    *)
(* that failed left a warning, one may have nothing to say.                *)
NoEffects == [metadata |-> << >>, tags |-> << >>, warnings |-> << >>, session_key |-> {},
              user_id |-> {}, user_name |-> {}]

EffectsMerge(e, o) ==
    [e EXCEPT !.metadata = IF o.custom_fields = << >> THEN @
                           ELSE (o.plugin :> [object |-> TRUE, fields |-> o.custom_fields]) @@ @,
              !.tags = @ \o o.tags, !.warnings = @ \o o.warnings,
              !.session_key = First(@, o.session_key),
              !.user_id = First(@, o.user_id), !.user_name = First(@, o.user_name)]

RunHook(outputs) ==
    FoldLeft(LAMBDA e, o :
                CASE o.fate = "said" -> EffectsMerge(e, o)
                  [] o.fate = "failed" -> [e EXCEPT !.warnings = Append(@, o.plugin)]
                  [] o.fate = "silent" -> e,
             NoEffects, outputs)

MergeEffects(t, e) ==
    [t EXCEPT !.metadata = MergeMetadata(@, e.metadata), !.tags = @ \o e.tags,
              !.warnings = @ \o e.warnings,
              !.session_key = First(@, e.session_key),
              !.user_id = First(@, e.user_id), !.user_name = First(@, e.user_name)]

(* on_request_start, then on_response_headers and on_response_end if there *)
(* was a response.                                                         *)
RunHooks(t, event, hooks) ==
    LET ran == IF ~event.run_plugins THEN << >>
               ELSE IF event.status = {} THEN SubSeq(hooks, 1, 1) ELSE hooks
    IN  FoldLeft(MergeEffects, t, ran)

-----------------------------------------------------------------------------
ScopedSessionKey(upstream, credential, hint, id) ==
    IF hint \in {{}, {<< >>}} THEN [request |-> id]
    ELSE [session |-> Sha256(<<upstream.origin, credential, hint>>)]

(* Mutant of CredentialOf: the scope is only known if hashes are stored. *)
CredentialOfStored(event) ==
    First(event.api_key_hash, CredentialScopeFromHeaders(event.plugin_request_headers))

(* The credential the event was captured with; older journal records only  *)
(* have the headers the plugins were to see.                               *)
CredentialOf(event) ==
    First(First(event.credential_scope_hash, event.api_key_hash),
          CredentialScopeFromHeaders(event.plugin_request_headers))

(* When the first chunk that reaches the first output event had arrived;   *)
(* timings are pairs of a chunk's end and its time, ends in order.         *)
Ttft(event, parsed) ==
    LET Reaching(offset) == {i \in DOMAIN event.response_chunk_timings :
                                event.response_chunk_timings[i].end >= offset}
        FirstOf(at) == {i \in at : \A j \in at : i <= j}
    IN  First(event.ttft_ms,
              {event.response_chunk_timings[i].elapsed :
                  i \in UNION {FirstOf(Reaching(o)) : o \in parsed.first_output_offset}})

IncompleteStream(event, parsed) ==
    /\ parsed.stream_complete = {FALSE} /\ ~event.response_body_truncated
    /\ event.status = {"ok"} /\ event.content_type = {"text/event-stream"}
    /\ parsed.request_kind \in {"chat", "responses", "anthropic"}

(* A text column: NULs stripped, an empty text is none. *)
Column(value) == {StripNul(t) : t \in value} \ {<< >>}

BuildTrace(event, parsed, hooks) ==
    LET t == RunHooks([metadata |-> ObjectOrEmpty(event.plugin_metadata),
                       tags |-> event.tags, warnings |-> << >>,
                       session_key |-> event.session_key,
                       user_id |-> event.user_id, user_name |-> event.user_name],
                      event, hooks)
        hint == First(t.session_key, parsed.session_key_hint)
        user_id == BoundOptionalText(t.user_id, MaxIdentityBytes)
        user_name == BoundOptionalText(t.user_name, MaxIdentityBytes)
        messages == BoundSessionMessages(event.messages \o parsed.messages)
        tags == t.tags \o (IF hint = {} THEN <<SESSION_UNLINKED>> ELSE << >>)
                       \o (IF parsed.tool_calls_truncated THEN <<TOOL_CALLS_TRUNCATED>> ELSE << >>)
    IN  [session_key |-> ScopedSessionKey(event.upstream, CredentialOf(event), hint, event.id),
         user_id |-> user_id.value, user_name |-> user_name.value,
         messages |-> messages.messages,
         tags |-> BoundTraceTags(tags, messages.truncated, user_id.modified \/ user_name.modified),
         ttft_ms |-> Ttft(event, parsed),
         error |-> Column(First(First(event.error, parsed.error),
                                IF IncompleteStream(event, parsed) THEN {<<"i">>} ELSE {})),
         model |-> Column(First(event.model, parsed.model)),
         request_kind |-> First(event.request_kind, {parsed.request_kind}),
         usage |-> parsed.usage,
         usage_complete |-> parsed.usage_complete /\ ~event.response_body_truncated,
         metadata |-> t.metadata, warnings |-> t.warnings]

(* Rates are per token: [input, output, cache_read, cache_write], the      *)
(* latter two options.  Input counts the cached and the written tokens; a  *)
(* cost is not estimated if that cannot be or a rate it needs is missing.  *)
Tokens0(option) == IF option = {} THEN 0 ELSE CHOOSE n \in option : TRUE
EstimateMicrousd(price, usage) ==
    LET cached == Tokens0(usage.cached)
        written == Tokens0(usage.created)
        Rate(count, rate) == IF count = 0 THEN {0} ELSE rate
    IN  {(input - cached - written) * price.input + output * price.output + cached * read + written * write :
            <<input, output, read, write>> \in
                {i \in usage.input : i >= cached + written} \X usage.output
                \X Rate(cached, price.cache_read) \X Rate(written, price.cache_write)}

(* build_priced_trace: only a complete usage is priced. *)
EstimatedCost(trace, prices) ==
    IF ~trace.usage_complete THEN {}
    ELSE UNION {EstimateMicrousd(prices[m], trace.usage) : m \in trace.model \cap DOMAIN prices}
=============================================================================
