--------------------------- MODULE StructuredQuery ---------------------------
(***************************************************************************)
(* The structured query API (storage/query.rs) and the paging of the read  *)
(* endpoints (storage/paging.rs): which queries are accepted and which     *)
(* rows they select.  SQL is modelled by its three-valued logic.           *)
(***************************************************************************)
EXTENDS Integers, Sequences, SequencesExt, FiniteSetsExt

CONSTANTS MaxFields, MaxFilters, MaxOrderBy, MaxStringBytes, MaxJsonBytes,
          MaxSegments, MaxSegmentBytes

-----------------------------------------------------------------------------
(* The datasets: the fields of each by filter kind, and the defaults. *)
Fields(dataset) ==
    CASE dataset = "requests" ->
           [int |-> {"ttfb_ms", "input_tokens", "output_tokens", "cached_input_tokens",
                     "cache_creation_input_tokens", "estimated_cost_microusd", "tool_call_count",
                     "status", "ttft_ms", "duration_ms", "bytes_in", "bytes_out",
                     "request_body_bytes", "response_body_bytes"},
            bool |-> {"usage_complete", "request_body_truncated", "response_body_truncated"},
            uuid |-> {"id", "session_id"}, timestamp |-> {"started_at", "completed_at"},
            text |-> {"method", "original_uri", "upstream_url", "upstream_host", "error",
                      "request_kind", "model", "api_key_hash", "session_key", "content_type"},
            json |-> {"request_headers", "response_headers", "plugin_metadata"},
            text_array |-> {"tags"}]
      [] dataset = "sessions" ->
           [uuid |-> {"id"}, text |-> {"session_key", "user_id", "user_name"},
            timestamp |-> {"first_seen", "last_seen"}, json |-> {"summary"}]
      [] dataset = "messages" ->
           [int |-> {"id"}, uuid |-> {"request_id", "session_id"}, text |-> {"role", "content"},
            bool |-> {"content_truncated"}, timestamp |-> {"created_at"}]
      [] dataset = "rollups_minute" ->
           [timestamp |-> {"bucket", "last_seen"},
            int |-> {"total", "errors", "captured_bytes", "duration_count", "duration_sum_ms",
                     "ttft_count", "ttft_sum_ms"}]
Datasets == {"requests", "sessions", "messages", "rollups_minute"}
Names(dataset) == UNION {Fields(dataset)[k] : k \in DOMAIN Fields(dataset)}

DefaultFields(dataset) ==
    CASE dataset = "requests" -> <<"id", "started_at", "method", "original_uri", "upstream_host",
             "status", "request_kind", "model", "duration_ms", "bytes_in", "bytes_out", "tags">>
      [] dataset = "sessions" -> <<"id", "session_key", "first_seen", "last_seen", "user_id", "user_name">>
      [] dataset = "messages" -> <<"id", "request_id", "session_id", "role", "content", "created_at">>
      [] dataset = "rollups_minute" -> <<"bucket", "last_seen", "total", "errors", "captured_bytes",
             "duration_count", "duration_sum_ms", "ttft_count", "ttft_sum_ms">>
DefaultOrder(dataset) ==
    [requests |-> "started_at", sessions |-> "last_seen", messages |-> "created_at",
     rollups_minute |-> "bucket"][dataset]

(* A requested field is [name, path]: the path of segments after           *)
(* "plugin_metadata.", or none; a segment is [bytes, plain].               *)
ValidSegment(s) == s.bytes # 0 /\ s.bytes <= MaxSegmentBytes /\ s.plain
PluginMetadataPath(field) ==
    \E path \in field.path : Len(path) <= MaxSegments /\ \A i \in DOMAIN path : ValidSegment(path[i])

(* The filter kind of a field, if the dataset has it. *)
QueryField(dataset, field) ==
    IF field.name \in Names(dataset)
    THEN {k \in DOMAIN Fields(dataset) : field.name \in Fields(dataset)[k]}
    ELSE IF dataset = "requests" /\ PluginMetadataPath(field) THEN {"json_path"} ELSE {}

-----------------------------------------------------------------------------
(* What the schema endpoint says of a kind. *)
Operators(kind) ==
    LET null == {"is_null", "is_not_null"}
        scalar == {"eq", "ne", "gt", "gte", "lt", "lte"} \cup null
    IN  CASE kind = "text" -> scalar \cup {"contains"}
          [] kind \in {"int", "timestamp", "uuid"} -> scalar
          [] kind = "bool" -> {"eq", "ne"} \cup null
          [] kind \in {"json", "json_path"} -> {"eq", "ne", "contains"} \cup null
          [] kind = "text_array" -> {"contains"} \cup null
Kinds == {"text", "int", "bool", "timestamp", "uuid", "json", "json_path", "text_array"}
QueryOps == {"eq", "ne", "contains", "gt", "gte", "lt", "lte", "is_null", "is_not_null"}

(* A JSON value is [json, bytes, of, v]: its JSON type, its size, what a   *)
(* string spells, and the value for comparisons.  Read from a request, a   *)
(* null is no value, the filter's value being an Option.                   *)
Received(value) == {x \in value : x.json # "null"}

ValueFits(kind, x) ==
    LET string == x.json = "string" /\ x.bytes <= MaxStringBytes
    IN  CASE kind \in {"text", "text_array"} -> string
          [] kind \in {"timestamp", "uuid"} -> string /\ x.of = kind
          [] kind = "int" -> x.json = "int"
          [] kind = "bool" -> x.json = "bool"
          [] OTHER -> x.bytes <= MaxJsonBytes

(* Mutant of HasSql: flags are compared like numbers. *)
HasSqlForFlags(kind, op) ==
    CASE kind = "text_array" -> op = "contains"
      [] kind \in {"json", "json_path"} -> op \in {"eq", "ne", "contains"}
      [] OTHER -> op \in {"eq", "ne", "gt", "gte", "lt", "lte"} \/ (op = "contains" /\ kind = "text")

(* Which operators a kind's append_..._filter has SQL for. *)
HasSql(kind, op) ==
    LET compares == op \in {"eq", "ne", "gt", "gte", "lt", "lte"}
    IN  CASE kind = "text" -> compares \/ op = "contains"
          [] kind \in {"int", "timestamp", "uuid"} -> compares
          [] kind = "bool" -> op \in {"eq", "ne"}
          [] kind \in {"json", "json_path"} -> op \in {"eq", "ne", "contains"}
          [] kind = "text_array" -> op = "contains"

(* Equality with a null, should one get here, is a test for null. *)
AsksForNull(op, value) == op \in {"eq", "ne"} /\ \E x \in value : x.json = "null"

Accepts(kind, op, value) ==
    \/ op \in {"is_null", "is_not_null"} \/ AsksForNull(op, value)
    \/ \E x \in value : ValueFits(kind, x) /\ HasSql(kind, op)

-----------------------------------------------------------------------------
(* A cell is an option of a value; a path may also hold a JSON null.       *)
(* A comparison with a missing value is neither true nor false.            *)
Compare(op, cell, x) ==
    CASE op = "eq" -> cell = x [] op = "ne" -> cell # x
      [] op = "gt" -> cell > x [] op = "gte" -> cell >= x
      [] op = "lt" -> cell < x [] op = "lte" -> cell <= x
      [] op = "contains" -> x \in 0..cell

JSON_NULL == 0
NullFilter(kind, cell, is_null) ==
    LET null == IF kind = "json_path" THEN cell \in {{}, {JSON_NULL}} ELSE cell = {}
    IN  is_null <=> null

Selects(kind, op, value, cell) ==
    CASE op \in {"is_null", "is_not_null"} -> NullFilter(kind, cell, op = "is_null")
      [] AsksForNull(op, value) -> NullFilter(kind, cell, op = "eq")
      [] OTHER -> \E c \in cell, x \in value : Compare(op, c, x.v)

-----------------------------------------------------------------------------
(* run_structured_query: the fields and the number of rows, or an error.   *)
Distinct(seq) == FoldLeft(LAMBDA out, f : IF f \in ToSet(out) THEN out ELSE Append(out, f), << >>, seq)
Clamp(n, low, high) == IF n < low THEN low ELSE IF n > high THEN high ELSE n

SelectedFields(dataset, requested) ==
    IF requested = {} THEN {[i \in DOMAIN DefaultFields(dataset) |->
                               [name |-> DefaultFields(dataset)[i], path |-> {}]]}
    ELSE {Distinct(fs) : fs \in {gs \in requested :
             /\ gs # << >> /\ Len(gs) <= MaxFields
             /\ \A i \in DOMAIN gs : QueryField(dataset, gs[i]) # {}}}

AcceptsQuery(q) ==
    /\ q.dataset \in Datasets
    /\ SelectedFields(q.dataset, q.fields) # {}
    /\ Len(q.order_by) <= MaxOrderBy
    /\ \A i \in DOMAIN q.order_by : QueryField(q.dataset, q.order_by[i]) # {}
    /\ Len(q.filters) <= MaxFilters
    /\ \A i \in DOMAIN q.filters :
          \E kind \in QueryField(q.dataset, q.filters[i].field) :
             Accepts(kind, q.filters[i].op, Received(q.filters[i].value))

-----------------------------------------------------------------------------
(* Paging: one row more than the page is fetched to see whether more       *)
(* follow.  Parameters are options.                                        *)
CONSTANTS DefaultLimit, MaxLimit, MaxOffset

Or0(option, default) == IF option = {} THEN default ELSE CHOOSE n \in option : TRUE
PageFrom(limit, offset) ==
    [limit |-> Clamp(Or0(limit, DefaultLimit), 1, MaxLimit),
     offset |-> Clamp(Or0(offset, 0), 0, MaxOffset)]

(* Mutant of FetchLimit: no row beyond the page is fetched. *)
FetchLimitExact(page) == page.limit

FetchLimit(page) == page.limit + 1

(* The rows of a page of the rows 1..total and the offset of the next. *)
ReadPage(page, total) ==
    LET fetched == {r \in 1..total : r > page.offset /\ r <= page.offset + FetchLimit(page)}
    IN  [rows |-> {r \in fetched : r <= page.offset + page.limit},
         next |-> IF Cardinality(fetched) > page.limit THEN {page.offset + page.limit} ELSE {}]
=============================================================================
