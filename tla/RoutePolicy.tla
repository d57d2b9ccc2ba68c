----------------------------- MODULE RoutePolicy -----------------------------
(***************************************************************************)
(* Which requests are forwarded, where to, and which are captured          *)
(* (routing.rs, the allowlists of config.rs).  A path is the sequence of   *)
(* its characters, an escape being one: "/", ".", "%2e", "%2f", "%5c", the *)
(* backslash "\\", letters and escaped letters such as "%61".              *)
(***************************************************************************)
EXTENDS Naturals, Sequences, SequencesExt, FiniteSetsExt

Dots == {".", "%2e"}
Separators == {"/", "\\"}

(* A path cut at each of the given characters, as split does. *)
Split(path, at) ==
    FoldLeft(LAMBDA segments, c :
                IF c \in at THEN Append(segments, << >>)
                ELSE [segments EXCEPT ![Len(segments)] = Append(@, c)],
             << << >> >>, path)

(* What is left of a segment after its leading dots. *)
AfterDots(segment) ==
    LET n == CHOOSE k \in 0..Len(segment) :
                /\ \A i \in 1..k : segment[i] \in Dots
                /\ k = Len(segment) \/ segment[k + 1] \notin Dots
    IN  SubSeq(segment, n + 1, Len(segment))

(* Mutant of SegmentIsAmbiguous: an escaped dot is no dot. *)
SegmentIsAmbiguousUnescaped(segment) ==
    IF AfterDots(segment) = << >> THEN segment \in {<<".">>, <<".", ".">>}
    ELSE ToSet(AfterDots(segment)) \cap {"%2f", "%5c"} # {}

SegmentIsAmbiguous(segment) ==
    IF AfterDots(segment) = << >> THEN Len(segment) \in {1, 2}
    ELSE ToSet(AfterDots(segment)) \cap {"%2f", "%5c"} # {}

UnambiguousPath(path) ==
    /\ "\\" \notin ToSet(path)
    /\ \A i \in DOMAIN Split(path, {"/"}) : ~SegmentIsAmbiguous(Split(path, {"/"})[i])

(* Normalising: both slashes separate, and dot segments are resolved.      *)
NormalizedSegments(path) ==
    FoldLeft(LAMBDA out, s :
                CASE Len(s) = 1 /\ ToSet(s) \subseteq Dots -> out
                  [] Len(s) = 2 /\ ToSet(s) \subseteq Dots -> IF out = << >> THEN out ELSE Front(out)
                  [] OTHER -> Append(out, s),
             << >>, Split(path, Separators))

(* A URL library leaves escapes as they are; an upstream decodes them all  *)
(* before it looks at the path.                                            *)
Decoded(chars) ==
    LET meaning == [e \in {"%2e", "%2f", "%5c", "%61"} |->
                       CASE e = "%2e" -> "." [] e = "%2f" -> "/" [] e = "%5c" -> "\\" [] e = "%61" -> "a"]
    IN  [i \in DOMAIN chars |-> IF chars[i] \in DOMAIN meaning THEN meaning[chars[i]] ELSE chars[i]]
UpstreamSegments(path) == NormalizedSegments(Decoded(path))

-----------------------------------------------------------------------------
(* Allowlist paths and prefixes are sequences of segments; "/" is the      *)
(* empty one.                                                              *)
PathPrefixMatches(prefix, segments) == IsPrefix(prefix, segments)
(* Without the empty segments at either end (trim_matches). *)
Trimmed(segments) ==
    LET full == {i \in DOMAIN segments : segments[i] # ""}
    IN  IF full = {} THEN << >> ELSE SubSeq(segments, Min(full), Max(full))

(* A configured prefix, if it is a plain path: [absolute, plain, segments]. *)
ParseProxyPathPrefix(entry) ==
    IF entry.absolute /\ entry.plain THEN {Trimmed(entry.segments)} ELSE {}

PathAllows(prefixes, segments) == \E p \in prefixes : PathPrefixMatches(p, segments)

Inference == { <<"chat", "completions">>, <<"completions">>, <<"responses">>, <<"messages">>,
    <<"embeddings">>, <<"images">>, <<"audio">>, <<"moderations">>, <<"rerank">>, <<"realtime">> }
Supporting == { <<"models">>, <<"files">>, <<"batches">>, <<"assistants">>, <<"threads">>,
    <<"fine_tuning">>, <<"model", "info">>, <<"key", "info">>, <<"user", "info">>, <<"health">> }
LitellmCapturePrefixes == Inference \cup {<<"v1">> \o p : p \in Inference}
LitellmForwardPrefixes == {<<"v1">>} \cup Inference \cup Supporting

(* path_prefixes and capture_path_prefixes are options of sets. *)
Chosen(option, default) == IF option = {} THEN default ELSE CHOOSE s \in option : TRUE
EffectivePathPrefixes(cfg) ==
    Chosen(cfg.path_prefixes, IF cfg.preset = "custom" THEN {<<"v1">>} ELSE LitellmForwardPrefixes)
EffectiveCapturePrefixes(cfg) ==
    Chosen(cfg.capture_path_prefixes,
           IF cfg.preset = "custom" THEN EffectivePathPrefixes(cfg) ELSE LitellmCapturePrefixes)

Captures(cfg, method, segments, websocket) ==
    /\ PathAllows(EffectiveCapturePrefixes(cfg), segments)
    /\ cfg.preset = "litellm" /\ cfg.capture_path_prefixes = {} => method = "POST" \/ websocket

(* The header that names another upstream is refused unless it is one URL  *)
(* without a user; its value is as in Redaction.                           *)
OverrideAccepted(headers, name) ==
    LET values == SelectSeq(headers, LAMBDA h : h.name = name)
    IN  /\ Len(values) <= 1
        /\ \A i \in DOMAIN values : /\ values[i].value.utf8
                                     /\ values[i].value.secret.parses /\ values[i].value.secret.user = {}

-----------------------------------------------------------------------------
(* A URL is [scheme, host, port, path, credentials, query, fragment]: port *)
(* is the known default when none is written, a host without characters is *)
(* none.                                                                   *)
(*                                                                         *)
(* Upstreams.  An entry without a scheme is a host with an optional port.  *)
Schemes == {"http", "https", "ws", "wss"}
ParseUpstreamAllowEntry(entry) ==
    IF entry.form = "url"
    THEN IF /\ entry.url.scheme \in Schemes /\ entry.url.host # ""
            /\ ~entry.url.credentials /\ entry.url.query = {} /\ ~entry.url.fragment
         THEN {[scheme |-> {entry.url.scheme}, host |-> entry.url.host, port |-> {entry.url.port},
                path |-> Trimmed(entry.url.path)]}
         ELSE {}
    ELSE {[scheme |-> {}, host |-> entry.host, port |-> entry.port, path |-> << >>]}

EntryMatches(entry, url) ==
    /\ entry.scheme # {} => url.scheme \in entry.scheme
    /\ url.host = entry.host
    /\ entry.port # {} => url.port \in entry.port
    /\ PathPrefixMatches(entry.path, url.path)

UpstreamAllows(entries, url) ==
    /\ url.scheme \in Schemes
    /\ entries = {} \/ \E e \in entries : EntryMatches(e, url)

-----------------------------------------------------------------------------
(* Plugin lookups.  An entry is [url, any_query]: "?*" at its end accepts  *)
(* any query.                                                              *)
ValidPluginUrl(entry) ==
    /\ entry.url.scheme \in {"http", "https"} /\ entry.url.host # ""
    /\ ~entry.url.credentials /\ ~entry.url.fragment
    /\ entry.any_query => entry.url.query = {}
    /\ entry.url.path = << >> \/ Last(entry.url.path) # "*"

AllowedUrlAllows(entry, url) ==
    entry.url = IF entry.any_query THEN [url EXCEPT !.query = {}] ELSE url
=============================================================================
