------------------------------ MODULE Redaction ------------------------------
(***************************************************************************)
(* What redaction.rs keeps of headers and URIs.  A header name is the      *)
(* sequence of pieces that make it up, in lower case as HeaderMap has it;  *)
(* what the code looks for in a name is a piece of its own, so "xtokens"   *)
(* is <<"x", "token", "s">>.  A value is [utf8, scheme, secret, length]:   *)
(* scheme is what precedes the first space, secret the rest.  A digest is  *)
(* modelled by what it determines, the value itself, and never reveals it. *)
(* Something that may be missing is a set with one member or none.         *)
(***************************************************************************)
EXTENDS Naturals, Sequences, SequencesExt

First(a, b) == IF a # {} THEN a ELSE b
Sha256(v) == [digest |-> v]

(* In the order in which the code looks for them. *)
CredentialHeaders == << <<"authorization">>, <<"x-", "api-key">>, <<"api-key">>,
    <<"openai-", "api-key">>, <<"anthropic-", "api-key">>, <<"x-", "goog-", "api-key">> >>

SecretWords == {"api-key", "apikey", "token", "secret", "password"}
SecretNames == {<<"authorization">>, <<"proxy-", "authorization">>, <<"cookie">>, <<"set-", "cookie">>}

(* A configured candidate is a name or, with star, the start of one; with  *)
(* blanks around it, it is neither: no name has any, and none ends a star. *)
HeaderNameMatches(name, candidate) ==
    /\ ~candidate.padded
    /\ name = candidate.name \/ (candidate.star /\ IsPrefix(candidate.name, name))

(* Mutant of IsSensitiveHeader: the name must be the word it should contain. *)
IsSensitiveHeaderWhole(name, cfg) ==
    \/ \E c \in cfg.sensitive_headers : HeaderNameMatches(name, c)
    \/ Len(name) = 1 /\ Head(name) \in SecretWords
    \/ name \in SecretNames

IsSensitiveHeader(name, cfg) ==
    \/ \E c \in cfg.sensitive_headers : HeaderNameMatches(name, c)
    \/ ToSet(name) \cap SecretWords # {}
    \/ name \in SecretNames

-----------------------------------------------------------------------------
(* A URI is [parses, user, path, query, fragment]: query is an option of a *)
(* sequence of [name, value] pairs.  A pair without "=" is all name.       *)
RedactQueryString(query) ==
    [i \in DOMAIN query |-> [query[i] EXCEPT !.value = {"REDACTED"}]]

RedactUriQueryValues(uri) ==
    [uri EXCEPT !.user = IF uri.parses THEN {} ELSE @,
                !.query = {RedactQueryString(q) : q \in @},
                !.fragment = {}]

RedactedValue(value, hash) ==
    [form |-> "redacted", length |-> value.length, sha256 |-> hash,
     scheme |-> value.scheme \cap {"bearer", "basic"}]

RedactUpstreamHeader(uri) ==
    IF ~uri.parses THEN [form |-> "plain", value |-> uri]
    ELSE [form |-> "url", value |-> RedactUriQueryValues(uri),
          sha256 |-> IF uri.user = {} THEN {} ELSE {Sha256(uri)}]

(* to_str fails on a value that is not UTF-8, which then reads the same as any other. *)
ValueText(value) ==
    IF value.utf8 THEN value
    ELSE [utf8 |-> FALSE, scheme |-> {}, secret |-> "<non-utf8>", length |-> 10]

-----------------------------------------------------------------------------
(* headers is a sequence of [name, value], repeated names included: get    *)
(* takes the first of a name, the JSON object keeps the last.              *)
Get(headers, name) ==
    LET at == {i \in DOMAIN headers : headers[i].name = name}
    IN  {headers[i].value : i \in {j \in at : \A k \in at : j <= k}}
LastOf(headers, name) == Get(Reverse(headers), name)

CredentialScopeOf(headers) ==
    FoldLeft(LAMBDA found, name : First(found, Get(headers, name)), {}, CredentialHeaders)

(* The headers handed to the plugins and, of older journal records, the    *)
(* only trace of the credential.                                           *)
HeadersToJson(headers) ==
    [n \in {headers[i].name : i \in DOMAIN headers} |->
        CHOOSE v \in {ValueText(w) : w \in LastOf(headers, n)} : TRUE]

CredentialScopeFromHeaders(json) ==
    LET found == FoldLeft(LAMBDA acc, name : First(acc, IF name \in DOMAIN json THEN {json[name]} ELSE {}),
                          {}, CredentialHeaders)
    IN  {Sha256(v) : v \in {w \in found : w.utf8}}

StoredHeader(name, value, cfg) ==
    IF IsSensitiveHeader(name, cfg)
    THEN RedactedValue(value, IF cfg.store_header_hash THEN {Sha256(value)} ELSE {})
    ELSE IF name = cfg.upstream_header /\ value.utf8
    THEN RedactUpstreamHeader(value.secret)
    ELSE [form |-> "plain", value |-> value]

RedactHeaders(headers, cfg) ==
    LET scope == {Sha256(v) : v \in CredentialScopeOf(headers)}
    IN  [json |-> [n \in {headers[i].name : i \in DOMAIN headers} |->
                      StoredHeader(n, CHOOSE v \in {ValueText(w) : w \in LastOf(headers, n)} : TRUE, cfg)],
         first_secret_hash |-> IF cfg.store_header_hash THEN scope ELSE {},
         credential_scope_hash |-> scope]
=============================================================================
