---------------------------- MODULE OAuthProvider ----------------------------
(***************************************************************************)
(* What the OAuth client of auth.rs makes of a provider's answers: the     *)
(* discovery document, the token and the userinfo, and whom the            *)
(* configuration lets in.  A reply says what was got: "nothing" (not sent, *)
(* timed out), "status" (not a success), "unread" (broken off, timed out,  *)
(* over the limit of a JSON body, not JSON) or a "document".  Something    *)
(* that may be missing is a set with one member or none.  An address and   *)
(* an entry of a list are texts, sequences of pieces: names, in capitals   *)
(* or not, and the characters that are told apart.                         *)
(***************************************************************************)
EXTENDS Naturals, Sequences, SequencesExt

Got == {"nothing", "status", "unread", "document"}

(* An endpoint is good or bad: unparsable, without a host, not http(s) or  *)
(* with credentials.                                                       *)
Endpoint == {{}, {"good"}, {"bad"}}
Metadata == [authorization : Endpoint, token : Endpoint, userinfo : Endpoint]

(* The endpoints used when discovery cannot be reached or is refused. *)
Fallback == [authorization |-> {"good"}, token |-> {"good"}, userinfo |-> {"good"}]

ValidateOauthMetadataEndpoints(md) == \A f \in DOMAIN md : "bad" \notin md[f]

(* The metadata, if any: an unreadable success is an error. *)
OauthMetadata(reply) ==
    LET md == IF reply.got = "document" THEN reply.metadata ELSE Fallback
    IN  IF reply.got # "unread" /\ ValidateOauthMetadataEndpoints(md) THEN {md} ELSE {}

EnforceOauthEmailVerified(cfg, info) ==
    cfg.require_email_verified => info.email_verified = {TRUE}

(* to_ascii_lowercase *)
Lower(text) ==
    [i \in DOMAIN text |-> CASE text[i] = "ANN" -> "ann" [] text[i] = "IN" -> "in" [] OTHER -> text[i]]

(* What follows the last "@" of a text, if it has one. *)
DomainOf(text) ==
    {SubSeq(text, i + 1, Len(text)) :
        i \in {k \in DOMAIN text : text[k] = "@" /\ \A j \in k + 1 .. Len(text) : text[j] # "@"}}

(* Mutant of EnforceOauthAllowlist: the domain is what follows the first "@". *)
EnforceOauthAllowlistFirst(cfg, email) ==
    LET at == {k \in DOMAIN email : email[k] = "@" /\ \A j \in 1 .. k - 1 : email[j] # "@"}
        upto == {k \in DOMAIN email : email[k] = "@" /\ k \notin at} \cup {Len(email) + 1}
        domain == {SubSeq(email, i + 1, (CHOOSE k \in upto : \A l \in upto : k <= l) - 1) : i \in at}
    IN  \/ \E allowed \in cfg.allowed_emails : Lower(allowed) = Lower(email)
        \/ \E allowed \in cfg.allowed_domains : Lower(allowed) \in domain
        \/ cfg.allowed_emails = {} /\ cfg.allowed_domains = {}

(* The address has been lowered, the entries are compared ignoring case. *)
EnforceOauthAllowlist(cfg, email) ==
    \/ \E allowed \in cfg.allowed_emails : Lower(allowed) = Lower(email)
    \/ \E allowed \in cfg.allowed_domains : Lower(allowed) \in {Lower(d) : d \in DomainOf(email)}
    \/ cfg.allowed_emails = {} /\ cfg.allowed_domains = {}

-----------------------------------------------------------------------------
(* Which entries the configuration may list (config.rs); their lengths are *)
(* left out.                                                               *)
ValidAllowlistValue(text) ==
    text # << >> /\ " " \notin {Head(text), Last(text)} /\ "non-ascii" \notin ToSet(text)

ValidAllowedDomain(text) ==
    /\ ValidAllowlistValue(text)
    /\ ToSet(text) \cap {" ", "*", ":", "/", "@"} = {}
    /\ \A i \in DOMAIN text : text[i] \in {".", "-"} =>
          i > 1 /\ i < Len(text) /\ (text[i] = "." => {text[i - 1], text[i + 1]} \cap {".", "-"} = {})

ValidAllowedEmail(text) ==
    /\ ValidAllowlistValue(text) /\ " " \notin ToSet(text)
    /\ \E i \in DOMAIN text :
          /\ {k \in DOMAIN text : text[k] = "@"} = {i}
          /\ i > 1 /\ ValidAllowedDomain(SubSeq(text, i + 1, Len(text)))

-----------------------------------------------------------------------------
(* The user a code stands for, if any; "within": identities fit their      *)
(* limit.                                                                  *)
FinishOauth(cfg, discovery, token, info) ==
    {email \in {Lower(e) : e \in info.email} :
        /\ \E md \in OauthMetadata(discovery) : md.token # {} /\ md.userinfo # {}
        /\ token.got = "document" /\ token.access_token
        /\ info.got = "document"
        /\ EnforceOauthEmailVerified(cfg, info)
        /\ EnforceOauthAllowlist(cfg, email)
        /\ info.within}
=============================================================================
