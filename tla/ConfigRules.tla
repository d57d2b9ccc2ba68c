----------------------------- MODULE ConfigRules -----------------------------
(***************************************************************************)
(* The configuration (config.rs): what the environment makes of the file,  *)
(* and which configurations the program starts with.  A configuration maps *)
(* every setting to the class of its value: a number is "negative" (if it  *)
(* is signed), "zero", "ok" or "over" its maximum, a list "empty", "good"  *)
(* or "bad" (some entry is invalid), a text "blank", "good" or "bad", an   *)
(* option also "none".  An address is <<ip, port, padded>>, a URL <<scheme,*)
(* host, origin>>, origin saying that it has no path, query or             *)
(* credentials; one that cannot be used is "bad" in its first place, a     *)
(* missing one "none".  Whitespace around a value is told where validation *)
(* trims it and a later reader does not: "padded" values of listen, of the *)
(* password hash and of the name of the override header.                   *)
(***************************************************************************)
EXTENDS OAuthProvider, Naturals, Sequences, SequencesExt, FiniteSetsExt

RateLimits == {"max_failures", "window_secs", "lockout_secs", "max_tracked_entries"}
ProxyLimits == {"proxy.timeout_secs", "max_request_body_bytes", "max_response_body_bytes",
    "max_websocket_message_bytes", "max_websocket_session_bytes"}
StorageLimits == {"rotate_check_interval_secs", "max_connections", "acquire_timeout_secs",
    "trace_queue_capacity", "trace_queue_max_bytes", "trace_worker_count", "journal.max_bytes",
    "journal.max_records", "retry_interval_secs", "retention_prune_interval_secs"}
Unsigned == RateLimits \cup ProxyLimits \cup StorageLimits \cup
    {"segment_uncompressed_bytes", "oauth.timeout_secs", "plugin_cache.ttl_secs",
     "plugin_cache.capacity", "rotate_size_bytes"}
Signed == {"retention_days", "retention_prune_batch_size", "compression_level", "session_ttl_hours"}
Flags == {"journal.enabled", "ui_enabled", "forward_cookies", "cookie_secure",
    "login_rate_limit.enabled", "oauth.enabled", "require_email_verified", "store_header_hash"}
Lists == {"allow_upstreams", "path_prefixes", "capture_path_prefixes", "allowed_emails",
    "allowed_domains", "sensitive_headers"}
Modes == {"deployment", "preset", "storage_backend"}
Documents == {"pricing", "plugins"}
Addresses == {"listen", "admin_listen"}
Urls == {"public_url", "proxy_public_url"}
Texts == {"postgres_url", "journal.directory", "default_upstream", "upstream_header",
    "filesystem_root", "username", "password", "password_hash", "issuer_url", "client_id",
    "client_secret", "redirect_url", "metrics_bearer_token"}
Settings == Unsigned \cup Signed \cup Flags \cup Lists \cup Modes \cup Documents
    \cup Addresses \cup Urls \cup Texts

SomeAddresses == {<<"bad", 0, FALSE>>, <<"lo", 0, FALSE>>, <<"lo", 1, FALSE>>, <<"any", 1, FALSE>>,
                  <<"lo", 2, FALSE>>, <<"lo", 2, TRUE>>}
NoAddress == <<"none", 0, FALSE>>
SomeUrls == {<<"bad", "", FALSE>>, <<"http", "a", TRUE>>, <<"https", "a", TRUE>>,
             <<"https", "b", TRUE>>, <<"https", "b", FALSE>>}

(* The values a file may give. *)
Values(f) ==
    CASE f \in Unsigned -> {"zero", "ok", "over"}
      [] f = "retention_days" -> {"none", "negative", "zero", "ok", "over"}
      [] f \in Signed -> {"negative", "zero", "ok", "over"}
      [] f \in Flags -> {"true", "false"}
      [] f \in {"path_prefixes", "capture_path_prefixes"} -> {"none", "empty", "good", "bad"}
      [] f \in Lists -> {"empty", "good", "bad"}
      [] f = "deployment" -> {"development", "production"}
      [] f = "preset" -> {"custom", "litellm"}
      [] f = "storage_backend" -> {"filesystem", "postgres"}
      [] f \in Documents -> {"good", "bad"}
      [] f = "listen" -> SomeAddresses
      [] f = "admin_listen" -> SomeAddresses \cup {NoAddress}
      [] f = "public_url" -> SomeUrls
      [] f = "proxy_public_url" -> SomeUrls \cup {<<"none", "", FALSE>>}
      [] f = "password" -> {"none", "blank", "default", "custom"}
      [] f = "password_hash" -> {"none", "blank", "good", "padded", "bad"}
      [] f = "metrics_bearer_token" -> {"none", "blank", "good", "bad"}
      [] f = "upstream_header" -> {"blank", "good", "padded", "bad"}
      [] f \in {"journal.directory", "filesystem_root", "username", "client_id", "client_secret"} ->
            {"blank", "good"}
      [] OTHER -> {"blank", "good", "bad"}

(* Config::default *)
Default ==
    [f \in Settings |->
        CASE f = "rotate_size_bytes" -> "zero" [] f \in Unsigned -> "ok"
          [] f = "retention_days" -> "none" [] f \in Signed -> "ok"
          [] f \in {"forward_cookies", "cookie_secure", "oauth.enabled"} -> "false"
          [] f \in Flags -> "true"
          [] f \in {"path_prefixes", "capture_path_prefixes"} -> "none"
          [] f = "sensitive_headers" -> "good" [] f \in Lists -> "empty"
          [] f = "deployment" -> "development" [] f = "preset" -> "custom"
          [] f = "storage_backend" -> "filesystem" [] f \in Documents -> "good"
          [] f = "listen" -> <<"lo", 1, FALSE>> [] f = "admin_listen" -> NoAddress
          [] f = "public_url" -> <<"http", "a", TRUE>>
          [] f = "proxy_public_url" -> <<"none", "", FALSE>>
          [] f = "password" -> "default" [] f \in {"password_hash", "metrics_bearer_token"} -> "none"
          [] f \in {"issuer_url", "client_id", "client_secret", "redirect_url"} -> "blank"
          [] OTHER -> "good"]

-----------------------------------------------------------------------------
(* apply_env_overrides.  A text is taken as it is; whatever else does not  *)
(* parse ("junk") is an error.  A list has no empty items and is never     *)
(* empty, except that a blank one switches capturing off.                  *)
Raw(f) ==
    CASE f \in Lists -> {"blank", "good", "bad"}
      [] f \in Addresses \cup Urls -> {v \in Values(f) : v[1] # "none"}
      [] f \in Texts -> Values(f) \ {"none"}
      [] OTHER -> (Values(f) \ {"none"}) \cup {"junk"}

EnvValue(f, raw) ==
    IF f = "capture_path_prefixes" /\ raw = "blank" THEN {"empty"}
    ELSE IF f \in Texts \cup Addresses \cup Urls THEN {raw}
    ELSE {raw} \ {"blank", "junk"}

ApplyEnvOverrides(file, env) ==
    {cfg \in {[f \in Settings |-> IF f \in DOMAIN env THEN EnvValue(f, env[f]) ELSE {file[f]}]} :
        \A f \in Settings : cfg[f] # {}}

(* The default password is dropped when there is a hash. *)
NormalizeSensitiveDefaults(cfg) ==
    IF cfg["password_hash"] \notin {"none", "blank"} /\ cfg["password"] = "default"
    THEN [cfg EXCEPT !["password"] = "none"] ELSE cfg

(* The configuration, unless a variable does not parse. *)
Load(file, env) ==
    {NormalizeSensitiveDefaults([f \in Settings |-> CHOOSE v \in cfg[f] : TRUE]) :
        cfg \in ApplyEnvOverrides(file, env)}

-----------------------------------------------------------------------------
(* validate *)
Production(cfg) == cfg["deployment"] = "production"
On(cfg, flag) == cfg[flag] = "true"
InRange(cfg, settings) == \A f \in settings : cfg[f] = "ok"

(* parse::<SocketAddr>() of an address as it is written. *)
ParsesAddress(a) == a[1] \notin {"bad", "none"} /\ ~a[3]
UsableUrl(url) == url[1] \notin {"bad", "none"}
PublicOrigin(url) == UsableUrl(url) /\ url[3]

(* Mutant of Overlap: only equal addresses overlap. *)
OverlapEqual(a, b) == ParsesAddress(a) /\ ParsesAddress(b) /\ a[2] # 0 /\ a = b

Overlap(a, b) ==
    /\ ParsesAddress(a) /\ ParsesAddress(b)
    /\ a[2] # 0 /\ a[2] = b[2] /\ (a[1] = b[1] \/ "any" \in {a[1], b[1]})

(* The address of the proxy is trimmed, that of the admin UI is not. *)
ValidServer(cfg) ==
    LET admin == cfg["admin_listen"]
        proxy == cfg["proxy_public_url"]
        public == cfg["public_url"]
    IN  /\ ParsesAddress([cfg["listen"] EXCEPT ![3] = FALSE])
        /\ (admin[1] = "none") <=> (proxy[1] = "none")
        /\ admin[1] # "none" => ParsesAddress(admin) /\ ~Overlap(admin, cfg["listen"])
        /\ proxy[1] # "none" => PublicOrigin(proxy) /\ PublicOrigin(public) /\ proxy[2] # public[2]
        /\ UsableUrl(public)

(* serve_routers binds the addresses as they are written. *)
Binds(cfg) ==
    ParsesAddress(cfg["listen"]) /\ (cfg["admin_listen"][1] # "none" => ParsesAddress(cfg["admin_listen"]))

ValidProxy(cfg) ==
    /\ cfg["default_upstream"] = "good" /\ cfg["upstream_header"] \in {"good", "padded"}
    /\ InRange(cfg, ProxyLimits)
    /\ Production(cfg) => cfg["allow_upstreams"] # "empty" /\ cfg["path_prefixes"] # "empty"
    /\ "bad" \notin {cfg["path_prefixes"], cfg["capture_path_prefixes"], cfg["allow_upstreams"]}

ValidStorage(cfg) ==
    /\ cfg["rotate_size_bytes"] # "over" /\ InRange(cfg, StorageLimits)
    /\ cfg["postgres_url"] = "good" /\ cfg["journal.directory"] # "blank"
    /\ cfg["retention_days"] = "ok" \/ (cfg["retention_days"] = "none" /\ ~Production(cfg))
    /\ cfg["retention_prune_batch_size"] = "ok"

ValidArchive(cfg) ==
    /\ cfg["storage_backend"] = "filesystem" => cfg["filesystem_root"] # "blank"
    /\ InRange(cfg, {"segment_uncompressed_bytes", "compression_level"})

HasPassword(cfg) == cfg["password"] \in {"default", "custom"}
HasHash(cfg) == cfg["password_hash"] \in {"good", "padded"}

ValidLoginRateLimit(cfg) == On(cfg, "login_rate_limit.enabled") => InRange(cfg, RateLimits)

(* Mutant of ListedAndVerified: any verified user will do. *)
VerifiedOnly(cfg) == On(cfg, "require_email_verified")

(* In production OAuth users are verified and on a list. *)
ListedAndVerified(cfg) ==
    /\ {cfg["allowed_emails"], cfg["allowed_domains"]} # {"empty"}
    /\ On(cfg, "require_email_verified")

(* The class of a list, given which entries are valid. *)
ListClass(entries, ValidEntry(_)) ==
    IF entries = {} THEN "empty" ELSE IF \A e \in entries : ValidEntry(e) THEN "good" ELSE "bad"

ValidOauth(cfg) ==
    /\ InRange(cfg, {"oauth.timeout_secs"})
    /\ On(cfg, "oauth.enabled") =>
          /\ cfg["issuer_url"] = "good" /\ cfg["redirect_url"] \in {"blank", "good"}
          /\ "blank" \notin {cfg["client_id"], cfg["client_secret"]}
          /\ "bad" \notin {cfg["allowed_emails"], cfg["allowed_domains"]}
          /\ Production(cfg) => ListedAndVerified(cfg)

ValidAuth(cfg) ==
    /\ cfg["username"] # "blank" /\ cfg["password"] # "blank"
    /\ cfg["password_hash"] \in {"none", "good", "padded"}
    /\ HasPassword(cfg) \/ HasHash(cfg) \/ On(cfg, "oauth.enabled")
    /\ InRange(cfg, {"session_ttl_hours"})
    /\ ValidLoginRateLimit(cfg)
    /\ Production(cfg) =>
          /\ cfg["public_url"][1] = "https" => On(cfg, "cookie_secure")
          /\ ~HasPassword(cfg) /\ HasHash(cfg) /\ On(cfg, "login_rate_limit.enabled")
    /\ ValidOauth(cfg)

ValidObservability(cfg) ==
    cfg["metrics_bearer_token"] = "good" \/ (cfg["metrics_bearer_token"] = "none" /\ ~Production(cfg))

ValidPluginCache(cfg) ==
    /\ cfg["plugin_cache.capacity"] # "over"
    /\ cfg["plugin_cache.capacity"] # "zero" => InRange(cfg, {"plugin_cache.ttl_secs"})

Valid(cfg) ==
    /\ ValidServer(cfg) /\ ValidProxy(cfg) /\ ValidStorage(cfg) /\ ValidArchive(cfg)
    /\ ValidAuth(cfg) /\ ValidObservability(cfg) /\ ValidPluginCache(cfg)
    /\ "bad" \notin {cfg["sensitive_headers"], cfg["plugins"], cfg["pricing"]}

-----------------------------------------------------------------------------
(* The plugins of a configuration: a sequence of [name, wasm_path, hooks,  *)
(* timeout_ms, urls, auth].  The name is "blank", "padded", "long",        *)
(* "unprintable" or a name; urls says how many there are and whether they  *)
(* are valid (RoutePolicy); auth is what is given of header and variable.  *)
CONSTANTS MaxPlugins, MaxUrls

PluginHooksHaveDuplicates(hooks) ==
    \E i, j \in DOMAIN hooks : i # j /\ hooks[i] = hooks[j]

ValidPlugin(p) ==
    /\ p.urls.count <= MaxUrls /\ p.urls.valid
    /\ p.auth \in {{}, {"header", "env"}}
    /\ p.name \notin {"blank", "padded", "long", "unprintable"}
    /\ p.wasm_path # "blank"
    /\ p.hooks # << >> /\ ~PluginHooksHaveDuplicates(p.hooks)
    /\ p.timeout_ms = "ok"

ValidPlugins(plugins) ==
    /\ Len(plugins) <= MaxPlugins
    /\ \A i \in DOMAIN plugins : ValidPlugin(plugins[i])
    /\ \A i, j \in DOMAIN plugins : i # j => plugins[i].name # plugins[j].name

-----------------------------------------------------------------------------
(* verify_password: the hash is that of "secret"; one that does not parse  *)
(* as it is written leaves the decision to the password, if there is one.  *)
VerifyPassword(password, cfg) ==
    IF cfg["password_hash"] = "good" THEN password = "secret"
    ELSE cfg["password"] # "none" /\ password = cfg["password"]
=============================================================================
