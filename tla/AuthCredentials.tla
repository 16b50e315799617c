--------------------------- MODULE AuthCredentials ---------------------------
(***************************************************************************)
(* One credential of the credential file under the commands that change    *)
(* it: `auth credential set/remove/import`, `auth oauth login/refresh/     *)
(* logout`, `auth bootstrap set/refresh/remove`, and what a request with   *)
(* it carries.                                                             *)
(*                                                                         *)
(* A secret is a string, "" an empty one.  A source is what the file says  *)
(* about the primary secret: a literal or a variable of the environment.   *)
(* Fields, and the tokens of header, query and path templates, are named   *)
(* "secret" (the primary secret), "password" or "other".                   *)
(***************************************************************************)
EXTENDS Integers, FiniteSets

CONSTANT MaxTokens      \* bound on the access tokens that providers issue

\* As many as Token has names for.
ASSUME TokensAssumption == MaxTokens \in 0 .. 4

VARIABLES stored,       \* the credential in the file, or NoCredential
          issued        \* access tokens that OAuth logins and refreshes brought

credVars == <<stored, issued>>

AuthTypes == {"bearer", "api_key", "basic", "oauth"}
NoSource == [kind |-> "none", value |-> ""]
Literal(v) == [kind |-> "literal", value |-> v]
Token(n) == <<"t0", "t1", "t2", "t3", "t4">>[n + 1]
BootToken == "boot-token"
NoCredential == [type |-> "none"]
FieldValue(f) == CASE f = "secret" -> "field-secret" [] f = "other" -> "field-other" [] OTHER -> "field-password"

\* Profile::new with an empty literal.
NewProfile(type) ==
    [type |-> type, key |-> "", source |-> IF type = "oauth" THEN NoSource ELSE Literal(""),
     oauth |-> "", boot |-> FALSE, bootToken |-> "", fields |-> {}, headers |-> {},
     params |-> {}, prefix |-> {}]

-----------------------------------------------------------------------------
(* Between memory and file. *)

\* StoredCredential::from_runtime: a profile without a source keeps its key as one.
FromRuntime(p) ==
    [p EXCEPT !.source = CASE p.type = "oauth" -> NoSource
                           [] p.type # "oauth" /\ (p.boot \/ p.source # NoSource) -> p.source
                           [] OTHER -> Literal(p.key),
              !.key = IF p.type = "oauth" THEN p.oauth ELSE ""]

\* StoredCredential::to_runtime.
ToRuntime(s) ==
    LET source == IF s.type = "oauth" THEN NoSource ELSE s.source IN
    [s EXCEPT !.source = source,
              !.key = CASE s.type = "oauth" -> IF s.oauth # "" THEN s.oauth ELSE s.key
                        [] s.type # "oauth" /\ s.bootToken # "" -> s.bootToken
                        [] s.type # "oauth" /\ s.bootToken = "" /\ source.kind = "literal" -> source.value
                        [] OTHER -> ""]

\* SecretSource::resolve; the environment is set.
Resolve(source) == IF source.kind = "env" THEN "from-env" ELSE source.value

\* resolve_field_value: a field of the name, then for "secret" the token of the
\* credential's kind, its source, its key.  "" where the code has none or nothing.
ResolveField(p, f) ==
    CASE f \in p.fields -> FieldValue(f)
      [] f \notin p.fields /\ f # "secret" -> ""
      [] f \notin p.fields /\ f = "secret" /\ p.type = "oauth" -> p.oauth
      [] f \notin p.fields /\ f = "secret" /\ p.type # "oauth" /\ p.bootToken # "" -> p.bootToken
      [] f \notin p.fields /\ f = "secret" /\ p.type # "oauth" /\ p.bootToken = ""
           /\ p.source # NoSource -> Resolve(p.source)
      [] OTHER -> p.key

\* materialize_runtime.
Materialize(p) == [p EXCEPT !.key = IF ResolveField(p, "secret") # "" THEN ResolveField(p, "secret") ELSE @]

-----------------------------------------------------------------------------
(* Requests. *)

Custom(p) == p.type = "api_key" /\ (p.headers # {} \/ p.params # {} \/ p.prefix # {})
InjectionsNeedSecret(p) == "secret" \in p.headers \cup p.params \cup p.prefix

\* validate_ready; no binding of the model has a signer.
Ready(p) ==
    CASE p.type = "oauth" -> p.oauth # ""
      [] p.type = "api_key" -> IF Custom(p) THEN InjectionsNeedSecret(p) => p.key # "" ELSE p.key # ""
      [] p.type = "basic" -> p.key # "" \/ p.boot \/ "password" \in p.fields
      [] OTHER -> p.key # "" \/ p.boot

\* render_template for the tokens of a template: an empty value refuses the request.
Render(p, tokens) == {ResolveField(p, f) : f \in tokens}

\* resolved_profile_auth_headers_for_request, resolved_api_key_headers.
HeaderValues(p) ==
    CASE p.type \in {"bearer", "oauth"} /\ p.headers = {} /\ p.params = {} -> {p.key}
      [] p.type \in {"bearer", "oauth"} /\ (p.headers # {} \/ p.params # {}) -> Render(p, p.headers)
      [] p.type = "basic" -> {p.key}
      [] p.type = "api_key" /\ p.headers # {} -> Render(p, p.headers)
      [] p.type = "api_key" /\ p.headers = {} /\ p.params # {} -> {}
      [] OTHER -> IF p.key = "" THEN {} ELSE {p.key}

\* apply_profile_auth_to_url_internal and apply_profile_auth_path_prefix.
UrlValues(p) == (IF p.type \in {"api_key", "oauth"} THEN Render(p, p.params) ELSE {})
                \cup (IF p.type = "api_key" THEN Render(p, p.prefix) ELSE {})

Effective(s) == Materialize(ToRuntime(s))

\* resolve_auth_for_endpoint with an explicit credential, then
\* resolve_profile_operation_request_auth: is the request made, and with what.
Accepted(s) == LET p == Effective(s)
               IN Ready(p) /\ "" \notin Render(p, IF p.type = "api_key" THEN p.headers \cup p.params \cup p.prefix
                                                 ELSE p.headers \cup p.params)
Sent(s) == IF Accepted(s) THEN HeaderValues(Effective(s)) \cup UrlValues(Effective(s)) ELSE {}

-----------------------------------------------------------------------------
(* Commands. *)

SetArgs == [type : AuthTypes \cup {"none"}, secret : {"none", "empty", "literal", "env"},
            headers : {{}, {"secret"}, {"other"}}, params : {{}, {"secret"}},
            prefix : {{}, {"other"}}, fields : {{}, {"secret"}, {"other"}, {"password"}}]

SourceOf(arg) == CASE arg = "literal" -> Literal("user-secret") [] arg = "empty" -> Literal("")
                   [] OTHER -> [kind |-> "env", value |-> ""]

\* The refusals of `auth credential set` before it builds the profile.
Refused(old, type, a) ==
    \/ type = "oauth" /\ a.secret # "none"
    \/ type # "api_key" /\ a.prefix # {}
    \/ type \notin {"api_key", "oauth"} /\ (a.headers # {} \/ a.params # {})
    \/ /\ type # "oauth" /\ old.type = "oauth" /\ a.secret = "none"
       /\ type # "api_key" \/ (a.headers = {} /\ a.params = {})
    \/ type = "oauth" /\ a.fields # {}

\* The new injections and fields over the old profile.
Injected(old, type, a) ==
    LET base == IF old = NoCredential THEN NewProfile(type) ELSE ToRuntime(old)
        take(new, was) == IF new = {} THEN was ELSE new
    IN [base EXCEPT !.type = type, !.headers = take(a.headers, @), !.params = take(a.params, @),
                    !.prefix = take(a.prefix, @),
                    !.fields = IF type = "oauth" THEN {} ELSE take(a.fields, @)]

\* The secret that `set` insists on.
MissesSecret(old, p, a) ==
    LET has == \/ p.source.kind = "env"
               \/ p.source.kind = "literal" /\ p.source.value # ""
               \/ old.type # "oauth" /\ p.key # ""
        needs == CASE p.type = "api_key" -> IF Custom(p) THEN InjectionsNeedSecret(p) ELSE p.fields = {}
                   [] p.type = "basic" -> p.fields \cap {"secret", "password"} = {}
                   [] OTHER -> p.fields = {}
    IN p.type # "oauth" /\ a.secret = "none" /\ ~has /\ needs

\* The secret arguments; an empty literal that nobody gave is no source.
WithSecret(p, a) ==
    LET given == IF a.secret = "none" THEN p
                 ELSE [p EXCEPT !.source = SourceOf(a.secret), !.key = SourceOf(a.secret).value]
    IN IF a.secret = "none" /\ given.key = "" /\ given.source = Literal("")
       THEN [given EXCEPT !.source = NoSource] ELSE given

\* What the new type has no use for goes.
Cleaned(q) ==
    IF q.type = "oauth"
    THEN [q EXCEPT !.source = NoSource, !.prefix = {}, !.boot = FALSE, !.bootToken = ""]
    ELSE [q EXCEPT !.oauth = "",
                   !.headers = IF q.type = "api_key" THEN @ ELSE {},
                   !.params = IF q.type = "api_key" THEN @ ELSE {},
                   !.prefix = IF q.type = "api_key" THEN @ ELSE {},
                   !.boot = IF q.type = "bearer" THEN @ ELSE FALSE,
                   !.bootToken = IF q.type = "bearer" THEN @ ELSE ""]

Save(p) == stored' = FromRuntime(p)

CredentialSet(a) ==
    LET type == IF a.type # "none" THEN a.type
                ELSE IF stored = NoCredential THEN "bearer" ELSE stored.type
        p == Injected(stored, type, a)
    IN /\ ~Refused(stored, type, a) /\ ~MissesSecret(stored, p, a)
       /\ Save(Cleaned(WithSecret(p, a)))
       /\ UNCHANGED issued

CredentialRemove == /\ stored # NoCredential
                    /\ stored' = NoCredential
                    /\ UNCHANGED issued

\* import_github_credential_from_gh; without --force only a new credential.
CredentialImport(force) ==
    /\ stored = NoCredential \/ force
    /\ Save([NewProfile("bearer") EXCEPT !.key = "gh-token", !.source = Literal("gh-token")])
    /\ UNCHANGED issued

\* persist_oauth_login with apply_token_to_profile: everything else stays.
OAuthLogin ==
    /\ issued < MaxTokens
    /\ issued' = issued + 1
    /\ LET p == IF stored = NoCredential THEN NewProfile("oauth") ELSE ToRuntime(stored)
       IN Save([p EXCEPT !.type = "oauth", !.oauth = Token(issued'), !.key = Token(issued')])

\* `auth oauth refresh`, and persist_profile_if_named after a refresh in flight.
OAuthRefresh ==
    /\ stored.type = "oauth" /\ stored.oauth # "" /\ issued < MaxTokens
    /\ issued' = issued + 1
    /\ Save([ToRuntime(stored) EXCEPT !.oauth = Token(issued'), !.key = Token(issued')])

OAuthLogout ==
    /\ stored # NoCredential
    /\ Save([ToRuntime(stored) EXCEPT !.oauth = "", !.key = "", !.type = "oauth"])
    /\ UNCHANGED issued

BootstrapSet ==
    /\ stored.type = "bearer"
    /\ Save([ToRuntime(stored) EXCEPT !.boot = TRUE, !.bootToken = "", !.key = ""])
    /\ UNCHANGED issued

\* refresh_bootstrap_profile.
BootstrapRefresh ==
    /\ stored.type = "bearer" /\ stored.boot
    /\ Save([ToRuntime(stored) EXCEPT !.bootToken = BootToken, !.key = BootToken])
    /\ UNCHANGED issued

BootstrapRemove ==
    /\ stored # NoCredential
    /\ LET p == ToRuntime(stored)
       IN Save([p EXCEPT !.boot = FALSE, !.bootToken = "",
                         !.key = IF p.type = "bearer" /\ p.source = NoSource THEN "" ELSE @])
    /\ UNCHANGED issued

CredInit == stored = NoCredential /\ issued = 0

CredNext ==
    \/ \E a \in SetArgs : CredentialSet(a)
    \/ CredentialRemove
    \/ \E force \in BOOLEAN : CredentialImport(force)
    \/ OAuthLogin
    \/ OAuthRefresh
    \/ OAuthLogout
    \/ BootstrapSet
    \/ BootstrapRefresh
    \/ BootstrapRemove

-----------------------------------------------------------------------------
Tokens == {Token(n) : n \in 1 .. MaxTokens}

\* A credential that passes validate_ready authenticates: its requests carry a
\* secret that is not empty, or a template refuses them.  A bearer credential
\* may wait for its bootstrap, a basic one may hold a password field for mail.
ReadyIsAuthenticated ==
    stored # NoCredential /\ Accepted(stored) /\ ~stored.boot
      => (Sent(stored) \ {""} # {}) \/ (stored.type = "basic" /\ "password" \in stored.fields)

\* Requests with custom injections carry what the templates name and nothing
\* else: the primary secret stays out of a request whose templates do not ask
\* for it (resolved_api_key_headers).
OnlyWhatTemplatesName ==
    stored # NoCredential /\ stored.type = "api_key" /\ (stored.headers # {} \/ stored.params # {})
      => Sent(stored) \subseteq Render(Effective(stored), stored.headers \cup stored.params \cup stored.prefix)

\* Removing a bootstrap gives the user's own secret back and leaves none of its
\* tokens behind as one (from_runtime keeps the sources apart).
BootstrapLeavesSecret ==
    [][stored # NoCredential /\ stored.type = "bearer" /\ stored.boot
         /\ stored' # NoCredential /\ stored'.type = "bearer" /\ ~stored'.boot
       => (BootToken \in Sent(stored') => stored.source.value = BootToken)]_credVars

\* Leaving oauth for bearer or basic takes a new secret: no command turns an
\* oauth credential into one that sends the login's token as its own.
SwitchNeedsSecret ==
    [][stored # NoCredential /\ stored.type = "oauth"
         /\ stored' # NoCredential /\ stored'.type \in {"bearer", "basic"}
       => Sent(stored') \cap Tokens = {}]_credVars
=============================================================================
