------------------------------ MODULE AuthText ------------------------------
(***************************************************************************)
(* The algorithms of authentication that keep no state: which provider     *)
(* answers for an endpoint, which binding a request takes, how a request   *)
(* is signed, how often a device login polls, and the environment that a   *)
(* child process gets.  "" stands for a value that is absent.              *)
(***************************************************************************)
EXTENDS Integers, Sequences, SequencesExt, FiniteSets

Or(a, b) == IF a # "" THEN a ELSE b

-----------------------------------------------------------------------------
(* Provider discovery.  A document is what a provider publishes about       *)
(* itself: [issuer, token, auth, reg, dev, iss].  The world says what each  *)
(* request of the discovery is answered.                                    *)

NoDocument == [issuer |-> "", token |-> "", auth |-> "", reg |-> "", dev |-> "", iss |-> FALSE]
NoOverrides == [issuer |-> "", token |-> "", auth |-> "", reg |-> "", dev |-> "", resource |-> ""]
Failed == [state |-> "failed"]

\* validate_discovered_issuer.
ValidIssuer(issuer, document) == document.issuer \in {"", issuer}

\* fetch_authorization_server_metadata, fetch_openid_configuration: the
\* candidates in turn; the first that answers decides, even if it cannot be read.
Fetch(issuer, answers) ==
    LET good == {k \in DOMAIN answers : answers[k].answer # "none"} IN
    IF good = {} THEN NoDocument
    ELSE LET first == answers[CHOOSE k \in good : \A j \in good : k <= j]
         IN IF first.answer = "read" /\ ValidIssuer(issuer, first.doc) THEN first.doc ELSE NoDocument

\* OAuthDiscoveryRequirements::is_satisfied.
Satisfied(req, m) == /\ m.token # ""
                     /\ "auth" \in req => m.auth # ""
                     /\ "dev" \in req => m.dev # ""
                     /\ "reg" \in req => m.reg # ""

\* infer_device_authorization_endpoint.
DeviceEndpoint(issuer, document) == Or(document.dev, IF issuer = "github" THEN "github-dev" ELSE "")

\* The first stop: what the caller named himself.
FromOverrides(o) == [state |-> "open", token |-> o.token, auth |-> o.auth, reg |-> o.reg, dev |-> o.dev,
                     issuer |-> o.issuer, server |-> o.issuer, iss |-> FALSE, resource |-> o.resource]

\* discover_matrix_auth_metadata and what the discovery takes from it.
WithMatrix(o, m, matrix) ==
    IF o.resource # "" \/ o.issuer # "" \/ o.token # "" \/ matrix = NoDocument THEN m
    ELSE [m EXCEPT !.server = Or(@, matrix.issuer), !.issuer = Or(@, matrix.issuer),
                   !.auth = Or(@, matrix.auth), !.reg = Or(@, matrix.reg),
                   !.token = Or(@, matrix.token), !.dev = Or(@, matrix.dev)]

\* discover_resource_metadata_url: the header of a 401, else the well-known place.
ResourceUrl(o, w) == IF o.resource # "" THEN o.resource
                     ELSE IF o.issuer # "" \/ o.token # "" THEN ""
                     ELSE Or(w.header, IF w.wellKnown THEN "well-known" ELSE "")

\* The authorization server: named, found, or the endpoint's own origin.
ServerOf(m, resource, w) == Or(m.server, Or(IF resource # "" THEN w.resourceServer ELSE "", w.origin))

\* The provider's two documents fill what is still missing.
WithDocuments(m, server, w) ==
    LET asm == Fetch(server, w.asm[server])
        oidc == Fetch(server, w.oidc[server])
    IN [m EXCEPT !.token = Or(@, Or(asm.token, oidc.token)), !.auth = Or(@, Or(asm.auth, oidc.auth)),
                 !.reg = Or(@, Or(asm.reg, oidc.reg)),
                 !.dev = Or(@, Or(DeviceEndpoint(server, asm), oidc.dev)),
                 !.issuer = Or(@, Or(asm.issuer, Or(oidc.issuer, server))),
                 !.server = server, !.iss = asm.iss \/ oidc.iss]

\* discover_provider_metadata_with_requirements.
Discover(o, req, w) ==
    LET m0 == FromOverrides(o)
        m1 == WithMatrix(o, m0, w.matrix)
        resource == ResourceUrl(o, w)
        unreadable == m1.server = "" /\ resource # "" /\ w.resourceServer = "broken"
        m2 == WithDocuments(m1, ServerOf(m1, resource, w), w)
    IN CASE Satisfied(req, m0) -> [m0 EXCEPT !.server = Or(@, w.origin), !.state = "found"]
         [] ~Satisfied(req, m0) /\ Satisfied(req, m1) -> [m1 EXCEPT !.state = "found"]
         [] ~Satisfied(req, m1) /\ unreadable -> Failed
         [] OTHER -> IF m2.token = "" THEN Failed ELSE [m2 EXCEPT !.resource = resource, !.state = "found"]

\* apply_oauth_login_preset.
OutlookPreset(o) == [o EXCEPT !.issuer = Or(@, "outlook"), !.token = Or(@, "outlook-token"),
                              !.dev = Or(@, "outlook-dev")]

\* dynamic_client_registration: only where the provider takes it.
ClientOf(m, given) == IF given # "" THEN [id |-> given, issuer |-> ""]
                      ELSE IF m.reg = "" THEN [id |-> "", issuer |-> ""]
                      ELSE [id |-> "registered", issuer |-> Or(m.issuer, m.server)]

\* refresh_dynamic_client_registration_metadata: a registered client goes back
\* only to the issuer that registered it.
MayRefresh(client, m) == client.issuer = "" \/ (m.state = "found" /\ Or(m.issuer, m.server) = client.issuer)

-----------------------------------------------------------------------------
(* Device logins: the times at which the token endpoint is asked.           *)

\* One turn of login_with_device_code's loop; a request takes no time, and one
\* that does only asks later.
DevicePoll(st, answer) ==
    IF st.state # "polling" THEN st
    ELSE IF st.now > st.deadline THEN [st EXCEPT !.state = "timeout"]
    ELSE LET asked == [st EXCEPT !.polls = Append(@, st.now)]
             interval == IF answer = "slow_down" THEN st.interval + 5 ELSE st.interval
         IN IF answer \in {"pending", "slow_down"}
            THEN [asked EXCEPT !.now = @ + interval, !.interval = interval]
            ELSE [asked EXCEPT !.state = answer]

DeviceLogin(answers, interval, expires) ==
    FoldLeft(DevicePoll, [now |-> 0, interval |-> interval, deadline |-> expires, polls |-> <<>>,
                          state |-> "polling"], answers)

-----------------------------------------------------------------------------
(* Bindings.  Hosts are compared without regard to case, paths as texts.    *)

StartsWith(path, prefix) == Len(prefix) <= Len(path) /\ SubSeq(path, 1, Len(prefix)) = prefix

\* normalize_path_prefix.
NormalizePrefix(prefix) == IF prefix # <<>> /\ prefix[1] = "/" THEN prefix ELSE <<"/">> \o prefix

\* add_binding refuses a second rule of a name.
AddBinding(rules, rule) ==
    IF \E k \in DOMAIN rules : rules[k].id = rule.id THEN rules
    ELSE Append(rules, [rule EXCEPT !.prefix = IF rule.hasPrefix THEN NormalizePrefix(@) ELSE @])

Matches(rule, target) == /\ rule.enabled /\ rule.host = target.host
                         /\ rule.scheme \in {"", target.scheme}
                         /\ rule.hasPrefix => StartsWith(target.path, rule.prefix)
PrefixLength(rule) == IF rule.hasPrefix THEN Len(rule.prefix) ELSE 0

\* compare_binding_rules: does b come after a, or equal it.
AtLeast(a, b) == \/ a.priority > b.priority
                 \/ a.priority = b.priority /\ PrefixLength(a) > PrefixLength(b)
                 \/ a.priority = b.priority /\ PrefixLength(a) = PrefixLength(b) /\ a.id >= b.id

\* matching_rule; 0 when none matches.
MatchingRule(rules, target) ==
    LET candidates == SelectSeq(rules, LAMBDA r : Matches(r, target))
    IN FoldLeft(LAMBDA best, r : IF best.id = 0 \/ AtLeast(r, best) THEN r ELSE best, [id |-> 0], candidates)

-----------------------------------------------------------------------------
(* Signatures over the query.                                               *)

DropName(pairs, name) == SelectSeq(pairs, LAMBDA p : p[1] # name)
Upsert(pairs, name, value) == Append(DropName(pairs, name), <<name, value>>)
Canonical(pairs, mode) ==
    IF mode = "sort" THEN SortSeq(pairs, LAMBDA a, b : a[1] < b[1] \/ (a[1] = b[1] /\ a[2] < b[2])) ELSE pairs

\* validate_signer_config: the three settings of the key come together.
KeySettings(cfg) == {cfg.keyField, cfg.keyPlacement, cfg.keyName} \cap {0} = {}
                    \/ {cfg.keyField, cfg.keyPlacement, cfg.keyName} = {0}

\* apply_signer_to_url.  Names and values are numbers; 9 is the time, 8 the
\* signature, 7 the value of the key's field; placement 1 is the query.
SignQuery(pairs, cfg) ==
    LET bare == DropName(pairs, cfg.signature)
        timed == IF cfg.timestamp = 0 THEN bare ELSE Upsert(bare, cfg.timestamp, 9)
        keyed == IF cfg.keyPlacement = 1 THEN Upsert(timed, cfg.keyName, 7) ELSE timed
        signed == Canonical(keyed, cfg.mode)
    IN [over |-> signed, query |-> Canonical(Append(keyed, <<cfg.signature, 8>>), cfg.mode)]

\* sign_jwt_bearer_token: claims are added in this order, the later one wins.
JwtClaims(cfg) == [c \in DOMAIN cfg.static \cup DOMAIN cfg.fields \cup cfg.times \cup cfg.request |->
                     CASE c \in cfg.request -> "request"
                       [] c \notin cfg.request /\ c \in cfg.times -> "time"
                       [] c \notin cfg.request \cup cfg.times /\ c \in DOMAIN cfg.fields -> "field"
                       [] OTHER -> "static"]

\* The duplicates that validate_signer_config refuses.
ValidClaims(cfg) == /\ DOMAIN cfg.static \cap DOMAIN cfg.fields = {}
                    /\ (DOMAIN cfg.static \cup DOMAIN cfg.fields) \cap cfg.times = {}
                    /\ (DOMAIN cfg.static \cup DOMAIN cfg.fields \cup cfg.times) \cap cfg.request = {}

\* apply_profile_auth_path_prefix.
ApplyPrefix(path, prefix) ==
    IF path = prefix \/ StartsWith(path, Append(prefix, "/")) THEN path
    ELSE prefix \o (IF path = <<"/">> THEN <<>> ELSE path)

-----------------------------------------------------------------------------
(* The environment of a child.                                              *)

\* normalize_inject_env_specs: the last spec of a name counts, in the order of names.
InjectedEnv(specs) ==
    LET names == {specs[k].name : k \in DOMAIN specs}
        last(n) == specs[CHOOSE k \in DOMAIN specs : specs[k].name = n
                           /\ \A j \in DOMAIN specs : specs[j].name = n => j <= k].value
        order == SetToSortSeq(names, LAMBDA a, b : Len(a) < Len(b))
    IN [k \in DOMAIN order |-> <<order[k], last(order[k])>>]

\* What fingerprint_injected_env feeds the hash.
Digested(env) == FlattenSeq([k \in DOMAIN env |-> env[k][1] \o <<"00">> \o env[k][2] \o <<"ff">>])

-----------------------------------------------------------------------------
\* Without overrides the token, the authorization and the registration
\* endpoint are all named by documents of one server, the one the result names
\* as its issuer: an endpoint here stands for the server whose document names
\* it, not for the host it points at, which the code leaves to that document
\* (discover_provider_metadata_with_requirements).
OneIssuer(req, w) ==
    LET m == Discover(NoOverrides, req, w) IN
    m.state = "found" => /\ m.issuer = m.server
                         /\ \A e \in {m.token, m.auth, m.reg} : e \in {"", m.server}

\* A client registered with one issuer refreshes only where that issuer's
\* documents say, whatever else is found by then (client_registration_issuer).
RegisteredClientStays(req, w1, w2) ==
    LET m == Discover(NoOverrides, req \cup {"reg"}, w1)
        again == Discover(NoOverrides, {}, w2)
    IN m.state = "found" /\ ClientOf(m, "").issuer # "" /\ MayRefresh(ClientOf(m, ""), again)
         => again.token \in {m.server}

\* The preset of a device login asks no provider for anything: whatever the
\* world answers, the result is the same.
PresetNeedsNoWorld(w1, w2) ==
    Discover(OutlookPreset(NoOverrides), {"dev"}, w1) = Discover(OutlookPreset(NoOverrides), {"dev"}, w2)

\* A device login never asks again sooner than the provider demanded, and not
\* after the code has expired.
DevicePaced(answers, interval, expires) ==
    LET st == DeviceLogin(answers, interval, expires) IN
    \A k \in DOMAIN st.polls :
      /\ st.polls[k] <= expires
      /\ k > 1 => st.polls[k] - st.polls[k - 1]
                    >= interval + 5 * Cardinality({j \in 1 .. k - 1 : answers[j] = "slow_down"})

\* The binding of a request does not depend on the order of the rules in the file.
OrderDoesNotMatter(rules, target) ==
    \A pi \in Permutations(DOMAIN rules) :
      MatchingRule([k \in DOMAIN rules |-> rules[pi[k]]], target) = MatchingRule(rules, target)

\* The signature is over exactly the query that goes out without it, and there
\* is one signature (apply_signer_to_url).
SignatureCoversQuery(pairs, cfg) ==
    KeySettings(cfg) /\ cfg.signature \notin {cfg.timestamp, cfg.keyName} =>
      LET s == SignQuery(pairs, cfg) IN
      /\ DropName(s.query, cfg.signature) = s.over
      /\ Cardinality({k \in DOMAIN s.query : s.query[k][1] = cfg.signature}) = 1

\* A claim of an accepted signer has the value of its one definition.
ClaimsAsConfigured(cfg) ==
    ValidClaims(cfg) => /\ \A c \in DOMAIN cfg.static : JwtClaims(cfg)[c] = "static"
                        /\ \A c \in DOMAIN cfg.fields : JwtClaims(cfg)[c] = "field"
                        /\ \A c \in cfg.times : JwtClaims(cfg)[c] = "time"

\* A retried request has its path prefix once, and every request has it whole.
PrefixOnce(path, prefix) ==
    LET once == ApplyPrefix(path, prefix) IN
    /\ once = prefix \/ StartsWith(once, Append(prefix, "/"))
    /\ ApplyPrefix(once, prefix) = once

\* Two environments with one fingerprint are one environment, so a child is
\* never reused with another's secrets.
FingerprintSeparates(one, two) ==
    Digested(InjectedEnv(one)) = Digested(InjectedEnv(two)) => InjectedEnv(one) = InjectedEnv(two)
=============================================================================
