------------------------------- MODULE MCTexts -------------------------------
(***************************************************************************)
(* The pure algorithms on bounded inputs.  A behaviour picks one algorithm *)
(* and one input for it; the invariants compare what the code's definition *)
(* returns with what it is for.                                            *)
(***************************************************************************)
EXTENDS McpText, AuthText, HttpText, EmailText, OpenapiText, GraphqlText, RpcText, SourceText, TLC
VARIABLE probe   \* the algorithm that is run, with its input

-----------------------------------------------------------------------------
\* Messages, commands and catalogs of stdio MCP servers.

PMessages == {<<"{", "}">>, <<"{", "q", "}", "q", "}">>, <<"{", "q", "b", "q", "{", "q", "}">>, <<"{", "{", "}", "}">>}
PStreams == {<<m>> : m \in PMessages} \cup {<<m, n>> : m, n \in PMessages}
\* every way to break a text into two lines outside its strings
PBroken(ms) == LET t == FlattenSeq(ms)
              IN {<<SubSeq(t, 1, k), SubSeq(t, k + 1, Len(t))>> : k \in {j \in 1 .. Len(t) :
                     Cardinality({i \in 1 .. j : t[i] = "q" /\ (i = 1 \/ t[i-1] # "b")}) % 2 = 0}}
PParts == UNION {[1 .. n -> {"a", " ", "q", "s", "b"}] : n \in 0 .. 2}
PLines == UNION {[1 .. n -> {"a", " ", "q", "s", "b"}] : n \in 0 .. 5}
PPage == [items : {<<>>, <<1>>}, next : {"", "x", "y"}, ttl : {-1, 1, 2}, scope : {"none", "public", "private"}]
PSmallPage == {p \in PPage : p.scope = "none" \/ p.ttl = -1}

McpNext ==
   \/ \E ms \in PStreams : \E ls \in PBroken(ms) : probe' = [alg |-> "mcp frames", lines |-> ls, of |-> ms]
   \/ \E p, q \in PParts : probe' = [alg |-> "mcp command", of |-> <<p, q>>]
   \/ \E l \in PLines : probe' = [alg |-> "mcp line", of |-> l]
   \/ \E s \in [{"", "x", "y"} -> PSmallPage] : s["x"].scope = "none" /\ s["y"].ttl # 1 /\ probe' = [alg |-> "mcp catalog", of |-> s]
McpTextHolds ==
   /\ probe.alg = "mcp frames" => FramesRecovered(probe.lines, probe.of)
   /\ probe.alg = "mcp command" => ImportedCommandSplits(probe.of)
   /\ probe.alg = "mcp line" => ArgumentsKept(probe.of)
   /\ probe.alg = "mcp catalog" => CatalogIsWhole(probe.of)
-----------------------------------------------------------------------------
\* OAuth metadata, device polling, bindings, signatures, claims, environments.

ANone == [answer |-> "none", doc |-> NoDocument]
AReads(d) == [answer |-> "read", doc |-> d]
AOther == AReads([NoDocument EXCEPT !.issuer = "other", !.token = "other"])
ADocs(i) == {ANone, [ANone EXCEPT !.answer = "garbled"]} \cup {AReads([NoDocument EXCEPT !.issuer = x, !.token = y, !.auth = y, !.reg = r]) :
              x \in {"", i, "other"}, y \in {i}, r \in {"", i}} \cup {AOther, AReads([NoDocument EXCEPT !.issuer = i, !.token = i])}
\* what the second document of a server adds
AOpenid(i) == AReads([NoDocument EXCEPT !.issuer = i, !.auth = i, !.reg = i])
AWorlds == {[matrix |-> m, header |-> h, wellKnown |-> k, resourceServer |-> s, origin |-> "home",
            asm |-> [x \in {"home", "far", "broken"} |-> <<ANone, IF x = "home" THEN a ELSE f>>],
            oidc |-> [x \in {"home", "far", "broken"} |-> <<IF o = "own" THEN AOpenid(x) ELSE IF o = "other" THEN AOther ELSE ANone, ANone>>]] :
            m \in {NoDocument, [NoDocument EXCEPT !.issuer = "far", !.token = "far", !.auth = "far"]},
            h \in {"", "url"}, k \in BOOLEAN, s \in {"", "far", "broken"},
            a \in ADocs("home"), f \in ADocs("far"), o \in {"none", "other", "own"}}
ARule(i, p, x, e) == [id |-> i, priority |-> p, hasPrefix |-> x # <<>>, prefix |-> x, host |-> "h", scheme |-> "", enabled |-> e]
ARules == {ARule(1, p, x, TRUE) : p \in 1..2, x \in {<<>>, <<"/", "a">>, <<"a">>}}
AConfigs == [signature : {1}, timestamp : {0, 2}, keyField : {0, 3}, keyPlacement : {0, 1, 2}, keyName : {0, 3}, mode : {"sort", "keep"}]
APairs == UNION {[1 .. n -> {<<1, 1>>, <<2, 1>>, <<3, 2>>, <<3, 1>>, <<4, 1>>}] : n \in 0 .. 3}
AClaims == [static : {<<>>, "a" :> 1, "b" :> 1}, fields : {<<>>, "a" :> 1, "b" :> 1}, times : SUBSET {"a", "c"}, request : SUBSET {"c", "d"}]
AText(cs, n) == UNION {[1 .. m -> cs] : m \in 0 .. n}
ASpecs == {<<>>} \cup {<<[name |-> a, value |-> b]>> : a \in {<<"A">>, <<"A", "B">>}, b \in AText({"A", "B"}, 2)}
        \cup {<<[name |-> <<"A">>, value |-> b], [name |-> c, value |-> d]>> : b, d \in AText({"A", "B"}, 1), c \in {<<"A">>, <<"A", "B">>}}

AuthNext ==
   \/ \E w \in AWorlds, r \in {{}, {"auth"}, {"auth", "reg"}} : probe' = [alg |-> "auth discover", req |-> r, w |-> w]
   \/ \E w \in AWorlds : w.matrix = NoDocument /\ w.header = "" /\ probe' = [alg |-> "auth registered", w |-> w]
   \/ \E a \in [1 .. 4 -> {"pending", "slow_down", "token"}], e \in {7, 20} : probe' = [alg |-> "auth device", of |-> a, expires |-> e]
   \/ \E a, b \in ARules, p \in 1 .. 2, x \in {<<>>, <<"/", "a">>, <<"/", "b">>} :
        probe' = [alg |-> "auth binding", of |-> FoldLeft(AddBinding, <<>>, <<a, [b EXCEPT !.id = 2], ARule(3, p, x, TRUE)>>)]
   \/ \E p \in APairs, c \in AConfigs : probe' = [alg |-> "auth sign", pairs |-> p, cfg |-> c]
   \/ \E c \in AClaims : probe' = [alg |-> "auth claims", cfg |-> c]
   \/ \E p \in AText({"a", "/"}, 4) : probe' = [alg |-> "auth prefix", path |-> <<"/">> \o p]
   \/ \E a, b \in ASpecs : probe' = [alg |-> "auth env", one |-> a, two |-> b]
AuthTextHolds ==
   /\ probe.alg = "auth discover" =>
         /\ OneIssuer(probe.req, probe.w)
         /\ PresetNeedsNoWorld(probe.w, [probe.w EXCEPT !.origin = "home", !.wellKnown = ~@])
   /\ probe.alg = "auth registered" =>
         \A o \in {ANone, AOther, AReads([NoDocument EXCEPT !.issuer = "far", !.token = "far"])} :
            RegisteredClientStays({"auth"}, probe.w,
               [probe.w EXCEPT !.resourceServer = "far", !.header = "url", !.oidc = [x \in DOMAIN @ |-> <<o, ANone>>]])
   /\ probe.alg = "auth device" => DevicePaced(probe.of, 5, probe.expires)
   /\ probe.alg = "auth binding" =>
         OrderDoesNotMatter(probe.of, [host |-> "h", scheme |-> "https", path |-> <<"/", "a", "b">>])
   /\ probe.alg = "auth sign" => SignatureCoversQuery(probe.pairs, probe.cfg)
   /\ probe.alg = "auth claims" => ClaimsAsConfigured(probe.cfg)
   /\ probe.alg = "auth prefix" => PrefixOnce(probe.path, <<"/", "a">>)
   /\ probe.alg = "auth env" => FingerprintSeparates(probe.one, probe.two)
-----------------------------------------------------------------------------
\* Transport detection, SSE frames, header values and tool headers.

HText(cs, n) == UNION {[1 .. m -> cs] : m \in 0 .. n}
HAnswer(s, b) == [status |-> s, body |-> b]
HDiscover == {HAnswer(200, "discover"), HAnswer(400, "mismatch"), HAnswer(404, "no method"), HAnswer(200, "error"), HAnswer(404, "none"), HAnswer(500, "none"), HAnswer(0, "none"), HAnswer(401, "none")}
HInit == {HAnswer(200, "initialize"), HAnswer(200, "other"), HAnswer(405, "none"), HAnswer(500, "none"), HAnswer(401, "none")}
HGet == {HAnswer(200, "endpoint"), HAnswer(200, "none"), HAnswer(404, "none"), HAnswer(401, "none")}
HRefused == [discover |-> HAnswer(401, "none"), initialize |-> HAnswer(401, "none"), get |-> HAnswer(401, "none")]
HServers == {[fresh |-> f, stale |-> s] : f \in [discover : HDiscover, initialize : HInit, get : HGet], s \in {HRefused}}
HOpen == {[fresh |-> f, stale |-> f] : f \in [discover : HDiscover, initialize : HInit, get : HGet]}
HProfiles == [fresh : BOOLEAN, refreshable : BOOLEAN, refresh : {"ok", "refresh failed", "auth required"}]
HAnnotations == [name : {"", "a", "b"}, type : {"string", "integer", "object"}, path : {<<>>, <<"p">>, <<"q">>}, reachable : BOOLEAN]
HttpNext ==
   \/ \E s \in HServers \cup HOpen, p \in HProfiles : probe' = [alg |-> "http probe", s |-> s, p |-> p]
   \/ \E t \in HText({"d", "e", "r", "n"}, 6) \cup HText({"d", "h", "H", "n"}, 4) : probe' = [alg |-> "http drain", t |-> t]
   \/ \E l \in HText({"response", "request", "note", "junk"}, 3), b \in BOOLEAN : probe' = [alg |-> "http body", l |-> l, b |-> b]
   \/ \E v \in HText({"P", "S", " ", "a", "u"}, 4) : probe' = [alg |-> "http header", v |-> v]
   \/ \E a, b \in HAnnotations, x, y \in {"string", "integer"} : probe' = [alg |-> "http tool", of |-> {a, b}, with |-> [z \in {<<"p">>, <<"q">>} |-> IF z = <<"p">> THEN x ELSE y]]
HttpTextHolds ==
   /\ probe.alg = "http probe" => FindsTransport(probe.s, probe.p)
   /\ probe.alg = "http drain" => CutAnywhere(probe.t)
   /\ probe.alg = "http body" => EarlyStopIsSound(probe.b, probe.l)
   /\ probe.alg = "http header" => HeaderRoundTrips(probe.v)
   /\ probe.alg = "http tool" => HeadersAreUnambiguous(probe.of, probe.with)
-----------------------------------------------------------------------------
\* MIME trees, mail references, escapes, headers, multipart bodies and dates.

MSeqs(cs, n) == UNION {[1 .. m -> cs] : m \in 0 .. n}
MLeaf(t, d, n, c, x) == [type |-> t, disp |-> d, name |-> n, cid |-> c, text |-> x, kids |-> <<>>]
MLeaves(x) == {MLeaf(t, d, n, c, x) : t \in {"text/plain", "text/html", "image"}, d \in {"none", "attachment", "inline"}, n \in {"none", "disposition", "type"}, c \in BOOLEAN}
MFew(x) == {MLeaf(t, d, n, FALSE, x) : t \in {"text/plain", "text/html"}, d \in {"none", "attachment"}, n \in {"none", "disposition"}} \cup {MLeaf("text/plain", "none", "none", FALSE, <<>>)}
MNode(t, ks) == [type |-> t, disp |-> "none", name |-> "none", cid |-> FALSE, text |-> <<>>, kids |-> ks]
MKinds == {"multipart/mixed", "multipart/alternative", "multipart/related"}
MIds == {"", "a", "b"}
MItems == [id : MIds, immutableId : MIds, idIsImmutable : BOOLEAN, accountId : {"", "a"}]
MLines == {[kind |-> "field", name |-> n, value |-> <<v>>] : n \in {"s", "t"}, v \in 1 .. 2} \cup {[kind |-> "fold", name |-> "", value |-> <<3>>], [kind |-> "junk", name |-> "", value |-> <<>>]}
MProbe(p, c, l) == [alg |-> "mail mime", p |-> p, c |-> c, l |-> l]
MailNext ==
   \/ \E p \in MLeaves(<<1, 2>>), c, l \in BOOLEAN : probe' = MProbe(p, c, l)
   \/ \E k \in MKinds, p \in MLeaves(<<1, 2>>), q \in MFew(<<3, 2>>), c \in BOOLEAN : probe' = MProbe(MNode(k, <<p, q>>), c, FALSE)
   \/ \E k, j \in MKinds, p \in MFew(<<1, 2>>), q \in MFew(<<3, 2>>), r \in MFew(<<4, 2>>) : probe' = MProbe(MNode(k, <<MNode(j, <<p, q>>), r>>), TRUE, FALSE)
   \/ \E k, j \in MKinds, p \in MFew(<<1>>), q \in MFew(<<3>>) : probe' = MProbe(MNode("multipart/mixed", <<MNode(k, <<MNode(j, <<p>>)>>), q>>), TRUE, FALSE)
   \/ \E k \in {"gmail", "graph", "jmap"}, i, o \in MItems, e \in {"", "e"} : i.id # o.id /\ probe' = [alg |-> "mail ref", k |-> k, i |-> i, o |-> o, e |-> e]
   \/ \E k \in {"gmail", "graph", "jmap"}, u \in MIds, a \in MIds \cup {"a/b"} : probe' = [alg |-> "mail handle", k |-> k, u |-> u, a |-> a]
   \/ \E s \in MSeqs({65, 61, 95, 10, 13, 200}, 3), b \in {<<Lf>>, <<Cr, Lf>>} : probe' = [alg |-> "mail escape", s |-> s, b |-> b]
   \/ \E ls \in MSeqs(MLines, 4) : probe' = [alg |-> "mail headers", ls |-> ls]
   \/ \E ps \in MSeqs(MSeqs({"x", "y"}, 2), 3), pre \in {<<>>, <<"x">>}, c \in BOOLEAN : probe' = [alg |-> "mail multipart", ps |-> ps, pre |-> pre, c |-> c]
   \/ \E d \in (-800 .. 800) \cup (10900 .. 11100) \cup (47450 .. 47600) \cup (-25700 .. -25500) \cup (-719600 .. -719400) : probe' = [alg |-> "mail date", d |-> d]
MSource == [namespace |-> "n", key |-> "k", spec |-> "s"]
EmailTextHolds ==
   /\ probe.alg = "mail mime" => /\ FilesAreAttachments(probe.p) /\ BodyIsHonest(probe.p, probe.c, probe.l)
                                /\ WalkersAgree(probe.p) /\ SectionsAreDistinct(probe.p)
   /\ probe.alg = "mail ref" => RefReadsBack(probe.k, probe.i, probe.o, probe.e, MSource)
   /\ probe.alg = "mail handle" => HandlesAreAccepted(probe.k, probe.u, probe.a)
   /\ probe.alg = "mail escape" => EscapesReadBack(probe.s, probe.b)
   /\ probe.alg = "mail headers" => HeadersAgree(probe.ls)
   /\ probe.alg = "mail multipart" => MultipartReadsBack(probe.ps, probe.pre, probe.c)
   /\ probe.alg = "mail date" => DatesFollow(probe.d)
-----------------------------------------------------------------------------
\* Schemas found, references expanded, requests built and sent.

ONone == [is |-> "none"]
OLoc == {[form |-> "http", n |-> 1], [form |-> "file url", n |-> 2], [form |-> "other", n |-> 3], [form |-> "http", n |-> 4]}
OFound(l) == [is |-> "found", at |-> l]
ONames == {"m", "n", "o"}
ORef(r, ks) == [ref |-> r, kids |-> ks]
OLeaf(r) == ORef(r, NoFields)
ONodes == {OLeaf(r) : r \in ONames \cup {"none", "gone"}}
          \cup {ORef(r, [k \in {"a"} |-> OLeaf(x)]) : r \in {"none", "m"}, x \in ONames \cup {"none"}}
          \cup {ORef("none", [k \in {"a", "b"} |-> IF k = "a" THEN OLeaf(x) ELSE OLeaf(y)]) : x, y \in ONames}
OParam == [name : {"x", "body"}, in : {"path", "query", "body", "formData"}, required : BOOLEAN, file : {FALSE}]
OParams == {<<>>} \cup {<<p>> : p \in OParam}
OType(t, f) == [type |-> t, format |-> f]
OSpec == [types : {NoFields, [n \in {"x"} |-> OType("string", "binary")], [n \in {"x"} |-> OType("array", "none")], [n \in {"body"} |-> OType("string", "none")]}, required : {{}, {"x"}}, unknown : {TRUE}, composed : {{}, {"body"}}]
OPlain == [types |-> NoFields, required |-> {}, unknown |-> TRUE, composed |-> {}]
OContent == {<<>>} \cup {<<[m \in ms |-> IF m = "multipart" THEN s ELSE t]>> : ms \in {{"json"}, {"form"}, {"multipart"}, {"json", "multipart"}, {"other"}}, s \in OSpec, t \in {OPlain, [OPlain EXCEPT !.composed = {"body"}]}}
OText(f) == [is |-> "text", file |-> f, of |-> NoFields]
OValues == {OText(FALSE), OText(TRUE), [is |-> "list", file |-> FALSE, of |-> NoFields]}
OObject == {[is |-> "object", file |-> FALSE, of |-> [n \in {"x"} |-> OText(f)]] : f \in BOOLEAN}
OArgs == UNION {[ns -> OValues] : ns \in SUBSET {"x", "y"}}
         \cup {Extend(a, [n \in {"body"} |-> v]) : a \in UNION {[ns -> {OText(FALSE)}] : ns \in SUBSET {"x"}}, v \in OValues \cup OObject}
OapiNext ==
   \/ \E s \in [OLoc -> {"openapi", "other", "fails"}], o, m \in {ONone} \cup {OFound(l) : l \in OLoc}, e \in BOOLEAN :
                     probe' = [alg |-> "oapi find", s |-> s, o |-> o, m |-> m, c |-> SchemaCandidates([form |-> "http", n |-> 1], e, <<[form |-> "http", n |-> 4], [form |-> "http", n |-> 1]>>)]
   \/ \E a, b \in ONodes, c \in {OLeaf("none"), OLeaf("m")}, n \in {ORef("none", [k \in {"a", "b"} |-> OLeaf(IF k = "a" THEN "m" ELSE "n")]), ORef("none", [k \in {"a", "b"} |-> OLeaf("m")])} :
         probe' = [alg |-> "oapi expand", root |-> [x \in ONames |-> IF x = "m" THEN a ELSE IF x = "n" THEN b ELSE c], n |-> n]
   \/ \E v \in {"2.0", "3"}, ps, qs \in OParams, c \in OContent, u \in {{}, {"json"}, {"form"}, {"multipart"}, {"other"}}, m \in {"get", "post"}, args \in OArgs :
         /\ v = "3" => u = {} /\ \A p \in ToSet(ps \o qs) : p.in \in {"path", "query"}
         /\ v = "2.0" => c = <<>>
         /\ qs # <<>> => qs[1].name = "x" /\ qs[1].in = "query"
         /\ probe' = [alg |-> "oapi request", m |-> m, args |-> args,
                          op |-> [version |-> v, params |-> ps, shared |-> qs, content |-> c, consumes |-> u]]
   \/ \E d \in [{<<"/">>, <<"/", "x">>, <<"x">>} -> SUBSET {"get", "GET", "post", "parameters"}] : probe' = [alg |-> "oapi list", d |-> d]
   \/ \E own, root \in {<<>>, <<{}>>, <<{{}}>>, <<{{"k"}}>>, <<{{}, {"k"}}>>}, any \in BOOLEAN, p \in [expiring : BOOLEAN, refreshable : BOOLEAN, refreshes : BOOLEAN],
         a \in [old : {200, 401, 500}, fresh : {200, 204, 304, 401, 403}], b \in [long : BOOLEAN, across : BOOLEAN, empty : BOOLEAN, json : BOOLEAN] :
         probe' = [alg |-> "oapi send", sec |-> [own |-> own, root |-> root, anywhere |-> any], p |-> p, a |-> a, b |-> b]
OpenapiHolds ==
   /\ probe.alg = "oapi list" => ListedIsFound(probe.d)
   /\ probe.alg = "oapi send" => SentCarefully(probe.sec, probe.p, probe.a, probe.b)
   /\ probe.alg = "oapi find" => NamedSchemaOnly(probe.o, probe.m, probe.c, probe.s)
   /\ probe.alg = "oapi expand" => ExpandsWhatResolves(probe.n, probe.root) /\ DereferenceEnds(OLeaf("m"), probe.root)
   /\ probe.alg = "oapi request" => /\ ArgumentsArePlaced(probe.op, probe.m, probe.args)
                                   /\ BodyIsScoped(probe.op, probe.m, probe.args)
                                   /\ BodyIsDescribed(probe.op, probe.m, probe.args)
-----------------------------------------------------------------------------
\* Selections, inputs, documents, answers and introspection.

GT(w, k, n) == [wraps |-> w, kind |-> k, name |-> n]
GScalar == GT(<<>>, "SCALAR", "Int")
GField(n, t) == [name |-> n, type |-> t]
GObj(n) == GT(<<"LIST">>, "OBJECT", n)
GFields == {GField("id", GScalar), GField("x", GScalar), GField("nodes", GObj("A")), GField("team", GObj("B")), GField("u", GObj("U")), GField("x", GObj("B")), GField("z", GObj("Gone"))}
GSeqs == {<<>>} \cup {<<f>> : f \in GFields} \cup {<<f, g>> : f, g \in GFields} \cup {<<f, g, h>> : f, g \in GFields, h \in {GField("id", GScalar), GField("nodes", GObj("A"))}}
GDef(fs, is) == [fields |-> fs, hasFields |-> TRUE, inputs |-> is]
GNone == [fields |-> <<>>, hasFields |-> FALSE, inputs |-> <<>>]
GIn(w, n) == GT(w, "INPUT_OBJECT", n)
GInputs == {GField("p", GScalar), GField("q", GIn(<<"NON_NULL">>, "I")), GField("r", GIn(<<"LIST", "NON_NULL">>, "J"))}
GInSeqs == {<<>>} \cup {<<f>> : f \in GInputs} \cup {<<f, g>> : f, g \in GInputs}
GArgs == {[name |-> n, type |-> t, default |-> d] : n \in {"a", "b"}, t \in {GScalar, GT(<<"NON_NULL">>, "SCALAR", "Int")}, d \in BOOLEAN}
GArgSeqs == {<<>>} \cup {<<a>> : a \in GArgs} \cup {<<a, b>> : a \in {x \in GArgs : x.name = "a"}, b \in {x \in GArgs : x.name = "b"}}
GqlNext ==
   \/ \E a \in GSeqs, b \in {s \in GSeqs : Len(s) < 3} : probe' = [alg |-> "gql select", i |-> [n \in {"A", "B", "U"} |-> IF n = "A" THEN GDef(a, <<>>) ELSE IF n = "B" THEN GDef(b, <<>>) ELSE GNone]]
   \/ \E i, j \in GInSeqs : probe' = [alg |-> "gql input", i |-> [n \in {"I", "J"} |-> GDef(<<>>, IF n = "I" THEN i ELSE j)]]
   \/ \E as \in GArgSeqs, r \in {"query", "mutation"}, s \in {"query", "mutation"}, n \in {"f", "g"}, args \in SUBSET {"a", "b", "c", "_select"} :
         probe' = [alg |-> "gql call", roots |-> [q \in {"query", "mutation"} |-> IF q = r THEN <<[name |-> "f", args |-> as, type |-> GObj("U")]>> ELSE <<>>], id |-> [root |-> s, name |-> n], args |-> args]
   \/ \E s \in {200, 401, 500}, b \in SUBSET {"data", "errors", "__schema"} : probe' = [alg |-> "gql answer", s |-> s, b |-> b]
   \/ \E f, l \in {"data", "limited", "error"}, as \in GArgSeqs, m \in {"Q", "M"} :
         probe' = [alg |-> "gql fetch", s |-> [full |-> f, limited |-> l, names |-> [r \in {"query", "mutation"} |-> IF r = "query" THEN "Q" ELSE m],
                                              types |-> [t \in {"Q", "M"} |-> IF t = "Q" THEN <<[name |-> "f", args |-> as, type |-> GObj("U")]>> ELSE <<>>]]]
GraphqlHolds ==
   /\ probe.alg = "gql select" => SelectionIsAnswerable(GObj("A"), probe.i)
   /\ probe.alg = "gql input" => InputIsShown(GIn(<<>>, "I"), probe.i)
   /\ probe.alg = "gql call" => DocumentIsWhole(probe.roots, [n \in {"U"} |-> GNone], probe.id, probe.args)
   /\ probe.alg = "gql fetch" => LimitedListsTheSame(probe.s)
   /\ probe.alg = "gql answer" => ErrorsAreTold(probe.s, probe.b)
-----------------------------------------------------------------------------
\* OpenRPC discovery, parameters, answers, gRPC names and messages.

RLoc(i, b, s, g) == [is |-> i, base |-> b, suffix |-> s, good |-> g, readable |-> TRUE]
RInputs == {RLoc(i, "e", s, s) : i \in {"http", "other"}, s \in BOOLEAN}
ROver == {<<>>} \cup {<<[is |-> i, base |-> "o", suffix |-> s, good |-> g, readable |-> r]>> : i \in {"http", "file"}, s, g, r \in BOOLEAN}
RDocs == {<<>>} \cup {<<RLoc("http", "e", TRUE, g), RLoc("http", "e", TRUE, h)>> : g, h \in BOOLEAN}
RSpec == [name : {"a", "b", "c"}, required : BOOLEAN]
RSpecs == {s \in UNION {[1 .. n -> RSpec] : n \in 0 .. 3} : \A j, k \in DOMAIN s : j # k => s[j].name # s[k].name}
RMethods == SUBSET {[name |-> n, streams |-> b] : n \in {"Get", "Put"}, b \in BOOLEAN}
RFuns == {ms \in RMethods : \A x, y \in ms : x.name = y.name => x = y}
RService(n, ms) == [name |-> n, methods |-> ms]
RFiles == {<<<<RService("A", x), RService("B", y)>>, <<RService("reflection", x)>>>> : x, y \in RFuns} \cup {<<<<RService("A", x)>>, <<RService("B", y)>>>> : x, y \in RFuns}
RName(p, s) == [pkg |-> p, short |-> s]
RNames == {RName("p", "M"), RName("p", "N"), RName("q", "N")}
RFields == {<<>>} \cup {<<n>> : n \in RNames \cup {RName("q", "M"), RName("r", "N")}} \cup {<<RName("p", "N"), n>> : n \in {RName("p", "N"), RName("q", "M")}}
RpcNext ==
   \/ \E i \in RInputs, o \in ROver, d \in BOOLEAN, ds \in RDocs, u \in {"none", "relative", "u"} :
                    probe' = [alg |-> "rpc discover", i |-> i, o |-> o, s |-> [discovers |-> d, docs |-> ds, url |-> u]]
   \/ \E st \in {"by-name", "by-position", "either"}, sp \in RSpecs, as \in SUBSET {"a", "b", "c", "d"} : probe' = [alg |-> "rpc params", st |-> st, sp |-> sp, as |-> as]
   \/ \E s \in {200, 500}, b \in [is : {"object", "array", "text"}, has : SUBSET {"error", "result"}] : probe' = [alg |-> "rpc answer", s |-> s, b |-> b]
   \/ \E f \in RFiles, sv \in {"A", "B", "", "C"}, m \in {"Get", "Put", ""} : probe' = [alg |-> "rpc grpc", f |-> f, id |-> [service |-> sv, method |-> m]]
   \/ \E sc \in {"http", "https", "none"}, u, r, ok \in BOOLEAN : probe' = [alg |-> "rpc unary", sc |-> sc, u |-> u, r |-> r, ok |-> ok]
   \/ \E x, y, z \in RFields : probe' = [alg |-> "rpc message", ix |-> [n \in RNames |-> IF n = RName("p", "M") THEN x ELSE IF n = RName("p", "N") THEN y ELSE z]]
RpcHolds ==
   /\ probe.alg = "rpc discover" => CallsAServer(probe.i, probe.o, probe.s)
   /\ probe.alg = "rpc params" => ParamsCarryArguments(probe.st, probe.sp, probe.as)
   /\ probe.alg = "rpc answer" => JsonrpcErrorsAreTold(probe.s, probe.b)
   /\ probe.alg = "rpc grpc" => GrpcCallExists(probe.f, probe.id)
   /\ probe.alg = "rpc unary" => UnarySentOnce(probe.sc, probe.u, probe.r, probe.ok)
   /\ probe.alg = "rpc message" => MessagesAreShown(RName("p", "M"), probe.ix)

-----------------------------------------------------------------------------
\* Command lines, assignments, schemas and the options of a source.

CSeq(cs, n) == UNION {[1 .. m -> cs] : m \in 0 .. n}
CTokens == {"-h", "-a", "--input-json", "k=v", "-k=v", "{}", "1", "word", "-x"}
CKeys == {<<"a">>, <<"a", ".", "b">>, <<"a", ".", "a">>, <<"a", "[", "0", "]">>, <<"a", "[", "1", "]">>, <<"a", "[", "1", "]", ".", "b">>, <<"b">>,
          <<"a", ".", "b", "[", "0", "]">>}
CAssignments == {k \o v : k \in CKeys, v \in {<<"=", "1">>, <<":=", "1">>, <<":=", "null">>, <<":=", "{..}">>, <<":=", "x">>}}
CTexts == {<<"1">>, <<"1.0">>, <<"big">>, <<"inf">>, <<"true">>, <<"TRUE">>, <<"null">>, <<"x">>, <<"[..]">>, <<"{..}">>}
CTypes == {"integer", "number", "boolean", "null", "string"}
CTyped == {[type |-> t] : t \in CTypes \cup {"array", "object"}}
CA == <<"a">>
CB == <<"b">>
CInt == JScalar("integer", "1")
CSchemas == CTyped \cup {[any |-> TRUE], [type |-> "integer", enum |-> {CInt}], [type |-> "string", const |-> JText(<<"x">>)],
   [items |-> [type |-> "integer"]], [properties |-> CA :> [type |-> "integer"], required |-> {CA, CB}]}
   \cup {[oneOf |-> <<x, y>>] : x, y \in CTyped} \cup {[anyOf |-> <<x, [type |-> "object", properties |-> CA :> y]>>] : x, y \in CTyped}
CValues == {JText(t) : t \in CTexts} \cup {JNull, CInt, JScalar("float", "1.0"), JScalar("boolean", "true"), JArray(<<JText(<<"1">>)>>), JArray(<<>>), JObject(CA :> JText(<<"1">>)),
            JObject(CA :> CInt @@ CB :> JText(<<"x">>))}
CArgs == {<<>>} \cup {CA :> v : v \in CValues} \cup {CB :> v : v \in {CInt, JText(<<"1">>)}} \cup {CA :> v @@ CB :> CInt : v \in CValues}
CDetails(s, q) == {<<p, [schema |-> ObjectSchema(CA :> [schema |-> s, required |-> q])]>> : p \in {"mcp", "graphql"}}
   \cup {<<"jsonrpc", [params |-> CA :> [schema |-> s, required |-> q]]>>}
   \cup {<<"openapi", [params |-> ps, content |-> c]>> : ps \in {<<>>, CB :> [schema |-> [type |-> "string"], required |-> q]},
            c \in {<<>>, [form |-> ObjectSchema(CA :> [schema |-> s, required |-> q])]}}
CSources == [endpoint : {"http", "ws", "imap", "stdio"}, op : {"none", "{}", "subscription/x", "x_subscribe", "unsubscribe"},
   uri : BOOLEAN, read : BOOLEAN, transport : Transports \cup {"none"}, frames : BOOLEAN, mode : {"stream", "poll"},
   poll : {"none", "valid", "garbled"}, json : {"none", "{}"}, args : {<<>>, <<"k=v">>, <<"{}">>, <<"k=v", "{}">>, <<"word">>}]

CallNext ==
   \/ \E a \in CSeq({"text", "auth", "auth=", "mcp=", "--x", "-h", "word"}, 4) : probe' = [alg |-> "call globals", of |-> a]
   \/ \E a \in CSeq(CTokens, 4) : probe' = [alg |-> "call tokens", of |-> a]
   \/ \E k \in CSeq({"a", ".", "[", "]", "0", "1"}, 5) : probe' = [alg |-> "call key", of |-> k]
   \/ \E a, b \in CAssignments : probe' = [alg |-> "call assign", of |-> <<a, b>>]
   \/ \E a, b, c \in {x \in CAssignments : x[Len(x) - 1] = "="} : probe' = [alg |-> "call assign", of |-> <<a, b, c>>]
   \/ \E s \in CSchemas, q \in BOOLEAN : \E d \in CDetails(s, q), a \in CArgs : probe' = [alg |-> "call coerce", d |-> d, as |-> a]
   \/ \E t \in CTexts, y \in CTypes : probe' = [alg |-> "call spelling", of |-> t, type |-> y]
   \/ \E i \in CSources : (i.op \in {"none", "{}", "subscription/x"} \/ (~i.read /\ i.poll # "garbled"))
                           /\ probe' = [alg |-> "call source", of |-> i]
CallHolds ==
   /\ probe.alg = "call globals" => GlobalsStayGlobal(probe.of)
   /\ probe.alg = "call tokens" => InputsAreKept(probe.of)
   /\ probe.alg = "call key" => KeyMeansItsPath(probe.of)
   /\ probe.alg = "call assign" => AssignmentsReadBack(probe.of)
   /\ probe.alg = "call coerce" => CoercedConforms(probe.d[1], probe.d[2], probe.as)
   /\ probe.alg = "call spelling" => BothSpellings(probe.of, probe.type)
   /\ probe.alg = "call source" => SpecKeepsOptions(probe.of) /\ ReportedJobRuns(probe.of)

-----------------------------------------------------------------------------
TextsInit == probe = [alg |-> "none"]
TextsNext ==
   /\ probe.alg = "none"
   /\ \/ McpNext \/ AuthNext \/ HttpNext \/ MailNext \/ OapiNext \/ GqlNext \/ RpcNext \/ CallNext

\* What MCP servers, over a pipe or over HTTP, say and are told is read as it
\* was written: messages split over lines, commands, catalog pages, the
\* transport a server speaks, event streams cut between two characters, header
\* values.
McpTexts == McpTextHolds /\ HttpTextHolds

\* Who may have access, and what is then read.  Discovery takes what the
\* documents of one issuer say, the device flow keeps its pace, one binding is
\* chosen whatever the order of the rules, a signature covers the query that is
\* sent, and no two environments share a fingerprint.  Of a mail, no text of a
\* file gets into the body, every file is listed, a body that is called complete
\* is; sections, references and handles lead back to what they were made for,
\* and dates follow the calendar.  Not claimed: that a part is either body or
\* attachment.  A text named only in its Content-Type is both, an unnamed image
\* among alternatives is neither.
AccessTexts == AuthTextHolds /\ EmailTextHolds

\* A call the adapters make is the one that was asked for: the arguments of the
\* command line, read back at their paths and of the types the schema says,
\* where the schema puts them; errors told, methods that exist.
AdapterTexts == CallHolds /\ OpenapiHolds /\ GraphqlHolds /\ RpcHolds
=============================================================================
