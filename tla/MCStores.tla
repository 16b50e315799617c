------------------------------- MODULE MCStores -------------------------------
(***************************************************************************)
(* What requests and commands share and keep, in five parts that share no  *)
(* state here: the schema cache under invocations, one credential under    *)
(* its commands, the credential files under several processes, the         *)
(* configuration import, and mail servers.  A behaviour is one of one      *)
(* part; the others stand still.                                           *)
(***************************************************************************)
EXTENDS SchemaInvoke, AuthCredentials, AuthFiles, ConfigImport, EmailAccess
VARIABLE part

Shape(action, args, refresh, noCache, auth, mapping) ==
    [action |-> action, args |-> args, refresh |-> refresh, noCache |-> noCache, auth |-> auth, mapping |-> mapping]
MCShapes == {Shape("help", FALSE, FALSE, FALSE, "a", "none"), Shape("help", FALSE, TRUE, FALSE, "b", "none"),
             Shape("execute", FALSE, FALSE, FALSE, "a", "m"), Shape("execute", TRUE, FALSE, FALSE, "b", "n"),
             Shape("help", FALSE, FALSE, TRUE, "b", "none")}
MCEndpointKinds == {{"mcp"}, {"openapi"}, {"grpc"}, {"jsonrpc"}, {"mcp", "openapi"}}

ImpV(form, key) == [form |-> form, key |-> key]
ImpBlank == [command |-> <<>>, url |-> <<>>, env |-> <<>>, mentions |-> {}, headers |-> <<>>,
             envHeaders |-> <<>>, bearer |-> <<>>, bearerEnv |-> <<>>, bearerEnvVar |-> <<>>]
ImpUrl(t, q) == [ImpBlank EXCEPT !.url = <<[target |-> t, query |-> q]>>]
ImpEntries == {
    [ImpBlank EXCEPT !.command = <<"c1">>, !.env = "A_TOKEN" :> ImpV("env", "A_TOKEN")],
    [ImpBlank EXCEPT !.command = <<"c1">>, !.env = ("B_SECRET" :> ImpV("env", "K")) @@ ("PLAIN" :> ImpV("literal", "x")), !.mentions = {"K"}],
    [ImpBlank EXCEPT !.command = <<"c2">>, !.env = "A_TOKEN" :> ImpV("literal", "x")],
    [ImpBlank EXCEPT !.command = <<"c3">>, !.env = "A_TOKEN" :> ImpV("env", "OLD"), !.mentions = {"OLD"}],
    [ImpUrl("t", "") EXCEPT !.headers = "Authorization" :> ImpV("bearer_env", "K"), !.envHeaders = "X-Api-Key" :> ImpV("literal", "K")],
    [ImpUrl("t", "q") EXCEPT !.headers = "X-Api-Key" :> ImpV("env", "K")],
    [ImpUrl("t", "") EXCEPT !.bearerEnvVar = <<"K">>],
    [ImpUrl("u", "") EXCEPT !.bearer = <<ImpV("literal", "x")>>],
    [ImpUrl("u", "") EXCEPT !.bearerEnv = <<"K">>, !.headers = "X-Other" :> ImpV("literal", "x")],
    ImpBlank}
\* the names of two servers
ImpPairs == {<<<<"a">>, m>> : m \in {<<"A", "-">>, <<" ", ".">>, <<"a", "a">>}} \cup {<<<<"A", "-">>, <<" ", ".">>>>}
ImpSource(kind, root, bare) == [kind |-> kind, root |-> root, bare |-> bare, rootAllowed |-> FALSE]
\* prefix, kind of the second source and its container: every two of them together
ImpSecond == {<<<<>>, "cursor", "mcp_servers">>, <<<<>>, "claude-code", "other">>,
              <<<<"-">>, "cursor", "other">>, <<<<"-">>, "claude-code", "mcp_servers">>}
\* Two servers of one file; a name in two containers; servers at the root; two sources.
MCImportInputs ==
    {[from |-> "cursor", prefix |-> <<>>,
      files |-> <<ImpSource("cursor", "mcpServers" :> ((n[1] :> e) @@ (n[2] :> f)), <<>>)>>] :
         n \in ImpPairs, e \in ImpEntries, f \in ImpEntries}
    \cup
    {[from |-> "auto", prefix |-> x[1],
      files |-> <<ImpSource("opencode", ("mcp" :> (<<"a">> :> e)) @@ ("mcpServers" :> (<<"a">> :> f)), <<>>),
                  ImpSource(x[2], x[3] :> (<<"a">> :> f), <<"a">> :> e)>>] :
         x \in ImpSecond, e \in ImpEntries, f \in ImpEntries}

-----------------------------------------------------------------------------
storeVars == <<part, invVars, credVars, authVars, impVars, accessVars>>
StoresInit ==
    /\ part \in {"cache", "credential", "files", "import", "mail"}
    /\ InvInit /\ (part = "cache" \/ (endpoint.protos = {"mcp"} /\ \A k \in Keys : file[k] = NoFile))
    /\ CredInit
    /\ AuthInit
    /\ \/ part = "import" /\ ImpInit
       \/ /\ part # "import"
          /\ impInput = <<>> /\ impForce = FALSE /\ impPc = "idle" /\ impPlan = <<>> /\ impMem = <<>>
          /\ impReport = <<>> /\ profFile = <<>> /\ bindFile = <<>> /\ linkDir = <<>>
          /\ impFaults = 0 /\ impCount = 0 /\ impSame = TRUE
    /\ \/ part = "mail" /\ AccessInit
       \/ part # "mail" /\ box = <<>> /\ post = EmailUnused /\ fetch = EmailUnused
StoresNext ==
    \/ part = "cache" /\ InvNext /\ UNCHANGED <<part, credVars, authVars, impVars, accessVars>>
    \/ part = "credential" /\ CredNext /\ UNCHANGED <<part, invVars, authVars, impVars, accessVars>>
    \/ part = "files" /\ AuthNext /\ UNCHANGED <<part, invVars, credVars, impVars, accessVars>>
    \/ part = "import" /\ ImpNext /\ UNCHANGED <<part, invVars, credVars, authVars, accessVars>>
    \/ part = "mail" /\ AccessNext /\ UNCHANGED <<part, invVars, credVars, authVars, impVars>>
StoresSpec == StoresInit /\ [][StoresNext]_storeVars

\* A credential sends what it should, its file holds tokens that are still good,
\* a login whose token is stored has left no file, and no binding that an
\* import leaves, however it ends, names a credential that is not stored.
CredentialsAreTrue == /\ ReadyIsAuthenticated /\ OnlyWhatTemplatesName
                      /\ FileTokensGood /\ SpentLoginGone
                      /\ BindingsNameCredentials

\* What a command may not do to what is stored: leave a bootstrap's token as the
\* user's secret, turn a login's token into another type's secret, bring a
\* removed credential back, replace what exists without --force.
StoreSteps == BootstrapLeavesSecret /\ SwitchNeedsSecret /\ RemovedStaysRemoved /\ NothingReplaced
=============================================================================
