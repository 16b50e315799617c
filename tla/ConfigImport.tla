----------------------------- MODULE ConfigImport -----------------------------
(***************************************************************************)
(* `uxc config import mcp`: the plan made from other programs' MCP          *)
(* configuration, and its application to three stores that no transaction  *)
(* covers: the credentials file, the bindings file and the directory of    *)
(* shortcuts.                                                              *)
(*                                                                         *)
(* Characters of a name: "a" a lower case letter, "A" an upper case one,   *)
(* "-", "_", "." themselves, " " any other.  A value of a header or of an  *)
(* environment entry is [form, key]: form "env" is a ${KEY} placeholder,   *)
(* "bearer" and "bearer_env" the same behind "Bearer ", "literal" any      *)
(* other text.  An option is <<>> or <<x>>.                                *)
(***************************************************************************)
EXTENDS Integers, Sequences, SequencesExt, FiniteSets, FiniteSetsExt

CONSTANTS ImportInputs,    \* what the configuration files of the sources may hold
          MaxImportFaults, \* how often an import is killed or a save fails
          MaxImports       \* how often the command is given

ASSUME ImportAssumption == MaxImportFaults \in Nat /\ MaxImports \in Nat

-----------------------------------------------------------------------------
(* Names. *)

Lowered(ch) == IF ch = "A" THEN "a" ELSE ch
TrimOf(s, ch) ==
    LET keep == {k \in DOMAIN s : s[k] # ch}
    IN IF keep = {} THEN <<>> ELSE SubSeq(s, Min(keep), Max(keep))

\* sanitize_identifier: what is not allowed becomes a dash, unless one stands there.
SanitizeIdentifier(name) ==
    LET put(out, ch) == CASE ch \in {"a", "A", "_", "-"} -> Append(out, Lowered(ch))
                          [] OTHER -> IF out # <<>> /\ Last(out) = "-" THEN out ELSE Append(out, "-")
        trimmed == TrimOf(FoldLeft(put, <<>>, name), "-")
    IN IF trimmed = <<>> THEN <<"item">> ELSE trimmed
CredentialId(name) == <<"mcpimp-">> \o SanitizeIdentifier(name)

\* sanitize_link_name: no two dashes follow each other, none and no dot at the ends.
SanitizeLinkName(name) ==
    LET put(out, ch) == LET c == IF ch = " " THEN "-" ELSE Lowered(ch)
                        IN IF c = "-" /\ out # <<>> /\ Last(out) = "-" THEN out ELSE Append(out, c)
        trimmed == TrimOf(TrimOf(FoldLeft(put, <<>>, name), "-"), ".")
    IN IF trimmed = <<>> THEN <<"mcp">> ELSE trimmed

\* recommended_link_name: a prefix that is blank was dropped by the caller.
RecommendedLinkName(name, prefix) ==
    IF prefix = <<>> THEN SanitizeLinkName(name)
    ELSE SanitizeLinkName(prefix) \o <<"-">> \o SanitizeLinkName(name)

\* validate_link_name
ValidLinkName(name) == /\ name \notin {<<>>, <<".">>, <<".", ".">>}
                       /\ \A k \in DOMAIN name : name[k] # " "

\* unique_identifier: the name itself or the first free number behind it.
UniqueIdentifier(base, taken) ==
    IF base \notin taken THEN base
    ELSE LET free == {n \in 2 .. Cardinality(taken) + 2 : Append(base, ToString(n)) \notin taken}
         IN Append(base, ToString(Min(free)))

-----------------------------------------------------------------------------
(* The plan.  A server entry has the options command, url, bearer,          *)
(* bearerEnv and bearerEnvVar, the functions env, headers and envHeaders    *)
(* and the set of the variables its command line mentions.                  *)

\* paths_for_source, resolve_sources: the first path of a source that exists;
\* "auto" takes every known source in its order.
AutoOrder == <<"claude-code", "cursor", "codex", "windsurf", "opencode", "claude-desktop", "vscode">>
ResolveSources(input, files) ==
    LET found(kind) == {k \in DOMAIN files : files[k].kind = kind}
        first(kind) == IF found(kind) = {} THEN <<>> ELSE <<files[Min(found(kind))]>>
    IN IF input = "auto" THEN FlattenSeq([k \in DOMAIN AutoOrder |-> first(AutoOrder[k])])
       ELSE first(input)

\* source_container_descriptor, as the containers that count, in order.
ContainersOf(source) ==
    IF source.kind = "opencode" THEN <<"mcp">> ELSE <<"mcpServers", "servers", "mcp", "mcp_servers">>
RootFallback(source) ==
    source.kind # "opencode" /\ (source.kind = "claude-code" => source.rootAllowed)
LooksLikeServerEntry(entry) == entry.command # <<>> \/ entry.url # <<>>

\* collect_mcp_server_entries: the first container that names a server has it; the
\* root counts only where there is no container at all.
CollectEntries(source) ==
    LET present == SelectSeq(ContainersOf(source), LAMBDA c : c \in DOMAIN source.root)
        names == UNION {DOMAIN source.root[present[k]] : k \in DOMAIN present}
        of(n) == Min({k \in DOMAIN present : n \in DOMAIN source.root[present[k]]})
        bare == {n \in DOMAIN source.bare : LooksLikeServerEntry(source.bare[n])}
    IN IF present # <<>> THEN [n \in names |-> source.root[present[of(n)]][n]]
       ELSE IF RootFallback(source) THEN [n \in bare |-> source.bare[n]] ELSE <<>>

EnvSecret(key) == [source |-> "env", key |-> key]
LiteralSecret(v) == [source |-> "literal", key |-> v.form \o ":" \o v.key]
Bearer(v) == CASE v.form = "env" -> [v EXCEPT !.form = "bearer_env"]
               [] v.form = "blank" -> [v EXCEPT !.form = "literal"]
               [] OTHER -> [v EXCEPT !.form = "bearer"]
OrInsert(headers, name, v) == IF name \in DOMAIN headers THEN headers ELSE headers @@ (name :> v)

\* The headers an entry asks for: its own first, then the tokens it names.
PlanHeaders(entry) ==
    LET own == entry.headers @@ entry.envHeaders      \* merge_headers
        token == IF entry.bearer = <<>> THEN own ELSE OrInsert(own, "Authorization", Bearer(entry.bearer[1]))
    IN IF entry.bearerEnv = <<>> THEN token
       ELSE OrInsert(token, "Authorization", [form |-> "env", key |-> entry.bearerEnv[1]])

\* detect_http_credential_candidate: the first header, by name, that carries one.
HeaderOrder == <<"Authorization", "X-Api-Key", "X-Other">>
HeaderCandidate(name, v) ==
    CASE name = "Authorization" /\ v.form = "bearer_env" -> <<[kind |-> "bearer", secret |-> EnvSecret(v.key)]>>
      [] name = "Authorization" /\ v.form = "bearer" ->
           <<[kind |-> "bearer", secret |-> LiteralSecret([v EXCEPT !.form = "literal"])]>>
      [] name = "X-Api-Key" /\ v.form = "env" -> <<[kind |-> name, secret |-> EnvSecret(v.key)]>>
      [] name = "X-Api-Key" /\ v.form \notin {"env", "blank"} -> <<[kind |-> name, secret |-> LiteralSecret(v)]>>
      [] OTHER -> <<>>
DetectHttpCredential(headers) ==
    LET candidates == FlattenSeq([k \in DOMAIN HeaderOrder |->
                        IF HeaderOrder[k] \in DOMAIN headers
                        THEN HeaderCandidate(HeaderOrder[k], headers[HeaderOrder[k]]) ELSE <<>>])
    IN IF candidates = <<>> THEN <<>> ELSE <<candidates[1]>>
HttpCredential(entry) ==
    IF entry.bearerEnvVar # <<>> THEN <<[kind |-> "bearer", secret |-> EnvSecret(entry.bearerEnvVar[1])]>>
    ELSE DetectHttpCredential(PlanHeaders(entry))

\* detect_stdio_secret_env_mapping: the first name, in order, that stands for itself
\* or whose variable the command line mentions; `EnvOrder` is the order of names.
EnvOrder == <<"A_TOKEN", "B_SECRET", "PLAIN">>
SecretLike(name) == name \in {"A_TOKEN", "B_SECRET"}
StdioEnvNames(entry) ==
    SelectSeq(EnvOrder, LAMBDA n : /\ n \in DOMAIN entry.env /\ SecretLike(n)
                                   /\ entry.env[n].form = "env"
                                   /\ entry.env[n].key = n \/ entry.env[n].key \in entry.mentions)
\* detect_stdio_secret_literal_mapping: any text under a secret's name will do.
StdioLiteralNames(entry) ==
    SelectSeq(EnvOrder, LAMBDA n : n \in DOMAIN entry.env /\ SecretLike(n) /\ entry.env[n].form # "blank")
StdioCredential(entry) ==
    LET e == StdioEnvNames(entry) l == StdioLiteralNames(entry)
    IN CASE e # <<>> -> [inject |-> {e[1]}, cred |-> <<[kind |-> "bearer", secret |-> EnvSecret(entry.env[e[1]].key)]>>]
         [] e = <<>> /\ l # <<>> ->
              [inject |-> {l[1]}, cred |-> <<[kind |-> "bearer", secret |-> LiteralSecret(entry.env[l[1]])]>>]
         [] OTHER -> [inject |-> {}, cred |-> <<>>]

\* build_server_plan: a command makes a stdio host, else a URL makes an HTTP one;
\* binding_from_endpoint leaves out the query.
BuildServerPlan(name, entry, prefix) ==
    LET plan == [name |-> name, link |-> RecommendedLinkName(name, prefix), host |-> <<>>, cred |-> <<>>,
                 inject |-> {}, binding |-> <<>>, error |-> FALSE]
        stdio == StdioCredential(entry)
    IN CASE entry.command # <<>> ->
              [plan EXCEPT !.host = <<"stdio", entry.command[1]>>, !.cred = stdio.cred, !.inject = stdio.inject]
         [] entry.command = <<>> /\ entry.url # <<>> ->
              [plan EXCEPT !.host = <<"http", entry.url[1].target, entry.url[1].query>>,
                           !.cred = HttpCredential(entry), !.binding = <<entry.url[1].target>>]
         [] OTHER -> [plan EXCEPT !.error = TRUE]

\* Of the servers with one host only the first counts.
AddPlan(plans, plan) ==
    IF ~plan.error /\ (\E k \in DOMAIN plans : ~plans[k].error /\ plans[k].host = plan.host)
    THEN plans ELSE Append(plans, plan)

\* build_mcp_import_plan_from_input: source after source, the names of a source in
\* their order, and the plan sorted by name.
BeforeName(m, n) ==
    LET rank(ch) == CHOOSE k \in 1 .. 6 : <<" ", "-", ".", "A", "_", "a">>[k] = ch
    IN \E k \in 1 .. Len(n) :
         /\ \A j \in 1 .. k - 1 : j <= Len(m) /\ m[j] = n[j]
         /\ k > Len(m) \/ rank(m[k]) < rank(n[k])
SortedNames(names) == SetToSortSeq(names, BeforeName)
BuildImportPlan(input, files, prefix) ==
    LET sources == ResolveSources(input, files)
        ofSource(plans, source) ==
            LET entries == CollectEntries(source) names == SortedNames(DOMAIN entries)
            IN FoldLeft(AddPlan, plans, [k \in DOMAIN names |-> BuildServerPlan(names[k], entries[names[k]], prefix)])
        merged == FoldLeft(ofSource, <<>>, sources)
    IN SortSeq(merged, LAMBDA p, q : BeforeName(p.name, q.name))

-----------------------------------------------------------------------------
(* Applying the plan. *)

VARIABLES impInput,    \* the sources' files, the --from and the --prefix
          impForce,    \* --force of the import under way
          impPc,       \* "idle", "servers", "profiles", "bindings", "done"
          impPlan,     \* the plan's servers
          impMem,      \* the stores as the command has them in memory
          impReport,   \* what was done, by server
          profFile,    \* the credentials file: id -> [kind, secret]
          bindFile,    \* the bindings file: a sequence of [id, target, cred]
          linkDir,     \* the shortcuts: name -> [managed, host, cred]
          impFaults, impCount,
          impSame      \* history: --force was given always or never

impVars == <<impInput, impForce, impPc, impPlan, impMem, impReport, profFile, bindFile, linkDir, impFaults, impCount, impSame>>

\* A store with one entry more, or in place of the one it has.
Put(f, k, v) == [x \in DOMAIN f \cup {k} |-> IF x = k THEN v ELSE f[x]]

\* find_equivalent_profile_id, has_profile, set_profile.
EquivalentKinds(profs, cand) == {id \in DOMAIN profs : profs[id].kind = cand.kind}
EquivalentIds(profs, cand) == {id \in DOMAIN profs : profs[id] = cand}
ResolveCredential(s, mem) ==
    LET id == CredentialId(s.name)
        equal == EquivalentIds(mem.profs, s.cred[1])
        as(i, profs) == [id |-> <<i>>, profs |-> profs, error |-> FALSE]
    IN CASE s.cred = <<>> -> {[id |-> <<>>, profs |-> mem.profs, error |-> FALSE]}
         [] s.cred # <<>> /\ equal # {} -> {as(i, mem.profs) : i \in equal}
         [] s.cred # <<>> /\ equal = {} /\ id \in DOMAIN mem.profs /\ ~impForce ->
              {[id |-> <<>>, profs |-> mem.profs, error |-> TRUE]}
         [] OTHER -> {as(id, Put(mem.profs, id, s.cred[1]))}

\* find_equivalent_binding_id, find_binding_target_conflict_idx, add_binding.
ResolveBinding(s, id, mem) ==
    LET at == {k \in DOMAIN mem.binds : mem.binds[k].target = s.binding[1]}
        same == {k \in at : <<mem.binds[k].cred>> = id}
        new == UniqueIdentifier(CredentialId(s.name), {mem.binds[k].id : k \in DOMAIN mem.binds})
        as(binds, error) == [binds |-> binds, error |-> error]
    IN CASE s.binding = <<>> \/ id = <<>> -> as(mem.binds, FALSE)
         [] s.binding # <<>> /\ id # <<>> /\ same # {} -> as(mem.binds, FALSE)
         [] s.binding # <<>> /\ id # <<>> /\ same = {} /\ at # {} ->
              IF impForce THEN as([mem.binds EXCEPT ![Min(at)].cred = id[1]], FALSE) ELSE as(mem.binds, TRUE)
         [] OTHER -> as(Append(mem.binds, [id |-> new, target |-> s.binding[1], cred |-> id[1]]), FALSE)

\* build_link_launcher: what the shortcut runs uxc with.
Launcher(s, id) == [managed |-> TRUE, host |-> s.host,
                    cred |-> IF s.host[1] = "stdio" THEN id ELSE <<>>,
                    inject |-> IF s.host[1] = "stdio" THEN s.inject ELSE {}]

\* handle_link_command's refusals, and write_link_file, which replaces only
\* shortcuts and those only by force.
LinkRefused(name, launcher, dir) ==
    \/ ~ValidLinkName(name)
    \/ launcher.inject # {} /\ launcher.cred = <<>>
    \/ name \in DOMAIN dir /\ (~impForce \/ ~dir[name].managed)

\* A shortcut for the same host, found when the command started, is taken instead.
ResolveLink(s, id, mem, dir) ==
    LET as(d, made, error) == [dir |-> d, made |-> made, error |-> error]
        launcher == Launcher(s, id)
    IN CASE \E n \in DOMAIN mem.seen : mem.seen[n].managed /\ mem.seen[n].host = s.host -> as(dir, FALSE, FALSE)
         [] LinkRefused(s.link, launcher, dir) -> as(dir, FALSE, TRUE)
         [] OTHER -> as(Put(dir, s.link, launcher), TRUE, FALSE)

\* The command begins: the sources are read and planned, then the stores loaded.
StartImport ==
    /\ impPc \in {"idle", "done"} /\ impCount < MaxImports
    /\ ResolveSources(impInput.from, impInput.files) # <<>>
    /\ \E force \in BOOLEAN :
         /\ impForce' = force
         /\ impSame' = (impSame /\ (impCount = 0 \/ force = impForce))
    /\ impPc' = "servers" /\ impCount' = impCount + 1
    /\ impPlan' = BuildImportPlan(impInput.from, impInput.files, impInput.prefix)
    /\ impMem' = [profs |-> profFile, binds |-> bindFile, seen |-> linkDir]
    /\ impReport' = <<>>
    /\ UNCHANGED <<impInput, profFile, bindFile, linkDir, impFaults>>

\* execute_mcp_import_apply, one server: its credential, its binding, its shortcut; an
\* error ends the server and the next one follows.
ImportServer ==
    /\ impPc = "servers" /\ Len(impReport) < Len(impPlan)
    /\ LET s == impPlan[Len(impReport) + 1]
           none == [id |-> <<>>, made |-> FALSE, error |-> TRUE]
       IN \/ /\ s.error /\ impReport' = Append(impReport, none) /\ UNCHANGED <<impMem, linkDir>>
          \/ /\ ~s.error
             /\ \E c \in ResolveCredential(s, impMem) :
                  LET b == ResolveBinding(s, c.id, impMem)
                      l == ResolveLink(s, c.id, impMem, linkDir)
                      done == [id |-> c.id, made |-> FALSE, error |-> TRUE]
                  IN /\ impMem' = [impMem EXCEPT !.profs = c.profs, !.binds = IF c.error THEN @ ELSE b.binds]
                     /\ \/ /\ c.error \/ b.error
                           /\ impReport' = Append(impReport, done) /\ UNCHANGED linkDir
                        \/ /\ ~c.error /\ ~b.error
                           /\ linkDir' = l.dir
                           /\ impReport' = Append(impReport, [done EXCEPT !.made = l.made, !.error = l.error])
    /\ UNCHANGED <<impInput, impForce, impPc, impPlan, profFile, bindFile, impFaults, impCount, impSame>>

\* The two files are written one after the other, when all servers are through.
SaveOrder == <<"profiles", "bindings">>
BeginSaves ==
    /\ impPc = "servers" /\ Len(impReport) = Len(impPlan)
    /\ impPc' = SaveOrder[1]
    /\ UNCHANGED <<impInput, impForce, impPlan, impMem, impReport, profFile, bindFile, linkDir, impFaults, impCount, impSame>>
SaveImport ==
    /\ impPc \in {"profiles", "bindings"}
    /\ profFile' = IF impPc = "profiles" THEN impMem.profs ELSE profFile
    /\ bindFile' = IF impPc = "bindings" THEN impMem.binds ELSE bindFile
    /\ impPc' = IF impPc = SaveOrder[1] THEN SaveOrder[2] ELSE "done"
    /\ UNCHANGED <<impInput, impForce, impPlan, impMem, impReport, linkDir, impFaults, impCount, impSame>>

\* The process is killed, or a save fails and the command ends with its error.
ImportDies ==
    /\ impPc \in {"servers", "profiles", "bindings"} /\ impFaults < MaxImportFaults
    /\ impPc' = "idle" /\ impFaults' = impFaults + 1
    /\ UNCHANGED <<impInput, impForce, impPlan, impMem, impReport, profFile, bindFile, linkDir, impCount, impSame>>

\* A credential and a file of another's may stand where the import wants to write.
ImpInit ==
    /\ impInput \in ImportInputs
    /\ \E id \in {<<>>, <<CredentialId(<<"a">>)>>} :
         profFile = IF id = <<>> THEN <<>> ELSE id[1] :> [kind |-> "bearer", secret |-> EnvSecret("OLD")]
    /\ bindFile = <<>>
    /\ linkDir \in {<<>>, <<"a">> :> [managed |-> FALSE, host |-> <<>>, cred |-> <<>>, inject |-> {}]}
    /\ impForce = FALSE /\ impPc = "idle" /\ impPlan = <<>> /\ impReport = <<>>
    /\ impMem = [profs |-> <<>>, binds |-> <<>>, seen |-> <<>>] /\ impFaults = 0 /\ impCount = 0 /\ impSame = TRUE
ImpNext == StartImport \/ ImportServer \/ BeginSaves \/ SaveImport \/ ImportDies
ImpSpec == ImpInit /\ [][ImpNext]_impVars

-----------------------------------------------------------------------------
\* A binding never names a credential that is not stored, even if the import dies
\* between its two saves.
BindingsNameCredentials == \A k \in DOMAIN bindFile : bindFile[k].cred \in DOMAIN profFile

\* When the import ends, every server reported without error has its own secret
\* stored under the id it reports and its address bound to that id, unless a
\* later server of the same import took the place by force.
ServerIsServed ==
    impPc = "done" =>
      \A k \in DOMAIN impReport :
        LET s == impPlan[k] r == impReport[k]
            taken == impForce /\ \E j \in k + 1 .. Len(impPlan) :
                       \/ CredentialId(impPlan[j].name) \in {CredentialId(s.name)} \cup {r.id[i] : i \in DOMAIN r.id}
                       \/ impPlan[j].binding = s.binding
        IN ~r.error /\ s.cred # <<>> =>
             \/ taken
             \/ /\ r.id # <<>> /\ r.id[1] \in DOMAIN profFile /\ profFile[r.id[1]] = s.cred[1]
                /\ s.binding # <<>> => \E b \in DOMAIN bindFile :
                                         bindFile[b].target = s.binding[1] /\ bindFile[b].cred = r.id[1]

\* Giving the same command again after it died heals the shortcuts: none of a
\* server reported without error names a credential that is not stored.  By
\* force another server may take the shortcut's name.  (Repeated without the
\* --force it died with, the import may find another credential equal to the
\* server's, and the shortcut keeps the name of the one that was never saved.)
RepeatHeals ==
    impPc = "done" /\ impSame =>
      \A k \in DOMAIN impReport : ~impReport[k].error =>
        \/ impForce /\ \E j \in DOMAIN impPlan \ {k} : impPlan[j].link = impPlan[k].link
        \/ \E n \in DOMAIN linkDir : /\ linkDir[n].managed /\ linkDir[n].host = impPlan[k].host
                                     /\ linkDir[n].cred # <<>> => linkDir[n].cred[1] \in DOMAIN profFile

\* The shortcut name made from any server name is one that the link command takes.
LinkNamesAreValid == \A k \in DOMAIN impPlan : ValidLinkName(impPlan[k].link)

\* An import serves the servers it reports, one that was cut short leaves
\* nothing that the next cannot complete, and the names it makes are taken.
ImportIsTrue == ServerIsServed /\ RepeatHeals /\ LinkNamesAreValid

\* Without --force what is stored stays as it is; a file that is not a shortcut
\* stays even with it.
NothingReplaced ==
    [][ /\ ~impForce => /\ \A id \in DOMAIN profFile : id \in DOMAIN profFile' /\ profFile'[id] = profFile[id]
                        /\ IsPrefix(bindFile, bindFile')
                        /\ \A n \in DOMAIN linkDir : linkDir'[n] = linkDir[n]
        /\ \A n \in DOMAIN linkDir : ~linkDir[n].managed => linkDir'[n] = linkDir[n] ]_impVars
=============================================================================
