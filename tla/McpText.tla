------------------------------- MODULE McpText -------------------------------
(***************************************************************************)
(* The conversions under the stdio MCP client: finding messages in what    *)
(* the child prints, splitting and quoting command lines, and gathering a  *)
(* catalogue from the pages of a list request.                             *)
(*                                                                         *)
(* Characters: "{" and "}", "q" a double quote, "s" a single quote, "b" a  *)
(* backslash, "n" a line's end, " " a space; "a" is any other.             *)
(***************************************************************************)
EXTENDS Integers, Sequences, SequencesExt, FiniteSets

CONSTANTS MaxPages,   \* MCP_LIST_MAX_PAGES
          MaxItems    \* MCP_LIST_MAX_ITEMS

-----------------------------------------------------------------------------
(* Messages: the reader collects lines in a buffer and cuts it after every  *)
(* closing brace that balances.                                             *)

ScanStart == [n |-> 0, depth |-> 0, str |-> FALSE, esc |-> FALSE, found |-> 0]

\* Fault for Scan: braces inside strings count.
ScanAll(st, ch) ==
    IF st.found # 0 THEN st
    ELSE LET d == IF ch = "{" THEN st.depth + 1 ELSE IF ch = "}" THEN st.depth - 1 ELSE st.depth
         IN [st EXCEPT !.n = @ + 1, !.depth = d, !.found = IF ch = "}" /\ d = 0 THEN st.n + 1 ELSE 0]

\* One character of find_complete_json.
Scan(st, ch) ==
    LET next == [st EXCEPT !.n = @ + 1] IN
    CASE st.found # 0 -> st
      [] st.found = 0 /\ st.esc -> [next EXCEPT !.esc = FALSE]
      [] st.found = 0 /\ ~st.esc /\ ch = "b" /\ st.str -> [next EXCEPT !.esc = TRUE]
      [] st.found = 0 /\ ~st.esc /\ ch = "q" -> [next EXCEPT !.str = ~st.str]
      [] st.found = 0 /\ ~st.esc /\ ch = "{" /\ ~st.str -> [next EXCEPT !.depth = @ + 1]
      [] st.found = 0 /\ ~st.esc /\ ch = "}" /\ ~st.str ->
           [next EXCEPT !.depth = @ - 1, !.found = IF st.depth = 1 THEN next.n ELSE 0]
      [] OTHER -> next

\* 0: no complete object yet.
FindCompleteJson(buf) == FoldLeft(Scan, ScanStart, buf).found

\* The inner loop of the reader task: cut while there is something to cut.
Cut(st) == LET p == FindCompleteJson(st.buf) IN
           IF p = 0 THEN st
           ELSE [buf |-> SubSeq(st.buf, p + 1, Len(st.buf)), cut |-> Append(st.cut, SubSeq(st.buf, 1, p))]
CutAll(st) == FoldLeft(LAMBDA acc, ch : Cut(acc), st, st.buf)

\* The reader task over the lines of its input.
ReadLines(lines) ==
    FoldLeft(LAMBDA st, line : CutAll([st EXCEPT !.buf = @ \o Append(line, "n")]),
             [buf |-> <<>>, cut |-> <<>>], lines).cut

\* parse_jsonrpc_message skips white space around an object and in it.
Parsed(piece) == SelectSeq(piece, LAMBDA ch : ch # "n")

-----------------------------------------------------------------------------
(* Command lines. *)

ParseStart == [parts |-> <<>>, cur |-> <<>>, quote |-> "none", esc |-> FALSE]
Push(st) == [st EXCEPT !.parts = Append(@, st.cur), !.cur = <<>>]

\* One character of parse_command: a closing quote ends the part.
ParseChar(st, ch) ==
    CASE st.esc -> [st EXCEPT !.cur = Append(@, ch), !.esc = FALSE]
      [] ~st.esc /\ ch = "b" /\ st.quote # "single" -> [st EXCEPT !.esc = TRUE]
      [] ~st.esc /\ ch = "q" /\ st.quote = "double" -> [Push(st) EXCEPT !.quote = "none"]
      [] ~st.esc /\ ch = "q" /\ st.quote = "none" -> [st EXCEPT !.quote = "double"]
      [] ~st.esc /\ ch = "s" /\ st.quote = "single" -> [Push(st) EXCEPT !.quote = "none"]
      [] ~st.esc /\ ch = "s" /\ st.quote = "none" -> [st EXCEPT !.quote = "single"]
      [] ~st.esc /\ ch = " " /\ st.quote = "none" -> IF st.cur = <<>> THEN st ELSE Push(st)
      [] OTHER -> [st EXCEPT !.cur = Append(@, ch)]
ParseCommand(line) == LET st == FoldLeft(ParseChar, ParseStart, line)
                      IN IF st.cur = <<>> THEN st.parts ELSE Append(st.parts, st.cur)

\* shell_single_quote: a quote inside becomes '"'"'.
SingleQuoted(part) ==
    <<"s">> \o FlattenSeq([k \in DOMAIN part |->
                 IF part[k] = "s" THEN <<"s", "q", "s", "q", "s">> ELSE <<part[k]>>]) \o <<"s">>
Has(part, chars) == \E k \in DOMAIN part : part[k] \in chars

\* shell_quote_part of the import, quote_stdio_command_part of the CLI.
ShellQuotePart(part) == IF part # <<>> /\ ~Has(part, {" ", "q", "s", "b", "{", "}", "n"})
                        THEN part ELSE SingleQuoted(part)
QuoteStdioCommandPart(part) == IF part = <<>> \/ Has(part, {" ", "n", "s", "q"})
                               THEN SingleQuoted(part) ELSE part

Join(parts) == FoldLeft(LAMBDA acc, p : IF acc = <<"none">> THEN p ELSE acc \o <<" ">> \o p,
                        <<"none">>, parts)

\* build_stdio_command: a command without arguments is taken as it is.
BuildStdioCommand(parts) ==
    IF Len(parts) = 1 THEN parts[1]
    ELSE Join([k \in DOMAIN parts |-> ShellQuotePart(parts[k])])

\* absolutize_stdio_command_endpoint: only a relative or a home path is
\* replaced and the line quoted anew; `kind` is what the command looks like.
Absolutize(line, kind, absolute) ==
    LET parts == ParseCommand(line) IN
    IF parts = <<>> \/ kind \in {"url", "absolute", "name"} THEN line
    ELSE LET rebuilt == [parts EXCEPT ![1] = absolute]
         IN Join([k \in DOMAIN rebuilt |-> QuoteStdioCommandPart(rebuilt[k])])

-----------------------------------------------------------------------------
(* Catalogues.  A server is a function from cursors to pages; cursor "" is  *)
(* no cursor.                                                               *)

CatalogStart == [items |-> <<>>, pages |-> 0, ttl |-> -1, scope |-> "none", cursor |-> "",
                 seen |-> {}, state |-> "more"]

MergeTtl(cur, next) == CASE cur = -1 -> next [] next = -1 -> cur
                         [] OTHER -> IF cur < next THEN cur ELSE next
MergeScope(cur, next) == CASE next = "none" -> cur
                           [] next # "none" /\ "private" \in {cur, next} -> "private"
                           [] OTHER -> IF cur = "none" THEN next ELSE cur

\* absorb_response: metadata and limits first, then the cursor, which must be new.
Absorb(c, page) ==
    LET got == [c EXCEPT !.pages = @ + 1, !.items = @ \o page.items, !.ttl = MergeTtl(@, page.ttl),
                         !.scope = MergeScope(@, page.scope)]
    IN CASE Len(got.items) > MaxItems -> [got EXCEPT !.state = "error"]
         [] Len(got.items) <= MaxItems /\ page.next = "" -> [got EXCEPT !.state = "done"]
         [] Len(got.items) <= MaxItems /\ page.next # "" /\ page.next \in c.seen ->
              [got EXCEPT !.state = "error"]
         [] OTHER -> [got EXCEPT !.cursor = page.next, !.seen = @ \cup {page.next}]

\* list_catalog: one page after the other, at most MaxPages.
ListStep(c, server) ==
    CASE c.state # "more" -> c
      [] c.state = "more" /\ c.pages >= MaxPages -> [c EXCEPT !.state = "error"]
      [] OTHER -> Absorb(c, server[c.cursor])
ListCatalog(server) ==
    FoldLeft(LAMBDA c, k : ListStep(c, server), CatalogStart, [k \in 1 .. MaxPages + 1 |-> k])

-----------------------------------------------------------------------------
\* The reader finds exactly the messages that the child wrote, in order,
\* however they are broken into lines, with braces and quotes in their strings
\* (find_complete_json, reader task).
FramesRecovered(lines, messages) ==
    LET cut == ReadLines(lines) IN [k \in DOMAIN cut |-> Parsed(cut[k])] = messages

\* The command that an import writes is split into the parts it was built
\* from, if no part has a single quote.
ImportedCommandSplits(parts) ==
    Len(parts) > 1 /\ (\A k \in DOMAIN parts : ~Has(parts[k], {"s"}))
      => ParseCommand(BuildStdioCommand(parts)) = parts

\* Making the command's path absolute leaves the arguments alone, if none has a
\* single quote or a bare backslash.
ArgumentsKept(line) ==
    LET parts == ParseCommand(line) IN
    parts # <<>> /\ (\A k \in DOMAIN parts : ~Has(parts[k], {"s", "b"}))
      => ParseCommand(Absolutize(line, "relative", <<"a", "a">>)) = [parts EXCEPT ![1] = <<"a", "a">>]

\* A catalogue that comes back is complete: every page once, in the order of the
\* cursors; it is never kept longer or shared wider than any page allows.  A
\* server whose cursors run in a circle is an error, never a loop.
CatalogIsWhole(server) ==
    LET c == ListCatalog(server) IN
    /\ c.state \in {"done", "error"}
    /\ c.state = "done" =>
         LET visited == {""} \cup c.seen IN
         /\ Len(c.items) = FoldLeft(LAMBDA n, k : n + Len(server[k].items), 0, SetToSeq(visited))
         /\ \A k \in visited : server[k].ttl # -1 => c.ttl # -1 /\ c.ttl <= server[k].ttl
         /\ (\E k \in visited : server[k].scope = "private") => c.scope = "private"
=============================================================================
