------------------------------ MODULE PollLoop ------------------------------
(***************************************************************************)
(* One polled managed source: the loop that asks a server for its newest   *)
(* page, the checkpoint that tells old items from new ones, the ETag that  *)
(* saves a transfer, and what a failed round, a failed write or a restart  *)
(* of the daemon leaves behind.  The events and the checkpoint of a round  *)
(* are stored in one transaction.                                          *)
(*                                                                         *)
(* An item is a number: its place in the server's log.  MarkOf and TieOf   *)
(* are the two values by which the watermark strategy orders items;        *)
(* FirstOf is the oldest item with a mark.                                 *)
(***************************************************************************)
EXTENDS Integers, Sequences, SequencesExt, FiniteSets

CONSTANTS PageSize,      \* items on a page
          MaxItems,      \* bound: items the server ever has
          MaxFailures,   \* bound: failed rounds and restarts
          PollConfigs    \* the configurations to look at

ASSUME PollAssumption ==
    /\ PageSize \in Nat \ {0} /\ MaxItems \in Nat \ {0} /\ MaxFailures \in Nat
    /\ \A c \in PollConfigs : /\ c.window \in Nat /\ c.limit \in Int /\ c.tie \in BOOLEAN /\ c.arg \in BOOLEAN
                             /\ c.cursorFrom \in {"none", "item", "response"}

\* MANAGED_SOURCE_ETAG_MAX_CONSECUTIVE_304.
Max304 == 3

VARIABLES config,    \* PollSubscriptionConfig
          items,     \* how many items the server has
          poller,    \* "starting", "polling", "writing" or "failed"
          cp,        \* the runner's checkpoint
          round,     \* what the round at hand will store
          pollRow,    \* poll_checkpoint_json of the row
          legacy,    \* the checkpoint file of an earlier release
          emitted,   \* the payloads of the stream, in the order of their offsets
          shown,     \* items on a page of a stored round
          hidden,    \* items that the first look left out
          sticky,    \* the server answers 304 whenever it can
          failures
pollVars == <<config, items, poller, cp, round, pollRow, legacy, emitted, shown, hidden, sticky, failures>>

MarkOf(i) == (i + 1) \div 2
TieOf(i) == i
FirstOf(mark) == 2 * mark - 1

NoCheckpoint == [cursor |-> 0, mark |-> 0, tie |-> 0, seen |-> <<>>, etag |-> 0, old |-> FALSE, n304 |-> 0, based |-> FALSE]
NoRow == [NoCheckpoint EXCEPT !.cursor = -1]
NoRound == [news |-> <<>>, page |-> <<>>, writes |-> FALSE]

\* PollSubscriptionConfig::validate.
Valid(c) == /\ c.cursorFrom = "item" => c.arg
            /\ c.strategy = "cursor_only" => c.limit = -1 /\ c.arg /\ c.cursorFrom # "none"
            /\ c.strategy \in {"cursor_only", "item_key", "watermark", "content_hash"}

-----------------------------------------------------------------------------
(* The server.                                                              *)

\* The page that a request gets: from the item on that it names, else the
\* newest items, newest first.
PollPage(cursor) == IF cursor > 0 THEN SubSeq([k \in 1 .. items |-> k], cursor, items)
                ELSE [k \in 1 .. (IF items < PageSize THEN items ELSE PageSize) |-> items + 1 - k]

\* What goes out with a request, if there is an argument for it: the cursor, or
\* else the watermark, which a server takes as "not older than"
\* (request_cursor_value, build_request_args).
RequestCursor(c) == CASE ~config.arg -> 0
                      [] config.arg /\ c.cursor > 0 -> c.cursor
                      [] config.arg /\ c.cursor <= 0 /\ c.mark > 0 -> FirstOf(c.mark)
                      [] OTHER -> 0

\* Whether the server answers a request with this ETag by 304; a sticky one always does.
Unmodified(etag) == etag # 0 /\ (sticky \/ etag = items)

Publish == /\ items < MaxItems
           /\ items' = items + 1
           /\ UNCHANGED <<config, poller, cp, round, pollRow, legacy, emitted, shown, hidden, sticky, failures>>

-----------------------------------------------------------------------------
(* The filters.                                                             *)

\* Fault for PushSeen: the newest key makes room.
PushSeenNewest(seen, key) == IF Len(seen) < config.window THEN Append(seen, key) ELSE seen

\* push_seen_key.
PushSeen(seen, key) == LET all == Append(seen, key)
                       IN IF Len(all) > config.window THEN Tail(all) ELSE all

\* The key by which an item is remembered: item_key_pointer, the hash of its
\* content, or the pair of watermark and tie breaker.
KeyOf(i) == IF config.strategy = "watermark" THEN <<MarkOf(i), TieOf(i)>> ELSE <<i>>

\* is_newer_item.
Newer(i, c) == \/ c.mark = 0
               \/ MarkOf(i) > c.mark
               \/ MarkOf(i) = c.mark /\ config.tie /\ TieOf(i) > c.tie

\* baseline_limit: how many items this round may emit.
Budget(c) == IF config.limit = -1 \/ c.based THEN MaxItems ELSE config.limit

\* filter_by_item_key, filter_by_content_hash: one item of the page.
ByKey(acc, i) ==
    IF \E k \in DOMAIN acc.c.seen : acc.c.seen[k] = KeyOf(i) THEN acc
    ELSE [acc EXCEPT !.c.seen = PushSeen(@, KeyOf(i)),
                     !.news = IF Len(@) < acc.budget THEN Append(@, i) ELSE @]

\* filter_by_watermark: newness is judged by the mark of the round's start, the
\* greatest mark is taken over at its end.
ByWatermark(acc, i) ==
    IF config.tie /\ \E k \in DOMAIN acc.c.seen : acc.c.seen[k] = KeyOf(i) THEN acc
    ELSE LET new == Newer(i, acc.c)
             top == Newer(i, [mark |-> acc.mark, tie |-> acc.tieMark])
         IN [acc EXCEPT !.news = IF new /\ Len(@) < acc.budget THEN Append(@, i) ELSE @,
                        !.c.seen = IF new /\ config.tie THEN PushSeen(@, KeyOf(i)) ELSE @,
                        !.mark = IF top THEN MarkOf(i) ELSE @,
                        !.tieMark = IF top THEN TieOf(i) ELSE @]

\* derive_cursor_from_items with the transform increment; the cursor of the
\* response names the next item as well.
NextCursor(c, page) ==
    CASE config.cursorFrom = "none" -> c.cursor
      [] config.cursorFrom = "response" -> items + 1
      [] config.cursorFrom = "item" -> IF page = <<>> THEN c.cursor
                                       ELSE 1 + page[CHOOSE k \in DOMAIN page : \A j \in DOMAIN page : page[j] <= page[k]]

\* The state of a filter after each item of the page.
Passes(start, page) ==
    LET after[k \in 0 .. Len(page)] ==
            IF k = 0 THEN start
            ELSE IF config.strategy = "watermark" THEN ByWatermark(after[k - 1], page[k]) ELSE ByKey(after[k - 1], page[k])
    IN after

\* process_response.
ProcessResponse(c, page) ==
    LET start == [c |-> c, news |-> <<>>, budget |-> Budget(c), mark |-> c.mark, tieMark |-> c.tie]
        done == IF config.strategy = "cursor_only" THEN [start EXCEPT !.news = page] ELSE Passes(start, page)[Len(page)]
    IN [news |-> done.news, page |-> page,
        c |-> [done.c EXCEPT !.mark = done.mark, !.tie = done.tieMark, !.based = @ \/ config.limit # -1,
                             !.cursor = NextCursor(c, page)]]

-----------------------------------------------------------------------------
(* The loop.                                                                *)

\* The daemon starts the source: the row's checkpoint, else the file of an
\* earlier release (load_or_import_legacy_managed_source_checkpoint).
LoadCheckpoint ==
    /\ poller = "starting"
    /\ poller' = "polling"
    /\ \/ pollRow # NoRow /\ cp' = pollRow /\ UNCHANGED <<pollRow, legacy>>
       \/ pollRow = NoRow /\ legacy = NoRow /\ cp' = NoCheckpoint /\ UNCHANGED <<pollRow, legacy>>
       \/ pollRow = NoRow /\ legacy # NoRow /\ cp' = legacy /\ pollRow' = legacy /\ legacy' \in {legacy, NoRow}
    /\ round' = NoRound
    /\ UNCHANGED <<config, items, emitted, shown, hidden, sticky, failures>>

\* Fault for FreshEnough: only age ends an ETag.
FreshEnoughByAge(c) == ~c.old

\* should_invalidate_etag.
FreshEnough(c) == ~c.old /\ c.n304 < Max304
Invalidated(c) == IF FreshEnough(c) THEN c ELSE [c EXCEPT !.etag = 0, !.old = FALSE]

\* A 304: counted, and the count is stored.
NotModified ==
    /\ poller = "polling"
    /\ LET c == Invalidated(cp) IN
       /\ Unmodified(c.etag)
       /\ cp' = [c EXCEPT !.n304 = IF @ > Max304 THEN @ ELSE @ + 1]
       /\ round' = [NoRound EXCEPT !.writes = TRUE]
    /\ poller' = "writing"
    /\ UNCHANGED <<config, items, pollRow, legacy, emitted, shown, hidden, sticky, failures>>

\* A 200: the ETag of the response, if it has one, with the time, then
\* process_response.  A round that changes nothing is not stored.
Fetched ==
    /\ poller = "polling"
    /\ \E tag \in {0, items} :
       LET c == [Invalidated(cp) EXCEPT !.n304 = 0, !.etag = tag, !.old = FALSE]
           out == ProcessResponse(c, PollPage(RequestCursor(cp)))
       IN /\ ~Unmodified(Invalidated(cp).etag)
          /\ cp' = out.c
          /\ round' = [news |-> out.news, page |-> out.page,
                       writes |-> tag # 0 \/ out.news # <<>> \/ out.c # Invalidated(cp)]
    /\ poller' = "writing"
    /\ UNCHANGED <<config, items, pollRow, legacy, emitted, shown, hidden, sticky, failures>>

\* An item without the pointer: the source fails, and the keys it has pushed by
\* then go with the runner.
ProcessFails ==
    /\ poller = "polling" /\ failures < MaxFailures
    /\ ~Unmodified(Invalidated(cp).etag)
    /\ poller' = "failed"
    /\ cp' = ProcessResponse(Invalidated(cp), PollPage(RequestCursor(cp))).c
    /\ failures' = failures + 1
    /\ UNCHANGED <<config, items, round, pollRow, legacy, emitted, shown, hidden, sticky>>

\* append_events_and_store_poll_checkpoint: events and checkpoint together.
StoreRound ==
    /\ poller = "writing"
    /\ emitted' = emitted \o round.news
    /\ pollRow' = IF round.writes THEN cp ELSE pollRow
    /\ shown' = shown \cup ToSet(round.page)
    /\ hidden' = hidden \cup (IF config.limit # -1 /\ (pollRow = NoRow \/ ~pollRow.based)
                              THEN ToSet(round.page) \ ToSet(round.news) ELSE {})
    /\ poller' = "polling"
    /\ round' = NoRound
    /\ UNCHANGED <<config, items, cp, legacy, sticky, failures>>

\* The write fails: fail_managed_source ends the run.
RoundStoreFails ==
    /\ poller = "writing" /\ round.writes /\ failures < MaxFailures
    /\ poller' = "failed"
    /\ failures' = failures + 1
    /\ UNCHANGED <<config, items, cp, round, pollRow, legacy, emitted, shown, hidden, sticky>>

\* The fetch fails: the loop waits and asks again with the checkpoint it has.
\* The source ends when its state cannot be written (sync_managed_source_state).
FetchFails ==
    /\ poller = "polling" /\ failures < MaxFailures
    /\ poller' \in {"polling", "failed"}
    /\ cp' = Invalidated(cp)
    /\ failures' = failures + 1
    /\ UNCHANGED <<config, items, round, pollRow, legacy, emitted, shown, hidden, sticky>>

\* Ten minutes pass (MANAGED_SOURCE_ETAG_TTL_SECS).
EtagAges ==
    /\ poller = "polling" /\ cp.etag # 0 /\ ~cp.old
    /\ cp' = [cp EXCEPT !.old = TRUE]
    /\ UNCHANGED <<config, items, poller, round, pollRow, legacy, emitted, shown, hidden, sticky, failures>>

\* The daemon ends at any point and is started again, or a client ensures the
\* source anew; nothing else brings a failed source back.
PollRestart == /\ failures < MaxFailures
           /\ poller' = "starting" /\ cp' = NoCheckpoint /\ round' = NoRound
           /\ failures' = failures + 1
           /\ UNCHANGED <<config, items, pollRow, legacy, emitted, shown, hidden, sticky>>

PollInit ==
    /\ config \in {c \in PollConfigs : Valid(c)}
    /\ sticky \in BOOLEAN
    /\ \/ legacy = NoRow /\ items = 0
       \/ items = 1 /\ config.strategy = "item_key" /\ legacy = [NoCheckpoint EXCEPT !.seen = <<<<1>>>>, !.based = TRUE]
    /\ poller = "starting" /\ cp = NoCheckpoint /\ round = NoRound /\ pollRow = NoRow
    /\ emitted = <<>> /\ shown = {} /\ hidden = {} /\ failures = 0

PollNext == \/ Publish \/ LoadCheckpoint \/ NotModified \/ Fetched \/ ProcessFails \/ StoreRound \/ RoundStoreFails
            \/ FetchFails \/ EtagAges \/ PollRestart

\* A round gets its answer: NotModified or Fetched, one of which can always be.
Answered == poller = "polling" /\ poller' = "writing"

\* Rounds go on as long as the source runs.
PollFair == WF_pollVars(LoadCheckpoint) /\ WF_poller(Answered) /\ WF_pollVars(StoreRound)
PollSpec == PollInit /\ [][PollNext]_pollVars /\ PollFair

-----------------------------------------------------------------------------
\* What a configuration needs for the promises below; validate asks for none of
\* it.  A page lists the newest first, so a window with room for less than two
\* pages but one forgets what is still on it; without a tie breaker, items of
\* one mark are not told apart; and the items that are asked for again with
\* their watermark have to have been on one page.
Roomy(c) == /\ c.window > 0
            /\ c.strategy \in {"item_key", "content_hash"} /\ (c.cursorFrom = "none" \/ ~c.arg) => c.window >= 2 * PageSize - 1
            /\ c.strategy = "watermark" => c.tie /\ (c.arg /\ c.cursorFrom = "none" => PageSize >= 2)

\* No item is in the stream twice, however often a round failed or the daemon
\* came back.
EmittedOnce == \A j, k \in DOMAIN emitted : emitted[j] = emitted[k] => j = k

\* An item on the page of a stored round is in the stream, unless the first
\* look left it out or it was known before this store existed.
NoItemSkipped == \A i \in shown : i \in hidden \cup ToSet(emitted) \/ (i = 1 /\ config.strategy = "item_key")

\* Each item of a page once, and none passed over, with a configuration that
\* leaves room for it.
PollIsTrue == Roomy(config) => EmittedOnce /\ NoItemSkipped

=============================================================================
