------------------------------- MODULE McpHttp -------------------------------
(***************************************************************************)
(* The MCP transports over HTTP (adapters/mcp/http_transport.rs): the      *)
(* modern and the legacy streamable transport, where a request's answer is *)
(* the answer to its POST, and the legacy SSE transport, where the POST is *)
(* only acknowledged and the answer arrives on an event stream that one    *)
(* reader task serves for all callers.  Several requests of the daemon use *)
(* one transport at a time.                                                *)
(*                                                                         *)
(* A token is its generation.  The provider rotates refresh tokens: an     *)
(* exchange succeeds only for the newest generation.  A tool catalog is    *)
(* its version; a modern server refuses (-32020) a call whose headers come *)
(* from another version than its own.                                      *)
(***************************************************************************)
EXTENDS Naturals, Sequences, FiniteSets, FiniteSetsExt

CONSTANTS HttpCallers, \* the tasks that call a tool
          MaxStreams,  \* event streams opened in a behaviour
          MaxTurns,    \* expiries, new catalogs, failures of the network or disk
          NoCaller

ASSUME NoCallerAssumption == NoCaller \notin HttpCallers

VARIABLES wire,    \* McpHttpTransport / LegacySseTransport
          caller,  \* where each caller is in its call
          remote,  \* the MCP server and its token endpoint
          streams  \* LegacySseSession, one for each stream ever opened

mcpHttpVars == <<wire, caller, remote, streams>>

Transports == {"modern", "streamable", "sse"}
Outcome == {"none", "result", "error"}

NewCaller == [at |-> "idle", op |-> "call", id |-> 0, stream |-> 0, token |-> 0,
              headers |-> 0, rebuilt |-> FALSE, back |-> "post", end |-> "none", ran |-> 0]

(***************************************************************************)
(* A fresh transport: no id used, no session id, no catalog, no stream.    *)
(***************************************************************************)
McpHttpInit ==
    /\ \E kind \in Transports, refreshable \in BOOLEAN :
          wire = [kind |-> kind, nextId |-> 1, sid |-> 0, catalog |-> 0, token |-> 1,
                  refreshable |-> refreshable, due |-> FALSE,
                  refreshLock |-> NoCaller, connectLock |-> NoCaller, session |-> 0]
    /\ caller = [c \in HttpCallers |-> NewCaller]
    /\ remote = [refresh |-> 1, accepts |-> {1}, catalog |-> 1, sid |-> 1,
                 turns |-> 0, lost |-> FALSE]
    /\ streams = <<>>

Goes(c, to) == caller' = [caller EXCEPT ![c].at = to]
Ends(c, how) == caller' = [caller EXCEPT ![c].at = "done", ![c].end = how]
Turn == /\ remote.turns < MaxTurns
Turned == [remote EXCEPT !.turns = @ + 1]
Live(s) == s # 0 /\ streams[s].reader # "finished"

(* call_tool_with_options: a modern transport loads the catalog before its first call. *)
CallTool(c) ==
    /\ caller[c].at = "idle"
    /\ caller' = [caller EXCEPT ![c].at = IF wire.kind = "sse" THEN "connect" ELSE "maybe",
                                ![c].op = IF wire.kind = "modern" /\ wire.catalog = 0
                                          THEN "list" ELSE "call",
                                ![c].headers = wire.catalog]
    /\ UNCHANGED <<wire, remote, streams>>

-----------------------------------------------------------------------------
(* ensure_connected: a session whose reader is finished is dropped, with and then under *)
(* the connect lock, and only then is a stream opened.                                  *)
Connected(c) ==
    /\ caller[c].at = "connect"
    /\ IF Live(wire.session)
       THEN Goes(c, "maybe") /\ UNCHANGED wire
       ELSE Goes(c, "lock") /\ wire' = [wire EXCEPT !.session = 0]
    /\ UNCHANGED <<remote, streams>>

\* Fault for ConnectLocked: the session is not looked at again under the lock.
ConnectLockedBlind(c) ==
    /\ caller[c].at = "lock"
    /\ wire.connectLock = NoCaller
    /\ wire' = [wire EXCEPT !.session = 0, !.connectLock = c]
    /\ caller' = [caller EXCEPT ![c].at = "maybe", ![c].back = "bootstrap"]
    /\ UNCHANGED <<remote, streams>>

ConnectLocked(c) ==
    /\ caller[c].at = "lock"
    /\ wire.connectLock = NoCaller
    /\ IF Live(wire.session)
       THEN Goes(c, "maybe") /\ UNCHANGED wire
       ELSE /\ wire' = [wire EXCEPT !.session = 0, !.connectLock = c]
            /\ caller' = [caller EXCEPT ![c].at = "maybe", ![c].back = "bootstrap"]
    /\ UNCHANGED <<remote, streams>>

\* A reader task is started and its handle becomes the session.
NewStream == [reader |-> "runs", stray |-> FALSE, pending |-> {}, answers |-> {}]
Opens(c) ==
    /\ wire.token \in remote.accepts /\ Len(streams) < MaxStreams
    /\ streams' = Append(streams, NewStream)
    /\ wire' = [wire EXCEPT !.session = Len(streams) + 1, !.connectLock = NoCaller]
    /\ caller' = [caller EXCEPT ![c].at = "maybe", ![c].back = "post"]
OpensNot(c) == wire' = [wire EXCEPT !.connectLock = NoCaller] /\ Ends(c, "error") /\ UNCHANGED streams

Bootstrap(c) ==
    /\ caller[c].at = "bootstrap"
    /\ \/ Opens(c)
       \/ /\ wire.token \notin remote.accepts /\ wire.refreshable
          /\ caller' = [caller EXCEPT ![c].at = "refresh", ![c].back = "rebootstrap"]
          /\ UNCHANGED <<wire, streams>>
       \/ OpensNot(c)
    /\ UNCHANGED remote

Rebootstrap(c) ==
    /\ caller[c].at = "rebootstrap"
    /\ Opens(c) \/ OpensNot(c)
    /\ UNCHANGED remote

-----------------------------------------------------------------------------
(* refresh_effective_auth_profile: the refresh token of the caller's copy is exchanged. *)
Unlocked(c) == [wire EXCEPT !.refreshLock = IF @ = c THEN NoCaller ELSE @,
                            !.connectLock = IF @ = c THEN NoCaller ELSE @]

\* refresh_oauth_profile and its POST: the new token arrives; or it does not,
\* though the provider has rotated it (the answer is lost or is no JSON); or the
\* request does not arrive or is refused.
Rotated == [remote EXCEPT !.refresh = @ + 1, !.accepts = @ \cup {remote.refresh + 1}]
Exchange(c, to) ==
    \/ /\ wire.token = remote.refresh
       /\ remote' = Rotated
       /\ caller' = [caller EXCEPT ![c].at = to, ![c].token = wire.token + 1]
       /\ UNCHANGED wire
    \/ /\ wire.token = remote.refresh
       /\ remote' = [Rotated EXCEPT !.lost = TRUE]
       /\ wire' = Unlocked(c)
       /\ Ends(c, "error")
    \/ /\ wire' = Unlocked(c)
       /\ Ends(c, "error")
       /\ UNCHANGED remote

(* maybe_refresh_auth_token takes no lock. *)
MaybeRefreshAuthToken(c) ==
    /\ caller[c].at = "maybe"
    /\ IF wire.due /\ wire.refreshable
       THEN Exchange(c, "store")
       ELSE Goes(c, caller[c].back) /\ UNCHANGED <<wire, remote>>
    /\ UNCHANGED streams

ForceRefreshAuthToken(c) ==
    /\ caller[c].at = "refresh"
    /\ wire.refreshLock \in {NoCaller, c}
    /\ IF wire.refreshLock = c
       THEN Exchange(c, "forced")
       ELSE wire' = [wire EXCEPT !.refreshLock = c] /\ UNCHANGED <<caller, remote>>
    /\ UNCHANGED streams

(* persist_profile_update, then the profile in memory. *)
StoreToken(c) ==
    /\ caller[c].at \in {"store", "forced"}
    /\ wire' = [wire EXCEPT !.token = caller[c].token, !.due = FALSE,
                            !.refreshLock = IF @ = c THEN NoCaller ELSE @]
    /\ Goes(c, caller[c].back)
    /\ UNCHANGED <<remote, streams>>

(* The write fails: the call fails with it, before the memory knows the token. *)
PersistFails(c) ==
    /\ Turn
    /\ caller[c].at \in {"store", "forced"}
    /\ remote' = [Turned EXCEPT !.lost = TRUE]
    /\ wire' = Unlocked(c)
    /\ Ends(c, "error")
    /\ UNCHANGED streams

-----------------------------------------------------------------------------
(* The id, and for SSE the session and the entry the answer will be handed to. *)
TakeHttpId(id) == id + 1

NewRequest(c) ==
    /\ caller[c].at = "post"
    /\ caller[c].id = 0
    /\ IF wire.kind = "sse" /\ wire.session = 0
       THEN /\ Ends(c, "error")
            /\ UNCHANGED <<wire, streams>>
       ELSE /\ caller' = [caller EXCEPT ![c].id = wire.nextId, ![c].stream = wire.session]
            /\ wire' = [wire EXCEPT !.nextId = TakeHttpId(@)]
            /\ streams' = IF wire.kind # "sse" THEN streams
                          ELSE [streams EXCEPT ![wire.session].pending = @ \cup {wire.nextId}]
    /\ UNCHANGED remote

Forgets(c) ==
    IF wire.kind # "sse" THEN streams
    ELSE [streams EXCEPT ![caller[c].stream].pending = @ \ {caller[c].id}]

(* The server carries the tool out and answers, to the POST or on the stream. *)
Carries(c) ==
    [caller EXCEPT ![c].ran = IF @ < 2 /\ caller[c].op = "call" THEN @ + 1 ELSE @]

(* What the server says to a POST.  It checks the token, then the headers of a modern call. *)
Refuses(c) == wire.token \notin remote.accepts
Mismatches(c) == wire.kind = "modern" /\ caller[c].op = "call"
                 /\ caller[c].headers # remote.catalog

(* send_request's retry: the same request again, after a 401 and a refresh, once. *)
MayRetry(c) == Refuses(c) /\ wire.refreshable /\ caller[c].at = "post"

Unauthorized(c) ==
    /\ caller[c].at = "post" /\ caller[c].id # 0
    /\ MayRetry(c)
    /\ \/ Refuses(c) /\ caller' = [caller EXCEPT ![c].at = "refresh", ![c].back = "repost"]
       \/ ~Refuses(c) /\ caller' = [Carries(c) EXCEPT ![c].at = "repost"]
    /\ UNCHANGED <<wire, remote, streams>>

Posting(c) == caller[c].at \in {"post", "repost"} /\ caller[c].id # 0 /\ ~MayRetry(c)

PostRefused(c) ==
    /\ Posting(c) /\ Refuses(c)
    /\ streams' = Forgets(c)
    /\ Ends(c, "error")
    /\ UNCHANGED <<wire, remote>>

(* The POST fails before or after the server has acted on it: nobody sends it again. *)
PostLost(c) ==
    /\ Turn /\ Posting(c) /\ ~Refuses(c)
    /\ remote' = Turned
    /\ streams' = Forgets(c)
    /\ \E arrived \in BOOLEAN :
          caller' = [(IF arrived /\ ~Mismatches(c) THEN Carries(c) ELSE caller)
                        EXCEPT ![c].at = "done", ![c].end = "error"]
    /\ UNCHANGED wire

(* A streamable answer brings the session id with it, whatever its status. *)
AdoptsSession == [wire EXCEPT !.sid = IF wire.kind = "streamable" THEN remote.sid ELSE @]

PostAnswered(c) ==
    /\ wire.kind # "sse" /\ caller[c].op = "call"
    /\ Posting(c) /\ ~Refuses(c) /\ ~Mismatches(c)
    /\ wire' = AdoptsSession
    /\ caller' = [Carries(c) EXCEPT ![c].at = "done", ![c].end = "result"]
    /\ UNCHANGED <<remote, streams>>

(* list_tools_catalog: the header mappings of the whole catalog are replaced. *)
CatalogListed(c) ==
    /\ caller[c].op = "list"
    /\ Posting(c) /\ ~Refuses(c)
    /\ wire' = [wire EXCEPT !.catalog = remote.catalog]
    /\ caller' = [caller EXCEPT ![c].op = "call", ![c].at = "maybe", ![c].back = "post",
                                ![c].id = 0, ![c].headers = remote.catalog]
    /\ UNCHANGED <<remote, streams>>

(* -32020: the catalog is listed again and the call is made once more. *)
HeaderMismatch(c) ==
    /\ Posting(c) /\ ~Refuses(c) /\ Mismatches(c)
    /\ IF caller[c].rebuilt
       THEN Ends(c, "error")
       ELSE caller' = [caller EXCEPT ![c].op = "list", ![c].at = "maybe", ![c].back = "post",
                                     ![c].id = 0, ![c].rebuilt = TRUE]
    /\ UNCHANGED <<wire, remote, streams>>

-----------------------------------------------------------------------------
(* Legacy SSE: the POST is acknowledged, the answer goes down the stream if it is open. *)
PostAcknowledged(c) ==
    /\ wire.kind = "sse"
    /\ Posting(c) /\ ~Refuses(c)
    /\ caller' = [Carries(c) EXCEPT ![c].at = "wait"]
    /\ streams' = IF streams[caller[c].stream].reader # "runs" THEN streams
                  ELSE [streams EXCEPT ![caller[c].stream].answers = @ \cup {caller[c].id}]
    /\ UNCHANGED <<wire, remote>>

(* run_sse_reader: the answer goes to the caller that is registered under its id, if any. *)
ReadAnswer(s, id) ==
    /\ streams[s].reader = "runs" /\ id \in streams[s].answers
    /\ streams' = [streams EXCEPT ![s].answers = @ \ {id}, ![s].pending = @ \ {id}]
    /\ \/ /\ id \in streams[s].pending
          /\ \E c \in HttpCallers :
                /\ caller[c].at = "wait" /\ caller[c].stream = s /\ caller[c].id = id
                /\ Ends(c, "result")
       \/ /\ ~\E c \in HttpCallers : /\ id \in streams[s].pending /\ caller[c].at = "wait"
                                     /\ caller[c].stream = s /\ caller[c].id = id
          /\ UNCHANGED caller
    /\ UNCHANGED <<wire, remote>>

(* The stream ends: fail_pending wakes everyone registered, then the task is finished. *)
StreamEnds(s) ==
    /\ Turn /\ remote' = Turned
    /\ streams[s].reader = "runs"
    /\ streams' = [streams EXCEPT ![s].reader = "ends", ![s].pending = {}, ![s].answers = {}]
    /\ caller' = [c \in HttpCallers |->
                    IF /\ caller[c].at = "wait" /\ caller[c].stream = s
                       /\ caller[c].id \in streams[s].pending
                    THEN [caller[c] EXCEPT !.at = "done", !.end = "error"]
                    ELSE IF caller[c].stream = s /\ caller[c].id \in streams[s].pending
                         THEN [caller[c] EXCEPT !.end = "error"]
                         ELSE caller[c]]
    /\ UNCHANGED wire

ReaderFinishes(s) ==
    /\ streams[s].reader = "ends"
    /\ streams' = [streams EXCEPT ![s].reader = "finished"]
    /\ UNCHANGED <<wire, caller, remote>>

(* The receiver of a caller that was failed while it was still posting. *)
AlreadyFailed(c) ==
    /\ caller[c].at = "wait" /\ caller[c].end = "error"
    /\ Ends(c, "error")
    /\ UNCHANGED <<wire, remote, streams>>

\* Fault for AnswerTimesOut: the receiver is awaited without a limit.
AnswerNeverTimesOut(c) == FALSE /\ UNCHANGED <<caller, wire, remote, streams>>

AnswerTimesOut(c) ==
    /\ caller[c].at = "wait" /\ caller[c].end = "none"
    /\ streams' = Forgets(c)
    /\ Ends(c, "error")
    /\ UNCHANGED <<wire, remote>>

-----------------------------------------------------------------------------
(* The task of a caller is aborted at an await (a stream job that is stopped): locks are *)
(* released, the entry that its answer would be handed to stays, a POST under way may    *)
(* have arrived.  A token that was exchanged and not stored is lost; a reader that was   *)
(* started and is not yet the session runs on without one.                               *)
CallerDropped(c) ==
    /\ caller[c].at \notin {"idle", "done"}
    /\ wire' = Unlocked(c)
    /\ remote' = [remote EXCEPT !.lost = @ \/ caller[c].at \in {"store", "forced"}]
    /\ \/ Ends(c, "error")
       \/ /\ Posting(c) /\ ~Refuses(c) /\ ~Mismatches(c)
          /\ caller' = [Carries(c) EXCEPT ![c].at = "done", ![c].end = "error"]
    /\ \/ UNCHANGED streams
       \/ /\ caller[c].at \in {"bootstrap", "rebootstrap"}
          /\ wire.token \in remote.accepts /\ Len(streams) < MaxStreams
          /\ streams' = Append(streams, [NewStream EXCEPT !.stray = TRUE])

-----------------------------------------------------------------------------
(* The server: a token expires or is revoked, the catalog changes, a session is renewed. *)
TokenExpires ==
    /\ Turn
    /\ \E noticed \in BOOLEAN : wire' = [wire EXCEPT !.due = noticed]
    /\ remote' = [Turned EXCEPT !.accepts = {}]
    /\ UNCHANGED <<caller, streams>>

CatalogChanges ==
    /\ Turn
    /\ remote' = [Turned EXCEPT !.catalog = @ + 1, !.sid = @ + 1]
    /\ UNCHANGED <<wire, caller, streams>>

CallerStep(c) ==
    \/ CallTool(c) \/ Connected(c) \/ ConnectLocked(c) \/ Bootstrap(c) \/ Rebootstrap(c)
    \/ MaybeRefreshAuthToken(c) \/ ForceRefreshAuthToken(c) \/ StoreToken(c) \/ NewRequest(c)
    \/ Unauthorized(c) \/ PostRefused(c) \/ PostAnswered(c) \/ CatalogListed(c)
    \/ HeaderMismatch(c) \/ PostAcknowledged(c) \/ AlreadyFailed(c) \/ AnswerTimesOut(c)

McpHttpNext ==
    \/ \E c \in HttpCallers : CallerStep(c) \/ PersistFails(c) \/ PostLost(c) \/ CallerDropped(c)
    \/ \E s \in DOMAIN streams : \/ StreamEnds(s) \/ ReaderFinishes(s)
                                 \/ \E id \in streams[s].answers : ReadAnswer(s, id)
    \/ TokenExpires \/ CatalogChanges

McpHttpFair ==
    /\ WF_mcpHttpVars(\E c \in HttpCallers : CallerStep(c))
    /\ WF_mcpHttpVars(\E s \in DOMAIN streams : ReaderFinishes(s))

McpHttpSpec == McpHttpInit /\ [][McpHttpNext]_mcpHttpVars /\ McpHttpFair

-----------------------------------------------------------------------------
(* Callers that find no live stream open one between them: never two readers at a time,  *)
(* but for those that were started by a caller aborted before their handle was kept.      *)
OneSseReader == Cardinality({s \in DOMAIN streams : streams[s].reader = "runs" /\ ~streams[s].stray}) <= 1

(* A tool call is carried out at most once by the server, whatever combination of a 401, *)
(* a refused header and a lost answer it runs into.                                      *)
CalledOnce == \A c \in HttpCallers : caller[c].ran <= 1

(* The newest refresh token is in memory, or in the hands of a caller about to put it    *)
(* there, whoever refreshes at the same time.  It is lost only with the provider's       *)
(* answer, with a profile file that cannot be written, or with a caller aborted in        *)
(* between (`lost`), never by another caller's older token.                              *)
NewestTokenKept ==
    remote.lost \/ Max({wire.token} \cup {caller[c].token : c \in
                        {d \in HttpCallers : caller[d].at \in {"store", "forced"}}}) = remote.refresh

(* Two callers on one stream never wait under the same id.                               *)
OwnEntry == \A c, d \in HttpCallers :
    (c # d /\ caller[c].at = "wait" /\ caller[d].at = "wait") => caller[c].id # caller[d].id

HttpCallsAreTrue == OneSseReader /\ CalledOnce /\ NewestTokenKept /\ OwnEntry

HttpCallPending == \E c \in HttpCallers : caller[c].at \notin {"idle", "done"}
=============================================================================
