------------------------------ MODULE MCSources ------------------------------
(***************************************************************************)
(* The kinds of sources, in four parts that share no state: a poll loop, a *)
(* socket job of any kind, the runner that hosts a subscription, and an    *)
(* IMAP job.  A behaviour is one of one part; the others stand still.      *)
(***************************************************************************)
EXTENDS PollLoop, SocketJobs, StreamRunner, EmailIdle
VARIABLE part

Polls(s, w, l, f, a, t) == [strategy |-> s, window |-> w, limit |-> l, cursorFrom |-> f, arg |-> a, tie |-> t]
MCPollConfigs == {Polls("item_key", 3, -1, "none", FALSE, FALSE), Polls("content_hash", 3, 0, "none", FALSE, FALSE),
                  Polls("watermark", 3, 1, "none", FALSE, TRUE), Polls("watermark", 3, -1, "none", TRUE, TRUE),
                  Polls("item_key", 1, -1, "item", TRUE, FALSE), Polls("cursor_only", 1, -1, "item", TRUE, FALSE),
                  Polls("cursor_only", 1, -1, "response", TRUE, FALSE)}

sourceVars == <<part, pollVars, sockVars, vars, imapVars>>
SourcesInit ==
    /\ part \in {"poll", "socket", "runner", "imap"}
    /\ PollInit /\ (part = "poll" \/ (config.strategy = "item_key" /\ ~config.arg /\ items = 0 /\ ~sticky))
    /\ SockInit /\ (part = "socket" \/ kind = "raw")
    /\ Init
    /\ ImapInit /\ (part = "imap" \/ (mailbox.high = 0 /\ idler.limit = 0
                                        /\ idler.method = "basic" /\ idler.token = "good"))
SourcesNext ==
    \/ part = "poll" /\ PollNext /\ UNCHANGED <<part, sockVars, vars, imapVars>>
    \/ part = "socket" /\ SockNext /\ UNCHANGED <<part, pollVars, vars, imapVars>>
    \/ part = "runner" /\ Next /\ UNCHANGED <<part, pollVars, sockVars, imapVars>>
    \/ part = "imap" /\ ImapNext /\ UNCHANGED <<part, pollVars, sockVars, vars>>

\* The fairness of each part's specification, for the part that runs.
SourcesFair ==
    /\ WF_pollVars(part = "poll" /\ LoadCheckpoint)
    /\ WF_poller(part = "poll" /\ Answered) /\ WF_pollVars(part = "poll" /\ StoreRound)
    /\ WF_sockVars(part = "socket" /\ (Ask \/ Connect \/ Wait \/ StopSeen))
    /\ WF_sockVars(part = "socket" /\ SockEmit) /\ WF_sockVars(part = "socket" /\ Wakeup)
    /\ WF_sockVars(part = "socket" /\ TimesOut)
    /\ SF_sockVars(part = "socket" /\ Greets) /\ WF_sockVars(part = "socket" /\ Answers)
    /\ WF_vars(part = "runner" /\ InnerStep) /\ WF_vars(part = "runner" /\ RunnerStep)
    /\ WF_vars(part = "runner" /\ StopStep) /\ WF_vars(part = "runner" /\ StatusAnswer)
    /\ WF_imapVars(part = "imap" /\ ImapJob)
    /\ WF_imapVars(part = "imap" /\ mailbox.told < mailbox.high /\ Announce)
SourcesSpec == SourcesInit /\ [][SourcesNext]_sourceVars /\ SourcesFair

\* What the sources hand over: a poll loop with room in its configuration each
\* item of a stored page once; a gateway session its events without gap or
\* repetition; a socket job what it has acknowledged; an IMAP job every message
\* it was to see; and what a hosted subscription hands over reaches the stream
\* in order.  Not claimed: that a mailbox is not read again after a reconnect,
\* or that events which happen while a socket is down are seen.
SourcesAreTrue == PollIsTrue /\ SocketsAreTrue /\ MailIsTrue /\ NothingLost

Due == CASE part = "poll" -> items = MaxItems
         [] part = "socket" -> stopping
         [] part = "runner" -> stop
         [] part = "imap" -> idler.token = "dead" /\ IdlerAt("auth")
Done == CASE part = "poll" -> MaxItems \in hidden \cup ToSet(emitted) \/ poller = "failed"
          [] part = "socket" -> Over
          [] part = "runner" -> inner = "done"
          [] part = "imap" -> ImapOver \/ stopped \/ idler.token = "good"

\* What is due comes: the newest item of a server that has come to rest reaches
\* the stream, even from one that answers 304 to every request with an ETag; a
\* stopped socket job ends; after a stop the hosted subscription ends, also when
\* it is blocked on a channel nobody drains any more; and a mail server that
\* refuses a credential for good is not asked again and again.  Meanwhile a
\* request for the source's status is answered.
SourcesGoOn == (Due ~> Done) /\ StatusAnswered

=============================================================================
