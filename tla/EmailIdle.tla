----------------------------- MODULE EmailIdle -----------------------------
(***************************************************************************)
(* The email IMAP IDLE job of src/src/subscription_email.rs: the reconnect *)
(* loop (run_email_imap_idle_subscription_with_connector), one session     *)
(* (run_email_imap_idle_session_once) and the commands of ImapConnection.  *)
(*                                                                         *)
(* A message is its UID; the mailbox holds 1 .. mailbox.high.  The server  *)
(* announces arrivals with EXISTS lines.  Only one unread line matters:    *)
(* mailbox.line says whether an EXISTS or RECENT line waits in the socket. *)
(* Lines that arrive while a command's answer is read are consumed there,  *)
(* as command, fetch_uid_set and done_idle do, without an effect.          *)
(***************************************************************************)
EXTENDS Naturals, Sequences, FiniteSets

CONSTANTS MaxMail,      \* arrivals that happen
          MaxDrops      \* commands whose connection fails

ASSUME ImapBounds == MaxMail \in Nat /\ MaxDrops \in Nat

VARIABLES mailbox,    \* [high, told, line, drops]: the server's side
          idler,      \* the job: where it is, its session and its credential
          stopped     \* the stop signal of the job

imapVars == <<mailbox, idler, stopped>>

NoUid == 0            \* last_seen_uid = None
MaxImapDelay == 60

\* The method, the initial_fetch_limit and the token are the subscription's
\* configuration.  The token stands for the password too: "wrong" is a wrong
\* password, "dead" an access token the server no longer accepts, or a
\* password of an account with basic authentication switched off.
ImapInit == /\ mailbox \in [high : {0, 1}, told : {0}, line : {FALSE}, drops : {0}]
            /\ idler \in [at : {"refresh"}, last : {NoUid}, base : {NoUid},
                          got : {<<>>}, delay : {1}, limit : {0, 1},
                          method : {"basic", "xoauth2"},
                          token : {"good", "wrong", "dead"}]
            /\ idler.method = "xoauth2" => idler.token # "wrong"
            /\ stopped = FALSE

ImapOver == idler.at \in {"closed", "failed", "aborted"}
IdlerAt(s) == idler.at = s
IdlerTo(s) == idler' = [idler EXCEPT !.at = s]

-----------------------------------------------------------------------------
(* The environment: mail arrives, the server announces it, the client asks *)
(* the job to stop.                                                        *)

Arrive == /\ mailbox.high < MaxMail
          /\ mailbox' = [mailbox EXCEPT !.high = @ + 1]
          /\ UNCHANGED <<idler, stopped>>

Connected == idler.at \in {"search", "recent", "loop", "idle", "done", "stopping", "renew",
                           "fetch", "fetched"}

\* A line sent in the middle of a command is read with the answer of that
\* command; one sent between two commands, or during IDLE, stays unread.
Consumes == idler.at \in {"search", "recent", "done", "stopping", "renew", "fetch", "fetched"}

\* The announcement may also be a repetition of what was announced before.
Announce == /\ Connected
            /\ mailbox' = [mailbox EXCEPT !.told = mailbox.high,
                                          !.line = @ \/ ~Consumes]
            /\ UNCHANGED <<idler, stopped>>

AskStop == ~stopped /\ stopped' = TRUE /\ UNCHANGED <<mailbox, idler>>

-----------------------------------------------------------------------------
(* The reconnect loop.                                                     *)

\* refresh_imap_xoauth2_token_if_stale: the profile file may be unreadable
\* (the job ends), the refresh may renew the token or fail and keep it.
RefreshImapXoauth2TokenIfStale ==
  /\ IdlerAt("refresh")
  /\ IF idler.method = "xoauth2"
     THEN \/ \E t \in {"good", idler.token} :
               idler' = [idler EXCEPT !.at = "connect", !.token = t]
          \/ IdlerTo("aborted")
     ELSE IdlerTo("connect")
  /\ UNCHANGED <<mailbox, stopped>>

\* A session ended with an error that is not a permanent rejection: error and
\* reconnect events, then the wait, which a stop signal ends.
ImapBackoff == idler' = [idler EXCEPT !.at = "wait"]

NextDelay(d) == IF 2 * d < MaxImapDelay THEN 2 * d ELSE MaxImapDelay

Reconnect ==
  /\ IdlerAt("wait")
  /\ IF stopped THEN IdlerTo("closed")
     ELSE idler' = [idler EXCEPT !.at = "refresh", !.delay = NextDelay(@)]
  /\ UNCHANGED <<mailbox, stopped>>

\* A command that cannot be written, times out or meets a closed connection.
Drop == /\ Connected \/ idler.at \in {"connect", "auth"}
        /\ mailbox.drops < MaxDrops
        /\ mailbox' = [mailbox EXCEPT !.drops = @ + 1, !.line = FALSE]
        /\ ImapBackoff
        /\ UNCHANGED stopped

-----------------------------------------------------------------------------
(* One session.                                                            *)

\* A stop signal that came before ends the job without a connection.
ImapConnect == /\ IdlerAt("connect")
           /\ IdlerTo(IF stopped THEN "closed" ELSE "auth")
           /\ UNCHANGED <<mailbox, stopped>>

\* is_imap_permanent_auth_failure: the server has switched basic
\* authentication off for the account, or refuses the access token.
PermanentAuthFailure == idler.method \in {"basic", "xoauth2"} /\ idler.token = "dead"

\* imap_login / authenticate_xoauth2: a wrong password is an error like any
\* other, which the loop retries.
Authenticate ==
  /\ IdlerAt("auth")
  /\ IF idler.token = "good"
     THEN /\ idler' = [idler EXCEPT !.at = "search", !.last = NoUid, !.got = <<>>]
          /\ mailbox' = [mailbox EXCEPT !.told = mailbox.high, !.line = FALSE]
     ELSE /\ IF PermanentAuthFailure THEN IdlerTo("failed") ELSE ImapBackoff
          /\ UNCHANGED mailbox
  /\ UNCHANGED stopped

\* The newest n UIDs of the mailbox, all of them when n = 0 (fetch_recent).
NewestUids(n) == IF n = 0 \/ mailbox.high <= n THEN 1 .. mailbox.high
                 ELSE (mailbox.high - n + 1) .. mailbox.high

UidsInOrder(us) == CHOOSE s \in [1 .. Cardinality(us) -> us] :
                     \A i, j \in DOMAIN s : i < j => s[i] < s[j]

\* The largest UID of the messages handed over, or the one known before.
Highest(us, last) == IF us = {} THEN last ELSE CHOOSE u \in us : \A v \in us : v <= u

\* emit_recent_messages: with limit 0 only the high-water UID is taken.
EmitRecentMessages ==
  /\ IdlerAt("search")
  /\ LET us == IF idler.limit = 0 THEN {} ELSE NewestUids(idler.limit)
         last == IF idler.limit = 0 THEN mailbox.high ELSE Highest(us, NoUid)
     IN idler' = [idler EXCEPT !.at = "recent", !.last = last, !.got = UidsInOrder(us),
                               !.base = IF us = {} THEN last
                                        ELSE mailbox.high - idler.limit]
  /\ UNCHANGED <<mailbox, stopped>>

Established == IdlerAt("recent") /\ IdlerTo("loop") /\ UNCHANGED <<mailbox, stopped>>

\* The head of the loop and start_idle: the first line must be the
\* continuation, so an unread EXISTS line ends the session.
StartIdle ==
  /\ IdlerAt("loop")
  /\ IF stopped THEN IdlerTo("closed") /\ UNCHANGED mailbox
     ELSE IF mailbox.line THEN ImapBackoff /\ mailbox' = [mailbox EXCEPT !.line = FALSE]
     ELSE IdlerTo("idle") /\ UNCHANGED mailbox
  /\ UNCHANGED stopped

\* The select! of the inner loop: a stop, a line, or the tenth quiet tick.
StopSeenInIdle == /\ IdlerAt("idle") /\ stopped
                  /\ IdlerTo("stopping")
                  /\ UNCHANGED <<mailbox, stopped>>

LineInIdle == /\ IdlerAt("idle") /\ mailbox.line
              /\ mailbox' = [mailbox EXCEPT !.line = FALSE]
              /\ IdlerTo("done")
              /\ UNCHANGED stopped

QuietInIdle == /\ IdlerAt("idle") /\ ~mailbox.line
               /\ IdlerTo("renew")
               /\ UNCHANGED <<mailbox, stopped>>

\* done_idle reads up to the tagged OK, every other line is dropped.
DoneIdle ==
  /\ idler.at \in {"done", "renew", "stopping"}
  /\ IdlerTo(CASE IdlerAt("done") -> "fetch"
               [] IdlerAt("renew") -> "loop"
               [] IdlerAt("stopping") -> "closed")
  /\ mailbox' = [mailbox EXCEPT !.line = FALSE]
  /\ UNCHANGED stopped

\* What the server answers to UID FETCH last+1:*.  The range always names the
\* newest message, even when its UID is below last + 1 (RFC 3501).  A FETCH line
\* without a UID, which fails the connection like a foreign one, is left out.
ServerFetch(last) == IF mailbox.high > last THEN (last + 1) .. mailbox.high
                     ELSE IF mailbox.high = 0 THEN {} ELSE {mailbox.high}

\* imap_uid_set_contains for the set last+1:*
ImapUidSetContains(last, u) == u >= last + 1

\* last_seen_uid after emit_messages.
LastSeen(last, us) == Highest(us, last)

FetchNew ==
  /\ IdlerAt("fetch")
  /\ LET us == IF idler.last = NoUid THEN NewestUids(idler.limit)
               ELSE ServerFetch(idler.last)
     IN IF idler.last # NoUid /\ \E u \in us : ~ImapUidSetContains(idler.last, u)
        THEN ImapBackoff
        ELSE idler' = [idler EXCEPT !.at = "fetched", !.got = @ \o UidsInOrder(us),
                                    !.last = LastSeen(idler.last, us),
                                    !.base = IF idler.last = NoUid /\ idler.limit > 0
                                             THEN mailbox.high - idler.limit ELSE @]
  /\ UNCHANGED <<mailbox, stopped>>

ImapFetched == IdlerAt("fetched") /\ IdlerTo("loop") /\ UNCHANGED <<mailbox, stopped>>

-----------------------------------------------------------------------------
ImapJob == \/ RefreshImapXoauth2TokenIfStale \/ ImapConnect \/ Authenticate
       \/ EmitRecentMessages \/ Established \/ StartIdle
       \/ StopSeenInIdle \/ LineInIdle \/ QuietInIdle \/ DoneIdle
       \/ FetchNew \/ ImapFetched \/ Reconnect

ImapNext == ImapJob \/ Arrive \/ Announce \/ AskStop \/ Drop

\* Every read has a timeout, so the job always goes on; the server announces
\* the mail that arrives.
ImapFair == WF_imapVars(ImapJob) /\ WF_imapVars(mailbox.told < mailbox.high /\ Announce)

ImapSpec == ImapInit /\ [][ImapNext]_imapVars /\ ImapFair

-----------------------------------------------------------------------------
\* A session hands over each message at most once and in the order of the
\* UIDs, whatever the server repeats and although "n:*" names the newest
\* message even when nothing is new (emit_messages, imap_uid_set_contains).
OncePerSession == \A i, j \in DOMAIN idler.got : i < j => idler.got[i] < idler.got[j]

\* What lies between the session's starting point and its high-water mark has
\* been handed over: a fetch that marks more than it emitted would lose mail.
NoMailSkipped ==
  \A u \in 1 .. idler.last : u > idler.base => \E i \in DOMAIN idler.got : idler.got[i] = u

\* Each message of a session once, and none passed over.
MailIsTrue == OncePerSession /\ NoMailSkipped
=============================================================================
