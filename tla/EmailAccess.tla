---------------------------- MODULE EmailAccess ----------------------------
(***************************************************************************)
(* One email operation against its server: sending (email.rs), fetching a  *)
(* body by its message reference (email_body_get.rs) and fetching an       *)
(* attachment by its handle (email_attachment_get.rs).                     *)
(*                                                                         *)
(* The server is a mailbox that may be recreated at any moment: its        *)
(* UIDVALIDITY changes and a UID then names another message.  A provider   *)
(* answers with a status; its responses are abstracted to what the code    *)
(* looks at.                                                               *)
(***************************************************************************)
EXTENDS Naturals, Sequences, FiniteSets

CONSTANTS Recipients,       \* to, cc and bcc of a message, in one set
          MaxRecreations    \* how often the mailbox is recreated

ASSUME AccessBounds == IsFiniteSet(Recipients) /\ Recipients # {} /\ MaxRecreations \in Nat

VARIABLES post,    \* the dialogue of send_smtp
          fetch,   \* a retrieval: what is asked for, where it is, what it got
          box      \* [validity, reports]: the mailbox of the server

accessVars == <<post, fetch, box>>

SmtpAuths == {"none", "plain", "xoauth2"}
NoAnswer == "none"

Posts == [at : {"check"}, scheme : {"smtp", "smtps"}, auth : SmtpAuths, allowed : BOOLEAN,
          starttls : BOOLEAN, tls : {FALSE}, secret : {"unsent"}, accepted : {{}},
          result : {NoAnswer}]
Fetches == [kind : {"body", "attachment"}, at : {"check"},
            provider : {"imap", "gmail", "graph", "jmap"},
            source : {"imap", "gmail", "graph", "jmap"}, auth : BOOLEAN,
            validity : {0, 1}, got : {NoAnswer}, result : {NoAnswer}]
EmailUnused == [at |-> "unused", kind |-> "none", result |-> "unused", secret |-> "unsent"]

\* One operation at a time; the mailbox may or may not report UIDVALIDITY.
AccessInit == /\ box \in [validity : {1}, reports : BOOLEAN]
              /\ \/ post \in Posts /\ fetch = EmailUnused
                 \/ post = EmailUnused /\ fetch \in Fetches

-----------------------------------------------------------------------------
(* send_email and send_smtp.  Every command that is answered by another    *)
(* code, and every broken connection, ends the sending with an error.      *)

PostAt(s) == post.at = s /\ post.result = NoAnswer
PostEnds(r) == post' = [post EXCEPT !.result = r]
PostTo(s) == post' = [post EXCEPT !.at = s]

\* validate_smtp_auth_transport: a password over smtp:// must be allowed.
ValidateSmtpAuthTransport ==
  /\ PostAt("check")
  /\ IF post.scheme = "smtp" /\ post.auth = "plain" /\ ~post.allowed
     THEN PostEnds("refused") ELSE PostTo("connect")

\* The greeting and EHLO; smtps:// is encrypted from the start.
SmtpConnect ==
  /\ PostAt("connect")
  /\ post' = [post EXCEPT !.at = "ehlo", !.tls = (post.scheme = "smtps")]

\* An access token goes over smtp:// only after STARTTLS.
StartTls ==
  /\ PostAt("ehlo")
  /\ IF post.scheme = "smtp" /\ post.auth = "xoauth2"
     THEN IF post.starttls THEN post' = [post EXCEPT !.at = "auth", !.tls = TRUE]
          ELSE PostEnds("refused")
     ELSE PostTo("auth")

\* AUTH PLAIN or AUTH XOAUTH2; a 334 challenge is aborted and is an error.
SmtpAuthenticate ==
  /\ PostAt("auth")
  /\ IF post.auth = "none" THEN PostTo("mail")
     ELSE \E ok \in BOOLEAN :
            post' = [post EXCEPT !.secret = IF post.tls THEN "encrypted" ELSE "clear",
                                 !.at = IF ok THEN "mail" ELSE @,
                                 !.result = IF ok THEN @ ELSE "rejected"]

\* RCPT TO for each recipient: the first one that is refused ends the sending.
SmtpRecipient ==
  /\ PostAt("mail")
  /\ \E r \in Recipients \ post.accepted :
       post' = [post EXCEPT !.accepted = @ \cup {r}]

\* DATA, the stuffed message and the final dot.
SmtpData ==
  /\ PostAt("mail") /\ post.accepted = Recipients
  /\ PostEnds("sent")

SmtpError == post.at # "check" /\ post.result = NoAnswer /\ PostEnds("failed")

SendEmail == /\ \/ ValidateSmtpAuthTransport \/ SmtpConnect \/ StartTls \/ SmtpAuthenticate
                \/ SmtpRecipient \/ SmtpData \/ SmtpError
             /\ UNCHANGED <<fetch, box>>

-----------------------------------------------------------------------------
(* get_email_body and get_email_attachment.                                *)

FetchAt(s) == fetch.at = s /\ fetch.result = NoAnswer
FetchEnds(r) == fetch' = [fetch EXCEPT !.result = r]
FetchTo(s) == fetch' = [fetch EXCEPT !.at = s]

\* What is refused before anything is asked: a reference without UIDVALIDITY,
\* a provider that is not the source's (ensure_provider_arg), no auth profile.
RefusedFetch ==
  CASE fetch.kind = "body" /\ fetch.provider = "imap" /\ fetch.validity = 0 -> "identity_missing"
    [] fetch.kind = "body" /\ fetch.provider # "imap" /\ fetch.provider # fetch.source -> "stale"
    [] ~fetch.auth -> IF fetch.kind = "body" THEN "auth_required" ELSE "auth_profile_missing"
    [] OTHER -> NoAnswer

BeginFetch ==
  /\ FetchAt("check")
  /\ IF RefusedFetch # NoAnswer THEN FetchEnds(RefusedFetch)
     ELSE IF fetch.provider = "imap" THEN FetchTo("login") ELSE FetchTo("request")
  /\ UNCHANGED box

\* Connecting, the greeting and LOGIN or AUTHENTICATE.
ImapLogIn ==
  /\ FetchAt("login")
  /\ \/ FetchTo("select")
     \/ FetchEnds(IF fetch.kind = "body" THEN "auth_required" ELSE "auth_failed")
     \/ FetchEnds(IF fetch.kind = "body" THEN "provider_unavailable" ELSE "provider_request_failed")
  /\ UNCHANGED box

Reported == IF box.reports THEN box.validity ELSE 0

\* Fault for SelectAnswer: a mailbox that reports nothing passes for the body.
SelectAnswerLenient(kind, expected, current) ==
  IF expected # 0 /\ current # 0 /\ expected # current THEN "uid_invalid" ELSE NoAnswer

\* SELECT or EXAMINE: a body needs the UIDVALIDITY it was recorded with; an
\* attachment is only compared when both sides state one.
SelectAnswer(kind, expected, current) ==
  CASE kind = "body" -> IF current = 0 THEN "identity_missing"
                        ELSE IF current # expected THEN "stale" ELSE NoAnswer
    [] kind = "attachment" ->
         IF expected # 0 /\ current # 0 /\ expected # current THEN "uid_invalid" ELSE NoAnswer

ImapSelect ==
  /\ FetchAt("select")
  /\ LET r == SelectAnswer(fetch.kind, fetch.validity, Reported)
     IN IF r # NoAnswer THEN FetchEnds(r)
        ELSE fetch' = [fetch EXCEPT !.at = "section", !.got = [validity |-> box.validity]]
  /\ UNCHANGED box

\* UID FETCH BODY.PEEK in the selected mailbox: the section, nothing, an error
\* or a literal beyond the limit.  An attachment takes two fetches, of the
\* part's headers and of its bytes.
ImapSection ==
  /\ FetchAt("section")
  /\ \E r \in {"ok", "not_found", "provider_unavailable", "resource_limit"} : FetchEnds(r)
  /\ UNCHANGED box

\* provider_status_error: the meaning of a status for an attachment.
AttachmentStatus(status) ==
  CASE status \in 200 .. 299 -> "ok"
    [] status \in {401, 403} -> "auth_failed"
    [] status \in {404, 410} -> "attachment_not_found"
    [] OTHER -> "provider_request_failed"

\* authorized_request: the same for a body; redirects are not followed.
BodyStatus(status) ==
  CASE status \in 200 .. 299 -> "ok"
    [] status \in {401, 403} -> "auth_required"
    [] status \in {404, 410} -> "not_found"
    [] OTHER -> "provider_unavailable"

Statuses == {200, 302, 401, 404, 429, 500}

\* Gmail and JMAP repeat the identifier of the message in their answers; a
\* Gmail answer without one is accepted, Graph sends bare bytes.
SameMessage(provider, named) ==
  CASE provider = "gmail" -> named \in {"same", "absent"}
    [] provider = "jmap" -> named = "same"
    [] OTHER -> TRUE

\* fetch_gmail, fetch_graph and fetch_jmap of email_body_get.rs.
BodyRequest ==
  /\ FetchAt("request") /\ fetch.kind = "body"
  /\ \E status \in Statuses, named \in {"same", "other", "absent"} :
       LET r == IF BodyStatus(status) = "ok" /\ ~SameMessage(fetch.provider, named)
                THEN "stale" ELSE BodyStatus(status)
       IN fetch' = [fetch EXCEPT !.result = r, !.got = IF r = "ok" THEN [named |-> named] ELSE @]
  /\ UNCHANGED box

\* The three fetches of email_attachment_get.rs: the attachment is named by
\* the message's and its own id in the URL, or by the blob id.
AttachmentRequest ==
  /\ FetchAt("request") /\ fetch.kind = "attachment"
  /\ \E status \in Statuses : FetchEnds(AttachmentStatus(status))
  /\ UNCHANGED box

\* The mailbox is deleted and made anew, possibly while it is selected.
Recreate == /\ box.validity <= MaxRecreations
            /\ fetch.at # "section"
            /\ box' = [box EXCEPT !.validity = @ + 1]
            /\ UNCHANGED fetch

GetEmail == /\ BeginFetch \/ ImapLogIn \/ ImapSelect \/ ImapSection \/ BodyRequest
               \/ AttachmentRequest \/ Recreate
            /\ UNCHANGED post

AccessNext == SendEmail \/ GetEmail

AccessSpec == AccessInit /\ [][AccessNext]_accessVars

-----------------------------------------------------------------------------
\* The comment of send_smtp: "OAuth tokens must never travel over cleartext
\* smtp://", whatever the server offers; a password only when it was allowed.
SecretsAreCovered ==
  post.secret = "clear" => post.auth = "plain" /\ post.scheme = "smtp" /\ post.allowed

\* A message is sent to all its recipients or to none: accepted_recipients of
\* the result counts them all.
SentToAll == post.result = "sent" => post.accepted = Recipients

\* A body that is returned belongs to the message its reference names: a
\* mailbox made anew, or an answer about another message, is refused.
BodyIsTheNamed ==
  (fetch.kind = "body" /\ fetch.result = "ok") =>
     IF fetch.provider = "imap" THEN fetch.got.validity = fetch.validity
     ELSE /\ fetch.source = fetch.provider
          /\ fetch.got.named = "other" => fetch.provider = "graph"

\* The same for attachments, which only holds for a handle with a UIDVALIDITY
\* and a server that reports one.
AttachmentIsTheNamed ==
  (fetch.kind = "attachment" /\ fetch.provider = "imap" /\ fetch.result = "ok"
     /\ fetch.validity # 0 /\ box.reports) => fetch.got.validity = fetch.validity

AccessIsTrue == SecretsAreCovered /\ SentToAll /\ BodyIsTheNamed /\ AttachmentIsTheNamed
=============================================================================
