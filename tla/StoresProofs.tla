----------------------------- MODULE StoresProofs -----------------------------
(***************************************************************************)
(* Theorems about what requests and commands share and keep: mail servers  *)
(* (EmailAccess), the schema cache (SchemaInvoke), a credential            *)
(* (AuthCredentials), the credential file under several processes          *)
(* (AuthFiles) and the configuration import (ConfigImport), each by itself *)
(* and in the composition of MCStores.                                     *)
(***************************************************************************)
EXTENDS MCStores, FiniteSetTheorems, SequenceTheorems, TLAPS

-----------------------------------------------------------------------------
(* Mail.  A password is past the check only where it was allowed, a token at *)
(* AUTH only on an encrypted connection; a selected mailbox is the one the   *)
(* reference names.                                                          *)

PostPlaces == {"check", "connect", "ehlo", "auth", "mail"}
PostType == [at : PostPlaces, scheme : {"smtp", "smtps"}, auth : SmtpAuths, allowed : BOOLEAN,
             starttls : BOOLEAN, tls : BOOLEAN, secret : {"unsent", "clear", "encrypted"},
             accepted : SUBSET Recipients,
             result : {NoAnswer, "refused", "rejected", "sent", "failed"}]
PostInv ==
  \/ post = EmailUnused
  \/ /\ post \in PostType
     /\ post.at # "check" => ~(post.scheme = "smtp" /\ post.auth = "plain" /\ ~post.allowed)
     /\ post.at \in {"ehlo", "auth"} /\ post.scheme = "smtps" => post.tls
     /\ post.at = "auth" /\ post.auth = "xoauth2" => post.tls
     /\ SecretsAreCovered /\ SentToAll

LEMMA PostStep ==
  ASSUME PostInv, SendEmail
  PROVE  PostInv'
<1>1. CASE post = EmailUnused
  BY <1>1 DEF SendEmail, ValidateSmtpAuthTransport, SmtpConnect, StartTls, SmtpAuthenticate,
              SmtpRecipient, SmtpData, SmtpError, PostAt, EmailUnused, NoAnswer
<1>2. CASE post # EmailUnused
  <2> USE <1>2 DEF PostInv, PostType, PostPlaces, PostAt, PostEnds, PostTo, SecretsAreCovered, SentToAll,
            SmtpAuths, NoAnswer
  <2>1. CASE ValidateSmtpAuthTransport
    BY <2>1 DEF ValidateSmtpAuthTransport
  <2>2. CASE SmtpConnect
    BY <2>2 DEF SmtpConnect
  <2>3. CASE StartTls
    <3>1. post \in PostType /\ PostAt("ehlo") /\ PostInv
      BY <2>3 DEF StartTls
    <3>2. CASE post.scheme = "smtp" /\ post.auth = "xoauth2" /\ post.starttls
      <4>1. post' = [post EXCEPT !.at = "auth", !.tls = TRUE]
        BY <2>3, <3>2 DEF StartTls
      <4> QED
        BY <3>1, <3>2, <4>1
    <3>3. CASE post.scheme = "smtp" /\ post.auth = "xoauth2" /\ ~post.starttls
      <4>1. post' = [post EXCEPT !.result = "refused"]
        BY <2>3, <3>3 DEF StartTls
      <4> QED
        BY <3>1, <3>3, <4>1
    <3>4. CASE ~(post.scheme = "smtp" /\ post.auth = "xoauth2")
      <4>1. post' = [post EXCEPT !.at = "auth"]
        BY <2>3, <3>4 DEF StartTls
      <4> QED
        BY <3>1, <3>4, <4>1
    <3> QED
      BY <3>2, <3>3, <3>4
  <2>4. CASE SmtpAuthenticate
    BY <2>4 DEF SmtpAuthenticate
  <2>5. CASE SmtpRecipient
    BY <2>5 DEF SmtpRecipient
  <2>6. CASE SmtpData
    BY <2>6 DEF SmtpData
  <2>7. CASE SmtpError
    BY <2>7 DEF SmtpError
  <2> QED
    BY <2>1, <2>2, <2>3, <2>4, <2>5, <2>6, <2>7 DEF SendEmail
<1> QED
  BY <1>1, <1>2

Answers == {NoAnswer, "ok", "identity_missing", "stale", "auth_required", "auth_profile_missing", "auth_failed",
            "provider_unavailable", "provider_request_failed", "uid_invalid", "not_found",
            "resource_limit", "attachment_not_found"}
FetchType == [kind : {"body", "attachment"}, at : {"check", "login", "select", "section", "request"},
              provider : {"imap", "gmail", "graph", "jmap"}, source : {"imap", "gmail", "graph", "jmap"},
              auth : BOOLEAN, validity : {0, 1},
              got : {NoAnswer} \cup [validity : Nat] \cup [named : {"same", "other", "absent"}],
              result : Answers]
BoxType == [validity : Nat \ {0}, reports : BOOLEAN]

\* What the section is fetched from is what the reference names.
SectionIsNamed ==
  fetch.at = "section" =>
    /\ fetch.got \in [validity : Nat]
    /\ fetch.kind = "body" \/ (fetch.validity # 0 /\ box.reports) => fetch.got.validity = fetch.validity
RequestIsOwn ==
  fetch.at = "request" =>
    /\ fetch.provider # "imap"
    /\ fetch.kind = "body" => fetch.source = fetch.provider
FetchInv ==
  /\ box \in BoxType
  /\ \/ fetch = EmailUnused
     \/ /\ fetch \in FetchType
        /\ fetch.at \in {"login", "select", "section"} => fetch.provider = "imap"
        /\ SectionIsNamed /\ RequestIsOwn
        /\ fetch.result = "ok" => fetch.at \in {"section", "request"}
        /\ fetch.result = "ok" /\ fetch.at = "request" /\ fetch.kind = "body" =>
             fetch.got \in [named : {"same", "other", "absent"}]
               /\ (fetch.got.named = "other" => fetch.provider = "graph")

LEMMA FetchStep ==
  ASSUME FetchInv, GetEmail
  PROVE  FetchInv'
<1>1. CASE fetch = EmailUnused
  <2>1. UNCHANGED fetch /\ box' \in BoxType
    BY <1>1 DEF FetchInv, BoxType, GetEmail, BeginFetch, ImapLogIn, ImapSelect, ImapSection, BodyRequest,
              AttachmentRequest, Recreate, FetchAt, EmailUnused, NoAnswer
  <2> QED
    BY <1>1, <2>1 DEF FetchInv
<1>2. CASE fetch # EmailUnused
  <2> USE <1>2 DEF FetchInv, FetchType, BoxType, FetchAt, FetchEnds, FetchTo, SectionIsNamed,
                   RequestIsOwn, NoAnswer, Answers
  <2>1. CASE BeginFetch
    <3>1. RefusedFetch \in Answers \ {"ok"}
      BY DEF RefusedFetch
    <3>2. RefusedFetch = NoAnswer =>
            (fetch.kind = "body" /\ fetch.provider # "imap" => fetch.source = fetch.provider)
      BY DEF RefusedFetch
    <3> HIDE DEF NoAnswer
    <3> QED
      BY <2>1, <3>1, <3>2 DEF BeginFetch
  <2>2. CASE ImapLogIn
    BY <2>2 DEF ImapLogIn
  <2>3. CASE ImapSelect
    <3> DEFINE r == SelectAnswer(fetch.kind, fetch.validity, Reported)
    <3>1. r \in Answers \ {"ok"}
      BY DEF SelectAnswer
    <3>2. r = NoAnswer =>
            (fetch.kind = "body" \/ (fetch.validity # 0 /\ box.reports) => box.validity = fetch.validity)
      BY DEF SelectAnswer, Reported
    <3>3. fetch.at = "select" /\ fetch.provider = "imap" /\ UNCHANGED box
          /\ fetch' = IF r # NoAnswer THEN [fetch EXCEPT !.result = r]
                      ELSE [fetch EXCEPT !.at = "section", !.got = [validity |-> box.validity]]
      BY <2>3 DEF ImapSelect
    <3>4. CASE r # NoAnswer
      <4> HIDE DEF r
      <4> QED
        BY <3>1, <3>3, <3>4
    <3>5. CASE r = NoAnswer
      <4> DEFINE now == [validity |-> box.validity]
      <4>1. now \in [validity : Nat] /\ now.validity = box.validity
        OBVIOUS
      <4>2. fetch' = [fetch EXCEPT !.at = "section", !.got = now]
        BY <3>3, <3>5
      <4> HIDE DEF r, now
      <4>3. fetch' \in FetchType /\ fetch'.at = "section" /\ fetch'.got = now
            /\ fetch'.kind = fetch.kind /\ fetch'.validity = fetch.validity
            /\ fetch'.provider = fetch.provider /\ fetch'.result = fetch.result
        BY <3>3, <4>1, <4>2
      <4>4. fetch.result # "ok"
        BY <2>3 DEF ImapSelect
      <4> QED
        BY <3>2, <3>3, <3>5, <4>1, <4>3, <4>4
    <3> QED
      BY <3>4, <3>5
  <2>4. CASE ImapSection
    BY <2>4 DEF ImapSection
  <2>5. CASE BodyRequest
    <3>1. PICK status \in Statuses, named \in {"same", "other", "absent"} :
            fetch' = [fetch EXCEPT
              !.result = IF BodyStatus(status) = "ok" /\ ~SameMessage(fetch.provider, named)
                         THEN "stale" ELSE BodyStatus(status),
              !.got = IF (IF BodyStatus(status) = "ok" /\ ~SameMessage(fetch.provider, named)
                          THEN "stale" ELSE BodyStatus(status)) = "ok"
                      THEN [named |-> named] ELSE @]
      BY <2>5 DEF BodyRequest
    <3> DEFINE r == IF BodyStatus(status) = "ok" /\ ~SameMessage(fetch.provider, named)
                    THEN "stale" ELSE BodyStatus(status)
               now == [named |-> named]
    <3>2. r \in Answers
      BY DEF BodyStatus, Statuses
    <3>3. r = "ok" => SameMessage(fetch.provider, named)
      OBVIOUS
    <3>4. r = "ok" /\ named = "other" => fetch.provider # "gmail" /\ fetch.provider # "jmap"
      BY <3>3 DEF SameMessage
    <3>5. now \in [named : {"same", "other", "absent"}] /\ now.named = named
      OBVIOUS
    <3>6. fetch' = [fetch EXCEPT !.result = r, !.got = IF r = "ok" THEN now ELSE @]
      BY <3>1
    <3>7. fetch.at = "request" /\ fetch.kind = "body" /\ UNCHANGED box
      BY <2>5 DEF BodyRequest
    <3> HIDE DEF r, now
    <3>8. CASE r = "ok"
      BY <3>4, <3>5, <3>6, <3>7, <3>8
    <3>9. CASE r # "ok"
      BY <3>2, <3>6, <3>7, <3>9
    <3> QED
      BY <3>8, <3>9
  <2>6. CASE AttachmentRequest
    BY <2>6 DEF AttachmentRequest, AttachmentStatus, Statuses
  <2>7. CASE Recreate
    BY <2>7 DEF Recreate
  <2> QED
    BY <2>1, <2>2, <2>3, <2>4, <2>5, <2>6, <2>7 DEF GetEmail
<1> QED
  BY <1>1, <1>2

AccessInv == PostInv /\ FetchInv

LEMMA AccessNextPreserves == AccessInv /\ [AccessNext]_accessVars => AccessInv'
<1> SUFFICES ASSUME AccessInv, [AccessNext]_accessVars PROVE AccessInv'
  OBVIOUS
<1>1. CASE SendEmail
  <2>1. FetchInv'
    BY <1>1 DEF AccessInv, SendEmail, FetchInv, SectionIsNamed, RequestIsOwn
  <2> QED
    BY <1>1, <2>1, PostStep DEF AccessInv
<1>2. CASE GetEmail
  <2>1. PostInv'
    BY <1>2 DEF AccessInv, GetEmail, PostInv, SecretsAreCovered, SentToAll
  <2> QED
    BY <1>2, <2>1, FetchStep DEF AccessInv
<1>3. CASE UNCHANGED accessVars
  BY <1>3 DEF accessVars, AccessInv, FetchInv, SectionIsNamed, RequestIsOwn, PostInv, SecretsAreCovered, SentToAll
<1> QED
  BY <1>1, <1>2, <1>3 DEF AccessNext

LEMMA AccessInitEstablishes == AccessInit => AccessInv
<1> SUFFICES ASSUME AccessInit PROVE AccessInv
  OBVIOUS
<1>1. PostInv
  BY DEF AccessInit, PostInv, Posts, PostType, PostPlaces, SmtpAuths, NoAnswer, SecretsAreCovered, SentToAll
<1>2. FetchInv
  BY DEF AccessInit, FetchInv, Fetches, FetchType, BoxType, Answers, NoAnswer, SectionIsNamed, RequestIsOwn
<1> QED
  BY <1>1, <1>2 DEF AccessInv

LEMMA AccessInvIsTrue == AccessInv => AccessIsTrue
<1> SUFFICES ASSUME AccessInv PROVE AccessIsTrue
  OBVIOUS
<1>1. SecretsAreCovered /\ SentToAll
  BY DEF AccessInv, PostInv, EmailUnused, SecretsAreCovered, SentToAll
<1>2. BodyIsTheNamed /\ AttachmentIsTheNamed
  BY DEF AccessInv, FetchInv, FetchType, SectionIsNamed, RequestIsOwn, EmailUnused, BodyIsTheNamed,
         AttachmentIsTheNamed
<1> QED
  BY <1>1, <1>2 DEF AccessIsTrue

\* Whatever an SMTP server offers, answers or drops, no token travels unencrypted
\* and no password that was not allowed to, and a message is sent to all of its
\* recipients; whenever a mailbox is recreated, a body that is returned is the
\* one its reference names (send_smtp, email_body_get.rs, email_attachment_get.rs).
THEOREM AccessTrue == AccessSpec => []AccessIsTrue
<1>1. AccessSpec => []AccessInv
  BY AccessInitEstablishes, AccessNextPreserves, PTL DEF AccessSpec
<1> QED
  BY <1>1, AccessInvIsTrue, PTL

-----------------------------------------------------------------------------
(* The schema cache.  A file is of the protocol its name says and, under a   *)
(* credential's name, was shown to that credential; a request holds what it  *)
(* may hold, and one for help that began with a file can still be answered.  *)

NoShape == [action |-> "none"]
ReqPlaces == {"new", "lookup", "detect", "undetected", "fetch", "put", "write", "answer", "call", "failed", "done"}
Found == Protocols \cup {"none"}
Showers == Keys \cup {"nobody"}
Envs == {s.mapping : s \in Shapes} \cup {"none"}
Uses == [ver : Nat, live : BOOLEAN, by : Showers]
InvRecords == [at : ReqPlaces, shape : Shapes \cup {NoShape}, proto : Found, found : Nat, key : Keys, used : Uses,
             ran : Nat, again : BOOLEAN, had : BOOLEAN, env : Envs, result : {"none", "ok", "error", "crash"}]
Torn == [at |-> "torn"]
Schemas == [at : {"fresh", "stale"}, proto : Found, ver : Nat, by : Showers, putBy : Invokes \cup {0}]
Endpoints == [protos : SUBSET Protocols, ver : Nat, up : BOOLEAN]

InvTypes == /\ endpoint \in Endpoints
            /\ file \in [Keys -> Schemas \cup {NoFile, Torn}]
            /\ inv \in [Invokes -> InvRecords]
            /\ mapEnv \in Envs /\ mapLock \in SUBSET Invokes /\ outages \in Nat

\* The name of a file says whose it is.
OwnFile(k, f) == f \in Schemas => /\ k = "url" <=> f.proto # "mcp"
                                  /\ k # "url" => f.by = k
FilesAreOwn == \A k \in Keys : OwnFile(k, file[k])

\* What a request has used so far.
UseIsOwn(q) ==
    /\ q.at # "new" => q.shape \in Shapes
    /\ q.at = "new" => ~q.again /\ q.result = "none"
    /\ q.at \in {"new", "lookup", "detect", "undetected"} => q.used = NoUse
    /\ q.at \in {"put", "write"} => q.key = KeyFor(q.proto, q.shape.auth) /\ q.used.by = q.shape.auth
    /\ q.proto = "mcp" /\ q.used # NoUse => q.used.by = q.shape.auth
    /\ q.used # NoUse /\ ~Reads(q.shape) => q.used.live
RanOnce(q, protos) == protos = {"mcp"} => q.ran <= 1 /\ (q.at # "done" => q.ran = 0)

Mapped(q) == q.at \notin {"new", "done"} /\ q.shape.mapping # "none"
MapInv == /\ \A r \in Invokes : Mapped(inv[r]) =>
               mapLock = {r} /\ mapEnv = inv[r].shape.mapping /\ inv[r].env = "none"
          /\ \A r \in mapLock : Mapped(inv[r])
          /\ mapLock = {} => mapEnv = "none"

\* What stands behind help that began with a file: the file itself, expired or
\* not; none that is fresh once the look-up has missed; the fresh one that the
\* request has dated.
Kept(f) == f.at \in {"fresh", "stale"}
Missed(a, u) == a.at # "fresh" /\ u.at # "fresh" /\ (a.at = "stale" \/ u.at = "stale")
FirstStale(a, u) == a.at = "stale" \/ (~Kept(a) /\ u.at = "stale")
HelpInv(r, q, a, u) ==
    LET own == IF q.proto = "mcp" THEN a ELSE u IN
    /\ q.result = "error" => q.at = "done"
    /\ q.had /\ q.at # "new" /\ q.shape.action = "help" /\ Reads(q.shape) =>
         /\ q.at = "lookup" => ~q.again /\ (Kept(a) \/ Kept(u))
         /\ q.at \in {"detect", "undetected"} => ~q.again /\ Missed(a, u)
         /\ q.at = "fetch" =>
              \/ ~q.again /\ Missed(a, u)
              \/ ~q.again /\ Kept(own) /\ (q.proto = "mcp" \/ a.at # "fresh")
              \/ own.at = "fresh" /\ own.putBy = r
         /\ q.at = "failed" => ~q.again /\ FirstStale(a, u)
         /\ q.at # "call"
         /\ q.result # "error"
HelpsInv == \A r \in Invokes : inv[r].at # "new" => HelpInv(r, inv[r], file[inv[r].shape.auth], file["url"])

InvInv == /\ InvTypes /\ FilesAreOwn
          /\ \A r \in Invokes : UseIsOwn(inv[r]) /\ RanOnce(inv[r], endpoint.protos)
          /\ MapInv /\ HelpsInv

LEMMA ShapeFacts ==
    /\ "url" \in Keys /\ "url" \in Showers
    /\ \A s \in Shapes : /\ s.auth \in Keys /\ s.auth \in Showers /\ s.auth # "url"
                         /\ s.mapping \in Envs /\ s.action \in {"help", "execute"}
BY InvokesAssumption DEF Keys, Auths, Showers, Envs

\* A request goes on by itself: the others and the files stay.
LEMMA OwnSteps ==
    ASSUME InvInv, NEW r \in Invokes, NEW rec \in InvRecords, InvStep(r, rec), rec.at # "new",
           UseIsOwn(rec), RanOnce(rec, endpoint.protos),
           HelpInv(r, rec, file[rec.shape.auth], file["url"]), UNCHANGED <<endpoint, file>>
    PROVE  /\ inv' \in [Invokes -> InvRecords] /\ inv'[r] = rec
           /\ \A x \in Invokes : x # r => inv'[x] = inv[x]
           /\ \A x \in Invokes : UseIsOwn(inv'[x]) /\ RanOnce(inv'[x], endpoint'.protos)
           /\ FilesAreOwn' /\ HelpsInv'
<1>1. /\ inv' \in [Invokes -> InvRecords] /\ inv'[r] = rec
      /\ \A x \in Invokes : x # r => inv'[x] = inv[x]
  BY DEF InvStep, InvInv, InvTypes
<1>2. \A x \in Invokes : UseIsOwn(inv'[x]) /\ RanOnce(inv'[x], endpoint'.protos)
  BY <1>1 DEF InvInv
<1>3. HelpsInv'
  BY <1>1 DEF InvInv, HelpsInv
<1>4. FilesAreOwn'
  BY DEF InvInv, FilesAreOwn
<1> QED
  BY <1>1, <1>2, <1>3, <1>4

\* A request that writes a file: the others cannot count on theirs any more.
Robbed(q) == [q EXCEPT !.had = FALSE]
LEMMA SameUse ==
    ASSUME NEW q \in InvRecords, NEW p, UseIsOwn(q), RanOnce(q, p), NEW d, d = Robbed(q)
    PROVE  /\ d \in InvRecords /\ UseIsOwn(d) /\ RanOnce(d, p) /\ ~d.had /\ d.result = q.result
           /\ d.at = q.at /\ d.shape = q.shape /\ d.env = q.env
<1>1. /\ d \in InvRecords /\ ~d.had
      /\ d.at = q.at /\ d.shape = q.shape /\ d.proto = q.proto /\ d.key = q.key /\ d.used = q.used
      /\ d.ran = q.ran /\ d.result = q.result /\ d.env = q.env /\ d.again = q.again
  BY DEF InvRecords, Robbed
<1>2. UseIsOwn(d) /\ RanOnce(d, p)
  BY <1>1 DEF UseIsOwn, RanOnce
<1> QED
  BY <1>1, <1>2

LEMMA AloneSteps ==
    ASSUME InvInv, NEW r \in Invokes, NEW rec \in InvRecords, StepAlone(r, rec), rec.at # "new",
           UseIsOwn(rec), RanOnce(rec, endpoint.protos),
           HelpInv(r, rec, file'[rec.shape.auth], file'["url"]), UNCHANGED endpoint
    PROVE  /\ inv' \in [Invokes -> InvRecords] /\ inv'[r] = rec
           /\ \A x \in Invokes : x # r => inv'[x].at = inv[x].at /\ inv'[x].shape = inv[x].shape
                                          /\ inv'[x].env = inv[x].env
           /\ \A x \in Invokes : UseIsOwn(inv'[x]) /\ RanOnce(inv'[x], endpoint'.protos)
           /\ HelpsInv'
<1>1. inv'[r] = rec /\ \A x \in Invokes : x # r => inv'[x] = Robbed(inv[x])
  BY DEF StepAlone, Robbed
<1>2. ASSUME NEW x \in Invokes, x # r
      PROVE  /\ inv'[x] \in InvRecords /\ UseIsOwn(inv'[x]) /\ RanOnce(inv'[x], endpoint.protos)
             /\ ~inv'[x].had /\ inv'[x].result = inv[x].result
             /\ inv'[x].at = inv[x].at /\ inv'[x].shape = inv[x].shape /\ inv'[x].env = inv[x].env
  <2>1. inv[x] \in InvRecords /\ UseIsOwn(inv[x]) /\ RanOnce(inv[x], endpoint.protos)
    BY DEF InvInv, InvTypes
  <2> QED
    BY <1>1, <1>2, <2>1, SameUse
<1>3. inv' \in [Invokes -> InvRecords]
  BY <1>1, <1>2 DEF StepAlone
<1>4. HelpsInv'
  <2> SUFFICES ASSUME NEW x \in Invokes, inv'[x].at # "new"
               PROVE  HelpInv(x, inv'[x], file'[inv'[x].shape.auth], file'["url"])
    BY DEF HelpsInv
  <2>1. CASE x = r
    BY <2>1, <1>1
  <2>2. CASE x # r
    <3>1. inv[x].result = "error" => inv[x].at = "done"
      BY <2>2, <1>2 DEF InvInv, HelpsInv, HelpInv
    <3> QED
      BY <2>2, <1>2, <3>1 DEF HelpInv
  <2> QED
    BY <2>1, <2>2
<1> QED
  BY <1>1, <1>2, <1>3, <1>4

\* A request in the middle of its work leaves the mapping alone.
LEMMA MapKept ==
    ASSUME InvInv, NEW r \in Invokes, UNCHANGED <<mapEnv, mapLock>>,
           \A x \in Invokes : x # r => inv'[x].at = inv[x].at /\ inv'[x].shape = inv[x].shape
                                        /\ inv'[x].env = inv[x].env,
           inv[r].at \notin {"new", "done"}, inv'[r].at \notin {"new", "done"},
           inv'[r].shape = inv[r].shape, inv'[r].env = inv[r].env
    PROVE  MapInv' /\ mapEnv' \in Envs /\ mapLock' \in SUBSET Invokes
BY DEF InvInv, InvTypes, MapInv, Mapped

\* One that ends puts back what it found.
LEMMA MapEnds ==
    ASSUME InvInv, NEW r \in Invokes, inv[r].at \notin {"new", "done"}, inv'[r].at = "done",
           \A x \in Invokes : x # r => inv'[x] = inv[x],
           mapEnv' = IF inv[r].shape.mapping = "none" THEN mapEnv ELSE inv[r].env,
           mapLock' = mapLock \ {r}
    PROVE  MapInv' /\ mapEnv' \in Envs /\ mapLock' \in SUBSET Invokes
<1>1. CASE inv[r].shape.mapping = "none"
  BY <1>1 DEF InvInv, InvTypes, MapInv, Mapped
<1>2. CASE inv[r].shape.mapping # "none"
  <2>1. mapLock = {r} /\ inv[r].env = "none"
    BY <1>2 DEF InvInv, MapInv, Mapped
  <2>2. mapLock' = {} /\ mapEnv' = "none"
    BY <1>2, <2>1
  <2> QED
    BY <2>1, <2>2 DEF InvInv, InvTypes, MapInv, Mapped, Envs
<1> QED
  BY <1>1, <1>2

CacheInv == /\ file \in [Keys -> Schemas \cup {NoFile, Torn}] /\ FilesAreOwn
            /\ inv \in [Invokes -> InvRecords]
            /\ \A r \in Invokes : UseIsOwn(inv[r]) /\ RanOnce(inv[r], endpoint.protos)
            /\ HelpsInv
MapsInv == mapEnv \in Envs /\ mapLock \in SUBSET Invokes /\ MapInv

LEMMA EndSteps ==
    ASSUME InvInv, NEW r \in Invokes, NEW rec \in InvRecords, Ends(r, rec), UNCHANGED <<endpoint, file>>,
           inv[r].at \notin {"new", "done"}, rec.shape \in Shapes, UseIsOwn(rec),
           endpoint.protos = {"mcp"} => rec.ran <= 1,
           rec.result = "error" /\ rec.shape.action = "help" /\ Reads(rec.shape) => ~rec.had
    PROVE  CacheInv' /\ MapsInv'
<1> DEFINE d == [rec EXCEPT !.at = "done"]
<1>1. /\ d \in InvRecords /\ d.at = "done" /\ d.had = rec.had
      /\ d.shape = rec.shape /\ d.proto = rec.proto /\ d.key = rec.key /\ d.used = rec.used
      /\ d.ran = rec.ran /\ d.result = rec.result
  BY DEF InvRecords, ReqPlaces
<1>2. InvStep(r, d)
  BY DEF Ends
<1> HIDE DEF d
<1>3. UseIsOwn(d) /\ RanOnce(d, endpoint.protos)
  BY <1>1 DEF UseIsOwn, RanOnce
<1>4. HelpInv(r, d, file[d.shape.auth], file["url"])
  BY <1>1 DEF HelpInv
<1>5. /\ inv' \in [Invokes -> InvRecords] /\ inv'[r] = d
      /\ \A x \in Invokes : x # r => inv'[x] = inv[x]
      /\ \A x \in Invokes : UseIsOwn(inv'[x]) /\ RanOnce(inv'[x], endpoint'.protos)
      /\ FilesAreOwn' /\ HelpsInv'
  BY <1>1, <1>2, <1>3, <1>4, OwnSteps
<1>6. MapsInv'
  BY <1>1, <1>5, MapEnds DEF Ends, MapsInv
<1> QED
  BY <1>5, <1>6 DEF CacheInv, InvInv, InvTypes

\* A step in the middle of a request.
LEMMA MidSteps ==
    ASSUME InvInv, NEW r \in Invokes, NEW rec \in InvRecords, InvStep(r, rec),
           inv[r].at \notin {"new", "done"}, rec.at \notin {"new", "done"},
           rec.shape = inv[r].shape, rec.env = inv[r].env,
           UseIsOwn(rec), RanOnce(rec, endpoint.protos),
           HelpInv(r, rec, file[rec.shape.auth], file["url"]),
           UNCHANGED <<endpoint, file, mapEnv, mapLock>>
    PROVE  CacheInv' /\ MapsInv'
<1>1. /\ inv' \in [Invokes -> InvRecords] /\ inv'[r] = rec
      /\ \A x \in Invokes : x # r => inv'[x] = inv[x]
      /\ \A x \in Invokes : UseIsOwn(inv'[x]) /\ RanOnce(inv'[x], endpoint'.protos)
      /\ FilesAreOwn' /\ HelpsInv'
  BY OwnSteps
<1>2. MapsInv'
  BY <1>1, MapKept DEF MapsInv
<1> QED
  BY <1>1, <1>2 DEF CacheInv, InvInv, InvTypes

LEMMA MidStepsAlone ==
    ASSUME InvInv, NEW r \in Invokes, NEW rec \in InvRecords, StepAlone(r, rec),
           inv[r].at \notin {"new", "done"}, rec.at \notin {"new", "done"},
           rec.shape = inv[r].shape, rec.env = inv[r].env,
           UseIsOwn(rec), RanOnce(rec, endpoint.protos),
           HelpInv(r, rec, file'[rec.shape.auth], file'["url"]),
           file' \in [Keys -> Schemas \cup {NoFile, Torn}], FilesAreOwn',
           UNCHANGED <<endpoint, mapEnv, mapLock>>
    PROVE  CacheInv' /\ MapsInv'
<1>1. /\ inv' \in [Invokes -> InvRecords] /\ inv'[r] = rec
      /\ \A x \in Invokes : x # r => inv'[x].at = inv[x].at /\ inv'[x].shape = inv[x].shape
                                     /\ inv'[x].env = inv[x].env
      /\ \A x \in Invokes : UseIsOwn(inv'[x]) /\ RanOnce(inv'[x], endpoint'.protos)
      /\ HelpsInv'
  BY AloneSteps
<1>2. MapsInv'
  BY <1>1, MapKept DEF MapsInv
<1> QED
  BY <1>1, <1>2 DEF CacheInv

LEMMA Hits ==
    ASSUME NEW a, NEW policy, NEW hits, hits = LookupKeys(a, policy)
    PROVE  /\ hits = <<>> <=> ~Get(a, policy) /\ ~Get("url", policy)
           /\ hits # <<>> => /\ hits[1] = a \/ (hits[1] = "url" /\ ~Get(a, policy))
                             /\ Get(hits[1], policy)
BY DEF LookupKeys

LEMMA GetIs ==
    ASSUME NEW k
    PROVE  /\ Get(k, "normal") <=> file[k].at = "fresh"
           /\ Get(k, "allow_stale") <=> Kept(file[k])
BY DEF Get, Kept

\* The request that works, its shape and its two files.
LEMMA AtWork ==
    ASSUME InvInv, NEW r \in Invokes, inv[r].at # "new"
    PROVE  /\ inv[r] \in InvRecords /\ inv[r].shape \in Shapes
           /\ UseIsOwn(inv[r]) /\ RanOnce(inv[r], endpoint.protos)
           /\ HelpInv(r, inv[r], file[inv[r].shape.auth], file["url"])
           /\ inv[r].shape.auth \in Keys /\ inv[r].shape.auth \in Showers /\ inv[r].shape.auth # "url"
           /\ inv[r].shape.action \in {"help", "execute"}
<1>1. inv[r] \in InvRecords /\ UseIsOwn(inv[r]) /\ RanOnce(inv[r], endpoint.protos)
  BY DEF InvInv, InvTypes
<1>2. inv[r].shape \in Shapes
  BY <1>1 DEF UseIsOwn
<1>3. HelpInv(r, inv[r], file[inv[r].shape.auth], file["url"])
  BY DEF InvInv, HelpsInv
<1> QED
  BY <1>1, <1>2, <1>3, ShapeFacts

LEMMA KeptIsSchema ==
    ASSUME InvInv, NEW k \in Keys, Kept(file[k])
    PROVE  /\ file[k] \in Schemas /\ file[k].proto \in Found /\ file[k].by \in Showers /\ file[k].ver \in Nat
           /\ k = "url" <=> file[k].proto # "mcp"
           /\ k # "url" => file[k].by = k
<1>1. file[k] \in Schemas
  BY DEF InvInv, InvTypes, Kept, NoFile, Torn
<1>2. OwnFile(k, file[k])
  BY DEF InvInv, FilesAreOwn
<1> QED
  BY <1>1, <1>2 DEF Schemas, OwnFile

\* The places of a request; WithAdapter.
Rest(d, q) == d.shape = q.shape /\ d.env = q.env /\ d.ran = q.ran /\ d.result = q.result /\ d.had = q.had
LEMMA Moved ==
    ASSUME NEW q \in InvRecords, NEW c \in ReqPlaces, NEW d, d = [q EXCEPT !.at = c]
    PROVE  /\ d \in InvRecords /\ d.at = c /\ Rest(d, q) /\ d.again = q.again
           /\ d.proto = q.proto /\ d.found = q.found /\ d.used = q.used /\ d.key = q.key
BY DEF InvRecords, Rest

LEMMA NoUseIs == NoUse \in Uses /\ "fetch" \in ReqPlaces
BY DEF NoUse, Uses, Showers, ReqPlaces

LEMMA Adapted ==
    ASSUME NEW q \in InvRecords, NEW p \in Found, NEW d, d = WithAdapter(q, p)
    PROVE  /\ d \in InvRecords /\ d.at = "fetch" /\ Rest(d, q) /\ d.again = q.again
           /\ d.proto = p /\ d.found = 0 /\ d.used = NoUse /\ d.key = q.key
<1> HIDE DEF NoUse
<1> QED
  BY NoUseIs DEF InvRecords, Rest, WithAdapter

LEMMA LookupStep ==
    ASSUME InvInv, NEW r \in Invokes, Lookup(r)
    PROVE  CacheInv' /\ MapsInv'
<1> DEFINE q == inv[r]
           a == q.shape.auth
           hits == LookupKeys(a, "normal")
           rec == IF Reads(q.shape) /\ hits # <<>> THEN WithAdapter(q, file[hits[1]].proto)
                  ELSE [q EXCEPT !.at = "detect"]
<1>1. q.at = "lookup" /\ InvStep(r, rec) /\ UNCHANGED <<endpoint, file, mapEnv, mapLock>>
  BY DEF Lookup
<1>2. /\ q \in InvRecords /\ q.shape \in Shapes /\ UseIsOwn(q) /\ RanOnce(q, endpoint.protos)
      /\ HelpInv(r, q, file[a], file["url"]) /\ a \in Keys /\ a # "url"
  BY <1>1, AtWork
<1>3. CASE Reads(q.shape) /\ hits # <<>>
  <2>1. /\ hits[1] = a \/ (hits[1] = "url" /\ file[a].at # "fresh")
        /\ hits[1] \in Keys /\ file[hits[1]].at = "fresh"
    BY <1>2, <1>3, Hits, GetIs, ShapeFacts
  <2>2. file[hits[1]].proto \in Found /\ (hits[1] = "url" <=> file[hits[1]].proto # "mcp")
    BY <2>1, KeptIsSchema DEF Kept
  <2>3. rec = WithAdapter(q, file[hits[1]].proto)
    BY <1>3
  <2> HIDE DEF rec, hits
  <2>4. /\ rec \in InvRecords /\ rec.at = "fetch" /\ Rest(rec, q) /\ rec.again = q.again
        /\ rec.proto = file[hits[1]].proto /\ rec.used = NoUse
    BY <1>2, <2>2, <2>3, Adapted
  <2> HIDE DEF q
  <2>5. UseIsOwn(rec) /\ RanOnce(rec, endpoint.protos)
    BY <1>1, <1>2, <2>4 DEF UseIsOwn, RanOnce, Rest
  <2>6. HelpInv(r, rec, file[a], file["url"])
    BY <1>1, <1>2, <2>1, <2>2, <2>4 DEF HelpInv, Rest, Kept
  <2> QED
    BY <1>1, <2>4, <2>5, <2>6, MidSteps DEF Rest, q
<1>4. CASE ~(Reads(q.shape) /\ hits # <<>>)
  <2>1. rec = [q EXCEPT !.at = "detect"] /\ "detect" \in ReqPlaces
    BY <1>4 DEF ReqPlaces
  <2>2. Reads(q.shape) => file[a].at # "fresh" /\ file["url"].at # "fresh"
    BY <1>4, Hits, GetIs
  <2> HIDE DEF rec, hits
  <2>4. /\ rec \in InvRecords /\ rec.at = "detect" /\ Rest(rec, q) /\ rec.again = q.again
        /\ rec.proto = q.proto /\ rec.used = q.used
    BY <1>2, <2>1, Moved
  <2> HIDE DEF q
  <2>5. UseIsOwn(rec) /\ RanOnce(rec, endpoint.protos)
    BY <1>1, <1>2, <2>4 DEF UseIsOwn, RanOnce, Rest
  <2>6. HelpInv(r, rec, file[a], file["url"])
    BY <1>1, <1>2, <2>2, <2>4 DEF HelpInv, Rest, Kept, Missed
  <2> QED
    BY <1>1, <2>4, <2>5, <2>6, MidSteps DEF Rest, q
<1> QED
  BY <1>3, <1>4

LEMMA DetectedIs ==
    ASSUME NEW probe
    PROVE  DetectAdapter(probe) \in Found
<1> DEFINE yes == {k \in DOMAIN Order : probe[Order[k]]}
<1>1. DOMAIN Order = 1 .. 5
  BY DEF Order
<1>2. CASE yes # {}
  <2>1. \E k \in yes : \A j \in yes : k <= j
    <3>1. yes \subseteq 1 .. 5
      BY <1>1
    <3> HIDE DEF yes
    <3>2. \A k \in yes : k = 1 \/ k = 2 \/ k = 3 \/ k = 4 \/ k = 5
      BY <3>1
    <3> QED
      BY <1>2, <3>2
  <2>2. (CHOOSE k \in yes : \A j \in yes : k <= j) \in yes
    BY <2>1
  <2>3. DetectAdapter(probe) = Order[CHOOSE k \in yes : \A j \in yes : k <= j]
    BY <1>2 DEF DetectAdapter
  <2> QED
    BY <2>2, <2>3 DEF Found, Protocols
<1>3. CASE yes = {}
  BY <1>3 DEF DetectAdapter, Found
<1> QED
  BY <1>2, <1>3

LEMMA DetectStep ==
    ASSUME InvInv, NEW r \in Invokes, Detect(r)
    PROVE  CacheInv' /\ MapsInv' /\ outages' \in Nat
<1> DEFINE q == inv[r]
           a == q.shape.auth
<1>1. q.at = "detect" /\ UNCHANGED <<endpoint, file, mapEnv, mapLock>>
  BY DEF Detect
<1>9. outages' \in Nat
  <2>1. outages' = outages + 1 \/ outages' = outages
    BY DEF Detect
  <2> QED
    BY <2>1 DEF InvInv, InvTypes
<1>2. PICK lost \in SUBSET endpoint.protos :
        LET proto == DetectAdapter([p \in Protocols |-> endpoint.up /\ p \in endpoint.protos \ lost])
        IN InvStep(r, IF proto = "none" THEN [q EXCEPT !.at = "undetected"]
                      ELSE [WithAdapter(q, proto) EXCEPT !.found = IF proto = "jsonrpc" THEN endpoint.ver ELSE 0])
  BY DEF Detect
<1> DEFINE proto == DetectAdapter([p \in Protocols |-> endpoint.up /\ p \in endpoint.protos \ lost])
           n == IF proto = "jsonrpc" THEN endpoint.ver ELSE 0
           rec == IF proto = "none" THEN [q EXCEPT !.at = "undetected"]
                  ELSE [WithAdapter(q, proto) EXCEPT !.found = n]
<1>3. InvStep(r, rec)
  BY <1>2
<1>4. proto \in Found /\ n \in Nat
  BY DetectedIs DEF InvInv, InvTypes, Endpoints
<1>5. /\ q \in InvRecords /\ q.shape \in Shapes /\ UseIsOwn(q) /\ RanOnce(q, endpoint.protos)
      /\ HelpInv(r, q, file[a], file["url"])
  BY <1>1, AtWork
<1>6. rec \in InvRecords /\ Rest(rec, q) /\ rec.again = q.again /\ rec.used = NoUse
      /\ rec.at \in {"fetch", "undetected"}
  <2>1. CASE proto = "none"
    <3>1. rec = [q EXCEPT !.at = "undetected"] /\ "undetected" \in ReqPlaces
      BY <2>1 DEF ReqPlaces
    <3>2. q.used = NoUse
      BY <1>1, <1>5 DEF UseIsOwn
    <3> HIDE DEF rec, proto
    <3> QED
      BY <1>5, <3>1, <3>2, Moved
  <2>2. CASE proto # "none"
    <3> DEFINE w == WithAdapter(q, proto)
    <3>1. rec = [w EXCEPT !.found = n]
      BY <2>2
    <3> HIDE DEF rec, proto, n
    <3>2. w \in InvRecords /\ w.at = "fetch" /\ Rest(w, q) /\ w.again = q.again /\ w.used = NoUse
      BY <1>4, <1>5, Adapted
    <3> HIDE DEF w
    <3>3. rec \in InvRecords /\ rec.at = w.at /\ Rest(rec, w) /\ rec.again = w.again /\ rec.used = w.used
      BY <1>4, <3>1, <3>2 DEF InvRecords, Rest
    <3> QED
      BY <3>2, <3>3 DEF Rest
  <2> QED
    BY <2>1, <2>2
<1> HIDE DEF rec, q
<1>7. UseIsOwn(rec) /\ RanOnce(rec, endpoint.protos)
  BY <1>1, <1>5, <1>6 DEF UseIsOwn, RanOnce, Rest
<1>8. HelpInv(r, rec, file[a], file["url"])
  BY <1>1, <1>5, <1>6 DEF HelpInv, Rest
<1> QED
  BY <1>1, <1>3, <1>6, <1>7, <1>8, <1>9, MidSteps DEF Rest, q

\* An expired file that is dated anew.
LEMMA Dated ==
    ASSUME InvInv, NEW r \in Invokes, NEW k \in Keys, Kept(file[k]), file' = Redated(k, r)
    PROVE  /\ file' \in [Keys -> Schemas \cup {NoFile, Torn}] /\ FilesAreOwn'
           /\ file'[k].at = "fresh" /\ file'[k].putBy = r
<1> DEFINE f == file[k]
           g == [f EXCEPT !.at = "fresh", !.putBy = r]
<1>1. f \in Schemas /\ OwnFile(k, f) /\ file \in [Keys -> Schemas \cup {NoFile, Torn}]
  BY KeptIsSchema DEF InvInv, InvTypes, FilesAreOwn
<1>2. file' = [file EXCEPT ![k] = g]
  BY DEF Redated
<1> HIDE DEF f
<1>3. g \in Schemas /\ g.at = "fresh" /\ g.putBy = r /\ g.proto = f.proto /\ g.by = f.by
  BY <1>1 DEF Schemas
<1> HIDE DEF g
<1>4. file' \in [Keys -> Schemas \cup {NoFile, Torn}] /\ file'[k] = g
      /\ \A j \in Keys : j # k => file'[j] = file[j]
  BY <1>1, <1>2, <1>3
<1>5. OwnFile(k, g)
  BY <1>1, <1>3 DEF OwnFile
<1>6. FilesAreOwn'
  BY <1>4, <1>5 DEF InvInv, FilesAreOwn
<1> QED
  BY <1>3, <1>4, <1>6

LEMMA UndetectedStep ==
    ASSUME InvInv, NEW r \in Invokes, Undetected(r)
    PROVE  CacheInv' /\ MapsInv'
<1> DEFINE q == inv[r]
           a == q.shape.auth
           hits == LookupKeys(a, "allow_stale")
<1>1. q.at = "undetected" /\ UNCHANGED endpoint
  BY DEF Undetected
<1>2. /\ q \in InvRecords /\ q.shape \in Shapes /\ UseIsOwn(q) /\ RanOnce(q, endpoint.protos)
      /\ HelpInv(r, q, file[a], file["url"]) /\ a \in Keys /\ a # "url"
  BY <1>1, AtWork
<1>3. CASE Reads(q.shape) /\ hits # <<>>
  <2> DEFINE rec == WithAdapter(q, file[hits[1]].proto)
  <2>1. /\ hits[1] = a \/ (hits[1] = "url" /\ ~Kept(file[a]))
        /\ hits[1] \in Keys /\ Kept(file[hits[1]])
    BY <1>2, <1>3, Hits, GetIs, ShapeFacts
  <2>2. file[hits[1]].proto \in Found /\ (hits[1] = "url" <=> file[hits[1]].proto # "mcp")
    BY <2>1, KeptIsSchema
  <2>3. StepAlone(r, rec) /\ file' = Redated(hits[1], r) /\ UNCHANGED <<mapEnv, mapLock>>
    BY <1>3 DEF Undetected
  <2>4. /\ rec \in InvRecords /\ rec.at = "fetch" /\ Rest(rec, q) /\ rec.again = q.again
        /\ rec.proto = file[hits[1]].proto /\ rec.used = NoUse
    BY <1>2, <2>2, Adapted
  <2>5. /\ file' \in [Keys -> Schemas \cup {NoFile, Torn}] /\ FilesAreOwn'
        /\ file'[hits[1]].at = "fresh" /\ file'[hits[1]].putBy = r
    BY <2>1, <2>3, Dated
  <2> HIDE DEF rec, hits, q
  <2>6. UseIsOwn(rec) /\ RanOnce(rec, endpoint.protos)
    BY <1>1, <1>2, <2>4 DEF UseIsOwn, RanOnce, Rest
  <2>7. HelpInv(r, rec, file'[a], file'["url"])
    BY <1>1, <1>2, <2>1, <2>2, <2>4, <2>5 DEF HelpInv, Rest
  <2> QED
    BY <1>1, <2>3, <2>4, <2>5, <2>6, <2>7, MidStepsAlone DEF Rest, q
<1>4. CASE ~(Reads(q.shape) /\ hits # <<>>)
  <2> DEFINE rec == [q EXCEPT !.result = "error"]
  <2>1. Ends(r, rec) /\ UNCHANGED file
    BY <1>4 DEF Undetected
  <2>2. Reads(q.shape) => ~Kept(file[a]) /\ ~Kept(file["url"])
    BY <1>4, Hits, GetIs
  <2> HIDE DEF hits
  <2>3. /\ rec \in InvRecords /\ rec.at = q.at /\ rec.shape = q.shape /\ rec.used = q.used /\ rec.ran = q.ran
        /\ rec.had = q.had /\ rec.proto = q.proto
    BY <1>2 DEF InvRecords
  <2> HIDE DEF rec, q
  <2>4. UseIsOwn(rec) /\ (endpoint.protos = {"mcp"} => rec.ran <= 1)
    BY <1>1, <1>2, <2>3 DEF UseIsOwn, RanOnce
  <2>5. q.shape.action = "help" /\ Reads(q.shape) => ~q.had
    BY <1>1, <1>2, <2>2 DEF HelpInv, Missed, Kept
  <2> QED
    BY <1>1, <1>2, <2>1, <2>3, <2>4, <2>5, EndSteps DEF q
<1> QED
  BY <1>3, <1>4

LEMMA FetchNothingStep ==
    ASSUME InvInv, NEW r \in Invokes, FetchNothing(r)
    PROVE  CacheInv' /\ MapsInv'
<1> DEFINE q == inv[r]
           a == q.shape.auth
           rec == [q EXCEPT !.at = "call"]
<1>1. /\ q.at = "fetch" /\ q.shape.action # "help" /\ UNCHANGED <<endpoint, file, mapEnv, mapLock>>
      /\ InvStep(r, rec) /\ "call" \in ReqPlaces
  BY DEF FetchNothing, NeedsSchema, ReqPlaces
<1>2. /\ q \in InvRecords /\ q.shape \in Shapes /\ UseIsOwn(q) /\ RanOnce(q, endpoint.protos)
      /\ HelpInv(r, q, file[a], file["url"])
  BY <1>1, AtWork
<1>3. /\ rec \in InvRecords /\ rec.at = "call" /\ Rest(rec, q) /\ rec.proto = q.proto /\ rec.used = q.used
  BY <1>1, <1>2, Moved
<1> HIDE DEF rec, q
<1>4. UseIsOwn(rec) /\ RanOnce(rec, endpoint.protos)
  BY <1>1, <1>2, <1>3 DEF UseIsOwn, RanOnce, Rest
<1>5. HelpInv(r, rec, file[a], file["url"])
  BY <1>1, <1>2, <1>3 DEF HelpInv, Rest
<1> QED
  BY <1>1, <1>3, <1>4, <1>5, MidSteps DEF Rest, q

\* A schema is there: help can be answered, a call made.
LEMMA SchemaGot ==
    ASSUME InvInv, NEW r \in Invokes, inv[r].at = "fetch", NEW use \in Uses,
           InvStep(r, [inv[r] EXCEPT !.at = AfterSchema(inv[r]), !.used = use]),
           inv[r].proto = "mcp" => use.by = inv[r].shape.auth,
           Reads(inv[r].shape) \/ use.live,
           UNCHANGED <<endpoint, file, mapEnv, mapLock>>
    PROVE  CacheInv' /\ MapsInv'
<1> DEFINE q == inv[r]
           a == q.shape.auth
           c == AfterSchema(q)
           rec == [q EXCEPT !.at = c, !.used = use]
<1>1. /\ q \in InvRecords /\ q.shape \in Shapes /\ UseIsOwn(q) /\ RanOnce(q, endpoint.protos)
      /\ HelpInv(r, q, file[a], file["url"])
  BY AtWork
<1>2. c \in ReqPlaces /\ c \in {"answer", "call"} /\ (q.shape.action = "help" => c = "answer")
  BY DEF AfterSchema, ReqPlaces
<1>3. InvStep(r, rec)
  OBVIOUS
<1>4. q.at = "fetch" /\ (q.proto = "mcp" => use.by = a) /\ (Reads(q.shape) \/ use.live)
  OBVIOUS
<1> HIDE DEF c, q
<1>5. rec \in InvRecords /\ rec.at = c /\ Rest(rec, q) /\ rec.proto = q.proto /\ rec.used = use
  BY <1>1, <1>2 DEF InvRecords, Rest
<1> HIDE DEF rec
<1>6. UseIsOwn(rec) /\ RanOnce(rec, endpoint.protos)
  BY <1>1, <1>2, <1>4, <1>5 DEF UseIsOwn, RanOnce, Rest
<1>7. HelpInv(r, rec, file[a], file["url"])
  BY <1>1, <1>2, <1>4, <1>5 DEF HelpInv, Rest
<1>8. rec.at \notin {"new", "done"}
  BY <1>2, <1>5
<1> QED
  BY <1>3, <1>5, <1>6, <1>7, <1>8, MidSteps DEF Rest, q

LEMMA FetchFoundStep ==
    ASSUME InvInv, NEW r \in Invokes, FetchFound(r)
    PROVE  CacheInv' /\ MapsInv'
<1> DEFINE use == [ver |-> inv[r].found, live |-> TRUE, by |-> inv[r].shape.auth]
<1>1. inv[r].at = "fetch"
  BY DEF FetchFound
<1>2. inv[r].found \in Nat /\ inv[r].shape.auth \in Showers
  BY <1>1, AtWork DEF InvRecords
<1>3. use \in Uses /\ use.by = inv[r].shape.auth /\ use.live
  BY <1>2 DEF Uses
<1>4. /\ InvStep(r, [inv[r] EXCEPT !.at = AfterSchema(inv[r]), !.used = use])
      /\ UNCHANGED <<endpoint, file, mapEnv, mapLock>>
  BY DEF FetchFound
<1> HIDE DEF use
<1> QED
  BY <1>1, <1>3, <1>4, SchemaGot

LEMMA FetchCachedStep ==
    ASSUME InvInv, NEW r \in Invokes, FetchCached(r)
    PROVE  CacheInv' /\ MapsInv'
<1> DEFINE k == KeyFor(inv[r].proto, inv[r].shape.auth)
           use == [ver |-> file[k].ver, live |-> FALSE, by |-> file[k].by]
<1>1. inv[r].at = "fetch" /\ file[k].at = "fresh" /\ Reads(inv[r].shape)
  BY GetIs DEF FetchCached, CacheHits, MayRead, Reads
<1>2. k \in Keys /\ (inv[r].proto = "mcp" => k = inv[r].shape.auth /\ k # "url")
  BY <1>1, AtWork, ShapeFacts DEF KeyFor
<1>3. file[k].ver \in Nat /\ file[k].by \in Showers /\ (inv[r].proto = "mcp" => file[k].by = inv[r].shape.auth)
  BY <1>1, <1>2, KeptIsSchema DEF Kept
<1>4. /\ InvStep(r, [inv[r] EXCEPT !.at = AfterSchema(inv[r]), !.used = use])
      /\ UNCHANGED <<endpoint, file, mapEnv, mapLock>>
  BY DEF FetchCached
<1> HIDE DEF k
<1>5. use \in Uses /\ (inv[r].proto = "mcp" => use.by = inv[r].shape.auth)
  BY <1>3 DEF Uses
<1> HIDE DEF use
<1> QED
  BY <1>1, <1>4, <1>5, SchemaGot

LEMMA FetchLiveStep ==
    ASSUME InvInv, NEW r \in Invokes, FetchLive(r)
    PROVE  CacheInv' /\ MapsInv'
<1> DEFINE q == inv[r]
           a == q.shape.auth
           k == KeyFor(q.proto, a)
<1>1. /\ q.at = "fetch" /\ UNCHANGED <<endpoint, file, mapEnv, mapLock>>
      /\ Reads(q.shape) => file[k].at # "fresh"
  BY GetIs DEF FetchLive, CacheHits, MayRead, Reads
<1>2. /\ q \in InvRecords /\ q.shape \in Shapes /\ UseIsOwn(q) /\ RanOnce(q, endpoint.protos)
      /\ HelpInv(r, q, file[a], file["url"]) /\ a \in Showers
  BY <1>1, AtWork
<1>3. k \in Keys /\ k = (IF q.proto = "mcp" THEN a ELSE "url")
  BY <1>1, AtWork, ShapeFacts DEF KeyFor
<1>4. CASE endpoint.up /\ q.proto \in endpoint.protos
  <2> DEFINE c == IF q.shape.noCache THEN AfterSchema(q) ELSE "put"
             use == [ver |-> endpoint.ver, live |-> TRUE, by |-> a]
             rec == [q EXCEPT !.at = c, !.key = k, !.used = use]
  <2>1. InvStep(r, rec)
    BY <1>4 DEF FetchLive
  <2>2. c \in ReqPlaces /\ c \in {"answer", "call", "put"} /\ (q.shape.action = "help" => c # "call")
    BY DEF AfterSchema, ReqPlaces
  <2>3. use \in Uses /\ use.by = a /\ use.live
    BY <1>2 DEF Uses, InvInv, InvTypes, Endpoints
  <2> HIDE DEF c, use
  <2>4. rec \in InvRecords /\ rec.at = c /\ Rest(rec, q) /\ rec.proto = q.proto /\ rec.used = use /\ rec.key = k
    <3> HIDE DEF k
    <3> QED
      BY <1>2, <1>3, <2>2, <2>3 DEF InvRecords, Rest
  <2> HIDE DEF rec
  <2>5. rec.key = KeyFor(rec.proto, rec.shape.auth)
    BY <2>4 DEF Rest
  <2> HIDE DEF k, q
  <2>6. UseIsOwn(rec) /\ RanOnce(rec, endpoint.protos)
    BY <1>1, <1>2, <2>2, <2>3, <2>4, <2>5 DEF UseIsOwn, RanOnce, Rest
  <2>7. HelpInv(r, rec, file[a], file["url"])
    BY <1>1, <1>2, <2>2, <2>4 DEF HelpInv, Rest
  <2>8. rec.at \notin {"new", "done"}
    BY <2>2, <2>4
  <2> QED
    BY <1>1, <2>1, <2>4, <2>6, <2>7, <2>8, MidSteps DEF Rest, q
<1>5. CASE ~(endpoint.up /\ q.proto \in endpoint.protos)
  <2> DEFINE c == IF q.proto = "mcp" /\ q.shape.action = "execute" THEN "call" ELSE "failed"
             rec == [q EXCEPT !.at = c]
  <2>1. InvStep(r, rec)
    BY <1>5 DEF FetchLive
  <2>2. c \in ReqPlaces /\ c \in {"call", "failed"} /\ (q.shape.action = "help" => c = "failed")
    BY DEF ReqPlaces
  <2> HIDE DEF c
  <2>3. rec \in InvRecords /\ rec.at = c /\ Rest(rec, q) /\ rec.proto = q.proto /\ rec.used = q.used
        /\ rec.again = q.again
    BY <1>2, <2>2, Moved
  <2> HIDE DEF rec, k, q
  <2>4. UseIsOwn(rec) /\ RanOnce(rec, endpoint.protos)
    BY <1>1, <1>2, <2>2, <2>3 DEF UseIsOwn, RanOnce, Rest
  <2>5. HelpInv(r, rec, file[a], file["url"])
    <3>1. q.had /\ q.shape.action = "help" /\ Reads(q.shape) => ~q.again /\ FirstStale(file[a], file["url"])
      BY <1>1, <1>2, <1>3 DEF HelpInv, FirstStale, Missed, Kept
    <3> QED
      BY <1>1, <1>2, <2>2, <2>3, <3>1 DEF HelpInv, Rest
  <2>6. rec.at \notin {"new", "done"}
    BY <2>2, <2>3
  <2> QED
    BY <1>1, <2>1, <2>3, <2>4, <2>5, <2>6, MidSteps DEF Rest, q
<1> QED
  BY <1>4, <1>5

LEMMA PutOpensStep ==
    ASSUME InvInv, NEW r \in Invokes, PutOpens(r)
    PROVE  CacheInv' /\ MapsInv'
<1> DEFINE q == inv[r]
           rec == [q EXCEPT !.at = "write", !.had = FALSE]
<1>1. /\ q.at = "put" /\ UNCHANGED <<endpoint, mapEnv, mapLock>> /\ StepAlone(r, rec)
      /\ file' = [file EXCEPT ![q.key] = Torn]
  BY DEF PutOpens, Torn
<1>2. /\ q \in InvRecords /\ q.shape \in Shapes /\ UseIsOwn(q) /\ RanOnce(q, endpoint.protos)
      /\ HelpInv(r, q, file[q.shape.auth], file["url"])
  BY <1>1, AtWork
<1>3. file' \in [Keys -> Schemas \cup {NoFile, Torn}] /\ FilesAreOwn'
  <2>1. q.key \in Keys
    BY <1>2 DEF InvRecords
  <2>2. file \in [Keys -> Schemas \cup {NoFile, Torn}] /\ \A k \in Keys : OwnFile(k, file[k])
    BY DEF InvInv, InvTypes, FilesAreOwn
  <2>3. \A k : OwnFile(k, Torn)
    BY DEF OwnFile, Torn, Schemas
  <2> HIDE DEF q
  <2> QED
    BY <1>1, <2>1, <2>2, <2>3 DEF FilesAreOwn
<1>4. /\ rec \in InvRecords /\ rec.at = "write" /\ ~rec.had /\ rec.shape = q.shape /\ rec.env = q.env
      /\ rec.ran = q.ran /\ rec.result = q.result /\ rec.proto = q.proto /\ rec.used = q.used /\ rec.key = q.key
  <2>1. "write" \in ReqPlaces
    BY DEF ReqPlaces
  <2> QED
    BY <1>2, <2>1 DEF InvRecords
<1> HIDE DEF rec, q
<1>5. UseIsOwn(rec) /\ RanOnce(rec, endpoint.protos)
  BY <1>1, <1>2, <1>4 DEF UseIsOwn, RanOnce
<1>6. HelpInv(r, rec, file'[rec.shape.auth], file'["url"])
  BY <1>1, <1>2, <1>4 DEF HelpInv
<1> QED
  BY <1>1, <1>3, <1>4, <1>5, <1>6, MidStepsAlone DEF q

LEMMA PutWritesStep ==
    ASSUME InvInv, NEW r \in Invokes, PutWrites(r)
    PROVE  CacheInv' /\ MapsInv'
<1> DEFINE q == inv[r]
           a == q.shape.auth
           c == AfterSchema(q)
           rec == [q EXCEPT !.at = c]
           f == Written(q.proto, q.used, r)
<1>1. /\ q.at = "write" /\ UNCHANGED <<endpoint, mapEnv, mapLock>> /\ StepAlone(r, rec)
      /\ file' = [file EXCEPT ![q.key] = f]
  BY DEF PutWrites
<1>2. /\ q \in InvRecords /\ q.shape \in Shapes /\ UseIsOwn(q) /\ RanOnce(q, endpoint.protos)
      /\ HelpInv(r, q, file[a], file["url"]) /\ a # "url"
  BY <1>1, AtWork
<1>3. file' \in [Keys -> Schemas \cup {NoFile, Torn}] /\ FilesAreOwn'
  <2>1. q.key \in Keys /\ q.proto \in Found /\ q.used.ver \in Nat /\ q.used.by \in Showers
    BY <1>2 DEF InvRecords, Uses
  <2>2. file \in [Keys -> Schemas \cup {NoFile, Torn}] /\ \A k \in Keys : OwnFile(k, file[k])
    BY DEF InvInv, InvTypes, FilesAreOwn
  <2>3. q.key = (IF q.proto = "mcp" THEN a ELSE "url") /\ q.used.by = a
    BY <1>1, <1>2 DEF UseIsOwn, KeyFor
  <2>4. f \in Schemas /\ f.proto = q.proto /\ f.by = a
    BY <2>1, <2>3 DEF Schemas, Written
  <2> HIDE DEF f
  <2>5. OwnFile(q.key, f)
    BY <1>2, <2>3, <2>4 DEF OwnFile
  <2> HIDE DEF q
  <2> QED
    BY <1>1, <2>1, <2>2, <2>4, <2>5 DEF FilesAreOwn
<1>4. c \in ReqPlaces /\ c \in {"answer", "call"} /\ (q.shape.action = "help" => c = "answer")
  BY DEF AfterSchema, ReqPlaces
<1> HIDE DEF c
<1>5. rec \in InvRecords /\ rec.at = c /\ Rest(rec, q) /\ rec.proto = q.proto /\ rec.used = q.used
  BY <1>2, <1>4, Moved
<1> HIDE DEF rec, q
<1>6. UseIsOwn(rec) /\ RanOnce(rec, endpoint.protos)
  BY <1>1, <1>2, <1>4, <1>5 DEF UseIsOwn, RanOnce, Rest
<1>7. HelpInv(r, rec, file'[rec.shape.auth], file'["url"])
  BY <1>1, <1>2, <1>4, <1>5 DEF HelpInv, Rest
<1>8. rec.at \notin {"new", "done"}
  BY <1>4, <1>5
<1> QED
  BY <1>1, <1>3, <1>5, <1>6, <1>7, <1>8, MidStepsAlone DEF Rest, q

\* The end of a request, with its answer or its error.
LEMMA ResultStep ==
    ASSUME InvInv, NEW r \in Invokes, inv[r].at \notin {"new", "done", "put", "write"},
           NEW result \in {"ok", "error"}, NEW ran \in Nat,
           endpoint.protos = {"mcp"} => ran <= 1,
           inv[r].shape.action = "help" /\ Reads(inv[r].shape) /\ result = "error" => ~inv[r].had,
           Ends(r, [inv[r] EXCEPT !.ran = ran, !.result = result]),
           UNCHANGED <<endpoint, file>>
    PROVE  CacheInv' /\ MapsInv'
<1> DEFINE q == inv[r]
           rec == [q EXCEPT !.ran = ran, !.result = result]
<1>1. q \in InvRecords /\ q.shape \in Shapes /\ UseIsOwn(q)
  BY AtWork
<1>2. Ends(r, rec) /\ q.at \notin {"new", "done", "put", "write"}
      /\ (q.shape.action = "help" /\ Reads(q.shape) /\ result = "error" => ~q.had)
  OBVIOUS
<1> HIDE DEF q
<1>3. /\ rec \in InvRecords /\ rec.at = q.at /\ rec.shape = q.shape /\ rec.used = q.used /\ rec.ran = ran
      /\ rec.had = q.had /\ rec.proto = q.proto /\ rec.result = result
  BY <1>1 DEF InvRecords
<1> HIDE DEF rec
<1>4. UseIsOwn(rec)
  BY <1>1, <1>2, <1>3 DEF UseIsOwn
<1> QED
  BY <1>1, <1>2, <1>3, <1>4, EndSteps DEF q

LEMMA AnswerStep ==
    ASSUME InvInv, NEW r \in Invokes, Answer(r)
    PROVE  CacheInv' /\ MapsInv'
<1> DEFINE q == inv[r]
<1>1. q.at = "answer" /\ UNCHANGED <<endpoint, file>> /\ Ends(r, [q EXCEPT !.result = "ok"])
  BY DEF Answer
<1>2. q \in InvRecords /\ q.ran \in Nat /\ (endpoint.protos = {"mcp"} => q.ran <= 1)
  BY <1>1, AtWork DEF InvRecords, RanOnce
<1>3. [q EXCEPT !.result = "ok"] = [q EXCEPT !.ran = q.ran, !.result = "ok"]
  BY <1>2 DEF InvRecords
<1> QED
  BY <1>1, <1>2, <1>3, ResultStep

LEMMA CallStep ==
    ASSUME InvInv, NEW r \in Invokes, CallOperation(r)
    PROVE  CacheInv' /\ MapsInv' /\ outages' \in Nat
<1> DEFINE q == inv[r]
           a == q.shape.auth
           arrives == endpoint.up /\ q.proto \in endpoint.protos
           n == IF arrives THEN q.ran + 1 ELSE q.ran
           rec == [q EXCEPT !.ran = n]
<1>1. q.at = "call" /\ UNCHANGED <<endpoint, file>>
  BY DEF CallOperation
<1>2. outages' \in Nat
  BY DEF CallOperation, InvInv, InvTypes
<1>3. /\ q \in InvRecords /\ q.shape \in Shapes /\ UseIsOwn(q) /\ RanOnce(q, endpoint.protos)
      /\ HelpInv(r, q, file[a], file["url"])
  BY <1>1, AtWork
<1>4. n \in Nat /\ (endpoint.protos = {"mcp"} => n <= 1 /\ (n = 0 \/ q.proto = "mcp"))
  BY <1>1, <1>3 DEF RanOnce, InvRecords
<1>5. q.shape.action = "help" /\ Reads(q.shape) => ~q.had
  BY <1>1, <1>3 DEF HelpInv
<1>6. CASE \E result \in {"ok", "error"} : Ends(r, [rec EXCEPT !.result = result])
  <2>1. PICK result \in {"ok", "error"} : Ends(r, [rec EXCEPT !.result = result])
    BY <1>6
  <2> HIDE DEF n
  <2>2. [rec EXCEPT !.result = result] = [q EXCEPT !.ran = n, !.result = result]
    OBVIOUS
  <2> QED
    BY <1>1, <1>2, <1>4, <1>5, <2>1, <2>2, ResultStep
<1>7. CASE /\ q.proto # "mcp" /\ InvStep(r, [rec EXCEPT !.at = "failed"])
           /\ UNCHANGED <<mapEnv, mapLock>>
  <2> DEFINE d == [rec EXCEPT !.at = "failed"]
  <2> HIDE DEF n
  <2>1. "failed" \in ReqPlaces
    BY DEF ReqPlaces
  <2>2. d \in InvRecords /\ d.at = "failed" /\ d.ran = n /\ d.shape = q.shape /\ d.env = q.env
        /\ d.used = q.used /\ d.proto = q.proto /\ d.result = q.result /\ d.had = q.had
    BY <1>3, <1>4, <2>1 DEF InvRecords
  <2>3. InvStep(r, d)
    BY <1>7
  <2> HIDE DEF d, rec, q
  <2>4. UseIsOwn(d) /\ RanOnce(d, endpoint.protos)
    BY <1>1, <1>3, <1>4, <1>7, <2>2 DEF UseIsOwn, RanOnce
  <2>5. HelpInv(r, d, file[a], file["url"])
    BY <1>1, <1>3, <1>5, <2>2 DEF HelpInv
  <2> QED
    BY <1>1, <1>2, <1>7, <2>2, <2>3, <2>4, <2>5, MidSteps DEF q
<1> QED
  BY <1>6, <1>7 DEF CallOperation, CallFails

LEMMA FailedStep ==
    ASSUME InvInv, NEW r \in Invokes, Failed(r)
    PROVE  CacheInv' /\ MapsInv'
<1> DEFINE q == inv[r]
           a == q.shape.auth
           hits == LookupKeys(a, "allow_stale")
           useful == Reads(q.shape) /\ ~q.again /\ hits # <<>> /\ file[hits[1]].at = "stale"
<1>1. q.at = "failed" /\ UNCHANGED endpoint
  BY DEF Failed
<1>2. /\ q \in InvRecords /\ q.shape \in Shapes /\ UseIsOwn(q) /\ RanOnce(q, endpoint.protos)
      /\ HelpInv(r, q, file[a], file["url"]) /\ a \in Keys /\ a # "url"
  BY <1>1, AtWork
<1>3. CASE useful
  <2> DEFINE w == WithAdapter(q, file[hits[1]].proto)
             rec == [w EXCEPT !.again = TRUE]
  <2>1. (hits[1] = a \/ hits[1] = "url") /\ hits[1] \in Keys /\ Kept(file[hits[1]])
    BY <1>2, <1>3, Hits, GetIs, ShapeFacts
  <2>2. file[hits[1]].proto \in Found /\ (hits[1] = "url" <=> file[hits[1]].proto # "mcp")
    BY <2>1, KeptIsSchema
  <2>3. StepAlone(r, rec) /\ file' = Redated(hits[1], r) /\ UNCHANGED <<mapEnv, mapLock>>
    BY <1>3 DEF Failed
  <2>4. /\ w \in InvRecords /\ w.at = "fetch" /\ Rest(w, q)
        /\ w.proto = file[hits[1]].proto /\ w.used = NoUse
    BY <1>2, <2>2, Adapted
  <2>5. /\ file' \in [Keys -> Schemas \cup {NoFile, Torn}] /\ FilesAreOwn'
        /\ file'[hits[1]].at = "fresh" /\ file'[hits[1]].putBy = r
    BY <2>1, <2>3, Dated
  <2> HIDE DEF w, hits, q
  <2>6. /\ rec \in InvRecords /\ rec.at = "fetch" /\ Rest(rec, w) /\ rec.proto = w.proto /\ rec.used = w.used
    BY <2>4 DEF InvRecords, Rest
  <2>7. /\ rec \in InvRecords /\ rec.at = "fetch" /\ Rest(rec, q)
        /\ rec.proto = file[hits[1]].proto /\ rec.used = NoUse
    BY <2>4, <2>6 DEF Rest
  <2> HIDE DEF rec
  <2>8. UseIsOwn(rec) /\ RanOnce(rec, endpoint.protos)
    BY <1>1, <1>2, <2>7 DEF UseIsOwn, RanOnce, Rest
  <2>9. HelpInv(r, rec, file'[a], file'["url"])
    BY <1>1, <1>2, <2>1, <2>2, <2>5, <2>7 DEF HelpInv, Rest
  <2> QED
    BY <1>1, <2>3, <2>5, <2>7, <2>8, <2>9, MidStepsAlone DEF Rest, q
<1>4. CASE ~useful
  <2>1. Ends(r, [q EXCEPT !.result = "error"]) /\ UNCHANGED file
    BY <1>4 DEF Failed
  <2>2. q.shape.action = "help" /\ Reads(q.shape) => ~q.had
    <3>1. Reads(q.shape) /\ ~q.again => ~FirstStale(file[a], file["url"])
      BY <1>2, <1>4, Hits, GetIs DEF FirstStale, Kept
    <3> HIDE DEF q, hits
    <3> QED
      BY <1>1, <1>2, <3>1 DEF HelpInv
  <2>3. q.ran \in Nat /\ (endpoint.protos = {"mcp"} => q.ran <= 1)
    BY <1>1, <1>2 DEF InvRecords, RanOnce
  <2>4. [q EXCEPT !.result = "error"] = [q EXCEPT !.ran = q.ran, !.result = "error"]
    BY <1>2 DEF InvRecords
  <2> QED
    BY <1>1, <2>1, <2>2, <2>3, <2>4, ResultStep
<1> QED
  BY <1>3, <1>4

LEMMA ExistingSessionStep ==
    ASSUME InvInv, NEW r \in Invokes, ExistingSession(r)
    PROVE  CacheInv' /\ MapsInv'
<1> DEFINE q == inv[r]
           n == IF endpoint.up THEN 1 ELSE 0
<1>1. q.at = "lookup" /\ q.shape.action = "execute" /\ UNCHANGED <<endpoint, file>>
  BY DEF ExistingSession
<1>2. PICK ok \in {endpoint.up, FALSE} :
        Ends(r, [q EXCEPT !.proto = "mcp", !.ran = n, !.result = IF ok THEN "ok" ELSE "error"])
  BY DEF ExistingSession
<1> DEFINE result == IF ok THEN "ok" ELSE "error"
           rec == [q EXCEPT !.proto = "mcp", !.ran = n, !.result = result]
<1>3. q \in InvRecords /\ q.shape \in Shapes /\ UseIsOwn(q)
  BY <1>1, AtWork
<1>4. Ends(r, rec) /\ n \in Nat /\ n <= 1 /\ result \in {"ok", "error"} /\ "mcp" \in Found
  BY <1>2 DEF Found, Protocols, Order
<1> HIDE DEF n, result, q
<1>5. /\ rec \in InvRecords /\ rec.at = q.at /\ rec.shape = q.shape /\ rec.used = q.used /\ rec.ran = n
  BY <1>3, <1>4 DEF InvRecords
<1> HIDE DEF rec
<1>6. UseIsOwn(rec)
  BY <1>1, <1>3, <1>5 DEF UseIsOwn
<1> QED
  BY <1>1, <1>3, <1>4, <1>5, <1>6, EndSteps DEF q

LEMMA BeginStep ==
    ASSUME InvInv, NEW r \in Invokes, Begin(r)
    PROVE  CacheInv' /\ MapsInv'
<1> DEFINE q == inv[r]
<1>1. q.at = "new" /\ UNCHANGED <<endpoint, file>>
  BY DEF Begin
<1>2. PICK s \in Shapes :
        /\ InvStep(r, [q EXCEPT !.at = "lookup", !.shape = s, !.env = mapEnv,
                                !.had = LookupKeys(s.auth, "allow_stale") # <<>>])
        /\ \/ s.mapping = "none" /\ UNCHANGED <<mapEnv, mapLock>>
           \/ s.mapping # "none" /\ mapLock = {} /\ mapLock' = {r} /\ mapEnv' = s.mapping
  BY DEF Begin
<1> DEFINE hits == LookupKeys(s.auth, "allow_stale")
           had == hits # <<>>
           rec == [q EXCEPT !.at = "lookup", !.shape = s, !.env = mapEnv, !.had = had]
<1>3. InvStep(r, rec)
  BY <1>2
<1>4. q \in InvRecords /\ UseIsOwn(q) /\ RanOnce(q, endpoint.protos) /\ mapEnv \in Envs
  BY DEF InvInv, InvTypes
<1>5. had \in BOOLEAN /\ (had => Kept(file[s.auth]) \/ Kept(file["url"]))
  BY Hits, GetIs
<1>6. s.mapping \in Envs
  BY ShapeFacts
<1> HIDE DEF had, hits, q
<1>7. /\ rec \in InvRecords /\ rec.at = "lookup" /\ rec.shape = s /\ rec.env = mapEnv /\ rec.had = had
      /\ rec.proto = q.proto /\ rec.used = q.used /\ rec.ran = q.ran /\ rec.again = q.again /\ rec.result = q.result
  <2>1. "lookup" \in ReqPlaces
    BY DEF ReqPlaces
  <2> QED
    BY <1>4, <1>5, <2>1 DEF InvRecords
<1> HIDE DEF rec
<1>8. UseIsOwn(rec) /\ RanOnce(rec, endpoint.protos)
  BY <1>1, <1>4, <1>7 DEF UseIsOwn, RanOnce
<1>9. HelpInv(r, rec, file[rec.shape.auth], file["url"])
  <2>1. ~q.again /\ q.result = "none"
    BY <1>1, <1>4 DEF UseIsOwn
  <2> QED
    BY <1>5, <1>7, <2>1 DEF HelpInv
<1>10. /\ inv' \in [Invokes -> InvRecords] /\ inv'[r] = rec
       /\ \A x \in Invokes : x # r => inv'[x] = inv[x]
       /\ \A x \in Invokes : UseIsOwn(inv'[x]) /\ RanOnce(inv'[x], endpoint'.protos)
       /\ FilesAreOwn' /\ HelpsInv'
  BY <1>1, <1>3, <1>7, <1>8, <1>9, OwnSteps
<1>11. MapsInv'
  <2>1. CASE s.mapping = "none"
    <3>1. UNCHANGED <<mapEnv, mapLock>> /\ ~Mapped(inv'[r]) /\ ~Mapped(inv[r])
      BY <1>1, <1>2, <1>7, <1>10, <2>1 DEF Mapped, q
    <3> QED
      BY <1>10, <3>1 DEF MapsInv, MapInv, InvInv, InvTypes
  <2>2. CASE s.mapping # "none"
    <3>1. mapLock = {} /\ mapLock' = {r} /\ mapEnv' = s.mapping /\ mapEnv = "none"
      BY <1>2, <2>2 DEF InvInv, MapInv
    <3>2. \A x \in Invokes : x # r => ~Mapped(inv'[x])
      BY <1>10, <3>1 DEF InvInv, MapInv
    <3>3. Mapped(inv'[r]) /\ inv'[r].env = "none" /\ inv'[r].shape.mapping = s.mapping
      BY <1>7, <1>10, <2>2, <3>1 DEF Mapped
    <3> QED
      BY <1>6, <3>1, <3>2, <3>3 DEF MapsInv, MapInv
  <2> QED
    BY <2>1, <2>2
<1> QED
  BY <1>1, <1>10, <1>11 DEF CacheInv, InvInv, InvTypes

-----------------------------------------------------------------------------
(* The world around the requests. *)

LEMMA HelpAges ==
    ASSUME NEW r, NEW q, NEW a, NEW u, NEW a2, NEW u2, HelpInv(r, q, a, u),
           a2 = a \/ (a.at = "fresh" /\ a2.at = "stale" /\ (q.at = "fetch" => a.putBy # r)),
           u2 = u \/ (u.at = "fresh" /\ u2.at = "stale" /\ (q.at = "fetch" => u.putBy # r))
    PROVE  HelpInv(r, q, a2, u2)
BY DEF HelpInv, Kept, Missed, FirstStale

LEMMA ExpiresStep ==
    ASSUME InvInv, NEW k \in Keys, Expires(k)
    PROVE  CacheInv' /\ MapsInv'
<1> DEFINE f == file[k]
           g == [f EXCEPT !.at = "stale"]
<1>1. f.at = "fresh" /\ Finished(f.putBy) /\ file' = [file EXCEPT ![k] = g]
      /\ UNCHANGED <<endpoint, inv, mapEnv, mapLock>>
  BY DEF Expires
<1>2. f \in Schemas /\ OwnFile(k, f) /\ file \in [Keys -> Schemas \cup {NoFile, Torn}]
  BY <1>1, KeptIsSchema DEF InvInv, InvTypes, FilesAreOwn, Kept
<1> HIDE DEF f
<1>3. g \in Schemas /\ g.at = "stale" /\ g.proto = f.proto /\ g.by = f.by
  BY <1>2 DEF Schemas
<1> HIDE DEF g
<1>4. file' \in [Keys -> Schemas \cup {NoFile, Torn}] /\ file'[k] = g
      /\ \A j \in Keys : j # k => file'[j] = file[j]
  BY <1>1, <1>2, <1>3
<1>5. FilesAreOwn'
  <2>1. OwnFile(k, g)
    BY <1>2, <1>3 DEF OwnFile
  <2> QED
    BY <1>4, <2>1 DEF InvInv, FilesAreOwn
<1>6. HelpsInv'
  <2> SUFFICES ASSUME NEW r \in Invokes, inv[r].at # "new"
               PROVE  HelpInv(r, inv[r], file'[inv[r].shape.auth], file'["url"])
    BY <1>1 DEF HelpsInv
  <2> DEFINE q == inv[r]
             a == q.shape.auth
  <2>1. HelpInv(r, q, file[a], file["url"]) /\ a \in Keys /\ a # "url" /\ "url" \in Keys
    BY AtWork, ShapeFacts
  <2>2. q.at = "fetch" => f.putBy # r
    BY <1>1, InvokesAssumption DEF Finished
  <2>3. ASSUME NEW j \in Keys
        PROVE  \/ file'[j] = file[j]
               \/ file[j].at = "fresh" /\ file'[j].at = "stale" /\ (q.at = "fetch" => file[j].putBy # r)
    BY <1>1, <1>3, <1>4, <2>2 DEF f
  <2> HIDE DEF q
  <2>4. HelpInv(r, q, file'[a], file'["url"])
    BY <2>1, <2>3, HelpAges
  <2> QED
    BY <2>4 DEF q
<1>7. MapsInv'
  BY <1>1 DEF MapsInv, MapInv, InvInv, InvTypes
<1> QED
  BY <1>1, <1>4, <1>5, <1>6, <1>7 DEF CacheInv, InvInv, InvTypes

LEMMA RemovedStep ==
    ASSUME InvInv, NEW k \in Keys, Removed(k)
    PROVE  CacheInv' /\ MapsInv'
<1>1. /\ file' = [file EXCEPT ![k] = NoFile] /\ UNCHANGED <<endpoint, mapEnv, mapLock>>
      /\ inv' = [r \in Invokes |-> Robbed(inv[r])]
  BY DEF Removed, Robbed
<1>2. file' \in [Keys -> Schemas \cup {NoFile, Torn}] /\ FilesAreOwn'
  <2>1. file \in [Keys -> Schemas \cup {NoFile, Torn}] /\ \A j \in Keys : OwnFile(j, file[j])
    BY DEF InvInv, InvTypes, FilesAreOwn
  <2>2. \A j : OwnFile(j, NoFile)
    BY DEF OwnFile, NoFile, Schemas
  <2> QED
    BY <1>1, <2>1, <2>2 DEF FilesAreOwn
<1>3. ASSUME NEW r \in Invokes
      PROVE  /\ inv'[r] \in InvRecords /\ UseIsOwn(inv'[r]) /\ RanOnce(inv'[r], endpoint.protos)
             /\ ~inv'[r].had /\ inv'[r].result = inv[r].result
             /\ inv'[r].at = inv[r].at /\ inv'[r].shape = inv[r].shape /\ inv'[r].env = inv[r].env
  <2>1. inv[r] \in InvRecords /\ UseIsOwn(inv[r]) /\ RanOnce(inv[r], endpoint.protos)
    BY DEF InvInv, InvTypes
  <2>2. inv'[r] = Robbed(inv[r])
    BY <1>1
  <2> QED
    BY <2>1, <2>2, SameUse
<1>4. HelpsInv'
  <2> SUFFICES ASSUME NEW r \in Invokes, inv'[r].at # "new"
               PROVE  HelpInv(r, inv'[r], file'[inv'[r].shape.auth], file'["url"])
    BY DEF HelpsInv
  <2>1. inv[r].result = "error" => inv[r].at = "done"
    BY <1>3 DEF InvInv, HelpsInv, HelpInv
  <2> QED
    BY <1>3, <2>1 DEF HelpInv
<1>5. MapsInv'
  BY <1>1, <1>3 DEF MapsInv, MapInv, Mapped, InvInv, InvTypes
<1>6. inv' \in [Invokes -> InvRecords]
  BY <1>1, <1>3
<1> QED
  BY <1>1, <1>2, <1>3, <1>4, <1>5, <1>6 DEF CacheInv

LEMMA CrashStep ==
    ASSUME InvInv, CrashWhileWriting
    PROVE  CacheInv' /\ MapsInv'
<1> DEFINE Crashed(q) == [q EXCEPT !.at = "done", !.result = "crash"]
<1>1. /\ UNCHANGED <<endpoint, file>> /\ mapEnv' = "none" /\ mapLock' = {}
      /\ inv' = [r \in Invokes |-> IF inv[r].at \in {"new", "done"} THEN inv[r] ELSE Crashed(inv[r])]
  BY DEF CrashWhileWriting
<1>2. ASSUME NEW r \in Invokes
      PROVE  /\ inv'[r] \in InvRecords /\ inv'[r].at \in {"new", "done"}
             /\ UseIsOwn(inv'[r]) /\ RanOnce(inv'[r], endpoint.protos)
             /\ inv'[r].at # "new" => HelpInv(r, inv'[r], file[inv'[r].shape.auth], file["url"])
  <2> DEFINE q == inv[r]
             d == Crashed(q)
  <2>1. q \in InvRecords /\ UseIsOwn(q) /\ RanOnce(q, endpoint.protos)
        /\ (q.at # "new" => HelpInv(r, q, file[q.shape.auth], file["url"]))
    BY DEF InvInv, InvTypes, HelpsInv
  <2>2. CASE q.at \in {"new", "done"}
    BY <1>1, <2>1, <2>2
  <2>3. CASE q.at \notin {"new", "done"}
    <3>1. inv'[r] = d
      BY <1>1, <2>3
    <3>2. "done" \in ReqPlaces
      BY DEF ReqPlaces
    <3> HIDE DEF q
    <3>3. d \in InvRecords /\ d.at = "done" /\ d.result = "crash" /\ d.shape = q.shape /\ d.used = q.used
          /\ d.proto = q.proto /\ d.ran = q.ran
      BY <2>1, <3>2 DEF InvRecords
    <3> HIDE DEF d
    <3>4. UseIsOwn(d) /\ RanOnce(d, endpoint.protos)
      BY <2>1, <2>3, <3>3 DEF UseIsOwn, RanOnce
    <3>5. HelpInv(r, d, file[d.shape.auth], file["url"])
      BY <3>3 DEF HelpInv
    <3> QED
      BY <3>1, <3>3, <3>4, <3>5
  <2> QED
    BY <2>2, <2>3
<1> HIDE DEF Crashed
<1>3. inv' \in [Invokes -> InvRecords]
  <2>1. \A r \in Invokes : inv'[r] \in InvRecords
    BY <1>2
  <2> QED
    BY <1>1, <2>1
<1>4. HelpsInv' /\ FilesAreOwn'
  BY <1>1, <1>2 DEF HelpsInv, FilesAreOwn, InvInv
<1>5. MapsInv'
  BY <1>1, <1>2 DEF MapsInv, MapInv, Mapped, Envs
<1> QED
  BY <1>1, <1>2, <1>3, <1>4, <1>5 DEF CacheInv, InvInv, InvTypes

\* Nothing of the cache changes; the server keeps its protocols.
LEMMA CacheStays ==
    ASSUME InvInv, UNCHANGED <<file, inv, mapEnv, mapLock>>, endpoint'.protos = endpoint.protos
    PROVE  CacheInv' /\ MapsInv'
BY DEF InvInv, InvTypes, CacheInv, MapsInv, FilesAreOwn, HelpsInv, MapInv

LEMMA InvNextPreserves == InvInv /\ [InvNext]_invVars => InvInv'
<1> SUFFICES ASSUME InvInv, [InvNext]_invVars PROVE InvInv'
  OBVIOUS
<1>1. ASSUME NEW r \in Invokes,
             \/ Begin(r) \/ ExistingSession(r) \/ Lookup(r) \/ Undetected(r) \/ FetchNothing(r)
             \/ FetchFound(r) \/ FetchCached(r) \/ FetchLive(r) \/ PutOpens(r) \/ PutWrites(r)
             \/ Answer(r) \/ Failed(r)
      PROVE  CacheInv' /\ MapsInv'
  BY <1>1, BeginStep, ExistingSessionStep, LookupStep, UndetectedStep, FetchNothingStep, FetchFoundStep,
     FetchCachedStep, FetchLiveStep, PutOpensStep, PutWritesStep, AnswerStep, FailedStep
<1>2. ASSUME NEW r \in Invokes,
             \/ Begin(r) \/ ExistingSession(r) \/ Lookup(r) \/ Undetected(r) \/ FetchNothing(r)
             \/ FetchFound(r) \/ FetchCached(r) \/ FetchLive(r) \/ PutOpens(r) \/ PutWrites(r)
             \/ Answer(r) \/ Failed(r)
      PROVE  UNCHANGED <<endpoint, outages>>
  BY <1>2 DEF Begin, ExistingSession, Lookup, Undetected, FetchNothing, FetchFound, FetchCached, FetchLive,
              PutOpens, PutWrites, Answer, Failed
<1>3. CASE \E r \in Invokes : Detect(r) \/ CallOperation(r)
  <2>1. UNCHANGED endpoint
    BY <1>3 DEF Detect, CallOperation
  <2> QED
    BY <1>3, <2>1, DetectStep, CallStep DEF InvInv, InvTypes, CacheInv, MapsInv
<1>4. CASE (\E k \in Keys : Expires(k) \/ Removed(k)) \/ CrashWhileWriting
  <2>1. UNCHANGED endpoint /\ (outages' = outages \/ outages' = outages + 1)
    BY <1>4 DEF Expires, Removed, CrashWhileWriting
  <2>2. CacheInv' /\ MapsInv'
    BY <1>4, ExpiresStep, RemovedStep, CrashStep
  <2> QED
    BY <2>1, <2>2 DEF InvInv, InvTypes, CacheInv, MapsInv
<1>5. CASE EndpointTurns \/ Upgraded
  <2>1. /\ UNCHANGED <<file, inv, mapEnv, mapLock>> /\ (outages' = outages \/ outages' = outages + 1)
        /\ endpoint' \in Endpoints /\ endpoint'.protos = endpoint.protos
    <3>1. endpoint \in Endpoints
      BY DEF InvInv, InvTypes
    <3>2. CASE EndpointTurns
      BY <3>1, <3>2 DEF EndpointTurns, Endpoints
    <3>3. CASE Upgraded
      BY <3>1, <3>3 DEF Upgraded, Endpoints
    <3> QED
      BY <1>5, <3>2, <3>3
  <2> QED
    BY <2>1, CacheStays DEF InvInv, InvTypes, CacheInv, MapsInv
<1>6. CASE UNCHANGED invVars
  BY <1>6, CacheStays DEF invVars, InvInv, InvTypes, CacheInv, MapsInv
<1>7. CASE \E r \in Invokes :
             \/ Begin(r) \/ ExistingSession(r) \/ Lookup(r) \/ Undetected(r) \/ FetchNothing(r)
             \/ FetchFound(r) \/ FetchCached(r) \/ FetchLive(r) \/ PutOpens(r) \/ PutWrites(r)
             \/ Answer(r) \/ Failed(r)
  BY <1>1, <1>2, <1>7 DEF InvInv, InvTypes, CacheInv, MapsInv
<1> QED
  BY <1>3, <1>4, <1>5, <1>6, <1>7 DEF InvNext

LEMMA InvInitEstablishes == InvInit => InvInv
<1> SUFFICES ASSUME InvInit PROVE InvInv
  OBVIOUS
<1>1. endpoint \in Endpoints /\ endpoint.protos # {} /\ endpoint.protos \subseteq Protocols
  <2>1. endpoint \in [protos : EndpointKinds, ver : {1}, up : {TRUE}]
    BY DEF InvInit
  <2>2. endpoint.protos \in EndpointKinds /\ endpoint = [protos |-> endpoint.protos, ver |-> 1, up |-> TRUE]
    BY <2>1
  <2>3. endpoint.protos # {} /\ endpoint.protos \subseteq Protocols
    BY <2>2, InvokesAssumption
  <2>4. endpoint \in Endpoints
    <3> HIDE DEF Protocols
    <3>1. endpoint.protos \in SUBSET Protocols
      BY <2>3
    <3> DEFINE P == endpoint.protos
    <3> HIDE DEF P
    <3>2. [protos |-> P, ver |-> 1, up |-> TRUE] \in Endpoints
      BY <3>1 DEF Endpoints, P
    <3> QED
      BY <2>2, <3>2 DEF P
  <2> QED
    BY <2>3, <2>4
<1>2. ASSUME NEW k \in Keys
      PROVE  file[k] \in Schemas \cup {NoFile, Torn} /\ OwnFile(k, file[k])
  <2> DEFINE p == CHOOSE p \in endpoint.protos : k = "url" \/ p = "mcp"
             f == [at |-> "stale", proto |-> p, ver |-> 0, by |-> k, putBy |-> 0]
  <2>1. file[k] = NoFile \/ ((k = "url") # ("mcp" \in endpoint.protos) /\ file[k] = f)
    BY DEF InvInit
  <2>2. CASE file[k] = NoFile
    BY <2>2 DEF NoFile, OwnFile, Schemas
  <2>3. CASE (k = "url") # ("mcp" \in endpoint.protos) /\ file[k] = f
    <3>1. \E x \in endpoint.protos : k = "url" \/ x = "mcp"
      BY <1>1, <2>3
    <3>2. p \in endpoint.protos /\ (k = "url" \/ p = "mcp")
      BY <3>1
    <3>3. p \in Found /\ (k = "url" <=> p # "mcp")
      BY <1>1, <2>3, <3>2 DEF Found
    <3>4. k \in Showers
      BY DEF Showers
    <3> HIDE DEF p
    <3>5. f \in Schemas /\ f.proto = p /\ f.by = k
      BY <3>3, <3>4 DEF Schemas
    <3> HIDE DEF f
    <3> QED
      BY <2>3, <3>3, <3>5 DEF OwnFile
  <2> QED
    BY <2>1, <2>2, <2>3
<1>3. file \in [Keys -> Schemas \cup {NoFile, Torn}] /\ FilesAreOwn
  <2>1. \A k \in Keys : file[k] \in Schemas \cup {NoFile, Torn}
    BY <1>2
  <2>2. PICK left \in BOOLEAN :
          file = [k \in Keys |-> IF left /\ (k = "url") # ("mcp" \in endpoint.protos)
                                      THEN [at |-> "stale", proto |-> CHOOSE p \in endpoint.protos : k = "url" \/ p = "mcp",
                                            ver |-> 0, by |-> k, putBy |-> 0]
                                      ELSE NoFile]
    BY DEF InvInit
  <2>3. file \in [Keys -> Schemas \cup {NoFile, Torn}]
    BY <2>1, <2>2
  <2> QED
    BY <1>2, <2>3 DEF FilesAreOwn
<1>4. NotBegun \in InvRecords /\ NotBegun.at = "new" /\ NotBegun.used = NoUse /\ NotBegun.ran = 0
      /\ ~NotBegun.again /\ NotBegun.result = "none"
  <2>1. /\ "new" \in ReqPlaces /\ "none" \in Found /\ "none" \in Envs /\ "url" \in Keys
    BY ShapeFacts DEF ReqPlaces, Found, Envs
  <2> HIDE DEF NoUse
  <2> QED
    BY <2>1, NoUseIs DEF InvRecords, NotBegun, NoShape
<1>5. UseIsOwn(NotBegun) /\ \A p : RanOnce(NotBegun, p)
  <2> HIDE DEF NotBegun
  <2> QED
    BY <1>4 DEF UseIsOwn, RanOnce
<1>6. inv = [r \in Invokes |-> NotBegun] /\ mapEnv = "none" /\ mapLock = {} /\ outages = 0
  BY DEF InvInit
<1> HIDE DEF NotBegun
<1>7. MapInv /\ HelpsInv
  BY <1>4, <1>6 DEF MapInv, HelpsInv, Mapped
<1>8. InvTypes
  BY <1>1, <1>3, <1>4, <1>6 DEF InvTypes, Envs
<1> QED
  BY <1>3, <1>5, <1>6, <1>7, <1>8 DEF InvInv

LEMMA InvInvIsTrue == InvInv => InvokesAreTrue
<1> SUFFICES ASSUME InvInv PROVE InvokesAreTrue
  OBVIOUS
<1>1. OwnCatalog /\ RefreshIsFresh
  BY DEF InvInv, UseIsOwn, OwnCatalog, RefreshIsFresh
<1>2. McpExecutedOnce
  BY DEF InvInv, RanOnce, McpExecutedOnce
<1>3. OwnMapping
  BY DEF InvInv, MapInv, Mapped, OwnMapping
<1>4. HelpSurvivesOutage
  <2> SUFFICES ASSUME NEW r \in Invokes, inv[r].result = "error", inv[r].shape.action = "help", Reads(inv[r].shape)
               PROVE  ~inv[r].had
    BY DEF HelpSurvivesOutage
  <2>1. inv[r].at # "new"
    BY DEF InvInv, UseIsOwn
  <2> QED
    BY <2>1 DEF InvInv, HelpsInv, HelpInv
<1> QED
  BY <1>1, <1>2, <1>3, <1>4 DEF InvokesAreTrue

\* However many requests share the schema cache, and whatever the server, the
\* clock and a crash do to it: a credential is never shown another's catalog, a
\* request that refuses the cache gets none of it, an mcp tool is called once, a
\* mapping file serves its own request, and help that began with a file is
\* answered (invoke_inner, resolve_adapter_with_schema_cache).
THEOREM InvokesTrue == InvSpec => []InvokesAreTrue
<1>1. InvSpec => []InvInv
  BY InvInitEstablishes, InvNextPreserves, PTL DEF InvSpec
<1> QED
  BY <1>1, InvInvIsTrue, PTL

-----------------------------------------------------------------------------
(* One credential.  Templates belong to types that use them, and a bootstrap *)
(* puts no token but its own; what is sent follows from the stored profile.  *)

Texts == {"", "user-secret", "gh-token", "from-env", "field-secret", BootToken, "t1", "t2", "t3", "t4"}
FieldNames == {"secret", "password", "other"}
Sources == [kind : {"none", "literal", "env"}, value : Texts]
Profiles == [type : AuthTypes, key : Texts, source : Sources, oauth : Texts, boot : BOOLEAN, bootToken : Texts,
             fields : SUBSET FieldNames, headers : SUBSET FieldNames, params : SUBSET FieldNames,
             prefix : SUBSET FieldNames]

\* Bearer and basic credentials have no templates; a bootstrap brings its own tokens only.
ProfileOK(p) == /\ p \in Profiles
                /\ p.type \in {"bearer", "basic"} => p.headers = {} /\ p.params = {} /\ p.prefix = {}
                /\ p.bootToken \in {"", BootToken}
CredInv == /\ stored = NoCredential \/ (ProfileOK(stored) /\ stored.type # "none")
           /\ issued \in Nat

SameBut(p, q) == /\ p.type = q.type /\ p.oauth = q.oauth /\ p.boot = q.boot /\ p.bootToken = q.bootToken
                 /\ p.fields = q.fields /\ p.headers = q.headers /\ p.params = q.params /\ p.prefix = q.prefix

LEMMA TextsAre == /\ {"", "user-secret", "gh-token", "from-env", "field-secret", BootToken} \subseteq Texts
                  /\ Tokens \subseteq Texts /\ \A n \in 1 .. MaxTokens : Token(n) \in {"t1", "t2", "t3", "t4"}
<1>1. ASSUME NEW n \in 1 .. MaxTokens PROVE Token(n) \in {"t1", "t2", "t3", "t4"}
  BY <1>1, TokensAssumption DEF Token
<1> QED
  BY <1>1 DEF Texts, Tokens

LEMMA SourcesAre ==
    /\ NoSource \in Sources /\ NoSource.kind = "none" /\ NoSource.value = ""
    /\ \A v \in Texts : Literal(v) \in Sources /\ Literal(v).kind = "literal" /\ Literal(v).value = v
BY TextsAre DEF NoSource, Literal, Sources

LEMMA ToRuntimeIs ==
    ASSUME NEW s \in Profiles, NEW p, p = ToRuntime(s)
    PROVE  /\ p \in Profiles /\ SameBut(p, s)
           /\ p.source = IF s.type = "oauth" THEN NoSource ELSE s.source
           /\ p.key = IF s.type = "oauth" THEN (IF s.oauth # "" THEN s.oauth ELSE s.key)
                      ELSE IF s.bootToken # "" THEN s.bootToken
                      ELSE IF s.source.kind = "literal" THEN s.source.value ELSE ""
<1>1. PICK source \in Sources : source = IF s.type = "oauth" THEN NoSource ELSE s.source
  BY SourcesAre DEF Profiles
<1>2. PICK key \in Texts : key = IF s.type = "oauth" THEN (IF s.oauth # "" THEN s.oauth ELSE s.key)
                      ELSE IF s.bootToken # "" THEN s.bootToken
                      ELSE IF s.source.kind = "literal" THEN s.source.value ELSE ""
  BY TextsAre DEF Profiles, Sources
<1>3. p = [s EXCEPT !.source = source, !.key = key]
  BY <1>1, <1>2 DEF ToRuntime
<1>4. /\ p \in Profiles /\ p.source = source /\ p.key = key /\ SameBut(p, s)
  BY <1>3 DEF Profiles, SameBut
<1> QED
  BY <1>1, <1>2, <1>4

LEMMA FromRuntimeIs ==
    ASSUME NEW p \in Profiles, NEW s, s = FromRuntime(p)
    PROVE  /\ s \in Profiles /\ SameBut(s, p)
           /\ s.source = IF p.type = "oauth" THEN NoSource
                         ELSE IF p.boot \/ p.source # NoSource THEN p.source ELSE Literal(p.key)
<1>1. PICK source \in Sources : source = IF p.type = "oauth" THEN NoSource
                         ELSE IF p.boot \/ p.source # NoSource THEN p.source ELSE Literal(p.key)
  BY SourcesAre DEF Profiles
<1>2. PICK key \in Texts : key = IF p.type = "oauth" THEN p.oauth ELSE ""
  BY TextsAre DEF Profiles
<1>3. s = [p EXCEPT !.source = source, !.key = key]
  BY <1>1, <1>2 DEF FromRuntime
<1>4. s \in Profiles /\ s.source = source /\ SameBut(s, p)
  BY <1>3 DEF Profiles, SameBut
<1> QED
  BY <1>1, <1>4

LEMMA EffectiveIs ==
    ASSUME NEW s \in Profiles, NEW p, p = Effective(s)
    PROVE  /\ p \in Profiles /\ SameBut(p, s)
           /\ s.type = "oauth" => p.source = NoSource
           /\ s.type = "oauth" /\ s.oauth # "" => p.key # ""
           /\ s.type # "oauth" =>
                p.key = IF "secret" \in s.fields THEN "field-secret" ELSE IF s.bootToken # "" THEN s.bootToken
                        ELSE IF s.source.kind = "env" THEN "from-env" ELSE s.source.value
<1>1. PICK r : r = ToRuntime(s)
  OBVIOUS
<1>2. /\ r \in Profiles /\ SameBut(r, s)
      /\ r.source = IF s.type = "oauth" THEN NoSource ELSE s.source
      /\ r.key = IF s.type = "oauth" THEN (IF s.oauth # "" THEN s.oauth ELSE s.key)
                 ELSE IF s.bootToken # "" THEN s.bootToken
                 ELSE IF s.source.kind = "literal" THEN s.source.value ELSE ""
  BY <1>1, ToRuntimeIs
<1>3. PICK f : f = ResolveField(r, "secret")
  OBVIOUS
<1>4. f = IF "secret" \in s.fields THEN "field-secret"
          ELSE IF s.type = "oauth" THEN s.oauth ELSE IF s.bootToken # "" THEN s.bootToken
          ELSE IF s.source = NoSource THEN r.key ELSE IF s.source.kind = "env" THEN "from-env" ELSE s.source.value
  BY <1>2, <1>3 DEF ResolveField, FieldValue, SameBut, Resolve
<1>5. f \in Texts
  BY <1>2, <1>4, TextsAre DEF Profiles, Sources
<1>6. PICK k \in Texts : k = IF f # "" THEN f ELSE r.key
  BY <1>2, <1>5 DEF Profiles
<1>7. p = [r EXCEPT !.key = k]
  BY <1>1, <1>3, <1>6 DEF Effective, Materialize
<1>8. p \in Profiles /\ SameBut(p, r) /\ p.key = k /\ p.source = r.source
  BY <1>2, <1>7 DEF Profiles, SameBut
<1>9. SameBut(p, s)
  BY <1>2, <1>8 DEF SameBut
<1>10. s.source \in Sources
  BY DEF Profiles
<1>11. /\ s.source.kind \in {"none", "literal", "env"} /\ s.source.value \in Texts
       /\ s.source = NoSource => s.source.kind = "none" /\ s.source.value = ""
       /\ s.source.kind = "none" /\ s.source.value = "" => s.source = NoSource
  BY <1>10, SourcesAre DEF Sources, NoSource
<1>12. s.type # "oauth" =>
        k = IF "secret" \in s.fields THEN "field-secret" ELSE IF s.bootToken # "" THEN s.bootToken
            ELSE IF s.source.kind = "env" THEN "from-env" ELSE s.source.value
  BY <1>2, <1>4, <1>6, <1>11, SourcesAre
<1>13. s.type = "oauth" /\ s.oauth # "" => k # ""
  BY <1>4, <1>6
<1> QED
  BY <1>2, <1>8, <1>9, <1>12, <1>13

\* What a credential without templates sends is its key.
LEMMA PlainSends ==
    ASSUME NEW s, ProfileOK(s), s.type \in {"bearer", "basic"}, NEW p, p = Effective(s)
    PROVE  Sent(s) \subseteq {p.key} /\ (Accepted(s) => Sent(s) = {p.key})
<1>1. p \in Profiles /\ SameBut(p, s)
  BY EffectiveIs DEF ProfileOK
<1>2. p.type \in {"bearer", "basic"} /\ p.headers = {} /\ p.params = {}
  BY <1>1 DEF SameBut, ProfileOK
<1>3. HeaderValues(p) = {p.key} /\ UrlValues(p) = {}
  BY <1>2 DEF HeaderValues, UrlValues
<1> QED
  BY <1>3 DEF Sent

LEMMA ReadyCarries ==
    ASSUME NEW s, ProfileOK(s), Accepted(s), ~s.boot
    PROVE  (Sent(s) \ {""} # {}) \/ (s.type = "basic" /\ "password" \in s.fields)
<1>1. PICK p : p = Effective(s)
  OBVIOUS
<1>2. p \in Profiles /\ SameBut(p, s) /\ s \in Profiles
  BY <1>1, EffectiveIs DEF ProfileOK
<1>3. Ready(p) /\ Sent(s) = HeaderValues(p) \cup UrlValues(p)
  BY <1>1 DEF Accepted, Sent
<1>4. "" \notin Render(p, p.headers \cup p.params)
      /\ (p.type = "api_key" => "" \notin Render(p, p.headers \cup p.params \cup p.prefix))
  BY <1>1 DEF Accepted, Render
<1>5. CASE s.type \in {"bearer", "basic"}
  <2>1. Sent(s) = {p.key}
    BY <1>1, <1>5, PlainSends
  <2>2. p.key # "" \/ (s.type = "basic" /\ "password" \in s.fields)
    BY <1>2, <1>3, <1>5 DEF Ready, SameBut
  <2> QED
    BY <2>1, <2>2
<1>6. ASSUME NEW T, T \in SUBSET FieldNames, T # {}, Render(p, T) \subseteq Sent(s), "" \notin Render(p, T)
      PROVE  Sent(s) \ {""} # {}
  <2>1. PICK f \in T : TRUE
    BY <1>6
  <2>2. ResolveField(p, f) \in Render(p, T)
    BY <2>1 DEF Render
  <2> QED
    BY <1>6, <2>2
<1>7. p.headers \in SUBSET FieldNames /\ p.params \in SUBSET FieldNames /\ p.prefix \in SUBSET FieldNames
  BY <1>2 DEF Profiles
<1>8. CASE s.type = "oauth"
  <2>1. p.type = "oauth" /\ s.oauth # ""
    BY <1>2, <1>3, <1>8 DEF SameBut, Ready
  <2>2. CASE p.headers = {} /\ p.params = {}
    <3>1. p.key \in Sent(s)
      BY <1>3, <2>1, <2>2 DEF HeaderValues
    <3>2. p.key # ""
      BY <1>1, <1>2, <1>8, <2>1, EffectiveIs
    <3> QED
      BY <3>1, <3>2
  <2>3. CASE p.headers # {}
    <3>1. Render(p, p.headers) \subseteq Sent(s)
      BY <1>3, <2>1, <2>3 DEF HeaderValues
    <3>2. "" \notin Render(p, p.headers)
      BY <1>4 DEF Render
    <3> QED
      BY <1>6, <1>7, <2>3, <3>1, <3>2
  <2>4. CASE p.params # {}
    <3>1. Render(p, p.params) \subseteq Sent(s)
      BY <1>3, <2>1, <2>4 DEF UrlValues
    <3>2. "" \notin Render(p, p.params)
      BY <1>4 DEF Render
    <3> QED
      BY <1>6, <1>7, <2>4, <3>1, <3>2
  <2> QED
    BY <2>2, <2>3, <2>4
<1>9. CASE s.type = "api_key"
  <2>1. p.type = "api_key"
    BY <1>2, <1>9 DEF SameBut
  <2>2. CASE p.headers = {} /\ p.params = {} /\ p.prefix = {}
    <3>1. p.key # ""
      BY <1>3, <2>1, <2>2 DEF Ready, Custom
    <3>2. p.key \in Sent(s)
      BY <1>3, <2>1, <2>2, <3>1 DEF HeaderValues
    <3> QED
      BY <3>1, <3>2
  <2>3. CASE p.headers # {}
    <3>1. Render(p, p.headers) \subseteq Sent(s)
      BY <1>3, <2>1, <2>3 DEF HeaderValues
    <3>2. "" \notin Render(p, p.headers)
      BY <1>4 DEF Render
    <3> QED
      BY <1>6, <1>7, <2>3, <3>1, <3>2
  <2>4. CASE p.params # {}
    <3>1. Render(p, p.params) \subseteq Sent(s)
      BY <1>3, <2>1, <2>4 DEF UrlValues
    <3>2. "" \notin Render(p, p.params)
      BY <1>4 DEF Render
    <3> QED
      BY <1>6, <1>7, <2>4, <3>1, <3>2
  <2>5. CASE p.prefix # {}
    <3>1. Render(p, p.prefix) \subseteq Sent(s)
      BY <1>3, <2>1, <2>5 DEF UrlValues
    <3>2. "" \notin Render(p, p.prefix)
      BY <1>4, <2>1 DEF Render
    <3> QED
      BY <1>6, <1>7, <2>5, <3>1, <3>2
  <2> QED
    BY <2>2, <2>3, <2>4, <2>5
<1> QED
  BY <1>2, <1>5, <1>8, <1>9 DEF Profiles, AuthTypes

LEMMA TemplatesNameAll ==
    ASSUME NEW s, ProfileOK(s), s.type = "api_key", s.headers # {} \/ s.params # {}
    PROVE  Sent(s) \subseteq Render(Effective(s), s.headers \cup s.params \cup s.prefix)
<1>1. PICK p : p = Effective(s)
  OBVIOUS
<1>2. SameBut(p, s)
  BY <1>1, EffectiveIs DEF ProfileOK
<1>3. p.type = "api_key" /\ p.headers = s.headers /\ p.params = s.params /\ p.prefix = s.prefix
  BY <1>2 DEF SameBut
<1>4. Sent(s) \subseteq HeaderValues(p) \cup UrlValues(p)
  BY <1>1 DEF Sent
<1>5. HeaderValues(p) \subseteq Render(p, p.headers)
  BY <1>3 DEF HeaderValues
<1>6. UrlValues(p) \subseteq Render(p, p.params) \cup Render(p, p.prefix)
  BY <1>3 DEF UrlValues
<1>7. Render(p, p.headers) \cup Render(p, p.params) \cup Render(p, p.prefix)
        = Render(p, p.headers \cup p.params \cup p.prefix)
  BY DEF Render
<1>8. Sent(s) \subseteq Render(p, p.headers \cup p.params \cup p.prefix)
  BY <1>4, <1>5, <1>6, <1>7
<1> QED
  BY <1>1, <1>3, <1>8

LEMMA CredInvIsTrue == CredInv => ReadyIsAuthenticated /\ OnlyWhatTemplatesName
<1> SUFFICES ASSUME CredInv, stored # NoCredential, ProfileOK(stored)
             PROVE  ReadyIsAuthenticated /\ OnlyWhatTemplatesName
  BY DEF CredInv, ReadyIsAuthenticated, OnlyWhatTemplatesName
<1>1. ReadyIsAuthenticated
  BY ReadyCarries DEF ReadyIsAuthenticated
<1>2. OnlyWhatTemplatesName
  BY TemplatesNameAll DEF OnlyWhatTemplatesName
<1> QED
  BY <1>1, <1>2

LEMMA SaveIs ==
    ASSUME NEW p, ProfileOK(p), Save(p)
    PROVE  /\ ProfileOK(stored') /\ SameBut(stored', p)
           /\ stored'.source = IF p.type = "oauth" THEN NoSource
                               ELSE IF p.boot \/ p.source # NoSource THEN p.source ELSE Literal(p.key)
<1>1. PICK s : s = FromRuntime(p)
  OBVIOUS
<1>2. /\ s \in Profiles /\ SameBut(s, p)
      /\ s.source = IF p.type = "oauth" THEN NoSource
                    ELSE IF p.boot \/ p.source # NoSource THEN p.source ELSE Literal(p.key)
  BY <1>1, FromRuntimeIs DEF ProfileOK
<1>3. stored' = s
  BY <1>1 DEF Save
<1>4. ProfileOK(s)
  BY <1>2 DEF ProfileOK, SameBut
<1> QED
  BY <1>2, <1>3, <1>4

LEMMA NewIs ==
    ASSUME NEW type \in AuthTypes, NEW p, p = NewProfile(type)
    PROVE  /\ ProfileOK(p) /\ p.type = type /\ p.fields = {} /\ p.bootToken = "" /\ p.boot = FALSE
<1>1. PICK source \in Sources : source = IF type = "oauth" THEN NoSource ELSE Literal("")
  BY SourcesAre, TextsAre
<1>2. PICK empty \in Texts : empty = ""
  BY TextsAre
<1>3. PICK no \in BOOLEAN : no = FALSE
  OBVIOUS
<1>4. PICK none \in SUBSET FieldNames : none = {}
  OBVIOUS
<1>5. p = [type |-> type, key |-> empty, source |-> source, oauth |-> empty, boot |-> no, bootToken |-> empty,
           fields |-> none, headers |-> none, params |-> none, prefix |-> none]
  BY <1>1, <1>2, <1>3, <1>4 DEF NewProfile
<1>6. p \in Profiles
  BY <1>5 DEF Profiles
<1>7. p.type = type /\ p.fields = none /\ p.bootToken = empty /\ p.boot = no
      /\ p.headers = none /\ p.params = none /\ p.prefix = none
  BY <1>5
<1> QED
  BY <1>2, <1>3, <1>4, <1>6, <1>7 DEF ProfileOK

\* A command that changes the profile of now, or a new one, and saves it.
LEMMA SavedInv ==
    ASSUME CredInv, NEW p, ProfileOK(p), Save(p), issued' \in Nat
    PROVE  CredInv'
<1>1. ProfileOK(stored')
  BY SaveIs
<1>2. stored'.type # "none"
  BY <1>1 DEF ProfileOK, Profiles, AuthTypes
<1> QED
  BY <1>1, <1>2 DEF CredInv

LEMMA StoredOK ==
    ASSUME CredInv, stored # NoCredential, NEW p, p = ToRuntime(stored)
    PROVE  /\ ProfileOK(stored) /\ ProfileOK(p) /\ SameBut(p, stored)
           /\ p.source = IF stored.type = "oauth" THEN NoSource ELSE stored.source
<1>1. ProfileOK(stored) /\ stored \in Profiles
  BY DEF CredInv, ProfileOK
<1>2. /\ p \in Profiles /\ SameBut(p, stored)
      /\ p.source = IF stored.type = "oauth" THEN NoSource ELSE stored.source
  BY <1>1, ToRuntimeIs
<1> QED
  BY <1>1, <1>2 DEF ProfileOK, SameBut

LEMMA NoneIs == NoCredential.type = "none" /\ (stored.type \in AuthTypes => stored # NoCredential)
BY DEF NoCredential, AuthTypes

LEMMA ImportStep ==
    ASSUME CredInv, NEW force, CredentialImport(force)
    PROVE  CredInv' /\ stored'.type = "bearer" /\ "gh-token" = stored'.source.value /\ stored'.fields = {}
           /\ stored'.bootToken = "" /\ ProfileOK(stored') /\ stored'.source.kind = "literal"
<1>1. PICK n : n = NewProfile("bearer")
  OBVIOUS
<1>2. "bearer" \in AuthTypes
  BY DEF AuthTypes
<1>3. ProfileOK(n) /\ n.type = "bearer" /\ n.fields = {} /\ n.bootToken = ""
  BY <1>1, <1>2, NewIs
<1>4. PICK key \in Texts : key = "gh-token"
  BY TextsAre
<1>5. PICK source \in Sources : source = Literal("gh-token")
  BY TextsAre, SourcesAre
<1>6. source.kind = "literal" /\ source.value = "gh-token" /\ source # NoSource
  BY <1>5, TextsAre, SourcesAre
<1>7. PICK p : p = [n EXCEPT !.key = key, !.source = source]
  OBVIOUS
<1>8. ProfileOK(p) /\ p.type = "bearer" /\ p.fields = {} /\ p.source = source /\ p.bootToken = ""
  BY <1>3, <1>7 DEF ProfileOK, Profiles
<1>9. Save(p) /\ issued' \in Nat
  BY <1>1, <1>4, <1>5, <1>7 DEF CredentialImport, CredInv
<1>10. CredInv'
  BY <1>8, <1>9, SavedInv
<1>11. ProfileOK(stored') /\ SameBut(stored', p) /\ stored'.source = source
  BY <1>6, <1>8, <1>9, SaveIs
<1> QED
  BY <1>6, <1>8, <1>10, <1>11 DEF SameBut

LEMMA LoginStep ==
    ASSUME CredInv, OAuthLogin
    PROVE  CredInv' /\ stored'.type = "oauth"
<1>1. PICK q : q = IF stored = NoCredential THEN NewProfile("oauth") ELSE ToRuntime(stored)
  OBVIOUS
<1>2. ProfileOK(q)
  <2>1. "oauth" \in AuthTypes
    BY DEF AuthTypes
  <2> QED
    BY <1>1, <2>1, NewIs, StoredOK
<1>3. issued \in Nat /\ issued' = issued + 1 /\ issued < MaxTokens
  BY DEF OAuthLogin, CredInv
<1>4. issued' \in 1 .. MaxTokens
  BY <1>3, TokensAssumption
<1>5. PICK token \in Texts : token = Token(issued')
  BY <1>4, TextsAre DEF Tokens
<1>6. PICK oauth \in AuthTypes : oauth = "oauth"
  BY DEF AuthTypes
<1>7. PICK p : p = [q EXCEPT !.type = oauth, !.oauth = token, !.key = token]
  OBVIOUS
<1>8. ProfileOK(p) /\ p.type = "oauth"
  BY <1>2, <1>6, <1>7 DEF ProfileOK, Profiles
<1>9. Save(p)
  BY <1>1, <1>5, <1>6, <1>7 DEF OAuthLogin
<1>10. SameBut(stored', p)
  BY <1>8, <1>9, SaveIs
<1> QED
  BY <1>3, <1>8, <1>9, <1>10, SavedInv DEF SameBut

LEMMA RefreshesStep ==
    ASSUME CredInv, OAuthRefresh
    PROVE  CredInv' /\ stored'.type = "oauth"
<1>1. PICK q : q = ToRuntime(stored)
  OBVIOUS
<1>2. stored # NoCredential /\ stored.type = "oauth"
  BY NoneIs DEF OAuthRefresh
<1>3. ProfileOK(q) /\ q.type = "oauth"
  BY <1>1, <1>2, StoredOK DEF SameBut
<1>4. issued \in Nat /\ issued' = issued + 1 /\ issued < MaxTokens
  BY DEF OAuthRefresh, CredInv
<1>5. issued' \in 1 .. MaxTokens
  BY <1>4, TokensAssumption
<1>6. PICK token \in Texts : token = Token(issued')
  BY <1>5, TextsAre DEF Tokens
<1>7. PICK p : p = [q EXCEPT !.oauth = token, !.key = token]
  OBVIOUS
<1>8. ProfileOK(p) /\ p.type = "oauth"
  BY <1>3, <1>7 DEF ProfileOK, Profiles
<1>9. Save(p)
  BY <1>1, <1>6, <1>7 DEF OAuthRefresh
<1>10. SameBut(stored', p)
  BY <1>8, <1>9, SaveIs
<1> QED
  BY <1>4, <1>8, <1>9, <1>10, SavedInv DEF SameBut

LEMMA LogoutStep ==
    ASSUME CredInv, OAuthLogout
    PROVE  CredInv' /\ stored'.type = "oauth"
<1>1. PICK q : q = ToRuntime(stored)
  OBVIOUS
<1>2. ProfileOK(q) /\ issued' \in Nat
  BY <1>1, StoredOK DEF OAuthLogout, CredInv
<1>3. PICK empty \in Texts : empty = ""
  BY TextsAre
<1>4. PICK oauth \in AuthTypes : oauth = "oauth"
  BY DEF AuthTypes
<1>5. PICK p : p = [q EXCEPT !.oauth = empty, !.key = empty, !.type = oauth]
  OBVIOUS
<1>6. ProfileOK(p) /\ p.type = "oauth"
  BY <1>2, <1>4, <1>5 DEF ProfileOK, Profiles
<1>7. Save(p)
  BY <1>1, <1>3, <1>4, <1>5 DEF OAuthLogout
<1>8. SameBut(stored', p)
  BY <1>6, <1>7, SaveIs
<1> QED
  BY <1>2, <1>6, <1>7, <1>8, SavedInv DEF SameBut

LEMMA BootstrapSetStep ==
    ASSUME CredInv, BootstrapSet
    PROVE  CredInv' /\ stored'.type = stored.type /\ stored'.boot
<1>1. PICK q : q = ToRuntime(stored)
  OBVIOUS
<1>2. stored # NoCredential
  BY NoneIs DEF BootstrapSet
<1>3. ProfileOK(q) /\ SameBut(q, stored) /\ issued' \in Nat
  BY <1>1, <1>2, StoredOK DEF BootstrapSet, CredInv
<1>4. PICK empty \in Texts : empty = ""
  BY TextsAre
<1>5. PICK yes \in BOOLEAN : yes = TRUE
  OBVIOUS
<1>6. PICK p : p = [q EXCEPT !.boot = yes, !.bootToken = empty, !.key = empty]
  OBVIOUS
<1>7. ProfileOK(p) /\ p.type = q.type /\ p.boot
  BY <1>3, <1>4, <1>5, <1>6 DEF ProfileOK, Profiles
<1>8. Save(p)
  BY <1>1, <1>4, <1>5, <1>6 DEF BootstrapSet
<1>9. SameBut(stored', p)
  BY <1>7, <1>8, SaveIs
<1>10. CredInv'
  BY <1>3, <1>7, <1>8, SavedInv
<1> QED
  BY <1>3, <1>7, <1>9, <1>10 DEF SameBut

LEMMA BootstrapRefreshStep ==
    ASSUME CredInv, BootstrapRefresh
    PROVE  CredInv' /\ stored'.type = stored.type /\ stored'.boot
<1>1. PICK q : q = ToRuntime(stored)
  OBVIOUS
<1>2. stored # NoCredential /\ stored.boot
  BY NoneIs DEF BootstrapRefresh
<1>3. ProfileOK(q) /\ SameBut(q, stored) /\ issued' \in Nat
  BY <1>1, <1>2, StoredOK DEF BootstrapRefresh, CredInv
<1>4. PICK token \in Texts : token = BootToken
  BY TextsAre
<1>5. PICK p : p = [q EXCEPT !.bootToken = token, !.key = token]
  OBVIOUS
<1>6. ProfileOK(p) /\ p.type = q.type /\ p.boot = q.boot
  BY <1>3, <1>4, <1>5 DEF ProfileOK, Profiles
<1>7. Save(p)
  BY <1>1, <1>4, <1>5 DEF BootstrapRefresh
<1>8. SameBut(stored', p)
  BY <1>6, <1>7, SaveIs
<1>9. CredInv'
  BY <1>3, <1>6, <1>7, SavedInv
<1> QED
  BY <1>2, <1>3, <1>6, <1>8, <1>9 DEF SameBut

LEMMA BootstrapRemoveStep ==
    ASSUME CredInv, BootstrapRemove
    PROVE  /\ CredInv' /\ stored'.type = stored.type /\ stored'.bootToken = "" /\ ProfileOK(stored')
           /\ stored.type = "bearer" => stored'.source \in {stored.source, Literal("")}
<1>1. PICK q : q = ToRuntime(stored)
  OBVIOUS
<1>2. ProfileOK(q) /\ SameBut(q, stored) /\ issued' \in Nat
      /\ (stored.type = "bearer" => q.source = stored.source)
  BY <1>1, StoredOK DEF BootstrapRemove, CredInv
<1>3. PICK empty \in Texts : empty = ""
  BY TextsAre
<1>4. PICK no \in BOOLEAN : no = FALSE
  OBVIOUS
<1>5. PICK key \in Texts : key = IF q.type = "bearer" /\ q.source = NoSource THEN "" ELSE q.key
  BY <1>2, TextsAre DEF ProfileOK, Profiles
<1>6. PICK p : p = [q EXCEPT !.boot = no, !.bootToken = empty, !.key = key]
  OBVIOUS
<1>7. ProfileOK(p) /\ p.type = q.type /\ p.source = q.source /\ p.key = key /\ p.bootToken = ""
  BY <1>2, <1>3, <1>4, <1>6 DEF ProfileOK, Profiles
<1>8. Save(p)
  BY <1>1, <1>3, <1>4, <1>5, <1>6 DEF BootstrapRemove
<1>9. ProfileOK(stored') /\ SameBut(stored', p)
      /\ stored'.source = IF p.type = "oauth" THEN NoSource
                          ELSE IF p.boot \/ p.source # NoSource THEN p.source ELSE Literal(p.key)
  BY <1>7, <1>8, SaveIs
<1>10. CredInv'
  BY <1>2, <1>7, <1>8, SavedInv
<1>11. stored.type = "bearer" => stored'.source \in {stored.source, Literal("")}
  BY <1>2, <1>5, <1>7, <1>9 DEF SameBut
<1> QED
  BY <1>2, <1>7, <1>9, <1>10, <1>11 DEF SameBut

\* `auth credential set`: what the profile is before it is saved.
LEMMA InjectedIs ==
    ASSUME CredInv, NEW type \in AuthTypes, NEW a \in SetArgs, NEW p, p = Injected(stored, type, a)
    PROVE  p \in Profiles /\ p.type = type /\ p.bootToken \in {"", BootToken}
           /\ (p.boot => stored # NoCredential /\ stored.boot)
<1>1. PICK base : base = IF stored = NoCredential THEN NewProfile(type) ELSE ToRuntime(stored)
  OBVIOUS
<1>2. ProfileOK(base) /\ (base.boot => stored # NoCredential /\ stored.boot)
  <2>1. CASE stored = NoCredential
    BY <1>1, <2>1, NewIs
  <2>2. CASE stored # NoCredential
    BY <1>1, <2>2, StoredOK DEF SameBut
  <2> QED
    BY <2>1, <2>2
<1>3. base \in Profiles /\ base.bootToken \in {"", BootToken}
  BY <1>2 DEF ProfileOK
<1>4. /\ a.headers \in SUBSET FieldNames /\ a.params \in SUBSET FieldNames /\ a.prefix \in SUBSET FieldNames
      /\ a.fields \in SUBSET FieldNames
  BY DEF SetArgs, FieldNames
<1>5. /\ base.headers \in SUBSET FieldNames /\ base.params \in SUBSET FieldNames
      /\ base.prefix \in SUBSET FieldNames /\ base.fields \in SUBSET FieldNames
  BY <1>3 DEF Profiles
<1>6. PICK h \in SUBSET FieldNames : h = IF a.headers = {} THEN base.headers ELSE a.headers
  BY <1>4, <1>5
<1>7. PICK m \in SUBSET FieldNames : m = IF a.params = {} THEN base.params ELSE a.params
  BY <1>4, <1>5
<1>8. PICK x \in SUBSET FieldNames : x = IF a.prefix = {} THEN base.prefix ELSE a.prefix
  BY <1>4, <1>5
<1>9. PICK f \in SUBSET FieldNames : f = IF type = "oauth" THEN {} ELSE IF a.fields = {} THEN base.fields ELSE a.fields
  <2>1. {} \in SUBSET FieldNames
    OBVIOUS
  <2> QED
    BY <1>4, <1>5, <2>1
<1>10. p = [base EXCEPT !.type = type, !.headers = h, !.params = m, !.prefix = x, !.fields = f]
  BY <1>1, <1>6, <1>7, <1>8, <1>9 DEF Injected
<1>11. p \in Profiles /\ p.type = type /\ p.bootToken = base.bootToken /\ p.boot = base.boot
  BY <1>3, <1>10 DEF Profiles
<1> QED
  BY <1>2, <1>3, <1>11

LEMMA CleanedIs ==
    ASSUME NEW p \in Profiles, p.bootToken \in {"", BootToken}, NEW a \in SetArgs, NEW c, c = Cleaned(WithSecret(p, a))
    PROVE  /\ ProfileOK(c) /\ c.type = p.type
           /\ p.type = "bearer" => c.boot = p.boot
           /\ a.secret # "none" /\ p.type # "oauth" =>
                c.source.kind # "none" /\ c.source.value \in {"user-secret", ""}
<1>1. PICK source : source = SourceOf(a.secret)
  OBVIOUS
<1>2. source \in Sources /\ source.kind # "none" /\ source.value \in {"user-secret", ""}
  <2>1. Literal("user-secret") \in Sources /\ Literal("user-secret").kind = "literal"
        /\ Literal("user-secret").value = "user-secret"
    BY SourcesAre, TextsAre
  <2>2. Literal("") \in Sources /\ Literal("").kind = "literal" /\ Literal("").value = ""
    BY SourcesAre, TextsAre
  <2>3. PICK env : env = [kind |-> "env", value |-> ""]
    OBVIOUS
  <2>4. env \in Sources /\ env.kind = "env" /\ env.value = ""
    BY <2>3, TextsAre DEF Sources
  <2>5. source \in {Literal("user-secret"), Literal(""), env}
    BY <1>1, <2>3 DEF SourceOf
  <2> QED
    BY <2>1, <2>2, <2>4, <2>5
<1>3. PICK value \in Texts : value = source.value
  BY <1>2 DEF Sources
<1>4. PICK given : given = IF a.secret = "none" THEN p ELSE [p EXCEPT !.source = source, !.key = value]
  OBVIOUS
<1>5. /\ given \in Profiles /\ given.type = p.type /\ given.boot = p.boot /\ given.bootToken = p.bootToken
      /\ a.secret # "none" => given.source = source
  BY <1>2, <1>4 DEF Profiles
<1>6. PICK nowhere \in Sources : nowhere = NoSource
  BY SourcesAre
<1>7. PICK q : q = IF a.secret = "none" /\ given.key = "" /\ given.source = Literal("")
                   THEN [given EXCEPT !.source = nowhere] ELSE given
  OBVIOUS
<1>8. /\ q \in Profiles /\ q.type = p.type /\ q.boot = p.boot /\ q.bootToken = p.bootToken
      /\ a.secret # "none" => q.source = source
  BY <1>5, <1>7 DEF Profiles
<1>9. c = Cleaned(q)
  <2>1. q = WithSecret(p, a)
    BY <1>1, <1>3, <1>4, <1>6, <1>7 DEF WithSecret
  <2> QED
    BY <2>1
<1>10. PICK none \in SUBSET FieldNames : none = {}
  OBVIOUS
<1>11. PICK empty \in Texts : empty = ""
  BY TextsAre
<1>12. PICK no \in BOOLEAN : no = FALSE
  OBVIOUS
<1>13. CASE q.type = "oauth"
  <2>1. c = [q EXCEPT !.source = nowhere, !.prefix = none, !.boot = no, !.bootToken = empty]
    BY <1>6, <1>10, <1>11, <1>12, <1>13, <1>9 DEF Cleaned
  <2>2. c \in Profiles /\ c.type = "oauth" /\ c.bootToken = ""
    BY <1>8, <1>11, <1>13, <2>1 DEF Profiles
  <2> QED
    BY <1>8, <1>13, <2>2 DEF ProfileOK
<1>14. CASE q.type # "oauth"
  <2>1. q.headers \in SUBSET FieldNames /\ q.params \in SUBSET FieldNames /\ q.prefix \in SUBSET FieldNames
        /\ q.boot \in BOOLEAN /\ q.bootToken \in Texts
    BY <1>8 DEF Profiles
  <2>2. PICK h \in SUBSET FieldNames : h = IF q.type = "api_key" THEN q.headers ELSE none
    BY <1>10, <2>1
  <2>3. PICK m \in SUBSET FieldNames : m = IF q.type = "api_key" THEN q.params ELSE none
    BY <1>10, <2>1
  <2>4. PICK x \in SUBSET FieldNames : x = IF q.type = "api_key" THEN q.prefix ELSE none
    BY <1>10, <2>1
  <2>5. PICK b \in BOOLEAN : b = IF q.type = "bearer" THEN q.boot ELSE no
    BY <2>1
  <2>6. PICK t \in Texts : t = IF q.type = "bearer" THEN q.bootToken ELSE ""
    BY <2>1, TextsAre
  <2>7. c = [q EXCEPT !.oauth = empty, !.headers = h, !.params = m, !.prefix = x, !.boot = b, !.bootToken = t]
    <3>1. c = [q EXCEPT !.oauth = "", !.headers = IF q.type = "api_key" THEN @ ELSE {},
                        !.params = IF q.type = "api_key" THEN @ ELSE {},
                        !.prefix = IF q.type = "api_key" THEN @ ELSE {},
                        !.boot = IF q.type = "bearer" THEN @ ELSE FALSE,
                        !.bootToken = IF q.type = "bearer" THEN @ ELSE ""]
      BY <1>14, <1>9 DEF Cleaned
    <3>2. CASE q.type = "bearer"
      BY <1>10, <1>11, <2>2, <2>3, <2>4, <2>5, <2>6, <3>1, <3>2
    <3>3. CASE q.type # "bearer"
      BY <1>10, <1>11, <1>12, <2>2, <2>3, <2>4, <2>5, <2>6, <3>1, <3>3
    <3> QED
      BY <3>2, <3>3
  <2>8. /\ c \in Profiles /\ c.type = q.type /\ c.bootToken = t /\ c.boot = b /\ c.source = q.source
        /\ c.headers = h /\ c.params = m /\ c.prefix = x
    BY <1>8, <2>7 DEF Profiles
  <2>9. ProfileOK(c)
    BY <1>8, <1>10, <2>2, <2>3, <2>4, <2>6, <2>8 DEF ProfileOK
  <2> QED
    BY <1>2, <1>8, <2>1, <2>5, <2>8, <2>9
<1> QED
  BY <1>13, <1>14

LEMMA SetStep ==
    ASSUME CredInv, NEW a \in SetArgs, CredentialSet(a)
    PROVE  /\ CredInv' /\ ProfileOK(stored')
           /\ stored.type = "oauth" /\ stored'.type \in {"bearer", "basic"} =>
                stored'.source.value \in {"user-secret", ""}
           /\ stored # NoCredential /\ stored.type = "bearer" /\ stored'.type = "bearer" =>
                stored'.boot = stored.boot
<1>1. PICK type : type = IF a.type # "none" THEN a.type
                         ELSE IF stored = NoCredential THEN "bearer" ELSE stored.type
  OBVIOUS
<1>2. type \in AuthTypes
  BY <1>1 DEF CredInv, ProfileOK, Profiles, SetArgs, AuthTypes
<1>3. PICK p : p = Injected(stored, type, a)
  OBVIOUS
<1>4. p \in Profiles /\ p.type = type /\ p.bootToken \in {"", BootToken}
  BY <1>2, <1>3, InjectedIs
<1>5. PICK c : c = Cleaned(WithSecret(p, a))
  OBVIOUS
<1>6. /\ ProfileOK(c) /\ c.type = type
      /\ type = "bearer" => c.boot = p.boot
      /\ a.secret # "none" /\ type # "oauth" => c.source.kind # "none" /\ c.source.value \in {"user-secret", ""}
  BY <1>4, <1>5, CleanedIs
<1>7. Save(c) /\ ~Refused(stored, type, a) /\ issued' \in Nat
  BY <1>1, <1>3, <1>5 DEF CredentialSet, CredInv
<1>8. CredInv'
  BY <1>6, <1>7, SavedInv
<1>9. ProfileOK(stored') /\ SameBut(stored', c)
      /\ stored'.source = IF c.type = "oauth" THEN NoSource
                          ELSE IF c.boot \/ c.source # NoSource THEN c.source ELSE Literal(c.key)
  BY <1>6, <1>7, SaveIs
<1>10. stored.type = "oauth" /\ stored'.type \in {"bearer", "basic"} =>
         stored'.source.value \in {"user-secret", ""}
  <2> SUFFICES ASSUME stored.type = "oauth", type \in {"bearer", "basic"}
               PROVE  stored'.source.value \in {"user-secret", ""}
    BY <1>6, <1>9 DEF SameBut
  <2>1. a.secret # "none"
    BY <1>7 DEF Refused
  <2>2. c.source.kind # "none" /\ c.source.value \in {"user-secret", ""}
    BY <1>6, <2>1
  <2>3. c.source # NoSource
    BY <2>2, SourcesAre
  <2> QED
    BY <1>6, <1>9, <2>2, <2>3
<1>11. stored # NoCredential /\ stored.type = "bearer" /\ stored'.type = "bearer" => stored'.boot = stored.boot
  <2> SUFFICES ASSUME stored # NoCredential, type = "bearer" PROVE stored'.boot = stored.boot
    BY <1>6, <1>9 DEF SameBut
  <2>1. PICK base : base = ToRuntime(stored)
    OBVIOUS
  <2>2. base \in Profiles /\ base.boot = stored.boot
    BY <2>1, StoredOK DEF ProfileOK, SameBut
  <2>3. p.boot = base.boot
    BY <1>3, <2>1, <2>2 DEF Injected, Profiles
  <2> QED
    BY <1>6, <1>9, <2>2, <2>3 DEF SameBut
<1> QED
  BY <1>8, <1>9, <1>10, <1>11

LEMMA CredNextPreserves == CredInv /\ [CredNext]_credVars => CredInv'
<1> SUFFICES ASSUME CredInv, [CredNext]_credVars PROVE CredInv'
  OBVIOUS
<1>1. CASE CredentialRemove
  BY <1>1 DEF CredentialRemove, CredInv
<1>2. CASE UNCHANGED credVars
  BY <1>2 DEF credVars, CredInv
<1> QED
  BY <1>1, <1>2, SetStep, ImportStep, LoginStep, RefreshesStep, LogoutStep, BootstrapSetStep, BootstrapRefreshStep,
     BootstrapRemoveStep DEF CredNext

\* What BootstrapLeavesSecret and SwitchNeedsSecret say of a step.
LEMMA SecretKept ==
    ASSUME CredInv, [CredNext]_credVars, stored # NoCredential, stored.type = "bearer", stored.boot,
           stored' # NoCredential, stored'.type = "bearer", ~stored'.boot, BootToken \in Sent(stored)'
    PROVE  stored.source.value = BootToken
<1>1. PICK p : p = Effective(stored')
  OBVIOUS
<1>2. ASSUME ProfileOK(stored'), stored'.bootToken = "", stored'.source.value # BootToken PROVE FALSE
  <2>1. stored' \in Profiles /\ stored'.type \in {"bearer", "basic"}
    BY <1>2 DEF ProfileOK
  <2>2. p.key = IF "secret" \in stored'.fields THEN "field-secret"
                ELSE IF stored'.source.kind = "env" THEN "from-env" ELSE stored'.source.value
    BY <1>1, <1>2, <2>1, EffectiveIs
  <2>3. Sent(stored') \subseteq {p.key}
    BY <1>1, <1>2, <2>1, PlainSends
  <2> QED
    BY <1>2, <2>2, <2>3 DEF BootToken
<1>3. CASE BootstrapRemove
  <2>1. /\ ProfileOK(stored') /\ stored'.bootToken = ""
        /\ stored'.source \in {stored.source, Literal("")}
    BY <1>3, BootstrapRemoveStep
  <2>2. Literal("").value # BootToken
    BY SourcesAre, TextsAre DEF BootToken
  <2> QED
    BY <1>2, <2>1, <2>2
<1>4. ASSUME NEW force \in BOOLEAN, CredentialImport(force) PROVE FALSE
  BY <1>2, <1>4, ImportStep DEF BootToken
<1>5. ASSUME NEW a \in SetArgs, CredentialSet(a) PROVE FALSE
  BY <1>5, SetStep
<1>6. ~CredentialRemove
  BY DEF CredentialRemove
<1>7. ~OAuthLogin /\ ~OAuthRefresh /\ ~OAuthLogout
  BY LoginStep, RefreshesStep, LogoutStep
<1>8. ~BootstrapSet /\ ~BootstrapRefresh
  BY BootstrapSetStep, BootstrapRefreshStep
<1>9. ~UNCHANGED credVars
  BY DEF credVars
<1> QED
  BY <1>3, <1>4, <1>5, <1>6, <1>7, <1>8, <1>9 DEF CredNext

LEMMA SwitchTakesSecret ==
    ASSUME CredInv, [CredNext]_credVars, stored # NoCredential, stored.type = "oauth",
           stored' # NoCredential, stored'.type \in {"bearer", "basic"}
    PROVE  Sent(stored)' \cap Tokens = {}
<1>1. PICK p : p = Effective(stored')
  OBVIOUS
<1>2. Tokens \subseteq {"t1", "t2", "t3", "t4"}
  BY TextsAre DEF Tokens
<1>3. ASSUME ProfileOK(stored'), stored'.source.value \in {"user-secret", "", "gh-token"}
      PROVE  Sent(stored') \cap Tokens = {}
  <2>1. stored' \in Profiles /\ stored'.type # "oauth" /\ stored'.bootToken \in {"", BootToken}
    BY <1>3 DEF ProfileOK
  <2>2. p.key = IF "secret" \in stored'.fields THEN "field-secret"
                ELSE IF stored'.bootToken # "" THEN stored'.bootToken
                ELSE IF stored'.source.kind = "env" THEN "from-env" ELSE stored'.source.value
    BY <1>1, <2>1, EffectiveIs
  <2>3. Sent(stored') \subseteq {p.key}
    BY <1>1, <1>3, PlainSends
  <2>4. p.key \notin Tokens
    BY <1>2, <1>3, <2>1, <2>2 DEF BootToken
  <2> QED
    BY <2>3, <2>4
<1>4. ASSUME NEW force \in BOOLEAN, CredentialImport(force) PROVE Sent(stored') \cap Tokens = {}
  BY <1>3, <1>4, ImportStep
<1>5. ASSUME NEW a \in SetArgs, CredentialSet(a) PROVE Sent(stored') \cap Tokens = {}
  BY <1>3, <1>5, SetStep
<1>6. ~CredentialRemove
  BY DEF CredentialRemove
<1>7. ~OAuthLogin /\ ~OAuthRefresh /\ ~OAuthLogout
  BY LoginStep, RefreshesStep, LogoutStep
<1>8. ~BootstrapSet /\ ~BootstrapRefresh
  BY DEF BootstrapSet, BootstrapRefresh
<1>9. ~BootstrapRemove
  BY BootstrapRemoveStep
<1>10. ~UNCHANGED credVars
  BY DEF credVars
<1>11. Sent(stored') \cap Tokens = {}
  BY <1>4, <1>5, <1>6, <1>7, <1>8, <1>9, <1>10 DEF CredNext
<1>12. Sent(stored)' = Sent(stored')
  BY DEF Sent, Accepted, Effective
<1> QED
  BY <1>11, <1>12

-----------------------------------------------------------------------------
(* The credential file.  A token that a process owes the file is its only    *)
(* copy and the provider's good one; a writer that has read the file of now  *)
(* differs from it in its own credential only.                               *)

AuthTokens == [g : Nat, n : Nat]
Docs == UNION {[D -> AuthTokens] : D \in SUBSET Creds}
AuthPlaces == {"idle", "held", "owes", "saving", "completing", "redeemed", "removed"}
AuthWork == [pc : AuthPlaces, cred : Creds \cup {"none"}, mem : AuthTokens, doc : Docs, read : Nat,
             session : SessionIds \cup {"none"}]
FilesTypes == /\ procs \in [AuthProcs -> AuthWork] /\ doc \in Docs /\ version \in Nat
              /\ current \in [Grants -> Nat] /\ overlapped \in BOOLEAN /\ mishap \in BOOLEAN

LEMMA NoDoc == <<>> \in Docs /\ DOMAIN <<>> = {}
<1>1. DOMAIN <<>> = {} /\ <<>> = [x \in {} |-> NoToken]
  OBVIOUS
<1>2. {} \in SUBSET Creds
  OBVIOUS
<1>3. [x \in {} |-> NoToken] \in [{} -> AuthTokens]
  OBVIOUS
<1> QED
  BY <1>1, <1>2, <1>3 DEF Docs

LEMMA WithIs ==
    ASSUME NEW d \in Docs, NEW c \in Creds, NEW t \in AuthTokens, NEW e, e = With(d, c, t)
    PROVE  e \in Docs
<1>1. PICK D \in SUBSET Creds : d \in [D -> AuthTokens]
  BY DEF Docs
<1>2. e \in [D \cup {c} -> AuthTokens]
  BY <1>1 DEF With
<1>3. D \cup {c} \in SUBSET Creds
  OBVIOUS
<1> QED
  BY <1>2, <1>3 DEF Docs

LEMMA WithoutIs ==
    ASSUME NEW d \in Docs, NEW c, NEW e, e = Without(d, c)
    PROVE  e \in Docs
<1>1. PICK D \in SUBSET Creds : d \in [D -> AuthTokens]
  BY DEF Docs
<1>2. e \in [D \ {c} -> AuthTokens]
  BY <1>1 DEF Without
<1>3. D \ {c} \in SUBSET Creds
  OBVIOUS
<1> QED
  BY <1>2, <1>3 DEF Docs

LEMMA DocIs ==
    ASSUME NEW d \in Docs
    PROVE  DOMAIN d \subseteq Creds /\ \A c \in DOMAIN d : d[c] \in AuthTokens
BY DEF Docs

\* What a process holds fits what it does.
WorkFits(q) == /\ q.pc # "idle" => q.cred \in Creds
               /\ q.pc \in {"held", "owes", "redeemed", "removed"} => q.mem # NoToken
               /\ q.pc \in {"idle", "completing"} => q.mem = NoToken
               /\ q.pc \in {"completing", "redeemed", "removed"} => q.session # "none"

\* A writer that has read the file of now differs from it in its own credential
\* only, and brings one that is not there only after a login.
Merged(q) ==
    q.pc = "saving" =>
      /\ q.read <= version
      /\ q.read = version => \A x \in DOMAIN q.doc : IF x = q.cred
                                                    THEN q.doc[x] = q.mem /\ (x \in DOMAIN doc \/ q.session # "none")
                                                    ELSE x \in DOMAIN doc /\ q.doc[x] = doc[x]

\* A token is one that the provider has issued, of a grant that is the credential's.
Issued(owner, c, t) == t # NoToken => t.g \in Grants /\ 1 <= t.n /\ t.n <= current[t.g] /\ owner[t.g] = c
WorkIssued(owner, q) == /\ Issued(owner, q.cred, q.mem)
                        /\ q.pc = "saving" => \A x \in DOMAIN q.doc : Issued(owner, x, q.doc[x])
Owners == [Grants -> Creds \cup {"none"}]
AllIssued == \E owner \in Owners :
               /\ \A c \in DOMAIN doc : Issued(owner, c, doc[c])
               /\ \A p \in AuthProcs : WorkIssued(owner, procs[p])

\* A process that owes the file a token has the only copy of it, and the
\* provider's good one; a token of the file is good or somebody owes its successor.
Good(t) == current[t.g] = t.n
Carries(q) == q.pc \in {"owes", "saving", "redeemed", "removed"} /\ q.mem # NoToken
Succeeds(q, c, t) == Carries(q) /\ q.cred = c /\ q.mem.g = t.g
CopiesGood ==
    /\ \A p \in AuthProcs : Carries(procs[p]) =>
         /\ Good(procs[p].mem)
         /\ \A c \in DOMAIN doc : doc[c] # procs[p].mem
         /\ \A r \in AuthProcs : r # p => procs[r].mem # procs[p].mem
    /\ \A c \in DOMAIN doc : doc[c] # NoToken =>
         Good(doc[c]) \/ \E p \in AuthProcs : Succeeds(procs[p], c, doc[c])

FilesInv == /\ FilesTypes
            /\ \A p \in AuthProcs : WorkFits(procs[p]) /\ Merged(procs[p])
            /\ AllIssued
            /\ ~overlapped /\ ~mishap => CopiesGood

LEMMA FilesInvIsTrue == FilesInv => FileTokensGood
BY DEF FilesInv, FileTokensGood, CopiesGood, Owing, Succeeds, Carries, Good

LEMMA IdleIs == /\ Idle \in AuthWork /\ WorkFits(Idle) /\ ~Carries(Idle) /\ Idle.mem = NoToken /\ Idle.pc = "idle"
                /\ NoToken \in AuthTokens
BY NoDoc DEF Idle, AuthWork, AuthPlaces, AuthTokens, NoToken, WorkFits, Carries

LEMMA FilesInitEstablishes == AuthInit => FilesInv
<1> SUFFICES ASSUME AuthInit PROVE FilesInv
  OBVIOUS
<1>1. FilesTypes
  BY IdleIs, NoDoc DEF AuthInit, FilesTypes
<1>2. \A p \in AuthProcs : WorkFits(procs[p]) /\ Merged(procs[p])
  BY IdleIs DEF AuthInit, Merged
<1>3. [g \in Grants |-> "none"] \in Owners
  BY DEF Owners
<1>4. AllIssued
  BY <1>3, IdleIs, NoDoc DEF AuthInit, AllIssued, WorkIssued, Issued
<1>5. CopiesGood
  BY IdleIs, NoDoc DEF AuthInit, CopiesGood
<1> QED
  BY <1>1, <1>2, <1>4, <1>5 DEF FilesInv

LEMMA ProcGoes ==
    ASSUME FilesTypes, NEW p \in AuthProcs, NEW w \in AuthWork, Goes(p, w)
    PROVE  /\ procs' \in [AuthProcs -> AuthWork] /\ procs'[p] = w
           /\ \A r \in AuthProcs : r # p => procs'[r] = procs[r]
BY DEF FilesTypes, Goes

\* A process goes on and leaves the file and the provider as they are.
LEMMA QuietStep ==
    ASSUME FilesInv, NEW p \in AuthProcs, NEW w \in AuthWork, Goes(p, w), WorkFits(w), Merged(w),
           UNCHANGED <<doc, version, current, overlapped>>, mishap' \in BOOLEAN, mishap => mishap',
           \A owner \in Owners :
             (\A c \in DOMAIN doc : Issued(owner, c, doc[c])) /\ WorkIssued(owner, procs[p]) => WorkIssued(owner, w),
           Carries(w) => Carries(procs[p]) /\ w.mem = procs[p].mem,
           w.mem # NoToken => w.mem = procs[p].mem \/ \E c \in DOMAIN doc : w.mem = doc[c],
           mishap' \/ (Carries(procs[p]) => procs[p].cred \notin DOMAIN doc \/ (Carries(w) /\ w.cred = procs[p].cred))
    PROVE  FilesInv'
<1>1. /\ procs' \in [AuthProcs -> AuthWork] /\ procs'[p] = w
      /\ \A r \in AuthProcs : r # p => procs'[r] = procs[r]
  BY ProcGoes DEF FilesInv
<1>2. FilesTypes'
  BY <1>1 DEF FilesInv, FilesTypes
<1>3. \A r \in AuthProcs : WorkFits(procs'[r]) /\ Merged(procs[r])'
  BY <1>1 DEF FilesInv, Merged
<1>4. AllIssued'
  BY <1>1 DEF FilesInv, AllIssued, WorkIssued, Issued
<1>5. ASSUME ~overlapped', ~mishap' PROVE CopiesGood'
  <2>1. CopiesGood
    BY <1>5 DEF FilesInv, FilesTypes
  <2>2. ASSUME NEW r \in AuthProcs, Carries(procs'[r])
        PROVE  /\ Good(procs[r].mem)'
               /\ \A c \in DOMAIN doc : doc[c] # procs'[r].mem
               /\ \A s \in AuthProcs : s # r => procs'[s].mem # procs'[r].mem
    <3>1. Carries(procs[r]) /\ procs'[r].mem = procs[r].mem
      BY <1>1, <2>2
    <3>2. procs[r].mem # NoToken
      BY <3>1 DEF Carries
    <3> QED
      BY <1>1, <2>1, <3>1, <3>2 DEF CopiesGood, Good
  <2>3. ASSUME NEW c \in DOMAIN doc, doc[c] # NoToken, ~Good(doc[c])
        PROVE  \E r \in AuthProcs : Succeeds(procs'[r], c, doc[c])
    <3>1. PICK r \in AuthProcs : Succeeds(procs[r], c, doc[c])
      BY <2>1, <2>3 DEF CopiesGood
    <3>2. Carries(procs[r]) /\ procs[r].cred = c /\ procs[r].mem.g = doc[c].g
      BY <3>1 DEF Succeeds
    <3>3. Succeeds(procs'[r], c, doc[c])
      BY <1>1, <1>5, <3>2 DEF Succeeds
    <3> QED
      BY <3>3
  <2> QED
    BY <2>2, <2>3 DEF CopiesGood, Good
<1> QED
  BY <1>2, <1>3, <1>4, <1>5 DEF FilesInv

LEMMA GoesIdle ==
    ASSUME FilesInv, NEW p \in AuthProcs, Goes(p, Idle), UNCHANGED <<doc, version, current, overlapped>>,
           mishap' \in BOOLEAN, mishap => mishap',
           mishap' \/ (Carries(procs[p]) => procs[p].cred \notin DOMAIN doc)
    PROVE  FilesInv'
<1>1. Merged(Idle) /\ \A owner \in Owners : WorkIssued(owner, Idle)
  BY IdleIs DEF Merged, WorkIssued, Issued
<1> QED
  BY <1>1, IdleIs, QuietStep

\* What a process writes that has read the file just now.
LEMMA MergingStep ==
    ASSUME FilesInv, NEW p \in AuthProcs, NEW q \in AuthWork, q.cred \in Creds, NEW d \in Docs, Goes(p, Merging(q, d)),
           \A x \in DOMAIN d : IF x = q.cred
                               THEN d[x] = q.mem /\ (x \in DOMAIN doc \/ q.session # "none")
                               ELSE x \in DOMAIN doc /\ d[x] = doc[x],
           q.mem = NoToken \/ (q = procs[p] /\ q.pc \in {"owes", "removed"}),
           procs[p].pc \notin {"owes", "removed"} => procs[p].pc = "idle",
           procs[p].pc \in {"owes", "removed"} => q = procs[p],
           UNCHANGED <<doc, version, current, pending, redeemed, overlapped, mishap>>
    PROVE  FilesInv'
<1>1. PICK w : w = Merging(q, d)
  OBVIOUS
<1>2. PICK saving \in AuthPlaces : saving = "saving"
  BY DEF AuthPlaces
<1>3. version \in Nat /\ mishap \in BOOLEAN
  BY DEF FilesInv, FilesTypes
<1>4. w = [q EXCEPT !.pc = saving, !.doc = d, !.read = version]
  BY <1>1, <1>2 DEF Merging
<1>5. /\ w \in AuthWork /\ w.pc = "saving" /\ w.doc = d /\ w.read = version
      /\ w.cred = q.cred /\ w.mem = q.mem /\ w.session = q.session
  BY <1>2, <1>3, <1>4 DEF AuthWork
<1>6. Goes(p, w)
  BY <1>1
<1>7. Merged(w)
  BY <1>3, <1>5 DEF Merged
<1>8. WorkFits(w)
  BY <1>5 DEF WorkFits
<1>9. ASSUME NEW owner \in Owners, \A c \in DOMAIN doc : Issued(owner, c, doc[c]), WorkIssued(owner, procs[p])
      PROVE  WorkIssued(owner, w)
  <2>1. Issued(owner, q.cred, q.mem)
    BY <1>9 DEF WorkIssued, Issued
  <2>2. \A x \in DOMAIN d : Issued(owner, x, d[x])
    BY <1>9, <2>1
  <2> QED
    BY <1>5, <2>1, <2>2 DEF WorkIssued
<1>10. procs[p].pc = "idle" => ~Carries(procs[p])
  BY DEF Carries
<1>11. Carries(w) => Carries(procs[p]) /\ w.mem = procs[p].mem
  BY <1>5 DEF Carries
<1>12. Carries(procs[p]) => Carries(w) /\ w.cred = procs[p].cred
  BY <1>5, <1>10 DEF Carries
<1>13. w.mem # NoToken => w.mem = procs[p].mem
  BY <1>5
<1> QED
  BY <1>3, <1>5, <1>6, <1>7, <1>8, <1>9, <1>11, <1>12, <1>13, QuietStep

LEMMA LoadProfileStep ==
    ASSUME FilesInv, NEW p \in AuthProcs, NEW c \in Creds, LoadProfile(p, c)
    PROVE  FilesInv'
<1>1. doc \in Docs /\ c \in DOMAIN doc /\ doc[c] # NoToken /\ procs[p].pc = "idle" /\ mishap \in BOOLEAN
  BY DEF FilesInv, FilesTypes, LoadProfile
<1>2. doc[c] \in AuthTokens
  BY <1>1, DocIs
<1>3. PICK t \in AuthTokens : t = doc[c]
  BY <1>2
<1>4. PICK held \in AuthPlaces : held = "held"
  BY DEF AuthPlaces
<1>5. PICK w : w = [Idle EXCEPT !.pc = held, !.cred = c, !.mem = t]
  OBVIOUS
<1>6. w \in AuthWork /\ w.pc = "held" /\ w.cred = c /\ w.mem = t
  BY <1>4, <1>5, IdleIs DEF AuthWork
<1>7. Goes(p, w)
  BY <1>3, <1>4, <1>5 DEF LoadProfile
<1>8. WorkFits(w) /\ Merged(w) /\ ~Carries(w) /\ ~Carries(procs[p])
  BY <1>1, <1>3, <1>6 DEF WorkFits, Merged, Carries
<1>9. \A owner \in Owners : (\A x \in DOMAIN doc : Issued(owner, x, doc[x])) => WorkIssued(owner, w)
  BY <1>1, <1>3, <1>6 DEF WorkIssued
<1>10. UNCHANGED <<doc, version, current, pending, redeemed, overlapped, mishap>>
  BY DEF LoadProfile
<1> QED
  BY <1>1, <1>3, <1>6, <1>7, <1>8, <1>9, <1>10, QuietStep

LEMMA PersistStep ==
    ASSUME FilesInv, NEW p \in AuthProcs, PersistProfileIfNamed(p) \/ PersistLogin(p)
    PROVE  FilesInv'
<1>1. /\ procs[p] \in AuthWork /\ procs[p].pc \in {"owes", "removed"} /\ WorkFits(procs[p])
      /\ doc \in Docs /\ mishap \in BOOLEAN
  BY DEF FilesInv, FilesTypes, PersistProfileIfNamed, PersistLogin
<1>2. UNCHANGED <<doc, version, current, pending, redeemed, overlapped, mishap>>
  BY DEF PersistProfileIfNamed, PersistLogin
<1>3. CASE procs[p].pc = "owes" /\ procs[p].cred \notin DOMAIN doc
  <2>1. Goes(p, Idle)
    BY <1>3 DEF PersistProfileIfNamed, PersistLogin
  <2> QED
    BY <1>1, <1>2, <1>3, <2>1, GoesIdle
<1>4. CASE ~(procs[p].pc = "owes" /\ procs[p].cred \notin DOMAIN doc)
  <2>1. PICK c \in Creds : c = procs[p].cred
    BY <1>1 DEF WorkFits
  <2>2. PICK t \in AuthTokens : t = procs[p].mem
    BY <1>1 DEF AuthWork
  <2>3. PICK d : d = With(doc, c, t)
    OBVIOUS
  <2>4. d \in Docs /\ DOMAIN d = DOMAIN doc \cup {c} /\ d[c] = t /\ \A x \in DOMAIN doc : x # c => d[x] = doc[x]
    BY <1>1, <2>1, <2>2, <2>3, WithIs DEF With
  <2>5. Goes(p, Merging(procs[p], d))
    BY <1>4, <2>1, <2>2, <2>3 DEF PersistProfileIfNamed, PersistLogin
  <2>6. c \in DOMAIN doc \/ procs[p].session # "none"
    BY <1>1, <1>4, <2>1 DEF WorkFits
  <2> QED
    BY <1>1, <1>2, <2>1, <2>2, <2>4, <2>5, <2>6, MergingStep
<1> QED
  BY <1>3, <1>4

LEMMA RemoveOrLogoutStep ==
    ASSUME FilesInv, NEW p \in AuthProcs, NEW c \in Creds, NEW remove \in BOOLEAN, RemoveOrLogout(p, c, remove)
    PROVE  FilesInv'
<1>1. procs[p].pc = "idle" /\ c \in DOMAIN doc /\ doc \in Docs
  BY DEF FilesInv, FilesTypes, RemoveOrLogout
<1>2. UNCHANGED <<doc, version, current, pending, redeemed, overlapped, mishap>>
  BY DEF RemoveOrLogout
<1>3. PICK q : q = [Idle EXCEPT !.cred = c]
  OBVIOUS
<1>4. q \in AuthWork /\ q.cred = c /\ q.mem = NoToken
  BY <1>3, IdleIs DEF AuthWork
<1>5. PICK d : d = IF remove THEN Without(doc, c) ELSE With(doc, c, NoToken)
  OBVIOUS
<1>6. Goes(p, Merging(q, d))
  BY <1>3, <1>5 DEF RemoveOrLogout
<1>7. /\ d \in Docs
      /\ \A x \in DOMAIN d : x \in DOMAIN doc /\ d[x] = IF x = c THEN NoToken ELSE doc[x]
  <2>1. CASE remove
    BY <1>1, <1>5, <2>1, WithoutIs DEF Without
  <2>2. CASE ~remove
    <3>1. d = With(doc, c, NoToken) /\ NoToken \in AuthTokens
      BY <1>5, <2>2, IdleIs
    <3>2. d \in Docs /\ DOMAIN d = DOMAIN doc \cup {c} /\ d[c] = NoToken
          /\ \A x \in DOMAIN doc : x # c => d[x] = doc[x]
      BY <1>1, <3>1, WithIs DEF With
    <3> QED
      BY <1>1, <3>2
  <2> QED
    BY <2>1, <2>2
<1> QED
  BY <1>1, <1>2, <1>4, <1>6, <1>7, MergingStep

LEMMA SaveProfilesStep ==
    ASSUME FilesInv, NEW p \in AuthProcs, NEW keeps \in BOOLEAN, SaveProfiles(p, keeps)
    PROVE  FilesInv'
<1> DEFINE q == procs[p]
<1>1. /\ q \in AuthWork /\ q.pc = "saving" /\ WorkFits(q) /\ Merged(q) /\ version \in Nat
      /\ overlapped \in BOOLEAN /\ mishap \in BOOLEAN
  BY DEF FilesInv, FilesTypes, SaveProfiles
<1>2. /\ doc' = q.doc /\ version' = version + 1 /\ (overlapped' = (overlapped \/ version # q.read))
      /\ UNCHANGED <<current, pending, redeemed, mishap>>
  BY DEF SaveProfiles
<1>3. PICK held \in AuthPlaces : held = "held"
  BY DEF AuthPlaces
<1>4. PICK w : w = IF keeps THEN [Idle EXCEPT !.pc = held, !.cred = q.cred, !.mem = q.mem] ELSE Idle
  OBVIOUS
<1>5. /\ w \in AuthWork /\ w.pc \in {"idle", "held"}
      /\ IF w.pc = "held" THEN w.cred = q.cred /\ w.mem = q.mem ELSE w = Idle
      /\ w.pc = "held" => keeps
  <2>1. CASE keeps
    BY <1>1, <1>3, <1>4, <2>1, IdleIs DEF AuthWork
  <2>2. CASE ~keeps
    BY <1>4, <2>2, IdleIs
  <2> QED
    BY <2>1, <2>2
<1>6. Goes(p, w)
  BY <1>3, <1>4 DEF SaveProfiles
<1>7. /\ procs' \in [AuthProcs -> AuthWork] /\ procs'[p] = w
      /\ \A r \in AuthProcs : r # p => procs'[r] = procs[r]
  BY <1>5, <1>6, ProcGoes DEF FilesInv
<1>8. q.doc \in Docs
  BY <1>1 DEF AuthWork
<1>9. FilesTypes'
  BY <1>1, <1>2, <1>7, <1>8 DEF FilesInv, FilesTypes
<1>10. keeps => q.mem # NoToken
  BY DEF SaveProfiles
<1>11. WorkFits(w) /\ ~Carries(w)
  BY <1>1, <1>5, <1>10, IdleIs DEF WorkFits, Carries
<1>12. ASSUME NEW r \in AuthProcs PROVE WorkFits(procs'[r]) /\ Merged(procs[r])'
  <2>1. CASE r = p
    BY <1>5, <1>7, <1>11, <2>1 DEF Merged
  <2>2. CASE r # p
    <3>1. procs[r] \in AuthWork /\ WorkFits(procs[r]) /\ Merged(procs[r])
      BY DEF FilesInv, FilesTypes
    <3>2. procs[r].read \in Nat
      BY <3>1 DEF AuthWork
    <3> QED
      BY <1>1, <1>2, <1>7, <2>2, <3>1, <3>2 DEF Merged
  <2> QED
    BY <2>1, <2>2
<1>13. AllIssued'
  <2>1. PICK owner \in Owners : /\ \A c \in DOMAIN doc : Issued(owner, c, doc[c])
                                /\ \A r \in AuthProcs : WorkIssued(owner, procs[r])
    BY DEF FilesInv, AllIssued
  <2>2. WorkIssued(owner, q)
    BY <2>1
  <2>3. \A c \in DOMAIN doc' : Issued(owner, c, doc[c])'
    BY <1>1, <1>2, <2>2 DEF WorkIssued, Issued
  <2>4. WorkIssued(owner, w)
    BY <1>5, <2>2, IdleIs DEF WorkIssued, Issued
  <2>5. \A r \in AuthProcs : WorkIssued(owner, procs[r])'
    BY <1>2, <1>7, <2>1, <2>4 DEF WorkIssued, Issued
  <2> QED
    BY <2>3, <2>5 DEF AllIssued
<1>14. ASSUME ~overlapped', ~mishap' PROVE CopiesGood'
  <2>1. CopiesGood /\ q.read = version
    BY <1>1, <1>2, <1>14 DEF FilesInv
  <2>2. \A x \in DOMAIN q.doc : IF x = q.cred THEN q.doc[x] = q.mem ELSE x \in DOMAIN doc /\ q.doc[x] = doc[x]
    BY <1>1, <2>1 DEF Merged
  <2>3. ASSUME NEW r \in AuthProcs, Carries(procs'[r])
        PROVE  /\ Good(procs[r].mem)'
               /\ \A c \in DOMAIN doc' : doc'[c] # procs'[r].mem
               /\ \A s \in AuthProcs : s # r => procs'[s].mem # procs'[r].mem
    <3>1. r # p /\ procs'[r] = procs[r] /\ Carries(procs[r])
      BY <1>7, <1>11, <2>3
    <3>2. procs[r].mem # NoToken /\ procs[r].mem # q.mem
      BY <2>1, <3>1 DEF Carries, CopiesGood
    <3>3. w.mem \in {q.mem, NoToken}
      BY <1>5, IdleIs
    <3> QED
      BY <1>2, <1>7, <2>1, <2>2, <3>1, <3>2, <3>3 DEF CopiesGood, Good
  <2>4. ASSUME NEW c \in DOMAIN doc', doc'[c] # NoToken, ~Good(doc[c])'
        PROVE  \E r \in AuthProcs : Succeeds(procs'[r], c, doc'[c])
    <3>1. CASE c = q.cred
      <4>1. doc'[c] = q.mem /\ Carries(q)
        BY <1>1, <1>2, <2>2, <2>4, <3>1 DEF Carries
      <4> QED
        BY <1>2, <2>1, <2>4, <4>1 DEF CopiesGood, Good
    <3>2. CASE c # q.cred
      <4>1. c \in DOMAIN doc /\ doc'[c] = doc[c] /\ ~Good(doc[c])
        BY <1>2, <2>2, <2>4, <3>2 DEF Good
      <4>2. PICK r \in AuthProcs : Succeeds(procs[r], c, doc[c])
        BY <2>1, <2>4, <4>1 DEF CopiesGood
      <4>3. r # p
        BY <3>2, <4>2 DEF Succeeds
      <4> QED
        BY <1>7, <4>1, <4>2, <4>3
    <3> QED
      BY <3>1, <3>2
  <2> QED
    BY <1>2, <2>3, <2>4 DEF CopiesGood
<1> QED
  BY <1>9, <1>12, <1>13, <1>14 DEF FilesInv

\* The provider gives a process a token of a grant that nobody else can have.
LEMMA NewTokenStep ==
    ASSUME FilesInv, NEW p \in AuthProcs, NEW w \in AuthWork, Goes(p, w), WorkFits(w), w.pc \in {"owes", "redeemed"},
           w.cred = procs[p].cred, ~Carries(procs[p]),
           NEW g \in Grants, w.mem.g = g, w.mem.n = current[g] + 1,
           current' = [current EXCEPT ![g] = @ + 1],
           current[g] = 0 \/ procs[p].mem = [g |-> g, n |-> current[g]],
           UNCHANGED <<doc, version, overlapped, mishap>>
    PROVE  FilesInv'
<1>1. /\ procs' \in [AuthProcs -> AuthWork] /\ procs'[p] = w
      /\ \A r \in AuthProcs : r # p => procs'[r] = procs[r]
  BY ProcGoes DEF FilesInv
<1>2. /\ current \in [Grants -> Nat] /\ current' \in [Grants -> Nat] /\ current'[g] = current[g] + 1
      /\ \A h \in Grants : h # g => current'[h] = current[h]
      /\ doc \in Docs /\ g \in Nat
  BY DEF FilesInv, FilesTypes, Grants
<1>3. FilesTypes'
  BY <1>1, <1>2 DEF FilesInv, FilesTypes
<1>4. \A r \in AuthProcs : WorkFits(procs'[r]) /\ Merged(procs[r])'
  BY <1>1 DEF FilesInv, Merged
<1>5. PICK was \in Owners : /\ \A c \in DOMAIN doc : Issued(was, c, doc[c])
                            /\ \A r \in AuthProcs : WorkIssued(was, procs[r])
  BY DEF FilesInv, AllIssued
<1>6. PICK owner : owner = [was EXCEPT ![g] = w.cred]
  OBVIOUS
<1>7. /\ owner \in Owners /\ owner[g] = w.cred
      /\ \A h \in Grants : h # g => owner[h] = was[h]
  BY <1>6 DEF Owners, AuthWork
<1>8. current[g] # 0 => was[g] = w.cred
  <2> SUFFICES ASSUME current[g] # 0 PROVE was[g] = w.cred
    OBVIOUS
  <2>1. procs[p].mem.g = g /\ procs[p].mem.n = current[g]
    OBVIOUS
  <2>2. procs[p].mem # NoToken
    BY <2>1 DEF NoToken
  <2> QED
    BY <1>5, <2>1, <2>2 DEF WorkIssued, Issued
<1>9. ASSUME NEW c, NEW t \in AuthTokens, Issued(was, c, t)
      PROVE  /\ Issued(owner, c, t)'
             /\ t # w.mem
             /\ t # NoToken /\ t.g = g => c = w.cred
  <2>1. CASE t = NoToken
    BY <1>2, <2>1 DEF Issued, NoToken
  <2>2. CASE t # NoToken
    <3>1. t.g \in Grants /\ 1 <= t.n /\ t.n <= current[t.g] /\ was[t.g] = c /\ t.n \in Nat
      BY <1>9, <2>2 DEF Issued, AuthTokens
    <3>2. CASE t.g = g
      BY <1>2, <1>7, <1>8, <3>1, <3>2 DEF Issued
    <3>3. CASE t.g # g
      BY <1>2, <1>7, <3>1, <3>3 DEF Issued
    <3> QED
      BY <3>2, <3>3
  <2> QED
    BY <2>1, <2>2
<1>10. \A c \in DOMAIN doc : doc[c] \in AuthTokens
  BY <1>2, DocIs
<1>11. ASSUME NEW r \in AuthProcs
       PROVE  /\ procs[r].mem \in AuthTokens /\ procs[r].doc \in Docs
              /\ \A x \in DOMAIN procs[r].doc : procs[r].doc[x] \in AuthTokens
  <2>1. procs[r].mem \in AuthTokens /\ procs[r].doc \in Docs
    BY DEF FilesInv, FilesTypes, AuthWork
  <2> QED
    BY <2>1, DocIs
<1>12. AllIssued'
  <2>1. \A c \in DOMAIN doc : Issued(owner, c, doc[c])'
    BY <1>5, <1>9, <1>10
  <2>2. ASSUME NEW r \in AuthProcs, r # p PROVE WorkIssued(owner, procs[r])'
    <3>1. Issued(owner, procs[r].cred, procs[r].mem)'
      BY <1>1, <1>5, <1>9, <1>11, <2>2 DEF WorkIssued
    <3>2. procs[r].pc = "saving" => \A x \in DOMAIN procs[r].doc : Issued(was, x, procs[r].doc[x])
      BY <1>5 DEF WorkIssued
    <3>3. procs[r].pc = "saving" => \A x \in DOMAIN procs[r].doc : Issued(owner, x, procs[r].doc[x])'
      BY <1>1, <1>9, <1>11, <2>2, <3>2
    <3> QED
      BY <1>1, <2>2, <3>1, <3>3 DEF WorkIssued
  <2>3. WorkIssued(owner, w)'
    BY <1>2, <1>7 DEF WorkIssued, Issued
  <2> QED
    BY <1>1, <1>7, <2>1, <2>2, <2>3 DEF AllIssued
<1>13. ASSUME ~overlapped', ~mishap' PROVE CopiesGood'
  <2>1. CopiesGood
    BY <1>13 DEF FilesInv
  <2>2. w.mem # NoToken /\ Carries(w)
    BY DEF WorkFits, Carries
  <2>3. ASSUME NEW r \in AuthProcs, r # p, Carries(procs[r])
        PROVE  procs[r].mem.g # g /\ procs[r].mem.g \in Grants /\ current[procs[r].mem.g] = procs[r].mem.n
    <3>1. procs[r].mem # NoToken /\ Good(procs[r].mem) /\ procs[p].mem # procs[r].mem
      BY <2>1, <2>3 DEF CopiesGood, Carries
    <3>2. procs[r].mem.g \in Grants /\ 1 <= procs[r].mem.n
      BY <1>5, <3>1 DEF WorkIssued, Issued
    <3>3. CASE procs[r].mem.g = g
      <4>1. procs[r].mem.n = current[g] /\ procs[r].mem \in AuthTokens
        BY <1>11, <3>1, <3>3 DEF Good
      <4>2. procs[r].mem = [g |-> g, n |-> current[g]]
        BY <3>3, <4>1 DEF AuthTokens
      <4> QED
        BY <1>2, <3>1, <3>2, <4>1, <4>2
    <3> QED
      BY <3>1, <3>2, <3>3 DEF Good
  <2>4. ASSUME NEW r \in AuthProcs, Carries(procs'[r])
        PROVE  /\ Good(procs[r].mem)'
               /\ \A c \in DOMAIN doc : doc[c] # procs'[r].mem
               /\ \A s \in AuthProcs : s # r => procs'[s].mem # procs'[r].mem
    <3>1. CASE r = p
      <4>1. \A c \in DOMAIN doc : doc[c] # w.mem
        BY <1>5, <1>9, <1>10
      <4>2. \A s \in AuthProcs : procs[s].mem # w.mem
        BY <1>5, <1>9, <1>11 DEF WorkIssued
      <4> QED
        BY <1>1, <1>2, <3>1, <4>1, <4>2 DEF Good
    <3>2. CASE r # p
      <4>1. procs'[r] = procs[r] /\ Carries(procs[r])
        BY <1>1, <2>4, <3>2
      <4>2. procs[r].mem # w.mem
        BY <1>5, <1>9, <1>11 DEF WorkIssued
      <4>3. Good(procs[r].mem)'
        BY <1>2, <2>3, <3>2, <4>1 DEF Good
      <4> QED
        BY <1>1, <2>1, <4>1, <4>2, <4>3 DEF CopiesGood
    <3> QED
      BY <3>1, <3>2
  <2>5. ASSUME NEW c \in DOMAIN doc, doc[c] # NoToken, ~Good(doc[c])'
        PROVE  \E r \in AuthProcs : Succeeds(procs'[r], c, doc[c])
    <3>1. doc[c].g \in Grants
      BY <1>5, <2>5 DEF Issued
    <3>2. CASE doc[c].g = g
      <4>1. c = w.cred
        BY <1>5, <1>9, <1>10, <2>5, <3>2
      <4> QED
        BY <1>1, <2>2, <3>2, <4>1 DEF Succeeds
    <3>3. CASE doc[c].g # g
      <4>1. ~Good(doc[c])
        BY <1>2, <2>5, <3>1, <3>3 DEF Good
      <4>2. PICK r \in AuthProcs : Succeeds(procs[r], c, doc[c])
        BY <2>1, <2>5, <4>1 DEF CopiesGood
      <4>3. r # p
        BY <4>2 DEF Succeeds
      <4> QED
        BY <1>1, <4>2, <4>3
    <3> QED
      BY <3>2, <3>3
  <2> QED
    BY <2>4, <2>5 DEF CopiesGood
<1> QED
  BY <1>3, <1>4, <1>12, <1>13 DEF FilesInv

\* An answer of the provider that gets lost is a mishap.
LEMMA LostStep ==
    ASSUME FilesInv, NEW p \in AuthProcs, Goes(p, Idle), NEW g \in Grants, current' = [current EXCEPT ![g] = @ + 1],
           UNCHANGED <<doc, version, overlapped>>, mishap', mishap' \in BOOLEAN
    PROVE  FilesInv'
<1>1. /\ procs' \in [AuthProcs -> AuthWork] /\ procs'[p] = Idle
      /\ \A r \in AuthProcs : r # p => procs'[r] = procs[r]
  BY ProcGoes, IdleIs DEF FilesInv
<1>2. /\ current \in [Grants -> Nat] /\ current' \in [Grants -> Nat]
      /\ \A h \in Grants : current[h] <= current'[h]
  BY DEF FilesInv, FilesTypes
<1>3. FilesTypes'
  BY <1>1, <1>2 DEF FilesInv, FilesTypes
<1>4. \A r \in AuthProcs : WorkFits(procs'[r]) /\ Merged(procs[r])'
  BY <1>1, IdleIs DEF FilesInv, Merged
<1>5. ASSUME NEW owner, NEW c, NEW t \in AuthTokens, Issued(owner, c, t) PROVE Issued(owner, c, t)'
  BY <1>2, <1>5 DEF Issued, AuthTokens
<1>6. doc \in Docs /\ \A c \in DOMAIN doc : doc[c] \in AuthTokens
  BY DocIs DEF FilesInv, FilesTypes
<1>7. ASSUME NEW r \in AuthProcs, r # p, NEW owner, WorkIssued(owner, procs[r]) PROVE WorkIssued(owner, procs[r])'
  <2>1. procs[r].mem \in AuthTokens /\ procs[r].doc \in Docs
    BY DEF FilesInv, FilesTypes, AuthWork
  <2>2. \A x \in DOMAIN procs[r].doc : procs[r].doc[x] \in AuthTokens
    BY <2>1, DocIs
  <2>3. Issued(owner, procs[r].cred, procs[r].mem)'
    BY <1>1, <1>5, <1>7, <2>1 DEF WorkIssued
  <2>4. procs[r].pc = "saving" => \A x \in DOMAIN procs[r].doc : Issued(owner, x, procs[r].doc[x])'
    BY <1>1, <1>5, <1>7, <2>2 DEF WorkIssued
  <2> QED
    BY <1>1, <1>7, <2>3, <2>4 DEF WorkIssued
<1>8. \A owner : WorkIssued(owner, Idle)'
  BY IdleIs DEF WorkIssued, Issued
<1>9. AllIssued'
  <2>1. PICK owner \in Owners : /\ \A c \in DOMAIN doc : Issued(owner, c, doc[c])
                                /\ \A r \in AuthProcs : WorkIssued(owner, procs[r])
    BY DEF FilesInv, AllIssued
  <2>2. \A c \in DOMAIN doc : Issued(owner, c, doc[c])'
    BY <1>5, <1>6, <2>1
  <2>3. \A r \in AuthProcs : WorkIssued(owner, procs[r])'
    BY <1>1, <1>7, <1>8, <2>1
  <2> QED
    BY <2>1, <2>2, <2>3 DEF AllIssued
<1> QED
  BY <1>3, <1>4, <1>9 DEF FilesInv

LEMMA RefreshStep ==
    ASSUME FilesInv, NEW p \in AuthProcs, NEW arrives \in BOOLEAN, Refresh(p, arrives)
    PROVE  FilesInv'
<1> DEFINE q == procs[p]
<1>1. /\ q \in AuthWork /\ q.pc = "held" /\ WorkFits(q) /\ ~Carries(q) /\ mishap \in BOOLEAN
      /\ current \in [Grants -> Nat]
  BY DEF FilesInv, FilesTypes, Refresh, Carries
<1>2. UNCHANGED <<doc, version, pending, redeemed, overlapped>>
  BY DEF Refresh
<1>3. CASE current[q.mem.g] # q.mem.n
  <2>1. Goes(p, Idle) /\ UNCHANGED <<current, mishap>>
    BY <1>3 DEF Refresh
  <2> QED
    BY <1>1, <1>2, <2>1, GoesIdle
<1>4. CASE current[q.mem.g] = q.mem.n
  <2>1. q.mem \in AuthTokens /\ q.mem # NoToken
    BY <1>1 DEF AuthWork, WorkFits
  <2>2. q.mem.g \in Grants
    BY <2>1 DEF FilesInv, AllIssued, WorkIssued, Issued
  <2>3. PICK g \in Grants : g = q.mem.g
    BY <2>2
  <2>4. /\ current' = [current EXCEPT ![g] = @ + 1] /\ mishap' = (mishap \/ ~arrives)
    BY <1>4, <2>3 DEF Refresh
  <2>5. CASE arrives
    <3>1. PICK owes \in AuthPlaces : owes = "owes"
      BY DEF AuthPlaces
    <3>2. PICK t : t = [q.mem EXCEPT !.n = @ + 1]
      OBVIOUS
    <3>3. t \in AuthTokens /\ t.g = g /\ t.n = current[g] + 1 /\ t # NoToken
      BY <1>1, <1>4, <2>1, <2>3, <3>2 DEF AuthTokens, NoToken
    <3>4. PICK w : w = [q EXCEPT !.pc = owes, !.mem = t]
      OBVIOUS
    <3>5. w \in AuthWork /\ w.pc = "owes" /\ w.mem = t /\ w.cred = q.cred
      BY <1>1, <3>1, <3>3, <3>4 DEF AuthWork
    <3>6. Goes(p, w)
      BY <1>4, <2>5, <3>1, <3>2, <3>4 DEF Refresh
    <3>7. WorkFits(w)
      BY <1>1, <3>3, <3>5 DEF WorkFits
    <3>8. q.mem = [g |-> g, n |-> current[g]]
      BY <1>4, <2>1, <2>3 DEF AuthTokens
    <3>9. UNCHANGED mishap
      BY <1>1, <2>4, <2>5
    <3> QED
      BY <1>1, <1>2, <2>4, <3>3, <3>5, <3>6, <3>7, <3>8, <3>9, NewTokenStep
  <2>6. CASE ~arrives
    <3>1. mishap' = TRUE /\ Goes(p, Idle)
      BY <1>4, <2>4, <2>6 DEF Refresh
    <3> QED
      BY <1>1, <1>2, <2>3, <2>4, <3>1, LostStep
  <2> QED
    BY <2>5, <2>6
<1> QED
  BY <1>3, <1>4

LEMMA FinishLoginStep ==
    ASSUME FilesInv, NEW p \in AuthProcs, NEW answer, FinishLogin(p, answer)
    PROVE  FilesInv'
<1> DEFINE q == procs[p]
           new == {x \in Grants : current[x] = 0}
<1>1. /\ q \in AuthWork /\ q.pc = "completing" /\ WorkFits(q) /\ ~Carries(q) /\ mishap \in BOOLEAN
      /\ current \in [Grants -> Nat]
  BY DEF FilesInv, FilesTypes, FinishLogin, Carries
<1>2. UNCHANGED <<doc, version, overlapped>>
  BY DEF FinishLogin
<1>3. CASE current' # current
  <2>1. PICK g : g = CHOOSE x \in new : TRUE
    OBVIOUS
  <2>2. /\ new # {} /\ answer \in {"code", "lost"} /\ current' = [current EXCEPT ![g] = 1]
        /\ mishap' = (mishap \/ answer = "lost")
        /\ Goes(p, IF answer = "code" THEN [q EXCEPT !.pc = "redeemed", !.mem = [g |-> g, n |-> 1]] ELSE Idle)
    BY <1>3, <2>1 DEF FinishLogin
  <2>3. g \in new
    BY <2>1, <2>2
  <2>4. g \in Grants /\ current[g] = 0 /\ g \in Nat
    BY <2>3 DEF Grants
  <2>5. current' = [current EXCEPT ![g] = @ + 1]
    BY <2>2, <2>4
  <2>6. CASE answer = "code"
    <3>1. PICK t : t = [g |-> g, n |-> 1]
      OBVIOUS
    <3>2. t \in AuthTokens /\ t.g = g /\ t.n = current[g] + 1 /\ t # NoToken
      BY <2>4, <3>1 DEF AuthTokens, NoToken
    <3>3. PICK place \in AuthPlaces : place = "redeemed"
      BY DEF AuthPlaces
    <3>4. PICK w : w = [q EXCEPT !.pc = place, !.mem = t]
      OBVIOUS
    <3>5. w \in AuthWork /\ w.pc = "redeemed" /\ w.mem = t /\ w.cred = q.cred /\ w.session = q.session
      BY <1>1, <3>2, <3>3, <3>4 DEF AuthWork
    <3>6. Goes(p, w)
      BY <2>2, <2>6, <3>1, <3>3, <3>4
    <3>7. WorkFits(w)
      BY <1>1, <3>2, <3>5 DEF WorkFits
    <3>8. UNCHANGED mishap
      BY <1>1, <2>2, <2>6
    <3> QED
      BY <1>1, <1>2, <2>4, <2>5, <3>2, <3>5, <3>6, <3>7, <3>8, NewTokenStep
  <2>7. CASE answer = "lost"
    BY <1>1, <1>2, <2>2, <2>4, <2>5, <2>7, LostStep
  <2> QED
    BY <2>2, <2>6, <2>7
<1>4. CASE current' = current
  <2>1. ASSUME NEW g \in new, current' = [current EXCEPT ![g] = 1] PROVE FALSE
    BY <1>1, <1>4, <2>1
  <2>2. Goes(p, Idle) /\ UNCHANGED mishap
    BY <1>4, <2>1 DEF FinishLogin
  <2> QED
    BY <1>1, <1>2, <1>4, <2>2, GoesIdle
<1> QED
  BY <1>3, <1>4

LEMMA RemoveSessionStep ==
    ASSUME FilesInv, NEW p \in AuthProcs, NEW works \in BOOLEAN, RemoveSession(p, works)
    PROVE  FilesInv'
<1> DEFINE q == procs[p]
<1>1. /\ q \in AuthWork /\ q.pc = "redeemed" /\ WorkFits(q) /\ mishap \in BOOLEAN
      /\ UNCHANGED <<doc, version, current, overlapped>> /\ mishap' = (mishap \/ ~works)
  BY DEF FilesInv, FilesTypes, RemoveSession
<1>2. CASE works
  <2>1. PICK place \in AuthPlaces : place = "removed"
    BY DEF AuthPlaces
  <2>2. PICK w : w = [q EXCEPT !.pc = place]
    OBVIOUS
  <2>3. w \in AuthWork /\ w.pc = "removed" /\ w.mem = q.mem /\ w.cred = q.cred /\ w.session = q.session
    BY <1>1, <2>1, <2>2 DEF AuthWork
  <2>4. Goes(p, w)
    BY <1>2, <2>1, <2>2 DEF RemoveSession
  <2>5. WorkFits(w) /\ Merged(w) /\ Carries(w) /\ Carries(q)
    BY <1>1, <2>3 DEF WorkFits, Merged, Carries
  <2>6. \A owner \in Owners : WorkIssued(owner, q) => WorkIssued(owner, w)
    BY <2>3 DEF WorkIssued
  <2> QED
    BY <1>1, <1>2, <2>3, <2>4, <2>5, <2>6, QuietStep
<1>3. CASE ~works
  <2>1. Goes(p, Idle) /\ mishap'
    BY <1>1, <1>3 DEF RemoveSession
  <2> QED
    BY <1>1, <2>1, GoesIdle
<1> QED
  BY <1>2, <1>3

LEMMA DiesStep ==
    ASSUME FilesInv, NEW p \in AuthProcs, Dies(p)
    PROVE  FilesInv'
<1>1. mishap \in BOOLEAN
  BY DEF FilesInv, FilesTypes, Dies
<1>2. mishap' \in BOOLEAN /\ (mishap => mishap') /\ (mishap' \/ ~Carries(procs[p]))
  BY <1>1 DEF Dies, Carries
<1> QED
  BY <1>1, <1>2, GoesIdle DEF Dies

\* Files of pending logins alone.
LEMMA PendingStep ==
    ASSUME FilesInv, UNCHANGED <<doc, version, current, redeemed, procs, overlapped, mishap>>
    PROVE  FilesInv'
BY DEF FilesInv, FilesTypes, Merged, AllIssued, WorkIssued, Issued, CopiesGood, Good

LEMMA OAuthStartStep ==
    ASSUME FilesInv, NEW p \in AuthProcs, NEW s \in SessionIds, NEW c \in Creds, OAuthStart(p, s, c)
    PROVE  FilesInv'
BY PendingStep DEF OAuthStart

LEMMA OAuthCompleteStep ==
    ASSUME FilesInv, NEW p \in AuthProcs, NEW s \in SessionIds, NEW c \in Creds, OAuthComplete(p, s, c)
    PROVE  FilesInv'
<1>2. mishap \in BOOLEAN
  BY DEF FilesInv, FilesTypes
<1>3. CASE pending[s].expired
  BY <1>2, <1>3, PendingStep DEF OAuthComplete
<1>4. CASE ~pending[s].expired
  <2>1. PICK place \in AuthPlaces : place = "completing"
    BY DEF AuthPlaces
  <2>2. PICK w : w = [Idle EXCEPT !.pc = place, !.cred = c, !.session = s]
    OBVIOUS
  <2>3. w \in AuthWork /\ w.pc = "completing" /\ w.cred = c /\ w.session = s /\ w.mem = NoToken
    BY <2>1, <2>2, IdleIs DEF AuthWork
  <2>4. Goes(p, w) /\ procs[p].pc = "idle"
    BY <1>4, <2>1, <2>2 DEF OAuthComplete
  <2>5. WorkFits(w) /\ Merged(w) /\ ~Carries(w) /\ ~Carries(procs[p]) /\ \A owner \in Owners : WorkIssued(owner, w)
    BY <2>3, <2>4, AuthFilesAssumption DEF WorkFits, Merged, Carries, WorkIssued, Issued
  <2>6. UNCHANGED <<doc, version, current, overlapped, mishap>>
    BY DEF OAuthComplete
  <2> QED
    BY <1>2, <2>3, <2>4, <2>5, <2>6, QuietStep
<1> QED
  BY <1>3, <1>4

LEMMA SessionExpiresStep ==
    ASSUME FilesInv, NEW s \in SessionIds, SessionExpires(s)
    PROVE  FilesInv'
BY PendingStep DEF SessionExpires

LEMMA FilesNextPreserves == FilesInv /\ [AuthNext]_authVars => FilesInv'
<1> SUFFICES ASSUME FilesInv, [AuthNext]_authVars PROVE FilesInv'
  OBVIOUS
<1>1. CASE AuthNext
  BY <1>1, LoadProfileStep, RemoveOrLogoutStep, OAuthStartStep, OAuthCompleteStep, RefreshStep, SaveProfilesStep,
     PersistStep, FinishLoginStep, RemoveSessionStep, DiesStep, SessionExpiresStep DEF AuthNext
<1>2. CASE UNCHANGED authVars
  BY <1>2, PendingStep DEF authVars
<1> QED
  BY <1>1, <1>2

\* A spent login that still has its file: its grant's token is in no file, and in
\* no process but the one that holds the answer.
NotIn(g, d) == \A c \in DOMAIN d : d[c].g # g
SpentWork(s, q) == /\ q.mem.g = redeemed[s] => q.pc = "redeemed" /\ q.session = s
                   /\ q.pc = "saving" => NotIn(redeemed[s], q.doc)
Spent(s) == /\ redeemed[s] \in Grants /\ current[redeemed[s]] # 0
            /\ s \in DOMAIN pending => NotIn(redeemed[s], doc) /\ \A p \in AuthProcs : SpentWork(s, procs[p])
SpentInv == \A s \in DOMAIN redeemed : Spent(s)

LEMMA SpentInvIsTrue == SpentInv => SpentLoginGone
BY DEF SpentInv, Spent, SpentWork, NotIn, SpentLoginGone

LEMMA SpentInitEstablishes == AuthInit => SpentInv
BY DEF AuthInit, SpentInv

\* A process goes on and redeems nothing.
LEMMA SpentStep ==
    ASSUME FilesInv, SpentInv, NEW p \in AuthProcs, NEW w, Goes(p, w), UNCHANGED redeemed,
           \A g \in Grants : current[g] # 0 => current'[g] # 0, DOMAIN pending' \subseteq DOMAIN pending,
           \A s \in DOMAIN pending' \cap DOMAIN redeemed :
             redeemed[s] \in Grants /\ NotIn(redeemed[s], doc) /\ SpentWork(s, procs[p])
             => NotIn(redeemed[s], doc') /\ SpentWork(s, w)
    PROVE  SpentInv'
<1>1. procs'[p] = w /\ \A r \in AuthProcs : r # p => procs'[r] = procs[r]
  BY DEF FilesInv, FilesTypes, Goes
<1> SUFFICES ASSUME NEW s \in DOMAIN redeemed PROVE Spent(s)'
  BY DEF SpentInv
<1>2. redeemed[s] \in Grants /\ current'[redeemed[s]] # 0
  BY DEF SpentInv, Spent
<1>3. ASSUME s \in DOMAIN pending'
      PROVE  NotIn(redeemed[s], doc') /\ \A r \in AuthProcs : SpentWork(s, procs'[r])
  <2>1. NotIn(redeemed[s], doc) /\ \A r \in AuthProcs : SpentWork(s, procs[r])
    BY <1>3 DEF SpentInv, Spent
  <2>2. NotIn(redeemed[s], doc') /\ SpentWork(s, w)
    BY <1>2, <1>3, <2>1
  <2> QED
    BY <1>1, <2>1, <2>2
<1> QED
  BY <1>2, <1>3 DEF Spent, SpentWork, NotIn

LEMMA SpentIdle == \A s : redeemed[s] \in Grants => SpentWork(s, Idle)
BY DEF Idle, NoToken, Grants, SpentWork

\* What a process writes that holds no token of a spent login's grant.
LEMMA SpentMerging ==
    ASSUME FilesInv, SpentInv, NEW p \in AuthProcs, NEW q \in AuthWork, NEW d,
           Goes(p, Merging(q, d)), UNCHANGED <<doc, current, pending, redeemed>>,
           q.mem = NoToken \/ (q = procs[p] /\ q.pc # "redeemed"),
           \A x \in DOMAIN d : d[x] = q.mem \/ (x \in DOMAIN doc /\ d[x] = doc[x])
    PROVE  SpentInv'
<1>1. PICK w : w = Merging(q, d)
  OBVIOUS
<1>2. w.mem = q.mem /\ w.doc = d /\ w.pc = "saving" /\ Goes(p, w)
  BY <1>1 DEF Merging, AuthWork
<1>3. ASSUME NEW s, redeemed[s] \in Grants, NotIn(redeemed[s], doc), SpentWork(s, procs[p])
      PROVE  SpentWork(s, w)
  <2>1. q.mem.g # redeemed[s]
    BY <1>3 DEF SpentWork, NoToken, Grants
  <2> QED
    BY <1>2, <1>3, <2>1 DEF SpentWork, NotIn
<1> QED
  BY <1>2, <1>3, SpentStep

LEMMA SpentNextPreserves == FilesInv /\ SpentInv /\ [AuthNext]_authVars => SpentInv'
<1> SUFFICES ASSUME FilesInv, SpentInv, [AuthNext]_authVars PROVE SpentInv'
  OBVIOUS
<1>types. procs \in [AuthProcs -> AuthWork] /\ doc \in Docs /\ current \in [Grants -> Nat]
  BY DEF FilesInv, FilesTypes
<1>1. ASSUME NEW p \in AuthProcs, NEW c \in Creds, LoadProfile(p, c) PROVE SpentInv'
  <2>1. PICK w : w = [Idle EXCEPT !.pc = "held", !.cred = c, !.mem = doc[c]]
    OBVIOUS
  <2>2. w.pc = "held" /\ w.mem = doc[c] /\ Goes(p, w) /\ c \in DOMAIN doc
        /\ UNCHANGED <<doc, current, pending, redeemed>>
    BY <1>1, <2>1 DEF LoadProfile, Idle
  <2>3. ASSUME NEW s, NotIn(redeemed[s], doc) PROVE SpentWork(s, w)
    BY <2>2, <2>3 DEF SpentWork, NotIn
  <2> QED
    BY <2>2, <2>3, SpentStep
<1>2. ASSUME NEW p \in AuthProcs, NEW c \in Creds, NEW remove \in BOOLEAN, RemoveOrLogout(p, c, remove) PROVE SpentInv'
  <2>1. PICK q : q = [Idle EXCEPT !.cred = c]
    OBVIOUS
  <2>2. q \in AuthWork /\ q.mem = NoToken
    BY <2>1, IdleIs DEF AuthWork
  <2>3. PICK d : d = IF remove THEN Without(doc, c) ELSE With(doc, c, NoToken)
    OBVIOUS
  <2>4. Goes(p, Merging(q, d)) /\ UNCHANGED <<doc, current, pending, redeemed>>
    BY <1>2, <2>1, <2>3 DEF RemoveOrLogout
  <2>5. \A x \in DOMAIN d : d[x] = NoToken \/ (x \in DOMAIN doc /\ d[x] = doc[x])
    BY <2>3 DEF With, Without
  <2> QED
    BY <2>2, <2>4, <2>5, SpentMerging
<1>3. ASSUME NEW p \in AuthProcs, NEW s \in SessionIds, NEW c \in Creds, OAuthStart(p, s, c) PROVE SpentInv'
  <2>1. DOMAIN pending' \subseteq DOMAIN pending \cup {s} /\ s \notin DOMAIN redeemed
        /\ UNCHANGED <<doc, current, procs, redeemed>>
    BY <1>3 DEF OAuthStart
  <2> QED
    BY <2>1 DEF SpentInv, Spent, SpentWork, NotIn
<1>4. ASSUME NEW p \in AuthProcs, NEW s \in SessionIds, NEW c \in Creds, OAuthComplete(p, s, c) PROVE SpentInv'
  <2>1. DOMAIN pending' \subseteq DOMAIN pending /\ UNCHANGED <<doc, current, redeemed>>
    BY <1>4 DEF OAuthComplete, Without
  <2>2. CASE UNCHANGED procs
    BY <2>1, <2>2 DEF SpentInv, Spent, SpentWork, NotIn
  <2>3. CASE ~UNCHANGED procs
    <3>1. PICK w : w = [Idle EXCEPT !.pc = "completing", !.cred = c, !.session = s]
      OBVIOUS
    <3>2. w.pc = "completing" /\ w.mem = NoToken /\ Goes(p, w)
      BY <1>4, <2>3, <3>1 DEF OAuthComplete, Idle
    <3>3. \A x : redeemed[x] \in Grants => SpentWork(x, w)
      BY <3>2 DEF SpentWork, NoToken, Grants
    <3> QED
      BY <2>1, <3>2, <3>3, SpentStep
  <2> QED
    BY <2>2, <2>3
<1>5. ASSUME NEW p \in AuthProcs, NEW arrives \in BOOLEAN, Refresh(p, arrives) PROVE SpentInv'
  <2>1. /\ procs[p].pc = "held" /\ UNCHANGED <<doc, pending, redeemed>> /\ procs[p] \in AuthWork
        /\ \A g \in Grants : current[g] # 0 => current'[g] # 0
    BY <1>5, <1>types DEF Refresh
  <2>2. CASE Goes(p, Idle)
    BY <2>1, <2>2, SpentIdle, SpentStep
  <2>3. CASE ~Goes(p, Idle)
    <3>1. PICK w : w = [procs[p] EXCEPT !.pc = "owes", !.mem.n = @ + 1]
      OBVIOUS
    <3>2. w.pc = "owes" /\ w.mem.g = procs[p].mem.g
      BY <2>1, <3>1 DEF AuthWork, AuthTokens
    <3>3. Goes(p, w)
      BY <1>5, <2>3, <3>1 DEF Refresh
    <3>4. ASSUME NEW s, SpentWork(s, procs[p]) PROVE SpentWork(s, w)
      BY <2>1, <3>2, <3>4 DEF SpentWork
    <3> QED
      BY <2>1, <3>3, <3>4, SpentStep
  <2> QED
    BY <2>2, <2>3
<1>6. ASSUME NEW p \in AuthProcs, NEW keeps \in BOOLEAN, SaveProfiles(p, keeps) PROVE SpentInv'
  <2>1. /\ procs[p].pc = "saving" /\ doc' = procs[p].doc /\ UNCHANGED <<current, pending, redeemed>>
        /\ procs[p] \in AuthWork
    BY <1>6, <1>types DEF SaveProfiles
  <2>2. PICK w : w = IF keeps THEN [Idle EXCEPT !.pc = "held", !.cred = procs[p].cred, !.mem = procs[p].mem] ELSE Idle
    OBVIOUS
  <2>3. w.pc # "saving" /\ w.mem \in {NoToken, procs[p].mem} /\ Goes(p, w)
    BY <1>6, <2>2 DEF SaveProfiles, Idle
  <2>4. ASSUME NEW s, redeemed[s] \in Grants, SpentWork(s, procs[p])
        PROVE  NotIn(redeemed[s], doc') /\ SpentWork(s, w)
    BY <2>1, <2>3, <2>4 DEF SpentWork, NoToken, Grants
  <2> QED
    BY <2>1, <2>3, <2>4, SpentStep
<1>7. ASSUME NEW p \in AuthProcs, PersistProfileIfNamed(p) \/ PersistLogin(p) PROVE SpentInv'
  <2>1. procs[p].pc \in {"owes", "removed"} /\ UNCHANGED <<doc, current, pending, redeemed>> /\ procs[p] \in AuthWork
    BY <1>7, <1>types DEF PersistProfileIfNamed, PersistLogin
  <2>2. PICK d : d = With(doc, procs[p].cred, procs[p].mem)
    OBVIOUS
  <2>3. \A x \in DOMAIN d : d[x] = procs[p].mem \/ (x \in DOMAIN doc /\ d[x] = doc[x])
    BY <2>2 DEF With
  <2>4. Goes(p, Idle) \/ Goes(p, Merging(procs[p], d))
    BY <1>7, <2>2 DEF PersistProfileIfNamed, PersistLogin
  <2>5. CASE Goes(p, Idle)
    BY <2>1, <2>5, SpentIdle, SpentStep
  <2>6. CASE Goes(p, Merging(procs[p], d))
    BY <2>1, <2>3, <2>6, SpentMerging
  <2> QED
    BY <2>4, <2>5, <2>6
<1>8. ASSUME NEW p \in AuthProcs, NEW answer, FinishLogin(p, answer) PROVE SpentInv'
  <2> DEFINE q == procs[p]
             new == {x \in Grants : current[x] = 0}
  <2>1. q.pc = "completing" /\ UNCHANGED doc /\ DOMAIN pending' \subseteq DOMAIN pending /\ q \in AuthWork
    BY <1>8, <1>types DEF FinishLogin, Without
  <2>2. CASE UNCHANGED redeemed /\ UNCHANGED current /\ Goes(p, Idle)
    BY <2>1, <2>2, SpentIdle, SpentStep
  <2>3. CASE ~(UNCHANGED redeemed /\ UNCHANGED current /\ Goes(p, Idle))
    <3>1. PICK g : g = CHOOSE x \in new : TRUE
      OBVIOUS
    <3>2. PICK w : w = IF answer = "code" THEN [q EXCEPT !.pc = "redeemed", !.mem = [g |-> g, n |-> 1]] ELSE Idle
      OBVIOUS
    <3>3. /\ new # {} /\ redeemed' = With(redeemed, q.session, g) /\ q.session \notin DOMAIN redeemed
          /\ current' = [current EXCEPT ![g] = 1] /\ Goes(p, w)
      BY <1>8, <2>3, <3>1, <3>2 DEF FinishLogin
    <3>4. g \in Grants /\ current[g] = 0
      BY <3>1, <3>3
    <3>5. /\ w.mem.g \in {0, g} /\ w.pc # "saving"
          /\ w.mem.g = g => w.pc = "redeemed" /\ w.session = q.session
      BY <2>1, <3>2, <3>4 DEF Idle, NoToken, AuthWork, Grants
    <3>6. procs'[p] = w /\ \A r \in AuthProcs : r # p => procs'[r] = procs[r]
      BY <1>types, <3>3 DEF Goes
    <3>7. current'[g] # 0 /\ \A h \in Grants : current[h] # 0 => current'[h] # 0
      BY <1>types, <3>3, <3>4
    <3>8. ASSUME NEW owner, NEW c, NEW t \in AuthTokens, Issued(owner, c, t) PROVE t.g # g
      BY <1>types, <3>4, <3>8 DEF Issued, NoToken, Grants, AuthTokens
    <3>9. PICK owner \in Owners : /\ \A c \in DOMAIN doc : Issued(owner, c, doc[c])
                                  /\ \A r \in AuthProcs : WorkIssued(owner, procs[r])
      BY DEF FilesInv, AllIssued
    <3>10. /\ NotIn(g, doc)
           /\ \A r \in AuthProcs : procs[r].mem.g # g /\ (procs[r].pc = "saving" => NotIn(g, procs[r].doc))
      <4>1. \A c \in DOMAIN doc : doc[c].g # g
        BY <1>types, <3>8, <3>9, DocIs
      <4>2. ASSUME NEW r \in AuthProcs
            PROVE  procs[r].mem.g # g /\ (procs[r].pc = "saving" => NotIn(g, procs[r].doc))
        <5>1. procs[r].mem \in AuthTokens /\ \A c \in DOMAIN procs[r].doc : procs[r].doc[c] \in AuthTokens
          BY <1>types, DocIs DEF AuthWork
        <5> QED
          BY <3>8, <3>9, <5>1 DEF NotIn, WorkIssued
      <4> QED
        BY <4>1, <4>2 DEF NotIn
    <3>11. ASSUME NEW s \in DOMAIN redeemed' PROVE Spent(s)'
      <4>1. CASE s = q.session
        <5>1. redeemed'[s] = g
          BY <3>3, <4>1 DEF With
        <5> QED
          BY <2>1, <3>4, <3>5, <3>6, <3>7, <3>10, <4>1, <5>1 DEF Spent, SpentWork, NotIn
      <4>2. CASE s # q.session
        <5>1. s \in DOMAIN redeemed /\ redeemed'[s] = redeemed[s]
          BY <3>3, <3>11, <4>2 DEF With
        <5>2. redeemed[s] \in Grants /\ current[redeemed[s]] # 0 /\ redeemed[s] # g /\ redeemed[s] # 0
          BY <3>4, <5>1 DEF SpentInv, Spent, Grants
        <5>3. SpentWork(s, procs[p])'
          BY <3>5, <3>6, <5>1, <5>2 DEF SpentWork
        <5>4. s \in DOMAIN pending => NotIn(redeemed[s], doc) /\ \A r \in AuthProcs : SpentWork(s, procs[r])
          BY <5>1 DEF SpentInv, Spent
        <5>5. s \in DOMAIN pending => \A r \in AuthProcs : SpentWork(s, procs[r])'
          BY <3>6, <5>1, <5>3, <5>4 DEF SpentWork
        <5> QED
          BY <2>1, <3>7, <5>1, <5>2, <5>4, <5>5 DEF Spent, NotIn
      <4> QED
        BY <4>1, <4>2
    <3> QED
      BY <3>11 DEF SpentInv
  <2> QED
    BY <2>2, <2>3
<1>9. ASSUME NEW p \in AuthProcs, NEW works \in BOOLEAN, RemoveSession(p, works) PROVE SpentInv'
  <2> DEFINE q == procs[p]
  <2>1. q.pc = "redeemed" /\ UNCHANGED <<doc, current, redeemed>> /\ q \in AuthWork
        /\ DOMAIN pending' \subseteq DOMAIN pending
    BY <1>9, <1>types DEF RemoveSession, Without
  <2>2. CASE Goes(p, Idle)
    BY <2>1, <2>2, SpentIdle, SpentStep
  <2>3. CASE ~Goes(p, Idle)
    <3>1. PICK w : w = [q EXCEPT !.pc = "removed"]
      OBVIOUS
    <3>2. w.pc = "removed" /\ w.mem = q.mem
      BY <2>1, <3>1 DEF AuthWork
    <3>3. Goes(p, w) /\ q.session \notin DOMAIN pending'
      BY <1>9, <2>3, <3>1 DEF RemoveSession, Without
    <3>4. ASSUME NEW s \in DOMAIN pending', SpentWork(s, q) PROVE SpentWork(s, w)
      BY <3>2, <3>3, <3>4 DEF SpentWork
    <3> QED
      BY <2>1, <3>3, <3>4, SpentStep
  <2> QED
    BY <2>2, <2>3
<1>10. ASSUME NEW p \in AuthProcs, Dies(p) PROVE SpentInv'
  <2>1. Goes(p, Idle) /\ UNCHANGED <<doc, current, pending, redeemed>>
    BY <1>10 DEF Dies
  <2> QED
    BY <2>1, SpentIdle, SpentStep
<1>11. ASSUME NEW s \in SessionIds, SessionExpires(s) PROVE SpentInv'
  <2>1. DOMAIN pending' = DOMAIN pending /\ UNCHANGED <<doc, current, procs, redeemed>>
    BY <1>11 DEF SessionExpires
  <2> QED
    BY <2>1 DEF SpentInv, Spent, SpentWork, NotIn
<1>12. CASE UNCHANGED authVars
  BY <1>12 DEF authVars, SpentInv, Spent, SpentWork, NotIn
<1> QED
  BY <1>1, <1>2, <1>3, <1>4, <1>5, <1>6, <1>7, <1>8, <1>9, <1>10, <1>11, <1>12 DEF AuthNext

\* What RemovedStaysRemoved says of a step.
LEMMA OnlyLoginsAdd ==
    ASSUME FilesInv, [AuthNext]_authVars, NEW c \in DOMAIN doc' \ DOMAIN doc
    PROVE  overlapped' \/ \E p \in AuthProcs : procs[p].cred = c /\ procs[p].session # "none"
<1>1. PICK p \in AuthProcs, keeps \in BOOLEAN : SaveProfiles(p, keeps)
  BY DEF AuthNext, authVars, LoadProfile, RemoveOrLogout, OAuthStart, OAuthComplete, Refresh,
         PersistProfileIfNamed, PersistLogin, FinishLogin, RemoveSession, Dies, SessionExpires
<1>2. /\ procs[p].pc = "saving" /\ doc' = procs[p].doc
      /\ (overlapped' = (overlapped \/ version # procs[p].read))
      /\ Merged(procs[p]) /\ overlapped \in BOOLEAN
  BY <1>1 DEF SaveProfiles, FilesInv, FilesTypes
<1>3. CASE version # procs[p].read
  BY <1>2, <1>3
<1>4. CASE version = procs[p].read
  BY <1>2, <1>4 DEF Merged
<1> QED
  BY <1>3, <1>4

-----------------------------------------------------------------------------
(* The import.  What it holds in memory extends what it loaded, as long as   *)
(* nothing is forced, and has every credential that its bindings name.       *)

\* A sequence of bindings; a store that has all that another has; the bindings'
\* credentials are stored.
IsBindings(b) == /\ \E S : b \in Seq(S)
                 /\ \A k \in DOMAIN b : b[k] = [id |-> b[k].id, target |-> b[k].target, cred |-> b[k].cred]
Grows(f, g) == \A x \in DOMAIN f : x \in DOMAIN g /\ g[x] = f[x]
Stored(b, profs) == \A k \in DOMAIN b : b[k].cred \in DOMAIN profs

ImpInv ==
    /\ impMem = [profs |-> impMem.profs, binds |-> impMem.binds, seen |-> impMem.seen]
    /\ IsBindings(bindFile) /\ IsBindings(impMem.binds)
    /\ impPc \in {"idle", "servers", "profiles", "bindings", "done"}
    /\ BindingsNameCredentials
    /\ impPc \in {"servers", "profiles"} =>
         /\ Stored(impMem.binds, impMem.profs) /\ DOMAIN profFile \subseteq DOMAIN impMem.profs
         /\ ~impForce => Grows(profFile, impMem.profs)
    /\ impPc = "bindings" => Stored(impMem.binds, profFile)
    /\ impPc \in {"servers", "profiles", "bindings"} /\ ~impForce => IsPrefix(bindFile, impMem.binds)

LEMMA PrefixIs ==
    ASSUME NEW S, NEW b \in Seq(S)
    PROVE  IsPrefix(b, b)
BY DEF IsPrefix

LEMMA PrefixAppend ==
    ASSUME NEW S, NEW b \in Seq(S), NEW c \in Seq(S), IsPrefix(b, c), NEW e \in S
    PROVE  IsPrefix(b, Append(c, e))
BY DEF IsPrefix

LEMMA SeqWider ==
    ASSUME NEW S, NEW T, NEW b \in Seq(S)
    PROVE  b \in Seq(S \cup T)
OBVIOUS

LEMMA CredentialIs ==
    ASSUME NEW s, NEW mem, NEW c \in ResolveCredential(s, mem)
    PROVE  /\ DOMAIN mem.profs \subseteq DOMAIN c.profs
           /\ ~impForce => Grows(mem.profs, c.profs)
           /\ c.id # <<>> => c.id[1] \in DOMAIN c.profs
<1> DEFINE id == CredentialId(s.name)
           equal == EquivalentIds(mem.profs, s.cred[1])
<1>1. CASE c.profs = mem.profs /\ c.id = <<>>
  BY <1>1 DEF Grows
<1>2. CASE \E i \in equal : c.id = <<i>> /\ c.profs = mem.profs
  BY <1>2 DEF Grows, EquivalentIds
<1>3. CASE c.id = <<id>> /\ c.profs = Put(mem.profs, id, s.cred[1]) /\ (id \in DOMAIN mem.profs => impForce)
  <2> HIDE DEF id
  <2> QED
    BY <1>3 DEF Grows, Put
<1>4. \/ c.profs = mem.profs /\ c.id = <<>>
      \/ \E i \in equal : c.id = <<i>> /\ c.profs = mem.profs
      \/ c.id = <<id>> /\ c.profs = Put(mem.profs, id, s.cred[1]) /\ (id \in DOMAIN mem.profs => impForce)
  <2> HIDE DEF id, equal
  <2>1. c \in CASE s.cred = <<>> -> {[id |-> <<>>, profs |-> mem.profs, error |-> FALSE]}
         [] s.cred # <<>> /\ equal # {} -> {[id |-> <<i>>, profs |-> mem.profs, error |-> FALSE] : i \in equal}
         [] s.cred # <<>> /\ equal = {} /\ id \in DOMAIN mem.profs /\ ~impForce ->
              {[id |-> <<>>, profs |-> mem.profs, error |-> TRUE]}
         [] OTHER -> {[id |-> <<id>>, profs |-> Put(mem.profs, id, s.cred[1]), error |-> FALSE]}
    BY DEF ResolveCredential, id, equal
  <2> QED
    BY <2>1
<1> QED
  BY <1>1, <1>2, <1>3, <1>4

LEMMA BindingIs ==
    ASSUME NEW s, NEW id, NEW mem, NEW profs, IsBindings(mem.binds), Stored(mem.binds, profs),
           id # <<>> => id[1] \in DOMAIN profs, NEW b, b = ResolveBinding(s, id, mem)
    PROVE  /\ IsBindings(b.binds) /\ Stored(b.binds, profs)
           /\ ~impForce => \A f : IsBindings(f) /\ IsPrefix(f, mem.binds) => IsPrefix(f, b.binds)
<1> DEFINE there == {k \in DOMAIN mem.binds : mem.binds[k].target = s.binding[1]}
           new == UniqueIdentifier(CredentialId(s.name), {mem.binds[k].id : k \in DOMAIN mem.binds})
           e == [id |-> new, target |-> s.binding[1], cred |-> id[1]]
<1>1. \/ b.binds = mem.binds
      \/ impForce /\ id # <<>> /\ b.binds = [mem.binds EXCEPT ![Min(there)].cred = id[1]]
      \/ id # <<>> /\ b.binds = Append(mem.binds, e)
  BY DEF ResolveBinding
<1>2. PICK S : mem.binds \in Seq(S)
  BY DEF IsBindings
<1>3. CASE b.binds = mem.binds
  BY <1>3
<1>4. CASE impForce /\ id # <<>> /\ b.binds = [mem.binds EXCEPT ![Min(there)].cred = id[1]]
  <2>1. PICK i : i = Min(there)
    OBVIOUS
  <2>2. PICK u : u = [mem.binds[i] EXCEPT !.cred = id[1]]
    OBVIOUS
  <2>3. b.binds = [mem.binds EXCEPT ![i] = u]
    BY <1>4, <2>1, <2>2
  <2>4. b.binds \in Seq(S \cup {u})
    <3>1. PICK X : X = S \cup {u}
      OBVIOUS
    <3>2. mem.binds \in Seq(X) /\ u \in X
      BY <1>2, <3>1
    <3>3. PICK n \in Nat : n = Len(mem.binds)
      BY <1>2
    <3>4. mem.binds \in [1 .. n -> X]
      BY <3>2, <3>3
    <3>5. b.binds \in [1 .. n -> X]
      BY <2>3, <3>2, <3>4
    <3>6. b.binds \in Seq(X)
      BY <3>5
    <3> QED
      BY <3>1, <3>6
  <2>5. \A k \in DOMAIN b.binds : b.binds[k] = IF k = i THEN u ELSE mem.binds[k]
    BY <1>2, <2>3
  <2>6. DOMAIN b.binds = DOMAIN mem.binds
    BY <1>2, <2>3
  <2>7. i \in DOMAIN mem.binds => u.cred = id[1] /\ u = [id |-> u.id, target |-> u.target, cred |-> u.cred]
    <3> SUFFICES ASSUME i \in DOMAIN mem.binds
                 PROVE  u.cred = id[1] /\ u = [id |-> u.id, target |-> u.target, cred |-> u.cred]
      OBVIOUS
    <3>1. PICK x, t, c : mem.binds[i] = [id |-> x, target |-> t, cred |-> c]
      BY DEF IsBindings
    <3>2. u = [id |-> x, target |-> t, cred |-> id[1]]
      BY <2>2, <3>1
    <3> QED
      BY <3>2
  <2>8. IsBindings(b.binds)
    BY <2>4, <2>5, <2>6, <2>7 DEF IsBindings
  <2>9. Stored(b.binds, profs)
    BY <1>4, <2>5, <2>6, <2>7 DEF Stored
  <2> QED
    BY <1>4, <2>8, <2>9
<1>5. CASE id # <<>> /\ b.binds = Append(mem.binds, e)
  <2>1. PICK u : u = e
    OBVIOUS
  <2>2. u.cred = id[1] /\ u = [id |-> u.id, target |-> u.target, cred |-> u.cred]
    BY <2>1
  <2> HIDE DEF e
  <2>3. /\ b.binds \in Seq(S \cup {u}) /\ DOMAIN b.binds = DOMAIN mem.binds \cup {Len(mem.binds) + 1}
        /\ b.binds[Len(mem.binds) + 1] = u /\ \A k \in DOMAIN mem.binds : b.binds[k] = mem.binds[k]
    BY <1>2, <1>5, <2>1
  <2>4. IsBindings(b.binds)
    BY <2>2, <2>3 DEF IsBindings
  <2>5. Stored(b.binds, profs)
    BY <1>5, <2>2, <2>3 DEF Stored
  <2>6. ASSUME NEW f, IsBindings(f), IsPrefix(f, mem.binds) PROVE IsPrefix(f, b.binds)
    <3>1. PICK T : f \in Seq(T)
      BY <2>6 DEF IsBindings
    <3>2. PICK X : X = S \cup T \cup {u}
      OBVIOUS
    <3>3. f \in Seq(X) /\ mem.binds \in Seq(X) /\ u \in X
      BY <1>2, <3>1, <3>2
    <3>4. IsPrefix(f, Append(mem.binds, u))
      BY <2>6, <3>3, PrefixAppend
    <3> QED
      BY <1>5, <2>1, <3>4
  <2> QED
    BY <2>4, <2>5, <2>6
<1> QED
  BY <1>1, <1>3, <1>4, <1>5

\* A shortcut that is there stays, unless it is one of ours and --force was given.
LEMMA LinkIs ==
    ASSUME NEW s, NEW id, NEW mem, NEW dir, NEW l, l = ResolveLink(s, id, mem, dir), NEW n \in DOMAIN dir
    PROVE  l.dir[n] = dir[n] \/ (impForce /\ dir[n].managed)
<1> DEFINE launcher == Launcher(s, id)
<1>1. l.dir = dir \/ (~LinkRefused(s.link, launcher, dir) /\ l.dir = Put(dir, s.link, launcher))
  BY DEF ResolveLink
<1>2. ASSUME ~LinkRefused(s.link, launcher, dir), l.dir = Put(dir, s.link, launcher)
      PROVE  l.dir[n] = dir[n] \/ (impForce /\ dir[n].managed)
  <2>1. s.link \in DOMAIN dir => impForce /\ dir[s.link].managed
    BY <1>2 DEF LinkRefused
  <2> HIDE DEF launcher
  <2> QED
    BY <1>2, <2>1 DEF Put
<1> QED
  BY <1>1, <1>2

LEMMA ImportServerStep ==
    ASSUME ImpInv, ImportServer
    PROVE  /\ ImpInv'
           /\ \A n \in DOMAIN linkDir : linkDir'[n] = linkDir[n] \/ (impForce /\ linkDir[n].managed)
<1>1. impPc = "servers" /\ UNCHANGED <<impForce, impPc, profFile, bindFile>>
  BY DEF ImportServer
<1>2. PICK s : s = impPlan[Len(impReport) + 1]
  OBVIOUS
<1>3. CASE UNCHANGED <<impMem, linkDir>>
  BY <1>1, <1>3 DEF ImpInv, BindingsNameCredentials
<1>4. CASE ~UNCHANGED <<impMem, linkDir>>
  <2>1. PICK c \in ResolveCredential(s, impMem) :
          /\ impMem' = [impMem EXCEPT !.profs = c.profs,
                                      !.binds = IF c.error THEN @ ELSE ResolveBinding(s, c.id, impMem).binds]
          /\ linkDir' = linkDir \/ linkDir' = ResolveLink(s, c.id, impMem, linkDir).dir
    BY <1>2, <1>4 DEF ImportServer
  <2>2. PICK b : b = ResolveBinding(s, c.id, impMem)
    OBVIOUS
  <2>3. /\ DOMAIN impMem.profs \subseteq DOMAIN c.profs
        /\ ~impForce => Grows(impMem.profs, c.profs)
        /\ c.id # <<>> => c.id[1] \in DOMAIN c.profs
    BY CredentialIs
  <2>4. IsBindings(impMem.binds) /\ Stored(impMem.binds, c.profs)
    BY <1>1, <2>3 DEF ImpInv, Stored
  <2>5. /\ IsBindings(b.binds) /\ Stored(b.binds, c.profs)
        /\ ~impForce => \A f : IsBindings(f) /\ IsPrefix(f, impMem.binds) => IsPrefix(f, b.binds)
    <3>1. PICK id, profs : id = c.id /\ profs = c.profs
      OBVIOUS
    <3>2. (id # <<>> => id[1] \in DOMAIN profs) /\ Stored(impMem.binds, profs) /\ b = ResolveBinding(s, id, impMem)
      BY <2>2, <2>3, <2>4, <3>1
    <3>3. /\ IsBindings(b.binds) /\ Stored(b.binds, profs)
          /\ ~impForce => \A f : IsBindings(f) /\ IsPrefix(f, impMem.binds) => IsPrefix(f, b.binds)
      BY <2>4, <3>2, BindingIs
    <3> QED
      BY <3>1, <3>3
  <2>6. PICK binds : binds = IF c.error THEN impMem.binds ELSE b.binds
    OBVIOUS
  <2>7. PICK profs : profs = c.profs
    OBVIOUS
  <2>8. impMem' = [impMem EXCEPT !.profs = profs, !.binds = binds]
    BY <2>1, <2>2, <2>6, <2>7
  <2>9. /\ impMem'.profs = profs /\ impMem'.binds = binds /\ impMem'.seen = impMem.seen
        /\ impMem' = [profs |-> profs, binds |-> binds, seen |-> impMem.seen]
    BY <2>8 DEF ImpInv
  <2>10. /\ IsBindings(binds) /\ Stored(binds, profs)
         /\ ~impForce => IsPrefix(bindFile, binds)
    BY <1>1, <2>4, <2>5, <2>6, <2>7 DEF ImpInv
  <2>11. /\ DOMAIN profFile \subseteq DOMAIN profs
         /\ ~impForce => Grows(profFile, profs)
    BY <1>1, <2>3, <2>7 DEF ImpInv, Grows
  <2>12. ImpInv'
    BY <1>1, <2>9, <2>10, <2>11 DEF ImpInv, BindingsNameCredentials
  <2>13. \A n \in DOMAIN linkDir : linkDir'[n] = linkDir[n] \/ (impForce /\ linkDir[n].managed)
    BY <2>1, LinkIs
  <2> QED
    BY <2>12, <2>13
<1> QED
  BY <1>3, <1>4

LEMMA StartImportStep ==
    ASSUME ImpInv, StartImport
    PROVE  ImpInv'
<1>1. /\ impPc' = "servers" /\ UNCHANGED <<profFile, bindFile>>
      /\ impMem' = [profs |-> profFile, binds |-> bindFile, seen |-> linkDir]
  BY DEF StartImport
<1>2. impMem'.profs = profFile /\ impMem'.binds = bindFile /\ impMem'.seen = linkDir
  BY <1>1
<1>3. IsPrefix(bindFile, bindFile)
  BY PrefixIs DEF ImpInv, IsBindings
<1>4. Stored(bindFile, profFile) /\ Grows(profFile, profFile)
  BY DEF ImpInv, BindingsNameCredentials, Stored, Grows
<1> QED
  BY <1>1, <1>2, <1>3, <1>4 DEF ImpInv, BindingsNameCredentials

LEMMA SaveImportStep ==
    ASSUME ImpInv, SaveImport
    PROVE  /\ ImpInv'
           /\ ~impForce => Grows(profFile, profFile') /\ IsPrefix(bindFile, bindFile')
<1>1. UNCHANGED <<impForce, impMem>> /\ IsPrefix(bindFile, bindFile) /\ Grows(profFile, profFile)
  BY PrefixIs DEF SaveImport, ImpInv, IsBindings, Grows
<1>2. CASE impPc = "profiles"
  <2>1. profFile' = impMem.profs /\ bindFile' = bindFile /\ impPc' = "bindings"
    BY <1>2 DEF SaveImport, SaveOrder
  <2> QED
    BY <1>1, <1>2, <2>1 DEF ImpInv, BindingsNameCredentials, Stored
<1>3. CASE impPc = "bindings"
  <2>1. profFile' = profFile /\ bindFile' = impMem.binds /\ impPc' = "done"
    BY <1>3 DEF SaveImport, SaveOrder
  <2> QED
    BY <1>1, <1>3, <2>1 DEF ImpInv, BindingsNameCredentials, Stored
<1> QED
  BY <1>2, <1>3 DEF SaveImport

LEMMA ImpNextPreserves == ImpInv /\ [ImpNext]_impVars => ImpInv'
<1> SUFFICES ASSUME ImpInv, [ImpNext]_impVars PROVE ImpInv'
  OBVIOUS
<1>1. CASE BeginSaves
  BY <1>1 DEF BeginSaves, SaveOrder, ImpInv, BindingsNameCredentials
<1>2. CASE ImportDies
  BY <1>2 DEF ImportDies, ImpInv, BindingsNameCredentials
<1>3. CASE UNCHANGED impVars
  BY <1>3 DEF impVars, ImpInv, BindingsNameCredentials
<1> QED
  BY <1>1, <1>2, <1>3, StartImportStep, ImportServerStep, SaveImportStep DEF ImpNext

LEMMA ImpInitEstablishes == ImpInit => ImpInv
<1> SUFFICES ASSUME ImpInit PROVE ImpInv
  OBVIOUS
<1>1. impMem = [profs |-> <<>>, binds |-> <<>>, seen |-> <<>>] /\ bindFile = <<>> /\ impPc = "idle"
  BY DEF ImpInit
<1>2. impMem.profs = <<>> /\ impMem.binds = <<>> /\ impMem.seen = <<>>
  BY <1>1
<1>3. <<>> \in Seq({}) /\ DOMAIN <<>> = {}
  OBVIOUS
<1>4. IsBindings(<<>>)
  BY <1>3 DEF IsBindings
<1> QED
  BY <1>1, <1>2, <1>3, <1>4 DEF ImpInv, BindingsNameCredentials

\* What NothingReplaced says of a step.
LEMMA KeptWithoutForce ==
    ASSUME ImpInv, [ImpNext]_impVars
    PROVE  /\ ~impForce => /\ \A id \in DOMAIN profFile : id \in DOMAIN profFile' /\ profFile'[id] = profFile[id]
                           /\ IsPrefix(bindFile, bindFile')
                           /\ \A n \in DOMAIN linkDir : linkDir'[n] = linkDir[n]
           /\ \A n \in DOMAIN linkDir : ~linkDir[n].managed => linkDir'[n] = linkDir[n]
<1>1. IsPrefix(bindFile, bindFile)
  BY PrefixIs DEF ImpInv, IsBindings
<1>2. CASE ImportServer
  BY <1>1, <1>2, ImportServerStep DEF ImportServer
<1>3. CASE SaveImport
  BY <1>3, SaveImportStep DEF SaveImport, Grows
<1>4. CASE UNCHANGED <<profFile, bindFile, linkDir>>
  BY <1>1, <1>4
<1> QED
  BY <1>2, <1>3, <1>4 DEF ImpNext, impVars, StartImport, BeginSaves, ImportDies

-----------------------------------------------------------------------------
(* The composition: a part that stands still keeps what holds of it. *)

MailInv == IF part = "mail" THEN AccessInv ELSE post = EmailUnused /\ fetch = EmailUnused

LEMMA StoresStepsApart ==
    [StoresNext]_storeVars =>
      /\ [InvNext]_invVars
      /\ UNCHANGED part
      /\ [part = "mail" /\ AccessNext]_accessVars
<1> SUFFICES ASSUME [StoresNext]_storeVars
             PROVE  [InvNext]_invVars /\ UNCHANGED part /\ [part = "mail" /\ AccessNext]_accessVars
  OBVIOUS
<1>1. \/ part = "cache" /\ InvNext /\ UNCHANGED <<part, accessVars>>
      \/ part = "mail" /\ AccessNext /\ UNCHANGED <<part, invVars>>
      \/ UNCHANGED <<part, invVars, accessVars>>
  BY DEF StoresNext, storeVars
<1> QED
  BY <1>1

LEMMA MailStep == MailInv /\ [StoresNext]_storeVars => MailInv'
<1> SUFFICES ASSUME MailInv, UNCHANGED part, [part = "mail" /\ AccessNext]_accessVars PROVE MailInv'
  BY StoresStepsApart
<1>1. CASE part = "mail"
  BY <1>1, AccessNextPreserves DEF MailInv
<1>2. CASE part # "mail"
  BY <1>2 DEF MailInv, accessVars
<1> QED
  BY <1>1, <1>2

\* The same of invocations beside the other stores of the daemon.
THEOREM StoresInvokesTrue == StoresSpec => []InvokesAreTrue
<1>1. StoresInit => InvInv
  BY InvInitEstablishes DEF StoresInit
<1>2. InvInv /\ [StoresNext]_storeVars => InvInv'
  BY StoresStepsApart, InvNextPreserves
<1>3. StoresSpec => []InvInv
  BY <1>1, <1>2, PTL DEF StoresSpec
<1> QED
  BY <1>3, InvInvIsTrue, PTL

\* The same of mail beside the other stores of the daemon.
THEOREM StoresAccessTrue == StoresSpec => []AccessIsTrue
<1>1. StoresInit => MailInv
  BY AccessInitEstablishes DEF StoresInit, MailInv
<1>2. MailInv => AccessIsTrue
  <2>1. CASE part = "mail"
    BY <2>1, AccessInvIsTrue DEF MailInv
  <2>2. CASE part # "mail"
    BY <2>2 DEF MailInv, AccessIsTrue, SecretsAreCovered, SentToAll, BodyIsTheNamed, AttachmentIsTheNamed, EmailUnused
  <2> QED
    BY <2>1, <2>2
<1>3. StoresSpec => []MailInv
  BY <1>1, MailStep, PTL DEF StoresSpec
<1> QED
  BY <1>2, <1>3, PTL

\* The stores of the commands: each keeps its own invariant, the import's as
\* long as the part is an import, and nothing of it moves otherwise.
ImportInv == IF part = "import" THEN ImpInv ELSE bindFile = <<>>
CommandsInv == CredInv /\ FilesInv /\ SpentInv /\ ImportInv

LEMMA CommandsStepApart ==
    [StoresNext]_storeVars =>
      /\ [CredNext]_credVars /\ [AuthNext]_authVars /\ [part = "import" /\ ImpNext]_impVars /\ UNCHANGED part
<1> SUFFICES ASSUME [StoresNext]_storeVars
             PROVE  [CredNext]_credVars /\ [AuthNext]_authVars /\ [part = "import" /\ ImpNext]_impVars /\ UNCHANGED part
  OBVIOUS
<1>1. \/ CredNext /\ UNCHANGED <<part, authVars, impVars>>
      \/ AuthNext /\ UNCHANGED <<part, credVars, impVars>>
      \/ part = "import" /\ ImpNext /\ UNCHANGED <<part, credVars, authVars>>
      \/ UNCHANGED <<part, credVars, authVars, impVars>>
  BY DEF StoresNext, storeVars
<1> QED
  BY <1>1

LEMMA CommandsNextPreserves == CommandsInv /\ [StoresNext]_storeVars => CommandsInv'
<1> SUFFICES ASSUME CommandsInv, [CredNext]_credVars, [AuthNext]_authVars, [part = "import" /\ ImpNext]_impVars,
                    UNCHANGED part
             PROVE  CommandsInv'
  BY CommandsStepApart
<1>1. CredInv' /\ FilesInv' /\ SpentInv'
  BY CredNextPreserves, FilesNextPreserves, SpentNextPreserves DEF CommandsInv
<1>2. ImportInv'
  <2>1. CASE part = "import"
    BY <2>1, ImpNextPreserves DEF CommandsInv, ImportInv
  <2>2. CASE part # "import"
    BY <2>2 DEF CommandsInv, ImportInv, impVars
  <2> QED
    BY <2>1, <2>2
<1> QED
  BY <1>1, <1>2 DEF CommandsInv

LEMMA CommandsInitEstablishes == StoresInit => CommandsInv
<1> SUFFICES ASSUME StoresInit PROVE CommandsInv
  OBVIOUS
<1>1. CredInv
  BY DEF StoresInit, CredInit, CredInv
<1>2. FilesInv /\ SpentInv
  BY FilesInitEstablishes, SpentInitEstablishes DEF StoresInit
<1>3. ImportInv
  BY ImpInitEstablishes DEF StoresInit, ImportInv
<1> QED
  BY <1>1, <1>2, <1>3 DEF CommandsInv

\* A credential that is accepted authenticates and sends what its templates
\* name; the credential file holds tokens that the provider still takes,
\* however many processes refresh, log in and die, as long as none replaces a
\* file that it has not read; a login whose token is stored has no file; bindings name stored
\* credentials wherever an import dies (auth/mod.rs, auth/oauth.rs,
\* config import).
THEOREM StoresCredentialsTrue == StoresSpec => []CredentialsAreTrue
<1>1. CommandsInv => CredentialsAreTrue
  <2> SUFFICES ASSUME CommandsInv PROVE CredentialsAreTrue
    OBVIOUS
  <2>1. BindingsNameCredentials
    BY DEF CommandsInv, ImportInv, ImpInv, BindingsNameCredentials
  <2> QED
    BY <2>1, CredInvIsTrue, FilesInvIsTrue, SpentInvIsTrue DEF CommandsInv, CredentialsAreTrue
<1>2. StoresSpec => []CommandsInv
  BY CommandsInitEstablishes, CommandsNextPreserves, PTL DEF StoresSpec
<1> QED
  BY <1>1, <1>2, PTL

\* No command leaves a bootstrap's token as the user's secret, turns a login's
\* token into another type's secret, brings a removed credential back or,
\* without --force, replaces what is stored, in any step of any behaviour.
THEOREM StoresStepsTrue == StoresSpec => StoreSteps
<1> DEFINE Boot == stored # NoCredential /\ stored.type = "bearer" /\ stored.boot
                     /\ stored' # NoCredential /\ stored'.type = "bearer" /\ ~stored'.boot
                   => (BootToken \in Sent(stored') => stored.source.value = BootToken)
           Switch == stored # NoCredential /\ stored.type = "oauth"
                       /\ stored' # NoCredential /\ stored'.type \in {"bearer", "basic"}
                     => Sent(stored') \cap Tokens = {}
           Gone == \A c \in DOMAIN doc' \ DOMAIN doc :
                        overlapped' \/ \E p \in AuthProcs : procs[p].cred = c /\ procs[p].session # "none"
           Held == /\ ~impForce => /\ \A id \in DOMAIN profFile : id \in DOMAIN profFile' /\ profFile'[id] = profFile[id]
                                   /\ IsPrefix(bindFile, bindFile')
                                   /\ \A n \in DOMAIN linkDir : linkDir'[n] = linkDir[n]
                   /\ \A n \in DOMAIN linkDir : ~linkDir[n].managed => linkDir'[n] = linkDir[n]
<1>1. ASSUME CommandsInv, [StoresNext]_storeVars
      PROVE  [Boot]_credVars /\ [Switch]_credVars /\ [Gone]_authVars /\ [Held]_impVars
  <2>1. [CredNext]_credVars /\ [AuthNext]_authVars /\ [part = "import" /\ ImpNext]_impVars
    BY <1>1, CommandsStepApart
  <2>2. CredInv /\ FilesInv /\ (part = "import" => ImpInv)
    BY <1>1 DEF CommandsInv, ImportInv
  <2>3. Sent(stored)' = Sent(stored')
    BY DEF Sent, Accepted, Effective
  <2>4. Boot
    BY <2>1, <2>2, <2>3, SecretKept
  <2>5. Switch
    BY <2>1, <2>2, <2>3, SwitchTakesSecret
  <2>6. Gone
    BY <2>1, <2>2, OnlyLoginsAdd
  <2>7. [Held]_impVars
    <3>1. CASE UNCHANGED impVars
      BY <3>1
    <3>2. CASE part = "import" /\ ImpNext
      BY <2>2, <3>2, KeptWithoutForce
    <3> QED
      BY <2>1, <3>1, <3>2
  <2> QED
    BY <2>4, <2>5, <2>6, <2>7
<1>2. StoresSpec => []CommandsInv
  BY CommandsInitEstablishes, CommandsNextPreserves, PTL DEF StoresSpec
<1> QED
  BY <1>1, <1>2, PTL DEF StoresSpec, StoreSteps, BootstrapLeavesSecret, SwitchNeedsSecret, RemovedStaysRemoved,
     NothingReplaced
=============================================================================
