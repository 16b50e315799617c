----------------------------- MODULE EmailText -----------------------------
(***************************************************************************)
(* What the email access of uxc reads and writes, as pure operators:       *)
(*   - the body of a MIME message and how complete it is (email_body.rs),  *)
(*   - its attachments, as the IMAP walker (email_attachment.rs) and the   *)
(*     Gmail, Graph and JMAP readers (subscription_email.rs) list them,    *)
(*   - header blocks, multipart bodies and escapes (email_attachment.rs),  *)
(*   - message references, locators and attachment handles,                *)
(*   - calendar dates of JMAP messages.                                    *)
(*                                                                         *)
(* A MIME part is a record                                                 *)
(*   [type, disp, name, cid, text, kids]                                   *)
(* where disp is the Content-Disposition token, name tells which header    *)
(* names a file ("none", "disposition" or "type"), cid whether there is a  *)
(* Content-ID, text stands for the decoded body and kids are the subparts. *)
(* Bytes are numbers where an escape is decoded, symbols elsewhere.        *)
(***************************************************************************)
EXTENDS Integers, Sequences, FiniteSets, SequencesExt

CONSTANTS MimeMaxDepth, MimeMaxParts,     \* MIME_MAX_DEPTH, MIME_MAX_PARTS
          BodyInlineBytes,                \* EMAIL_BODY_INLINE_BYTES
          NormalizedTextLimit             \* NORMALIZED_TEXT_LIMIT

ASSUME MimeBounds == /\ MimeMaxDepth \in Nat /\ MimeMaxParts \in Nat
                     /\ BodyInlineBytes \in Nat /\ NormalizedTextLimit \in Nat

IsMultipart(p) == p.type \in {"multipart/mixed", "multipart/alternative", "multipart/related"}
IsTextPart(p) == p.type \in {"text/plain", "text/html"}

-----------------------------------------------------------------------------
(* The body: email_body.rs.                                                *)

\* The parts of a tree in the order they are met, with their parents' types,
\* their paths and depths.
RECURSIVE PartsAt(_, _, _)
PartsAt(p, parent, path) ==
  <<[part |-> p, parent |-> parent, path |-> path, depth |-> Len(path)]>>
    \o FlattenSeq([i \in DOMAIN p.kids |-> PartsAt(p.kids[i], p.type, Append(path, i))])
Parts(p) == PartsAt(p, "none", <<>>)

\* validate_mime_tree: an error for the whole message.
ValidateMimeTree(p) == /\ \A i \in DOMAIN Parts(p) : Parts(p)[i].depth <= MimeMaxDepth
                       /\ Len(Parts(p)) <= MimeMaxParts

Body(text, reasons) == [text |-> text, reasons |-> reasons]

\* select_body leaves out what the Content-Disposition header calls a file.
IsFile(p) == p.disp = "attachment" \/ p.name = "disposition"

RECURSIVE SelectBody(_)
SelectBody(p) ==
  IF IsFile(p) THEN Body(<<>>, {})
  ELSE IF p.kids = <<>> THEN Body(IF IsTextPart(p) THEN p.text ELSE <<>>, {})
  ELSE LET of(type) == SelectSeq([i \in DOMAIN p.kids |->
                                   [type |-> p.kids[i].type, body |-> SelectBody(p.kids[i])]],
                                 LAMBDA k : k.type = type /\ k.body.text # <<>>)
           all == [i \in DOMAIN p.kids |-> SelectBody(p.kids[i])]
       IN CASE p.type = "multipart/alternative" ->
                 IF of("text/plain") # <<>> THEN Head(of("text/plain")).body
                 ELSE IF of("text/html") # <<>> THEN Head(of("text/html")).body
                 ELSE Body(<<>>, {"unsupported_multipart"})
            [] p.type = "multipart/related" -> Head(all)
            [] OTHER -> Body(FlattenSeq([i \in DOMAIN all |-> all[i].text]),
                             UNION {all[i].reasons : i \in DOMAIN all}
                               \cup IF IsMultipart(p) THEN {} ELSE {"unsupported_structure"})

\* floor_char_boundary: characters are numbers of bytes; the longest prefix of
\* whole characters that fits.
WidthOf(chars) == LET w[i \in 0 .. Len(chars)] == IF i = 0 THEN 0 ELSE w[i - 1] + chars[i]
                  IN w[Len(chars)]

FloorCharBoundary(chars, limit) ==
  LET fits == {n \in 0 .. Len(chars) : WidthOf(SubSeq(chars, 1, n)) <= limit}
  IN SubSeq(chars, 1, CHOOSE n \in fits : \A k \in fits : k <= n)

\* Fault for Completeness: an empty or odd body does not count.
CompletenessTrusting(complete, legacy, reasons) ==
  IF ~complete \/ "resource_limit" \in reasons THEN "partial"
  ELSE IF legacy THEN "unverified" ELSE "complete"

Completeness(complete, legacy, reasons) ==
  IF ~complete \/ "resource_limit" \in reasons THEN "partial"
  ELSE IF legacy \/ reasons # {} THEN "unverified" ELSE "complete"

\* parse_mime.  The text of a part is a sequence of character widths.
ParseMime(p, complete, legacy) ==
  LET sel == SelectBody(p)
      cut == FloorCharBoundary(sel.text, NormalizedTextLimit)
      rs == sel.reasons \cup (IF sel.text = <<>> THEN {"empty_body"} ELSE {})
                        \cup (IF cut # sel.text THEN {"resource_limit"} ELSE {})
      grade == Completeness(complete, legacy, rs)
  IN IF ~ValidateMimeTree(p) THEN [failed |-> TRUE]
     ELSE [failed |-> FALSE, text |-> cut, bytes |-> WidthOf(cut),
           total |-> IF grade = "complete" THEN WidthOf(cut) ELSE -1,
           grade |-> grade,
           reasons |-> rs \cup (IF ~complete THEN {"source_truncated"} ELSE {})
                          \cup (IF grade = "unverified" /\ legacy
                                THEN {"legacy_text_input"} ELSE {})]

\* limit_inline_body: the body that goes into an event.
LimitInlineBody(b) ==
  IF b.failed \/ b.bytes <= BodyInlineBytes THEN b
  ELSE LET cut == FloorCharBoundary(b.text, BodyInlineBytes)
       IN [b EXCEPT !.text = cut, !.bytes = WidthOf(cut), !.total = -1, !.grade = "partial",
                    !.reasons = @ \cup {"inline_limit"}]

-----------------------------------------------------------------------------
(* Attachments.                                                            *)

\* classify_leaf_attachment, and the same rules in walk_gmail_part.
IsAttachment(p, parent) ==
  CASE p.disp = "attachment" -> TRUE
    [] p.disp = "inline" -> p.name # "none" \/ p.cid
    [] OTHER -> p.name # "none" \/ ~(IsTextPart(p) \/ parent = "multipart/alternative")

\* The leaves a bounded walk comes to.  A part counts when its depth is at
\* most deep, and a part is looked at while fewer than MimeMaxParts counted
\* before it.  The section of a leaf is its path, 1 for a message of one part.
LeavesWithin(p, deep) ==
  LET ps == Parts(p)
      before(i) == Cardinality({k \in 1 .. i - 1 : ps[k].depth <= deep})
      met == {i \in DOMAIN ps : /\ ~IsMultipart(ps[i].part) /\ ps[i].depth <= MimeMaxDepth
                                /\ before(i) < MimeMaxParts}
      order == SetToSortSeq(met, <)
  IN [n \in DOMAIN order |->
        [part |-> ps[order[n]].part, parent |-> ps[order[n]].parent,
         section |-> IF ps[order[n]].path = <<>> THEN <<1>> ELSE ps[order[n]].path]]

\* walk_mime_part counts a child before it looks at the child's depth.
WalkMimePart(p) == SelectSeq(LeavesWithin(p, MimeMaxDepth + 1),
                             LAMBDA l : IsAttachment(l.part, l.parent))

\* walk_gmail_part: Gmail reports the file name of either header.
WalkGmailPart(p) ==
  LET named(l) == [l.part EXCEPT !.name = IF @ = "none" THEN "none" ELSE "disposition"]
  IN SelectSeq(LeavesWithin(p, MimeMaxDepth), LAMBDA l : IsAttachment(named(l), l.parent))

-----------------------------------------------------------------------------
(* Locators, references and handles.  An absent identifier is "".          *)

Nothing == [provider |-> "none"]

\* provider_message_locator
ProviderMessageLocator(provider, item, envelope) ==
  CASE provider = "gmail" -> IF item.id = "" THEN Nothing
                             ELSE [provider |-> "gmail", id |-> item.id]
    [] provider = "graph" ->
         IF item.immutableId # "" THEN [provider |-> "graph", id |-> item.immutableId]
         ELSE IF item.idIsImmutable /\ item.id # "" THEN [provider |-> "graph", id |-> item.id]
         ELSE Nothing
    [] provider = "jmap" ->
         LET account == IF item.accountId # "" THEN item.accountId ELSE envelope
         IN IF account = "" \/ item.id = "" THEN Nothing
            ELSE [provider |-> "jmap", id |-> item.id, account |-> account]

\* scoped_locator_stable_key digests the source and the locator.
StableKey(source, l) == <<source, l>>

\* validate_email_message_ref
ValidRef(ref) ==
  /\ ref.source.namespace # "" /\ ref.source.key # "" /\ ref.source.spec # ""
  /\ ref.locator.id # ""
  /\ ref.locator.provider = "jmap" => ref.locator.account # ""

\* encode_email_message_ref and decode_email_message_ref.  The payload is the
\* reference itself under the version prefix.
EncodeRef(ref) == IF ValidRef(ref) THEN [prefix |-> "uxc-email-v1", payload |-> ref] ELSE Nothing
DecodeRef(text) == IF text = Nothing \/ text.prefix # "uxc-email-v1" \/ ~ValidRef(text.payload)
                   THEN Nothing ELSE text.payload

\* provider_attachment_handle, stamped on an entry that can be fetched later.
AttachmentHandle(provider, uid, part) == [provider |-> provider, uid |-> uid, part |-> part]

\* parse_attachment_handle: which handles email attachment get accepts.  Ids
\* with a slash, a question mark or a hash are refused; an IMAP uid is digits.
HandleAccepted(h) ==
  /\ h.part # "" /\ h.part # "a/b"
  /\ h.provider \in {"gmail", "graph", "imap"} => h.uid # ""
  /\ h.provider = "imap" => h.uid = "7"

\* The handle of an entry: none when the provider gave no id for the bytes.
EntryHandle(provider, uid, attachmentId) ==
  IF attachmentId = "" THEN Nothing ELSE AttachmentHandle(provider, uid, attachmentId)

-----------------------------------------------------------------------------
(* Text: escapes, headers, multipart bodies, dates.                        *)

HexDigit(b) == IF b \in 48 .. 57 THEN b - 48 ELSE IF b \in 65 .. 70 THEN b - 55 ELSE -1

IsEscape(s, i, mark) == /\ s[i] = mark /\ i + 2 <= Len(s)
                        /\ HexDigit(s[i + 1]) >= 0 /\ HexDigit(s[i + 2]) >= 0

\* percent_decode, and the hex escapes of decode_q_encoded.
Unescape(s, mark) ==
  LET out[i \in 1 .. Len(s) + 1] ==
        IF i > Len(s) THEN <<>>
        ELSE IF IsEscape(s, i, mark)
        THEN <<HexDigit(s[i + 1]) * 16 + HexDigit(s[i + 2])>> \o out[i + 3]
        ELSE <<s[i]>> \o out[i + 1]
  IN out[1]

Equals == 61
Underscore == 95
Blank == 32
Lf == 10
Cr == 13

\* decode_q_encoded: an underscore that was not decoded is a blank.
DecodeQEncoded(s) == Unescape([i \in DOMAIN s |-> IF s[i] = Underscore THEN Blank ELSE s[i]], Equals)

\* decode_quoted_printable: soft line breaks are taken out.
DecodeQuotedPrintable(s) ==
  LET at(i) == IF i <= Len(s) THEN s[i] ELSE -1
      out[i \in 1 .. Len(s) + 1] ==
        IF i > Len(s) THEN <<>>
        ELSE IF s[i] = Equals /\ at(i + 1) = Lf THEN out[i + 2]
        ELSE IF s[i] = Equals /\ at(i + 1) = Cr /\ at(i + 2) = Lf THEN out[i + 3]
        ELSE IF s[i] = Equals /\ at(i + 1) = Cr THEN out[i + 2]
        ELSE IF IsEscape(s, i, Equals)
        THEN <<HexDigit(s[i + 1]) * 16 + HexDigit(s[i + 2])>> \o out[i + 3]
        ELSE <<s[i]>> \o out[i + 1]
  IN out[1]

\* Header lines: [kind |-> "field", name, value], [kind |-> "fold", value] for
\* a continuation, [kind |-> "junk"] for a line without a colon.

\* parse_header_block: the list of fields, continuations joined to the last.
ParseHeaderBlock(lines) ==
  LET out[i \in 0 .. Len(lines)] ==
        IF i = 0 THEN <<>>
        ELSE LET l == lines[i] hs == out[i - 1]
             IN CASE l.kind = "fold" /\ hs # <<>> ->
                       [hs EXCEPT ![Len(hs)].value = @ \o l.value]
                  [] l.kind = "field" -> Append(hs, [name |-> l.name, value |-> l.value])
                  [] OTHER -> hs
  IN out[Len(lines)]

\* header_value_of: the first field of that name.
HeaderValueOf(hs, name) ==
  LET found == SelectSeq(hs, LAMBDA h : h.name = name)
  IN IF found = <<>> THEN <<>> ELSE Head(found).value

\* parse_email_headers: a field is stored when the next one begins; a later
\* field of the same name replaces the earlier.
ParseEmailHeaders(lines) ==
  LET out[i \in 0 .. Len(lines)] ==
        IF i = 0 THEN [done |-> <<>>, name |-> "", value |-> <<>>]
        ELSE LET l == lines[i] st == out[i - 1]
             IN IF l.kind = "fold" THEN [st EXCEPT !.value = @ \o l.value]
                ELSE LET closed == IF st.name = "" THEN st
                                   ELSE [done |-> Append(st.done, [name |-> st.name, value |-> st.value]),
                                         name |-> "", value |-> <<>>]
                     IN IF l.kind = "field"
                        THEN [closed EXCEPT !.name = l.name, !.value = @ \o l.value] ELSE closed
      last == out[Len(lines)]
  IN IF last.name = "" THEN last.done
     ELSE Append(last.done, [name |-> last.name, value |-> last.value])

\* header_value of the map: the last field of that name.
HeaderValue(hs, name) ==
  LET found == SelectSeq(hs, LAMBDA h : h.name = name)
  IN IF found = <<>> THEN <<>> ELSE Last(found).value

\* split_multipart_body: lines are "open" (--boundary), "close" (--boundary--)
\* or content; the text before the first delimiter and after the closing one
\* is dropped, and a part that is not closed is kept.
SplitMultipartBody(lines) ==
  LET out[i \in 0 .. Len(lines)] ==
        IF i = 0 THEN [parts |-> <<>>, on |-> FALSE, cur |-> <<>>, over |-> FALSE]
        ELSE LET l == lines[i] st == out[i - 1]
                 flushed == IF st.on THEN Append(st.parts, st.cur) ELSE st.parts
             IN CASE st.over -> st
                  [] l = "open" -> [parts |-> flushed, on |-> TRUE, cur |-> <<>>, over |-> FALSE]
                  [] l = "close" -> [parts |-> flushed, on |-> FALSE, cur |-> <<>>, over |-> TRUE]
                  [] OTHER -> IF st.on THEN [st EXCEPT !.cur = Append(@, l)] ELSE st
      last == out[Len(lines)]
  IN IF last.on THEN Append(last.parts, last.cur) ELSE last.parts

\* civil_from_days: the date of a day counted from 1970-01-01.
CivilFromDays(days) ==
  LET z == days + 719468
      era == z \div 146097
      doe == z % 146097
      yoe == (doe - doe \div 1460 + doe \div 36524 - doe \div 146096) \div 365
      doy == doe - (365 * yoe + yoe \div 4 - yoe \div 100)
      mp == (5 * doy + 2) \div 153
      m == IF mp < 10 THEN mp + 3 ELSE mp - 9
  IN <<yoe + era * 400 + (IF m <= 2 THEN 1 ELSE 0), m, doy - (153 * mp + 2) \div 5 + 1>>

-----------------------------------------------------------------------------
(* What the operators promise.                                             *)

\* The text of a part that its Content-Disposition calls a file never gets into
\* the body, and such a part is always listed as an attachment; texts of
\* distinct parts are told apart by their first character.
FilesAreAttachments(p) ==
  LET files == {i \in DOMAIN Parts(p) : LET q == Parts(p)[i].part
                  IN q.text # <<>> /\ (q.disp = "attachment" \/ q.name = "disposition")}
      body == SelectBody(p).text
      listed == WalkMimePart(p)
  IN \A i \in files :
       /\ \A k \in DOMAIN body : body[k] # Parts(p)[i].part.text[1]
       /\ ValidateMimeTree(p) => \E k \in DOMAIN listed : listed[k].part = Parts(p)[i].part

\* A body that is called complete is all of the text that was selected, from a
\* complete source, and it is the only one that states a total.
BodyIsHonest(p, complete, legacy) ==
  LET b == LimitInlineBody(ParseMime(p, complete, legacy))
  IN ~b.failed =>
       /\ b.bytes = WidthOf(b.text) /\ b.bytes <= BodyInlineBytes
       /\ (b.grade = "complete") = (b.total >= 0)
       /\ b.grade = "complete" => /\ complete /\ ~legacy /\ b.reasons = {}
                                  /\ b.text = SelectBody(p).text /\ b.text # <<>>
       /\ IsPrefix(b.text, SelectBody(p).text)
       /\ b.text # SelectBody(p).text => "inline_limit" \in b.reasons \/ "resource_limit" \in b.reasons

\* The comment of walk_gmail_part: its classification mirrors the IMAP walker,
\* also at the limit of parts.  (Below the limit of depth the two count apart.)
WalkersAgree(p) ==
  (\A i \in DOMAIN Parts(p) : Parts(p)[i].depth <= MimeMaxDepth)
     => WalkGmailPart(p) = WalkMimePart(p)

\* The sections the walker writes into handles are distinct.
SectionsAreDistinct(p) ==
  \A i, j \in DOMAIN WalkMimePart(p) :
    i # j => WalkMimePart(p)[i].section # WalkMimePart(p)[j].section

\* An event with a reliable locator yields a reference that reads back as the
\* same locator; two messages of one source never share a stable key.
RefReadsBack(provider, item, other, envelope, source) ==
  LET l == ProviderMessageLocator(provider, item, envelope)
      m == ProviderMessageLocator(provider, other, envelope)
      ref(x) == [source |-> source, locator |-> x]
  IN /\ l # Nothing => DecodeRef(EncodeRef(ref(l))) = ref(l)
     /\ l # Nothing /\ m # Nothing /\ l.id # m.id => StableKey(source, l) # StableKey(source, m)

\* A handle that an event carries is accepted when it is handed back, if the
\* message has an id and the provider's ids are fit for a path.
HandlesAreAccepted(provider, uid, attachmentId) ==
  LET h == EntryHandle(provider, uid, attachmentId)
  IN h # Nothing /\ uid # "" /\ attachmentId # "a/b" => HandleAccepted(h)

\* Whatever is written with escapes reads back: a text with every byte escaped
\* decodes to the text, also behind a soft line break.
EscapeAll(s, mark) ==
  LET hex(d) == IF d < 10 THEN 48 + d ELSE 55 + d
  IN FlattenSeq([i \in DOMAIN s |-> <<mark, hex(s[i] \div 16), hex(s[i] % 16)>>])

EscapesReadBack(s, brk) ==
  /\ Unescape(EscapeAll(s, 37), 37) = s
  /\ DecodeQEncoded(EscapeAll(s, Equals)) = s
  /\ DecodeQuotedPrintable(EscapeAll(s, Equals) \o <<Equals>> \o brk \o EscapeAll(s, Equals)) = s \o s

\* The two header parsers read the same values from a block of well-formed
\* lines in which no name occurs twice.
HeadersAgree(lines) ==
  LET names == {lines[i].name : i \in {k \in DOMAIN lines : lines[k].kind = "field"}}
      fields == SelectSeq(lines, LAMBDA l : l.kind = "field")
  IN (lines # <<>> /\ lines[1].kind = "field" /\ Cardinality(names) = Len(fields)
        /\ \A i \in DOMAIN lines : lines[i].kind # "junk")
     => \A n \in names : /\ HeaderValue(ParseEmailHeaders(lines), n)
                              = HeaderValueOf(ParseHeaderBlock(lines), n)

\* The parts between delimiters come out as they went in, with or without the
\* closing delimiter and whatever stands before the first one.
MultipartReadsBack(parts, preamble, closed) ==
  SplitMultipartBody(preamble
      \o FlattenSeq([i \in DOMAIN parts |-> <<"open">> \o parts[i]])
      \o IF closed THEN <<"close", "x", "open", "x">> ELSE <<>>) = parts

\* The date of each day is the calendar day after that of the day before, and
\* day 0 is 1970-01-01.
IsLeap(y) == y % 4 = 0 /\ (y % 100 # 0 \/ y % 400 = 0)
DaysIn(y, m) == IF m = 2 THEN IF IsLeap(y) THEN 29 ELSE 28
                ELSE IF m \in {4, 6, 9, 11} THEN 30 ELSE 31
NextDate(c) == IF c[3] < DaysIn(c[1], c[2]) THEN <<c[1], c[2], c[3] + 1>>
               ELSE IF c[2] < 12 THEN <<c[1], c[2] + 1, 1>> ELSE <<c[1] + 1, 1, 1>>
DatesFollow(day) == /\ CivilFromDays(0) = <<1970, 1, 1>>
                    /\ CivilFromDays(day + 1) = NextDate(CivilFromDays(day))
=============================================================================
