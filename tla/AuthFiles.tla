------------------------------ MODULE AuthFiles ------------------------------
(***************************************************************************)
(* The credential file and the files of pending logins under several       *)
(* processes: CLI commands and a daemon that refreshes tokens.  Nobody     *)
(* locks the credential file: a command reads all of it, changes one       *)
(* credential and replaces the file by a rename.  The provider rotates     *)
(* refresh tokens: of a grant only the newest one is good.                 *)
(*                                                                         *)
(* A token is [g, n]: the n-th refresh token of grant g.                   *)
(***************************************************************************)
EXTENDS Integers, FiniteSets

CONSTANTS AuthProcs,    \* processes
          Creds,        \* credential names
          SessionIds,   \* names of pending logins
          MaxGrants,    \* bound on logins
          MaxTurns,     \* bound on the refreshes of a grant
          MaxWrites     \* bound on the replacements of the file

\* No credential and no pending login has the name that stands for none.
ASSUME AuthFilesAssumption == /\ "none" \notin Creds \cup SessionIds
                              /\ MaxGrants \in Nat /\ MaxTurns \in Nat /\ MaxWrites \in Nat

VARIABLES doc,          \* the credential file
          version,      \* how often it was replaced
          current,      \* current[g]: the provider's good token of grant g, 0 before the login
          pending,      \* files of pending logins: [cred, expired]
          redeemed,     \* logins whose code the provider has taken, and the grant it gave for each
          procs,        \* what each process does
          overlapped,   \* history: a file was replaced that its writer had not read
          mishap        \* history: a process died, or an answer was lost, with the only copy of a token

authVars == <<doc, version, current, pending, redeemed, procs, overlapped, mishap>>

NoToken == [g |-> 0, n |-> 0]
Idle == [pc |-> "idle", cred |-> "none", mem |-> NoToken, doc |-> <<>>, read |-> 0, session |-> "none"]
Grants == 1 .. MaxGrants
With(d, c, t) == [x \in DOMAIN d \cup {c} |-> IF x = c THEN t ELSE d[x]]
Without(d, c) == [x \in DOMAIN d \ {c} |-> d[x]]
Goes(p, q) == procs' = [procs EXCEPT ![p] = q]

\* Load-change-save: the document to write and the version it came from.
Merging(q, d) == [q EXCEPT !.pc = "saving", !.doc = d, !.read = version]

-----------------------------------------------------------------------------
(* Refreshing. *)

\* resolve_auth_for_endpoint: the profile comes into the process's memory.
LoadProfile(p, c) ==
    /\ procs[p].pc = "idle" /\ c \in DOMAIN doc /\ doc[c] # NoToken
    /\ Goes(p, [Idle EXCEPT !.pc = "held", !.cred = c, !.mem = doc[c]])
    /\ UNCHANGED <<doc, version, current, pending, redeemed, overlapped, mishap>>

\* refresh_oauth_profile and update_oauth_tokens: the token endpoint takes the refresh token or
\* refuses it; the answer may get lost on its way.
Refresh(p, arrives) ==
    LET q == procs[p] IN
    /\ q.pc = "held"
    /\ IF current[q.mem.g] # q.mem.n
       THEN Goes(p, Idle) /\ UNCHANGED <<current, mishap>>
       ELSE /\ current[q.mem.g] < MaxTurns
            /\ current' = [current EXCEPT ![q.mem.g] = @ + 1]
            /\ mishap' = (mishap \/ ~arrives)
            /\ Goes(p, IF arrives THEN [q EXCEPT !.pc = "owes", !.mem.n = @ + 1] ELSE Idle)
    /\ UNCHANGED <<doc, version, pending, redeemed, overlapped>>

\* Fault for PersistProfileIfNamed: the credential is written whether or not
\* the file still has it.
PersistAnyway(p) ==
    LET q == procs[p] IN
    /\ q.pc = "owes"
    /\ Goes(p, Merging(q, With(doc, q.cred, q.mem)))
    /\ UNCHANGED <<doc, version, current, pending, redeemed, overlapped, mishap>>

\* persist_profile_if_named: reads the file again; a credential that has been
\* removed stays removed.
PersistProfileIfNamed(p) ==
    LET q == procs[p] IN
    /\ q.pc = "owes"
    /\ Goes(p, IF q.cred \in DOMAIN doc THEN Merging(q, With(doc, q.cred, q.mem)) ELSE Idle)
    /\ UNCHANGED <<doc, version, current, pending, redeemed, overlapped, mishap>>

\* save_profiles with write_secure_auth_file: a temporary file renamed over the
\* old one.  A daemon keeps the profile in its memory.
SaveProfiles(p, keeps) ==
    LET q == procs[p] IN
    /\ q.pc = "saving" /\ version < MaxWrites
    /\ doc' = q.doc
    /\ version' = version + 1
    /\ overlapped' = (overlapped \/ version # q.read)
    /\ keeps => q.mem # NoToken
    /\ Goes(p, IF keeps THEN [Idle EXCEPT !.pc = "held", !.cred = q.cred, !.mem = q.mem] ELSE Idle)
    /\ UNCHANGED <<current, pending, redeemed, mishap>>

-----------------------------------------------------------------------------
(* Commands that change the file. *)

\* `auth credential remove` and `auth oauth logout`.
RemoveOrLogout(p, c, remove) ==
    /\ procs[p].pc = "idle" /\ c \in DOMAIN doc
    /\ Goes(p, Merging([Idle EXCEPT !.cred = c], IF remove THEN Without(doc, c) ELSE With(doc, c, NoToken)))
    /\ UNCHANGED <<doc, version, current, pending, redeemed, overlapped, mishap>>

-----------------------------------------------------------------------------
(* Logins in two commands. *)

\* `auth oauth start`: purge_expired_sessions, then a new file.
OAuthStart(p, s, c) ==
    /\ procs[p].pc = "idle" /\ s \notin DOMAIN pending /\ s \notin DOMAIN redeemed
    /\ LET alive == {x \in DOMAIN pending : ~pending[x].expired}
       IN pending' = [x \in alive \cup {s} |-> IF x = s THEN [cred |-> c, expired |-> FALSE] ELSE pending[x]]
    /\ UNCHANGED <<doc, version, current, redeemed, procs, overlapped, mishap>>

SessionExpires(s) ==
    /\ s \in DOMAIN pending /\ ~pending[s].expired
    /\ pending' = [pending EXCEPT ![s].expired = TRUE]
    /\ UNCHANGED <<doc, version, current, redeemed, procs, overlapped, mishap>>

\* `auth oauth complete`: load_session and its checks.
OAuthComplete(p, s, c) ==
    /\ procs[p].pc = "idle" /\ s \in DOMAIN pending /\ pending[s].cred = c
    /\ IF pending[s].expired
       THEN pending' = Without(pending, s) /\ UNCHANGED procs
       ELSE /\ UNCHANGED pending
            /\ Goes(p, [Idle EXCEPT !.pc = "completing", !.cred = c, !.session = s])
    /\ UNCHANGED <<doc, version, current, redeemed, overlapped, mishap>>

\* finish_authorization_code_login, and the file of a login that cannot succeed.
\* "code": the token endpoint takes the code, once, and its answer arrives;
\* "lost": it takes the code and the answer is lost or unreadable; "broken": it
\* takes nothing, a failure that keeps the file; "foreign": state or issuer do
\* not match.
FinishLogin(p, answer) ==
    LET q == procs[p]  new == {g \in Grants : current[g] = 0} IN
    /\ q.pc = "completing"
    /\ \/ /\ answer \in {"code", "lost"} /\ q.session \notin DOMAIN redeemed /\ new # {}
          /\ LET g == CHOOSE x \in new : TRUE
             IN /\ current' = [current EXCEPT ![g] = 1]
                /\ redeemed' = With(redeemed, q.session, g)
                /\ Goes(p, IF answer = "code" THEN [q EXCEPT !.pc = "redeemed", !.mem = [g |-> g, n |-> 1]]
                           ELSE Idle)
          /\ mishap' = (mishap \/ answer = "lost")
          /\ UNCHANGED pending
       \/ /\ answer = "foreign" \/ (answer = "code" /\ q.session \in DOMAIN redeemed)
          /\ pending' = Without(pending, q.session) /\ Goes(p, Idle) /\ UNCHANGED <<current, redeemed, mishap>>
       \/ /\ answer = "broken"
          /\ Goes(p, Idle) /\ UNCHANGED <<pending, current, redeemed, mishap>>
    /\ UNCHANGED <<doc, version, overlapped>>

\* remove_session: the file goes first; if it cannot be removed the command
\* ends there, and the token with it.
RemoveSession(p, works) ==
    LET q == procs[p] IN
    /\ q.pc = "redeemed"
    /\ pending' = IF works THEN Without(pending, q.session) ELSE pending
    /\ Goes(p, IF works THEN [q EXCEPT !.pc = "removed"] ELSE Idle)
    /\ mishap' = (mishap \/ ~works)
    /\ UNCHANGED <<doc, version, current, redeemed, overlapped>>

\* Fault for PersistLogin: the credential is written while the file is still there.
PersistLoginFirst(p) ==
    LET q == procs[p] IN
    /\ q.pc \in {"redeemed", "removed"}
    /\ Goes(p, Merging(q, With(doc, q.cred, q.mem)))
    /\ UNCHANGED <<doc, version, current, pending, redeemed, overlapped, mishap>>

\* persist_oauth_login: creates the credential if need be.
PersistLogin(p) ==
    LET q == procs[p] IN
    /\ q.pc = "removed"
    /\ Goes(p, Merging(q, With(doc, q.cred, q.mem)))
    /\ UNCHANGED <<doc, version, current, pending, redeemed, overlapped, mishap>>

\* The process dies; the file is the one before or after a rename, never half.
Dies(p) ==
    /\ procs[p].pc # "idle"
    /\ mishap' = (mishap \/ procs[p].pc \in {"owes", "saving", "redeemed", "removed"})
    /\ Goes(p, Idle)
    /\ UNCHANGED <<doc, version, current, pending, redeemed, overlapped>>

AuthInit ==
    /\ doc = <<>> /\ version = 0 /\ current = [g \in Grants |-> 0] /\ pending = <<>>
    /\ redeemed = <<>> /\ procs = [p \in AuthProcs |-> Idle] /\ overlapped = FALSE /\ mishap = FALSE

AuthNext ==
    \/ \E p \in AuthProcs, c \in Creds :
         \/ LoadProfile(p, c)
         \/ \E b \in BOOLEAN : RemoveOrLogout(p, c, b)
         \/ \E s \in SessionIds : OAuthStart(p, s, c) \/ OAuthComplete(p, s, c)
    \/ \E p \in AuthProcs :
         \/ \E b \in BOOLEAN : Refresh(p, b) \/ SaveProfiles(p, b) \/ RemoveSession(p, b)
         \/ PersistProfileIfNamed(p)
         \/ \E answer \in {"code", "lost", "broken", "foreign"} : FinishLogin(p, answer)
         \/ PersistLogin(p)
         \/ Dies(p)
    \/ \E s \in SessionIds : SessionExpires(s)

-----------------------------------------------------------------------------
Owing == {p \in AuthProcs : procs[p].pc \in {"owes", "saving", "redeemed", "removed"}}

\* The file holds refresh tokens that the provider still takes, unless a
\* process still has to write one, died with one, or replaced a file that it
\* had not read (persist_profile_if_named, save_profiles).
FileTokensGood ==
    Owing = {} /\ ~overlapped /\ ~mishap
      => \A c \in DOMAIN doc : doc[c] # NoToken => current[doc[c].g] = doc[c].n

\* A refresh in flight never brings back a credential that was removed: a
\* credential appears in the file only by a login, as long as no writer
\* replaces a file that it has not read.
RemovedStaysRemoved ==
    [][\A c \in DOMAIN doc' \ DOMAIN doc :
         overlapped' \/ \E p \in AuthProcs : procs[p].cred = c /\ procs[p].session # "none"]_authVars

\* A login whose token is stored has left no file that a later command could
\* find: the file goes before the credential is written (`auth oauth complete`).
\* A login whose code is spent may leave its file, when the answer was lost or
\* the command ended before remove_session; then its token is in no file, and in
\* no process but the one that still holds the answer.
SpentLoginGone ==
    \A s \in DOMAIN pending \cap DOMAIN redeemed :
      /\ \A c \in DOMAIN doc : doc[c] # NoToken => doc[c].g # redeemed[s]
      /\ \A p \in AuthProcs : procs[p].mem # NoToken /\ procs[p].mem.g = redeemed[s] => procs[p].session = s
=============================================================================
