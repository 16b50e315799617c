------------------------- MODULE HttpSessionsProofs -------------------------
(***************************************************************************)
(* Theorems about the cached HTTP sessions of HttpSessions, for any number *)
(* of jobs and calls.  The invariant says where each process is and what   *)
(* it has with it, who holds the ops mutex, who counts, who makes a        *)
(* session, what its stream covers and what a cursor has passed.           *)
(***************************************************************************)
EXTENDS HttpSessions, FiniteSetTheorems, SequenceTheorems, WellFoundedInduction, TLAPS

\* Where a process can be.
Restarts   == {"restart", "restart_post", "restart_set"}
Collecting == {"collect", "collect_drain"}
Prelude    == {"lookup", "lookup_map", "create", "connect"}
HttpPlaces == Prelude \cup Restarts \cup Collecting
                \cup {"insert", "ensure", "subscribe", "release", "unsubscribe", "open", "drain", "get_stream",
                      "polled", "emit", "call", "closed"}

HttpNotes   == [sub : Nat, kind : {"ack", "updated"}, uri : Uris \cup {"none"}]
HttpEntries == [seq : Nat, n : HttpNotes]
HttpFans    == [next : Nat, items : Seq(HttpEntries), err : BOOLEAN]
HttpReaders == [id : Nat, filter : SUBSET Uris, greeted : BOOLEAN]

MapTypes    == /\ era \in {"modern", "legacy"} /\ made \in 0 .. MaxSessions /\ http \in 0 .. made
               /\ at \in [Procs -> 0 .. made]
SubTypes    == subs \in [Sessions -> [Uris -> Nat]] /\ ops \in [Sessions -> Procs \cup {"free"}]
StreamTypes == /\ sid \in [Sessions -> Nat] /\ next_id \in [Sessions -> Nat \ {0}] /\ task \in [Sessions -> Nat]
               /\ live \in [Sessions -> SUBSET HttpReaders] /\ server \in [Sessions -> SUBSET Uris]
ErrorTypes  == terr \in [Sessions -> BOOLEAN] /\ hurt \in SUBSET Sessions /\ leaked \in SUBSET Sessions
RingTypes   == fan \in [Sessions -> HttpFans]
NoteTypes   == buf \in [Sessions -> Seq(HttpNotes)] /\ ack \in [Sessions -> BOOLEAN]
JobTypes    == /\ cursor \in [Procs -> Nat] /\ todo \in [Procs -> Seq(HttpEntries)] /\ seen \in [Procs -> SUBSET Nat]
PlaceTypes  == /\ pc \in [Procs -> HttpPlaces]
               /\ rfilter \in [Procs -> SUBSET Uris] /\ rid \in [Procs -> Nat]
               /\ rback \in [Procs -> {"", "insert", "ensure", "release", "drain", "collect"}]
               /\ cback \in [Procs -> {"", "open", "closed", "polled", "emit"}]
HttpTypes   == /\ MapTypes /\ SubTypes /\ StreamTypes /\ ErrorTypes /\ RingTypes /\ NoteTypes /\ JobTypes
               /\ PlaceTypes

\* What a process has with it at its place.
InSession(p) ==
  /\ pc[p] \notin Prelude \cup {"closed"} => at[p] # 0
  /\ pc[p] \in {"ensure", "subscribe", "release", "unsubscribe", "open", "drain", "get_stream", "polled", "emit"} => p \in Jobs
  /\ pc[p] = "call" => p \notin Jobs
  /\ pc[p] \in Collecting \cup Restarts /\ cback[p] \in {"open", "polled", "emit"} => p \in Jobs
  /\ pc[p] \in Restarts \cup {"drain"} => era = "modern"
  /\ pc[p] \in {"subscribe", "unsubscribe", "get_stream"} => era = "legacy"
Returns(p) ==
  /\ pc[p] \in Prelude \cup {"insert"} => cback[p] = ""
  /\ pc[p] \in Collecting => cback[p] # ""
  /\ pc[p] \in Restarts => \/ rback[p] = "insert"  /\ cback[p] = ""
                           \/ rback[p] = "ensure"  /\ cback[p] = "open"
                           \/ rback[p] = "release" /\ cback[p] = "closed" /\ p \in Jobs
                           \/ rback[p] = "drain"   /\ cback[p] = "polled"
                           \/ rback[p] = "collect" /\ cback[p] # ""
  /\ pc[p] \in {"drain", "get_stream"} => cback[p] = "polled"
  /\ pc[p] = "subscribe" => cback[p] = "open"
  /\ pc[p] = "unsubscribe" => cback[p] = "closed"
  /\ pc[p] \in {"restart_post", "restart_set"} => rid[p] # 0
PlacesInv == \A p \in Procs : InSession(p) /\ Returns(p)

\* The ops mutex.
Locked(p) == /\ p \in Jobs
             /\ \/ pc[p] \in {"subscribe", "unsubscribe"}
                \/ pc[p] \in Restarts \cup Collecting /\ cback[p] \in {"open", "closed"}
                \/ pc[p] \in Restarts /\ rback[p] = "drain"
MutexInv ==
  /\ \A s \in Sessions, p \in Procs : ops[s] = p => at[p] = s /\ Locked(p)
  /\ \A p \in Procs : Locked(p) => ops[at[p]] = p

\* The counts.
Holders(s, u) == {j \in Jobs : at[j] = s /\ UriOf[j] = u /\ Counting(j)}
Alone(p) == /\ pc[p] \in Restarts /\ rback[p] = "ensure" => subs[at[p]][UriOf[p]] = 1
            /\ pc[p] \in {"subscribe", "unsubscribe"} => subs[at[p]][UriOf[p]] = 0
CountsAll(s, u) == /\ subs[s][u] >= Cardinality(Holders(s, u))
                   /\ s \notin leaked => subs[s][u] = Cardinality(Holders(s, u))
CountInv == /\ \A s \in Sessions, u \in Uris : CountsAll(s, u)
            /\ \A p \in Procs : Alone(p)

\* A session that is being made is known to its maker only.
Making(p) == pc[p] = "insert" \/ (pc[p] \in Restarts /\ rback[p] = "insert")
MakerInv ==
  /\ \A p \in Procs : Making(p) => http # at[p] /\ \A q \in Procs : at[q] = at[p] => q = p
  /\ \A p \in Procs : (~Making(p) /\ pc[p] \notin Prelude \cup {"closed"} /\ era = "modern") => sid[at[p]] # 0 \/ at[p] \in hurt
  /\ era = "modern" /\ http # 0 => sid[http] # 0 \/ http \in hurt
  /\ \A s \in Sessions : s > made => s \notin hurt /\ live[s] = {} /\ ~terr[s]
  \* a maker's session
  /\ \A p \in Procs : pc[p] = "insert" /\ era = "modern" => sid[at[p]] # 0 \/ at[p] \in hurt

\* The streams of a session that is not hurt.
Unhurt(s) ==
  /\ ~terr[s]
  /\ \A r1, r2 \in live[s] : r1 = r2
  /\ \A r \in live[s] : r.id = task[s]
  /\ \A p \in Procs : at[p] = s => /\ pc[p] # "drain"
                                   /\ pc[p] \in Restarts => rback[p] \in {"insert", "ensure", "release"}
                                   /\ pc[p] = "restart_post" => live[s] = {} /\ rfilter[p] = Desired(s)
                                   /\ pc[p] = "restart_set" => \E r \in live[s] : r.id = rid[p] /\ r.filter = Desired(s)
  /\ era = "modern" /\ sid[s] # 0 /\ (\A p \in Procs : at[p] = s => pc[p] \notin Restarts) =>
        \E r \in live[s] : r.id = sid[s] /\ r.filter = Desired(s)
StreamInv == 
  /\ \A s \in Sessions \ hurt : Unhurt(s)
  /\ era = "legacy" => \A s \in Sessions : Desired(s) \subseteq server[s]

\* The ring and the cursors.
Ring(f) == /\ Len(f.items) <= f.next
           /\ \A i \in 1 .. Len(f.items) : f.items[i].seq = f.next - Len(f.items) + i
Queued(j) == {todo[j][i].seq : i \in 1 .. Len(todo[j])}
Tracked(j) == Counting(j) /\ pc[j] # "release"
Fresh(j)   == pc[j] \in Prelude \cup {"insert", "ensure", "subscribe"} \/ (pc[j] \in Restarts /\ rback[j] = "insert")
Waits(j)   == \/ pc[j] \in {"open", "drain", "get_stream", "polled"}
              \/ pc[j] \in Collecting \cup Restarts /\ cback[j] \in {"open", "polled"}
Gapless(j) == \A q \in 1 .. cursor[j] : q \in seen[j] \cup Queued(j) \/ q <= fan[at[j]].next - Len(fan[at[j]].items)
Follows(j) == /\ Tracked(j) => Gapless(j)
              /\ Fresh(j) => cursor[j] = 0 /\ todo[j] = <<>>
              /\ Waits(j) => todo[j] = <<>>
FanInv == (\A s \in Sessions : Ring(fan[s])) /\ \A j \in Jobs : Follows(j)
-----------------------------------------------------------------------------
-----------------------------------------------------------------------------
(* Induction over a sequence. *)

\* A set of numbers that is not empty has a least one.
LEMMA LeastNat ==
    ASSUME NEW T \in SUBSET Nat, T # {}
    PROVE  \E m \in T : \A n \in T : m <= n
<1>1. PICK R : R = OpToRel(<, Nat) BY Zenon
<1>2. IsWellFoundedOn(R, Nat) BY <1>1, NatLessThanWellFounded, Zenon
<1>3. PICK m \in T : \A n \in T : ~(<<n, m>> \in R) BY <1>2, WFMin
<1>4. \A n \in T : ~(n < m) BY <1>1, <1>3, Zenon DEF OpToRel
<1> QED BY <1>4

\* Induction up to a number, for a set instead of a predicate.
LEMMA UpTo ==
    ASSUME NEW L \in Nat, NEW S, 0 \in S, \A i \in 1 .. L : i - 1 \in S => i \in S
    PROVE  \A i \in 0 .. L : i \in S
<1> DEFINE T == {i \in 0 .. L : i \notin S}
<1>1. SUFFICES ASSUME T # {} PROVE FALSE OBVIOUS
<1>2. PICK m \in T : \A n \in T : m <= n
  <2>1. T \in SUBSET Nat OBVIOUS
  <2> HIDE DEF T
  <2> QED BY <1>1, <2>1, LeastNat
<1>3. m \in 1 .. L /\ m - 1 \in 0 .. L /\ m - 1 < m BY <1>2
<1>4. m - 1 \in S BY <1>2, <1>3
<1> QED BY <1>2, <1>3, <1>4

\* A function may be defined by recursion over the places of a sequence: from x
\* on, g[i] takes the value before place i to the value behind it.
StepsIn(X, x, L, g) == x \in X /\ L \in Nat /\ g \in [1 .. L -> [X -> X]]
Recurs(f, X, x, L, g) == f \in [0 .. L -> X] /\ \A i \in 0 .. L : f[i] = IF i = 0 THEN x ELSE g[i][f[i - 1]]

\* A recursion over 0 .. n has a function, whatever its steps are.
LEMMA RecursionExists ==
    ASSUME NEW X, NEW x, NEW L, NEW g, StepsIn(X, x, L, g)
    PROVE  \E f : Recurs(f, X, x, L, g)
<1> USE DEF StepsIn
<1> DEFINE Rec(f, n) == \A i \in 0 .. n : f[i] = IF i = 0 THEN x ELSE g[i][f[i - 1]]
           S == {n \in 0 .. L : \E f \in [0 .. n -> X] : Rec(f, n)}
<1>1. 0 \in S
  <2>1. [i \in 0 .. 0 |-> x] \in [0 .. 0 -> X] /\ Rec([i \in 0 .. 0 |-> x], 0) OBVIOUS
  <2>2. 0 \in 0 .. L OBVIOUS
  <2> HIDE DEF Rec
  <2> QED BY <2>1, <2>2
<1>2. ASSUME NEW n \in 1 .. L, n - 1 \in S PROVE n \in S
  <2>1. PICK f \in [0 .. n - 1 -> X] : Rec(f, n - 1) BY <1>2
  <2> DEFINE h == [i \in 0 .. n |-> IF i = n THEN g[n][f[n - 1]] ELSE f[i]]
  <2>2. f[n - 1] \in X /\ g[n] \in [X -> X] OBVIOUS
  <2>3. g[n][f[n - 1]] \in X BY <2>2
  <2>4. \A i \in 0 .. n : i # n => i \in 0 .. n - 1 OBVIOUS
  <2>5. h \in [0 .. n -> X] BY <2>3, <2>4
  <2>6. \A i \in 0 .. n - 1 : h[i] = f[i] OBVIOUS
  <2>7. ASSUME NEW i \in 0 .. n PROVE h[i] = IF i = 0 THEN x ELSE g[i][h[i - 1]]
    <3>1. CASE i = n
      <4>1. h[i - 1] = f[n - 1] /\ i # 0 BY <2>6, <3>1
      <4> QED BY <3>1, <4>1
    <3>2. CASE i # n /\ i # 0
      <4>1. i \in 0 .. n - 1 /\ i - 1 \in 0 .. n - 1 BY <3>2
      <4> QED BY <2>1, <2>6, <3>2, <4>1
    <3>3. CASE i = 0
      <4>1. i \in 0 .. n - 1 BY <3>3
      <4> QED BY <2>1, <2>6, <3>3, <4>1
    <3> QED BY <3>1, <3>2, <3>3
  <2>8. Rec(h, n) BY <2>7
  <2>9. n \in 0 .. L OBVIOUS
  <2> HIDE DEF Rec, h
  <2> QED BY <2>9, <2>5, <2>8
<1>3. L \in S
  <2>1. L \in 0 .. L OBVIOUS
  <2> HIDE DEF S
  <2>2. \A i \in 0 .. L : i \in S BY <1>1, <1>2, UpTo
  <2> QED BY <2>1, <2>2
<1> QED BY <1>3 DEF Recurs

\* What accept_subscription_notification lets through are notifications.
LEMMA AcceptAllType ==
    ASSUME NEW ns \in Seq(HttpNotes), NEW active \in Nat, NEW acked \in BOOLEAN
    PROVE  AcceptAll(ns, active, acked) \in [ack : BOOLEAN, kept : Seq(HttpNotes)]
<1> DEFINE X == [ack : BOOLEAN, kept : Seq(HttpNotes)]
           L == Len(ns)
           x == [ack |-> acked, kept |-> <<>>]
           g == [i \in 1 .. L |-> [y \in X |-> Accept(ns[i], active, y)]]
           A == AcceptFirst(ns, active, acked)
<1>1. L \in Nat /\ x \in X /\ \A i \in 1 .. L : ns[i] \in HttpNotes OBVIOUS
<1>2. ASSUME NEW y \in X, NEW n \in HttpNotes PROVE Accept(n, active, y) \in X
  <2>1. Append(y.kept, n) \in Seq(HttpNotes) OBVIOUS
  <2>2. [y EXCEPT !.kept = Append(@, n)] \in X /\ [y EXCEPT !.ack = TRUE] \in X BY <2>1
  <2> QED BY <2>2 DEF Accept
<1>3. g \in [1 .. L -> [X -> X]]
  <2> HIDE DEF X
  <2> QED BY <1>1, <1>2
<1>4. PICK f \in [0 .. L -> X] : \A i \in 0 .. L : f[i] = IF i = 0 THEN x ELSE g[i][f[i - 1]]
  <2>1. StepsIn(X, x, L, g) BY <1>1, <1>3 DEF StepsIn
  <2>2. PICK f : Recurs(f, X, x, L, g) BY <2>1, RecursionExists
  <2> QED BY <2>2 DEF Recurs
<1>5. \A i \in 0 .. L : f[i] = IF i = 0 THEN x ELSE Accept(ns[i], active, f[i - 1])
  <2> HIDE DEF X, x
  <2>1. \A i \in 1 .. L : i - 1 \in 0 .. L /\ i \in 0 .. L OBVIOUS
  <2>2. \A i \in 1 .. L : f[i - 1] \in X BY <2>1
  <2>3. \A i \in 1 .. L : g[i][f[i - 1]] = Accept(ns[i], active, f[i - 1]) BY <2>2
  <2>4. \A i \in 0 .. L : i # 0 => i \in 1 .. L OBVIOUS
  <2> QED BY <1>4, <2>3, <2>4
<1>6. f = [i \in 0 .. L |-> IF i = 0 THEN x ELSE Accept(ns[i], active, f[i - 1])]
  <2> HIDE DEF X, x
  <2> QED BY <1>5
<1>7. A = [i \in 0 .. L |-> IF i = 0 THEN x ELSE Accept(ns[i], active, A[i - 1])]
  <2> DEFINE F(h) == h = [i \in 0 .. Len(ns) |-> IF i = 0 THEN [ack |-> acked, kept |-> <<>>] ELSE Accept(ns[i], active, h[i - 1])]
  <2>1. A = CHOOSE h : F(h) BY DEF AcceptFirst
  <2>2. F(f) BY <1>6
  <2> QED BY <2>1, <2>2
<1> DEFINE S == {i \in 0 .. L : A[i] \in X}
<1> HIDE DEF A, X, x
<1>8. 0 \in S
  <2>1. A[0] = x BY <1>1, <1>7
  <2> QED BY <1>1, <2>1
<1>9. ASSUME NEW i \in 1 .. L, i - 1 \in S PROVE i \in S
  <2>1. A[i] = Accept(ns[i], active, A[i - 1]) BY <1>7
  <2> QED BY <1>1, <1>2, <1>9, <2>1
<1>10. A[L] \in X
  <2>1. L \in S
    <3>1. 0 .. L # {} /\ L \in 0 .. L BY <1>1
    <3> HIDE DEF S, L
    <3>2. \A i \in 0 .. L : i \in S BY <1>1, <1>8, <1>9, UpTo
    <3> QED BY <3>1, <3>2
  <2> QED BY <2>1
<1> QED BY <1>10 DEF AcceptAll, A, X

\* since hands out every entry behind the cursor.
LEMMA SinceHas ==
    ASSUME NEW es \in Seq(HttpEntries), NEW c \in Nat
    PROVE  LET t == SinceFirst(es, c)[Len(es)] IN
             /\ t \in Seq(HttpEntries)
             /\ \A i \in 1 .. Len(es) : es[i].seq > c => \E k \in 1 .. Len(t) : t[k] = es[i]
<1> DEFINE X == Seq(HttpEntries)
           L == Len(es)
           Take(y, i) == IF es[i].seq > c THEN Append(y, es[i]) ELSE y
           g == [i \in 1 .. L |-> [y \in X |-> Take(y, i)]]
           A == SinceFirst(es, c)
<1>1. L \in Nat /\ <<>> \in X /\ \A i \in 1 .. L : es[i] \in HttpEntries OBVIOUS
<1>2. ASSUME NEW y \in X, NEW i \in 1 .. L PROVE Take(y, i) \in X
  BY <1>1
<1>3. g \in [1 .. L -> [X -> X]]
  <2> HIDE DEF X, Take
  <2> QED BY <1>1, <1>2
<1>4. PICK f \in [0 .. L -> X] : \A i \in 0 .. L : f[i] = IF i = 0 THEN <<>> ELSE g[i][f[i - 1]]
  <2>1. StepsIn(X, <<>>, L, g) BY <1>1, <1>3 DEF StepsIn
  <2>2. PICK f : Recurs(f, X, <<>>, L, g) BY <2>1, RecursionExists
  <2> QED BY <2>2 DEF Recurs
<1>5. \A i \in 0 .. L : f[i] = IF i = 0 THEN <<>> ELSE Take(f[i - 1], i)
  <2> HIDE DEF X, Take
  <2>1. \A i \in 1 .. L : i - 1 \in 0 .. L /\ i \in 0 .. L OBVIOUS
  <2>2. \A i \in 1 .. L : f[i - 1] \in X BY <2>1
  <2>3. \A i \in 1 .. L : g[i][f[i - 1]] = Take(f[i - 1], i) BY <2>2
  <2>4. \A i \in 0 .. L : i # 0 => i \in 1 .. L OBVIOUS
  <2> QED BY <1>4, <2>3, <2>4
<1>6. f = [i \in 0 .. L |-> IF i = 0 THEN <<>> ELSE Take(f[i - 1], i)]
  <2> HIDE DEF X, Take
  <2> QED BY <1>5
<1>7. A = [i \in 0 .. L |-> IF i = 0 THEN <<>> ELSE Take(A[i - 1], i)]
  <2> DEFINE F(h) == h = [i \in 0 .. Len(es) |-> IF i = 0 THEN <<>>
                          ELSE IF es[i].seq > c THEN Append(h[i - 1], es[i]) ELSE h[i - 1]]
  <2>1. A = CHOOSE h : F(h) BY DEF SinceFirst
  <2>2. F(f) BY <1>6
  <2> QED BY <2>1, <2>2
<1> DEFINE Has(i) == /\ A[i] \in X
                     /\ \A j \in 1 .. i : es[j].seq > c => \E k \in 1 .. Len(A[i]) : A[i][k] = es[j]
           S == {i \in 0 .. L : Has(i)}
<1> HIDE DEF A
<1>8. 0 \in S
  <2>1. A[0] = <<>> BY <1>1, <1>7
  <2> QED BY <1>1, <2>1
<1>9. ASSUME NEW i \in 1 .. L, i - 1 \in S PROVE i \in S
  <2>1. A[i] = Take(A[i - 1], i)
    <3>1. i \in 0 .. L /\ i # 0 OBVIOUS
    <3> HIDE DEF Take, L
    <3> QED BY <1>7, <3>1
  <2>2. A[i - 1] \in X /\ \A j \in 1 .. i - 1 : es[j].seq > c => \E k \in 1 .. Len(A[i - 1]) : A[i - 1][k] = es[j]
    BY <1>9
  <2>3. CASE es[i].seq > c
    <3>1. A[i] = Append(A[i - 1], es[i]) BY <2>1, <2>3
    <3>2. A[i] \in X /\ Len(A[i]) = Len(A[i - 1]) + 1 /\ A[i][Len(A[i - 1]) + 1] = es[i]
          /\ \A k \in 1 .. Len(A[i - 1]) : A[i][k] = A[i - 1][k]
      BY <1>1, <2>2, <3>1
    <3>3. Len(A[i - 1]) \in Nat BY <2>2
    <3>4. ASSUME NEW j \in 1 .. i, es[j].seq > c PROVE \E k \in 1 .. Len(A[i]) : A[i][k] = es[j]
      <4>1. CASE j = i BY <3>2, <3>3, <4>1
      <4>2. CASE j # i
        <5>1. j \in 1 .. i - 1 BY <4>2
        <5>2. PICK k \in 1 .. Len(A[i - 1]) : A[i - 1][k] = es[j] BY <2>2, <3>4, <5>1
        <5> QED BY <3>2, <3>3, <5>2
      <4> QED BY <4>1, <4>2
    <3> QED BY <3>2, <3>4
  <2>4. CASE ~(es[i].seq > c)
    <3>1. A[i] = A[i - 1] BY <2>1, <2>4
    <3>2. \A j \in 1 .. i : es[j].seq > c => j \in 1 .. i - 1 BY <2>4
    <3> QED BY <2>2, <3>1, <3>2
  <2> QED BY <2>3, <2>4
<1>10. Has(L)
  <2>1. L \in S
    <3>1. 0 .. L # {} /\ L \in 0 .. L BY <1>1
    <3> HIDE DEF S, L
    <3>2. \A i \in 0 .. L : i \in S BY <1>1, <1>8, <1>9, UpTo
    <3> QED BY <3>1, <3>2
  <2> QED BY <2>1
<1> QED BY <1>10 DEF A

\* The last entries of a sequence.
LEMMA SuffixFacts ==
    ASSUME NEW S, NEW q \in Seq(S), NEW cut \in 0 .. Len(q)
    PROVE  LET t == SubSeq(q, cut + 1, Len(q)) IN
             t \in Seq(S) /\ Len(t) = Len(q) - cut /\ \A i \in 1 .. Len(q) - cut : t[i] = q[cut + i]
<1>1. Len(q) \in Nat OBVIOUS
<1> QED BY <1>1

\* Pushing notifications leaves a buffer of notifications.
LEMMA PushType ==
    ASSUME NEW q \in Seq(HttpNotes), NEW ns \in Seq(HttpNotes)
    PROVE  Push(q, ns) \in Seq(HttpNotes)
<1> DEFINE all == q \o ns
           cut == IF Len(all) > BufferLimit THEN Len(all) - BufferLimit ELSE 0
<1>1. all \in Seq(HttpNotes) /\ Len(all) \in Nat OBVIOUS
<1>2. BufferLimit \in Nat \ {0} BY HttpAssumption DEF HttpAssumption
<1>3. cut \in 0 .. Len(all) BY <1>1, <1>2
<1> HIDE DEF all
<1>4. SubSeq(all, cut + 1, Len(all)) \in Seq(HttpNotes) BY <1>1, <1>3, SuffixFacts
<1> QED BY <1>4 DEF Push, all

\* extend numbers on, and forgets from the front only.
LEMMA ExtendFacts ==
    ASSUME NEW f \in HttpFans, Ring(f), NEW ns \in Seq(HttpNotes)
    PROVE  /\ Extend(f, ns) \in HttpFans /\ Ring(Extend(f, ns)) /\ Extend(f, ns).err = f.err
           /\ f.next - Len(f.items) <= Extend(f, ns).next - Len(Extend(f, ns).items)
<1> DEFINE new == [i \in 1 .. Len(ns) |-> [seq |-> f.next + i, n |-> ns[i]]]
           all == f.items \o new
           cut == IF Len(all) > HistoryLimit THEN Len(all) - HistoryLimit ELSE 0
           t == SubSeq(all, cut + 1, Len(all))
<1>1. f.next \in Nat /\ f.items \in Seq(HttpEntries) /\ f.err \in BOOLEAN /\ Len(f.items) \in Nat /\ Len(ns) \in Nat
  BY DEF HttpFans
<1>2. new \in Seq(HttpEntries) /\ Len(new) = Len(ns)
  <2>1. \A i \in 1 .. Len(ns) : [seq |-> f.next + i, n |-> ns[i]] \in HttpEntries BY <1>1 DEF HttpEntries
  <2> QED BY <1>1, <2>1
<1>3. \A i \in 1 .. Len(ns) : new[i].seq = f.next + i OBVIOUS
<1> HIDE DEF new
<1>4. all \in Seq(HttpEntries) /\ Len(all) = Len(f.items) + Len(ns) /\ Len(all) \in Nat BY <1>1, <1>2
<1>5. \A i \in 1 .. Len(all) : all[i].seq = f.next - Len(f.items) + i
  <2>1. SUFFICES ASSUME NEW i \in 1 .. Len(all) PROVE all[i].seq = f.next - Len(f.items) + i OBVIOUS
  <2>2. CASE i <= Len(f.items)
    <3>1. all[i] = f.items[i] /\ i \in 1 .. Len(f.items) BY <1>1, <1>2, <1>4, <2>2
    <3> QED BY <3>1 DEF Ring
  <2>3. CASE ~(i <= Len(f.items))
    <3>1. i - Len(f.items) \in 1 .. Len(ns) BY <1>1, <1>4, <2>3
    <3>2. all[i] = new[i - Len(f.items)] BY <1>1, <1>2, <1>4, <2>3, <3>1
    <3>3. all[i].seq = f.next + (i - Len(f.items)) BY <1>3, <3>1, <3>2
    <3> QED BY <1>1, <3>3
  <2> QED BY <2>2, <2>3
<1> HIDE DEF all
<1>6. HistoryLimit \in Nat \ {0} BY HttpAssumption DEF HttpAssumption
<1>7. cut \in 0 .. Len(all) BY <1>4, <1>6
<1> HIDE DEF cut
<1>8. t \in Seq(HttpEntries) /\ Len(t) = Len(all) - cut /\ \A i \in 1 .. Len(all) - cut : t[i] = all[cut + i]
  BY <1>4, <1>7, SuffixFacts
<1> HIDE DEF t
<1>9. Extend(f, ns) = [f EXCEPT !.next = @ + Len(ns), !.items = t]
  BY DEF Extend, t, cut, all, new
<1>10. Extend(f, ns) \in HttpFans /\ Extend(f, ns).next = f.next + Len(ns) /\ Extend(f, ns).items = t /\ Extend(f, ns).err = f.err
  <2> DEFINE e == [f EXCEPT !.next = @ + Len(ns), !.items = t]
  <2>1. e.next = f.next + Len(ns) /\ e.items = t /\ e.err = f.err BY DEF HttpFans
  <2>2. f.next + Len(ns) \in Nat BY <1>1
  <2>3. e \in HttpFans BY <1>1, <1>8, <2>2 DEF HttpFans
  <2> QED BY <1>9, <2>1, <2>3
<1>11. Len(t) <= f.next + Len(ns)
  <2>1. Len(f.items) <= f.next BY DEF Ring
  <2> QED BY <1>1, <1>4, <1>7, <1>8, <2>1
<1>12. ASSUME NEW i \in 1 .. Len(t) PROVE t[i].seq = (f.next + Len(ns)) - Len(t) + i
  <2>1. i \in 1 .. Len(all) - cut /\ cut + i \in 1 .. Len(all) BY <1>4, <1>7, <1>8
  <2>2. t[i].seq = f.next - Len(f.items) + (cut + i) BY <1>5, <1>8, <2>1
  <2> QED BY <1>1, <1>4, <1>7, <1>8, <2>2
<1>13. f.next - Len(f.items) <= (f.next + Len(ns)) - Len(t) BY <1>1, <1>4, <1>7, <1>8
<1> QED BY <1>10, <1>11, <1>12, <1>13 DEF Ring

-----------------------------------------------------------------------------
(* Which steps touch what. *)

MapStep ==
  \/ UNCHANGED <<era, http, made, at>>
  \/ \E p \in Procs : GetFromMap(p) \/ GetOrCreate(p) \/ Connected(p) \/ InsertSession(p)
  \/ CleanupMap
SubStep ==
  \/ UNCHANGED <<subs, ops>>
  \/ \E p \in Procs : RestartRecorded(p) \/ RestartRefused(p) \/ DrainBuffer(p) \/ Ensure(p) \/ Subscribed(p)
        \/ SubscribeRefused(p) \/ Release(p) \/ DrainLocks(p) \/ Leave(p)
StreamStep ==
  \/ UNCHANGED <<sid, next_id, task, live, server>>
  \/ \E p \in Procs : RestartBegin(p) \/ RestartOpened(p) \/ RestartRecorded(p) \/ Subscribed(p)
        \/ Unsubscribed(p) \/ GetStream(p) \/ Leave(p)
  \/ \E s \in Sessions : \E r \in live[s] : Acknowledge(s, r) \/ Break(s, r)
ErrorStep ==
  \/ UNCHANGED <<terr, hurt, leaked>>
  \/ \E p \in Procs : RestartOpened(p) \/ RestartRefused(p) \/ TakeStreamError(p) \/ Poll(p) \/ GetStream(p) \/ Leave(p)
  \/ \E s \in Sessions : \E r \in live[s] : Break(s, r)
RingStep ==
  \/ UNCHANGED <<fan>>
  \/ \E p \in Procs : RestartRecorded(p) \/ RestartRefused(p) \/ TakeStreamError(p) \/ DrainBuffer(p)
        \/ Ensure(p) \/ Unsubscribed(p) \/ GetStream(p)
NoteStep ==
  \/ UNCHANGED <<buf, ack>>
  \/ \E p \in Procs : RestartRecorded(p) \/ DrainBuffer(p)
  \/ \E s \in Sessions : \E r \in live[s] : Acknowledge(s, r) \/ (\E us \in Chunks : Update(s, r, us))
JobStep ==
  \/ UNCHANGED <<cursor, todo, seen>>
  \/ \E p \in Procs : Polled(p) \/ Emit(p)

\* Every step leaves all but a few groups of variables alone.
LEMMA Touches ==
    ASSUME [Next]_vars
    PROVE  /\ MapStep /\ SubStep /\ StreamStep /\ ErrorStep /\ RingStep /\ NoteStep /\ JobStep
<1> DEFINE G == MapStep /\ SubStep /\ StreamStep /\ ErrorStep /\ RingStep /\ NoteStep /\ JobStep
<1>1. ASSUME UNCHANGED vars PROVE G
  <2>1. UNCHANGED <<era, http, made, at, subs, ops, sid, next_id, task, live, server, terr, hurt, leaked, fan, buf, ack, cursor, todo, seen>>
    BY <1>1 DEF vars, mapvars, sessvars, wirevars, procvars
  <2> QED BY <1>1, <2>1 DEF MapStep, SubStep, StreamStep, ErrorStep, RingStep, NoteStep, JobStep
<1>2. ASSUME NEW p \in Procs, GetByLookupKey(p) PROVE G
  <2>1. UNCHANGED <<era, http, made, at, subs, ops, sid, next_id, task, live, server, terr, hurt, leaked, fan, buf, ack, cursor, todo, seen>>
    BY <1>2 DEF GetByLookupKey, mapvars, sessvars, wirevars, procvars
  <2> QED BY <1>2, <2>1 DEF MapStep, SubStep, StreamStep, ErrorStep, RingStep, NoteStep, JobStep
<1>3. ASSUME NEW p \in Procs, GetFromMap(p) PROVE G
  <2>1. UNCHANGED <<subs, ops, sid, next_id, task, live, server, terr, hurt, leaked, fan, buf, ack, cursor, todo, seen>>
    BY <1>3 DEF GetFromMap, mapvars, sessvars, wirevars, procvars
  <2> QED BY <1>3, <2>1 DEF MapStep, SubStep, StreamStep, ErrorStep, RingStep, NoteStep, JobStep
<1>4. ASSUME NEW p \in Procs, GetOrCreate(p) PROVE G
  <2>1. UNCHANGED <<subs, ops, sid, next_id, task, live, server, terr, hurt, leaked, fan, buf, ack, cursor, todo, seen>>
    BY <1>4 DEF GetOrCreate, mapvars, sessvars, wirevars, procvars
  <2> QED BY <1>4, <2>1 DEF MapStep, SubStep, StreamStep, ErrorStep, RingStep, NoteStep, JobStep
<1>5. ASSUME NEW p \in Procs, Connected(p) PROVE G
  <2>1. UNCHANGED <<subs, ops, sid, next_id, task, live, server, terr, hurt, leaked, fan, buf, ack, cursor, todo, seen>>
    BY <1>5 DEF Connected, mapvars, sessvars, wirevars, procvars
  <2> QED BY <1>5, <2>1 DEF MapStep, SubStep, StreamStep, ErrorStep, RingStep, NoteStep, JobStep
<1>6. ASSUME NEW p \in Procs, ConnectFailed(p) PROVE G
  <2>1. UNCHANGED <<era, http, made, at, subs, ops, sid, next_id, task, live, server, terr, hurt, leaked, fan, buf, ack, cursor, todo, seen>>
    BY <1>6 DEF ConnectFailed, mapvars, sessvars, wirevars, procvars
  <2> QED BY <1>6, <2>1 DEF MapStep, SubStep, StreamStep, ErrorStep, RingStep, NoteStep, JobStep
<1>7. ASSUME NEW p \in Procs, InsertSession(p) PROVE G
  <2>1. UNCHANGED <<subs, ops, sid, next_id, task, live, server, terr, hurt, leaked, fan, buf, ack, cursor, todo, seen>>
    BY <1>7 DEF InsertSession, mapvars, sessvars, wirevars, procvars
  <2> QED BY <1>7, <2>1 DEF MapStep, SubStep, StreamStep, ErrorStep, RingStep, NoteStep, JobStep
<1>8. ASSUME NEW p \in Procs, RestartBegin(p) PROVE G
  <2>1. UNCHANGED <<era, http, made, at, subs, ops, terr, hurt, leaked, fan, buf, ack, cursor, todo, seen>>
    BY <1>8 DEF RestartBegin, mapvars, sessvars, wirevars, procvars
  <2> QED BY <1>8, <2>1 DEF MapStep, SubStep, StreamStep, ErrorStep, RingStep, NoteStep, JobStep
<1>9. ASSUME NEW p \in Procs, RestartOpened(p) PROVE G
  <2>1. UNCHANGED <<era, http, made, at, subs, ops, fan, buf, ack, cursor, todo, seen>>
    BY <1>9 DEF RestartOpened, mapvars, sessvars, wirevars, procvars
  <2> QED BY <1>9, <2>1 DEF MapStep, SubStep, StreamStep, ErrorStep, RingStep, NoteStep, JobStep
<1>10. ASSUME NEW p \in Procs, RestartRecorded(p) PROVE G
  <2>1. UNCHANGED <<era, http, made, at, terr, hurt, leaked, cursor, todo, seen>>
    BY <1>10 DEF RestartRecorded, mapvars, sessvars, wirevars, procvars
  <2> QED BY <1>10, <2>1 DEF MapStep, SubStep, StreamStep, ErrorStep, RingStep, NoteStep, JobStep
<1>11. ASSUME NEW p \in Procs, RestartRefused(p) PROVE G
  <2>1. UNCHANGED <<era, http, made, at, sid, next_id, task, live, server, buf, ack, cursor, todo, seen>>
    BY <1>11 DEF RestartRefused, mapvars, sessvars, wirevars, procvars
  <2> QED BY <1>11, <2>1 DEF MapStep, SubStep, StreamStep, ErrorStep, RingStep, NoteStep, JobStep
<1>12. ASSUME NEW p \in Procs, TakeStreamError(p) PROVE G
  <2>1. UNCHANGED <<era, http, made, at, subs, ops, sid, next_id, task, live, server, buf, ack, cursor, todo, seen>>
    BY <1>12 DEF TakeStreamError, mapvars, sessvars, wirevars, procvars
  <2> QED BY <1>12, <2>1 DEF MapStep, SubStep, StreamStep, ErrorStep, RingStep, NoteStep, JobStep
<1>13. ASSUME NEW p \in Procs, DrainBuffer(p) PROVE G
  <2>1. UNCHANGED <<era, http, made, at, sid, next_id, task, live, server, terr, hurt, leaked, cursor, todo, seen>>
    BY <1>13 DEF DrainBuffer, mapvars, sessvars, wirevars, procvars
  <2> QED BY <1>13, <2>1 DEF MapStep, SubStep, StreamStep, ErrorStep, RingStep, NoteStep, JobStep
<1>14. ASSUME NEW p \in Procs, Ensure(p) PROVE G
  <2>1. UNCHANGED <<era, http, made, at, sid, next_id, task, live, server, terr, hurt, leaked, buf, ack, cursor, todo, seen>>
    BY <1>14 DEF Ensure, mapvars, sessvars, wirevars, procvars
  <2> QED BY <1>14, <2>1 DEF MapStep, SubStep, StreamStep, ErrorStep, RingStep, NoteStep, JobStep
<1>15. ASSUME NEW p \in Procs, Subscribed(p) PROVE G
  <2>1. UNCHANGED <<era, http, made, at, terr, hurt, leaked, fan, buf, ack, cursor, todo, seen>>
    BY <1>15 DEF Subscribed, mapvars, sessvars, wirevars, procvars
  <2> QED BY <1>15, <2>1 DEF MapStep, SubStep, StreamStep, ErrorStep, RingStep, NoteStep, JobStep
<1>16. ASSUME NEW p \in Procs, SubscribeRefused(p) PROVE G
  <2>1. UNCHANGED <<era, http, made, at, sid, next_id, task, live, server, terr, hurt, leaked, fan, buf, ack, cursor, todo, seen>>
    BY <1>16 DEF SubscribeRefused, mapvars, sessvars, wirevars, procvars
  <2> QED BY <1>16, <2>1 DEF MapStep, SubStep, StreamStep, ErrorStep, RingStep, NoteStep, JobStep
<1>17. ASSUME NEW p \in Procs, Release(p) PROVE G
  <2>1. UNCHANGED <<era, http, made, at, sid, next_id, task, live, server, terr, hurt, leaked, fan, buf, ack, cursor, todo, seen>>
    BY <1>17 DEF Release, mapvars, sessvars, wirevars, procvars
  <2> QED BY <1>17, <2>1 DEF MapStep, SubStep, StreamStep, ErrorStep, RingStep, NoteStep, JobStep
<1>18. ASSUME NEW p \in Procs, Unsubscribed(p) PROVE G
  <2>1. UNCHANGED <<era, http, made, at, subs, ops, terr, hurt, leaked, buf, ack, cursor, todo, seen>>
    BY <1>18 DEF Unsubscribed, mapvars, sessvars, wirevars, procvars
  <2> QED BY <1>18, <2>1 DEF MapStep, SubStep, StreamStep, ErrorStep, RingStep, NoteStep, JobStep
<1>19. ASSUME NEW p \in Procs, Poll(p) PROVE G
  <2>1. UNCHANGED <<era, http, made, at, subs, ops, sid, next_id, task, live, server, fan, buf, ack, cursor, todo, seen>>
    BY <1>19 DEF Poll, mapvars, sessvars, wirevars, procvars
  <2> QED BY <1>19, <2>1 DEF MapStep, SubStep, StreamStep, ErrorStep, RingStep, NoteStep, JobStep
<1>20. ASSUME NEW p \in Procs, DrainLocks(p) PROVE G
  <2>1. UNCHANGED <<era, http, made, at, sid, next_id, task, live, server, terr, hurt, leaked, fan, buf, ack, cursor, todo, seen>>
    BY <1>20 DEF DrainLocks, mapvars, sessvars, wirevars, procvars
  <2> QED BY <1>20, <2>1 DEF MapStep, SubStep, StreamStep, ErrorStep, RingStep, NoteStep, JobStep
<1>21. ASSUME NEW p \in Procs, GetStream(p) PROVE G
  <2>1. UNCHANGED <<era, http, made, at, subs, ops, buf, ack, cursor, todo, seen>>
    BY <1>21 DEF GetStream, mapvars, sessvars, wirevars, procvars
  <2> QED BY <1>21, <2>1 DEF MapStep, SubStep, StreamStep, ErrorStep, RingStep, NoteStep, JobStep
<1>22. ASSUME NEW p \in Procs, Polled(p) PROVE G
  <2>1. UNCHANGED <<era, http, made, at, subs, ops, sid, next_id, task, live, server, terr, hurt, leaked, fan, buf, ack>>
    BY <1>22 DEF Polled, mapvars, sessvars, wirevars, procvars
  <2> QED BY <1>22, <2>1 DEF MapStep, SubStep, StreamStep, ErrorStep, RingStep, NoteStep, JobStep
<1>23. ASSUME NEW p \in Procs, Emit(p) PROVE G
  <2>1. UNCHANGED <<era, http, made, at, subs, ops, sid, next_id, task, live, server, terr, hurt, leaked, fan, buf, ack>>
    BY <1>23 DEF Emit, mapvars, sessvars, wirevars, procvars
  <2> QED BY <1>23, <2>1 DEF MapStep, SubStep, StreamStep, ErrorStep, RingStep, NoteStep, JobStep
<1>24. ASSUME NEW p \in Procs, Stop(p) PROVE G
  <2>1. UNCHANGED <<era, http, made, at, subs, ops, sid, next_id, task, live, server, terr, hurt, leaked, fan, buf, ack, cursor, todo, seen>>
    BY <1>24 DEF Stop, mapvars, sessvars, wirevars, procvars
  <2> QED BY <1>24, <2>1 DEF MapStep, SubStep, StreamStep, ErrorStep, RingStep, NoteStep, JobStep
<1>25. ASSUME NEW p \in Procs, Call(p) PROVE G
  <2>1. UNCHANGED <<era, http, made, at, subs, ops, sid, next_id, task, live, server, terr, hurt, leaked, fan, buf, ack, cursor, todo, seen>>
    BY <1>25 DEF Call, mapvars, sessvars, wirevars, procvars
  <2> QED BY <1>25, <2>1 DEF MapStep, SubStep, StreamStep, ErrorStep, RingStep, NoteStep, JobStep
<1>26. ASSUME NEW s \in Sessions, NEW r \in live[s], Acknowledge(s, r) PROVE G
  <2>1. UNCHANGED <<era, http, made, at, subs, ops, terr, hurt, leaked, fan, cursor, todo, seen>>
    BY <1>26 DEF Acknowledge, mapvars, sessvars, wirevars, procvars
  <2> QED BY <1>26, <2>1 DEF MapStep, SubStep, StreamStep, ErrorStep, RingStep, NoteStep, JobStep
<1>27. ASSUME NEW s \in Sessions, NEW r \in live[s], Break(s, r) PROVE G
  <2>1. UNCHANGED <<era, http, made, at, subs, ops, fan, buf, ack, cursor, todo, seen>>
    BY <1>27 DEF Break, mapvars, sessvars, wirevars, procvars
  <2> QED BY <1>27, <2>1 DEF MapStep, SubStep, StreamStep, ErrorStep, RingStep, NoteStep, JobStep
<1>28. ASSUME NEW s \in Sessions, NEW r \in live[s], NEW us \in Chunks, Update(s, r, us) PROVE G
  <2>1. UNCHANGED <<era, http, made, at, subs, ops, sid, next_id, task, live, server, terr, hurt, leaked, fan, cursor, todo, seen>>
    BY <1>28 DEF Update, mapvars, sessvars, wirevars, procvars
  <2> QED BY <1>28, <2>1 DEF MapStep, SubStep, StreamStep, ErrorStep, RingStep, NoteStep, JobStep
<1>29. ASSUME CleanupMap PROVE G
  <2>1. UNCHANGED <<subs, ops, sid, next_id, task, live, server, terr, hurt, leaked, fan, buf, ack, cursor, todo, seen>>
    BY <1>29 DEF CleanupMap, mapvars, sessvars, wirevars, procvars
  <2> QED BY <1>29, <2>1 DEF MapStep, SubStep, StreamStep, ErrorStep, RingStep, NoteStep, JobStep
<1>30. ASSUME CleanupLookup PROVE G
  <2>1. UNCHANGED <<era, http, made, at, subs, ops, sid, next_id, task, live, server, terr, hurt, leaked, fan, buf, ack, cursor, todo, seen>>
    BY <1>30 DEF CleanupLookup, mapvars, sessvars, wirevars, procvars
  <2> QED BY <1>30, <2>1 DEF MapStep, SubStep, StreamStep, ErrorStep, RingStep, NoteStep, JobStep
<1>31. ASSUME NEW p \in Procs, EmitFailed(p) PROVE G
  <2>1. UNCHANGED <<era, http, made, at, subs, ops, sid, next_id, task, live, server, terr, hurt, leaked, fan, buf, ack, cursor, todo, seen>>
    BY <1>31 DEF EmitFailed, mapvars, sessvars, wirevars, procvars
  <2> QED BY <1>31, <2>1 DEF MapStep, SubStep, StreamStep, ErrorStep, RingStep, NoteStep, JobStep
<1>32. ASSUME NEW p \in Procs, Leave(p) PROVE G
  <2>1. UNCHANGED <<era, http, made, at, fan, buf, ack, cursor, todo, seen>>
    BY <1>32 DEF Leave, mapvars
  <2> QED BY <1>32, <2>1 DEF MapStep, SubStep, StreamStep, ErrorStep, RingStep, NoteStep, JobStep
<1> HIDE DEF G
<1>90. G
  BY <1>1, <1>2, <1>3, <1>4, <1>5, <1>6, <1>7, <1>8, <1>9, <1>10, <1>11, <1>12, <1>13, <1>14, <1>15, <1>16,
     <1>17, <1>18, <1>19, <1>20, <1>21, <1>22, <1>23, <1>24, <1>25, <1>26, <1>27, <1>28, <1>29, <1>30, <1>31,
     <1>32 DEF Next, Environment, Step
<1> QED BY <1>90 DEF G

-----------------------------------------------------------------------------
(* One process moves at a time. *)

Stays(q) == /\ pc'[q] = pc[q] /\ at'[q] = at[q] /\ cback'[q] = cback[q] /\ rback'[q] = rback[q]
            /\ rid'[q] = rid[q] /\ rfilter'[q] = rfilter[q]
            /\ cursor'[q] = cursor[q] /\ todo'[q] = todo[q] /\ seen'[q] = seen[q]
Moves(p) == \/ Step(p) \/ ConnectFailed(p) \/ RestartRefused(p) \/ SubscribeRefused(p) \/ EmitFailed(p)
            \/ Poll(p) \/ Stop(p) \/ Leave(p)

\* What one process does leaves the places and notes of the others alone.
LEMMA OthersStay ==
    ASSUME HttpTypes, NEW p \in Procs, Moves(p), NEW q \in Procs, q # p
    PROVE  Stays(q) /\ era' = era
<1>0. pc \in [Procs -> HttpPlaces] /\ at \in [Procs -> 0 .. made] /\ DOMAIN cback = Procs /\ DOMAIN rback = Procs
      /\ DOMAIN rid = Procs /\ DOMAIN rfilter = Procs /\ DOMAIN cursor = Procs /\ DOMAIN todo = Procs /\ DOMAIN seen = Procs
  BY DEF HttpTypes, MapTypes, PlaceTypes, JobTypes
<1>1. CASE GetByLookupKey(p) BY <1>0, <1>1 DEF GetByLookupKey, Goto, mapvars, sessvars, wirevars, procvars, Stays
<1>2. CASE GetFromMap(p) BY <1>0, <1>2 DEF GetFromMap, Goto, mapvars, sessvars, wirevars, procvars, Stays
<1>3. CASE GetOrCreate(p) BY <1>0, <1>3 DEF GetOrCreate, Goto, mapvars, sessvars, wirevars, procvars, Stays
<1>4. CASE Connected(p) BY <1>0, <1>4 DEF Connected, Goto, mapvars, sessvars, wirevars, procvars, Stays
<1>5. CASE ConnectFailed(p) BY <1>0, <1>5 DEF ConnectFailed, Goto, mapvars, sessvars, wirevars, procvars, Stays
<1>6. CASE InsertSession(p) BY <1>0, <1>6 DEF InsertSession, Goto, mapvars, sessvars, wirevars, procvars, Stays
<1>7. CASE RestartBegin(p) BY <1>0, <1>7 DEF RestartBegin, Goto, mapvars, sessvars, wirevars, procvars, Stays
<1>8. CASE RestartOpened(p) BY <1>0, <1>8 DEF RestartOpened, Goto, mapvars, sessvars, wirevars, procvars, Stays
<1>9. CASE RestartRecorded(p) BY <1>0, <1>9 DEF RestartRecorded, Goto, mapvars, sessvars, wirevars, procvars, Stays
<1>10. CASE RestartRefused(p) BY <1>0, <1>10 DEF RestartRefused, Goto, mapvars, sessvars, wirevars, procvars, Stays
<1>11. CASE TakeStreamError(p) BY <1>0, <1>11 DEF TakeStreamError, Goto, mapvars, sessvars, wirevars, procvars, Stays
<1>12. CASE DrainBuffer(p) BY <1>0, <1>12 DEF DrainBuffer, Goto, mapvars, sessvars, wirevars, procvars, Stays
<1>13. CASE Ensure(p) BY <1>0, <1>13 DEF Ensure, Goto, mapvars, sessvars, wirevars, procvars, Stays
<1>14. CASE Subscribed(p) BY <1>0, <1>14 DEF Subscribed, Goto, mapvars, sessvars, wirevars, procvars, Stays
<1>15. CASE SubscribeRefused(p)
  BY <1>0, <1>15 DEF SubscribeRefused, Goto, mapvars, sessvars, wirevars, procvars, Stays
<1>16. CASE Release(p) BY <1>0, <1>16 DEF Release, Goto, mapvars, sessvars, wirevars, procvars, Stays
<1>17. CASE Unsubscribed(p) BY <1>0, <1>17 DEF Unsubscribed, Goto, mapvars, sessvars, wirevars, procvars, Stays
<1>18. CASE Poll(p) BY <1>0, <1>18 DEF Poll, Goto, mapvars, sessvars, wirevars, procvars, Stays
<1>19. CASE DrainLocks(p) BY <1>0, <1>19 DEF DrainLocks, Goto, mapvars, sessvars, wirevars, procvars, Stays
<1>20. CASE GetStream(p) BY <1>0, <1>20 DEF GetStream, Goto, mapvars, sessvars, wirevars, procvars, Stays
<1>21. CASE Polled(p) BY <1>0, <1>21 DEF Polled, Goto, mapvars, sessvars, wirevars, procvars, Stays
<1>22. CASE Emit(p) BY <1>0, <1>22 DEF Emit, Goto, mapvars, sessvars, wirevars, procvars, Stays
<1>23. CASE Stop(p) BY <1>0, <1>23 DEF Stop, Goto, mapvars, sessvars, wirevars, procvars, Stays
<1>24. CASE Call(p) BY <1>0, <1>24 DEF Call, Goto, mapvars, sessvars, wirevars, procvars, Stays
<1>25. CASE EmitFailed(p) BY <1>0, <1>25 DEF EmitFailed, Goto, mapvars, sessvars, wirevars, procvars, Stays
<1>26. CASE Leave(p) BY <1>0, <1>26 DEF Leave, Goto, mapvars, Stays
<1> QED
  BY <1>1, <1>2, <1>3, <1>4, <1>5, <1>6, <1>7, <1>8, <1>9, <1>10, <1>11, <1>12, <1>13, <1>14, <1>15, <1>16,
     <1>17, <1>18, <1>19, <1>20, <1>21, <1>22, <1>23, <1>24, <1>25, <1>26 DEF Moves, Step

\* A step is a process's own, or the server's or the cleanup's, which leaves processes and sessions alone.
LEMMA SomebodyMoves ==
    ASSUME [Next]_vars
    PROVE  (UNCHANGED <<era, procvars, sessvars, next_id, task, server>>) \/ \E p \in Procs : Moves(p)
<1>1. CASE UNCHANGED vars BY <1>1 DEF vars, wirevars
<1>2. ASSUME NEW s \in Sessions, NEW r \in live[s], Acknowledge(s, r) PROVE UNCHANGED <<era, procvars, sessvars, next_id, task, server>>
  BY <1>2 DEF Acknowledge
<1>3. ASSUME NEW s \in Sessions, NEW r \in live[s], Break(s, r) PROVE UNCHANGED <<era, procvars, sessvars, next_id, task, server>>
  BY <1>3 DEF Break
<1>4. ASSUME NEW s \in Sessions, NEW r \in live[s], NEW us \in Chunks, Update(s, r, us) PROVE UNCHANGED <<era, procvars, sessvars, next_id, task, server>>
  BY <1>4 DEF Update
<1>5. CASE CleanupMap BY <1>5 DEF CleanupMap, wirevars
<1>6. CASE CleanupLookup BY <1>6 DEF CleanupLookup, wirevars
<1> QED BY <1>1, <1>2, <1>3, <1>4, <1>5, <1>6 DEF Next, Environment, Moves

\* A session that a process or the map holds is one that was made.
LEMMA SessionOf ==
    ASSUME MapTypes, NEW p \in Procs
    PROVE  /\ made \in Nat /\ http \in Nat /\ at[p] \in Nat /\ MaxSessions \in Nat
           /\ (at[p] # 0 => at[p] \in Sessions) /\ (http # 0 => http \in Sessions)
<1>1. MaxSessions \in Nat BY HttpAssumption DEF HttpAssumption
<1>2. made \in 0 .. MaxSessions /\ http \in 0 .. made /\ at[p] \in 0 .. made BY DEF MapTypes
<1> QED BY <1>1, <1>2 DEF Sessions

\* Whoever moves gets to a place with what the place calls for.
LEMMA MoverPlaced ==
    ASSUME HttpTypes, PlacesInv, NEW p \in Procs, Moves(p)
    PROVE  PlaceTypes' /\ InSession(p)' /\ Returns(p)'
<1> USE DEF HttpPlaces, Prelude, Restarts, Collecting, PlaceTypes, InSession, Returns
<1>0. PlaceTypes /\ InSession(p) /\ Returns(p) BY DEF HttpTypes, PlacesInv
<1>a. at \in [Procs -> 0 .. made] /\ made \in Nat /\ http \in Nat /\ era \in {"modern", "legacy"}
  BY SessionOf DEF HttpTypes, MapTypes
<1>1. CASE GetByLookupKey(p)
  BY <1>0, <1>a, <1>1 DEF GetByLookupKey, Goto, mapvars, sessvars, wirevars, procvars
<1>2. CASE GetFromMap(p)
  BY <1>0, <1>a, <1>2 DEF GetFromMap, Acquired, Goto, mapvars, sessvars, wirevars, procvars
<1>3. CASE GetOrCreate(p)
  BY <1>0, <1>a, <1>3 DEF GetOrCreate, Acquired, Goto, mapvars, sessvars, wirevars, procvars
<1>4. CASE Connected(p)
  <2>1. at'[p] = made + 1 /\ made + 1 # 0 BY <1>a, <1>4 DEF Connected
  <2> QED BY <1>0, <1>a, <1>4, <2>1 DEF Connected, Modern, Goto, mapvars, sessvars, wirevars, procvars
<1>5. CASE ConnectFailed(p)
  BY <1>0, <1>a, <1>5 DEF ConnectFailed, Goto, mapvars, sessvars, wirevars, procvars
<1>6. CASE InsertSession(p)
  BY <1>0, <1>a, <1>6 DEF InsertSession, Acquired, Goto, mapvars, sessvars, wirevars, procvars
<1>7. CASE RestartBegin(p)
  <2>1. next_id[at[p]] \in Nat \ {0} /\ Desired(at[p]) \in SUBSET Uris
    <3>1. at[p] \in Sessions BY <1>0, <1>7, SessionOf DEF RestartBegin, HttpTypes
    <3> QED BY <3>1 DEF HttpTypes, StreamTypes, Desired
  <2> QED BY <1>0, <1>a, <1>7, <2>1 DEF RestartBegin, Goto, mapvars, sessvars, wirevars, procvars
<1>8. CASE RestartOpened(p)
  BY <1>0, <1>a, <1>8 DEF RestartOpened, Goto, mapvars, sessvars, wirevars, procvars
<1>9. CASE RestartRecorded(p)
  BY <1>0, <1>a, <1>9 DEF RestartRecorded, Goto, mapvars, sessvars, wirevars, procvars
<1>10. CASE RestartRefused(p)
  BY <1>0, <1>a, <1>10 DEF RestartRefused, Goto, mapvars, sessvars, wirevars, procvars
<1>11. CASE TakeStreamError(p)
  BY <1>0, <1>a, <1>11 DEF TakeStreamError, Modern, CollectReopens, Goto, mapvars, sessvars, wirevars, procvars
<1>12. CASE DrainBuffer(p)
  BY <1>0, <1>a, <1>12 DEF DrainBuffer, Goto, mapvars, sessvars, wirevars, procvars
<1>13. CASE Ensure(p)
  <2>1. p \in Jobs /\ at[p] # 0 /\ cback'[p] = "open" /\ cback' \in [Procs -> {"", "open", "closed", "polled", "emit"}]
        /\ UNCHANGED <<era, at, rid, rfilter>>
    BY <1>0, <1>13 DEF Ensure, mapvars, sessvars, wirevars, procvars
  <2>2. \/ pc' = [pc EXCEPT ![p] = "open"] /\ rback' = rback
        \/ pc' = [pc EXCEPT ![p] = "restart"] /\ rback' = [rback EXCEPT ![p] = "ensure"] /\ era = "modern"
        \/ pc' = [pc EXCEPT ![p] = "subscribe"] /\ rback' = rback /\ era # "modern"
    BY <1>13 DEF Ensure, Modern, Goto
  <2> QED BY <1>0, <1>a, <2>1, <2>2
<1>14. CASE Subscribed(p)
  BY <1>0, <1>a, <1>14 DEF Subscribed, Goto, mapvars, sessvars, wirevars, procvars
<1>15. CASE SubscribeRefused(p)
  BY <1>0, <1>a, <1>15 DEF SubscribeRefused, Goto, mapvars, sessvars, wirevars, procvars
<1>16. CASE Release(p)
  BY <1>0, <1>a, <1>16 DEF Release, Modern, Goto, mapvars, sessvars, wirevars, procvars
<1>17. CASE Unsubscribed(p)
  BY <1>0, <1>a, <1>17 DEF Unsubscribed, Goto, mapvars, sessvars, wirevars, procvars
<1>18. CASE Poll(p)
  BY <1>0, <1>a, <1>18 DEF Poll, Modern, Goto, mapvars, sessvars, wirevars, procvars
<1>19. CASE DrainLocks(p)
  BY <1>0, <1>a, <1>19 DEF DrainLocks, Goto, mapvars, sessvars, wirevars, procvars
<1>20. CASE GetStream(p)
  BY <1>0, <1>a, <1>20 DEF GetStream, Goto, mapvars, sessvars, wirevars, procvars
<1>21. CASE Polled(p)
  BY <1>0, <1>a, <1>21 DEF Polled, Goto, mapvars, sessvars, wirevars, procvars
<1>22. CASE Emit(p)
  BY <1>0, <1>a, <1>22 DEF Emit, Goto, mapvars, sessvars, wirevars, procvars
<1>23. CASE Stop(p)
  BY <1>0, <1>a, <1>23 DEF Stop, Goto, mapvars, sessvars, wirevars, procvars
<1>24. CASE Call(p)
  BY <1>0, <1>a, <1>24 DEF Call, Goto, mapvars, sessvars, wirevars, procvars
<1>25. CASE EmitFailed(p)
  BY <1>0, <1>a, <1>25 DEF EmitFailed, Goto, mapvars, sessvars, wirevars, procvars
<1>26. CASE Leave(p)
  BY <1>0, <1>a, <1>26 DEF Leave, Goto, mapvars
<1> QED
  BY <1>1, <1>2, <1>3, <1>4, <1>5, <1>6, <1>7, <1>8, <1>9, <1>10, <1>11, <1>12, <1>13, <1>14, <1>15, <1>16,
     <1>17, <1>18, <1>19, <1>20, <1>21, <1>22, <1>23, <1>24, <1>25, <1>26 DEF Moves, Step

\* Every process stays at a place with what the place calls for.
LEMMA PlacesKept ==
    ASSUME HttpTypes, PlacesInv, [Next]_vars
    PROVE  PlaceTypes' /\ PlacesInv'
<1>1. CASE UNCHANGED <<era, procvars, sessvars, next_id, task, server>>
  BY <1>1 DEF procvars, HttpTypes, PlaceTypes, PlacesInv, InSession, Returns
<1>2. ASSUME NEW p \in Procs, Moves(p) PROVE PlaceTypes' /\ PlacesInv'
  <2>1. PlaceTypes' /\ InSession(p)' /\ Returns(p)' BY <1>2, MoverPlaced
  <2>2. ASSUME NEW q \in Procs, q # p PROVE InSession(q)' /\ Returns(q)'
    <3>1. Stays(q) /\ era' = era BY <1>2, <2>2, OthersStay
    <3>2. InSession(q) /\ Returns(q) BY DEF PlacesInv
    <3> QED BY <3>1, <3>2 DEF Stays, InSession, Returns
  <2> QED BY <2>1, <2>2 DEF PlacesInv
<1> QED BY <1>1, <1>2, SomebodyMoves

\* What the ring of a session has pushed out.
Forgotten(s) == fan[s].next - Len(fan[s].items)

-----------------------------------------------------------------------------
(* The types. *)

\* The map and the processes hold sessions made so far.
LEMMA HttpMapKept ==
    ASSUME HttpTypes, PlacesInv, [Next]_vars
    PROVE  MapTypes'
<1>a. made \in Nat /\ http \in 0 .. made /\ at \in [Procs -> 0 .. made] /\ MaxSessions \in Nat /\ made <= MaxSessions
  BY HttpAssumption DEF HttpAssumption, HttpTypes, MapTypes
<1>1. CASE UNCHANGED <<era, http, made, at>>
  BY <1>1 DEF HttpTypes, MapTypes
<1>2. ASSUME NEW p \in Procs, GetFromMap(p) PROVE MapTypes'
  BY <1>a, <1>2 DEF GetFromMap, HttpTypes, MapTypes
<1>3. ASSUME NEW p \in Procs, GetOrCreate(p) PROVE MapTypes'
  <2>1. at' \in [Procs -> 0 .. made] /\ UNCHANGED <<era, http, made>> BY <1>a, <1>3 DEF GetOrCreate
  <2> QED BY <2>1 DEF HttpTypes, MapTypes
<1>4. ASSUME NEW p \in Procs, Connected(p) PROVE MapTypes'
  <2>1. made' = made + 1 /\ made' \in 0 .. MaxSessions /\ http \in 0 .. made' /\ UNCHANGED <<era, http>>
    BY <1>a, <1>4 DEF Connected
  <2>2. \A i \in 0 .. made : i \in 0 .. made' BY <1>a, <2>1
  <2>3. made + 1 \in 0 .. made' BY <1>a, <2>1
  <2>4. at' = [at EXCEPT ![p] = made + 1] BY <1>4 DEF Connected
  <2>5. at' \in [Procs -> 0 .. made'] BY <1>a, <2>2, <2>3, <2>4
  <2> QED BY <2>1, <2>5 DEF HttpTypes, MapTypes
<1>5. ASSUME NEW p \in Procs, InsertSession(p) PROVE MapTypes'
  <2>1. http' \in 0 .. made /\ UNCHANGED <<era, made, at>> BY <1>a, <1>5 DEF InsertSession
  <2> QED BY <2>1 DEF HttpTypes, MapTypes
<1>6. CASE CleanupMap
  <2>1. http' = 0 /\ UNCHANGED <<era, made, at>> BY <1>6 DEF CleanupMap, procvars
  <2> QED BY <1>a, <2>1 DEF HttpTypes, MapTypes
<1> QED BY <1>1, <1>2, <1>3, <1>4, <1>5, <1>6, Touches DEF MapStep

\* Counts stay numbers, and the mutex is free or held by a process.
LEMMA SubsKept ==
    ASSUME HttpTypes, PlacesInv, [Next]_vars
    PROVE  SubTypes'
<1>1. CASE UNCHANGED <<subs, ops>>
  BY <1>1 DEF HttpTypes, SubTypes
<1>2. ASSUME NEW p \in Procs, RestartRecorded(p) PROVE SubTypes'
  BY <1>2 DEF RestartRecorded, HttpTypes, SubTypes
<1>3. ASSUME NEW p \in Procs, RestartRefused(p) PROVE SubTypes'
  BY <1>3 DEF RestartRefused, Happens, HttpTypes, SubTypes
<1>4. ASSUME NEW p \in Procs, DrainBuffer(p) PROVE SubTypes'
  BY <1>4 DEF DrainBuffer, HttpTypes, SubTypes
<1>5. ASSUME NEW p \in Procs, Ensure(p) PROVE SubTypes'
  <2>1. ops' \in [Sessions -> Procs \cup {"free"}] BY <1>5 DEF Ensure, HttpTypes, SubTypes
  <2>2. subs' = subs \/ \E n \in Nat : subs' = [subs EXCEPT ![at[p]][UriOf[p]] = n]
    <3>1. at[p] \in Sessions /\ UriOf[p] \in Uris
      BY <1>5, SessionOf, HttpAssumption DEF HttpAssumption, Ensure, HttpTypes, PlacesInv, InSession, Prelude
    <3>2. subs[at[p]][UriOf[p]] + 1 \in Nat BY <3>1 DEF HttpTypes, SubTypes
    <3> QED BY <1>5, <3>2 DEF Ensure
  <2>3. ASSUME NEW n \in Nat PROVE [subs EXCEPT ![at[p]][UriOf[p]] = n] \in [Sessions -> [Uris -> Nat]]
    BY DEF HttpTypes, SubTypes
  <2>4. subs' \in [Sessions -> [Uris -> Nat]] BY <2>2, <2>3 DEF HttpTypes, SubTypes
  <2> QED BY <2>1, <2>4 DEF SubTypes
<1>6. ASSUME NEW p \in Procs, Subscribed(p) PROVE SubTypes'
  BY <1>6 DEF Subscribed, HttpTypes, SubTypes
<1>7. ASSUME NEW p \in Procs, SubscribeRefused(p) PROVE SubTypes'
  BY <1>7 DEF SubscribeRefused, Happens, HttpTypes, SubTypes
<1>8. ASSUME NEW p \in Procs, Release(p) PROVE SubTypes'
  <2>1. \A n \in Nat : Dropped(n) \in Nat BY DEF Dropped
  <2> QED BY <1>8, <2>1 DEF Release, HttpTypes, SubTypes
<1>9. ASSUME NEW p \in Procs, DrainLocks(p) PROVE SubTypes'
  BY <1>9 DEF DrainLocks, HttpTypes, SubTypes
<1>10. ASSUME NEW p \in Procs, Leave(p) PROVE SubTypes'
  BY <1>10 DEF Leave, HttpTypes, SubTypes
<1> QED BY <1>1, <1>2, <1>3, <1>4, <1>5, <1>6, <1>7, <1>8, <1>9, <1>10, Touches DEF SubStep

\* Ids stay numbers and streams stay streams of resources.
LEMMA StreamsKept ==
    ASSUME HttpTypes, PlacesInv, [Next]_vars
    PROVE  StreamTypes'
<1>1. CASE UNCHANGED <<sid, next_id, task, live, server>>
  BY <1>1 DEF HttpTypes, StreamTypes
<1>2. ASSUME NEW p \in Procs, RestartBegin(p) PROVE StreamTypes'
  <2>1. at[p] \in Sessions BY <1>2, SessionOf DEF RestartBegin, HttpTypes, PlacesInv, InSession, Prelude
  <2>2. next_id[at[p]] + 1 \in Nat \ {0} /\ Aborted(at[p]) \in SUBSET HttpReaders
    BY <2>1 DEF Aborted, HttpTypes, StreamTypes
  <2>3. live' \in [Sessions -> SUBSET HttpReaders] BY <1>2, <2>2 DEF RestartBegin, HttpTypes, StreamTypes
  <2>4. next_id' \in [Sessions -> Nat \ {0}] BY <1>2, <2>2 DEF RestartBegin, HttpTypes, StreamTypes
  <2>5. task' \in [Sessions -> Nat] /\ UNCHANGED <<sid, server>>
    BY <1>2 DEF RestartBegin, sessvars, HttpTypes, StreamTypes
  <2> QED BY <2>3, <2>4, <2>5 DEF HttpTypes, StreamTypes
<1>3. ASSUME NEW p \in Procs, RestartOpened(p) PROVE StreamTypes'
  <2>1. [id |-> rid[p], filter |-> rfilter[p], greeted |-> FALSE] \in HttpReaders /\ rid[p] \in Nat
    BY DEF HttpReaders, HttpTypes, PlaceTypes
  <2>2. at[p] \in Sessions BY <1>3, SessionOf DEF RestartOpened, HttpTypes, PlacesInv, InSession, Prelude
  <2>3. live[at[p]] \cup {[id |-> rid[p], filter |-> rfilter[p], greeted |-> FALSE]} \in SUBSET HttpReaders
    BY <2>1, <2>2 DEF HttpTypes, StreamTypes
  <2>4. live' \in [Sessions -> SUBSET HttpReaders] BY <1>3, <2>3 DEF RestartOpened, HttpTypes, StreamTypes
  <2>5. task' \in [Sessions -> Nat] /\ UNCHANGED <<sid, next_id, server>>
    BY <1>3, <2>1 DEF RestartOpened, sessvars, HttpTypes, StreamTypes
  <2> QED BY <2>4, <2>5 DEF HttpTypes, StreamTypes
<1>4. ASSUME NEW p \in Procs, RestartRecorded(p) PROVE StreamTypes'
  <2>1. rid[p] \in Nat BY DEF HttpTypes, PlaceTypes
  <2> QED BY <1>4, <2>1 DEF RestartRecorded, wirevars, HttpTypes, StreamTypes
<1>5. ASSUME NEW p \in Procs, Subscribed(p) PROVE StreamTypes'
  <2>1. at[p] \in Sessions /\ UriOf[p] \in Uris
    BY <1>5, SessionOf, HttpAssumption DEF HttpAssumption, Subscribed, HttpTypes, PlacesInv, InSession, Prelude
  <2> QED BY <1>5, <2>1 DEF Subscribed, HttpTypes, StreamTypes
<1>6. ASSUME NEW p \in Procs, Unsubscribed(p) PROVE StreamTypes'
  <2>1. at[p] \in Sessions BY <1>6, SessionOf DEF Unsubscribed, HttpTypes, PlacesInv, InSession, Prelude
  <2>2. Aborted(at[p]) \in SUBSET HttpReaders /\ server[at[p]] \ {UriOf[p]} \in SUBSET Uris
    BY <2>1 DEF Aborted, HttpTypes, StreamTypes
  <2>3. live' \in [Sessions -> SUBSET HttpReaders] BY <1>6, <2>2 DEF Unsubscribed, HttpTypes, StreamTypes
  <2>4. task' \in [Sessions -> Nat] BY <1>6 DEF Unsubscribed, HttpTypes, StreamTypes
  <2>5. server' \in [Sessions -> SUBSET Uris] BY <1>6, <2>2 DEF Unsubscribed, HttpTypes, StreamTypes
  <2>6. UNCHANGED <<sid, next_id>> BY <1>6 DEF Unsubscribed
  <2> QED BY <2>3, <2>4, <2>5, <2>6 DEF HttpTypes, StreamTypes
<1>7. ASSUME NEW p \in Procs, GetStream(p) PROVE StreamTypes'
  <2>1. at[p] \in Sessions BY <1>7, SessionOf DEF GetStream, HttpTypes, PlacesInv, InSession, Prelude
  <2>2. next_id[at[p]] \in Nat \ {0} /\ next_id[at[p]] + 1 \in Nat \ {0} BY <2>1 DEF HttpTypes, StreamTypes
  <2>3. [id |-> next_id[at[p]], filter |-> Uris, greeted |-> TRUE] \in HttpReaders BY <2>2 DEF HttpReaders
  <2>4. live[at[p]] \cup {[id |-> next_id[at[p]], filter |-> Uris, greeted |-> TRUE]} \in SUBSET HttpReaders
    BY <2>1, <2>3 DEF HttpTypes, StreamTypes
  <2>5. live' \in [Sessions -> SUBSET HttpReaders] BY <1>7, <2>4 DEF GetStream, HttpTypes, StreamTypes
  <2>6. task' \in [Sessions -> Nat] BY <1>7, <2>2 DEF GetStream, HttpTypes, StreamTypes
  <2>7. next_id' \in [Sessions -> Nat \ {0}] BY <1>7, <2>2 DEF GetStream, HttpTypes, StreamTypes
  <2>8. UNCHANGED <<sid, server>> BY <1>7 DEF GetStream
  <2> QED BY <2>5, <2>6, <2>7, <2>8 DEF HttpTypes, StreamTypes
<1>8. ASSUME NEW s \in Sessions, NEW r \in live[s], Acknowledge(s, r) PROVE StreamTypes'
  <2>1. r \in HttpReaders BY DEF HttpTypes, StreamTypes
  <2>2. [r EXCEPT !.greeted = TRUE] \in HttpReaders BY <2>1 DEF HttpReaders
  <2>3. (live[s] \ {r}) \cup {[r EXCEPT !.greeted = TRUE]} \in SUBSET HttpReaders BY <2>2 DEF HttpTypes, StreamTypes
  <2> QED BY <1>8, <2>3 DEF Acknowledge, sessvars, HttpTypes, StreamTypes
<1>9. ASSUME NEW s \in Sessions, NEW r \in live[s], Break(s, r) PROVE StreamTypes'
  BY <1>9 DEF Break, sessvars, HttpTypes, StreamTypes
<1>10. ASSUME NEW p \in Procs, Leave(p) PROVE StreamTypes'
  <2>1. UNCHANGED <<sid, next_id, task>> BY <1>10 DEF Leave
  <2>2. rid[p] \in Nat /\ rfilter[p] \in SUBSET Uris /\ p \in Jobs
    BY <1>10 DEF Leave, HttpTypes, PlaceTypes
  <2>3. UriOf[p] \in Uris BY <2>2, HttpAssumption DEF HttpAssumption
  <2>4. [id |-> rid[p], filter |-> rfilter[p], greeted |-> FALSE] \in HttpReaders BY <2>2 DEF HttpReaders
  <2>5. live' \in [Sessions -> SUBSET HttpReaders]
    <3> DEFINE reader == [id |-> rid[p], filter |-> rfilter[p], greeted |-> FALSE]
    <3>1. live' = live \/ (pc[p] = "restart_post" /\ live' = [live EXCEPT ![at[p]] = live[at[p]] \cup {reader}])
      BY <1>10 DEF Leave
    <3>2. pc[p] = "restart_post" => at[p] \in Sessions
      BY SessionOf DEF HttpTypes, PlacesInv, InSession, Prelude, Restarts
    <3>3. reader \in HttpReaders BY <2>4
    <3> HIDE DEF reader
    <3>4. live \in [Sessions -> SUBSET HttpReaders] BY DEF HttpTypes, StreamTypes
    <3> QED BY <3>1, <3>2, <3>3, <3>4
  <2>6. server' \in [Sessions -> SUBSET Uris]
    <3>1. \/ server' = server
          \/ pc[p] \in {"subscribe", "unsubscribe"} /\ server' = [server EXCEPT ![at[p]] = server[at[p]] \cup {UriOf[p]}]
          \/ pc[p] \in {"subscribe", "unsubscribe"} /\ server' = [server EXCEPT ![at[p]] = server[at[p]] \ {UriOf[p]}]
      BY <1>10 DEF Leave
    <3>2. pc[p] \in {"subscribe", "unsubscribe"} => at[p] \in Sessions
      BY SessionOf DEF HttpTypes, PlacesInv, InSession, Prelude, Restarts
    <3>3. server \in [Sessions -> SUBSET Uris] BY DEF HttpTypes, StreamTypes
    <3> QED BY <2>3, <3>1, <3>2, <3>3
  <2> QED BY <2>1, <2>5, <2>6 DEF HttpTypes, StreamTypes
<1> QED BY <1>1, <1>2, <1>3, <1>4, <1>5, <1>6, <1>7, <1>8, <1>9, <1>10, Touches DEF StreamStep

\* Stream errors stay flags.
LEMMA ErrorsKept ==
    ASSUME HttpTypes, PlacesInv, [Next]_vars
    PROVE  ErrorTypes'
<1>1. CASE UNCHANGED <<terr, hurt, leaked>>
  BY <1>1 DEF HttpTypes, ErrorTypes
<1>2. ASSUME NEW p \in Procs, RestartOpened(p) PROVE ErrorTypes'
  BY <1>2 DEF RestartOpened, HttpTypes, ErrorTypes
<1>3. ASSUME NEW p \in Procs, RestartRefused(p) PROVE ErrorTypes'
  <2>1. at[p] \in Sessions BY <1>3, SessionOf DEF RestartRefused, HttpTypes, PlacesInv, InSession, Prelude
  <2> QED BY <1>3, <2>1 DEF RestartRefused, wirevars, HttpTypes, ErrorTypes
<1>4. ASSUME NEW p \in Procs, TakeStreamError(p) PROVE ErrorTypes'
  BY <1>4 DEF TakeStreamError, Modern, CollectReopens, HttpTypes, ErrorTypes
<1>5. ASSUME NEW p \in Procs, Poll(p) PROVE ErrorTypes'
  BY <1>5 DEF Poll, Modern, HttpTypes, ErrorTypes
<1>6. ASSUME NEW p \in Procs, GetStream(p) PROVE ErrorTypes'
  BY <1>6 DEF GetStream, Happens, HttpTypes, ErrorTypes
<1>7. ASSUME NEW s \in Sessions, NEW r \in live[s], Break(s, r) PROVE ErrorTypes'
  BY <1>7 DEF Break, Happens, HttpTypes, ErrorTypes
<1>8. ASSUME NEW p \in Procs, Leave(p) PROVE ErrorTypes'
  <2>1. terr' = terr BY <1>8 DEF Leave
  <2>2. pc[p] \in Restarts \/ Counting(p) => at[p] \in Sessions
    BY SessionOf DEF HttpTypes, PlacesInv, InSession, Prelude, Restarts, Counting
  <2>3. hurt' \subseteq Sessions BY <1>8, <2>2 DEF Leave, Restarts, HttpTypes, ErrorTypes
  <2>4. leaked' \subseteq Sessions BY <1>8, <2>2 DEF Leave, HttpTypes, ErrorTypes
  <2> QED BY <2>1, <2>3, <2>4 DEF HttpTypes, ErrorTypes
<1> QED BY <1>1, <1>2, <1>3, <1>4, <1>5, <1>6, <1>7, <1>8, Touches DEF ErrorStep

\* Buffers stay sequences of notifications.
LEMMA NotesKept ==
    ASSUME HttpTypes, PlacesInv, [Next]_vars
    PROVE  NoteTypes'
<1>1. CASE UNCHANGED <<buf, ack>>
  BY <1>1 DEF HttpTypes, NoteTypes
<1>2. ASSUME NEW p \in Procs, RestartRecorded(p) PROVE NoteTypes'
  BY <1>2 DEF RestartRecorded, wirevars, HttpTypes, NoteTypes
<1>3. ASSUME NEW p \in Procs, DrainBuffer(p) PROVE NoteTypes'
  <2>1. at[p] \in Sessions BY <1>3, SessionOf DEF DrainBuffer, HttpTypes, PlacesInv, InSession, Prelude
  <2>2. AcceptAll(buf[at[p]], sid[at[p]], ack[at[p]]).ack \in BOOLEAN
    <3>1. buf[at[p]] \in Seq(HttpNotes) /\ sid[at[p]] \in Nat /\ ack[at[p]] \in BOOLEAN
      BY <2>1 DEF HttpTypes, NoteTypes, StreamTypes
    <3> QED BY <3>1, AcceptAllType
  <2>3. <<>> \in Seq(HttpNotes) OBVIOUS
  <2>4. /\ buf' = [buf EXCEPT ![at[p]] = <<>>]
        /\ ack' = [ack EXCEPT ![at[p]] = AcceptAll(buf[at[p]], sid[at[p]], ack[at[p]]).ack]
    BY <1>3 DEF DrainBuffer
  <2> QED BY <2>2, <2>3, <2>4 DEF HttpTypes, NoteTypes
<1>4. ASSUME NEW s \in Sessions, NEW r \in live[s], Acknowledge(s, r) PROVE NoteTypes'
  <2> DEFINE n == [sub |-> r.id, kind |-> "ack", uri |-> "none"]
  <2>1. n \in HttpNotes /\ <<n>> \in Seq(HttpNotes)
    <3>1. r.id \in Nat BY DEF HttpTypes, StreamTypes, HttpReaders
    <3>2. n \in HttpNotes BY <3>1 DEF HttpNotes
    <3> HIDE DEF n
    <3> QED BY <3>2
  <2>2. Push(buf[s], <<n>>) \in Seq(HttpNotes)
    <3>1. buf[s] \in Seq(HttpNotes) BY DEF HttpTypes, NoteTypes
    <3> QED BY <2>1, <3>1, PushType
  <2>3. buf' = [buf EXCEPT ![s] = Push(buf[s], <<n>>)] /\ ack' = ack BY <1>4 DEF Acknowledge, sessvars
  <2> HIDE DEF n
  <2> QED BY <2>2, <2>3 DEF HttpTypes, NoteTypes
<1>5. ASSUME NEW s \in Sessions, NEW r \in live[s], NEW us \in Chunks, Update(s, r, us) PROVE NoteTypes'
  <2> DEFINE notes == [i \in 1 .. Len(us) |-> [sub |-> IF Modern THEN r.id ELSE 0, kind |-> "updated", uri |-> us[i]]]
  <2>1. notes \in Seq(HttpNotes)
    <3>1. r.id \in Nat BY DEF HttpTypes, StreamTypes, HttpReaders
    <3>2. MaxChunk \in Nat BY HttpAssumption DEF HttpAssumption
    <3>3. us \in Seq(Uris) BY <3>2 DEF Chunks
    <3>4. \A i \in 1 .. Len(us) : us[i] \in Uris /\ [sub |-> IF Modern THEN r.id ELSE 0, kind |-> "updated", uri |-> us[i]] \in HttpNotes
      BY <3>1, <3>3 DEF HttpNotes
    <3> QED BY <3>3, <3>4
  <2>2. Push(buf[s], notes) \in Seq(HttpNotes)
    <3>1. buf[s] \in Seq(HttpNotes) BY DEF HttpTypes, NoteTypes
    <3> HIDE DEF notes
    <3> QED BY <2>1, <3>1, PushType
  <2>3. buf' = [buf EXCEPT ![s] = Push(buf[s], notes)] /\ ack' = ack BY <1>5 DEF Update, sessvars
  <2> HIDE DEF notes
  <2> QED BY <2>2, <2>3 DEF HttpTypes, NoteTypes
<1> QED BY <1>1, <1>2, <1>3, <1>4, <1>5, Touches DEF NoteStep

\* The history numbers its entries without a gap, and forgets only from its front.
LEMMA RingsKept ==
    ASSUME HttpTypes, PlacesInv, \A s \in Sessions : Ring(fan[s]), [Next]_vars
    PROVE  RingTypes' /\ \A s \in Sessions : Ring(fan[s])' /\ Forgotten(s) <= Forgotten(s)'
<1>a. \A s \in Sessions, b \in BOOLEAN : /\ [fan[s] EXCEPT !.err = b] \in HttpFans /\ Ring([fan[s] EXCEPT !.err = b])
                                        /\ [fan[s] EXCEPT !.err = b].next = fan[s].next /\ [fan[s] EXCEPT !.err = b].items = fan[s].items
  <2>1. SUFFICES ASSUME NEW s \in Sessions, NEW b \in BOOLEAN
                 PROVE  /\ [fan[s] EXCEPT !.err = b] \in HttpFans /\ Ring([fan[s] EXCEPT !.err = b])
                        /\ [fan[s] EXCEPT !.err = b].next = fan[s].next /\ [fan[s] EXCEPT !.err = b].items = fan[s].items OBVIOUS
  <2>2. fan[s] \in HttpFans /\ Ring(fan[s]) BY DEF HttpTypes, RingTypes
  <2>3. /\ [fan[s] EXCEPT !.err = b] \in HttpFans /\ [fan[s] EXCEPT !.err = b].next = fan[s].next /\ [fan[s] EXCEPT !.err = b].items = fan[s].items
    BY <2>2 DEF HttpFans
  <2> QED BY <2>2, <2>3 DEF Ring
<1>b. fan \in [Sessions -> HttpFans] BY DEF HttpTypes, RingTypes
<1>c. \A s \in Sessions : fan[s].next \in Nat /\ Len(fan[s].items) \in Nat BY <1>b DEF HttpFans
<1>d. ASSUME NEW s, NEW b \in BOOLEAN, fan' = [fan EXCEPT ![s] = [fan[s] EXCEPT !.err = b]]
      PROVE  RingTypes' /\ \A t \in Sessions : Ring(fan[t])' /\ Forgotten(t) <= Forgotten(t)'
  <2>1. fan' \in [Sessions -> HttpFans] BY <1>a, <1>b, <1>d
  <2>2. ASSUME NEW t \in Sessions PROVE Ring(fan'[t]) /\ Forgotten(t) <= fan'[t].next - Len(fan'[t].items)
    <3>1. CASE s = t
      <4>1. fan'[t] = [fan[t] EXCEPT !.err = b] BY <1>b, <1>d, <3>1
      <4> QED BY <1>a, <1>c, <4>1 DEF Forgotten
    <3>2. CASE s # t
      <4>1. fan'[t] = fan[t] BY <1>b, <1>d, <3>2
      <4> QED BY <1>c, <4>1 DEF Forgotten
    <3> QED BY <3>1, <3>2
  <2> QED BY <2>1, <2>2 DEF RingTypes, Forgotten
<1>1. CASE UNCHANGED <<fan>>
  BY <1>1, <1>b, <1>c DEF RingTypes, Forgotten
<1>2. ASSUME NEW p \in Procs, RestartRecorded(p) PROVE RingTypes' /\ \A s \in Sessions : Ring(fan[s])' /\ Forgotten(s) <= Forgotten(s)'
  BY <1>d, <1>2 DEF RestartRecorded
<1>3. ASSUME NEW p \in Procs, RestartRefused(p) PROVE RingTypes' /\ \A s \in Sessions : Ring(fan[s])' /\ Forgotten(s) <= Forgotten(s)'
  BY <1>1, <1>d, <1>3 DEF RestartRefused
<1>4. ASSUME NEW p \in Procs, TakeStreamError(p) PROVE RingTypes' /\ \A s \in Sessions : Ring(fan[s])' /\ Forgotten(s) <= Forgotten(s)'
  BY <1>1, <1>d, <1>4 DEF TakeStreamError
<1>5. ASSUME NEW p \in Procs, DrainBuffer(p) PROVE RingTypes' /\ \A s \in Sessions : Ring(fan[s])' /\ Forgotten(s) <= Forgotten(s)'
  <2>1. at[p] \in Sessions BY <1>5, SessionOf DEF DrainBuffer, HttpTypes, PlacesInv, InSession, Prelude
  <2> DEFINE kept == AcceptAll(buf[at[p]], sid[at[p]], ack[at[p]]).kept
  <2>2. kept \in Seq(HttpNotes)
    <3>1. buf[at[p]] \in Seq(HttpNotes) /\ sid[at[p]] \in Nat /\ ack[at[p]] \in BOOLEAN
      BY <2>1 DEF HttpTypes, NoteTypes, StreamTypes
    <3> QED BY <3>1, AcceptAllType
  <2>3. fan' = [fan EXCEPT ![at[p]] = Extend(fan[at[p]], kept)] BY <1>5 DEF DrainBuffer
  <2> HIDE DEF kept
  <2>4. /\ Extend(fan[at[p]], kept) \in HttpFans /\ Ring(Extend(fan[at[p]], kept))
        /\ fan[at[p]].next - Len(fan[at[p]].items) <= Extend(fan[at[p]], kept).next - Len(Extend(fan[at[p]], kept).items)
    BY <1>b, <2>1, <2>2, ExtendFacts
  <2>5. ASSUME NEW s \in Sessions PROVE Ring(fan'[s]) /\ Forgotten(s) <= fan'[s].next - Len(fan'[s].items)
    <3>1. CASE s = at[p] BY <1>b, <2>3, <2>4, <3>1 DEF Forgotten
    <3>2. CASE s # at[p] BY <1>b, <1>c, <2>3, <3>2 DEF Forgotten
    <3> QED BY <3>1, <3>2
  <2> QED BY <1>b, <2>3, <2>4, <2>5 DEF RingTypes, Forgotten
<1>6. ASSUME NEW p \in Procs, Ensure(p) PROVE RingTypes' /\ \A s \in Sessions : Ring(fan[s])' /\ Forgotten(s) <= Forgotten(s)'
  BY <1>1, <1>d, <1>6 DEF Ensure
<1>7. ASSUME NEW p \in Procs, Unsubscribed(p) PROVE RingTypes' /\ \A s \in Sessions : Ring(fan[s])' /\ Forgotten(s) <= Forgotten(s)'
  BY <1>1, <1>d, <1>7 DEF Unsubscribed
<1>8. ASSUME NEW p \in Procs, GetStream(p) PROVE RingTypes' /\ \A s \in Sessions : Ring(fan[s])' /\ Forgotten(s) <= Forgotten(s)'
  BY <1>1, <1>d, <1>8 DEF GetStream
<1> QED BY <1>1, <1>2, <1>3, <1>4, <1>5, <1>6, <1>7, <1>8, Touches DEF RingStep

\* Cursors stay numbers and queues stay sequences of entries.
LEMMA JobsKept ==
    ASSUME HttpTypes, PlacesInv, [Next]_vars
    PROVE  JobTypes'
<1>1. CASE UNCHANGED <<cursor, todo, seen>>
  BY <1>1 DEF HttpTypes, JobTypes
<1>2. ASSUME NEW p \in Procs, Polled(p) PROVE JobTypes'
  <2>1. at[p] \in Sessions BY <1>2, SessionOf DEF Polled, HttpTypes, PlacesInv, InSession, Prelude
  <2>2. fan[at[p]].next \in Nat /\ Since(fan[at[p]], cursor[p]) \in Seq(HttpEntries)
    <3>1. fan[at[p]].next \in Nat /\ fan[at[p]].items \in Seq(HttpEntries) /\ cursor[p] \in Nat
      BY <2>1 DEF HttpTypes, RingTypes, HttpFans, JobTypes
    <3> QED BY <3>1, SinceHas DEF Since
  <2>3. <<>> \in Seq(HttpEntries) OBVIOUS
  <2> QED BY <1>2, <2>2, <2>3 DEF Polled, HttpTypes, JobTypes
<1>3. ASSUME NEW p \in Procs, Emit(p) PROVE JobTypes'
  <2>1. CASE todo[p] = <<>> BY <1>3, <2>1 DEF Emit, HttpTypes, JobTypes
  <2>2. CASE todo[p] # <<>>
    <3>1. todo[p] \in Seq(HttpEntries) BY DEF HttpTypes, JobTypes
    <3>2. Head(todo[p]) \in HttpEntries /\ Tail(todo[p]) \in Seq(HttpEntries) BY <2>2, <3>1
    <3>3. Head(todo[p]).seq \in Nat BY <3>2 DEF HttpEntries
    <3>4. todo' = [todo EXCEPT ![p] = Tail(todo[p])] /\ seen' = [seen EXCEPT ![p] = seen[p] \cup {Head(todo[p]).seq}] /\ cursor' = cursor
      BY <1>3, <2>2 DEF Emit
    <3> QED BY <3>2, <3>3, <3>4 DEF HttpTypes, JobTypes
  <2> QED BY <2>1, <2>2
<1> QED BY <1>1, <1>2, <1>3, Touches DEF JobStep

\* Every step keeps the types.
LEMMA HttpTypesKept ==
    ASSUME HttpTypes, PlacesInv, \A s \in Sessions : Ring(fan[s]), [Next]_vars
    PROVE  HttpTypes'
BY HttpMapKept, SubsKept, StreamsKept, ErrorsKept, RingsKept, NotesKept, JobsKept, PlacesKept DEF HttpTypes

-----------------------------------------------------------------------------
(* The mutex over a session's subscriptions. *)

LockStep(p) ==
  \/ ops' = ops /\ (Locked(p)' <=> Locked(p)) /\ (Locked(p) => at'[p] = at[p])
  \/ /\ ops[at[p]] = "free" /\ ops' = [ops EXCEPT ![at[p]] = p] /\ at'[p] = at[p]
     /\ ~Locked(p) /\ Locked(p)'
  \/ ops' = [ops EXCEPT ![at[p]] = "free"] /\ at'[p] = at[p] /\ Locked(p) /\ ~Locked(p)'

\* Whoever moves keeps the mutex as it is, takes it when it is free, or frees what it holds.
LEMMA MoverLocks ==
    ASSUME HttpTypes, PlacesInv, MutexInv, NEW p \in Procs, Moves(p)
    PROVE  LockStep(p)
<1> USE DEF LockStep, Locked, Restarts, Collecting
<1>0. InSession(p) /\ Returns(p) /\ pc \in [Procs -> HttpPlaces] /\ at \in [Procs -> 0 .. made]
      /\ rback \in [Procs -> {"", "insert", "ensure", "release", "drain", "collect"}]
      /\ cback \in [Procs -> {"", "open", "closed", "polled", "emit"}]
  BY DEF HttpTypes, MapTypes, PlaceTypes, PlacesInv
<1>1. CASE GetByLookupKey(p)
  BY <1>0, <1>1 DEF GetByLookupKey, Goto, mapvars, sessvars, wirevars, procvars, InSession, Returns
<1>2. CASE GetFromMap(p)
  BY <1>0, <1>2 DEF GetFromMap, Acquired, Goto, mapvars, sessvars, wirevars, procvars, InSession, Returns
<1>3. CASE GetOrCreate(p)
  BY <1>0, <1>3 DEF GetOrCreate, Acquired, Goto, mapvars, sessvars, wirevars, procvars, InSession, Returns
<1>4. CASE Connected(p)
  <2>1. ~Locked(p) /\ cback[p] = "" BY <1>0, <1>4 DEF Connected, Returns, Prelude
  <2>2. cback' = cback /\ ops' = ops /\ pc'[p] \in {"restart", "insert"} /\ rback'[p] = "insert"
    BY <1>0, <1>4 DEF Connected, Goto, sessvars
  <2> QED BY <2>1, <2>2
<1>5. CASE ConnectFailed(p)
  BY <1>0, <1>5 DEF ConnectFailed, Goto, mapvars, sessvars, wirevars, procvars, InSession, Returns
<1>6. CASE InsertSession(p)
  BY <1>0, <1>6 DEF InsertSession, Acquired, Goto, mapvars, sessvars, wirevars, procvars, InSession, Returns
<1>7. CASE RestartBegin(p)
  BY <1>0, <1>7 DEF RestartBegin, Goto, mapvars, sessvars, wirevars, procvars, InSession, Returns
<1>8. CASE RestartOpened(p)
  BY <1>0, <1>8 DEF RestartOpened, Goto, mapvars, sessvars, wirevars, procvars, InSession, Returns
<1>9. CASE RestartRecorded(p)
  BY <1>0, <1>9 DEF RestartRecorded, Goto, mapvars, sessvars, wirevars, procvars, InSession, Returns
<1>10. CASE RestartRefused(p)
  BY <1>0, <1>10 DEF RestartRefused, Goto, mapvars, sessvars, wirevars, procvars, InSession, Returns
<1>11. CASE TakeStreamError(p)
  BY <1>0, <1>11 DEF TakeStreamError, Modern, CollectReopens, Goto, mapvars, sessvars, wirevars, procvars, InSession,
     Returns
<1>12. CASE DrainBuffer(p)
  <2>1. CASE p \in Jobs /\ cback[p] \in {"open", "closed"}
    <3>1. Locked(p) /\ ops[at[p]] = p BY <1>12, <2>1 DEF DrainBuffer, MutexInv
    <3> QED BY <1>0, <1>12, <2>1, <3>1 DEF DrainBuffer, Goto
  <2>2. CASE ~(p \in Jobs /\ cback[p] \in {"open", "closed"})
    <3>1. at[p] \in Sessions BY <1>0, <1>12, SessionOf DEF DrainBuffer, InSession, Prelude, HttpTypes
    <3>2. p # "free" BY HttpAssumption DEF HttpAssumption
    <3>3. ~Locked(p) BY <1>12, <2>2 DEF DrainBuffer
    <3>4. ops[at[p]] # p BY <3>1, <3>2, <3>3 DEF MutexInv
    <3>5. ops' = ops BY <1>12, <3>4 DEF DrainBuffer
    <3> QED BY <1>0, <1>12, <3>3, <3>5 DEF DrainBuffer, Goto, Returns
  <2> QED BY <2>1, <2>2
<1>13. CASE Ensure(p)
  BY <1>0, <1>13 DEF Ensure, Modern, Goto, mapvars, sessvars, wirevars, procvars, InSession, Returns
<1>14. CASE Subscribed(p)
  BY <1>0, <1>14 DEF Subscribed, Goto, mapvars, sessvars, wirevars, procvars, InSession, Returns
<1>15. CASE SubscribeRefused(p)
  BY <1>0, <1>15 DEF SubscribeRefused, Goto, mapvars, sessvars, wirevars, procvars, InSession, Returns
<1>16. CASE Release(p)
  BY <1>0, <1>16 DEF Release, Modern, Goto, mapvars, sessvars, wirevars, procvars, InSession, Returns
<1>17. CASE Unsubscribed(p)
  BY <1>0, <1>17 DEF Unsubscribed, Goto, mapvars, sessvars, wirevars, procvars, InSession, Returns
<1>18. CASE Poll(p)
  BY <1>0, <1>18 DEF Poll, Modern, Goto, mapvars, sessvars, wirevars, procvars, InSession, Returns
<1>19. CASE DrainLocks(p)
  BY <1>0, <1>19 DEF DrainLocks, Goto, mapvars, sessvars, wirevars, procvars, InSession, Returns
<1>20. CASE GetStream(p)
  BY <1>0, <1>20 DEF GetStream, Goto, mapvars, sessvars, wirevars, procvars, InSession, Returns
<1>21. CASE Polled(p)
  BY <1>0, <1>21 DEF Polled, Goto, mapvars, sessvars, wirevars, procvars, InSession, Returns
<1>22. CASE Emit(p)
  BY <1>0, <1>22 DEF Emit, Goto, mapvars, sessvars, wirevars, procvars, InSession, Returns
<1>23. CASE Stop(p)
  BY <1>0, <1>23 DEF Stop, Goto, mapvars, sessvars, wirevars, procvars, InSession, Returns
<1>24. CASE Call(p)
  BY <1>0, <1>24 DEF Call, Goto, mapvars, sessvars, wirevars, procvars, InSession, Returns
<1>25. CASE EmitFailed(p)
  BY <1>0, <1>25 DEF EmitFailed, Goto, mapvars, sessvars, wirevars, procvars, InSession, Returns
<1>26. CASE Leave(p)
  <2>1. at' = at /\ pc'[p] = "closed" /\ ~Locked(p)' BY <1>0, <1>26 DEF Leave, Goto
  <2>2. ops \in [Sessions -> Procs \cup {"free"}] BY DEF HttpTypes, SubTypes
  <2>3. ops' = [t \in Sessions |-> IF ops[t] = p THEN "free" ELSE ops[t]] BY <1>26 DEF Leave
  <2>4. CASE Locked(p)
    <3>1. at[p] \in Sessions BY <1>0, <2>4, SessionOf DEF InSession, Prelude, HttpTypes
    <3>2. \A t \in Sessions : ops[t] = p <=> t = at[p] BY <2>4, <3>1 DEF MutexInv
    <3> HIDE DEF Locked
    <3>3. ops' = [ops EXCEPT ![at[p]] = "free"] BY <2>2, <2>3, <3>2
    <3> QED BY <2>1, <2>4, <3>3
  <2>5. CASE ~Locked(p)
    <3>1. \A t \in Sessions : ops[t] # p BY <2>5 DEF MutexInv
    <3> HIDE DEF Locked
    <3>2. ops' = ops BY <2>2, <2>3, <3>1
    <3> QED BY <2>1, <2>5, <3>2
  <2> QED BY <2>4, <2>5
<1> QED
  BY <1>1, <1>2, <1>3, <1>4, <1>5, <1>6, <1>7, <1>8, <1>9, <1>10, <1>11, <1>12, <1>13, <1>14, <1>15, <1>16,
     <1>17, <1>18, <1>19, <1>20, <1>21, <1>22, <1>23, <1>24, <1>25, <1>26 DEF Moves, Step

\* The mutex of a session is held by a process that is inside, and by every one that is.
LEMMA MutexKept ==
    ASSUME HttpTypes, PlacesInv, MutexInv, [Next]_vars
    PROVE  MutexInv'
<1>1. CASE UNCHANGED <<era, procvars, sessvars, next_id, task, server>>
  BY <1>1 DEF procvars, sessvars, MutexInv, Locked
<1>2. ASSUME NEW p \in Procs, Moves(p) PROVE MutexInv'
  <2>1. LockStep(p) BY <1>2, MoverLocks
  <2>2. ASSUME NEW q \in Procs, q # p PROVE (Locked(q)' <=> Locked(q)) /\ at'[q] = at[q]
    <3>1. Stays(q) BY <1>2, <2>2, OthersStay
    <3> QED BY <3>1 DEF Stays, Locked
  <2>3. ops \in [Sessions -> Procs \cup {"free"}] /\ p # "free"
    BY HttpAssumption DEF HttpAssumption, HttpTypes, SubTypes
  <2>4. \A q \in Procs : Locked(q) => at[q] \in Sessions
    BY SessionOf DEF HttpTypes, PlacesInv, InSession, Locked, Prelude, Restarts, Collecting
  <2>5. (\A s \in Sessions, q \in Procs : ops[s] = q => at[q] = s /\ Locked(q)) /\ (\A q \in Procs : Locked(q) => ops[at[q]] = q)
    BY DEF MutexInv
  <2> HIDE DEF Locked
  <2>6. ASSUME NEW s \in Sessions, NEW q \in Procs, ops'[s] = q PROVE at'[q] = s /\ Locked(q)'
    <3>1. CASE ops' = ops /\ (Locked(p)' <=> Locked(p)) /\ (Locked(p) => at'[p] = at[p])
      <4>1. at[q] = s /\ Locked(q) BY <2>5, <2>6, <3>1
      <4> QED BY <2>2, <3>1, <4>1
    <3>2. CASE ops' = [ops EXCEPT ![at[p]] = p] /\ at'[p] = at[p] /\ Locked(p)' /\ ~Locked(p)
      <4>1. CASE s = at[p]
        <5>1. q = p BY <2>3, <2>6, <3>2, <4>1
        <5> QED BY <3>2, <4>1, <5>1
      <4>2. CASE s # at[p]
        <5>1. ops[s] = q BY <2>3, <2>6, <3>2, <4>2
        <5>2. at[q] = s /\ Locked(q) /\ q # p BY <2>5, <3>2, <5>1
        <5> QED BY <2>2, <5>2
      <4> QED BY <4>1, <4>2
    <3>3. CASE ops' = [ops EXCEPT ![at[p]] = "free"] /\ at'[p] = at[p] /\ Locked(p) /\ ~Locked(p)'
      <4>1. s # at[p] /\ ops[s] = q
        <5>1. q # "free" BY HttpAssumption DEF HttpAssumption
        <5> QED BY <2>3, <2>6, <3>3, <5>1
      <4>2. at[q] = s /\ Locked(q) /\ q # p BY <2>5, <4>1
      <4> QED BY <2>2, <4>2
    <3> QED BY <2>1, <3>1, <3>2, <3>3 DEF LockStep
  <2>7. ASSUME NEW q \in Procs, Locked(q)' PROVE ops'[at'[q]] = q
    <3>1. CASE ops' = ops /\ (Locked(p)' <=> Locked(p)) /\ (Locked(p) => at'[p] = at[p])
      <4>1. Locked(q) /\ at'[q] = at[q] BY <2>2, <2>7, <3>1
      <4> QED BY <2>5, <3>1, <4>1
    <3>2. CASE /\ ops' = [ops EXCEPT ![at[p]] = p] /\ at'[p] = at[p] /\ Locked(p)' /\ ~Locked(p)
               /\ ops[at[p]] = "free"
      <4>1. CASE q = p
        <5>1. at[p] \in Sessions
          <6>1. at'[p] # 0 BY <1>2, <3>2, MoverPlaced DEF InSession, Locked, Prelude, Restarts, Collecting
          <6> QED BY <3>2, <6>1, SessionOf DEF HttpTypes
        <5> QED BY <2>3, <3>2, <4>1, <5>1
      <4>2. CASE q # p
        <5>1. Locked(q) /\ at'[q] = at[q] BY <2>2, <2>7, <4>2
        <5>2. ops[at[q]] = q /\ q # "free" /\ at[q] \in Sessions
          BY <2>4, <2>5, <5>1, HttpAssumption DEF HttpAssumption
        <5> QED BY <2>3, <3>2, <5>1, <5>2
      <4> QED BY <4>1, <4>2
    <3>3. CASE ops' = [ops EXCEPT ![at[p]] = "free"] /\ at'[p] = at[p] /\ Locked(p) /\ ~Locked(p)'
      <4>1. q # p BY <2>7, <3>3
      <4>2. Locked(q) /\ at'[q] = at[q] BY <2>2, <2>7, <4>1
      <4>3. ops[at[q]] = q /\ ops[at[p]] = p /\ at[q] \in Sessions BY <2>4, <2>5, <3>3, <4>2
      <4> QED BY <2>3, <3>3, <4>1, <4>2, <4>3
    <3> QED BY <2>1, <3>1, <3>2, <3>3 DEF LockStep
  <2> QED BY <2>6, <2>7 DEF MutexInv
<1> QED BY <1>1, <1>2, SomebodyMoves

-----------------------------------------------------------------------------
(* The counts of subscribers. *)

\* A job that counts has a count to give back.
LEMMA CountedOnes ==
    ASSUME HttpTypes, PlacesInv, CountInv, NEW j \in Jobs, Counting(j)
    PROVE  at[j] \in Sessions /\ UriOf[j] \in Uris /\ subs[at[j]][UriOf[j]] \in Nat \ {0}
<1>1. j \in Procs /\ UriOf[j] \in Uris /\ IsFiniteSet(Jobs) BY HttpAssumption DEF HttpAssumption, Procs
<1>2. at[j] \in Sessions
  BY <1>1, SessionOf DEF HttpTypes, PlacesInv, InSession, Counting, Prelude, Restarts, Collecting
<1>3. j \in Holders(at[j], UriOf[j]) /\ Holders(at[j], UriOf[j]) \subseteq Jobs BY DEF Holders
<1>4. IsFiniteSet(Holders(at[j], UriOf[j])) BY <1>1, <1>3, FS_Subset
<1>5. Cardinality(Holders(at[j], UriOf[j])) \in Nat \ {0} BY <1>3, <1>4, FS_EmptySet, FS_CardinalityType
<1>6. subs[at[j]][UriOf[j]] >= Cardinality(Holders(at[j], UriOf[j])) BY <1>1, <1>2 DEF CountInv, CountsAll
<1> QED BY <1>1, <1>2, <1>5, <1>6 DEF HttpTypes, SubTypes

CountStep(p) ==
  \/ subs' = subs /\ (Counting(p)' <=> Counting(p)) /\ (Counting(p) => at'[p] = at[p])
  \/ /\ subs' = subs /\ p \in Jobs /\ Counting(p) /\ ~Counting(p)' /\ at'[p] = at[p] /\ at[p] \in leaked'
  \/ /\ p \in Jobs /\ ~Counting(p) /\ Counting(p)' /\ at'[p] = at[p] /\ at[p] \in Sessions
     /\ subs' = [subs EXCEPT ![at[p]][UriOf[p]] = subs[at[p]][UriOf[p]] + 1] /\ ops[at[p]] \in {"free", p}
  \/ /\ p \in Jobs /\ Counting(p) /\ ~Counting(p)' /\ at'[p] = at[p] /\ at[p] \in Sessions
     /\ subs' = [subs EXCEPT ![at[p]][UriOf[p]] = subs[at[p]][UriOf[p]] - 1] /\ ops[at[p]] \in {"free", p}

\* Nobody forgets that a count was left.
LEMMA LeaksStay ==
    ASSUME [Next]_vars
    PROVE  leaked \subseteq leaked'
<1>1. CASE UNCHANGED <<terr, hurt, leaked>> BY <1>1
<1>2. ASSUME NEW p \in Procs, RestartOpened(p) \/ RestartRefused(p) \/ TakeStreamError(p) \/ Poll(p) \/ GetStream(p)
      PROVE  leaked' = leaked
  BY <1>2 DEF RestartOpened, RestartRefused, TakeStreamError, Poll, GetStream
<1>3. ASSUME NEW p \in Procs, Leave(p) PROVE leaked \subseteq leaked' BY <1>3 DEF Leave
<1>4. ASSUME NEW s \in Sessions, NEW r \in live[s], Break(s, r) PROVE leaked' = leaked BY <1>4 DEF Break
<1> QED BY <1>1, <1>2, <1>3, <1>4, Touches DEF ErrorStep

\* Whoever moves leaves the counts alone, starts or stops counting by one, or leaves its count behind.
LEMMA MoverCounts ==
    ASSUME HttpTypes, PlacesInv, MutexInv, CountInv, NEW p \in Procs, Moves(p)
    PROVE  CountStep(p) /\ Alone(p)'
<1> USE DEF CountStep, Counting, Restarts, Collecting, Alone
<1>0. InSession(p) /\ Returns(p) /\ Alone(p) /\ pc \in [Procs -> HttpPlaces] /\ at \in [Procs -> 0 .. made]
      /\ rback \in [Procs -> {"", "insert", "ensure", "release", "drain", "collect"}]
      /\ cback \in [Procs -> {"", "open", "closed", "polled", "emit"}]
  BY DEF HttpTypes, MapTypes, PlaceTypes, PlacesInv, CountInv
<1>a. at[p] # 0 => at[p] \in Sessions BY SessionOf DEF HttpTypes
<1>b. at[p] # 0 /\ p \in Jobs => UriOf[p] \in Uris /\ subs[at[p]] \in [Uris -> Nat] /\ subs[at[p]][UriOf[p]] \in Nat
  BY <1>a, HttpAssumption DEF HttpAssumption, HttpTypes, SubTypes
<1>c. subs \in [Sessions -> [Uris -> Nat]] BY DEF HttpTypes, SubTypes
<1>1. CASE GetByLookupKey(p)
  BY <1>0, <1>1 DEF GetByLookupKey, Goto, mapvars, sessvars, wirevars, procvars, Returns
<1>2. CASE GetFromMap(p)
  BY <1>0, <1>2 DEF GetFromMap, Acquired, Goto, mapvars, sessvars, wirevars, procvars, Returns
<1>3. CASE GetOrCreate(p)
  BY <1>0, <1>3 DEF GetOrCreate, Acquired, Goto, mapvars, sessvars, wirevars, procvars, Returns
<1>4. CASE Connected(p)
  <2>1. ~Counting(p) /\ cback[p] = "" BY <1>0, <1>4 DEF Connected, Returns, Prelude
  <2>2. cback' = cback /\ subs' = subs /\ pc'[p] \in {"restart", "insert"} /\ rback'[p] = "insert"
    BY <1>0, <1>4 DEF Connected, Goto, sessvars
  <2> QED BY <2>1, <2>2
<1>5. CASE ConnectFailed(p)
  BY <1>0, <1>5 DEF ConnectFailed, Goto, mapvars, sessvars, wirevars, procvars, Returns
<1>6. CASE InsertSession(p)
  BY <1>0, <1>6 DEF InsertSession, Acquired, Goto, mapvars, sessvars, wirevars, procvars, Returns
<1>7. CASE RestartBegin(p)
  BY <1>0, <1>7 DEF RestartBegin, Goto, mapvars, sessvars, wirevars, procvars, Returns
<1>8. CASE RestartOpened(p)
  BY <1>0, <1>8 DEF RestartOpened, Goto, mapvars, sessvars, wirevars, procvars, Returns
<1>9. CASE RestartRecorded(p)
  BY <1>0, <1>9 DEF RestartRecorded, Goto, mapvars, sessvars, wirevars, procvars, Returns
<1>10. CASE RestartRefused(p)
  <2>1. CASE rback[p] = "ensure"
    <3>1. /\ pc[p] = "restart_post" /\ cback[p] = "open" /\ pc' = [pc EXCEPT ![p] = "closed"] /\ at' = at
          /\ subs' = [subs EXCEPT ![at[p]][UriOf[p]] = 0]
      BY <1>0, <2>1, <1>10 DEF RestartRefused, Returns, Goto
    <3>2. p \in Jobs /\ at[p] \in Sessions /\ subs[at[p]][UriOf[p]] = 1
      BY <1>0, <1>a, <2>1, <3>1 DEF InSession, Prelude
    <3>3. ops[at[p]] = p BY <3>1, <3>2 DEF MutexInv, Locked
    <3>4. subs[at[p]][UriOf[p]] - 1 = 0 BY <3>2
    <3>5. pc'[p] = "closed" BY <1>0, <3>1
    <3> QED BY <3>1, <3>2, <3>3, <3>4, <3>5
  <2>2. CASE rback[p] # "ensure"
    BY <1>0, <2>2, <1>10 DEF RestartRefused, Goto, Returns
  <2> QED BY <2>1, <2>2
<1>11. CASE TakeStreamError(p)
  BY <1>0, <1>11 DEF TakeStreamError, Modern, CollectReopens, Goto, mapvars, sessvars, wirevars, procvars, Returns
<1>12. CASE DrainBuffer(p)
  BY <1>0, <1>12 DEF DrainBuffer, Goto, mapvars, sessvars, wirevars, procvars, Returns
<1>13. CASE Ensure(p)
  <2>1. p \in Jobs /\ at[p] \in Sessions /\ UriOf[p] \in Uris /\ subs[at[p]][UriOf[p]] \in Nat
    BY <1>0, <1>a, <1>b, <1>13 DEF Ensure, InSession, Prelude
  <2>2. CASE subs[at[p]][UriOf[p]] > 0
    <3>1. /\ subs' = [subs EXCEPT ![at[p]][UriOf[p]] = subs[at[p]][UriOf[p]] + 1] /\ pc' = [pc EXCEPT ![p] = "open"]
          /\ at' = at /\ pc[p] = "ensure" /\ ops[at[p]] = "free" BY <2>1, <2>2, <1>13 DEF Ensure, Goto
    <3> QED BY <1>0, <2>1, <3>1
  <2>3. CASE subs[at[p]][UriOf[p]] = 0 /\ Modern
    <3>1. /\ subs' = [subs EXCEPT ![at[p]][UriOf[p]] = 1] /\ pc' = [pc EXCEPT ![p] = "restart"]
          /\ at' = at /\ pc[p] = "ensure" /\ ops[at[p]] = "free" /\ cback' = [cback EXCEPT ![p] = "open"]
            BY <2>1, <2>3, <1>13 DEF Ensure, Goto
    <3>2. subs[at[p]][UriOf[p]] + 1 = 1 BY <2>3
    <3>3. subs'[at[p]][UriOf[p]] = 1 BY <1>c, <2>1, <3>1
    <3>4. pc'[p] = "restart" /\ cback'[p] = "open" /\ at'[p] = at[p] BY <1>0, <3>1
    <3> QED BY <2>1, <3>1, <3>2, <3>3, <3>4
  <2>4. CASE subs[at[p]][UriOf[p]] = 0 /\ ~Modern
    <3>1. subs' = subs /\ pc' = [pc EXCEPT ![p] = "subscribe"] /\ at' = at /\ pc[p] = "ensure"
      BY <2>1, <2>4, <1>13 DEF Ensure, Goto
    <3> QED BY <1>0, <2>1, <2>4, <3>1
  <2> QED BY <2>1, <2>2, <2>3, <2>4
<1>14. CASE Subscribed(p)
  <2>1. p \in Jobs /\ at[p] \in Sessions /\ UriOf[p] \in Uris /\ subs[at[p]][UriOf[p]] \in Nat
    BY <1>0, <1>a, <1>b, <1>14 DEF Subscribed, InSession, Prelude
  <2>2. Locked(p) BY <2>1, <1>14 DEF Subscribed, Locked
  <2>3. ops[at[p]] = p /\ subs[at[p]][UriOf[p]] = 0 BY <1>0, <2>2, <1>14 DEF Subscribed, MutexInv
  <2>4. /\ subs' = [subs EXCEPT ![at[p]][UriOf[p]] = subs[at[p]][UriOf[p]] + 1] /\ pc' = [pc EXCEPT ![p] = "collect"]
        /\ UNCHANGED <<at, cback>> /\ pc[p] = "subscribe" BY <2>3, <1>14 DEF Subscribed, Goto
  <2> QED BY <1>0, <2>1, <2>3, <2>4 DEF Returns
<1>15. CASE SubscribeRefused(p)
  BY <1>0, <1>15 DEF SubscribeRefused, Goto, mapvars, sessvars, wirevars, procvars, Returns
<1>16. CASE Release(p)
  <2>1. p \in Jobs /\ at[p] \in Sessions /\ UriOf[p] \in Uris /\ subs[at[p]][UriOf[p]] \in Nat
    BY <1>0, <1>a, <1>b, <1>16 DEF Release, InSession, Prelude
  <2>2. subs[at[p]][UriOf[p]] # 0 /\ Counting(p) BY <2>1, <1>16, CountedOnes DEF Release
  <2>3. /\ subs' = [subs EXCEPT ![at[p]][UriOf[p]] = subs[at[p]][UriOf[p]] - 1] /\ at' = at
        /\ ops[at[p]] = "free" /\ cback' = [cback EXCEPT ![p] = "closed"] /\ rback' = [rback EXCEPT ![p] = "release"]
        /\ pc' = [pc EXCEPT ![p] = IF subs[at[p]][UriOf[p]] # 1 THEN "closed" ELSE IF Modern THEN "restart" ELSE "unsubscribe"]
    BY <2>2, <1>16 DEF Release, Dropped, IsLast, Goto
  <2>4. cback'[p] = "closed" /\ rback'[p] = "release" BY <1>0, <2>3
  <2>5. /\ pc'[p] \in {"closed", "restart", "unsubscribe"} /\ (pc'[p] = "unsubscribe" => subs[at[p]][UriOf[p]] = 1)
    BY <1>0, <2>3
  <2>6. subs'[at[p]][UriOf[p]] = subs[at[p]][UriOf[p]] - 1 BY <1>c, <2>1, <2>3
  <2> QED BY <2>1, <2>2, <2>3, <2>4, <2>5, <2>6
<1>17. CASE Unsubscribed(p)
  BY <1>0, <1>17 DEF Unsubscribed, Goto, mapvars, sessvars, wirevars, procvars, Returns
<1>18. CASE Poll(p)
  BY <1>0, <1>18 DEF Poll, Modern, Goto, mapvars, sessvars, wirevars, procvars, Returns
<1>19. CASE DrainLocks(p)
  BY <1>0, <1>19 DEF DrainLocks, Goto, mapvars, sessvars, wirevars, procvars, Returns
<1>20. CASE GetStream(p)
  BY <1>0, <1>20 DEF GetStream, Goto, mapvars, sessvars, wirevars, procvars, Returns
<1>21. CASE Polled(p)
  BY <1>0, <1>21 DEF Polled, Goto, mapvars, sessvars, wirevars, procvars, Returns
<1>22. CASE Emit(p)
  BY <1>0, <1>22 DEF Emit, Goto, mapvars, sessvars, wirevars, procvars, Returns
<1>23. CASE Stop(p)
  BY <1>0, <1>23 DEF Stop, Goto, mapvars, sessvars, wirevars, procvars, Returns
<1>24. CASE Call(p)
  BY <1>0, <1>24 DEF Call, Goto, mapvars, sessvars, wirevars, procvars, Returns
<1>25. CASE EmitFailed(p)
  BY <1>0, <1>25 DEF EmitFailed, Goto, mapvars, sessvars, wirevars, procvars, Returns
<1>26. CASE Leave(p)
  BY <1>0, <1>26 DEF Leave, Goto
<1> QED
  BY <1>1, <1>2, <1>3, <1>4, <1>5, <1>6, <1>7, <1>8, <1>9, <1>10, <1>11, <1>12, <1>13, <1>14, <1>15, <1>16,
     <1>17, <1>18, <1>19, <1>20, <1>21, <1>22, <1>23, <1>24, <1>25, <1>26 DEF Moves, Step

\* The count of a resource is the number of jobs that count.
LEMMA CountsKept ==
    ASSUME HttpTypes, PlacesInv, MutexInv, CountInv, [Next]_vars
    PROVE  CountInv'
<1>0. leaked \subseteq leaked' BY LeaksStay
<1>1. CASE UNCHANGED <<era, procvars, sessvars, next_id, task, server>>
  BY <1>0, <1>1 DEF procvars, sessvars, CountInv, CountsAll, Holders, Counting, Alone
<1>2. ASSUME NEW p \in Procs, Moves(p) PROVE CountInv'
  <2>1. CountStep(p) /\ Alone(p)' BY <1>2, MoverCounts
  <2>2. ASSUME NEW q \in Procs, q # p PROVE (Counting(q)' <=> Counting(q)) /\ at'[q] = at[q] /\ pc'[q] = pc[q] /\ rback'[q] = rback[q]
    <3>1. Stays(q) BY <1>2, <2>2, OthersStay
    <3> QED BY <3>1 DEF Stays, Counting
  <2>3. subs \in [Sessions -> [Uris -> Nat]] /\ Jobs \subseteq Procs /\ IsFiniteSet(Jobs) /\ UriOf \in [Jobs -> Uris]
    BY HttpAssumption DEF HttpAssumption, HttpTypes, SubTypes, Procs
  <2>4. ASSUME NEW q \in Procs PROVE Alone(q)'
    <3>1. CASE q = p BY <2>1, <3>1
    <3>2. CASE q # p /\ (pc[q] \in {"subscribe", "unsubscribe"} \/ (pc[q] \in Restarts /\ rback[q] = "ensure"))
      <4>1. Locked(q) /\ at[q] \in Sessions
        BY <3>2, SessionOf DEF Locked, HttpTypes, PlacesInv, InSession, Returns, Restarts, Prelude
      <4>2. ops[at[q]] = q /\ q # "free" BY <4>1, HttpAssumption DEF MutexInv, HttpAssumption
      <4>3. subs' = subs \/ at[p] # at[q] BY <2>1, <3>2, <4>2 DEF CountStep
      <4>4. subs'[at[q]] = subs[at[q]] BY <2>1, <2>3, <4>1, <4>3 DEF CountStep
      <4> QED BY <2>2, <3>2, <4>4 DEF Alone, CountInv
    <3>3. CASE q # p /\ ~(pc[q] \in {"subscribe", "unsubscribe"} \/ (pc[q] \in Restarts /\ rback[q] = "ensure"))
      BY <2>2, <3>3 DEF Alone
    <3> QED BY <3>1, <3>2, <3>3
  <2>5. ASSUME NEW s \in Sessions, NEW u \in Uris PROVE CountsAll(s, u)'
    <3>0. CountsAll(s, u) /\ subs[s][u] \in Nat BY <2>3 DEF CountInv
    <3>a. IsFiniteSet(Holders(s, u))
      <4>1. Holders(s, u) \subseteq Jobs BY DEF Holders
      <4> QED BY <2>3, <4>1, FS_Subset
    <3>b. Cardinality(Holders(s, u)) \in Nat BY <3>a, FS_CardinalityType
    <3>1. CASE subs' = subs /\ (Counting(p)' <=> Counting(p)) /\ (Counting(p) => at'[p] = at[p])
      <4>1. \A j \in Jobs : (at'[j] = s /\ Counting(j)') <=> (at[j] = s /\ Counting(j)) BY <2>2, <2>3, <3>1
      <4>2. Holders(s, u)' = Holders(s, u) BY <4>1 DEF Holders
      <4> QED BY <1>0, <3>0, <3>1, <4>2 DEF CountsAll
    <3>2. CASE /\ p \in Jobs /\ ~Counting(p) /\ Counting(p)' /\ at'[p] = at[p] /\ at[p] \in Sessions
               /\ subs' = [subs EXCEPT ![at[p]][UriOf[p]] = subs[at[p]][UriOf[p]] + 1]
      <4>1. CASE s = at[p] /\ u = UriOf[p]
        <5>1. Holders(s, u)' = Holders(s, u) \cup {p} /\ p \notin Holders(s, u) BY <2>2, <2>3, <3>2, <4>1 DEF Holders
        <5>2. Cardinality(Holders(s, u)') = Cardinality(Holders(s, u)) + 1 BY <3>a, <5>1, FS_AddElement
        <5>3. subs'[s][u] = subs[s][u] + 1 BY <2>3, <3>2, <4>1
        <5> QED BY <1>0, <3>0, <3>b, <5>2, <5>3 DEF CountsAll
      <4>2. CASE ~(s = at[p] /\ u = UriOf[p])
        <5>1. Holders(s, u)' = Holders(s, u) BY <2>2, <2>3, <3>2, <4>2 DEF Holders
        <5>2. subs'[s][u] = subs[s][u] BY <2>3, <3>2, <4>2
        <5> QED BY <1>0, <3>0, <5>1, <5>2 DEF CountsAll
      <4> QED BY <4>1, <4>2
    <3>3. CASE /\ p \in Jobs /\ Counting(p) /\ ~Counting(p)' /\ at'[p] = at[p] /\ at[p] \in Sessions
               /\ subs' = [subs EXCEPT ![at[p]][UriOf[p]] = subs[at[p]][UriOf[p]] - 1]
      <4>1. CASE s = at[p] /\ u = UriOf[p]
        <5>1. Holders(s, u)' = Holders(s, u) \ {p} /\ p \in Holders(s, u) BY <2>2, <2>3, <3>3, <4>1 DEF Holders
        <5>2. Cardinality(Holders(s, u)') = Cardinality(Holders(s, u)) - 1 BY <3>a, <5>1, FS_RemoveElement
        <5>3. subs'[s][u] = subs[s][u] - 1 BY <2>3, <3>3, <4>1
        <5> QED BY <1>0, <3>0, <3>b, <5>2, <5>3 DEF CountsAll
      <4>2. CASE ~(s = at[p] /\ u = UriOf[p])
        <5>1. Holders(s, u)' = Holders(s, u) BY <2>2, <2>3, <3>3, <4>2 DEF Holders
        <5>2. subs'[s][u] = subs[s][u] BY <2>3, <3>3, <4>2
        <5> QED BY <1>0, <3>0, <5>1, <5>2 DEF CountsAll
      <4> QED BY <4>1, <4>2
    <3>4. CASE subs' = subs /\ p \in Jobs /\ Counting(p) /\ ~Counting(p)' /\ at'[p] = at[p] /\ at[p] \in leaked'
      <4>1. CASE s = at[p] /\ u = UriOf[p]
        <5>1. Holders(s, u)' = Holders(s, u) \ {p} /\ p \in Holders(s, u) BY <2>2, <2>3, <3>4, <4>1 DEF Holders
        <5>2. Cardinality(Holders(s, u)') = Cardinality(Holders(s, u)) - 1 BY <3>a, <5>1, FS_RemoveElement
        <5> QED BY <3>0, <3>b, <3>4, <4>1, <5>2 DEF CountsAll
      <4>2. CASE ~(s = at[p] /\ u = UriOf[p])
        <5>1. Holders(s, u)' = Holders(s, u) BY <2>2, <2>3, <3>4, <4>2 DEF Holders
        <5> QED BY <1>0, <3>0, <3>4, <5>1 DEF CountsAll
      <4> QED BY <4>1, <4>2
    <3> QED BY <2>1, <3>1, <3>2, <3>3, <3>4 DEF CountStep
  <2> QED BY <2>4, <2>5 DEF CountInv
<1> QED BY <1>1, <1>2, SomebodyMoves

-----------------------------------------------------------------------------
(* Who makes a session, and who finds it. *)

\* A step that is no process's.
Quiet ==
  /\ UNCHANGED <<era, procvars, sessvars, next_id, task, server, made>> /\ http' \in {http, 0}
  /\ \/ UNCHANGED <<live, terr, hurt>>
     \/ \E s \in Sessions : \E r \in live[s] : Acknowledge(s, r) \/ Break(s, r)

\* A step is a process's own or a quiet one.
LEMMA QuietOrMoves ==
    ASSUME [Next]_vars
    PROVE  Quiet \/ \E p \in Procs : Moves(p)
<1>1. CASE UNCHANGED vars BY <1>1 DEF vars, wirevars, mapvars, Quiet
<1>2. ASSUME NEW s \in Sessions, NEW r \in live[s], Acknowledge(s, r) PROVE Quiet
  BY <1>2 DEF Acknowledge, mapvars, Quiet
<1>3. ASSUME NEW s \in Sessions, NEW r \in live[s], Break(s, r) PROVE Quiet BY <1>3 DEF Break, mapvars, Quiet
<1>4. ASSUME NEW s \in Sessions, NEW r \in live[s], NEW us \in Chunks, Update(s, r, us) PROVE Quiet
  BY <1>4 DEF Update, mapvars, Quiet
<1>5. CASE CleanupMap BY <1>5 DEF CleanupMap, wirevars, Quiet
<1>6. CASE CleanupLookup BY <1>6 DEF CleanupLookup, wirevars, Quiet
<1> QED BY <1>1, <1>2, <1>3, <1>4, <1>5, <1>6 DEF Next, Environment, Moves

SessionStays(s) == /\ subs'[s] = subs[s] /\ sid'[s] = sid[s] /\ live'[s] = live[s] /\ task'[s] = task[s]
                   /\ terr'[s] = terr[s] /\ server'[s] = server[s] /\ (s \in hurt' <=> s \in hurt)

\* A process leaves the sessions alone that it is not at.
LEMMA ElsewhereStays ==
    ASSUME HttpTypes, NEW p \in Procs, Moves(p), NEW s \in Sessions, s # at[p]
    PROVE  SessionStays(s)
<1>0. subs \in [Sessions -> [Uris -> Nat]] /\ DOMAIN sid = Sessions /\ DOMAIN live = Sessions /\ DOMAIN task = Sessions
      /\ DOMAIN terr = Sessions /\ DOMAIN server = Sessions
  BY DEF HttpTypes, SubTypes, StreamTypes, ErrorTypes
<1>1. CASE GetByLookupKey(p) BY <1>0, <1>1 DEF GetByLookupKey, mapvars, sessvars, wirevars, procvars, SessionStays
<1>2. CASE GetFromMap(p) BY <1>0, <1>2 DEF GetFromMap, mapvars, sessvars, wirevars, procvars, SessionStays
<1>3. CASE GetOrCreate(p) BY <1>0, <1>3 DEF GetOrCreate, mapvars, sessvars, wirevars, procvars, SessionStays
<1>4. CASE Connected(p) BY <1>0, <1>4 DEF Connected, mapvars, sessvars, wirevars, procvars, SessionStays
<1>5. CASE ConnectFailed(p) BY <1>0, <1>5 DEF ConnectFailed, mapvars, sessvars, wirevars, procvars, SessionStays
<1>6. CASE InsertSession(p) BY <1>0, <1>6 DEF InsertSession, mapvars, sessvars, wirevars, procvars, SessionStays
<1>7. CASE RestartBegin(p) BY <1>0, <1>7 DEF RestartBegin, mapvars, sessvars, wirevars, procvars, SessionStays
<1>8. CASE RestartOpened(p) BY <1>0, <1>8 DEF RestartOpened, mapvars, sessvars, wirevars, procvars, SessionStays
<1>9. CASE RestartRecorded(p) BY <1>0, <1>9 DEF RestartRecorded, mapvars, sessvars, wirevars, procvars, SessionStays
<1>10. CASE RestartRefused(p) BY <1>0, <1>10 DEF RestartRefused, mapvars, sessvars, wirevars, procvars, SessionStays
<1>11. CASE TakeStreamError(p) BY <1>0, <1>11 DEF TakeStreamError, mapvars, sessvars, wirevars, procvars, SessionStays
<1>12. CASE DrainBuffer(p) BY <1>0, <1>12 DEF DrainBuffer, mapvars, sessvars, wirevars, procvars, SessionStays
<1>13. CASE Ensure(p) BY <1>0, <1>13 DEF Ensure, mapvars, sessvars, wirevars, procvars, SessionStays
<1>14. CASE Subscribed(p) BY <1>0, <1>14 DEF Subscribed, mapvars, sessvars, wirevars, procvars, SessionStays
<1>15. CASE SubscribeRefused(p)
  BY <1>0, <1>15 DEF SubscribeRefused, mapvars, sessvars, wirevars, procvars, SessionStays
<1>16. CASE Release(p) BY <1>0, <1>16 DEF Release, mapvars, sessvars, wirevars, procvars, SessionStays
<1>17. CASE Unsubscribed(p) BY <1>0, <1>17 DEF Unsubscribed, mapvars, sessvars, wirevars, procvars, SessionStays
<1>18. CASE Poll(p) BY <1>0, <1>18 DEF Poll, mapvars, sessvars, wirevars, procvars, SessionStays
<1>19. CASE DrainLocks(p) BY <1>0, <1>19 DEF DrainLocks, mapvars, sessvars, wirevars, procvars, SessionStays
<1>20. CASE GetStream(p) BY <1>0, <1>20 DEF GetStream, mapvars, sessvars, wirevars, procvars, SessionStays
<1>21. CASE Polled(p) BY <1>0, <1>21 DEF Polled, mapvars, sessvars, wirevars, procvars, SessionStays
<1>22. CASE Emit(p) BY <1>0, <1>22 DEF Emit, mapvars, sessvars, wirevars, procvars, SessionStays
<1>23. CASE Stop(p) BY <1>0, <1>23 DEF Stop, mapvars, sessvars, wirevars, procvars, SessionStays
<1>24. CASE Call(p) BY <1>0, <1>24 DEF Call, mapvars, sessvars, wirevars, procvars, SessionStays
<1>25. CASE EmitFailed(p) BY <1>0, <1>25 DEF EmitFailed, mapvars, sessvars, wirevars, procvars, SessionStays
<1>26. CASE Leave(p) BY <1>0, <1>26 DEF Leave, mapvars, SessionStays
<1> QED
  BY <1>1, <1>2, <1>3, <1>4, <1>5, <1>6, <1>7, <1>8, <1>9, <1>10, <1>11, <1>12, <1>13, <1>14, <1>15, <1>16,
     <1>17, <1>18, <1>19, <1>20, <1>21, <1>22, <1>23, <1>24, <1>25, <1>26 DEF Moves, Step

Located(p) == pc[p] \notin Prelude \cup {"closed"}
MakeStep(p) ==
  /\ (\A s \in Sessions : sid[s] # 0 => sid'[s] # 0) /\ hurt \subseteq hurt' /\ made' \in {made, made + 1} /\ era' = era
  /\ http' = http \/ (pc[p] = "insert" /\ http' = at[p] /\ ~Making(p)')
  /\ at'[p] = at[p] \/ (at'[p] = http /\ http' = http /\ ~Making(p)') \/ (at'[p] = made + 1 /\ http' = http)
  /\ Making(p)' => (Making(p) /\ at'[p] = at[p]) \/ at'[p] = made + 1
  /\ ~Making(p)' /\ Located(p)' => \/ ~Making(p) /\ Located(p) /\ at'[p] = at[p]
                                   \/ at'[p] = http /\ http # 0
                                   \/ pc[p] = "insert" /\ at'[p] = at[p]
  /\ pc'[p] = "insert" /\ era = "modern" => sid'[at'[p]] # 0 \/ at'[p] \in hurt'

\* How a move makes a session, publishes it or finds it.
LEMMA MoverMakes ==
    ASSUME HttpTypes, PlacesInv, NEW p \in Procs, Moves(p)
    PROVE  MakeStep(p)
<1> USE DEF MakeStep, Making, Located, Restarts, Prelude, Collecting
<1>0. InSession(p) /\ Returns(p) /\ pc \in [Procs -> HttpPlaces] /\ at \in [Procs -> 0 .. made] /\ made \in Nat
      /\ rback \in [Procs -> {"", "insert", "ensure", "release", "drain", "collect"}]
      /\ cback \in [Procs -> {"", "open", "closed", "polled", "emit"}]
  BY SessionOf DEF HttpTypes, MapTypes, PlaceTypes, PlacesInv
<1>a. sid \in [Sessions -> Nat] /\ (at[p] # 0 => at[p] \in Sessions) BY SessionOf DEF HttpTypes, StreamTypes
<1>1. CASE GetByLookupKey(p)
  BY <1>0, <1>a, <1>1 DEF GetByLookupKey, Goto, mapvars, sessvars, wirevars, procvars, InSession, Returns
<1>2. CASE GetFromMap(p)
  BY <1>0, <1>a, <1>2 DEF GetFromMap, Acquired, Goto, mapvars, sessvars, wirevars, procvars, InSession, Returns
<1>3. CASE GetOrCreate(p)
  BY <1>0, <1>a, <1>3 DEF GetOrCreate, Acquired, Goto, mapvars, sessvars, wirevars, procvars, InSession, Returns
<1>4. CASE Connected(p)
  BY <1>0, <1>a, <1>4 DEF Connected, Modern, Goto, mapvars, sessvars, wirevars, procvars, InSession, Returns
<1>5. CASE ConnectFailed(p)
  BY <1>0, <1>a, <1>5 DEF ConnectFailed, Goto, mapvars, sessvars, wirevars, procvars, InSession, Returns
<1>6. CASE InsertSession(p)
  BY <1>0, <1>a, <1>6 DEF InsertSession, Acquired, Goto, mapvars, sessvars, wirevars, procvars, InSession, Returns
<1>7. CASE RestartBegin(p)
  BY <1>0, <1>a, <1>7 DEF RestartBegin, Goto, mapvars, sessvars, wirevars, procvars, InSession, Returns
<1>8. CASE RestartOpened(p)
  BY <1>0, <1>a, <1>8 DEF RestartOpened, Goto, mapvars, sessvars, wirevars, procvars, InSession, Returns
<1>9. CASE RestartRecorded(p)
  BY <1>0, <1>a, <1>9 DEF RestartRecorded, Goto, mapvars, sessvars, wirevars, procvars, InSession, Returns
<1>10. CASE RestartRefused(p)
  BY <1>0, <1>a, <1>10 DEF RestartRefused, Goto, mapvars, sessvars, wirevars, procvars, InSession, Returns
<1>11. CASE TakeStreamError(p)
  BY <1>0, <1>a, <1>11 DEF TakeStreamError, Modern, CollectReopens, Goto, mapvars, sessvars, wirevars, procvars,
     InSession, Returns
<1>12. CASE DrainBuffer(p)
  BY <1>0, <1>a, <1>12 DEF DrainBuffer, Goto, mapvars, sessvars, wirevars, procvars, InSession, Returns
<1>13. CASE Ensure(p)
  BY <1>0, <1>a, <1>13 DEF Ensure, Modern, Goto, mapvars, sessvars, wirevars, procvars, InSession, Returns
<1>14. CASE Subscribed(p)
  BY <1>0, <1>a, <1>14 DEF Subscribed, Goto, mapvars, sessvars, wirevars, procvars, InSession, Returns
<1>15. CASE SubscribeRefused(p)
  BY <1>0, <1>a, <1>15 DEF SubscribeRefused, Goto, mapvars, sessvars, wirevars, procvars, InSession, Returns
<1>16. CASE Release(p)
  BY <1>0, <1>a, <1>16 DEF Release, Modern, Goto, mapvars, sessvars, wirevars, procvars, InSession, Returns
<1>17. CASE Unsubscribed(p)
  BY <1>0, <1>a, <1>17 DEF Unsubscribed, Goto, mapvars, sessvars, wirevars, procvars, InSession, Returns
<1>18. CASE Poll(p)
  BY <1>0, <1>a, <1>18 DEF Poll, Modern, Goto, mapvars, sessvars, wirevars, procvars, InSession, Returns
<1>19. CASE DrainLocks(p)
  BY <1>0, <1>a, <1>19 DEF DrainLocks, Goto, mapvars, sessvars, wirevars, procvars, InSession, Returns
<1>20. CASE GetStream(p)
  BY <1>0, <1>a, <1>20 DEF GetStream, Goto, mapvars, sessvars, wirevars, procvars, InSession, Returns
<1>21. CASE Polled(p)
  BY <1>0, <1>a, <1>21 DEF Polled, Goto, mapvars, sessvars, wirevars, procvars, InSession, Returns
<1>22. CASE Emit(p)
  BY <1>0, <1>a, <1>22 DEF Emit, Goto, mapvars, sessvars, wirevars, procvars, InSession, Returns
<1>23. CASE Stop(p)
  BY <1>0, <1>a, <1>23 DEF Stop, Goto, mapvars, sessvars, wirevars, procvars, InSession, Returns
<1>24. CASE Call(p)
  BY <1>0, <1>a, <1>24 DEF Call, Goto, mapvars, sessvars, wirevars, procvars, InSession, Returns
<1>25. CASE EmitFailed(p)
  BY <1>0, <1>a, <1>25 DEF EmitFailed, Goto, mapvars, sessvars, wirevars, procvars, InSession, Returns
<1>26. CASE Leave(p)
  BY <1>0, <1>a, <1>26 DEF Leave, Goto, mapvars
<1> QED
  BY <1>1, <1>2, <1>3, <1>4, <1>5, <1>6, <1>7, <1>8, <1>9, <1>10, <1>11, <1>12, <1>13, <1>14, <1>15, <1>16,
     <1>17, <1>18, <1>19, <1>20, <1>21, <1>22, <1>23, <1>24, <1>25, <1>26 DEF Moves, Step

\* A session in the making is its maker's alone, and one that others can find has a stream or was hurt.
LEMMA MakersKept ==
    ASSUME HttpTypes, PlacesInv, MakerInv, [Next]_vars
    PROVE  MakerInv'
<1>0. made \in Nat /\ http \in Nat /\ http <= made /\ \A q \in Procs : at[q] \in Nat /\ at[q] <= made
  BY SessionOf DEF HttpTypes, MapTypes
<1>a. \A q \in Procs : Making(q) \/ Located(q) => at[q] # 0 /\ at[q] \in Sessions
  BY SessionOf DEF HttpTypes, PlacesInv, InSession, Making, Located, Prelude, Restarts
<1>1. CASE Quiet
  <2>1. UNCHANGED <<era, pc, at, rback, sid, made>> /\ http' \in {http, 0} BY <1>1 DEF Quiet, procvars, sessvars
  <2>2. hurt \subseteq hurt' BY <1>1 DEF Quiet, Acknowledge, Break
  <2>3. ASSUME NEW s \in Sessions, s > made PROVE s \notin hurt' /\ live'[s] = {} /\ ~terr'[s]
    <3>1. s \notin hurt /\ live[s] = {} /\ ~terr[s] BY <2>3 DEF MakerInv
    <3>2. ASSUME NEW t \in Sessions, NEW r \in live[t], Acknowledge(t, r) \/ Break(t, r) PROVE s # t
      BY <3>1, <3>2
    <3>3. live \in [Sessions -> SUBSET HttpReaders] /\ terr \in [Sessions -> BOOLEAN]
      BY DEF HttpTypes, StreamTypes, ErrorTypes
    <3> QED BY <1>1, <3>1, <3>2, <3>3 DEF Quiet, Acknowledge, Break
  <2>4. \A q \in Procs : Making(q)' <=> Making(q) BY <2>1 DEF Making
  <2> QED BY <1>a, <2>1, <2>2, <2>3, <2>4 DEF MakerInv
<1>2. ASSUME NEW p \in Procs, Moves(p) PROVE MakerInv'
  <2>1. MakeStep(p) BY <1>2, MoverMakes
  <2>2. ASSUME NEW q \in Procs, q # p
        PROVE  (Making(q)' <=> Making(q)) /\ (Located(q)' <=> Located(q)) /\ at'[q] = at[q] /\ pc'[q] = pc[q]
    <3>1. Stays(q) BY <1>2, <2>2, OthersStay
    <3> QED BY <3>1 DEF Stays, Making, Located
  <2>3. (\A s \in Sessions : sid[s] # 0 => sid'[s] # 0) /\ hurt \subseteq hurt' /\ made' \in {made, made + 1} /\ era' = era
    BY <2>1 DEF MakeStep
  <2>4. ASSUME NEW q \in Procs, Making(q)', NEW r \in Procs, at'[r] = at'[q] PROVE r = q
    <3>1. CASE q # p
      <4>1. Making(q) /\ at'[q] = at[q] BY <2>2, <2>4, <3>1
      <4>2. CASE r # p BY <2>2, <2>4, <4>1, <4>2 DEF MakerInv
      <4>3. CASE r = p
        <5>1. at[p] # at[q] /\ http # at[q] /\ at[q] <= made BY <1>0, <3>1, <4>1 DEF MakerInv
        <5> QED BY <1>0, <2>1, <2>4, <4>1, <4>3, <5>1 DEF MakeStep
      <4> QED BY <4>2, <4>3
    <3>2. CASE q = p /\ r # p
      <4>1. at'[r] = at[r] /\ at[r] <= made BY <1>0, <2>2, <3>2
      <4>2. CASE Making(p) /\ at'[p] = at[p] BY <2>4, <3>2, <4>1, <4>2 DEF MakerInv
      <4>3. CASE at'[p] = made + 1 BY <1>0, <2>4, <3>2, <4>1, <4>3
      <4> QED BY <2>1, <2>4, <3>2, <4>2, <4>3 DEF MakeStep
    <3> QED BY <3>1, <3>2
  <2>5. ASSUME NEW q \in Procs, Making(q)' PROVE http' # at'[q]
    <3>1. CASE q # p
      <4>1. Making(q) /\ at'[q] = at[q] /\ http # at[q] /\ at[p] # at[q] BY <2>2, <2>5, <3>1 DEF MakerInv
      <4> QED BY <2>1, <4>1 DEF MakeStep
    <3>2. CASE q = p
      <4>1. http' = http BY <2>1, <2>5, <3>2 DEF MakeStep
      <4>2. CASE Making(p) /\ at'[p] = at[p] BY <3>2, <4>1, <4>2 DEF MakerInv
      <4>3. CASE at'[p] = made + 1 BY <1>0, <3>2, <4>1, <4>3
      <4> QED BY <2>1, <2>5, <3>2, <4>2, <4>3 DEF MakeStep
    <3> QED BY <3>1, <3>2
  <2>6. ASSUME NEW q \in Procs, pc'[q] = "insert", era' = "modern" PROVE sid'[at'[q]] # 0 \/ at'[q] \in hurt'
    <3>1. CASE q = p BY <2>1, <2>3, <2>6, <3>1 DEF MakeStep
    <3>2. CASE q # p
      <4>1. pc[q] = "insert" /\ at'[q] = at[q] /\ at[q] \in Sessions BY <1>a, <2>2, <2>6, <3>2 DEF Making
      <4> QED BY <2>3, <2>6, <4>1 DEF MakerInv
    <3> QED BY <3>1, <3>2
  <2>7. ASSUME era' = "modern", http' # 0 PROVE sid'[http'] # 0 \/ http' \in hurt'
    <3>1. CASE http' = http BY <2>3, <2>7, <3>1, SessionOf DEF MakerInv, HttpTypes
    <3>2. CASE pc[p] = "insert" /\ http' = at[p]
      <4>1. at[p] \in Sessions BY <1>a, <3>2 DEF Making
      <4> QED BY <2>3, <2>7, <3>2, <4>1 DEF MakerInv
    <3> QED BY <2>1, <3>1, <3>2 DEF MakeStep
  <2>8. ASSUME NEW q \in Procs, ~Making(q)', Located(q)', era' = "modern" PROVE sid'[at'[q]] # 0 \/ at'[q] \in hurt'
    <3>0. era = "modern" BY <2>3, <2>8
    <3>1. CASE ~Making(q) /\ Located(q) /\ at'[q] = at[q] BY <1>a, <2>3, <3>0, <3>1 DEF MakerInv, Located
    <3>2. CASE at'[q] = http /\ http # 0
      <4>1. http \in Sessions BY <3>2, SessionOf DEF HttpTypes
      <4> QED BY <2>3, <3>0, <3>2, <4>1 DEF MakerInv
    <3>3. CASE pc[q] = "insert" /\ at'[q] = at[q]
      <4>1. at[q] \in Sessions BY <1>a, <3>3 DEF Making
      <4> QED BY <2>3, <3>0, <3>3, <4>1 DEF MakerInv
    <3>4. CASE q = p BY <2>1, <2>8, <3>1, <3>2, <3>3, <3>4 DEF MakeStep
    <3>5. CASE q # p BY <2>2, <2>8, <3>1, <3>5
    <3> QED BY <3>4, <3>5
  <2>9. ASSUME NEW s \in Sessions, s > made' PROVE s \notin hurt' /\ live'[s] = {} /\ ~terr'[s]
    <3>1. s > made /\ s # at[p] BY <1>0, <2>3, <2>9 DEF Sessions
    <3>2. s \notin hurt /\ live[s] = {} /\ ~terr[s] BY <3>1 DEF MakerInv
    <3>3. SessionStays(s) BY <1>2, <3>1, ElsewhereStays
    <3> QED BY <3>2, <3>3 DEF SessionStays
  <2> QED BY <2>4, <2>5, <2>6, <2>7, <2>8, <2>9 DEF MakerInv, Located
<1> QED BY <1>1, <1>2, QuietOrMoves

-----------------------------------------------------------------------------
(* The streams of a session that has not been hurt. *)

\* A process's own step is a step.
LEMMA MoverNext ==
    ASSUME NEW p \in Procs, Moves(p)
    PROVE  Next
BY DEF Moves, Next, Environment

\* The protocol era does not change.
LEMMA EraStays ==
    ASSUME HttpTypes, PlacesInv, NEW p \in Procs, Moves(p)
    PROVE  era' = era
BY MoverMakes DEF MakeStep

\* On a session that was not hurt, whoever restarts the stream is making the session or holds its mutex.
LEMMA RestartsLocked ==
    ASSUME HttpTypes, PlacesInv, MutexInv, NEW s \in Sessions, Unhurt(s), NEW q \in Procs, at[q] = s, pc[q] \in Restarts
    PROVE  Making(q) \/ ops[s] = q
<1>1. rback[q] \in {"insert", "ensure", "release"} BY DEF Unhurt
<1>2. CASE rback[q] = "insert" BY <1>2 DEF Making
<1>3. CASE rback[q] \in {"ensure", "release"}
  <2>1. q \in Jobs /\ cback[q] \in {"open", "closed"} BY <1>3 DEF PlacesInv, InSession, Returns
  <2>2. Locked(q) BY <2>1 DEF Locked
  <2> QED BY <2>2 DEF MutexInv
<1> QED BY <1>1, <1>2, <1>3

\* Nobody but p restarts the stream of p's session.
OnlyRestarter(p, s) == \A q \in Procs : q # p /\ at[q] = s => pc[q] \notin Restarts \cup {"drain"}

\* So nobody restarts a stream while another does, nor while the mutex is free.
LEMMA RestarterAlone ==
    ASSUME HttpTypes, PlacesInv, MutexInv, MakerInv, NEW s \in Sessions, Unhurt(s), NEW p \in Procs, at[p] = s,
           pc[p] \in Restarts \/ ops[s] = "free"
    PROVE  OnlyRestarter(p, s)
<1>1. SUFFICES ASSUME NEW q \in Procs, q # p, at[q] = s, pc[q] \in Restarts PROVE FALSE
  BY DEF OnlyRestarter, Unhurt
<1>2. ~Making(q) /\ ~Making(p) BY <1>1 DEF MakerInv
<1>3. ops[s] = q BY <1>1, <1>2, RestartsLocked
<1>4. pc[p] \in Restarts BY <1>3, HttpAssumption DEF HttpAssumption
<1>5. ops[s] = p BY <1>2, <1>4, RestartsLocked
<1> QED BY <1>1, <1>3, <1>5

\* A step that leaves a session's stream alone.
Calm(p, s) ==
  /\ Desired(s)' = Desired(s) /\ sid'[s] = sid[s] /\ live'[s] = live[s] /\ task'[s] = task[s] /\ terr'[s] = terr[s]
  /\ at'[p] = s => /\ pc'[p] \notin {"drain", "restart_post", "restart_set"}
                   /\ pc'[p] = "restart" => rback'[p] \in {"insert", "ensure", "release"}
  /\ at[p] = s => pc[p] \notin Restarts

\* A session whose stream a step leaves alone stays well.
LEMMA CalmSession ==
    ASSUME HttpTypes, PlacesInv, NEW p \in Procs, Moves(p), NEW s \in Sessions, Unhurt(s), Calm(p, s)
    PROVE  Unhurt(s)'
<1>1. ASSUME NEW q \in Procs, q # p PROVE /\ pc'[q] = pc[q] /\ at'[q] = at[q] /\ rback'[q] = rback[q] /\ rid'[q] = rid[q]
                                         /\ rfilter'[q] = rfilter[q] /\ era' = era
  BY <1>1, OthersStay DEF Stays
<1>2. ~terr'[s] /\ (\A r1, r2 \in live'[s] : r1 = r2) /\ (\A r \in live'[s] : r.id = task'[s]) BY DEF Calm, Unhurt
<1>3. ASSUME NEW q \in Procs, at'[q] = s
      PROVE  /\ pc'[q] # "drain"
             /\ pc'[q] \in Restarts => rback'[q] \in {"insert", "ensure", "release"}
             /\ pc'[q] = "restart_post" => live'[s] = {} /\ rfilter'[q] = Desired(s)'
             /\ pc'[q] = "restart_set" => \E r \in live'[s] : r.id = rid'[q] /\ r.filter = Desired(s)'
  <2>1. CASE q = p BY <1>3, <2>1 DEF Calm, Restarts
  <2>2. CASE q # p BY <1>1, <1>3, <2>2 DEF Calm, Unhurt
  <2> QED BY <2>1, <2>2
<1>4. ASSUME era' = "modern", sid'[s] # 0, \A q \in Procs : at'[q] = s => pc'[q] \notin Restarts
      PROVE  \E r \in live'[s] : r.id = sid'[s] /\ r.filter = Desired(s)'
  <2>1. \A q \in Procs : at[q] = s => pc[q] \notin Restarts BY <1>1, <1>4 DEF Calm
  <2>2. era = "modern" BY <1>4, EraStays
  <2> QED BY <1>4, <2>1, <2>2 DEF Calm, Unhurt
<1> QED BY <1>2, <1>3, <1>4 DEF Unhurt

\* A process leaves the streams alone of sessions that it is not at.
LEMMA CalmElsewhere ==
    ASSUME HttpTypes, PlacesInv, NEW p \in Procs, Moves(p), NEW s \in Sessions, s # at[p]
    PROVE  Calm(p, s)
<1>1. SessionStays(s) BY ElsewhereStays
<1>2. Desired(s)' = Desired(s) BY <1>1 DEF SessionStays, Desired
<1>3. at'[p] = s => /\ pc'[p] \notin {"drain", "restart_post", "restart_set"}
                    /\ pc'[p] = "restart" => rback'[p] \in {"insert", "ensure", "release"}
  <2>0. at \in [Procs -> 0 .. made] /\ pc \in [Procs -> HttpPlaces] /\ DOMAIN rback = Procs
    BY DEF HttpTypes, MapTypes, PlaceTypes
  <2>1. CASE GetFromMap(p) BY <2>0, <2>1 DEF GetFromMap, Goto, Acquired
  <2>2. CASE GetOrCreate(p) BY <2>0, <2>2 DEF GetOrCreate, Goto, Acquired
  <2>3. CASE Connected(p) BY <2>0, <2>3 DEF Connected, Goto
  <2>4. CASE at' = at BY <2>4
  <2>5. at' = at \/ GetFromMap(p) \/ GetOrCreate(p) \/ Connected(p)
    <3>1. CASE GetByLookupKey(p) BY <3>1 DEF GetByLookupKey, procvars
    <3>2. CASE ConnectFailed(p) BY <3>2 DEF ConnectFailed, procvars
    <3>3. CASE InsertSession(p) BY <3>3 DEF InsertSession, procvars
    <3>4. CASE RestartBegin(p) BY <3>4 DEF RestartBegin, procvars
    <3>5. CASE RestartOpened(p) BY <3>5 DEF RestartOpened, procvars
    <3>6. CASE RestartRecorded(p) BY <3>6 DEF RestartRecorded, procvars
    <3>7. CASE RestartRefused(p) BY <3>7 DEF RestartRefused, procvars
    <3>8. CASE TakeStreamError(p) BY <3>8 DEF TakeStreamError, procvars
    <3>9. CASE DrainBuffer(p) BY <3>9 DEF DrainBuffer, procvars
    <3>10. CASE Ensure(p) BY <3>10 DEF Ensure, procvars
    <3>11. CASE Subscribed(p) BY <3>11 DEF Subscribed, procvars
    <3>12. CASE SubscribeRefused(p) BY <3>12 DEF SubscribeRefused, procvars
    <3>13. CASE Release(p) BY <3>13 DEF Release, procvars
    <3>14. CASE Unsubscribed(p) BY <3>14 DEF Unsubscribed, procvars
    <3>15. CASE Poll(p) BY <3>15 DEF Poll, procvars
    <3>16. CASE DrainLocks(p) BY <3>16 DEF DrainLocks, procvars
    <3>17. CASE GetStream(p) BY <3>17 DEF GetStream, procvars
    <3>18. CASE Polled(p) BY <3>18 DEF Polled, procvars
    <3>19. CASE Emit(p) BY <3>19 DEF Emit, procvars
    <3>20. CASE Stop(p) BY <3>20 DEF Stop, procvars
    <3>21. CASE Call(p) BY <3>21 DEF Call, procvars
    <3>22. CASE EmitFailed(p) BY <3>22 DEF EmitFailed, procvars
    <3>23. CASE Leave(p) BY <3>23 DEF Leave
    <3> QED
      BY <3>1, <3>2, <3>3, <3>4, <3>5, <3>6, <3>7, <3>8, <3>9, <3>10, <3>11, <3>12, <3>13, <3>14, <3>15, <3>16,
         <3>17, <3>18, <3>19, <3>20, <3>21, <3>22, <3>23 DEF Moves, Step
  <2> QED BY <2>1, <2>2, <2>3, <2>4, <2>5
<1> QED BY <1>1, <1>2, <1>3 DEF SessionStays, Calm

\* What p does to the stream of its own session.
LEMMA StreamAtHome ==
    ASSUME HttpTypes, PlacesInv, MutexInv, CountInv, MakerInv, NEW p \in Procs, Moves(p), NEW s \in Sessions, s = at[p],
           Unhurt(s), s \notin hurt, s \notin hurt'
    PROVE  Unhurt(s)'
<1>0. pc \in [Procs -> HttpPlaces] /\ at \in [Procs -> 0 .. made] /\ subs \in [Sessions -> [Uris -> Nat]] /\ InSession(p) /\ Returns(p)
      /\ rback \in [Procs -> {"", "insert", "ensure", "release", "drain", "collect"}]
      /\ cback \in [Procs -> {"", "open", "closed", "polled", "emit"}]
      /\ DOMAIN rid = Procs /\ DOMAIN rfilter = Procs
  BY DEF HttpTypes, MapTypes, PlaceTypes, PlacesInv, SubTypes
<1>a. sid \in [Sessions -> Nat] /\ task \in [Sessions -> Nat] /\ live \in [Sessions -> SUBSET HttpReaders] /\ terr \in [Sessions -> BOOLEAN]
  BY DEF HttpTypes, StreamTypes, ErrorTypes
<1>b. ~terr[s] /\ (\A r1, r2 \in live[s] : r1 = r2) /\ (\A r \in live[s] : r.id = task[s]) /\ pc[p] # "drain"
      /\ (pc[p] \in Restarts => rback[p] \in {"insert", "ensure", "release"})
  BY DEF Unhurt
<1>c. era' = era BY EraStays
<1>d. ASSUME OnlyRestarter(p, s), at'[p] = s, ~terr'[s], \A r1, r2 \in live'[s] : r1 = r2, \A r \in live'[s] : r.id = task'[s],
             pc'[p] # "drain", pc'[p] \in Restarts => rback'[p] \in {"insert", "ensure", "release"},
             pc'[p] = "restart_post" => live'[s] = {} /\ rfilter'[p] = Desired(s)',
             pc'[p] = "restart_set" => \E r \in live'[s] : r.id = rid'[p] /\ r.filter = Desired(s)',
             pc'[p] \in Restarts \/ era = "legacy" \/ \E r \in live'[s] : r.id = sid'[s] /\ r.filter = Desired(s)'
      PROVE  Unhurt(s)'
  <2>1. ASSUME NEW q \in Procs, q # p, at'[q] = s PROVE pc'[q] \notin Restarts \cup {"drain"}
    BY <1>d, <2>1, OthersStay DEF Stays, OnlyRestarter
  <2>2. ASSUME NEW q \in Procs, at'[q] = s
        PROVE  /\ pc'[q] # "drain"
               /\ pc'[q] \in Restarts => rback'[q] \in {"insert", "ensure", "release"}
               /\ pc'[q] = "restart_post" => live'[s] = {} /\ rfilter'[q] = Desired(s)'
               /\ pc'[q] = "restart_set" => \E r \in live'[s] : r.id = rid'[q] /\ r.filter = Desired(s)'
    <3>1. CASE q = p BY <1>d, <3>1
    <3>2. CASE q # p BY <2>1, <2>2, <3>2 DEF Restarts
    <3> QED BY <3>1, <3>2
  <2>3. era' = "modern" /\ (\A q \in Procs : at'[q] = s => pc'[q] \notin Restarts) => \E r \in live'[s] : r.id = sid'[s] /\ r.filter = Desired(s)'
    BY <1>c, <1>d
  <2> QED BY <1>d, <2>2, <2>3 DEF Unhurt
<1>e. ASSUME era = "legacy", ~terr'[s], \A r1, r2 \in live'[s] : r1 = r2, \A r \in live'[s] : r.id = task'[s]
      PROVE  Unhurt(s)'
  <2>1. PlacesInv' BY PlacesKept, MoverNext
  <2>2. \A q \in Procs : pc'[q] \notin Restarts \cup {"drain"} BY <1>c, <1>e, <2>1 DEF PlacesInv, InSession
  <2> QED BY <1>c, <1>e, <2>2 DEF Unhurt, Restarts
<1>f. Calm(p, s) => Unhurt(s)' BY CalmSession
<1>g. era \in {"modern", "legacy"} BY DEF HttpTypes, MapTypes
<1>1. CASE GetByLookupKey(p)
  BY <1>0, <1>a, <1>f, <1>1 DEF GetByLookupKey, Goto, mapvars, sessvars, wirevars, procvars, Calm, Desired, Restarts,
     Returns
<1>2. CASE GetFromMap(p)
  BY <1>0, <1>a, <1>f, <1>2 DEF GetFromMap, Acquired, Goto, mapvars, sessvars, wirevars, procvars, Calm, Desired,
     Restarts, Returns
<1>3. CASE GetOrCreate(p)
  BY <1>0, <1>a, <1>f, <1>3 DEF GetOrCreate, Acquired, Goto, mapvars, sessvars, wirevars, procvars, Calm, Desired,
     Restarts, Returns
<1>4. CASE Connected(p)
  BY <1>0, <1>a, <1>f, <1>4 DEF Connected, Modern, Goto, mapvars, sessvars, wirevars, procvars, Calm, Desired,
     Restarts, Returns
<1>5. CASE ConnectFailed(p)
  BY <1>0, <1>a, <1>f, <1>5 DEF ConnectFailed, Goto, mapvars, sessvars, wirevars, procvars, Calm, Desired, Restarts,
     Returns
<1>6. CASE InsertSession(p)
  BY <1>0, <1>a, <1>f, <1>6 DEF InsertSession, Acquired, Goto, mapvars, sessvars, wirevars, procvars, Calm, Desired,
     Restarts, Returns
<1>7. CASE RestartBegin(p)
  <2>1. OnlyRestarter(p, s) BY <1>7, RestarterAlone DEF RestartBegin, Restarts
  <2>2. Aborted(s) = {} BY <1>b DEF Aborted
  <2>3. live'[s] = {} /\ UNCHANGED <<terr, subs, at, rback>> /\ pc'[p] = "restart_post" /\ rfilter'[p] = Desired(s) /\ pc[p] = "restart"
    BY <1>0, <1>a, <2>2, <1>7 DEF RestartBegin, Goto, sessvars
  <2>4. Desired(s)' = Desired(s) BY <2>3 DEF Desired
  <2> QED BY <1>b, <1>d, <2>1, <2>3, <2>4 DEF Restarts
<1>8. CASE RestartOpened(p)
  <2>1. OnlyRestarter(p, s) BY <1>8, RestarterAlone DEF RestartOpened, Restarts
  <2>2. live[s] = {} /\ rfilter[p] = Desired(s) BY <1>8 DEF RestartOpened, Unhurt
  <2>3. /\ live'[s] = {[id |-> rid[p], filter |-> Desired(s), greeted |-> FALSE]} /\ task'[s] = rid[p] /\ terr'[s] = FALSE
        /\ pc'[p] = "restart_set" /\ pc[p] = "restart_post" /\ UNCHANGED <<subs, at, rback, rid>>
    BY <1>0, <1>a, <2>2, <1>8 DEF RestartOpened, Goto, sessvars
  <2>4. Desired(s)' = Desired(s) BY <2>3 DEF Desired
  <2> QED BY <1>b, <1>d, <2>1, <2>3, <2>4 DEF Restarts
<1>9. CASE RestartRecorded(p)
  <2>1. OnlyRestarter(p, s) BY <1>9, RestarterAlone DEF RestartRecorded, Restarts
  <2>2. PICK r \in live[s] : r.id = rid[p] /\ r.filter = Desired(s) BY <1>9 DEF RestartRecorded, Unhurt
  <2>3. sid'[s] = rid[p] /\ pc'[p] \in {"insert", "collect"} /\ UNCHANGED <<live, task, terr, subs, at>>
    BY <1>0, <1>a, <1>b, <1>9 DEF RestartRecorded, Goto, wirevars, Restarts
  <2>4. Desired(s)' = Desired(s) BY <2>3 DEF Desired
  <2>5. r \in live'[s] /\ r.id = sid'[s] /\ r.filter = Desired(s)' BY <2>2, <2>3, <2>4
  <2> QED BY <1>b, <1>d, <2>1, <2>3, <2>5 DEF Restarts
<1>10. CASE RestartRefused(p)
  BY <1>10 DEF RestartRefused
<1>11. CASE TakeStreamError(p)
  <2>1. terr'[s] = terr[s] /\ pc' = [pc EXCEPT ![p] = "collect_drain"] /\ pc[p] = "collect" /\ UNCHANGED <<subs, sid, live, task>>
    BY <1>0, <1>a, <1>b, <1>11 DEF TakeStreamError, Goto
  <2> QED BY <1>0, <1>f, <2>1 DEF Calm, Desired, Restarts
<1>12. CASE DrainBuffer(p)
  BY <1>0, <1>a, <1>f, <1>12 DEF DrainBuffer, Goto, mapvars, sessvars, wirevars, procvars, Calm, Desired, Restarts,
     Returns
<1>13. CASE Ensure(p)
  <2>0. UriOf[p] \in Uris /\ pc[p] = "ensure" /\ ops[s] = "free" /\ UNCHANGED <<sid, live, task, terr, at>>
    BY <1>0, <1>13, HttpAssumption DEF HttpAssumption, Ensure, InSession, wirevars
  <2>1. CASE subs[s][UriOf[p]] > 0
    <3>1. subs' = [subs EXCEPT ![s][UriOf[p]] = subs[s][UriOf[p]] + 1] /\ pc' = [pc EXCEPT ![p] = "open"]
      BY <2>1, <1>13 DEF Ensure, Goto
    <3>2. \A u \in Uris : subs'[s][u] > 0 <=> subs[s][u] > 0
      <4>1. subs'[s] = [subs[s] EXCEPT ![UriOf[p]] = subs[s][UriOf[p]] + 1] /\ subs[s] \in [Uris -> Nat] BY <1>0, <3>1
      <4>2. subs'[s][UriOf[p]] > 0 BY <2>0, <2>1, <4>1
      <4>3. \A u \in Uris : u # UriOf[p] => subs'[s][u] = subs[s][u] BY <4>1
      <4> QED BY <2>1, <4>2, <4>3
    <3>3. Desired(s)' = Desired(s) BY <3>2 DEF Desired
    <3> QED BY <1>0, <1>f, <2>0, <3>1, <3>3 DEF Calm, Restarts
  <2>2. CASE ~(subs[s][UriOf[p]] > 0) /\ Modern
    <3>1. pc' = [pc EXCEPT ![p] = "restart"] /\ rback' = [rback EXCEPT ![p] = "ensure"]
      BY <2>2, <1>13 DEF Ensure, Goto
    <3>2. OnlyRestarter(p, s) BY <2>0, RestarterAlone
    <3>3. pc'[p] = "restart" /\ rback'[p] = "ensure" BY <1>0, <3>1
    <3> QED BY <1>b, <1>d, <2>0, <3>2, <3>3 DEF Restarts
  <2>3. CASE ~Modern BY <1>b, <1>e, <1>g, <2>0, <2>3 DEF Modern
  <2> QED BY <2>1, <2>2, <2>3
<1>14. CASE Subscribed(p)
  <2>1. era = "legacy" /\ UNCHANGED <<live, task, terr>> BY <1>0, <1>14 DEF Subscribed, InSession
  <2> QED BY <1>b, <1>e, <2>1
<1>15. CASE SubscribeRefused(p)
  BY <1>0, <1>a, <1>f, <1>15 DEF SubscribeRefused, Goto, mapvars, sessvars, wirevars, procvars, Calm, Desired,
     Restarts, Returns
<1>16. CASE Release(p)
  <2>0. UriOf[p] \in Uris /\ pc[p] = "release" /\ ops[s] = "free" /\ UNCHANGED <<sid, live, task, terr, at>> /\ p \in Jobs
    BY <1>0, <1>16, HttpAssumption DEF HttpAssumption, Release, InSession, wirevars
  <2>1. CASE subs[s][UriOf[p]] # 1
    <3>0. subs[s][UriOf[p]] \in Nat \ {0} BY <2>0, CountedOnes DEF Counting
    <3>1. subs' = [subs EXCEPT ![s][UriOf[p]] = subs[s][UriOf[p]] - 1] /\ pc' = [pc EXCEPT ![p] = "closed"]
      BY <2>1, <3>0, <1>16 DEF Release, Goto, IsLast, Dropped
    <3>2. \A u \in Uris : subs'[s][u] > 0 <=> subs[s][u] > 0
      <4>1. subs'[s] = [subs[s] EXCEPT ![UriOf[p]] = subs[s][UriOf[p]] - 1] /\ subs[s] \in [Uris -> Nat] BY <1>0, <3>1
      <4>2. subs'[s][UriOf[p]] > 0 /\ subs[s][UriOf[p]] > 0 BY <2>0, <2>1, <3>0, <4>1
      <4>3. \A u \in Uris : u # UriOf[p] => subs'[s][u] = subs[s][u] BY <4>1
      <4> QED BY <4>2, <4>3
    <3>3. Desired(s)' = Desired(s) BY <3>2 DEF Desired
    <3> QED BY <1>0, <1>f, <2>0, <3>1, <3>3 DEF Calm, Restarts
  <2>2. CASE subs[s][UriOf[p]] = 1 /\ Modern
    <3>1. pc' = [pc EXCEPT ![p] = "restart"] /\ rback' = [rback EXCEPT ![p] = "release"]
      BY <2>2, <1>16 DEF Release, Goto, IsLast
    <3>2. OnlyRestarter(p, s) BY <2>0, RestarterAlone
    <3>3. pc'[p] = "restart" /\ rback'[p] = "release" BY <1>0, <3>1
    <3> QED BY <1>b, <1>d, <2>0, <3>2, <3>3 DEF Restarts
  <2>3. CASE ~Modern BY <1>b, <1>e, <1>g, <2>0, <2>3 DEF Modern
  <2> QED BY <2>1, <2>2, <2>3
<1>17. CASE Unsubscribed(p)
  <2>1. era = "legacy" /\ UNCHANGED terr BY <1>0, <1>17 DEF Unsubscribed, InSession
  <2>2. Aborted(s) = {} BY <1>b DEF Aborted
  <2>3. live'[s] = {} \/ (live'[s] = live[s] /\ task'[s] = task[s]) BY <1>a, <2>2, <1>17 DEF Unsubscribed
  <2> QED BY <1>b, <1>e, <2>1, <2>3
<1>18. CASE Poll(p)
  <2>1. era = "modern" => sid[s] # 0
    BY <1>0, <1>18 DEF Poll, MakerInv, Making, Prelude, Restarts
  <2>2. terr'[s] = terr[s] /\ pc'[p] \in {"collect", "get_stream"} /\ pc[p] = "open" /\ UNCHANGED <<subs, sid, live, task>>
    BY <1>0, <1>a, <1>b, <2>1, <1>18 DEF Poll, Goto, Modern, sessvars
  <2> QED BY <1>f, <2>2 DEF Calm, Desired, Restarts
<1>19. CASE DrainLocks(p)
  BY <1>b, <1>19 DEF DrainLocks
<1>20. CASE GetStream(p)
  <2>1. era = "legacy" BY <1>0, <1>20 DEF GetStream, InSession
  <2>2. CASE UNCHANGED <<live, task, terr>> BY <1>b, <1>e, <2>1, <2>2
  <2>3. CASE ~\E r \in live[s] : r.id = task[s]
    <3>1. live[s] = {} BY <1>b, <2>3
    <3>2. ~terr'[s] /\ (live'[s] = {} \/ (live'[s] = {[id |-> next_id[s], filter |-> Uris, greeted |-> TRUE]} /\ task'[s] = next_id[s]))
      BY <1>a, <1>b, <2>3, <3>1, <1>20 DEF GetStream
    <3>3. (\A r1, r2 \in live'[s] : r1 = r2) /\ (\A r \in live'[s] : r.id = task'[s])
      <4> DEFINE g == [id |-> next_id[s], filter |-> Uris, greeted |-> TRUE]
      <4>1. g.id = next_id[s] OBVIOUS
      <4>2. live'[s] = {} \/ (live'[s] = {g} /\ task'[s] = next_id[s]) BY <3>2
      <4> HIDE DEF g
      <4> QED BY <4>1, <4>2
    <3> QED BY <1>e, <2>1, <3>2, <3>3
  <2> QED BY <2>2, <2>3, <1>20 DEF GetStream
<1>21. CASE Polled(p)
  BY <1>0, <1>a, <1>f, <1>21 DEF Polled, Goto, mapvars, sessvars, wirevars, procvars, Calm, Desired, Restarts, Returns
<1>22. CASE Emit(p)
  BY <1>0, <1>a, <1>f, <1>22 DEF Emit, Goto, mapvars, sessvars, wirevars, procvars, Calm, Desired, Restarts, Returns
<1>23. CASE Stop(p)
  BY <1>0, <1>a, <1>f, <1>23 DEF Stop, Goto, mapvars, sessvars, wirevars, procvars, Calm, Desired, Restarts, Returns
<1>24. CASE Call(p)
  BY <1>0, <1>a, <1>f, <1>24 DEF Call, Goto, mapvars, sessvars, wirevars, procvars, Calm, Desired, Restarts, Returns
<1>25. CASE EmitFailed(p)
  BY <1>0, <1>a, <1>f, <1>25 DEF EmitFailed, Goto, mapvars, sessvars, wirevars, procvars, Calm, Desired, Restarts, Returns
<1>26. CASE Leave(p)
  <2>1. pc[p] \notin Restarts BY <1>26 DEF Leave, Restarts
  <2>2. pc' = [pc EXCEPT ![p] = "closed"] /\ UNCHANGED <<subs, sid, live, task, terr, at>>
    BY <2>1, <1>26 DEF Leave, Goto, Restarts
  <2> QED BY <1>0, <1>f, <2>1, <2>2 DEF Calm, Desired
<1> QED
  BY <1>1, <1>2, <1>3, <1>4, <1>5, <1>6, <1>7, <1>8, <1>9, <1>10, <1>11, <1>12, <1>13, <1>14, <1>15, <1>16,
     <1>17, <1>18, <1>19, <1>20, <1>21, <1>22, <1>23, <1>24, <1>25, <1>26 DEF Moves, Step

\* A legacy server has been asked for what is subscribed to.
LEMMA ServerKept ==
    ASSUME HttpTypes, PlacesInv, CountInv, NEW p \in Procs, Moves(p), era = "legacy", NEW s \in Sessions, Desired(s) \subseteq server[s]
    PROVE  Desired(s)' \subseteq server'[s]
<1>1. CASE s # at[p]
  <2>1. SessionStays(s) BY <1>1, ElsewhereStays
  <2> QED BY <2>1 DEF SessionStays, Desired
<1>2. CASE s = at[p]
  <2>0. subs \in [Sessions -> [Uris -> Nat]] /\ server \in [Sessions -> SUBSET Uris] /\ InSession(p)
    BY DEF HttpTypes, SubTypes, StreamTypes, PlacesInv
  <2>a. p \in Jobs => UriOf[p] \in Uris BY HttpAssumption DEF HttpAssumption
  <2>1. CASE GetByLookupKey(p) BY <2>1 DEF GetByLookupKey, mapvars, sessvars, wirevars, procvars, Desired
  <2>2. CASE GetFromMap(p) BY <2>2 DEF GetFromMap, mapvars, sessvars, wirevars, procvars, Desired
  <2>3. CASE GetOrCreate(p) BY <2>3 DEF GetOrCreate, mapvars, sessvars, wirevars, procvars, Desired
  <2>4. CASE Connected(p) BY <2>4 DEF Connected, mapvars, sessvars, wirevars, procvars, Desired
  <2>5. CASE ConnectFailed(p) BY <2>5 DEF ConnectFailed, mapvars, sessvars, wirevars, procvars, Desired
  <2>6. CASE InsertSession(p) BY <2>6 DEF InsertSession, mapvars, sessvars, wirevars, procvars, Desired
  <2>7. CASE RestartBegin(p) BY <2>0, <2>7 DEF RestartBegin, InSession, Restarts
  <2>8. CASE RestartOpened(p) BY <2>0, <2>8 DEF RestartOpened, InSession, Restarts
  <2>9. CASE RestartRecorded(p) BY <2>0, <2>9 DEF RestartRecorded, InSession, Restarts
  <2>10. CASE RestartRefused(p) BY <2>0, <2>10 DEF RestartRefused, InSession, Restarts
  <2>11. CASE TakeStreamError(p) BY <2>11 DEF TakeStreamError, mapvars, sessvars, wirevars, procvars, Desired
  <2>12. CASE DrainBuffer(p) BY <2>12 DEF DrainBuffer, mapvars, sessvars, wirevars, procvars, Desired
  <2>13. CASE Ensure(p)
    <3>1. \A u \in Uris : subs'[s][u] > 0 => subs[s][u] > 0
      <4>1. p \in Jobs /\ UriOf[p] \in Uris /\ ~Modern BY <2>0, <2>a, <2>13 DEF Ensure, InSession, Modern
      <4> QED BY <1>2, <2>0, <4>1, <2>13 DEF Ensure
    <3>2. server' = server BY <2>13 DEF Ensure, wirevars
    <3> QED BY <3>1, <3>2 DEF Desired
  <2>14. CASE Subscribed(p)
    <3>1. p \in Jobs /\ UriOf[p] \in Uris BY <2>0, <2>a, <2>14 DEF Subscribed, InSession
    <3>2. server'[s] = server[s] \cup {UriOf[p]} /\ subs' = [subs EXCEPT ![s][UriOf[p]] = 1]
      BY <1>2, <2>0, <2>14 DEF Subscribed
    <3>3. \A u \in Uris : u # UriOf[p] => subs'[s][u] = subs[s][u] BY <2>0, <3>1, <3>2
    <3> QED BY <3>2, <3>3 DEF Desired
  <2>15. CASE SubscribeRefused(p) BY <2>15 DEF SubscribeRefused, mapvars, sessvars, wirevars, procvars, Desired
  <2>16. CASE Release(p)
    <3>1. \A u \in Uris : subs'[s][u] > 0 => subs[s][u] > 0
      <4>1. p \in Jobs /\ UriOf[p] \in Uris /\ subs[s][UriOf[p]] \in Nat BY <2>0, <2>a, <2>16 DEF Release, InSession
      <4>2. subs' = [subs EXCEPT ![s][UriOf[p]] = Dropped(subs[s][UriOf[p]])] BY <1>2, <2>16 DEF Release
      <4>3. Dropped(subs[s][UriOf[p]]) > 0 => subs[s][UriOf[p]] > 0 BY <4>1 DEF Dropped
      <4> QED BY <2>0, <4>1, <4>2, <4>3
    <3>2. server' = server BY <2>16 DEF Release, wirevars
    <3> QED BY <3>1, <3>2 DEF Desired
  <2>17. CASE Unsubscribed(p)
    <3>1. subs[s][UriOf[p]] = 0 /\ subs' = subs BY <1>2, <2>17 DEF Unsubscribed, CountInv, Alone
    <3>2. server'[s] = server[s] \/ server'[s] = server[s] \ {UriOf[p]} BY <1>2, <2>0, <2>17 DEF Unsubscribed
    <3> QED BY <3>1, <3>2 DEF Desired
  <2>18. CASE Poll(p) BY <2>18 DEF Poll, mapvars, sessvars, wirevars, procvars, Desired
  <2>19. CASE DrainLocks(p) BY <2>19 DEF DrainLocks, mapvars, sessvars, wirevars, procvars, Desired
  <2>20. CASE GetStream(p) BY <2>20 DEF GetStream, mapvars, sessvars, wirevars, procvars, Desired
  <2>21. CASE Polled(p) BY <2>21 DEF Polled, mapvars, sessvars, wirevars, procvars, Desired
  <2>22. CASE Emit(p) BY <2>22 DEF Emit, mapvars, sessvars, wirevars, procvars, Desired
  <2>23. CASE Stop(p) BY <2>23 DEF Stop, mapvars, sessvars, wirevars, procvars, Desired
  <2>24. CASE Call(p) BY <2>24 DEF Call, mapvars, sessvars, wirevars, procvars, Desired
  <2>25. CASE EmitFailed(p) BY <2>25 DEF EmitFailed, mapvars, sessvars, wirevars, procvars, Desired
  <2>26. CASE Leave(p)
    <3>1. subs' = subs BY <2>26 DEF Leave
    <3>2. \/ server[s] \subseteq server'[s]
          \/ pc[p] = "unsubscribe" /\ server'[s] = server[s] \ {UriOf[p]}
      BY <1>2, <2>0, <2>26 DEF Leave
    <3>3. pc[p] = "unsubscribe" => subs[s][UriOf[p]] = 0 BY <1>2 DEF CountInv, Alone
    <3> QED BY <3>1, <3>2, <3>3 DEF Desired
  <2> QED
    BY <2>1, <2>2, <2>3, <2>4, <2>5, <2>6, <2>7, <2>8, <2>9, <2>10, <2>11, <2>12, <2>13, <2>14, <2>15, <2>16,
       <2>17, <2>18, <2>19, <2>20, <2>21, <2>22, <2>23, <2>24, <2>25, <2>26 DEF Moves, Step
<1> QED BY <1>1, <1>2

\* A session that was not hurt keeps one reader, which covers what is subscribed to unless a restart is under way.
LEMMA StreamInvKept ==
    ASSUME HttpTypes, PlacesInv, MutexInv, CountInv, MakerInv, StreamInv, [Next]_vars
    PROVE  StreamInv'
<1>1. CASE Quiet
  <2>1. UNCHANGED <<era, pc, at, rback, rid, rfilter, sid, subs, task, server>> BY <1>1 DEF Quiet, procvars, sessvars
  <2>2. \A s \in Sessions : Desired(s)' = Desired(s) BY <2>1 DEF Desired
  <2>3. ASSUME NEW s \in Sessions, s \notin hurt' PROVE Unhurt(s)'
    <3>1. Unhurt(s) /\ s \notin hurt BY <1>1, <2>3 DEF Quiet, Acknowledge, Break, StreamInv
    <3>0. live \in [Sessions -> SUBSET HttpReaders] /\ terr \in [Sessions -> BOOLEAN]
      BY DEF HttpTypes, StreamTypes, ErrorTypes
    <3>2. CASE live'[s] = live[s] /\ terr'[s] = terr[s] BY <2>1, <2>2, <3>1, <3>2 DEF Unhurt
    <3>3. ASSUME NEW r \in live[s], live'[s] = (live[s] \ {r}) \cup {[r EXCEPT !.greeted = TRUE]}, terr' = terr PROVE Unhurt(s)'
      <4>1. live[s] = {r} BY <3>1, <3>3 DEF Unhurt
      <4>2. r \in HttpReaders BY <3>0, <3>3
      <4> DEFINE g == [r EXCEPT !.greeted = TRUE]
      <4>3. g.id = r.id /\ g.filter = r.filter BY <4>2 DEF HttpReaders
      <4>4. live'[s] = {g} BY <3>3, <4>1
      <4> HIDE DEF g
      <4>5. ~terr'[s] /\ (\A r1, r2 \in live'[s] : r1 = r2) /\ (\A x \in live'[s] : x.id = task'[s])
        BY <2>1, <3>1, <3>3, <4>3, <4>4 DEF Unhurt
      <4>6. ASSUME NEW q \in Procs, at'[q] = s
            PROVE  /\ pc'[q] # "drain"
                   /\ pc'[q] \in Restarts => rback'[q] \in {"insert", "ensure", "release"}
                   /\ pc'[q] = "restart_post" => live'[s] = {} /\ rfilter'[q] = Desired(s)'
                   /\ pc'[q] = "restart_set" => \E x \in live'[s] : x.id = rid'[q] /\ x.filter = Desired(s)'
        BY <2>1, <2>2, <3>1, <4>1, <4>3, <4>4, <4>6 DEF Unhurt
      <4>7. ASSUME era' = "modern", sid'[s] # 0, \A q \in Procs : at'[q] = s => pc'[q] \notin Restarts
            PROVE  \E x \in live'[s] : x.id = sid'[s] /\ x.filter = Desired(s)'
        BY <2>1, <2>2, <3>1, <4>1, <4>3, <4>4, <4>7 DEF Unhurt
      <4> QED BY <4>5, <4>6, <4>7 DEF Unhurt
    <3>4. CASE UNCHANGED <<live, terr, hurt>> BY <3>2, <3>4
    <3>5. ASSUME NEW t \in Sessions, NEW r \in live[t], Acknowledge(t, r) PROVE Unhurt(s)'
      <4>1. live' = [live EXCEPT ![t] = (live[t] \ {r}) \cup {[r EXCEPT !.greeted = TRUE]}] /\ terr' = terr
        BY <3>5 DEF Acknowledge
      <4>2. CASE s = t BY <3>0, <3>3, <3>5, <4>1, <4>2
      <4>3. CASE s # t BY <3>0, <3>2, <4>1, <4>3
      <4> QED BY <4>2, <4>3
    <3>6. ASSUME NEW t \in Sessions, NEW r \in live[t], Break(t, r) PROVE Unhurt(s)'
      <4>1. s # t BY <2>3, <3>6 DEF Break
      <4> QED BY <3>0, <3>2, <3>6, <4>1 DEF Break
    <3> QED BY <1>1, <3>4, <3>5, <3>6 DEF Quiet
  <2> QED BY <2>1, <2>2, <2>3 DEF StreamInv
<1>2. ASSUME NEW p \in Procs, Moves(p) PROVE StreamInv'
  <2>1. ASSUME NEW s \in Sessions, s \notin hurt' PROVE Unhurt(s)'
    <3>1. s \notin hurt /\ Unhurt(s) BY <1>2, <2>1, MoverMakes DEF MakeStep, StreamInv
    <3>2. CASE s = at[p] BY <1>2, <2>1, <3>1, <3>2, StreamAtHome
    <3>3. CASE s # at[p] BY <1>2, <3>1, <3>3, CalmElsewhere, CalmSession
    <3> QED BY <3>2, <3>3
  <2>2. era' = era BY <1>2, EraStays
  <2>3. ASSUME era = "legacy", NEW s \in Sessions PROVE Desired(s)' \subseteq server'[s]
    BY <1>2, <2>3, ServerKept DEF StreamInv
  <2> QED BY <2>1, <2>2, <2>3 DEF StreamInv
<1> QED BY <1>1, <1>2, QuietOrMoves

-----------------------------------------------------------------------------
(* What a subscriber's cursor has passed. *)

FanStep(p) ==
  /\ UNCHANGED <<cursor, todo, seen>>
  /\ Tracked(p)' => (Tracked(p) /\ at'[p] = at[p]) \/ Fresh(p)
  /\ Fresh(p)' => Fresh(p)
  /\ Waits(p)' => Waits(p) \/ Fresh(p)

\* Whoever neither polls nor emits keeps its cursor and its queue, and starts to follow with nothing behind it.
LEMMA MoverFollows ==
    ASSUME HttpTypes, PlacesInv, NEW p \in Jobs, Moves(p)
    PROVE  Polled(p) \/ Emit(p) \/ FanStep(p)
<1> USE DEF FanStep, Tracked, Fresh, Waits, Counting, Restarts, Prelude, Collecting
<1>0. p \in Procs /\ InSession(p) /\ Returns(p) /\ pc \in [Procs -> HttpPlaces] /\ at \in [Procs -> 0 .. made]
      /\ rback \in [Procs -> {"", "insert", "ensure", "release", "drain", "collect"}]
      /\ cback \in [Procs -> {"", "open", "closed", "polled", "emit"}]
  BY DEF Procs, HttpTypes, MapTypes, PlaceTypes, PlacesInv
<1>1. CASE GetByLookupKey(p)
  BY <1>0, <1>1 DEF GetByLookupKey, Goto, mapvars, sessvars, wirevars, procvars, InSession, Returns
<1>2. CASE GetFromMap(p)
  BY <1>0, <1>2 DEF GetFromMap, Acquired, Goto, mapvars, sessvars, wirevars, procvars, InSession, Returns
<1>3. CASE GetOrCreate(p)
  BY <1>0, <1>3 DEF GetOrCreate, Acquired, Goto, mapvars, sessvars, wirevars, procvars, InSession, Returns
<1>4. CASE Connected(p)
  BY <1>0, <1>4 DEF Connected, Modern, Goto, mapvars, sessvars, wirevars, procvars, InSession, Returns
<1>5. CASE ConnectFailed(p)
  BY <1>0, <1>5 DEF ConnectFailed, Goto, mapvars, sessvars, wirevars, procvars, InSession, Returns
<1>6. CASE InsertSession(p)
  BY <1>0, <1>6 DEF InsertSession, Acquired, Goto, mapvars, sessvars, wirevars, procvars, InSession, Returns
<1>7. CASE RestartBegin(p)
  BY <1>0, <1>7 DEF RestartBegin, Goto, mapvars, sessvars, wirevars, procvars, InSession, Returns
<1>8. CASE RestartOpened(p)
  BY <1>0, <1>8 DEF RestartOpened, Goto, mapvars, sessvars, wirevars, procvars, InSession, Returns
<1>9. CASE RestartRecorded(p)
  BY <1>0, <1>9 DEF RestartRecorded, Goto, mapvars, sessvars, wirevars, procvars, InSession, Returns
<1>10. CASE RestartRefused(p)
  BY <1>0, <1>10 DEF RestartRefused, Goto, mapvars, sessvars, wirevars, procvars, InSession, Returns
<1>11. CASE TakeStreamError(p)
  BY <1>0, <1>11 DEF TakeStreamError, Modern, CollectReopens, Goto, mapvars, sessvars, wirevars, procvars, InSession,
     Returns
<1>12. CASE DrainBuffer(p)
  BY <1>0, <1>12 DEF DrainBuffer, Goto, mapvars, sessvars, wirevars, procvars, InSession, Returns
<1>13. CASE Ensure(p)
  BY <1>0, <1>13 DEF Ensure, Modern, Goto, mapvars, sessvars, wirevars, procvars, InSession, Returns
<1>14. CASE Subscribed(p)
  BY <1>0, <1>14 DEF Subscribed, Goto, mapvars, sessvars, wirevars, procvars, InSession, Returns
<1>15. CASE SubscribeRefused(p)
  BY <1>0, <1>15 DEF SubscribeRefused, Goto, mapvars, sessvars, wirevars, procvars, InSession, Returns
<1>16. CASE Release(p)
  BY <1>0, <1>16 DEF Release, Modern, IsLast, Goto, mapvars, sessvars, wirevars, procvars, InSession, Returns
<1>17. CASE Unsubscribed(p)
  BY <1>0, <1>17 DEF Unsubscribed, Goto, mapvars, sessvars, wirevars, procvars, InSession, Returns
<1>18. CASE Poll(p)
  BY <1>0, <1>18 DEF Poll, Modern, Goto, mapvars, sessvars, wirevars, procvars, InSession, Returns
<1>19. CASE DrainLocks(p)
  BY <1>0, <1>19 DEF DrainLocks, Goto, mapvars, sessvars, wirevars, procvars, InSession, Returns
<1>20. CASE GetStream(p)
  BY <1>0, <1>20 DEF GetStream, Goto, mapvars, sessvars, wirevars, procvars, InSession, Returns
<1>21. CASE Stop(p)
  BY <1>0, <1>21 DEF Stop, Goto, mapvars, sessvars, wirevars, procvars, InSession, Returns
<1>22. CASE Call(p)
  BY <1>0, <1>22 DEF Call, Goto, mapvars, sessvars, wirevars, procvars, InSession, Returns
<1>23. CASE EmitFailed(p)
  BY <1>0, <1>23 DEF EmitFailed, Goto, mapvars, sessvars, wirevars, procvars, InSession, Returns
<1>24. CASE Leave(p)
  BY <1>0, <1>24 DEF Leave, Goto
<1> QED
  BY <1>1, <1>2, <1>3, <1>4, <1>5, <1>6, <1>7, <1>8, <1>9, <1>10, <1>11, <1>12, <1>13, <1>14, <1>15, <1>16,
     <1>17, <1>18, <1>19, <1>20, <1>21, <1>22, <1>23, <1>24 DEF Moves, Step

\* A poll takes all that the ring still has behind the cursor.
LEMMA PolledFollows ==
    ASSUME HttpTypes, PlacesInv, FanInv, NEW p \in Jobs, Polled(p)
    PROVE  Follows(p)'
<1>0. p \in Procs /\ pc \in [Procs -> HttpPlaces] /\ DOMAIN cursor = Procs /\ DOMAIN todo = Procs /\ cursor[p] \in Nat
  BY DEF Procs, HttpTypes, PlaceTypes, JobTypes
<1> DEFINE f == fan[at[p]]
           t == Since(f, cursor[p])
<1>1. at[p] \in Sessions BY <1>0, SessionOf DEF Polled, HttpTypes, PlacesInv, InSession, Prelude
<1>2. f \in HttpFans /\ Ring(f) BY <1>1 DEF HttpTypes, RingTypes, FanInv
<1>3. f.next \in Nat /\ f.items \in Seq(HttpEntries) /\ Len(f.items) \in Nat BY <1>2 DEF HttpFans
<1>4. /\ t \in Seq(HttpEntries)
      /\ \A i \in 1 .. Len(f.items) : f.items[i].seq > cursor[p] => \E k \in 1 .. Len(t) : t[k] = f.items[i]
  BY <1>0, <1>3, SinceHas DEF Since
<1>5. todo[p] = <<>> /\ Gapless(p) BY DEF Polled, FanInv, Follows, Waits, Tracked, Counting
<1>6. cursor'[p] = f.next /\ fan' = fan /\ at' = at /\ seen' = seen BY <1>0 DEF Polled, sessvars
<1>7. CASE f.err
  <2>1. pc'[p] = "release" BY <1>0, <1>7 DEF Polled, Goto
  <2> QED BY <2>1 DEF Follows, Tracked, Fresh, Waits, Prelude, Restarts, Collecting
<1>8. CASE ~f.err
  <2>1. pc'[p] = "emit" /\ todo'[p] = t BY <1>0, <1>8 DEF Polled, Goto
  <2>2. ASSUME NEW q \in 1 .. f.next, ~(q <= f.next - Len(f.items)) PROVE q \in seen[p] \/ \E k \in 1 .. Len(t) : t[k].seq = q
    <3>1. CASE q <= cursor[p]
      <4>1. q \in 1 .. cursor[p] BY <1>0, <1>3, <2>2, <3>1
      <4>2. q \notin Queued(p) BY <1>5 DEF Queued
      <4> QED BY <1>5, <2>2, <4>1, <4>2 DEF Gapless
    <3>2. CASE q > cursor[p]
      <4> DEFINE i == q - (f.next - Len(f.items))
      <4>0. ASSUME NEW n \in Nat, NEW m \in Nat, NEW x \in 1 .. n, ~(x <= n - m)
            PROVE  x - (n - m) \in 1 .. m /\ n - m + (x - (n - m)) = x
        BY <4>0
      <4>1. i \in 1 .. Len(f.items) /\ f.next - Len(f.items) + i = q BY <1>3, <2>2, <4>0
      <4>2. f.items[i].seq = q BY <1>2, <4>1 DEF Ring
      <4> QED BY <1>4, <3>2, <4>1, <4>2
    <3> QED BY <1>0, <1>3, <3>1, <3>2
  <2>3. ASSUME NEW q \in 1 .. f.next PROVE q \in seen'[p] \cup Queued(p)' \/ q <= f.next - Len(f.items)
    BY <1>6, <2>1, <2>2 DEF Queued
  <2>4. Gapless(p)' BY <1>6, <2>3 DEF Gapless
  <2> QED BY <2>1, <2>4 DEF Follows, Fresh, Waits, Prelude, Restarts, Collecting
<1> QED BY <1>7, <1>8

\* An entry leaves the queue when it has been emitted.
LEMMA EmitFollows ==
    ASSUME HttpTypes, PlacesInv, FanInv, NEW p \in Jobs, Emit(p)
    PROVE  Follows(p)'
<1>0. p \in Procs /\ pc \in [Procs -> HttpPlaces] /\ DOMAIN todo = Procs /\ DOMAIN seen = Procs /\ DOMAIN cback = Procs /\ todo[p] \in Seq(HttpEntries)
  BY DEF Procs, HttpTypes, PlaceTypes, JobTypes
<1>1. Gapless(p) /\ pc[p] = "emit" /\ UNCHANGED <<cursor, fan, at, rback>>
  BY DEF Emit, FanInv, Follows, Tracked, Counting, sessvars
<1>2. CASE todo[p] = <<>>
  <2>1. UNCHANGED <<seen, todo>> /\ pc'[p] = "open" BY <1>0, <1>2 DEF Emit, Goto
  <2>2. Gapless(p)' BY <1>1, <2>1 DEF Gapless, Queued
  <2> QED BY <1>2, <2>1, <2>2 DEF Follows, Fresh, Prelude, Restarts
<1>3. CASE todo[p] # <<>>
  <2>1. /\ seen'[p] = seen[p] \cup {Head(todo[p]).seq} /\ todo'[p] = Tail(todo[p])
        /\ pc'[p] \in {"collect", "emit"} /\ cback'[p] = "emit"
    BY <1>0, <1>3 DEF Emit, Goto
  <2>2. ASSUME NEW i \in 1 .. Len(todo[p]) PROVE todo[p][i].seq \in seen'[p] \cup Queued(p)'
    <3>1. CASE i = 1 BY <2>1, <3>1
    <3>2. CASE i # 1
      <4>1. i - 1 \in 1 .. Len(Tail(todo[p])) /\ Tail(todo[p])[i - 1] = todo[p][i] BY <1>0, <1>3, <3>2
      <4> QED BY <2>1, <4>1 DEF Queued
    <3> QED BY <3>1, <3>2
  <2>3. Gapless(p)' BY <1>1, <2>1, <2>2 DEF Gapless, Queued
  <2> QED BY <2>1, <2>3 DEF Follows, Fresh, Waits, Prelude, Restarts, Collecting
<1> QED BY <1>2, <1>3

\* What a cursor has passed was emitted, is queued or is forgotten.
LEMMA FansKept ==
    ASSUME HttpTypes, PlacesInv, FanInv, [Next]_vars
    PROVE  FanInv'
<1>1. \A s \in Sessions : Ring(fan[s])' /\ Forgotten(s) <= Forgotten(s)' BY RingsKept DEF FanInv
<1>2. \A s \in Sessions : Forgotten(s) \in Int /\ Forgotten(s)' \in Int
  <2>1. RingTypes /\ RingTypes' BY RingsKept DEF FanInv, HttpTypes
  <2> QED BY <2>1 DEF RingTypes, HttpFans, Forgotten
<1>3. ASSUME NEW j \in Jobs, UNCHANGED <<pc[j], at[j], cback[j], rback[j], cursor[j], todo[j], seen[j]>> PROVE Follows(j)'
  <2>0. Follows(j) /\ j \in Procs BY DEF FanInv, Procs
  <2>1. (Tracked(j)' <=> Tracked(j)) /\ (Fresh(j)' <=> Fresh(j)) /\ (Waits(j)' <=> Waits(j))
    BY <1>3 DEF Tracked, Counting, Fresh, Waits
  <2>2. ASSUME Tracked(j), Gapless(j) PROVE Gapless(j)'
    <3>1. at[j] \in Sessions
      BY <2>0, <2>2, SessionOf DEF Tracked, Counting, HttpTypes, PlacesInv, InSession, Prelude, Restarts,
         Collecting
    <3>2. cursor[j] \in Nat BY <2>0 DEF HttpTypes, JobTypes
    <3>3. Queued(j)' = Queued(j) BY <1>3 DEF Queued
    <3>4. Forgotten(at[j]) <= Forgotten(at[j])' /\ Forgotten(at[j]) \in Int /\ Forgotten(at[j])' \in Int
      BY <1>1, <1>2, <1>3, <3>1
    <3>5. Gapless(j)' <=> \A q \in 1 .. cursor[j] : q \in seen[j] \cup Queued(j) \/ q <= Forgotten(at[j])'
      BY <1>3, <3>3 DEF Gapless, Forgotten
    <3>6. Gapless(j) <=> \A q \in 1 .. cursor[j] : q \in seen[j] \cup Queued(j) \/ q <= Forgotten(at[j])
      BY DEF Gapless, Forgotten
    <3> QED BY <2>2, <3>2, <3>4, <3>5, <3>6
  <2> QED BY <1>3, <2>0, <2>1, <2>2 DEF Follows
<1>4. CASE Quiet
  <2>1. UNCHANGED <<pc, at, cback, rback, cursor, todo, seen>> BY <1>4 DEF Quiet, procvars
  <2> QED BY <1>1, <1>3, <2>1 DEF FanInv
<1>5. ASSUME NEW p \in Procs, Moves(p) PROVE FanInv'
  <2>1. ASSUME NEW j \in Jobs PROVE Follows(j)'
    <3>1. CASE j # p
      <4>1. Stays(j) BY <1>5, <3>1, OthersStay DEF Procs
      <4> QED BY <1>3, <4>1 DEF Stays
    <3>2. CASE j = p /\ Polled(p) BY <3>2, PolledFollows
    <3>3. CASE j = p /\ Emit(p) BY <3>3, EmitFollows
    <3>4. CASE j = p /\ FanStep(p)
      <4>1. Follows(j) /\ UNCHANGED <<cursor, todo, seen>> BY <3>4 DEF FanInv, FanStep
      <4>2. ASSUME Tracked(j)' PROVE Gapless(j)'
        <5>1. CASE Fresh(j)
          <6>1. cursor'[j] = 0 BY <4>1, <5>1 DEF Follows
          <6> QED BY <6>1 DEF Gapless
        <5>2. CASE Tracked(j) /\ at'[j] = at[j]
          <6>1. at[j] \in Sessions
            BY <1>5, <3>4, <5>2, SessionOf DEF Tracked, Counting, HttpTypes, PlacesInv, InSession, Prelude,
               Restarts, Collecting
          <6>2. cursor[j] \in Nat BY <1>5, <3>4 DEF HttpTypes, JobTypes
          <6>3. Queued(j)' = Queued(j) BY <4>1 DEF Queued
          <6>4. Forgotten(at[j]) <= Forgotten(at[j])' /\ Forgotten(at[j]) \in Int /\ Forgotten(at[j])' \in Int
            BY <1>1, <1>2, <5>2, <6>1
          <6>5. Gapless(j)' <=> \A q \in 1 .. cursor[j] : q \in seen[j] \cup Queued(j) \/ q <= Forgotten(at[j])'
            BY <4>1, <6>3 DEF Gapless, Forgotten
          <6>6. Gapless(j) <=> \A q \in 1 .. cursor[j] : q \in seen[j] \cup Queued(j) \/ q <= Forgotten(at[j])
            BY DEF Gapless, Forgotten
          <6>7. Gapless(j) BY <4>1, <5>2 DEF Follows
          <6> QED BY <6>2, <6>4, <6>5, <6>6, <6>7
        <5> QED BY <3>4, <4>2, <5>1, <5>2 DEF FanStep
      <4> QED BY <3>4, <4>1, <4>2 DEF Follows, FanStep
    <3> QED BY <1>5, <3>1, <3>2, <3>3, <3>4, MoverFollows
  <2> QED BY <1>1, <2>1 DEF FanInv
<1> QED BY <1>4, <1>5, QuietOrMoves

-----------------------------------------------------------------------------
(* What the jobs and calls may rely on. *)

SessionsInv == HttpTypes /\ PlacesInv /\ MutexInv /\ CountInv /\ MakerInv /\ StreamInv /\ FanInv

\* Every step of the sessions preserves the invariant.
LEMMA SessionsNextPreserves == SessionsInv /\ [Next]_vars => SessionsInv'
<1> SUFFICES ASSUME SessionsInv, [Next]_vars PROVE SessionsInv' OBVIOUS
<1>0. HttpTypes /\ PlacesInv /\ MutexInv /\ CountInv /\ MakerInv /\ StreamInv /\ FanInv BY DEF SessionsInv
<1>1. \A s \in Sessions : Ring(fan[s]) BY <1>0 DEF FanInv
<1>2. HttpTypes' BY <1>0, <1>1, HttpTypesKept
<1>3. PlacesInv' BY <1>0, PlacesKept
<1>4. MutexInv' BY <1>0, MutexKept
<1>5. CountInv' BY <1>0, CountsKept
<1>6. MakerInv' BY <1>0, MakersKept
<1>7. StreamInv' BY <1>0, StreamInvKept
<1>8. FanInv' BY <1>0, FansKept
<1> QED BY <1>2, <1>3, <1>4, <1>5, <1>6, <1>7, <1>8 DEF SessionsInv

\* The invariant holds at the start.
LEMMA SessionsInitEstablishes == Init => SessionsInv
<1> SUFFICES ASSUME Init PROVE SessionsInv OBVIOUS
<1>0. pc \in [Procs -> {"lookup", "closed"}]
  <2>1. PICK on \in Casts : pc = [p \in Procs |-> IF p \in on THEN "lookup" ELSE "closed"] BY DEF Init
  <2> QED BY <2>1
<1>a. MaxSessions \in Nat /\ Eras \subseteq {"modern", "legacy"} /\ "free" \notin Procs /\ Jobs \subseteq Procs /\ IsFiniteSet(Jobs)
  BY HttpAssumption DEF HttpAssumption, Procs
<1>b. era \in Eras /\ http = 0 /\ made = 0 /\ at = [p \in Procs |-> 0] /\ hurt = {} /\ leaked = {} BY DEF Init
<1>c. subs = [s \in Sessions |-> NoSubs] /\ ops = [s \in Sessions |-> "free"] BY DEF Init
<1>d. /\ sid = [s \in Sessions |-> 0] /\ next_id = [s \in Sessions |-> 1] /\ task = [s \in Sessions |-> 0]
      /\ live = [s \in Sessions |-> {}] /\ server = [s \in Sessions |-> {}] /\ terr = [s \in Sessions |-> FALSE]
  BY DEF Init
<1>e. /\ fan = [s \in Sessions |-> [next |-> 0, items |-> <<>>, err |-> FALSE]]
      /\ buf = [s \in Sessions |-> <<>>] /\ ack = [s \in Sessions |-> FALSE]
  BY DEF Init
<1>f. cursor = [p \in Procs |-> 0] /\ todo = [p \in Procs |-> <<>>] /\ seen = [p \in Procs |-> {}] BY DEF Init
<1>g. /\ rfilter = [p \in Procs |-> {}] /\ rid = [p \in Procs |-> 0] /\ rback = [p \in Procs |-> ""]
      /\ cback = [p \in Procs |-> ""]
  BY DEF Init
<1>1. HttpTypes
  <2>1. MapTypes BY <1>a, <1>b DEF MapTypes
  <2>2. SubTypes
    <3>1. NoSubs \in [Uris -> Nat] BY DEF NoSubs
    <3> QED BY <1>c, <3>1 DEF SubTypes
  <2>3. StreamTypes /\ ErrorTypes BY <1>b, <1>d DEF StreamTypes, ErrorTypes
  <2>4. RingTypes
    <3>1. <<>> \in Seq(HttpEntries) OBVIOUS
    <3>2. [next |-> 0, items |-> <<>>, err |-> FALSE] \in HttpFans BY <3>1 DEF HttpFans
    <3> QED BY <1>e, <3>2 DEF RingTypes
  <2>5. NoteTypes
    <3>1. <<>> \in Seq(HttpNotes) OBVIOUS
    <3> QED BY <1>e, <3>1 DEF NoteTypes
  <2>6. JobTypes
    <3>1. <<>> \in Seq(HttpEntries) OBVIOUS
    <3> QED BY <1>f, <3>1 DEF JobTypes
  <2>7. PlaceTypes
    <3>1. pc \in [Procs -> HttpPlaces] BY <1>0 DEF HttpPlaces, Prelude
    <3> QED BY <1>g, <3>1 DEF PlaceTypes
  <2> QED BY <2>1, <2>2, <2>3, <2>4, <2>5, <2>6, <2>7 DEF HttpTypes
<1>2. PlacesInv
  BY <1>0, <1>b, <1>g DEF PlacesInv, InSession, Returns, Prelude, Restarts, Collecting
<1>3. MutexInv
  BY <1>0, <1>a, <1>c DEF MutexInv, Locked, Restarts, Collecting
<1>4. CountInv
  <2>1. ASSUME NEW s \in Sessions, NEW u \in Uris PROVE CountsAll(s, u)
    <3>1. Holders(s, u) = {} BY <1>0, <1>a DEF Holders, Sessions, Counting, Restarts, Collecting
    <3> QED BY <1>c, <3>1, FS_EmptySet DEF NoSubs, CountsAll
  <2>2. \A p \in Procs : Alone(p) BY <1>0 DEF Alone, Restarts
  <2> QED BY <2>1, <2>2 DEF CountInv
<1>5. MakerInv BY <1>0, <1>b, <1>d DEF MakerInv, Making, Prelude, Restarts
<1>6. StreamInv
  <2>1. \A s \in Sessions : Unhurt(s) BY <1>0, <1>d DEF Unhurt, Restarts
  <2>2. \A s \in Sessions : Desired(s) = {} BY <1>c DEF Desired, NoSubs
  <2> QED BY <2>1, <2>2 DEF StreamInv
<1>7. FanInv
  <2>1. \A s \in Sessions : Ring(fan[s])
    <3>1. Ring([next |-> 0, items |-> <<>>, err |-> FALSE])
      <4>1. Len(<<>>) = 0 OBVIOUS
      <4> QED BY <4>1 DEF Ring
    <3> QED BY <1>e, <3>1
  <2>2. \A j \in Jobs : Follows(j) BY <1>0, <1>a, <1>f DEF Follows, Tracked, Counting, Waits, Restarts, Collecting
  <2> QED BY <2>1, <2>2 DEF FanInv
<1> QED BY <1>1, <1>2, <1>3, <1>4, <1>5, <1>6, <1>7 DEF SessionsInv

\* A job that holds its subscription counts, and has found its session.
LEMMA HoldersCounted ==
    ASSUME NEW s, NEW j \in Holding(s)
    PROVE  j \in Jobs /\ at[j] = s /\ Counting(j) /\ pc[j] # "release" /\ ~Making(j) /\ Located(j)
BY DEF Holding, Counting, Making, Located, Restarts, Collecting, Prelude

\* The invariant covers every resource that a job is subscribed to.
LEMMA WatchedServed == SessionsInv => SubscribedWhileOpen
<1> SUFFICES ASSUME SessionsInv, NEW s \in Sessions, s \notin hurt, Watched(s) # {}, ~Restarting(s) PROVE Served(s)
  BY DEF SubscribedWhileOpen
<1>0. HttpTypes /\ PlacesInv /\ CountInv /\ MakerInv /\ StreamInv BY DEF SessionsInv
<1>1. Watched(s) \subseteq Desired(s)
  <2>1. SUFFICES ASSUME NEW j \in Holding(s) PROVE UriOf[j] \in Desired(s) BY DEF Watched
  <2>2. j \in Jobs /\ at[j] = s /\ Counting(j) BY HoldersCounted
  <2>3. UriOf[j] \in Uris /\ subs[s][UriOf[j]] \in Nat \ {0} BY <1>0, <2>2, CountedOnes
  <2> QED BY <2>3 DEF Desired
<1>2. CASE Modern
  <2>1. PICK j \in Holding(s) : TRUE BY DEF Watched
  <2>2. j \in Procs /\ at[j] = s /\ ~Making(j) /\ Located(j) BY HoldersCounted DEF Procs
  <2>3. sid[s] # 0 BY <1>0, <1>2, <2>2 DEF MakerInv, Located, Modern
  <2>4. \A p \in Procs : at[p] = s => pc[p] \notin Restarts BY DEF Restarting, Restarts
  <2>5. Unhurt(s) BY <1>0 DEF StreamInv
  <2>6. PICK r \in live[s] : r.id = sid[s] /\ r.filter = Desired(s) BY <1>2, <2>3, <2>4, <2>5 DEF Unhurt, Modern
  <2> QED BY <1>1, <1>2, <2>6 DEF Served
<1>3. CASE ~Modern
  <2>1. era = "legacy" BY <1>0, <1>3 DEF Modern, HttpTypes, MapTypes
  <2> QED BY <1>0, <1>1, <1>3, <2>1 DEF Served, StreamInv
<1> QED BY <1>2, <1>3

\* The invariant leaves one reader per session that was not hurt.
LEMMA ReaderAlone == SessionsInv => OneReader
<1> SUFFICES ASSUME SessionsInv, NEW s \in Sessions, s \notin hurt PROVE Cardinality(live[s]) <= 1
  BY DEF OneReader
<1>1. \A r1, r2 \in live[s] : r1 = r2 BY DEF SessionsInv, StreamInv, Unhurt
<1>2. CASE live[s] = {}
  <2>1. Cardinality(live[s]) = 0 BY <1>2, FS_EmptySet
  <2> QED BY <2>1
<1>3. CASE live[s] # {}
  <2>1. PICK r : live[s] = {r} BY <1>1, <1>3
  <2>2. Cardinality(live[s]) = 1 BY <2>1, FS_Singleton
  <2> QED BY <2>2
<1> QED BY <1>2, <1>3

\* The invariant leaves no gap but what is forgotten.
LEMMA GapsForgotten == SessionsInv => NoSilentGap
<1> SUFFICES ASSUME SessionsInv, NEW j \in Jobs, j \in Holding(at[j]), NEW q \in 1 .. cursor[j]
    PROVE q \in seen[j] \cup {todo[j][i].seq : i \in DOMAIN todo[j]} \/ q <= fan[at[j]].next - Len(fan[at[j]].items)
  BY DEF NoSilentGap
<1>1. Tracked(j) BY HoldersCounted DEF Tracked
<1>2. Gapless(j) BY <1>1 DEF SessionsInv, FanInv, Follows
<1>3. todo[j] \in Seq(HttpEntries) BY DEF SessionsInv, HttpTypes, JobTypes, Procs
<1>4. DOMAIN todo[j] = 1 .. Len(todo[j]) BY <1>3
<1> QED BY <1>2, <1>4 DEF Gapless, Queued

\* The invariant makes a session's counts those of its holders, and of those who left.
LEMMA CountsTrue == SessionsInv => CountsHolders
BY DEF SessionsInv, CountInv, CountsAll, Holders, CountsHolders

\* The invariant keeps the mutex with somebody who can move.
LEMMA HoldersMove == SessionsInv => HolderMoves
<1> SUFFICES ASSUME SessionsInv, NEW s \in Sessions, ops[s] # "free"
    PROVE at[ops[s]] = s /\ pc[ops[s]] \notin {"ensure", "release", "drain", "open", "polled", "emit", "closed"}
  BY DEF HolderMoves
<1>1. ops[s] \in Procs BY DEF SessionsInv, HttpTypes, SubTypes
<1>2. at[ops[s]] = s /\ Locked(ops[s]) BY <1>1 DEF SessionsInv, MutexInv
<1> QED BY <1>2 DEF Locked, Restarts, Collecting

\* The invariant says all that jobs and calls may rely on.
LEMMA SessionsInvIsTrue == SessionsInv => SessionsAreTrue
BY WatchedServed, ReaderAlone, GapsForgotten, CountsTrue, HoldersMove DEF SessionsAreTrue

\* SessionsAreTrue holds of the sessions of an endpoint, however many jobs and
\* calls share them and whenever a job is aborted: whatever is subscribed to stays
\* covered, by one reader, while no stream breaks or is given up halfway; no
\* notification is skipped that the history still had; counts are those of the
\* holders and of jobs that were aborted before they could release; and the ops mutex never waits for its holder
\* (McpHttpSession, daemon.rs; McpHttpTransport, http_transport.rs).
THEOREM SessionsTrue == HttpSpec => []SessionsAreTrue
<1>1. Init => SessionsInv BY SessionsInitEstablishes
<1>2. SessionsInv /\ [Next]_vars => SessionsInv' BY SessionsNextPreserves
<1>3. SessionsInv => SessionsAreTrue BY SessionsInvIsTrue
<1> QED BY <1>1, <1>2, <1>3, PTL DEF HttpSpec

=============================================================================
