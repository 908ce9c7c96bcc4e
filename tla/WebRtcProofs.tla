---------------------------- MODULE WebRtcProofs ----------------------------
(***************************************************************************)
(* Proofs about WebRTC transports.  The tables of a WebRtcServer are       *)
(* exact, for any number of transports, peers and username fragments.      *)
(* A WebRtcTransport keeps its invariants for every set of Consumers and   *)
(* every set of roles a peer may announce.                                 *)
(***************************************************************************)
EXTENDS WebRtcServer, WebRtcTransport, TLAPS

-----------------------------------------------------------------------------
(* WebRtcServer.  First, the list of tuples of an IceServer.               *)

Distinct(s) == \A j, k \in DOMAIN s : s[j].peer = s[k].peer => j = k

Entries(s) == {s[k] : k \in DOMAIN s}

\* Who is a peer of the tuples of a list.
LEMMA PeersFacts ==
    /\ \A s, p : p \in Peers(Entries(s)) <=> \E k \in DOMAIN s : s[k].peer = p
    /\ \A ts, p : p \in Peers(ts) <=> \E x \in ts : x.peer = p
BY DEF Peers, Entries

\* What a list holds after one of its tuples was erased.
LEMMA EraseFacts ==
    ASSUME NEW T, NEW s \in Seq(T), NEW k \in 1 .. Len(s), Distinct(s)
    PROVE  /\ Erase(s, k) \in Seq(T)
           /\ Len(Erase(s, k)) = Len(s) - 1
           /\ Entries(Erase(s, k)) = Entries(s) \ {s[k]}
           /\ Distinct(Erase(s, k))
<1> DEFINE r == Erase(s, k)
<1>0. Len(s) \in Nat /\ DOMAIN s = 1 .. Len(s) /\ k \in Nat
  OBVIOUS
<1>1. r \in [1 .. (Len(s) - 1) -> T] /\ Len(s) - 1 \in Nat
  BY <1>0 DEF Erase
<1>2. r \in Seq(T) /\ Len(r) = Len(s) - 1 /\ DOMAIN r = 1 .. (Len(s) - 1)
  BY <1>1
<1>3. \A j \in DOMAIN r : r[j] = IF j < k THEN s[j] ELSE s[j + 1]
  BY DEF Erase
<1> HIDE DEF r
<1>4. ASSUME NEW j \in DOMAIN r
      PROVE  \E i \in DOMAIN s : i # k /\ r[j] = s[i] /\ i = (IF j < k THEN j ELSE j + 1)
  BY <1>0, <1>2, <1>3
<1>5. ASSUME NEW i \in DOMAIN s, i # k PROVE \E j \in DOMAIN r : r[j] = s[i]
  <2>1. CASE i < k
    BY <1>0, <1>2, <1>3, <2>1
  <2>2. CASE i > k
    <3>1. i - 1 \in DOMAIN r /\ ~(i - 1 < k) /\ (i - 1) + 1 = i
      BY <1>0, <1>2, <2>2
    <3> QED BY <1>3, <3>1
  <2> QED BY <1>0, <1>5, <2>1, <2>2
<1>6. Entries(r) = Entries(s) \ {s[k]}
  <2>1. ASSUME NEW x \in Entries(r) PROVE x \in Entries(s) /\ x # s[k]
    BY <1>0, <1>4, <2>1 DEF Entries, Distinct
  <2>2. ASSUME NEW x \in Entries(s), x # s[k] PROVE x \in Entries(r)
    BY <1>5, <2>2 DEF Entries
  <2> QED BY <2>1, <2>2
<1>7. Distinct(r)
  <2> SUFFICES ASSUME NEW i \in DOMAIN r, NEW j \in DOMAIN r, r[i].peer = r[j].peer PROVE i = j
    BY DEF Distinct
  <2>1. PICK a \in DOMAIN s : r[i] = s[a] /\ a = (IF i < k THEN i ELSE i + 1)
    BY <1>4
  <2>2. PICK b \in DOMAIN s : r[j] = s[b] /\ b = (IF j < k THEN j ELSE j + 1)
    BY <1>4
  <2>3. a = b
    BY <2>1, <2>2 DEF Distinct
  <2> QED BY <1>0, <1>2, <2>1, <2>2, <2>3
<1> QED BY <1>2, <1>6, <1>7 DEF r

\* What a list holds after a tuple was put in front, as AddTuple() does.
LEMMA ConsFacts ==
    ASSUME NEW T, NEW s \in Seq(T), NEW t \in T, Distinct(s), t.peer \notin Peers(Entries(s))
    PROVE  /\ <<t>> \o s \in Seq(T)
           /\ Len(<<t>> \o s) = Len(s) + 1
           /\ Entries(<<t>> \o s) = Entries(s) \cup {t}
           /\ Distinct(<<t>> \o s)
<1> DEFINE r == <<t>> \o s
<1>0. Len(s) \in Nat /\ DOMAIN s = 1 .. Len(s)
  OBVIOUS
<1>1. r \in Seq(T) /\ Len(r) = Len(s) + 1 /\ r[1] = t
  BY <1>0
<1>2. \A j \in 1 .. Len(s) : r[j + 1] = s[j]
  BY <1>0
<1>3. DOMAIN r = 1 .. (Len(s) + 1)
  BY <1>1
<1> HIDE DEF r
<1>4. \A j \in DOMAIN r : j = 1 \/ (j - 1 \in DOMAIN s /\ r[j] = s[j - 1])
  <2> SUFFICES ASSUME NEW j \in DOMAIN r, j # 1 PROVE j - 1 \in DOMAIN s /\ r[j] = s[j - 1]
    OBVIOUS
  <2>1. j - 1 \in 1 .. Len(s) /\ (j - 1) + 1 = j
    BY <1>0, <1>3
  <2> QED BY <1>0, <1>2, <2>1
<1>5. Entries(r) = Entries(s) \cup {t}
  <2>1. ASSUME NEW x \in Entries(r) PROVE x \in Entries(s) \cup {t}
    BY <1>1, <1>4 DEF Entries
  <2>2. ASSUME NEW x \in Entries(s) PROVE x \in Entries(r)
    <3>1. PICK j \in DOMAIN s : s[j] = x
      BY DEF Entries
    <3>2. j + 1 \in DOMAIN r /\ r[j + 1] = x
      BY <1>0, <1>2, <1>3, <3>1
    <3> QED BY <3>2 DEF Entries
  <2>3. t \in Entries(r)
    <3>1. 1 \in DOMAIN r
      BY <1>0, <1>3
    <3> QED BY <1>1, <3>1 DEF Entries
  <2> QED BY <2>1, <2>2, <2>3
<1>6. Distinct(r)
  <2> SUFFICES ASSUME NEW i \in DOMAIN r, NEW j \in DOMAIN r, r[i].peer = r[j].peer PROVE i = j
    BY DEF Distinct
  <2>1. \A k \in DOMAIN s : s[k].peer # t.peer
    BY PeersFacts
  <2>2. CASE i = 1
    BY <1>1, <1>4, <2>1, <2>2
  <2>3. CASE j = 1
    BY <1>1, <1>4, <2>1, <2>3
  <2>4. CASE i # 1 /\ j # 1
    <3>1. i - 1 = j - 1
      BY <1>4, <2>4 DEF Distinct
    <3> QED BY <1>0, <1>3, <3>1
  <2> QED BY <2>2, <2>3, <2>4
<1> QED BY <1>1, <1>5, <1>6 DEF r

-----------------------------------------------------------------------------
(* An IceServer on its own.                                                *)

Ices == [ufrag : Ufrags \cup {Nobody}, oldUfrag : Ufrags \cup {Nobody},
         tuples : Seq(RemoteTuples), selected : RemoteTuples \cup {Nobody}]

IceOK(i) ==
    /\ i \in Ices
    /\ Len(i.tuples) <= MaxStored
    /\ Distinct(i.tuples)
    /\ IF i.tuples = << >> THEN i.selected = Nobody ELSE i.selected \in Listed(i)

\* The tuples of an IceServer are those of its list; a new one has none.
LEMMA ListedFacts ==
    /\ \A i : Listed(i) = Entries(i.tuples)
    /\ Listed(NoIce) = {} /\ NoIce \in Ices /\ IceOK(NoIce)
<1>1. \A i : Listed(i) = Entries(i.tuples)
  BY DEF Listed, Entries
<1>2. NoIce.tuples = << >> /\ NoIce.selected = Nobody /\ NoIce \in Ices
  BY DEF NoIce, Ices
<1>3. Len(<< >>) = 0 /\ DOMAIN << >> = {}
  OBVIOUS
<1>4. Listed(NoIce) = {}
  BY <1>2, <1>3 DEF Listed
<1>5. IceOK(NoIce)
  BY <1>2, <1>3, ServerAssumption DEF IceOK, Distinct
<1> QED BY <1>1, <1>2, <1>4, <1>5

\* Over the cap there is a tuple to evict: two have different peers, so one of them is
\* not the selected one.
LEMMA OldestFacts ==
    ASSUME NEW i, IceOK(i), Len(i.tuples) >= MaxStored
    PROVE  OldestOf(i) \in DOMAIN i.tuples /\ i.tuples[OldestOf(i)] # i.selected
<1> DEFINE s == i.tuples
           n == Len(s)
           Candidate(k) == s[k] # i.selected /\ \A j \in DOMAIN s : s[j] # i.selected => j <= k
<1>1. s \in Seq(RemoteTuples) /\ n \in Nat /\ DOMAIN s = 1 .. n /\ n >= 2
  BY ServerAssumption DEF IceOK, Ices
<1>2. n \in DOMAIN s /\ n - 1 \in DOMAIN s /\ n - 1 # n
  BY <1>1
<1>3. s[n - 1] # s[n]
  BY <1>2 DEF IceOK, Distinct
<1>4. \E k \in DOMAIN s : Candidate(k)
  <2>1. CASE s[n] # i.selected
    <3>1. \A j \in DOMAIN s : j <= n
      BY <1>1
    <3> QED BY <1>2, <2>1, <3>1
  <2>2. CASE s[n] = i.selected
    <3>1. \A j \in DOMAIN s : j # n => j <= n - 1
      BY <1>1
    <3>2. Candidate(n - 1)
      BY <1>3, <2>2, <3>1
    <3> QED BY <1>2, <3>2
  <2> QED BY <2>1, <2>2
<1> QED BY <1>4 DEF OldestOf

\* A new tuple comes in, and one that is not selected may go.
LEMMA PushedFacts ==
    ASSUME NEW i, IceOK(i), NEW t \in RemoteTuples, t.peer \notin Peers(Listed(i))
    PROVE  /\ Pushed(i, t) \in Seq(RemoteTuples)
           /\ Len(Pushed(i, t)) <= MaxStored
           /\ Pushed(i, t) # << >>
           /\ Distinct(Pushed(i, t))
           /\ Entries(Pushed(i, t)) = (Listed(i) \ Evicted(i)) \cup {t}
           /\ i.selected \notin Evicted(i) /\ Evicted(i) \subseteq Listed(i)
<1> DEFINE s == i.tuples
<1>1. s \in Seq(RemoteTuples) /\ Len(s) \in Nat /\ DOMAIN s = 1 .. Len(s) /\ Distinct(s)
      /\ Len(s) <= MaxStored /\ MaxStored \in Nat
  BY ServerAssumption DEF IceOK, Ices
<1>2. Listed(i) = Entries(s)
  BY ListedFacts
<1>3. ASSUME NEW u \in Seq(RemoteTuples), Distinct(u), Entries(u) \subseteq Entries(s)
      PROVE  /\ <<t>> \o u \in Seq(RemoteTuples) /\ Len(<<t>> \o u) = Len(u) + 1
             /\ Distinct(<<t>> \o u) /\ Entries(<<t>> \o u) = Entries(u) \cup {t}
             /\ <<t>> \o u # << >>
  <2>1. t.peer \notin Peers(Entries(u))
    BY <1>2, <1>3 DEF Peers
  <2>2. /\ <<t>> \o u \in Seq(RemoteTuples) /\ Len(<<t>> \o u) = Len(u) + 1
        /\ Distinct(<<t>> \o u) /\ Entries(<<t>> \o u) = Entries(u) \cup {t}
    BY <1>3, <2>1, ConsFacts
  <2>3. <<t>> \o u # << >>
    <3>1. Len(u) + 1 # 0 /\ Len(<< >>) = 0
      BY <1>3
    <3> QED BY <2>2, <3>1
  <2> QED BY <2>2, <2>3
<1>4. CASE Len(s) >= MaxStored
  <2> DEFINE k == OldestOf(i)
             u == Erase(s, k)
  <2>1. k \in 1 .. Len(s) /\ s[k] # i.selected
    BY <1>1, <1>4, OldestFacts
  <2>2. u \in Seq(RemoteTuples) /\ Len(u) = Len(s) - 1 /\ Entries(u) = Entries(s) \ {s[k]} /\ Distinct(u)
    BY <1>1, <2>1, EraseFacts, Zenon
  <2>3. Evicted(i) = {s[k]} /\ Pushed(i, t) = <<t>> \o u
    BY <1>4 DEF Evicted, Pushed
  <2>4. s[k] \in Entries(s)
    BY <1>1, <2>1 DEF Entries
  <2> HIDE DEF u, k
  <2>5. /\ <<t>> \o u \in Seq(RemoteTuples) /\ Len(<<t>> \o u) = Len(u) + 1
        /\ Distinct(<<t>> \o u) /\ Entries(<<t>> \o u) = Entries(u) \cup {t}
        /\ <<t>> \o u # << >>
    BY <1>3, <2>2
  <2>6. Len(u) + 1 <= MaxStored
    BY <1>1, <2>2
  <2> QED BY <1>2, <2>1, <2>2, <2>3, <2>4, <2>5, <2>6
<1>5. CASE ~(Len(s) >= MaxStored)
  <2>1. Evicted(i) = {} /\ Pushed(i, t) = <<t>> \o s
    BY <1>5 DEF Evicted, Pushed
  <2>2. Len(s) + 1 <= MaxStored
    BY <1>1, <1>5
  <2> QED BY <1>1, <1>2, <1>3, <2>1, <2>2
<1> QED BY <1>4, <1>5

\* A tuple goes, and another one is selected if it was.
LEMMA RemovedFacts ==
    ASSUME NEW i, IceOK(i), NEW t
    PROVE  /\ IceOK(Removed(i, t))
           /\ Listed(Removed(i, t)) = Listed(i) \ Same(i, t)
           /\ Removed(i, t).ufrag = i.ufrag /\ Removed(i, t).oldUfrag = i.oldUfrag
<1> DEFINE s == i.tuples
           k == CHOOSE j \in DOMAIN s : s[j].peer = t.peer
           u == Erase(s, k)
           sel == IF i.selected \notin Same(i, t) THEN i.selected
                  ELSE IF u = << >> THEN Nobody ELSE u[1]
           r == [i EXCEPT !.tuples = u, !.selected = sel]
<1>1. s \in Seq(RemoteTuples) /\ Len(s) \in Nat /\ DOMAIN s = 1 .. Len(s) /\ Distinct(s)
      /\ Len(s) <= MaxStored /\ MaxStored \in Nat /\ i \in Ices
  BY ServerAssumption DEF IceOK, Ices
<1>2. CASE Same(i, t) = {}
  <2>1. Removed(i, t) = i
    BY <1>2 DEF Removed
  <2> QED BY <1>2, <2>1
<1>3. CASE Same(i, t) # {}
  <2>1. Removed(i, t) = r
    BY <1>3 DEF Removed
  <2>2. \E j \in DOMAIN s : s[j].peer = t.peer
    BY <1>3 DEF Same, Listed
  <2>3. k \in DOMAIN s /\ s[k].peer = t.peer
    BY <2>2
  <2>4. u \in Seq(RemoteTuples) /\ Len(u) = Len(s) - 1 /\ Entries(u) = Entries(s) \ {s[k]} /\ Distinct(u)
    BY <1>1, <2>3, EraseFacts, ZenonT(40)
  <2>5. Same(i, t) = {s[k]}
    BY <2>3, <1>1, Zenon DEF Same, Listed, Distinct
  <2>6. Listed(i) = Entries(s)
    BY ListedFacts
  <2>7. s # << >> /\ i.selected \in Entries(s)
    <3>1. s # << >>
      BY <2>3
    <3> QED BY <2>6, <3>1 DEF IceOK
  <2> HIDE DEF k
  <2>8. IF u = << >> THEN sel = Nobody ELSE sel \in Entries(u)
    <3>1. CASE i.selected \in Same(i, t)
      <4>1. CASE u # << >>
        <5>1. u[1] \in Entries(u)
          BY <2>4, <4>1 DEF Entries
        <5> QED BY <3>1, <4>1, <5>1
      <4> QED BY <3>1, <4>1
    <3>2. CASE i.selected \notin Same(i, t)
      <4>1. i.selected \in Entries(u)
        BY <2>4, <2>5, <2>7, <3>2
      <4>2. u # << >>
        BY <4>1 DEF Entries
      <4> QED BY <3>2, <4>1, <4>2
    <3> QED BY <3>1, <3>2
  <2>9. Len(u) <= MaxStored
    BY <1>1, <2>4
  <2> HIDE DEF u, sel
  <2>10. r.tuples = u /\ r.selected = sel /\ r.ufrag = i.ufrag /\ r.oldUfrag = i.oldUfrag
    BY <1>1 DEF Ices
  <2>11. sel \in RemoteTuples \cup {Nobody}
    <3>1. Entries(u) \subseteq RemoteTuples
      BY <2>4 DEF Entries
    <3> QED BY <2>8, <3>1
  <2>12. r \in Ices
    BY <1>1, <2>4, <2>11, Zenon DEF Ices
  <2> HIDE DEF r
  <2>13. Listed(r) = Entries(u)
    BY <2>10, ListedFacts
  <2>14. IceOK(r)
    BY <2>4, <2>8, <2>9, <2>10, <2>12, <2>13 DEF IceOK
  <2> QED BY <2>1, <2>4, <2>5, <2>6, <2>10, <2>13, <2>14
<1> QED BY <1>2, <1>3

-----------------------------------------------------------------------------
(* A table is exact when it holds what each transport owns, and that only. *)

Exact(m, own) ==
    /\ m = [x \in DOMAIN m |-> m[x]]
    /\ \A x \in DOMAIN m : m[x] \in Served /\ x \in own[m[x]]
    /\ \A w \in Served : \A x \in own[w] : x \in DOMAIN m /\ m[x] = w

\* Withdrawing the keys S from a table and from their owners keeps the table exact.
LEMMA WithoutExact ==
    ASSUME NEW m, NEW own, Exact(m, own), NEW S, NEW own2,
           \A w \in Served : own2[w] = own[w] \ S
    PROVE  Exact(Without(m, S), own2)
<1>1. DOMAIN Without(m, S) = DOMAIN m \ S
  BY DEF Without
<1>2. \A x \in DOMAIN m \ S : Without(m, S)[x] = m[x]
  BY DEF Without
<1>3. Without(m, S) = [x \in DOMAIN Without(m, S) |-> Without(m, S)[x]]
  BY DEF Without
<1> QED BY <1>1, <1>2, <1>3 DEF Exact

\* Adding a new key to a table and to one owner keeps the table exact.
LEMMA PutExact ==
    ASSUME NEW m, NEW own, Exact(m, own), NEW x, x \notin DOMAIN m, NEW w \in Served, NEW own2,
           own2[w] = own[w] \cup {x}, \A v \in Served : v # w => own2[v] = own[v]
    PROVE  Exact(Put(m, x, w), own2)
<1>1. DOMAIN Put(m, x, w) = DOMAIN m \cup {x}
  BY DEF Put
<1>2. Put(m, x, w)[x] = w /\ \A y \in DOMAIN m : Put(m, x, w)[y] = m[y]
  BY DEF Put
<1>3. Put(m, x, w) = [y \in DOMAIN Put(m, x, w) |-> Put(m, x, w)[y]]
  BY DEF Put
<1> QED BY <1>1, <1>2, <1>3 DEF Exact

\* An exact table is the one that TablesExact describes, and no two transports own the
\* same.
LEMMA ExactIsFunction ==
    ASSUME NEW m, NEW own, Exact(m, own), NEW A \in SUBSET Served,
           \A w \in Served : w \notin A => own[w] = {}
    PROVE  /\ m = [x \in UNION {own[w] : w \in A} |-> CHOOSE w \in A : x \in own[w]]
           /\ \A v, w \in A : v # w => own[v] \cap own[w] = {}
<1>1. DOMAIN m = UNION {own[w] : w \in A}
  BY DEF Exact
<1>2. \A x \in DOMAIN m : m[x] \in A /\ x \in own[m[x]] /\ \A w \in A : x \in own[w] => w = m[x]
  BY DEF Exact
<1>3. \A x \in DOMAIN m : (CHOOSE w \in A : x \in own[w]) = m[x]
  BY <1>2
<1>4. m = [x \in UNION {own[w] : w \in A} |-> CHOOSE w \in A : x \in own[w]]
  BY <1>1, <1>3 DEF Exact
<1>5. \A v, w \in A : v # w => own[v] \cap own[w] = {}
  BY DEF Exact
<1> QED BY <1>4, <1>5

\* What the transports own.
PeersOf == [w \in Served |-> Peers(Listed(ice[w]))]

FragsOf == [w \in Served |-> {ice[w].ufrag, ice[w].oldUfrag} \ {Nobody}]

Tcp == {x \in RemoteTuples : IsTcp(x)}

StatusOK ==
    /\ server \in {"open", "closed", "crashed"} /\ aborted = FALSE
    /\ status \in [Served -> {"none", "alive", "failed", "closed"}]
    /\ webRtcTransports = Alive \cup {w \in Served : status[w] = "failed"}

\* Only a live transport has fragments and tuples, and its two fragments differ.
AgentsOK ==
    /\ ice \in [Served -> Ices]
    /\ \A w \in Served :
          /\ IceOK(ice[w])
          /\ IF w \in Alive THEN ice[w].ufrag # Nobody /\ ice[w].ufrag # ice[w].oldUfrag
                            ELSE ice[w] = NoIce

ConnsOK ==
    /\ conns \in [Tcp -> {"none", "open", "closed"}]
    /\ \A w \in Served : \A x \in Listed(ice[w]) : IsTcp(x) => conns[x] = "open"

ServerInv ==
    StatusOK /\ AgentsOK /\ Exact(tupleMap, PeersOf) /\ Exact(ufragMap, FragsOf) /\ ConnsOK

\* The inductive invariant is strong enough for what the run checks.
LEMMA ServerInvImplies == ServerInv => RoutingExact
<1> SUFFICES ASSUME ServerInv PROVE RoutingExact
  OBVIOUS
<1>1. ServerTypeOK
  BY DEF ServerInv, StatusOK, AgentsOK, IceOK, Ices, Distinct, ServerTypeOK
<1>2. Alive \in SUBSET Served
  BY DEF Alive
<1>3. \A w \in Served : PeersOf[w] = Peers(Listed(ice[w]))
                        /\ FragsOf[w] = {ice[w].ufrag, ice[w].oldUfrag} \ {Nobody}
  BY DEF PeersOf, FragsOf
<1>4. \A w \in Served : w \notin Alive => PeersOf[w] = {} /\ FragsOf[w] = {}
  <2>1. Peers({}) = {}
    BY DEF Peers
  <2>2. \A w \in Served : w \notin Alive => ice[w] = NoIce
    BY DEF ServerInv, AgentsOK
  <2>3. {NoIce.ufrag, NoIce.oldUfrag} \ {Nobody} = {}
    BY DEF NoIce
  <2> QED BY <1>3, <2>1, <2>2, <2>3, ListedFacts, Zenon
<1>a. \A w \in Served : w \notin Alive => PeersOf[w] = {}
  BY <1>4
<1>b. \A w \in Served : w \notin Alive => FragsOf[w] = {}
  BY <1>4
<1>5. /\ tupleMap = [p \in UNION {PeersOf[w] : w \in Alive} |-> CHOOSE w \in Alive : p \in PeersOf[w]]
      /\ \A v, w \in Alive : v # w => PeersOf[v] \cap PeersOf[w] = {}
  <2>1. Exact(tupleMap, PeersOf)
    BY DEF ServerInv
  <2> QED BY <1>2, <1>a, <2>1, ExactIsFunction, Zenon
<1>6. ufragMap = [f \in UNION {FragsOf[w] : w \in Alive} |-> CHOOSE w \in Alive : f \in FragsOf[w]]
  <2>1. Exact(ufragMap, FragsOf)
    BY DEF ServerInv
  <2>2. /\ ufragMap = [f \in UNION {FragsOf[w] : w \in Alive} |-> CHOOSE w \in Alive : f \in FragsOf[w]]
        /\ \A v, w \in Alive : v # w => FragsOf[v] \cap FragsOf[w] = {}
    BY <1>2, <1>b, <2>1, ExactIsFunction, Zenon
  <2> QED BY <2>2
<1>7. UNION {PeersOf[w] : w \in Alive} = Peers(TuplesOf(Alive))
  <2>1. \A p : p \in UNION {PeersOf[w] : w \in Alive} <=> \E w \in Alive : p \in Peers(Listed(ice[w]))
    BY <1>2, <1>3
  <2>2. \A p : p \in Peers(TuplesOf(Alive)) <=> \E w \in Alive : p \in Peers(Listed(ice[w]))
    BY DEF Peers, TuplesOf
  <2> QED BY <2>1, <2>2
<1>8. UNION {FragsOf[w] : w \in Alive} = UfragsOf(Alive)
  <2>1. \A f : f \in UNION {FragsOf[w] : w \in Alive} <=>
                 \E w \in Alive : f \in {ice[w].ufrag, ice[w].oldUfrag} \ {Nobody}
    BY <1>2, <1>3
  <2>2. \A f : f \in UfragsOf(Alive) <=>
                 \E w \in Alive : f \in {ice[w].ufrag, ice[w].oldUfrag} \ {Nobody}
    BY DEF UfragsOf
  <2> QED BY <2>1, <2>2
<1>9. tupleMap = [p \in Peers(TuplesOf(Alive)) |-> CHOOSE w \in Alive : p \in Peers(Listed(ice[w]))]
  <2>1. \A p : (CHOOSE w \in Alive : p \in PeersOf[w]) = CHOOSE w \in Alive : p \in Peers(Listed(ice[w]))
    BY <1>2, <1>3
  <2> QED BY <1>5, <1>7, <2>1
<1>10. ufragMap = [f \in UfragsOf(Alive) |-> CHOOSE w \in Alive : f \in {ice[w].ufrag, ice[w].oldUfrag}]
  <2>1. \A f \in UfragsOf(Alive) : (CHOOSE w \in Alive : f \in FragsOf[w]) =
                                     CHOOSE w \in Alive : f \in {ice[w].ufrag, ice[w].oldUfrag}
    <3> SUFFICES ASSUME NEW f \in UfragsOf(Alive)
                 PROVE  (CHOOSE w \in Alive : f \in FragsOf[w]) =
                            CHOOSE w \in Alive : f \in {ice[w].ufrag, ice[w].oldUfrag}
      BY Zenon
    <3>0. f # Nobody
      BY DEF UfragsOf
    <3>1. \A w \in Alive : f \in FragsOf[w] <=> f \in {ice[w].ufrag, ice[w].oldUfrag}
      BY <1>2, <1>3, <3>0, Zenon
    <3> QED BY <3>1
  <2> QED BY <1>6, <1>8, <2>1
<1>11. TablesExact
  <2>1. \A v, w \in Alive : v # w => Peers(Listed(ice[v])) \cap Peers(Listed(ice[w])) = {}
    BY <1>2, <1>3, <1>5
  <2> QED BY <1>9, <1>10, <2>1 DEF TablesExact
<1>12. TransportsKnown /\ ServerAssertsHold
  BY DEF ServerInv, StatusOK, TransportsKnown, ServerAssertsHold
<1>13. StoredAreOpen
  BY <1>2 DEF ServerInv, ConnsOK, StoredAreOpen, TuplesOf
<1> QED BY <1>1, <1>11, <1>12, <1>13 DEF RoutingExact

\* A new WebRtcServer has empty tables.
LEMMA ServerInitInv == ServerInit => ServerInv
<1> SUFFICES ASSUME ServerInit PROVE ServerInv
  OBVIOUS
<1> USE DEF ServerInit
<1>1. Alive = {} /\ StatusOK
  BY DEF Alive, StatusOK
<1>2. AgentsOK
  BY <1>1, ListedFacts DEF AgentsOK
<1>3. \A w \in Served : PeersOf[w] = {} /\ FragsOf[w] = {}
  BY ListedFacts, Zenon DEF PeersOf, FragsOf, Peers, NoIce
<1>4. tupleMap = << >> /\ ufragMap = << >> /\ DOMAIN << >> = {} /\ << >> = [x \in {} |-> << >>[x]]
  OBVIOUS
<1>5. Exact(tupleMap, PeersOf) /\ Exact(ufragMap, FragsOf)
  BY <1>3, <1>4 DEF Exact
<1>6. ConnsOK
  BY ListedFacts DEF ConnsOK, Tcp
<1> QED BY <1>1, <1>2, <1>5, <1>6 DEF ServerInv

-----------------------------------------------------------------------------
(* The steps.                                                              *)

\* An IceServer stores one tuple of each peer, so that its peer finds a tuple.
LEMMA SamePeer ==
    ASSUME NEW i, IceOK(i)
    PROVE  /\ \A x, y \in Listed(i) : x.peer = y.peer => x = y
           /\ Listed(i) \subseteq RemoteTuples
           /\ Listed(i) # {} => i.selected \in Listed(i) /\ i.selected # Nobody
           /\ i.selected # Nobody => i.selected \in Listed(i)
<1>1. \A x, y \in Listed(i) : x.peer = y.peer => x = y
  BY DEF IceOK, Listed, Distinct
<1>2. Listed(i) \subseteq RemoteTuples
  BY DEF IceOK, Ices, Listed
<1>3. ASSUME Listed(i) # {} PROVE i.tuples # << >>
  BY <1>3 DEF Listed
<1> QED BY <1>1, <1>2, <1>3, ServerAssumption DEF IceOK

\* What closing connections leaves open.
LEMMA ClosedByFacts ==
    ASSUME NEW ts, conns \in [Tcp -> {"none", "open", "closed"}]
    PROVE  /\ ClosedBy(conns, ts) \in [Tcp -> {"none", "open", "closed"}]
           /\ \A x \in Tcp : x \notin ts => ClosedBy(conns, ts)[x] = conns[x]
BY DEF ClosedBy

\* HandleTuple() keeps the table of tuples exact and stores no closed connection.
LEMMA SelectTupleInv ==
    ASSUME ServerInv, NEW w \in Served, NEW i, IceOK(i), i.tuples = ice[w].tuples,
           NEW t \in RemoteTuples, t.peer \in DOMAIN tupleMap => tupleMap[t.peer] = w,
           CanReceive(t), SelectTupleOf(w, i, t)
    PROVE  /\ \E j : IceOK(j) /\ j.ufrag = i.ufrag /\ j.oldUfrag = i.oldUfrag
                     /\ ice' = [ice EXCEPT ![w] = j]
           /\ Exact(tupleMap', PeersOf') /\ ConnsOK'
<1> DEFINE known == i.selected # Nobody /\ Same(i, t) # {}
<1>0. ice \in [Served -> Ices] /\ conns \in [Tcp -> {"none", "open", "closed"}]
      /\ Exact(tupleMap, PeersOf) /\ i \in Ices
  BY DEF ServerInv, AgentsOK, ConnsOK, IceOK
<1>1. Listed(i) = Listed(ice[w])
  BY DEF Listed
<1>2. /\ \A x, y \in Listed(i) : x.peer = y.peer => x = y
      /\ Listed(i) \subseteq RemoteTuples
      /\ Listed(i) # {} => i.selected \in Listed(i) /\ i.selected # Nobody
      /\ i.selected # Nobody => i.selected \in Listed(i)
  BY SamePeer
<1>3. \A v \in Served : PeersOf[v] = Peers(Listed(ice[v])) /\ PeersOf'[v] = Peers(Listed(ice'[v]))
  BY DEF PeersOf
<1>4. CASE known
  <2> DEFINE stored == CHOOSE s \in Same(i, t) : TRUE
  <2>1. stored \in Listed(i)
    BY <1>4 DEF Same
  <2>2. PICK s : /\ s \in {i.selected, stored}
                 /\ ice' = [ice EXCEPT ![w] = [i EXCEPT !.selected = s, !.tuples = i.tuples]]
    BY <1>4, Zenon DEF SelectTupleOf
  <2>3. tupleMap' = tupleMap /\ conns' = ClosedBy(conns, {})
    BY <1>4 DEF SelectTupleOf
  <2> DEFINE j == [i EXCEPT !.selected = s, !.tuples = i.tuples]
  <2>4. j.ufrag = i.ufrag /\ j.oldUfrag = i.oldUfrag /\ j.tuples = i.tuples /\ j.selected = s
    BY <1>0 DEF Ices
  <2>5. s \in Listed(i)
    BY <1>2, <1>4, <2>1, <2>2, Zenon
  <2>6. j \in Ices
    BY <1>0, <1>2, <2>5, Zenon DEF Ices
  <2>7. Listed(j) = Listed(i)
    BY <2>4 DEF Listed
  <2> HIDE DEF j, stored
  <2>8. IceOK(j)
    <3>1. i.tuples # << >>
      BY <2>5 DEF Listed
    <3> QED BY <2>4, <2>5, <2>6, <2>7, <3>1 DEF IceOK
  <2>9. ice' = [ice EXCEPT ![w] = j]
    BY <2>2 DEF j
  <2>10. \A v \in Served : Listed(ice'[v]) = Listed(ice[v])
    BY <1>0, <1>1, <2>7, <2>9
  <2>11. PeersOf' = PeersOf
    BY <2>10 DEF PeersOf
  <2>12. conns' \in [Tcp -> {"none", "open", "closed"}] /\ \A x \in Tcp : conns'[x] = conns[x]
    BY <1>0, <2>3, ClosedByFacts
  <2>13. \A v \in Served : Listed(ice[v]) \subseteq RemoteTuples
    BY SamePeer DEF ServerInv, AgentsOK
  <2>14. ConnsOK'
    BY <2>10, <2>12, <2>13 DEF ServerInv, ConnsOK, Tcp, IsTcp
  <2> QED BY <1>0, <2>3, <2>4, <2>8, <2>9, <2>11, <2>14, Zenon
<1>5. CASE ~known
  <2> DEFINE gone == Evicted(i)
  <2>1. t.peer \notin Peers(Listed(i))
    BY <1>2, <1>5 DEF Same, Peers
  <2>2. t.peer \notin DOMAIN tupleMap
    BY <1>0, <1>1, <1>3, <2>1 DEF Exact
  <2>3. PICK s : /\ s \in IF i.selected = Nobody THEN {t} ELSE {i.selected, t}
                 /\ ice' = [ice EXCEPT ![w] = [i EXCEPT !.selected = s, !.tuples = Pushed(i, t)]]
    BY <1>5, Zenon DEF SelectTupleOf
  <2>4. tupleMap' = Without(WithTuple(tupleMap, w, t), Peers(gone)) /\ conns' = ClosedBy(conns, gone)
    BY <1>5 DEF SelectTupleOf
  <2>5. /\ Pushed(i, t) \in Seq(RemoteTuples)
        /\ Len(Pushed(i, t)) <= MaxStored
        /\ Pushed(i, t) # << >>
        /\ Distinct(Pushed(i, t))
        /\ Entries(Pushed(i, t)) = (Listed(i) \ gone) \cup {t}
        /\ i.selected \notin gone /\ gone \subseteq Listed(i)
    BY <2>1, PushedFacts
  <2> HIDE DEF gone
  <2> DEFINE j == [i EXCEPT !.selected = s, !.tuples = Pushed(i, t)]
  <2>6. j.ufrag = i.ufrag /\ j.oldUfrag = i.oldUfrag /\ j.tuples = Pushed(i, t) /\ j.selected = s
    BY <1>0 DEF Ices
  <2>7. s \in (Listed(i) \ gone) \cup {t}
    BY <1>2, <2>3, <2>5
  <2>8. j \in Ices
    BY <1>0, <1>2, <2>5, <2>7, Zenon DEF Ices
  <2> HIDE DEF j
  <2>9. Listed(j) = (Listed(i) \ gone) \cup {t}
    BY <2>5, <2>6, ListedFacts
  <2>10. IceOK(j)
    BY <2>5, <2>6, <2>7, <2>8, <2>9 DEF IceOK
  <2>11. ice' = [ice EXCEPT ![w] = j]
    BY <2>3 DEF j
  <2>12. ice'[w] = j /\ \A v \in Served : v # w => ice'[v] = ice[v]
    BY <1>0, <2>11
  <2>13. \A v \in Served : v # w => Peers(gone) \cap PeersOf[v] = {}
    <3>1. Peers(gone) \subseteq PeersOf[w]
      BY <1>1, <1>3, <2>5 DEF Peers
    <3>2. \A v \in Served : v # w => PeersOf[w] \cap PeersOf[v] = {}
      BY <1>0 DEF Exact
    <3> QED BY <3>1, <3>2
  <2>14. Exact(tupleMap', PeersOf')
    <3> DEFINE own1 == [v \in Served |-> IF v = w THEN PeersOf[w] \cup {t.peer} ELSE PeersOf[v]]
               m1 == Put(tupleMap, t.peer, w)
    <3>1. own1[w] = PeersOf[w] \cup {t.peer} /\ \A v \in Served : v # w => own1[v] = PeersOf[v]
      OBVIOUS
    <3> HIDE DEF own1
    <3>2. Exact(m1, own1)
      BY <1>0, <2>2, <3>1, PutExact
    <3>3. WithTuple(tupleMap, w, t) = m1
      BY <2>2 DEF WithTuple
    <3>4. PeersOf'[w] = own1[w] \ Peers(gone)
      <4>1. PeersOf'[w] = Peers((Listed(i) \ gone) \cup {t})
        BY <1>3, <2>9, <2>12
      <4>2. own1[w] = Peers(Listed(i)) \cup {t.peer}
        BY <1>1, <1>3, <3>1
      <4>3. Peers((Listed(i) \ gone) \cup {t}) = (Peers(Listed(i)) \cup {t.peer}) \ Peers(gone)
        BY <1>2, <2>1, <2>5 DEF Peers
      <4> QED BY <4>1, <4>2, <4>3, Zenon
    <3>5. \A v \in Served : v # w => PeersOf'[v] = own1[v] \ Peers(gone)
      BY <1>3, <2>12, <2>13, <3>1, SMTT(30)
    <3>6. \A v \in Served : PeersOf'[v] = own1[v] \ Peers(gone)
      BY <3>4, <3>5
    <3>7. Exact(Without(m1, Peers(gone)), PeersOf')
      BY <3>2, <3>6, WithoutExact
    <3> QED BY <2>4, <3>3, <3>7
  <2>15. ConnsOK'
    <3>1. conns' \in [Tcp -> {"none", "open", "closed"}] /\ \A x \in Tcp : x \notin gone => conns'[x] = conns[x]
      BY <1>0, <2>4, ClosedByFacts
    <3>2. \A v \in Served : \A x \in Listed(ice[v]) : x \in RemoteTuples /\ (IsTcp(x) => conns[x] = "open")
      BY SamePeer DEF ServerInv, AgentsOK, ConnsOK
    <3>3. ASSUME NEW v \in Served, NEW x \in Listed(ice'[v]), IsTcp(x)
          PROVE  conns'[x] = "open"
      <4>1. CASE v = w /\ x = t
        <5>1. t \notin gone
          BY <2>1, <2>5 DEF Peers
        <5>2. conns[t] = "open" /\ t \in Tcp
          BY <3>3, <4>1 DEF CanReceive, Tcp
        <5> QED BY <3>1, <4>1, <5>1, <5>2
      <4>2. CASE v = w /\ x # t
        <5>1. x \in Listed(ice[w]) /\ x \notin gone
          BY <1>1, <2>9, <2>12, <4>2
        <5> QED BY <3>1, <3>2, <3>3, <5>1 DEF Tcp
      <4>3. CASE v # w
        <5>1. x \in Listed(ice[v])
          BY <2>12, <4>3
        <5>2. x \notin gone
          BY <1>3, <2>13, <4>3, <5>1 DEF Peers
        <5> QED BY <3>1, <3>2, <3>3, <5>1, <5>2 DEF Tcp
      <4> QED BY <4>1, <4>2, <4>3
    <3> QED BY <3>1, <3>3 DEF ConnsOK, IsTcp, Tcp
  <2> QED BY <2>6, <2>10, <2>11, <2>14, <2>15, Zenon
<1> QED BY <1>4, <1>5

\* What is left of an IceServer whose old fragment was withdrawn.
LEMMA RetiredFacts ==
    ASSUME NEW i, IceOK(i), NEW f
    PROVE  /\ IceOK(Retired(i, f))
           /\ Retired(i, f).tuples = i.tuples /\ Retired(i, f).ufrag = i.ufrag
           /\ Retired(i, f).oldUfrag = IF f = i.ufrag THEN Nobody ELSE i.oldUfrag
<1> DEFINE r == [i EXCEPT !.oldUfrag = Nobody]
<1>1. i \in Ices
  BY DEF IceOK
<1>2. r \in Ices /\ r.tuples = i.tuples /\ r.ufrag = i.ufrag /\ r.oldUfrag = Nobody
      /\ r.selected = i.selected
  BY <1>1 DEF Ices
<1>3. Listed(r) = Listed(i)
  BY <1>2 DEF Listed
<1> HIDE DEF r
<1>4. IceOK(r)
  BY <1>2, <1>3 DEF IceOK
<1>5. Retired(i, f) = IF f = i.ufrag THEN r ELSE i
  BY DEF Retired, r
<1> QED BY <1>2, <1>4, <1>5

\* A transport that has a fragment is alive.
LEMMA OwnerAlive ==
    ASSUME ServerInv, NEW w \in Served, NEW f \in Ufrags, f \in {ice[w].ufrag, ice[w].oldUfrag}
    PROVE  w \in Alive /\ f # Nobody
BY ServerAssumption DEF ServerInv, AgentsOK, NoIce

\* A step that changes one agent and none of the transports' states.
LEMMA OneAgent ==
    ASSUME ServerInv, NEW w \in Alive, NEW j, IceOK(j), ice' = [ice EXCEPT ![w] = j],
           j.ufrag # Nobody, j.ufrag # j.oldUfrag, status' = status
    PROVE  AgentsOK'
<1>1. Alive' = Alive /\ w \in Served
  BY DEF Alive
<1>2. j \in Ices /\ ice \in [Served -> Ices]
  BY DEF IceOK, ServerInv, AgentsOK
<1>3. ice'[w] = j /\ \A v \in Served : v # w => ice'[v] = ice[v]
  BY <1>1, <1>2
<1>4. ice' \in [Served -> Ices]
  BY <1>2, Zenon
<1>5. \A v \in Served :
          /\ IceOK(ice'[v])
          /\ IF v \in Alive' THEN ice'[v].ufrag # Nobody /\ ice'[v].ufrag # ice'[v].oldUfrag
                             ELSE ice'[v] = NoIce
  BY <1>1, <1>3 DEF ServerInv, AgentsOK
<1>6. \A v \in Served : IceOK(ice[v])' <=> IceOK(ice'[v])
  BY DEF IceOK, Listed, Distinct
<1> QED BY <1>4, <1>5, <1>6 DEF AgentsOK

\* What holds of the agents, and who is listed where, stays so while they do not change.
LEMMA SameAgents ==
    ASSUME AgentsOK, ice' = ice, Alive' = Alive
    PROVE  AgentsOK' /\ PeersOf' = PeersOf /\ FragsOf' = FragsOf
<1>1. \A v \in Served : IceOK(ice[v])' <=> IceOK(ice[v])
  BY DEF IceOK, Listed, Distinct
<1>2. AgentsOK'
  BY <1>1, Zenon DEF AgentsOK
<1>3. PeersOf' = PeersOf
  BY DEF PeersOf, Listed
<1>4. FragsOf' = FragsOf
  BY Zenon DEF FragsOf
<1> QED BY <1>2, <1>3, <1>4

\* OnStunDataReceived(): a binding request finds its transport by fragment.
LEMMA StunInv ==
    ASSUME ServerInv, NEW t \in RemoteTuples, NEW f \in Ufrags, OnStunDataReceived(t, f)
    PROVE  ServerInv'
<1>1. PICK w \in Target(t, f) :
          /\ f \in {ice[w].ufrag, ice[w].oldUfrag}
          /\ \/ SelectTupleOf(w, Retired(ice[w], f), t)
             \/ ice' = [ice EXCEPT ![w] = Retired(@, f)] /\ UNCHANGED <<tupleMap, conns>>
          /\ IF f = ice[w].ufrag /\ ice[w].oldUfrag # Nobody
             THEN RemoveUfrags({ice[w].oldUfrag})
             ELSE UNCHANGED <<ufragMap, aborted>>
  BY Zenon DEF OnStunDataReceived
<1>2. w \in Served /\ (t.peer \in DOMAIN tupleMap => tupleMap[t.peer] = w)
  BY DEF Target, ServerInv, Exact
<1>3. w \in Alive /\ f # Nobody
  BY <1>1, <1>2, OwnerAlive
<1>4. CanReceive(t) /\ UNCHANGED <<server, webRtcTransports, status, dangling>>
  BY DEF OnStunDataReceived
<1> DEFINE r == Retired(ice[w], f)
<1>5. IceOK(ice[w]) /\ ice \in [Served -> Ices]
  BY <1>2 DEF ServerInv, AgentsOK
<1>6. /\ IceOK(r) /\ r.tuples = ice[w].tuples /\ r.ufrag = ice[w].ufrag
      /\ r.oldUfrag = IF f = ice[w].ufrag THEN Nobody ELSE ice[w].oldUfrag
  BY <1>5, RetiredFacts
<1> HIDE DEF r
<1>7. /\ \E j : IceOK(j) /\ j.ufrag = r.ufrag /\ j.oldUfrag = r.oldUfrag
                /\ ice' = [ice EXCEPT ![w] = j]
      /\ Exact(tupleMap', PeersOf') /\ ConnsOK'
  <2>1. CASE SelectTupleOf(w, r, t)
    BY <1>2, <1>4, <1>6, <2>1, SelectTupleInv, Zenon
  <2>2. CASE ice' = [ice EXCEPT ![w] = r] /\ UNCHANGED <<tupleMap, conns>>
    <3>1. ice'[w] = r /\ \A v \in Served : v # w => ice'[v] = ice[v]
      BY <1>2, <1>5, <2>2
    <3>2. Listed(r) = Listed(ice[w])
      BY <1>6 DEF Listed
    <3>3. \A v \in Served : Listed(ice'[v]) = Listed(ice[v])
      BY <3>1, <3>2
    <3>4. PeersOf' = PeersOf
      BY <3>3 DEF PeersOf
    <3>5. Exact(tupleMap', PeersOf')
      BY <2>2, <3>4 DEF ServerInv
    <3>6. ConnsOK'
      BY <2>2, <3>3 DEF ServerInv, ConnsOK, Tcp, IsTcp
    <3> QED BY <1>6, <2>2, <3>5, <3>6, Zenon
  <2> QED BY <1>1, <2>1, <2>2, Zenon DEF r
<1>8. PICK j : IceOK(j) /\ j.ufrag = r.ufrag /\ j.oldUfrag = r.oldUfrag /\ ice' = [ice EXCEPT ![w] = j]
  BY <1>7, Zenon
<1>9. ice[w].ufrag # Nobody /\ ice[w].ufrag # ice[w].oldUfrag
  BY <1>2, <1>3 DEF ServerInv, AgentsOK
<1>10. AgentsOK'
  BY <1>3, <1>4, <1>6, <1>8, <1>9, OneAgent, Zenon
<1>11. ice'[w] = j /\ \A v \in Served : v # w => ice'[v] = ice[v]
  BY <1>2, <1>5, <1>8
<1>12. /\ \A v \in Served : v # w => FragsOf'[v] = FragsOf[v]
       /\ FragsOf[w] = {ice[w].ufrag, ice[w].oldUfrag} \ {Nobody}
       /\ FragsOf'[w] = {j.ufrag, j.oldUfrag} \ {Nobody}
  BY <1>2, <1>11 DEF FragsOf
<1>13. Exact(ufragMap', FragsOf') /\ aborted' = FALSE
  <2>0. Exact(ufragMap, FragsOf) /\ aborted = FALSE
    BY DEF ServerInv, StatusOK
  <2>1. CASE f = ice[w].ufrag /\ ice[w].oldUfrag # Nobody
    <3> DEFINE S == {ice[w].oldUfrag}
    <3>1. ufragMap' = Without(ufragMap, S) /\ aborted' = ~(S \subseteq DOMAIN ufragMap)
      BY <1>1, <2>1 DEF RemoveUfrags
    <3>2. ice[w].oldUfrag \in FragsOf[w]
      BY <1>12, <2>1
    <3>3. ice[w].oldUfrag \in DOMAIN ufragMap
          /\ \A v \in Served : v # w => ice[w].oldUfrag \notin FragsOf[v]
      BY <1>2, <2>0, <3>2 DEF Exact
    <3>4. FragsOf'[w] = FragsOf[w] \ S
      BY <1>6, <1>8, <1>9, <1>12, <2>1, ZenonT(40)
    <3>5. \A v \in Served : FragsOf'[v] = FragsOf[v] \ S
      BY <1>12, <3>3, <3>4, ZenonT(40)
    <3> HIDE DEF S
    <3>6. Exact(Without(ufragMap, S), FragsOf')
      BY <2>0, <3>5, WithoutExact, Zenon
    <3>7. aborted' = FALSE
      BY <3>1, <3>3, Zenon DEF S
    <3> QED BY <3>1, <3>6, <3>7
  <2>2. CASE ~(f = ice[w].ufrag /\ ice[w].oldUfrag # Nobody)
    <3>1. ufragMap' = ufragMap /\ aborted' = aborted
      BY <1>1, <2>2
    <3>2. FragsOf'[w] = FragsOf[w]
      BY <1>6, <1>8, <1>12, <2>2
    <3>3. FragsOf' = FragsOf
      BY <1>12, <3>2, Zenon DEF FragsOf
    <3> QED BY <2>0, <3>1, <3>3
  <2> QED BY <2>1, <2>2, Zenon
<1>14. StatusOK'
  BY <1>4, <1>13 DEF ServerInv, StatusOK, Alive
<1> QED BY <1>7, <1>10, <1>13, <1>14 DEF ServerInv

\* OnNonStunDataReceived(): other packets find their transport by tuple.
LEMMA NonStunInv ==
    ASSUME ServerInv, NEW t \in RemoteTuples, OnNonStunDataReceived(t)
    PROVE  ServerInv'
<1> DEFINE w == tupleMap[t.peer]
<1>1. w \in Served
  BY DEF OnNonStunDataReceived, ServerInv, Exact
<1>2. PICK s \in Same(ice[w], t) : ice[w].selected # Nobody /\ ice' = [ice EXCEPT ![w].selected = s]
  BY Zenon DEF OnNonStunDataReceived
<1>3. UNCHANGED <<server, webRtcTransports, ufragMap, tupleMap, status, conns, aborted, dangling>>
  BY DEF OnNonStunDataReceived
<1> HIDE DEF w
<1> DEFINE i == ice[w]
           j == [i EXCEPT !.selected = s]
<1>4. IceOK(i) /\ ice \in [Served -> Ices] /\ i \in Ices
  BY <1>1 DEF ServerInv, AgentsOK, IceOK
<1>5. w \in Alive
  BY <1>1, <1>2 DEF ServerInv, AgentsOK, NoIce
<1>6. ice' = [ice EXCEPT ![w] = j]
  BY <1>1, <1>2, <1>4
<1>7. s \in Listed(i) /\ s \in RemoteTuples
  BY <1>2, <1>4, SamePeer DEF Same
<1>8. j \in Ices /\ j.tuples = i.tuples /\ j.ufrag = i.ufrag /\ j.oldUfrag = i.oldUfrag /\ j.selected = s
  BY <1>4, <1>7, Zenon DEF Ices
<1>9. Listed(j) = Listed(i)
  BY <1>8 DEF Listed
<1>10. i.tuples # << >>
  BY <1>7 DEF Listed
<1> HIDE DEF j
<1>11. IceOK(j)
  BY <1>4, <1>7, <1>8, <1>9, <1>10 DEF IceOK
<1>12. i.ufrag # Nobody /\ i.ufrag # i.oldUfrag
  BY <1>1, <1>5 DEF ServerInv, AgentsOK
<1>13. AgentsOK'
  BY <1>3, <1>5, <1>6, <1>8, <1>11, <1>12, OneAgent, Zenon
<1>14. ice'[w] = j /\ \A v \in Served : v # w => ice'[v] = ice[v]
  BY <1>1, <1>4, <1>6
<1>15. \A v \in Served : Listed(ice'[v]) = Listed(ice[v]) /\ ice'[v].ufrag = ice[v].ufrag
                         /\ ice'[v].oldUfrag = ice[v].oldUfrag
  BY <1>8, <1>9, <1>14
<1>16. PeersOf' = PeersOf /\ FragsOf' = FragsOf
  BY <1>15 DEF PeersOf, FragsOf
<1>17. StatusOK' /\ Exact(tupleMap', PeersOf') /\ Exact(ufragMap', FragsOf')
  BY <1>3, <1>16 DEF ServerInv, StatusOK, Alive
<1>18. ConnsOK'
  BY <1>3, <1>15, Zenon DEF ServerInv, ConnsOK, Tcp, IsTcp
<1> QED BY <1>13, <1>17, <1>18 DEF ServerInv

\* A TCP connection is accepted; the tables do not change until it brings a packet.
LEMMA AcceptInv ==
    ASSUME ServerInv, NEW t \in RemoteTuples, AcceptTcpConnection(t)
    PROVE  ServerInv'
<1>1. UNCHANGED <<server, webRtcTransports, ufragMap, tupleMap, status, ice, aborted, dangling>>
      /\ IsTcp(t) /\ conns' = [conns EXCEPT ![t] = "open"]
  BY DEF AcceptTcpConnection
<1>2. StatusOK' /\ AgentsOK' /\ PeersOf' = PeersOf /\ FragsOf' = FragsOf
  <2>1. StatusOK /\ AgentsOK
    BY DEF ServerInv
  <2>2. Alive' = Alive
    BY <1>1, Zenon DEF Alive
  <2>3. StatusOK'
    BY <1>1, <2>1, <2>2, Zenon DEF StatusOK
  <2> QED BY <1>1, <2>1, <2>2, <2>3, SameAgents, Zenon
<1>3. Exact(tupleMap', PeersOf') /\ Exact(ufragMap', FragsOf')
  BY <1>1, <1>2 DEF ServerInv
<1>4. ConnsOK'
  <2>1. conns \in [Tcp -> {"none", "open", "closed"}]
    BY DEF ServerInv, ConnsOK
  <2>2. conns' \in [Tcp -> {"none", "open", "closed"}]
        /\ \A x \in Tcp : conns[x] = "open" => conns'[x] = "open"
    BY <1>1, <2>1, Zenon
  <2>3. \A w \in Served : \A x \in Listed(ice[w]) : x \in RemoteTuples
    BY SamePeer DEF ServerInv, AgentsOK
  <2>4. \A w \in Served : \A x \in Listed(ice[w]) : IsTcp(x) => conns'[x] = "open"
    BY <2>2, <2>3 DEF ServerInv, ConnsOK, Tcp
  <2>5. Tcp' = Tcp
    BY Zenon DEF Tcp, IsTcp
  <2>6. \A w \in Served : Listed(ice[w])' = Listed(ice[w])
    BY <1>1, Zenon DEF Listed
  <2> QED BY <2>2, <2>4, <2>5, <2>6, Zenon DEF ConnsOK, IsTcp
<1> QED BY <1>2, <1>3, <1>4 DEF ServerInv

\* A lost connection takes the one stored tuple of its peer along.
LEMMA TcpClosedInv ==
    ASSUME ServerInv, NEW t \in RemoteTuples, OnTcpConnectionClosed(t)
    PROVE  ServerInv'
<1> DEFINE rest == [conns EXCEPT ![t] = "none"]
<1>0. /\ Exact(tupleMap, PeersOf) /\ ice \in [Served -> Ices]
      /\ conns \in [Tcp -> {"none", "open", "closed"}]
      /\ \A v \in Served : IceOK(ice[v])
  BY DEF ServerInv, AgentsOK, ConnsOK
<1>1. IsTcp(t) /\ t \in Tcp /\ UNCHANGED <<server, webRtcTransports, ufragMap, status, aborted, dangling>>
  BY DEF OnTcpConnectionClosed, Tcp
<1>2. /\ rest \in [Tcp -> {"none", "open", "closed"}]
      /\ \A x \in Tcp : x # t => rest[x] = conns[x]
  BY <1>0, <1>1
<1>3. \A v \in Served : PeersOf[v] = Peers(Listed(ice[v])) /\ PeersOf'[v] = Peers(Listed(ice'[v]))
  BY DEF PeersOf
<1>4. StatusOK'
  BY <1>1 DEF ServerInv, StatusOK, Alive
<1>5. \A v \in Served : \A x \in Listed(ice[v]) : x \in RemoteTuples /\ (IsTcp(x) => conns[x] = "open")
  BY <1>0, SamePeer DEF ServerInv, ConnsOK
<1>6. CASE t.peer \in DOMAIN tupleMap
  <2> DEFINE w == tupleMap[t.peer]
             S == Same(ice[w], t)
             j == Removed(ice[w], t)
  <2>1. w \in Served /\ t.peer \in PeersOf[w]
    BY <1>0, <1>6 DEF Exact
  <2>2. ice' = [ice EXCEPT ![w] = j] /\ tupleMap' = Without(tupleMap, Peers(S)) /\ conns' = ClosedBy(rest, S)
    BY <1>6, Zenon DEF OnTcpConnectionClosed
  <2>3. IceOK(j) /\ Listed(j) = Listed(ice[w]) \ S /\ j.ufrag = ice[w].ufrag /\ j.oldUfrag = ice[w].oldUfrag
    BY <1>0, <2>1, RemovedFacts, Zenon
  <2> HIDE DEF j
  <2>4. w \in Alive
    <3>1. Listed(ice[w]) # {}
      BY <1>3, <2>1 DEF Peers
    <3> QED BY <2>1, <3>1, ListedFacts DEF ServerInv, AgentsOK
  <2>5. Peers(S) = {t.peer}
    BY <1>3, <2>1 DEF Same, Peers
  <2>6. \A x \in Listed(ice[w]) : x \in S <=> x.peer = t.peer
    BY DEF Same
  <2> HIDE DEF S
  <2>7. ice[w].ufrag # Nobody /\ ice[w].ufrag # ice[w].oldUfrag
    BY <2>1, <2>4 DEF ServerInv, AgentsOK
  <2> HIDE DEF w
  <2>8. AgentsOK'
    BY <1>1, <2>2, <2>3, <2>4, <2>7, OneAgent, Zenon
  <2>9. ice'[w] = j /\ \A v \in Served : v # w => ice'[v] = ice[v]
    BY <1>0, <2>1, <2>2
  <2>10. FragsOf' = FragsOf
    BY <2>3, <2>9 DEF FragsOf
  <2>11. \A v \in Served : v # w => t.peer \notin PeersOf[v]
    BY <1>0, <2>1 DEF Exact
  <2>12. PeersOf'[w] = PeersOf[w] \ Peers(S)
    <3>1. Peers(Listed(ice[w]) \ S) = Peers(Listed(ice[w])) \ {t.peer}
      BY <2>6 DEF Peers
    <3> QED BY <1>3, <2>1, <2>3, <2>5, <2>9, <3>1, Zenon
  <2>13. \A v \in Served : PeersOf'[v] = PeersOf[v] \ Peers(S)
    BY <1>3, <2>5, <2>9, <2>11, <2>12, Zenon
  <2>14. Exact(tupleMap', PeersOf')
    BY <1>0, <2>2, <2>13, WithoutExact
  <2>15. ConnsOK'
    <3>1. conns' \in [Tcp -> {"none", "open", "closed"}] /\ \A x \in Tcp : x \notin S => conns'[x] = rest[x]
      BY <1>2, <2>2 DEF ClosedBy
    <3>2. S \subseteq Listed(ice[w]) /\ \A x \in S : x.peer = t.peer
      BY DEF S, Same
    <3>3. ASSUME NEW v \in Served, NEW x \in Listed(ice'[v]), IsTcp(x) PROVE conns'[x] = "open"
      <4>1. x \in Listed(ice[v])
        BY <2>3, <2>9, <3>3
      <4>2. x.peer # t.peer
        <5>1. CASE v = w
          BY <2>3, <2>6, <2>9, <3>3, <5>1
        <5>2. CASE v # w
          BY <1>3, <2>11, <4>1, <5>2 DEF Peers
        <5> QED BY <5>1, <5>2
      <4>3. x \in Tcp /\ x # t /\ x \notin S
        BY <1>5, <3>2, <3>3, <4>1, <4>2 DEF Tcp
      <4> QED BY <1>2, <1>5, <3>1, <3>3, <4>1, <4>3
    <3> QED BY <3>1, <3>3 DEF ConnsOK, Tcp, IsTcp
  <2> QED BY <1>1, <1>4, <2>8, <2>10, <2>14, <2>15 DEF ServerInv
<1>7. CASE t.peer \notin DOMAIN tupleMap
  <2>1. conns' = rest /\ ice' = ice /\ tupleMap' = tupleMap
    BY <1>7, Zenon DEF OnTcpConnectionClosed
  <2>2. AgentsOK' /\ PeersOf' = PeersOf /\ FragsOf' = FragsOf
    <3>1. AgentsOK
      BY DEF ServerInv
    <3>2. Alive' = Alive
      BY <1>1, Zenon DEF Alive
    <3> QED BY <2>1, <3>1, <3>2, SameAgents, Zenon
  <2>3. \A v \in Served : t.peer \notin PeersOf[v]
    BY <1>0, <1>7, Zenon DEF Exact
  <2>4. \A v \in Served : t \notin Listed(ice[v])
    BY <1>3, <2>3 DEF Peers
  <2>5. \A v \in Served : \A x \in Listed(ice[v]) : IsTcp(x) => conns'[x] = "open"
    BY <1>2, <1>5, <2>1, <2>4 DEF Tcp
  <2>6. ConnsOK'
    BY <1>2, <2>1, <2>5 DEF ConnsOK, Tcp, IsTcp, Listed
  <2> QED BY <1>1, <1>4, <2>1, <2>2, <2>6 DEF ServerInv
<1> QED BY <1>6, <1>7

\* A transport registers itself and its fragment with the server.
LEMMA CreateInv ==
    ASSUME ServerInv, NEW w \in Served, NEW f \in Ufrags, CreateTransport(w, f)
    PROVE  ServerInv'
<1>1. /\ status[w] = "none" /\ FreshUfrag(f)
      /\ webRtcTransports' = webRtcTransports \cup {w}
      /\ UNCHANGED <<server, tupleMap, conns, dangling>>
  BY DEF CreateTransport
<1>2. /\ ice \in [Served -> Ices] /\ ice[w] = NoIce /\ w \notin Alive
      /\ status \in [Served -> {"none", "alive", "failed", "closed"}]
      /\ Exact(ufragMap, FragsOf) /\ aborted = FALSE
  BY <1>1, Zenon DEF ServerInv, AgentsOK, StatusOK, Alive
<1>3. CASE /\ status' = [status EXCEPT ![w] = "alive"] /\ ice' = [ice EXCEPT ![w].ufrag = f]
           /\ AddUfrag(w, f)
  <2> DEFINE j == [NoIce EXCEPT !.ufrag = f]
  <2>1. ice'[w] = j /\ (\A v \in Served : v # w => ice'[v] = ice[v]) /\ ice' = [ice EXCEPT ![w] = j]
    BY <1>2, <1>3
  <2>2. j \in Ices /\ j.tuples = << >> /\ j.selected = Nobody /\ j.ufrag = f /\ j.oldUfrag = Nobody
    <3>1. NoIce \in Ices /\ NoIce.tuples = << >> /\ NoIce.selected = Nobody /\ NoIce.oldUfrag = Nobody
      BY ListedFacts DEF NoIce
    <3> QED BY <3>1 DEF Ices
  <2>3. f # Nobody
    BY ServerAssumption
  <2>4. Listed(j) = {}
    BY <2>2 DEF Listed
  <2> HIDE DEF j
  <2>5. IceOK(j)
    BY <2>2, ServerAssumption DEF IceOK, Distinct
  <2>6. Alive' = Alive \cup {w}
    BY <1>2, <1>3 DEF Alive
  <2>7. AgentsOK'
    <3>1. ice' \in [Served -> Ices]
      BY <1>2, <2>1, <2>2
    <3>2. \A v \in Served :
              /\ IceOK(ice'[v])
              /\ IF v \in Alive' THEN ice'[v].ufrag # Nobody /\ ice'[v].ufrag # ice'[v].oldUfrag
                                 ELSE ice'[v] = NoIce
      BY <2>1, <2>2, <2>3, <2>5, <2>6 DEF ServerInv, AgentsOK
    <3>3. \A v \in Served : IceOK(ice[v])' <=> IceOK(ice'[v])
      BY DEF IceOK, Listed, Distinct
    <3> QED BY <3>1, <3>2, <3>3, Zenon DEF AgentsOK
  <2>8. \A v \in Served : Listed(ice'[v]) = Listed(ice[v])
    BY <1>2, <2>1, <2>4, ListedFacts
  <2>9. PeersOf' = PeersOf
    BY <2>8 DEF PeersOf
  <2>10. FragsOf[w] = {} /\ FragsOf'[w] = {f} /\ \A v \in Served : v # w => FragsOf'[v] = FragsOf[v]
    BY <1>2, <2>1, <2>2, <2>3 DEF FragsOf, NoIce
  <2>11. f \notin DOMAIN ufragMap
    <3>1. \A v \in Served : f \notin FragsOf[v]
      BY <1>1 DEF FreshUfrag, FragsOf
    <3> QED BY <1>2, <3>1 DEF Exact
  <2>12. ufragMap' = Put(ufragMap, f, w) /\ aborted' = FALSE
    <3>1. ufragMap' = Put(ufragMap, f, w) /\ aborted' = (f \in DOMAIN ufragMap)
      BY <1>3 DEF AddUfrag
    <3>2. (f \in DOMAIN ufragMap) = FALSE
      BY <2>11
    <3> QED BY <3>1, <3>2, Zenon
  <2>13. FragsOf'[w] = FragsOf[w] \cup {f}
    BY <2>10
  <2>14. Exact(ufragMap', FragsOf')
    BY <1>2, <2>10, <2>11, <2>12, <2>13, PutExact, SMTT(30)
  <2>15. StatusOK'
    BY <1>1, <1>2, <1>3, <2>6, <2>12 DEF ServerInv, StatusOK
  <2>16. ConnsOK'
    BY <1>1, <2>8 DEF ServerInv, ConnsOK, Tcp, IsTcp
  <2> QED BY <1>1, <2>7, <2>9, <2>14, <2>15, <2>16 DEF ServerInv
<1>4. CASE status' = [status EXCEPT ![w] = "failed"] /\ UNCHANGED <<ice, ufragMap, aborted>>
  <2>1. Alive' = Alive
    BY <1>2, <1>4 DEF Alive
  <2>2. AgentsOK' /\ PeersOf' = PeersOf /\ FragsOf' = FragsOf
    <3>1. AgentsOK
      BY DEF ServerInv
    <3> QED BY <1>4, <2>1, <3>1, SameAgents, Zenon
  <2>3. StatusOK'
    BY <1>1, <1>2, <1>4, <2>1 DEF ServerInv, StatusOK
  <2>4. ConnsOK'
    BY <1>1, <1>4 DEF ServerInv, ConnsOK, Tcp, IsTcp, Listed
  <2> QED BY <1>1, <1>4, <2>2, <2>3, <2>4 DEF ServerInv
<1> QED BY <1>3, <1>4 DEF CreateTransport

\* A restart retires the oldest fragment and keeps the current one beside the new.
LEMMA RestartInv ==
    ASSUME ServerInv, NEW w \in Served, NEW f \in Ufrags, RestartIceOf(w, f)
    PROVE  ServerInv'
<1> DEFINE i == ice[w]
           old == i.oldUfrag
           j == [i EXCEPT !.ufrag = f, !.oldUfrag = i.ufrag]
<1>1. /\ w \in Alive /\ FreshUfrag(f)
      /\ ice' = [ice EXCEPT ![w].ufrag = f, ![w].oldUfrag = i.ufrag]
      /\ ufragMap' = Put(Without(ufragMap, {old}), f, w)
      /\ aborted' = ~({old} \ {Nobody} \subseteq DOMAIN ufragMap \ {f})
      /\ UNCHANGED <<server, webRtcTransports, tupleMap, status, conns, dangling>>
  BY DEF RestartIceOf
<1>2. /\ ice \in [Served -> Ices] /\ i \in Ices /\ IceOK(i) /\ i.ufrag # Nobody /\ i.ufrag # old
      /\ Exact(ufragMap, FragsOf)
  BY <1>1 DEF ServerInv, AgentsOK
<1>3. f # Nobody /\ f # i.ufrag /\ f # old
  BY <1>1, ServerAssumption DEF FreshUfrag
<1>4. ice' = [ice EXCEPT ![w] = j]
  BY <1>1, <1>2, Zenon
<1>5. j \in Ices /\ j.tuples = i.tuples /\ j.selected = i.selected /\ j.ufrag = f /\ j.oldUfrag = i.ufrag
  BY <1>2, Zenon DEF Ices
<1>6. Listed(j) = Listed(i)
  BY <1>5 DEF Listed
<1> HIDE DEF j
<1>7. IceOK(j)
  BY <1>2, <1>5, <1>6 DEF IceOK
<1>8. AgentsOK'
  BY <1>1, <1>3, <1>4, <1>5, <1>7, OneAgent, Zenon
<1>9. ice'[w] = j /\ \A v \in Served : v # w => ice'[v] = ice[v]
  BY <1>2, <1>4
<1>10. \A v \in Served : Listed(ice'[v]) = Listed(ice[v])
  BY <1>6, <1>9
<1>11. PeersOf' = PeersOf
  BY <1>10 DEF PeersOf
<1>12. /\ FragsOf[w] = {i.ufrag, old} \ {Nobody} /\ FragsOf'[w] = {f, i.ufrag} \ {Nobody}
       /\ \A v \in Served : v # w => FragsOf'[v] = FragsOf[v]
  BY <1>5, <1>9 DEF FragsOf
<1>13. f \notin DOMAIN ufragMap
  <2>1. \A v \in Served : f \notin FragsOf[v]
    BY <1>1 DEF FreshUfrag, FragsOf
  <2> QED BY <1>2, <2>1 DEF Exact
<1>14. /\ \A v \in Served : v # w => old \notin FragsOf[v]
       /\ old # Nobody => old \in DOMAIN ufragMap
  <2>1. CASE old = Nobody
    BY <2>1 DEF FragsOf
  <2>2. CASE old # Nobody
    <3>1. old \in FragsOf[w]
      BY <1>12, <2>2
    <3> QED BY <1>2, <3>1 DEF Exact
  <2> QED BY <2>1, <2>2
<1>15. Exact(ufragMap', FragsOf')
  <2> DEFINE own1 == [v \in Served |-> FragsOf[v] \ {old}]
             m1 == Without(ufragMap, {old})
  <2>1. \A v \in Served : own1[v] = FragsOf[v] \ {old}
    OBVIOUS
  <2> HIDE DEF own1
  <2>2. Exact(m1, own1)
    BY <1>2, <2>1, WithoutExact
  <2>3. f \notin DOMAIN m1
    BY <1>13 DEF Without
  <2>4. FragsOf'[w] = own1[w] \cup {f}
    BY <1>2, <1>3, <1>12, <2>1
  <2>5. \A v \in Served : v # w => FragsOf'[v] = own1[v]
    <3>1. \A v \in Served : v # w => own1[v] = FragsOf[v]
      BY <1>14, <2>1, Zenon
    <3> QED BY <1>12, <3>1
  <2> HIDE DEF m1
  <2>6. Exact(Put(m1, f, w), FragsOf')
    BY <2>2, <2>3, <2>4, <2>5, PutExact
  <2> QED BY <1>1, <2>6 DEF m1
<1>16. aborted' = FALSE
  BY <1>1, <1>3, <1>14, Zenon
<1>17. StatusOK'
  BY <1>1, <1>16 DEF ServerInv, StatusOK, Alive
<1>18. ConnsOK'
  BY <1>1, <1>10, Zenon DEF ServerInv, ConnsOK, Tcp, IsTcp
<1> QED BY <1>1, <1>8, <1>11, <1>15, <1>17, <1>18 DEF ServerInv

\* Closed transports leave nothing of theirs in the tables, and take nothing else.
LEMMA DestroyInv ==
    ASSUME ServerInv, NEW ws \in SUBSET Alive, DestroyTransports(ws)
    PROVE  /\ AgentsOK' /\ Exact(tupleMap', PeersOf') /\ Exact(ufragMap', FragsOf')
           /\ aborted' = FALSE /\ status' \in [Served -> {"none", "alive", "failed", "closed"}]
           /\ webRtcTransports' = Alive' \cup {w \in Served : status'[w] = "failed"}
           /\ \A v \in Served : Listed(ice'[v]) = IF v \in ws THEN {} ELSE Listed(ice[v])
<1>0. /\ ice \in [Served -> Ices] /\ Exact(ufragMap, FragsOf) /\ Exact(tupleMap, PeersOf)
      /\ status \in [Served -> {"none", "alive", "failed", "closed"}]
      /\ webRtcTransports = Alive \cup {w \in Served : status[w] = "failed"}
      /\ ws \subseteq Served
  BY Zenon DEF ServerInv, AgentsOK, StatusOK, Alive
<1>1. /\ status' = [w \in Served |-> IF w \in ws THEN "closed" ELSE status[w]]
      /\ ice' = [w \in Served |-> IF w \in ws THEN NoIce ELSE ice[w]]
      /\ ufragMap' = Without(ufragMap, UfragsOf(ws)) /\ aborted' = ~(UfragsOf(ws) \subseteq DOMAIN ufragMap)
      /\ tupleMap' = Without(tupleMap, Peers(TuplesOf(ws)))
      /\ webRtcTransports' = webRtcTransports \ ws
  BY DEF DestroyTransports, RemoveUfrags
<1>2. \A v \in Served : ice'[v] = IF v \in ws THEN NoIce ELSE ice[v]
  BY <1>1
<1>3. Alive' = Alive \ ws
  BY <1>1, Zenon DEF Alive
<1>4. status' \in [Served -> {"none", "alive", "failed", "closed"}]
  BY <1>0, <1>1
<1>5. webRtcTransports' = Alive' \cup {w \in Served : status'[w] = "failed"}
  <2>1. {w \in Served : status'[w] = "failed"} = {w \in Served : status[w] = "failed"}
    BY <1>1 DEF Alive
  <2>2. \A w \in ws : status[w] # "failed"
    BY DEF Alive
  <2> QED BY <1>0, <1>1, <1>3, <2>1, <2>2
<1>6. AgentsOK'
  <2>1. ice' \in [Served -> Ices]
    BY <1>0, <1>1, ListedFacts
  <2>2. \A v \in Served :
            /\ IceOK(ice'[v])
            /\ IF v \in Alive' THEN ice'[v].ufrag # Nobody /\ ice'[v].ufrag # ice'[v].oldUfrag
                               ELSE ice'[v] = NoIce
    BY <1>2, <1>3, ListedFacts, Zenon DEF ServerInv, AgentsOK
  <2>3. \A v \in Served : IceOK(ice[v])' <=> IceOK(ice'[v])
    BY DEF IceOK, Listed, Distinct
  <2> QED BY <2>1, <2>2, <2>3, Zenon DEF AgentsOK
<1>7. \A v \in Served : Listed(ice'[v]) = IF v \in ws THEN {} ELSE Listed(ice[v])
  BY <1>2, ListedFacts, Zenon
<1>8. \A v \in Served : PeersOf[v] = Peers(Listed(ice[v])) /\ PeersOf'[v] = Peers(Listed(ice'[v]))
  BY DEF PeersOf
<1>9. \A p : p \in Peers(TuplesOf(ws)) <=> \E w \in ws : p \in PeersOf[w]
  <2>1. \A p : p \in Peers(TuplesOf(ws)) <=> \E w \in ws : p \in Peers(Listed(ice[w]))
    BY DEF Peers, TuplesOf
  <2> QED BY <1>0, <1>8, <2>1
<1>10. \A v \in Served : PeersOf'[v] = PeersOf[v] \ Peers(TuplesOf(ws))
  <2>1. \A v, w \in Served : v # w => PeersOf[v] \cap PeersOf[w] = {}
    BY <1>0 DEF Exact
  <2>2. Peers({}) = {}
    BY DEF Peers
  <2>3. ASSUME NEW v \in Served, v \in ws PROVE PeersOf'[v] = PeersOf[v] \ Peers(TuplesOf(ws))
    BY <1>7, <1>8, <1>9, <2>2, <2>3, Zenon
  <2>4. ASSUME NEW v \in Served, v \notin ws PROVE PeersOf'[v] = PeersOf[v] \ Peers(TuplesOf(ws))
    <3>1. PeersOf'[v] = PeersOf[v]
      BY <1>7, <1>8, <2>4
    <3>2. \A p \in PeersOf[v] : p \notin Peers(TuplesOf(ws))
      BY <1>0, <1>9, <2>1, <2>4
    <3> QED BY <3>1, <3>2
  <2> QED BY <2>3, <2>4
<1>11. Exact(tupleMap', PeersOf')
  BY <1>0, <1>1, <1>10, WithoutExact
<1>12. \A f : f \in UfragsOf(ws) <=> \E w \in ws : f \in FragsOf[w]
  <2>1. \A f : f \in UfragsOf(ws) <=> \E w \in ws : f \in {ice[w].ufrag, ice[w].oldUfrag} \ {Nobody}
    BY DEF UfragsOf
  <2>2. \A w \in ws : FragsOf[w] = {ice[w].ufrag, ice[w].oldUfrag} \ {Nobody}
    BY <1>0, Zenon DEF FragsOf
  <2> QED BY <2>1, <2>2
<1>13. \A v \in Served : FragsOf'[v] = FragsOf[v] \ UfragsOf(ws)
  <2>1. \A v, w \in Served : v # w => FragsOf[v] \cap FragsOf[w] = {}
    BY <1>0 DEF Exact
  <2>2. ASSUME NEW v \in Served, v \in ws PROVE FragsOf'[v] = FragsOf[v] \ UfragsOf(ws)
    <3>1. FragsOf'[v] = {}
      BY <1>2, <2>2, SMTT(30) DEF FragsOf, NoIce
    <3> QED BY <1>12, <2>2, <3>1
  <2>3. ASSUME NEW v \in Served, v \notin ws PROVE FragsOf'[v] = FragsOf[v] \ UfragsOf(ws)
    <3>1. FragsOf'[v] = FragsOf[v]
      BY <1>2, <2>3, Zenon DEF FragsOf
    <3>2. \A p \in FragsOf[v] : p \notin UfragsOf(ws)
      BY <1>0, <1>12, <2>1, <2>3, Zenon
    <3> QED BY <3>1, <3>2, Zenon
  <2> QED BY <2>2, <2>3
<1>14. Exact(ufragMap', FragsOf')
  BY <1>0, <1>1, <1>13, WithoutExact, SMTT(30)
<1>15. aborted' = FALSE
  <2>1. UfragsOf(ws) \subseteq DOMAIN ufragMap
    BY <1>0, <1>12 DEF Exact
  <2> QED BY <1>1, <2>1, Zenon
<1> QED BY <1>4, <1>5, <1>6, <1>7, <1>11, <1>14, <1>15

\* ~WebRtcTransport() withdraws all its tuples and fragments.
LEMMA CloseTransportInv ==
    ASSUME ServerInv, NEW w \in Served, CloseTransport(w)
    PROVE  ServerInv'
<1>1. /\ w \in Alive /\ {w} \in SUBSET Alive /\ DestroyTransports({w})
      /\ conns' = ClosedBy(conns, TuplesOf({w})) /\ UNCHANGED <<server, dangling>>
  BY DEF CloseTransport
<1>2. /\ AgentsOK' /\ Exact(tupleMap', PeersOf') /\ Exact(ufragMap', FragsOf')
      /\ aborted' = FALSE /\ status' \in [Served -> {"none", "alive", "failed", "closed"}]
      /\ webRtcTransports' = Alive' \cup {v \in Served : status'[v] = "failed"}
      /\ \A v \in Served : Listed(ice'[v]) = IF v \in {w} THEN {} ELSE Listed(ice[v])
  BY <1>1, DestroyInv, Zenon
<1>3. StatusOK'
  BY <1>1, <1>2, Zenon DEF ServerInv, StatusOK
<1>4. ConnsOK'
  <2>0. conns \in [Tcp -> {"none", "open", "closed"}] /\ Exact(tupleMap, PeersOf)
    BY DEF ServerInv, ConnsOK
  <2>1. TuplesOf({w}) = Listed(ice[w])
    BY DEF TuplesOf
  <2>2. conns' \in [Tcp -> {"none", "open", "closed"}]
        /\ \A x \in Tcp : x \notin Listed(ice[w]) => conns'[x] = conns[x]
    BY <1>1, <2>0, <2>1, ClosedByFacts, Zenon
  <2>3. \A v \in Served : \A x \in Listed(ice[v]) : x \in RemoteTuples /\ (IsTcp(x) => conns[x] = "open")
    BY SamePeer, Zenon DEF ServerInv, AgentsOK, ConnsOK
  <2>4. ASSUME NEW v \in Served, NEW x \in Listed(ice'[v]), IsTcp(x) PROVE conns'[x] = "open"
    <3>1. v # w /\ x \in Listed(ice[v])
      BY <1>2, <2>4
    <3>2. x \notin Listed(ice[w])
      <4>1. PeersOf[v] \cap PeersOf[w] = {}
        BY <2>0, <3>1 DEF Exact
      <4>2. \A u \in Served : PeersOf[u] = Peers(Listed(ice[u]))
        BY DEF PeersOf
      <4> QED BY <3>1, <4>1, <4>2 DEF Peers
    <3> QED BY <2>2, <2>3, <2>4, <3>1, <3>2, Zenon DEF Tcp
  <2> QED BY <2>2, <2>4 DEF ConnsOK, Tcp, IsTcp
<1> QED BY <1>2, <1>3, <1>4, Zenon DEF ServerInv

\* ~WebRtcServer() closes its transports.
LEMMA CloseServerInv ==
    ASSUME ServerInv, CloseServer
    PROVE  ServerInv'
<1>1. /\ Alive \in SUBSET Alive /\ DestroyTransports(Alive)
      /\ conns' = [t \in DOMAIN conns |-> "none"] /\ server' \in {"closed", "crashed"}
  BY DEF CloseServer
<1>2. /\ AgentsOK' /\ Exact(tupleMap', PeersOf') /\ Exact(ufragMap', FragsOf')
      /\ aborted' = FALSE /\ status' \in [Served -> {"none", "alive", "failed", "closed"}]
      /\ webRtcTransports' = Alive' \cup {v \in Served : status'[v] = "failed"}
      /\ \A v \in Served : Listed(ice'[v]) = IF v \in Alive THEN {} ELSE Listed(ice[v])
  BY <1>1, DestroyInv, Zenon
<1>3. StatusOK'
  BY <1>1, <1>2 DEF StatusOK
<1>4. \A v \in Served : Listed(ice'[v]) = {}
  BY <1>2, ListedFacts, Zenon DEF ServerInv, AgentsOK
<1>5. ConnsOK'
  <2>1. conns' \in [Tcp -> {"none", "open", "closed"}]
    BY <1>1 DEF ServerInv, ConnsOK
  <2> QED BY <1>4, <2>1 DEF ConnsOK, Tcp, IsTcp
<1> QED BY <1>2, <1>3, <1>5 DEF ServerInv

\* Every packet, connection, restart and closure keeps the invariant.
LEMMA ServerNextInv == ServerInv /\ [ServerNext]_serverVars => ServerInv'
<1> SUFFICES ASSUME ServerInv, [ServerNext]_serverVars PROVE ServerInv'
  OBVIOUS
<1>1. CASE UNCHANGED serverVars
  <2>0. StatusOK'
    BY <1>1, Zenon DEF serverVars, ServerInv, StatusOK, Alive
  <2>1. AgentsOK'
    BY <1>1, Zenon DEF serverVars, ServerInv, AgentsOK, Alive
  <2>a. PeersOf' = PeersOf /\ FragsOf' = FragsOf
    BY <1>1, Zenon DEF serverVars, PeersOf, FragsOf, Alive, Listed
  <2>2. ConnsOK'
    BY <1>1, Zenon DEF serverVars, ServerInv, ConnsOK, Tcp, IsTcp, Listed
  <2> QED BY <1>1, <2>0, <2>1, <2>a, <2>2 DEF serverVars, ServerInv
<1>2. CASE ServerNext
  BY <1>2, StunInv, NonStunInv, AcceptInv, TcpClosedInv, CreateInv, RestartInv, CloseTransportInv,
     CloseServerInv DEF ServerNext
<1> QED BY <1>1, <1>2

-----------------------------------------------------------------------------
\* For any number of transports, peers and username fragments, what arrives at a
\* WebRtcServer goes to the live transport it is for and to no other: its two tables hold
\* what the live transports have, through evictions, restarts, retired fragments, lost
\* connections and closures; no transport keeps a tuple of a closed connection; and the
\* assertions about the fragments hold.  (WebRtcServer.cpp, IceServer.cpp.)
THEOREM ServerRouting == ServerSpec => []RoutingExact
BY ServerInitInv, ServerNextInv, ServerInvImplies, PTL DEF ServerSpec

-----------------------------------------------------------------------------
(* WebRtcTransport *)

USE RolesAssumption


\* Once connect() was called the role is settled.
RoleSettled == connectCalled => dtlsRole # "auto"

IInv ==
    /\ TypeOK
    /\ RoleSettled
    /\ ConnectedIsVerified
    /\ NoConsumerLeftBehind
    /\ NobodyToldWhenClosed
    /\ RunsInAgreedRole

DtlsRecords ==
    [localRole : {"none", "client", "server"},
     state : {"new", "connecting", "connected", "closed", "failed"},
     handshakeDone : BOOLEAN, timer : BOOLEAN, cert : {"none", "good", "bad"}]

Clean(d) == IsRunning(d) \/ (~d.timer /\ ~d.handshakeDone /\ d.localRole = "none")

\* Reset() leaves nothing of the last run.
LEMMA ResetFacts ==
    ASSUME NEW d \in DtlsRecords, Clean(d)
    PROVE  /\ Reset(d) \in DtlsRecords
           /\ Reset(d).localRole = "none"
           /\ ~Reset(d).timer /\ ~Reset(d).handshakeDone
           /\ Reset(d).state \in {"new", "closed", "failed"}
BY DEF DtlsRecords, Clean, IsRunning, Reset

LEMMA FailFacts ==
    ASSUME NEW d \in DtlsRecords, Clean(d)
    PROVE  /\ Fail(d) \in DtlsRecords
           /\ Clean(Fail(d))
           /\ Fail(d).state = "failed"
<1>1. Reset(d) \in DtlsRecords /\ Reset(d).localRole = "none"
      /\ ~Reset(d).timer /\ ~Reset(d).handshakeDone
  BY ResetFacts
<1> QED BY <1>1 DEF Fail, Clean, DtlsRecords

\* Running DTLS either does nothing or starts a handshake in the role given.
LEMMA MayRunFacts ==
    ASSUME NEW d \in DtlsRecords, Clean(d), NEW role \in {"auto", "client", "server"}, NEW up
    PROVE  LET m == MayRun(d, role, up) IN
           /\ m \in DtlsRecords /\ Clean(m)
           /\ \/ m = d /\ (d.localRole = role \/ ~Up(up)
                             \/ (role = "auto" /\ d.localRole = "server"))
              \/ /\ m.state = "connecting"
                 /\ m.localRole = IF role = "auto" THEN "server" ELSE role
<1> DEFINE run == IF role = "auto" THEN "server" ELSE role
           base == IF d.localRole = "none" THEN d ELSE Reset(d)
<1>1. base \in DtlsRecords
  BY ResetFacts
<1>2. run \in {"client", "server"}
  OBVIOUS
<1>3. CASE d.localRole = role \/ ~Up(up)
  BY <1>3 DEF MayRun
<1>4. CASE ~(d.localRole = role \/ ~Up(up)) /\ d.localRole = run
  <2>1. MayRun(d, role, up) = d
    BY <1>4 DEF MayRun, Run
  <2>2. role = "auto" /\ d.localRole = "server"
    BY <1>4
  <2> QED BY <2>1, <2>2
<1>5. CASE ~(d.localRole = role \/ ~Up(up)) /\ d.localRole # run
  <2>1. MayRun(d, role, up) = [base EXCEPT !.localRole = run, !.state = "connecting",
                                            !.timer = (run = "client")]
    BY <1>5 DEF MayRun, Run
  <2> QED BY <2>1, <1>1, <1>2, Zenon DEF DtlsRecords, Clean, IsRunning
<1> QED BY <1>3, <1>4, <1>5

\* Facts of the invariant in the terms of the lemmas above.
LEMMA Facts ==
    ASSUME IInv
    PROVE  /\ dtls \in DtlsRecords /\ Clean(dtls)
           /\ dtlsRole \in {"auto", "client", "server"}
           /\ remoteRole \in RemoteRoles \cup {"none"}
           /\ consumers \subseteq Consumers /\ told \subseteq consumers
           /\ rtcpTimer \in BOOLEAN /\ selected \in BOOLEAN /\ alive \in BOOLEAN
           /\ iceState \in {"new", "connected", "completed", "disconnected"}
BY DEF IInv, TypeOK, DtlsRecords, Clean

LEMMA TypeFrom ==
    ASSUME dtls' \in DtlsRecords, Clean(dtls'),
           dtlsRole' \in {"auto", "client", "server"},
           remoteRole' \in RemoteRoles \cup {"none"},
           consumers' \subseteq Consumers, told' \subseteq consumers',
           rtcpTimer' \in BOOLEAN, selected' \in BOOLEAN, alive' \in BOOLEAN,
           iceState' \in {"new", "connected", "completed", "disconnected"}
    PROVE  TypeOK'
BY DEF TypeOK, DtlsRecords, Clean, IsRunning

LEMMA IceUpPreserves == ASSUME IInv, IceUp PROVE IInv'
<1> USE Facts DEF connectCalled
<1> DEFINE m == MayRun(dtls, dtlsRole, iceState')
<1>1. /\ iceState' \in {"connected", "completed"} /\ Up(iceState')
      /\ alive' = alive /\ selected' = TRUE
  BY DEF IceUp, Ice!Connect, Ice!Complete, Ice!Become, Ice!Connectivity, Up
<1>2. /\ dtls' = m /\ dtlsRole' = RoleOnceUp(dtlsRole, iceState')
      /\ remoteRole' = remoteRole /\ consumers' = consumers
  BY DEF IceUp
<1>3. /\ m \in DtlsRecords /\ Clean(m)
      /\ \/ m = dtls /\ (dtls.localRole = dtlsRole
                          \/ (dtlsRole = "auto" /\ dtls.localRole = "server"))
         \/ /\ m.state = "connecting"
            /\ m.localRole = IF dtlsRole = "auto" THEN "server" ELSE dtlsRole
  BY <1>1, MayRunFacts
<1>4. dtlsRole' = IF dtlsRole = "auto" THEN "server" ELSE dtlsRole
  BY <1>1, <1>2 DEF RoleOnceUp
<1>5. /\ told' \subseteq consumers' /\ rtcpTimer' \in BOOLEAN
      /\ m.state = "connected" => told' = consumers' /\ rtcpTimer' = TRUE
      /\ m.state # "connected" => told' = told /\ rtcpTimer' = rtcpTimer
  BY <1>2, Zenon DEF IceUp, Connected, Untold
<1>6. TypeOK'
  BY <1>1, <1>2, <1>3, <1>4, <1>5, TypeFrom
<1>7. RoleSettled'
  BY <1>2, <1>4 DEF RoleSettled
<1>8. ConnectedIsVerified'
  BY <1>2, <1>3 DEF IInv, ConnectedIsVerified
<1>9. NoConsumerLeftBehind'
  BY <1>2, <1>5 DEF NoConsumerLeftBehind, IsConnected
<1>10. NobodyToldWhenClosed'
  BY <1>2, <1>3, <1>5 DEF IInv, NobodyToldWhenClosed
<1>11. RunsInAgreedRole'
  BY <1>2, <1>3, <1>4 DEF RunsInAgreedRole, IInv, RoleSettled
<1> HIDE DEF connectCalled
<1> QED BY <1>6, <1>7, <1>8, <1>9, <1>10, <1>11 DEF IInv

LEMMA ConnectPreserves ==
    ASSUME IInv, NEW r \in RemoteRoles, TransportConnect(r)
    PROVE  IInv'
<1> USE Facts DEF connectCalled
<1> DEFINE set == SetRemoteFingerprint(dtls)
           m == MayRun(set, LocalRole(r), iceState)
<1>1. /\ ~connectCalled /\ remoteRole' = r /\ r # "none"
      /\ dtlsRole' = LocalRole(r) /\ LocalRole(r) \in {"client", "server"}
      /\ consumers' = consumers
      /\ iceState' = iceState /\ selected' = selected /\ alive' = alive
  BY DEF TransportConnect, LocalRole, iceVars
<1>2. dtls.state # "connected"
  BY <1>1 DEF IInv, ConnectedIsVerified
<1>3. /\ set \in DtlsRecords /\ Clean(set)
      /\ \/ set = dtls
         \/ set.state = "failed"
         \/ set.state = "connected" /\ set.handshakeDone /\ set.cert = "good"
  <2>1. CASE dtls.handshakeDone /\ dtls.cert = "good"
    BY <2>1, <1>2 DEF SetRemoteFingerprint, ProcessHandshake, DtlsRecords, Clean, IsRunning
  <2>2. CASE dtls.handshakeDone /\ dtls.cert # "good"
    <3>1. set = Fail(dtls)
      BY <2>2, <1>2 DEF SetRemoteFingerprint, ProcessHandshake
    <3> QED BY <3>1, FailFacts
  <2>3. CASE ~dtls.handshakeDone
    BY <2>3 DEF SetRemoteFingerprint
  <2> QED BY <2>1, <2>2, <2>3
<1>4. /\ m \in DtlsRecords /\ Clean(m)
      /\ \/ m = set /\ (set.localRole = LocalRole(r) \/ ~Up(iceState))
         \/ m.state = "connecting" /\ m.localRole = LocalRole(r)
  BY <1>1, <1>3, MayRunFacts
<1>5. \/ dtls' = m
      \/ dtls' = set /\ set.state = "failed"
  BY DEF TransportConnect
<1>6. /\ told' \subseteq consumers' /\ rtcpTimer' \in BOOLEAN
      /\ set.state = "connected" => told' = consumers' /\ rtcpTimer' = TRUE
      /\ set.state # "connected" => told' = told /\ rtcpTimer' = rtcpTimer
  BY <1>1, Zenon DEF TransportConnect, Connected, Untold
<1>7. TypeOK'
  <2>1. dtls' \in DtlsRecords /\ Clean(dtls')
    BY <1>3, <1>4, <1>5
  <2> QED BY <2>1, <1>1, <1>6, TypeFrom
<1>8. RoleSettled'
  BY <1>1 DEF RoleSettled
<1>9. ConnectedIsVerified'
  BY <1>1, <1>2, <1>3, <1>4, <1>5 DEF ConnectedIsVerified
<1>10. NoConsumerLeftBehind'
  BY <1>2, <1>3, <1>4, <1>5, <1>6 DEF NoConsumerLeftBehind, IsConnected
<1>11. NobodyToldWhenClosed'
  BY <1>3, <1>4, <1>5, <1>6 DEF IInv, NobodyToldWhenClosed
<1>12. RunsInAgreedRole'
  BY <1>1, <1>3, <1>4, <1>5 DEF RunsInAgreedRole, IsRunning
<1> HIDE DEF connectCalled
<1> QED BY <1>7, <1>8, <1>9, <1>10, <1>11, <1>12 DEF IInv

LEMMA HandshakeDonePreserves ==
    ASSUME IInv, NEW cert \in {"good", "bad"}, HandshakeDone(cert)
    PROVE  IInv'
<1> USE Facts DEF connectCalled
<1> DEFINE done == [dtls EXCEPT !.handshakeDone = TRUE, !.timer = FALSE, !.cert = cert]
<1>1. /\ UNCHANGED <<iceState, selected, alive, dtlsRole, remoteRole, consumers>>
      /\ Up(iceState) /\ IsRunning(dtls) /\ ~dtls.handshakeDone
  BY DEF HandshakeDone, Receiving, iceVars
<1>2. dtls.state = "connecting"
  BY <1>1 DEF IInv, ConnectedIsVerified, IsRunning
<1>3. /\ done \in DtlsRecords /\ Clean(done) /\ done.state = "connecting"
      /\ done.localRole = dtls.localRole /\ done.handshakeDone /\ done.cert = cert
  BY <1>1, <1>2, Zenon DEF DtlsRecords, Clean, IsRunning
<1>4. /\ dtls' \in DtlsRecords /\ Clean(dtls')
      /\ \/ dtls'.state = "connecting" /\ dtls'.localRole = dtls.localRole
         \/ dtls'.state = "failed"
         \/ /\ dtls'.state = "connected" /\ dtls'.localRole = dtls.localRole
            /\ connectCalled /\ dtls'.handshakeDone /\ dtls'.cert = "good"
  <2>1. CASE ~connectCalled
    BY <2>1, <1>3 DEF HandshakeDone
  <2>2. CASE connectCalled /\ cert # "good"
    <3>1. dtls' = Fail(done)
      BY <2>2, <1>3 DEF HandshakeDone, ProcessHandshake
    <3> QED BY <3>1, <1>3, FailFacts
  <2>3. CASE connectCalled /\ cert = "good"
    <3>1. dtls' = [done EXCEPT !.state = "connected"]
      BY <2>3, <1>3 DEF HandshakeDone, ProcessHandshake
    <3> QED BY <3>1, <2>3, <1>3, Zenon DEF DtlsRecords, Clean, IsRunning
  <2> QED BY <2>1, <2>2, <2>3
<1>5. /\ told' \subseteq consumers' /\ rtcpTimer' \in BOOLEAN
      /\ dtls'.state = "connected" => told' = consumers' /\ rtcpTimer' = TRUE
  BY <1>1, Zenon DEF HandshakeDone, Connected, Untold
<1>6. TypeOK'
  BY <1>1, <1>4, <1>5, TypeFrom
<1>7. RoleSettled' /\ ConnectedIsVerified' /\ NobodyToldWhenClosed'
  BY <1>1, <1>4 DEF IInv, RoleSettled, ConnectedIsVerified, NobodyToldWhenClosed
<1>8. NoConsumerLeftBehind'
  BY <1>5 DEF NoConsumerLeftBehind, IsConnected
<1>9. RunsInAgreedRole'
  BY <1>1, <1>4 DEF IInv, RunsInAgreedRole, IsRunning
<1> HIDE DEF connectCalled
<1> QED BY <1>6, <1>7, <1>8, <1>9 DEF IInv

LEMMA ShutDownPreserves == ASSUME IInv, ShutDown PROVE IInv'
<1> USE Facts DEF connectCalled
<1>1. /\ UNCHANGED <<iceState, selected, alive, dtlsRole, remoteRole, consumers>>
  BY DEF ShutDown, Receiving, iceVars
<1>2. /\ Reset(dtls) \in DtlsRecords /\ Reset(dtls).localRole = "none"
      /\ ~Reset(dtls).timer /\ ~Reset(dtls).handshakeDone
  BY ResetFacts
<1>3. /\ dtls' \in DtlsRecords /\ Clean(dtls')
      /\ dtls'.state = IF dtls.state = "connected" THEN "closed" ELSE "failed"
  BY <1>2 DEF ShutDown, DtlsRecords, Clean, IsRunning
<1>4. /\ told' \subseteq consumers' /\ rtcpTimer' \in BOOLEAN
      /\ dtls.state = "connected" => told' = {} /\ ~rtcpTimer'
  BY <1>1, Zenon DEF ShutDown, Disconnected, Untold
<1>5. TypeOK'
  BY <1>1, <1>3, <1>4, TypeFrom
<1>6. RoleSettled' /\ ConnectedIsVerified' /\ NobodyToldWhenClosed' /\ NoConsumerLeftBehind'
      /\ RunsInAgreedRole'
  BY <1>1, <1>3, <1>4 DEF IInv, RoleSettled, ConnectedIsVerified, NobodyToldWhenClosed,
                          NoConsumerLeftBehind, IsConnected, RunsInAgreedRole, IsRunning
<1> HIDE DEF connectCalled
<1> QED BY <1>5, <1>6 DEF IInv

LEMMA OnTimerPreserves == ASSUME IInv, OnTimer \/ HandshakeGoesOn PROVE IInv'
<1> USE Facts DEF connectCalled
<1>1. UNCHANGED <<iceState, selected, alive, dtlsRole, remoteRole, consumers, told, rtcpTimer>>
  BY DEF OnTimer, HandshakeGoesOn, iceVars, parentVars
<1>2. IsRunning(dtls)
  BY DEF OnTimer, HandshakeGoesOn, Receiving, Clean
<1>3. /\ dtls' \in DtlsRecords /\ Clean(dtls')
      /\ \/ dtls'.state = "failed"
         \/ /\ dtls'.state = dtls.state /\ dtls'.localRole = dtls.localRole
            /\ dtls'.handshakeDone = dtls.handshakeDone /\ dtls'.cert = dtls.cert
  <2>1. CASE dtls' = Fail(dtls)
    BY <2>1, FailFacts
  <2>2. CASE \E b \in BOOLEAN : dtls' = [dtls EXCEPT !.timer = b]
    BY <2>2, <1>2 DEF DtlsRecords, Clean, IsRunning
  <2> QED BY <2>1, <2>2, Zenon DEF OnTimer, HandshakeGoesOn
<1>4. TypeOK'
  BY <1>1, <1>3, TypeFrom
<1>5. RoleSettled' /\ ConnectedIsVerified' /\ NobodyToldWhenClosed' /\ NoConsumerLeftBehind'
      /\ RunsInAgreedRole'
  BY <1>1, <1>3 DEF IInv, RoleSettled, ConnectedIsVerified, NobodyToldWhenClosed,
                    NoConsumerLeftBehind, IsConnected, RunsInAgreedRole, IsRunning, Up
<1> HIDE DEF connectCalled
<1> QED BY <1>4, <1>5 DEF IInv

LEMMA DestroyPreserves == ASSUME IInv, Destroy PROVE IInv'
<1> USE Facts DEF connectCalled
<1>1. /\ UNCHANGED <<dtlsRole, remoteRole>>
      /\ consumers' = {} /\ told' = {} /\ rtcpTimer' = FALSE
      /\ dtls' = Reset(dtls)
      /\ iceState' \in {"new", "connected", "completed", "disconnected"}
      /\ selected' \in BOOLEAN /\ alive' \in BOOLEAN
  BY Zenon DEF Destroy, Disconnected, Ice!Destroyed
<1>2. /\ dtls' \in DtlsRecords /\ dtls'.localRole = "none"
      /\ ~dtls'.timer /\ ~dtls'.handshakeDone
      /\ dtls'.state \in {"new", "closed", "failed"}
  BY <1>1, ResetFacts
<1>3. TypeOK'
  BY <1>1, <1>2, TypeFrom, Zenon DEF Clean
<1>4. RoleSettled' /\ ConnectedIsVerified' /\ NobodyToldWhenClosed' /\ NoConsumerLeftBehind'
      /\ RunsInAgreedRole'
  BY <1>1, <1>2 DEF IInv, RoleSettled, ConnectedIsVerified, NobodyToldWhenClosed,
                    NoConsumerLeftBehind, IsConnected, RunsInAgreedRole, IsRunning
<1> HIDE DEF connectCalled
<1> QED BY <1>3, <1>4 DEF IInv

LEMMA IceDownPreserves == ASSUME IInv, IceDown PROVE IInv'
<1> USE Facts DEF connectCalled
<1>1. /\ UNCHANGED <<dtlsRole, remoteRole, dtls, consumers>>
      /\ iceState' = "disconnected" /\ selected' \in BOOLEAN /\ alive' \in BOOLEAN
  BY DEF IceDown, Ice!Disconnect, Ice!Become
<1>2. /\ told' \subseteq consumers' /\ rtcpTimer' \in BOOLEAN
      /\ \/ told' = {} /\ rtcpTimer' = FALSE
         \/ UNCHANGED <<told, rtcpTimer>>
  BY <1>1, Zenon DEF IceDown, Disconnected, Untold
<1>3. ~Up(iceState')
  BY <1>1 DEF Up, Ice!Connectivity
<1>4. TypeOK'
  BY <1>1, <1>2, TypeFrom
<1>5. RoleSettled' /\ ConnectedIsVerified' /\ NobodyToldWhenClosed' /\ NoConsumerLeftBehind'
      /\ RunsInAgreedRole'
  BY <1>1, <1>2, <1>3 DEF IInv, RoleSettled, ConnectedIsVerified, NobodyToldWhenClosed,
                          NoConsumerLeftBehind, IsConnected, RunsInAgreedRole
<1> HIDE DEF connectCalled
<1> QED BY <1>4, <1>5 DEF IInv

LEMMA ConsumersPreserve ==
    ASSUME IInv, NEW c \in Consumers, Consume(c) \/ CloseConsumer(c)
    PROVE  IInv'
<1> USE Facts DEF connectCalled
<1>1. UNCHANGED <<iceState, selected, alive, dtlsRole, remoteRole, dtls, rtcpTimer>>
  BY DEF Consume, CloseConsumer, iceVars
<1>2. consumers' \subseteq Consumers /\ told' \subseteq consumers'
  BY DEF Consume, CloseConsumer
<1>3. TypeOK'
  BY <1>1, <1>2, TypeFrom
<1>4. NoConsumerLeftBehind'
  BY <1>1 DEF IInv, NoConsumerLeftBehind, IsConnected, Consume, CloseConsumer, Up
<1>5. NobodyToldWhenClosed'
  BY <1>1 DEF IInv, NobodyToldWhenClosed, IsConnected, Consume, CloseConsumer
<1>6. RoleSettled' /\ ConnectedIsVerified' /\ RunsInAgreedRole'
  BY <1>1 DEF IInv, RoleSettled, ConnectedIsVerified, RunsInAgreedRole, IsRunning, Up
<1> HIDE DEF connectCalled
<1> QED BY <1>3, <1>4, <1>5, <1>6 DEF IInv

LEMMA InitIInv == Init => IInv
<1> SUFFICES ASSUME Init PROVE IInv
  OBVIOUS
<1>1. /\ dtls.state = "new" /\ ~dtls.timer /\ ~dtls.handshakeDone /\ dtls.localRole = "none"
      /\ dtls \in DtlsRecords
  BY DEF Init, DtlsRecords
<1>2. TypeOK
  BY <1>1, Zenon DEF Init, Ice!AgentInit, TypeOK, DtlsRecords
<1>3. /\ RoleSettled /\ ConnectedIsVerified /\ NoConsumerLeftBehind
      /\ NobodyToldWhenClosed /\ RunsInAgreedRole
  BY <1>1 DEF Init, RoleSettled, ConnectedIsVerified, connectCalled, NoConsumerLeftBehind,
              NobodyToldWhenClosed, RunsInAgreedRole, IsConnected
<1> QED BY <1>2, <1>3 DEF IInv

LEMMA StutterPreserves == ASSUME IInv, UNCHANGED vars PROVE IInv'
BY DEF IInv, TypeOK, RoleSettled, ConnectedIsVerified, connectCalled, NoConsumerLeftBehind,
       NobodyToldWhenClosed, RunsInAgreedRole, IsConnected, IsRunning, Up, vars, iceVars,
       parentVars

LEMMA StepPreserves == IInv /\ [Next]_vars => IInv'
<1> SUFFICES ASSUME IInv, [Next]_vars PROVE IInv'
  OBVIOUS
<1>1. ASSUME NEW c \in Consumers, Consume(c) \/ CloseConsumer(c) PROVE IInv'
  BY <1>1, ConsumersPreserve
<1>2. CASE IceUp
  BY <1>2, IceUpPreserves
<1>3. CASE IceDown
  BY <1>3, IceDownPreserves
<1>4. ASSUME NEW r \in RemoteRoles, TransportConnect(r) PROVE IInv'
  BY <1>4, ConnectPreserves
<1>5. CASE OnTimer \/ HandshakeGoesOn
  BY <1>5, OnTimerPreserves
<1>6. ASSUME NEW cert \in {"good", "bad"}, HandshakeDone(cert) PROVE IInv'
  BY <1>6, HandshakeDonePreserves
<1>7. CASE ShutDown
  BY <1>7, ShutDownPreserves
<1>8. CASE Destroy
  BY <1>8, DestroyPreserves
<1>9. CASE UNCHANGED vars
  BY <1>9, StutterPreserves
<1> QED
  BY <1>1, <1>2, <1>3, <1>4, <1>5, <1>6, <1>7, <1>8, <1>9 DEF Next

LEMMA Invariance == Spec => []IInv
BY InitIInv, StepPreserves, PTL DEF Spec

\* Every variable keeps its type, and a DTLS transport that is not running holds
\* no timer, role or handshake of an earlier run.
THEOREM TypeCorrect == Spec => []TypeOK
<1>1. IInv => TypeOK
  BY DEF IInv
<1> QED BY <1>1, Invariance, PTL

\* However connect(), ICE and the peer's handshake are ordered, DTLS is
\* connected only over a certificate checked against the given fingerprint.
THEOREM Verified == Spec => []ConnectedIsVerified
<1>1. IInv => ConnectedIsVerified
  BY DEF IInv
<1> QED BY <1>1, Invariance, PTL

\* Whenever the transport is connected, every Consumer it has was told so and
\* its RTCP timer runs.
THEOREM EveryConsumerTold == Spec => []NoConsumerLeftBehind
<1>1. IInv => NoConsumerLeftBehind
  BY DEF IInv
<1> QED BY <1>1, Invariance, PTL

\* Once the peer closed DTLS no Consumer believes it is connected.
THEOREM ClosedIsTold == Spec => []NobodyToldWhenClosed
<1>1. IInv => NobodyToldWhenClosed
  BY DEF IInv
<1> QED BY <1>1, Invariance, PTL

\* With connectivity, DTLS runs in the role connect() settled.
THEOREM AgreedRole == Spec => []RunsInAgreedRole
<1>1. IInv => RunsInAgreedRole
  BY DEF IInv
<1> QED BY <1>1, Invariance, PTL

\* DTLS connects in the agreed role and over the announced certificate only.
THEOREM AsAgreed == Spec => []ConnectsAsAgreed
<1>1. ConnectedIsVerified /\ RunsInAgreedRole /\ NobodyToldWhenClosed => ConnectsAsAgreed
  BY DEF ConnectsAsAgreed
<1> QED BY <1>1, Verified, AgreedRole, ClosedIsTold, PTL
=============================================================================
