--------------------------- MODULE SceneSessionProofs ---------------------------
(***************************************************************************)
(* Proofs about SceneSession, for every number of machines and messages:   *)
(* every pick is answered to the client once and in order, none is lost.   *)
(* The scenes are followed on every machine (Followed = Machines); their   *)
(* contents do not matter here.                                            *)
(***************************************************************************)
EXTENDS SceneSession, FiniteSetTheorems, TLAPS

USE SessionAssumption

(***************************************************************************)
(* Sequences of messages and the picks among them.                         *)
(***************************************************************************)

LEMMA TailFacts ==
  ASSUME NEW S, NEW s \in Seq(S), s # <<>>
  PROVE  /\ Tail(s) \in Seq(S) /\ Len(Tail(s)) = Len(s) - 1 /\ Head(s) = s[1] /\ Head(s) \in S
         /\ Len(s) \in Nat /\ 1 \in 1 .. Len(s)
         /\ \A k \in 1 .. Len(Tail(s)) : Tail(s)[k] = s[k + 1] /\ k + 1 \in 1 .. Len(s)
         /\ \A k \in 1 .. Len(s) : k # 1 => k - 1 \in 1 .. Len(Tail(s)) /\ s[k] = Tail(s)[k - 1]
  OBVIOUS

LEMMA ElementFacts ==
  ASSUME NEW S, NEW s \in Seq(S)
  PROVE  DOMAIN s = 1 .. Len(s) /\ Len(s) \in Nat /\ \A k \in 1 .. Len(s) : s[k] \in S
  OBVIOUS

LEMMA AppendFacts ==
  ASSUME NEW S, NEW s \in Seq(S), NEW e \in S
  PROVE  /\ Append(s, e) \in Seq(S) /\ Len(s) \in Nat /\ Len(Append(s, e)) = Len(s) + 1
         /\ Append(s, e)[Len(s) + 1] = e
         /\ \A k \in 1 .. Len(s) : Append(s, e)[k] = s[k]
  OBVIOUS

LEMMA ConcatFacts ==
  ASSUME NEW S, NEW s \in Seq(S), NEW t \in Seq(S)
  PROVE  /\ s \o t \in Seq(S) /\ Len(s \o t) = Len(s) + Len(t)
         /\ \A k \in 1 .. Len(s) : (s \o t)[k] = s[k] /\ k \in 1 .. Len(s \o t)
         /\ \A k \in 1 .. Len(t) : (s \o t)[Len(s) + k] = t[k] /\ Len(s) + k \in 1 .. Len(s \o t)
         /\ \A k \in 1 .. Len(s \o t) :
              \/ k \in 1 .. Len(s)
              \/ k > Len(s) /\ k - Len(s) \in 1 .. Len(t) /\ (s \o t)[k] = t[k - Len(s)]
  OBVIOUS

LEMMA PicksMembers ==
  ASSUME NEW S, NEW s \in Seq(S)
  PROVE  /\ \A p : p \in Picks(s) <=> \E k \in 1 .. Len(s) : p = s[k] /\ s[k].kind = "PICK"
         /\ InOrder(s) <=> \A i, j \in 1 .. Len(s) :
              i < j /\ s[i].kind = "PICK" /\ s[j].kind = "PICK" => s[i].key < s[j].key
<1>1. DOMAIN s = 1 .. Len(s) BY ElementFacts
<1> QED BY <1>1 DEF Picks, InOrder

LEMMA PicksTail ==
  ASSUME NEW S, NEW s \in Seq(S), s # <<>>
  PROVE  /\ \A p : p \in Picks(s) <=> (p = Head(s) /\ p.kind = "PICK") \/ p \in Picks(Tail(s))
         /\ InOrder(s) => /\ InOrder(Tail(s))
                          /\ Head(s).kind = "PICK" => \A p \in Picks(Tail(s)) : Head(s).key < p.key
<1>1. /\ Tail(s) \in Seq(S) /\ Len(Tail(s)) = Len(s) - 1 /\ Head(s) = s[1] /\ Len(s) \in Nat /\ 1 \in 1 .. Len(s)
      /\ \A k \in 1 .. Len(Tail(s)) : Tail(s)[k] = s[k + 1] /\ k + 1 \in 1 .. Len(s)
      /\ \A k \in 1 .. Len(s) : k # 1 => k - 1 \in 1 .. Len(Tail(s)) /\ s[k] = Tail(s)[k - 1]
  BY TailFacts
<1>m. /\ \A p : p \in Picks(s) <=> \E k \in 1 .. Len(s) : p = s[k] /\ s[k].kind = "PICK"
      /\ \A p : p \in Picks(Tail(s)) <=> \E k \in 1 .. Len(Tail(s)) : p = Tail(s)[k] /\ Tail(s)[k].kind = "PICK"
  BY <1>1, PicksMembers
<1>2. ASSUME NEW p PROVE p \in Picks(s) <=> (p = Head(s) /\ p.kind = "PICK") \/ p \in Picks(Tail(s))
  <2>1. ASSUME p \in Picks(s), p # Head(s) PROVE p \in Picks(Tail(s))
    <3>1. PICK k \in 1 .. Len(s) : p = s[k] /\ s[k].kind = "PICK" BY <1>m, <2>1
    <3>2. k # 1 BY <1>1, <2>1, <3>1
    <3>3. k - 1 \in 1 .. Len(Tail(s)) /\ s[k] = Tail(s)[k - 1] BY <1>1, <3>2
    <3> QED BY <1>m, <3>1, <3>3
  <2>2. p = Head(s) /\ p.kind = "PICK" => p \in Picks(s) BY <1>1, <1>m
  <2>3. ASSUME p \in Picks(Tail(s)) PROVE p \in Picks(s)
    <3>1. PICK k \in 1 .. Len(Tail(s)) : p = Tail(s)[k] /\ Tail(s)[k].kind = "PICK" BY <1>m, <2>3
    <3> QED BY <1>1, <1>m, <3>1
  <2>4. p \in Picks(s) => p.kind = "PICK" BY <1>m
  <2> QED BY <2>1, <2>2, <2>3, <2>4
<1>3. ASSUME InOrder(s) PROVE InOrder(Tail(s))
  <2> SUFFICES ASSUME NEW i \in 1 .. Len(Tail(s)), NEW j \in 1 .. Len(Tail(s)), i < j,
                      Tail(s)[i].kind = "PICK", Tail(s)[j].kind = "PICK"
               PROVE  Tail(s)[i].key < Tail(s)[j].key
    BY <1>1, PicksMembers
  <2>1. i + 1 \in 1 .. Len(s) /\ j + 1 \in 1 .. Len(s) /\ i + 1 < j + 1 BY <1>1
  <2>2. Tail(s)[i] = s[i + 1] /\ Tail(s)[j] = s[j + 1] BY <1>1
  <2> QED BY <1>3, <2>1, <2>2, PicksMembers
<1>4. ASSUME InOrder(s), Head(s).kind = "PICK", NEW p \in Picks(Tail(s)) PROVE Head(s).key < p.key
  <2>1. PICK k \in 1 .. Len(Tail(s)) : p = Tail(s)[k] /\ Tail(s)[k].kind = "PICK" BY <1>m, <1>4
  <2>2. k + 1 \in 1 .. Len(s) /\ 1 < k + 1 /\ p = s[k + 1] /\ s[k + 1].kind = "PICK" BY <1>1, <2>1
  <2> QED BY <1>1, <1>4, <2>2, PicksMembers
<1> QED BY <1>2, <1>3, <1>4

LEMMA PicksAppend ==
  ASSUME NEW S, NEW s \in Seq(S), NEW e \in S
  PROVE  /\ \A p : p \in Picks(Append(s, e)) <=> p \in Picks(s) \/ (p = e /\ p.kind = "PICK")
         /\ InOrder(s) /\ (e.kind = "PICK" => \A p \in Picks(s) : p.key < e.key)
              => InOrder(Append(s, e))
<1> DEFINE t == Append(s, e)
<1>1. /\ t \in Seq(S) /\ Len(s) \in Nat /\ Len(t) = Len(s) + 1 /\ t[Len(s) + 1] = e
      /\ \A k \in 1 .. Len(s) : t[k] = s[k]
  BY AppendFacts
<1> HIDE DEF t
<1>2. ASSUME NEW p PROVE p \in Picks(t) <=> p \in Picks(s) \/ (p = e /\ p.kind = "PICK")
  <2>1. p \in Picks(t) => p \in Picks(s) \/ (p = e /\ p.kind = "PICK")
    <3>1. \A k \in 1 .. Len(t) : k \in 1 .. Len(s) \/ k = Len(s) + 1 BY <1>1
    <3> QED BY <1>1, <3>1, PicksMembers
  <2>2. p \in Picks(s) => p \in Picks(t)
    <3>1. \A k \in 1 .. Len(s) : k \in 1 .. Len(t) BY <1>1
    <3> QED BY <1>1, <3>1, PicksMembers
  <2>3. p = e /\ p.kind = "PICK" => p \in Picks(t)
    <3>1. Len(s) + 1 \in 1 .. Len(t) BY <1>1
    <3> QED BY <1>1, <3>1, PicksMembers
  <2> QED BY <2>1, <2>2, <2>3
<1>3. ASSUME InOrder(s), e.kind = "PICK" => \A p \in Picks(s) : p.key < e.key
      PROVE  InOrder(t)
  <2> SUFFICES ASSUME NEW i \in 1 .. Len(t), NEW j \in 1 .. Len(t), i < j, t[i].kind = "PICK", t[j].kind = "PICK"
               PROVE  t[i].key < t[j].key
    BY <1>1, PicksMembers
  <2>1. i \in 1 .. Len(s) /\ t[i] = s[i] BY <1>1
  <2>2. CASE j \in 1 .. Len(s) BY <1>1, <1>3, <2>1, <2>2, PicksMembers
  <2>3. CASE j = Len(s) + 1
    <3>1. t[i] \in Picks(s) BY <2>1, PicksMembers
    <3> QED BY <1>1, <1>3, <2>3, <3>1
  <2> QED BY <1>1, <2>2, <2>3
<1> QED BY <1>2, <1>3 DEF t

LEMMA PicksConcat ==
  ASSUME NEW S, NEW s \in Seq(S), NEW t \in Seq(S)
  PROVE  /\ \A p : p \in Picks(s \o t) <=> p \in Picks(s) \/ p \in Picks(t)
         /\ InOrder(s) /\ InOrder(t) /\ (\A p \in Picks(s), q \in Picks(t) : p.key < q.key)
              => InOrder(s \o t)
<1> DEFINE u == s \o t
<1>1. /\ u \in Seq(S) /\ Len(s) \in Nat /\ Len(t) \in Nat
      /\ \A k \in 1 .. Len(s) : u[k] = s[k] /\ k \in 1 .. Len(u)
      /\ \A k \in 1 .. Len(t) : u[Len(s) + k] = t[k] /\ Len(s) + k \in 1 .. Len(u)
      /\ \A k \in 1 .. Len(u) :
           \/ k \in 1 .. Len(s)
           \/ k > Len(s) /\ k - Len(s) \in 1 .. Len(t) /\ u[k] = t[k - Len(s)]
  BY ConcatFacts, ElementFacts
<1> HIDE DEF u
<1>m. /\ \A p : p \in Picks(s) <=> \E k \in 1 .. Len(s) : p = s[k] /\ s[k].kind = "PICK"
      /\ \A p : p \in Picks(t) <=> \E k \in 1 .. Len(t) : p = t[k] /\ t[k].kind = "PICK"
      /\ \A p : p \in Picks(u) <=> \E k \in 1 .. Len(u) : p = u[k] /\ u[k].kind = "PICK"
  BY <1>1, PicksMembers
<1>2. ASSUME NEW p PROVE p \in Picks(u) <=> p \in Picks(s) \/ p \in Picks(t)
  <2>1. ASSUME p \in Picks(u) PROVE p \in Picks(s) \/ p \in Picks(t)
    <3>1. PICK k \in 1 .. Len(u) : p = u[k] /\ u[k].kind = "PICK" BY <1>m, <2>1
    <3>2. CASE k \in 1 .. Len(s) BY <1>1, <1>m, <3>1, <3>2
    <3>3. CASE k - Len(s) \in 1 .. Len(t) /\ u[k] = t[k - Len(s)] BY <1>m, <3>1, <3>3
    <3> QED BY <1>1, <3>2, <3>3
  <2>2. ASSUME p \in Picks(s) PROVE p \in Picks(u)
    <3>1. PICK k \in 1 .. Len(s) : p = s[k] /\ s[k].kind = "PICK" BY <1>m, <2>2
    <3> QED BY <1>1, <1>m, <3>1
  <2>3. ASSUME p \in Picks(t) PROVE p \in Picks(u)
    <3>1. PICK k \in 1 .. Len(t) : p = t[k] /\ t[k].kind = "PICK" BY <1>m, <2>3
    <3> QED BY <1>1, <1>m, <3>1
  <2> QED BY <2>1, <2>2, <2>3
<1>3. ASSUME InOrder(s), InOrder(t), \A p \in Picks(s), q \in Picks(t) : p.key < q.key
      PROVE  InOrder(u)
  <2> SUFFICES ASSUME NEW i \in 1 .. Len(u), NEW j \in 1 .. Len(u), i < j, u[i].kind = "PICK", u[j].kind = "PICK"
               PROVE  u[i].key < u[j].key
    BY <1>1, PicksMembers
  <2>1. CASE i \in 1 .. Len(s) /\ j \in 1 .. Len(s) BY <1>1, <1>3, <2>1, PicksMembers
  <2>2. CASE i \in 1 .. Len(s) /\ j - Len(s) \in 1 .. Len(t) /\ u[j] = t[j - Len(s)]
    <3>1. u[i] \in Picks(s) /\ u[j] \in Picks(t) BY <1>1, <1>m, <2>2
    <3> QED BY <1>3, <3>1
  <2>3. CASE /\ i - Len(s) \in 1 .. Len(t) /\ u[i] = t[i - Len(s)]
             /\ j - Len(s) \in 1 .. Len(t) /\ u[j] = t[j - Len(s)]
    <3>1. i - Len(s) < j - Len(s) BY <1>1
    <3> QED BY <1>3, <2>3, <3>1, PicksMembers
  <2> QED BY <1>1, <2>1, <2>2, <2>3
<1> QED BY <1>2, <1>3 DEF u

LEMMA PicksEmpty ==
  ASSUME NEW S, NEW s \in Seq(S), \A k \in 1 .. Len(s) : s[k].kind # "PICK"
  PROVE  Picks(s) = {} /\ InOrder(s)
  BY PicksMembers

LEMMA PicksTyped ==
  /\ \A s \in Seq(SceneMessage \cup JsonMessage) : Picks(s) \subseteq PickMessage
  /\ \A s \in Seq(JsonMessage) : Picks(s) \subseteq PickMessage
  /\ \A s \in Seq(PickMessage) : Picks(s) \subseteq PickMessage
<1>1. \A e \in SceneMessage \cup JsonMessage : e.kind = "PICK" => e \in PickMessage
  BY DEF SceneMessage, RdlMessage, GeometryMessage, JsonMessage, OtherMessage, RoiMessage, RdlKinds
<1>2. ASSUME NEW S, S \subseteq SceneMessage \cup JsonMessage, NEW s \in Seq(S)
      PROVE  Picks(s) \subseteq PickMessage
  <2>1. \A k \in 1 .. Len(s) : s[k] \in S BY ElementFacts
  <2> QED BY <1>1, <1>2, <2>1, PicksMembers
<1>3. /\ JsonMessage \subseteq SceneMessage \cup JsonMessage
      /\ PickMessage \subseteq SceneMessage \cup JsonMessage
  BY DEF JsonMessage
<1> QED BY <1>2, <1>3

(***************************************************************************)
(* Numbers given by the dispatch computation.                              *)
(***************************************************************************)

(* Counting up to a message that needs a number gives more than counting to any message before it. *)
LEMMA NumberedFacts ==
  /\ \A n \in Nat : Numbered(n) \in Nat
  /\ \A i, n \in Nat : i <= n => Numbered(i) <= Numbered(n)
  /\ \A i, n \in Nat : i < n /\ NeedsNumber(jsonUpdates[n]) => Numbered(i) < Numbered(n)
<1> DEFINE C(n) == {i \in 1 .. n : NeedsNumber(jsonUpdates[i])}
<1>1. \A n \in Nat : IsFiniteSet(C(n)) /\ Cardinality(C(n)) \in Nat
  <2> TAKE n \in Nat
  <2>1. IsFiniteSet(1 .. n) BY FS_Interval
  <2>2. C(n) \in SUBSET (1 .. n) OBVIOUS
  <2>3. IsFiniteSet(C(n)) BY <2>1, <2>2, FS_Subset
  <2> QED BY <2>3, FS_CardinalityType
<1>2. ASSUME NEW i \in Nat, NEW n \in Nat, i <= n
      PROVE  /\ Cardinality(C(i)) <= Cardinality(C(n))
             /\ i < n /\ NeedsNumber(jsonUpdates[n]) => Cardinality(C(i)) < Cardinality(C(n))
  <2>1. C(i) \in SUBSET C(n) BY <1>2
  <2>2. i < n /\ NeedsNumber(jsonUpdates[n]) => C(i) # C(n)
    <3> HAVE i < n /\ NeedsNumber(jsonUpdates[n])
    <3>1. n \in C(n) /\ n \notin C(i) OBVIOUS
    <3> QED BY <3>1
  <2>3. /\ Cardinality(C(i)) <= Cardinality(C(n))
        /\ Cardinality(C(n)) = Cardinality(C(i)) => C(n) = C(i)
    BY <1>1, <2>1, FS_Subset
  <2>4. Cardinality(C(i)) \in Nat /\ Cardinality(C(n)) \in Nat BY <1>1
  <2> QED BY <2>2, <2>3, <2>4
<1> HIDE DEF C
<1>3. \A n : Numbered(n) = Cardinality(C(n)) BY DEF Numbered, C
<1>4. \A i, n \in Nat : i < n => i <= n OBVIOUS
<1> QED BY <1>1, <1>2, <1>3, <1>4

(* What is forwarded of the picks: the same ones in the same order; those
   without a number get one larger than any before it. *)
LEMMA NumberedPicks ==
  ASSUME jsonUpdates \in Seq(JsonMessage), jsonSyncId \in Nat \cup {UNDEFINED}
  PROVE  LET last == jsonSyncId + Numbered(Len(jsonUpdates)) IN
         /\ numberedJson \in Seq(JsonMessage)
         /\ last \in Nat \cup {UNDEFINED} /\ last >= jsonSyncId
         /\ \A p \in Picks(jsonUpdates) : \E q \in Picks(numberedJson) : q.key = p.key
         /\ \A q \in Picks(numberedJson) : \E p \in Picks(jsonUpdates) :
              /\ q.key = p.key
              /\ IF p.arg = UNDEFINED THEN q.arg \in jsonSyncId + 1 .. last ELSE q.arg = p.arg
         /\ InOrder(jsonUpdates) =>
              /\ InOrder(numberedJson)
              /\ (\A p \in Picks(jsonUpdates) : p.arg = UNDEFINED) =>
                   \A p, q \in Picks(numberedJson) : p.key < q.key <=> p.arg < q.arg
<1> DEFINE u == jsonUpdates
           v == numberedJson
           L == Len(jsonUpdates)
           last == jsonSyncId + Numbered(L)
<1>0. DOMAIN u = 1 .. L /\ L \in Nat /\ \A k \in 1 .. L : u[k] \in JsonMessage BY ElementFacts
<1>1. \A k \in 1 .. L : /\ Numbered(k) \in Nat /\ Numbered(k) <= Numbered(L)
                        /\ NeedsNumber(u[k]) => Numbered(k) >= 1
  <2> TAKE k \in 1 .. L
  <2>1. k \in Nat /\ k <= L /\ 0 \in Nat /\ 0 < k BY <1>0
  <2>2. Numbered(k) \in Nat /\ Numbered(0) \in Nat BY <2>1, NumberedFacts
  <2>3. NeedsNumber(u[k]) => Numbered(0) < Numbered(k) BY <2>1, NumberedFacts
  <2> QED BY <1>0, <2>1, <2>2, <2>3, NumberedFacts
<1>2. Numbered(L) \in Nat BY <1>0, NumberedFacts
<1>3. jsonSyncId \in Int /\ jsonSyncId >= -1 BY DEF UNDEFINED
<1>4. last \in Nat \cup {UNDEFINED} /\ last >= jsonSyncId BY <1>2, <1>3 DEF UNDEFINED
<1>5. ASSUME NEW k \in 1 .. L
      PROVE  /\ v[k] \in JsonMessage /\ v[k].kind = u[k].kind
             /\ u[k].kind = "PICK" =>
                  /\ v[k].key = u[k].key /\ u[k].key \in Nat
                  /\ IF u[k].arg = UNDEFINED
                     THEN v[k].arg = jsonSyncId + Numbered(k) /\ v[k].arg \in jsonSyncId + 1 .. last
                     ELSE v[k].arg = u[k].arg
  <2> DEFINE n == jsonSyncId + Numbered(k)
  <2>1. v[k] = IF NeedsNumber(u[k]) THEN [u[k] EXCEPT !.arg = n] ELSE u[k] BY <1>0 DEF numberedJson
  <2>2. NeedsNumber(u[k]) => n \in Nat /\ n \in jsonSyncId + 1 .. last BY <1>1, <1>2, <1>3
  <2> HIDE DEF n
  <2>3. u[k] \in PickMessage \/ u[k] \in OtherMessage \/ u[k] \in RoiMessage BY <1>0 DEF JsonMessage
  <2>4. CASE u[k] \in PickMessage
    <3>1. u[k].kind = "PICK" /\ u[k].key \in Nat BY <2>4 DEF PickMessage
    <3>2. NeedsNumber(u[k]) <=> u[k].arg = UNDEFINED BY <3>1 DEF NeedsNumber, NumberedKinds
    <3>3. CASE u[k].arg = UNDEFINED
      <4>1. v[k] = [u[k] EXCEPT !.arg = n] /\ n \in Nat /\ n \in jsonSyncId + 1 .. last BY <2>1, <2>2, <3>2, <3>3
      <4>2. /\ v[k] \in PickMessage /\ v[k].kind = u[k].kind /\ v[k].key = u[k].key /\ v[k].arg = n
        BY <2>4, <4>1 DEF PickMessage
      <4> QED BY <3>1, <3>3, <4>1, <4>2 DEF JsonMessage, n
    <3>4. CASE u[k].arg # UNDEFINED
      <4>1. v[k] = u[k] BY <2>1, <3>2, <3>4
      <4> QED BY <1>0, <3>1, <3>4, <4>1
    <3> QED BY <3>3, <3>4
  <2>5. CASE u[k] \in OtherMessage
    <3>1. u[k].kind # "PICK" BY <2>5 DEF OtherMessage
    <3>2. CASE NeedsNumber(u[k])
      <4>1. v[k] = [u[k] EXCEPT !.arg = n] /\ n \in Nat BY <2>1, <2>2, <3>2
      <4>2. v[k] \in OtherMessage /\ v[k].kind = u[k].kind BY <2>5, <4>1 DEF OtherMessage
      <4> QED BY <3>1, <4>2 DEF JsonMessage
    <3>3. CASE ~NeedsNumber(u[k])
      <4>1. v[k] = u[k] BY <2>1, <3>3
      <4> QED BY <1>0, <3>1, <4>1
    <3> QED BY <3>2, <3>3
  <2>6. CASE u[k] \in RoiMessage
    <3>1. u[k].kind = "ROI_SET" BY <2>6 DEF RoiMessage
    <3>2. ~NeedsNumber(u[k]) BY <3>1 DEF NeedsNumber, NumberedKinds
    <3>3. v[k] = u[k] BY <2>1, <3>2
    <3> QED BY <1>0, <3>1, <3>3
  <2> QED BY <2>3, <2>4, <2>5, <2>6
<1>6. v \in Seq(JsonMessage) /\ Len(v) = L
  <2>1. v = [k \in 1 .. L |-> v[k]] BY <1>0 DEF numberedJson
  <2> HIDE DEF v, L
  <2>2. v \in [1 .. L -> JsonMessage] BY <1>5, <2>1
  <2>3. L \in Nat BY <1>0
  <2> QED BY <2>2, <2>3
<1> HIDE DEF u, v, L, last
<1>m. /\ \A p : p \in Picks(u) <=> \E k \in 1 .. L : p = u[k] /\ u[k].kind = "PICK"
      /\ \A p : p \in Picks(v) <=> \E k \in 1 .. L : p = v[k] /\ v[k].kind = "PICK"
  <2>1. u \in Seq(JsonMessage) BY DEF u
  <2>2. Len(u) = L BY DEF u, L
  <2> QED BY <1>6, <2>1, <2>2, PicksMembers
<1>7. ASSUME NEW p \in Picks(u) PROVE \E q \in Picks(v) : q.key = p.key
  <2>1. PICK k \in 1 .. L : p = u[k] /\ u[k].kind = "PICK" BY <1>m
  <2>2. v[k] \in Picks(v) /\ v[k].key = p.key BY <1>5, <1>m, <2>1
  <2> QED BY <2>2
<1>8. ASSUME NEW q \in Picks(v)
      PROVE  \E p \in Picks(u) :
               /\ q.key = p.key
               /\ IF p.arg = UNDEFINED THEN q.arg \in jsonSyncId + 1 .. last ELSE q.arg = p.arg
  <2>1. PICK k \in 1 .. L : q = v[k] /\ v[k].kind = "PICK" BY <1>m
  <2>2. u[k] \in Picks(u) BY <1>5, <1>m, <2>1
  <2>3. /\ q.key = u[k].key
        /\ IF u[k].arg = UNDEFINED THEN q.arg \in jsonSyncId + 1 .. last ELSE q.arg = u[k].arg
    BY <1>5, <2>1
  <2> QED BY <2>2, <2>3
<1>9. ASSUME InOrder(u)
      PROVE  /\ InOrder(v)
             /\ (\A p \in Picks(u) : p.arg = UNDEFINED) =>
                  \A p, q \in Picks(v) : p.key < q.key <=> p.arg < q.arg
  <2>1. \A i, j \in 1 .. L : i < j /\ u[i].kind = "PICK" /\ u[j].kind = "PICK" => u[i].key < u[j].key
    BY <1>9, PicksMembers DEF u, L
  <2>2. \A i, j \in 1 .. L : i < j /\ v[i].kind = "PICK" /\ v[j].kind = "PICK" => v[i].key < v[j].key
    BY <1>5, <2>1
  <2>3. InOrder(v) BY <1>6, <2>2, PicksMembers
  <2>4. ASSUME \A p \in Picks(u) : p.arg = UNDEFINED, NEW p \in Picks(v), NEW q \in Picks(v)
        PROVE  p.key < q.key <=> p.arg < q.arg
    <3>1. PICK i \in 1 .. L : p = v[i] /\ v[i].kind = "PICK" BY <1>m
    <3>2. PICK j \in 1 .. L : q = v[j] /\ v[j].kind = "PICK" BY <1>m
    <3>3. /\ u[i].kind = "PICK" /\ u[j].kind = "PICK" /\ u[i].arg = UNDEFINED /\ u[j].arg = UNDEFINED
      BY <1>5, <1>m, <2>4, <3>1, <3>2
    <3>4. /\ p.key \in Nat /\ q.key \in Nat
          /\ p.arg = jsonSyncId + Numbered(i) /\ q.arg = jsonSyncId + Numbered(j)
      BY <1>5, <3>1, <3>2, <3>3
    <3>5. i \in Nat /\ j \in Nat /\ Numbered(i) \in Nat /\ Numbered(j) \in Nat
      BY <1>0, <1>1 DEF L
    <3>6. NeedsNumber(jsonUpdates[i]) /\ NeedsNumber(jsonUpdates[j])
      BY <3>3 DEF NeedsNumber, NumberedKinds, u
    <3>7. CASE i < j
      <4>1. p.key < q.key BY <2>2, <3>1, <3>2, <3>7
      <4>2. Numbered(i) < Numbered(j) BY <3>5, <3>6, <3>7, NumberedFacts
      <4> QED BY <1>3, <3>4, <3>5, <4>1, <4>2
    <3>8. CASE j < i
      <4>1. q.key < p.key BY <2>2, <3>1, <3>2, <3>8
      <4>2. Numbered(j) < Numbered(i) BY <3>5, <3>6, <3>8, NumberedFacts
      <4> QED BY <1>3, <3>4, <3>5, <4>1, <4>2
    <3>9. CASE i = j BY <1>3, <3>1, <3>2, <3>4, <3>5, <3>9
    <3> QED BY <3>5, <3>7, <3>8, <3>9
  <2> QED BY <2>3, <2>4
<1> QED BY <1>4, <1>6, <1>7, <1>8, <1>9 DEF u, v, L, last

(***************************************************************************)
(* The initial states, and the client.                                     *)
(***************************************************************************)

LEMMA InitIInv == Init => IInv
<1> SUFFICES ASSUME Init PROVE IInv OBVIOUS
<1> USE DEF Init, DispatchInit
<1>1. TypeOK
  <2>1. /\ geometryUpdate \in Seq(SceneMessage) /\ rdlUpdates \in Seq(SceneMessage)
        /\ jsonUpdates \in Seq(JsonMessage) /\ answered \in Seq(Nat)
    OBVIOUS
  <2>2. \A S : <<>> \in Seq(S) OBVIOUS
  <2>3. /\ channel \in [Machines -> Seq(SceneMessage \cup JsonMessage)]
        /\ direct \in [Followed -> Seq(ViewportMessage)]
        /\ answers \in [Machines -> Seq(PickMessage)]
    BY <2>2
  <2>4. clientNumbers \in BOOLEAN OBVIOUS
  <2> QED BY <2>1, <2>3, <2>4 DEF TypeOK
<1>2. Picks(<<>>) = {} /\ InOrder(<<>>)
  <2> DEFINE s == <<>>
  <2>1. s \in Seq(JsonMessage) /\ \A k \in 1 .. Len(s) : FALSE OBVIOUS
  <2> HIDE DEF s
  <2>2. Picks(s) = {} /\ InOrder(s) BY <2>1, PicksEmpty
  <2> QED BY <2>2 DEF s
<1>3. \A m \in Machines : OnTheWay(m) = {} BY <1>2 DEF OnTheWay
<1>4. Len(answered) = 0 OBVIOUS
<1>5. \A m \in Machines : channel[m] = <<>> /\ answers[m] = <<>> OBVIOUS
<1>6. PicksGathered BY <1>2, <1>3 DEF PicksGathered
<1>7. PicksForwarded BY <1>2, <1>3, <1>5 DEF PicksForwarded
<1>8. NoneIsMissing BY <1>4 DEF NoneIsMissing
<1>9. NumbersAgree BY <1>3 DEF NumbersAgree
<1>10. NumbersAhead BY <1>2, <1>3 DEF NumbersAhead, UNDEFINED
<1>11. AnsweredInOrder BY <1>4 DEF AnsweredInOrder
<1> QED BY <1>1, <1>6, <1>7, <1>8, <1>9, <1>10, <1>11 DEF IInv

(* The picks of a state. *)
LEMMA Numbers ==
  ASSUME TypeOK
  PROVE  /\ asked \in Nat /\ Len(answered) \in Nat
         /\ lastPickDataMessageSyncId \in Int /\ lastPickDataMessageSyncId >= -1
         /\ jsonSyncId \in Int /\ jsonSyncId >= -1
         /\ \A p \in Picks(jsonUpdates) : p.key \in Nat /\ p.arg \in Int
         /\ \A m \in Machines : \A p \in OnTheWay(m) : p.key \in Nat /\ p.arg \in Int
<1>1. asked \in Nat /\ Len(answered) \in Nat BY DEF TypeOK
<1>2. /\ lastPickDataMessageSyncId \in Int /\ lastPickDataMessageSyncId >= -1
      /\ jsonSyncId \in Int /\ jsonSyncId >= -1
  BY DEF TypeOK, UNDEFINED
<1>3. \A p \in PickMessage : p.key \in Nat /\ p.arg \in Int BY DEF PickMessage, UNDEFINED
<1>4. Picks(jsonUpdates) \subseteq PickMessage BY PicksTyped DEF TypeOK
<1>5. \A m \in Machines : OnTheWay(m) \subseteq PickMessage
  <2> TAKE m \in Machines
  <2>1. channel[m] \in Seq(SceneMessage \cup JsonMessage) /\ answers[m] \in Seq(PickMessage) BY DEF TypeOK
  <2>2. Picks(channel[m]) \subseteq PickMessage /\ Picks(answers[m]) \subseteq PickMessage BY <2>1, PicksTyped
  <2> QED BY <2>2 DEF OnTheWay
<1> QED BY <1>1, <1>2, <1>3, <1>4, <1>5

(* A step that moves no pick. *)
LEMMA PicksKept ==
  ASSUME IInv, TypeOK',
         Picks(jsonUpdates') = Picks(jsonUpdates), InOrder(jsonUpdates'),
         \A m \in Machines : Picks(channel'[m]) = Picks(channel[m]) /\ InOrder(channel'[m]),
         UNCHANGED <<answers, lastPickDataMessageSyncId, clientNumbers, asked, answered, jsonSyncId>>
  PROVE  IInv'
<1>1. \A m \in Machines : OnTheWay(m)' = OnTheWay(m) BY DEF OnTheWay
<1>2. PicksGathered' BY <1>1 DEF IInv, PicksGathered
<1>3. PicksForwarded' BY <1>1 DEF IInv, PicksForwarded
<1>4. NoneIsMissing' BY <1>1 DEF IInv, NoneIsMissing
<1>5. NumbersAgree' BY <1>1 DEF IInv, NumbersAgree
<1>6. NumbersAhead' BY <1>1 DEF IInv, NumbersAhead
<1>7. AnsweredInOrder' BY DEF IInv, AnsweredInOrder
<1> QED BY <1>2, <1>3, <1>4, <1>5, <1>6, <1>7 DEF IInv

LEMMA Gathered ==
  ASSUME TypeOK, NEW msg \in SceneMessage \cup JsonMessage, onMessage(msg)
  PROVE  /\ geometryUpdate' \in Seq(SceneMessage) /\ rdlUpdates' \in Seq(SceneMessage)
         /\ jsonUpdates' \in Seq(JsonMessage)
         /\ jsonSyncId' = jsonSyncId
         /\ msg \in SceneMessage => jsonUpdates' = jsonUpdates
         /\ msg \in JsonMessage => jsonUpdates' = Append(jsonUpdates, msg)
<1>1. /\ msg \in SceneMessage <=> msg.kind \in RdlKinds \cup {"GEOMETRY"}
      /\ msg \in JsonMessage <=> msg.kind \notin RdlKinds \cup {"GEOMETRY"}
  BY DEF SceneMessage, RdlMessage, GeometryMessage, JsonMessage, PickMessage, OtherMessage, RoiMessage, RdlKinds
<1>2. /\ geometryUpdate \in Seq(SceneMessage) /\ rdlUpdates \in Seq(SceneMessage)
      /\ jsonUpdates \in Seq(JsonMessage)
  BY DEF TypeOK
<1>3. /\ geometryUpdate' = geometryUpdate \/ (msg \in SceneMessage /\ geometryUpdate' = <<msg>>)
      /\ rdlUpdates' = rdlUpdates \/ (msg \in SceneMessage /\ rdlUpdates' = Append(rdlUpdates, msg))
      /\ msg \in SceneMessage => jsonUpdates' = jsonUpdates
      /\ msg \notin SceneMessage => jsonUpdates' = Append(jsonUpdates, msg)
      /\ jsonSyncId' = jsonSyncId
  <2>1. geometryUpdate' = geometryUpdate \/ (msg \in SceneMessage /\ geometryUpdate' = <<msg>>)
    BY <1>1 DEF onMessage
  <2>2. rdlUpdates' = rdlUpdates \/ (msg \in SceneMessage /\ rdlUpdates' = Append(rdlUpdates, msg))
    BY <1>1 DEF onMessage
  <2>3. msg \in SceneMessage => jsonUpdates' = jsonUpdates BY <1>1 DEF onMessage
  <2>4. msg \notin SceneMessage => jsonUpdates' = Append(jsonUpdates, msg) BY <1>1 DEF onMessage
  <2>5. jsonSyncId' = jsonSyncId BY DEF onMessage
  <2> QED BY <2>1, <2>2, <2>3, <2>4, <2>5
<1>4. msg \in SceneMessage <=> msg \notin JsonMessage BY <1>1
<1>5. ASSUME NEW S, NEW s \in Seq(S), NEW e \in S PROVE Append(s, e) \in Seq(S) /\ <<e>> \in Seq(S) OBVIOUS
<1>6. geometryUpdate' \in Seq(SceneMessage) BY <1>2, <1>3, <1>5
<1>7. rdlUpdates' \in Seq(SceneMessage) BY <1>2, <1>3, <1>5
<1>8. jsonUpdates' \in Seq(JsonMessage) BY <1>2, <1>3, <1>4, <1>5
<1> QED BY <1>3, <1>4, <1>6, <1>7, <1>8

(* The client sends anything but a pick. *)
LEMMA OthersKeepIInv ==
  ASSUME IInv, NEW msg \in SceneMessage \cup JsonMessage, msg.kind # "PICK", onMessage(msg),
         UNCHANGED <<channel, direct, answers, lastPickDataMessageSyncId, clientNumbers, asked, answered>>
  PROVE  IInv'
<1>1. TypeOK BY DEF IInv
<1>2. TypeOK' BY <1>1, Gathered DEF TypeOK
<1>3. jsonUpdates \in Seq(JsonMessage) BY <1>1 DEF TypeOK
<1>4. \A p : p \in Picks(jsonUpdates') <=> p \in Picks(jsonUpdates)
  <2>1. CASE msg \in SceneMessage BY <1>1, <2>1, Gathered
  <2>2. CASE msg \in JsonMessage
    <3>1. \A p : p \in Picks(Append(jsonUpdates, msg)) <=> p \in Picks(jsonUpdates) \/ (p = msg /\ p.kind = "PICK")
      BY <1>3, <2>2, PicksAppend
    <3> QED BY <1>1, <2>2, <3>1, Gathered
  <2> QED BY <2>1, <2>2
<1>5. InOrder(jsonUpdates')
  <2>0. InOrder(jsonUpdates) BY DEF IInv, PicksGathered
  <2>1. CASE msg \in SceneMessage BY <1>1, <2>0, <2>1, Gathered
  <2>2. CASE msg \in JsonMessage
    <3>1. InOrder(Append(jsonUpdates, msg)) BY <1>3, <2>0, <2>2, PicksAppend
    <3> QED BY <1>1, <2>2, <3>1, Gathered
  <2> QED BY <2>1, <2>2
<1>6. \A m \in Machines : Picks(channel'[m]) = Picks(channel[m]) /\ InOrder(channel'[m])
  BY DEF IInv, PicksForwarded
<1>7. jsonSyncId' = jsonSyncId BY <1>1, Gathered
<1>8. Picks(jsonUpdates') = Picks(jsonUpdates) BY <1>4
<1> QED BY <1>2, <1>5, <1>6, <1>7, <1>8, PicksKept

LEMMA SendPickKeepsIInv == IInv /\ SendPick => IInv'
<1> SUFFICES ASSUME IInv, SendPick PROVE IInv' OBVIOUS
<1> DEFINE msg == [kind |-> "PICK", arg |-> IF clientNumbers' THEN asked ELSE UNDEFINED, key |-> asked]
<1>1. TypeOK BY DEF IInv
<1>2. /\ asked \in Nat /\ Len(answered) \in Nat
      /\ lastPickDataMessageSyncId \in Int /\ lastPickDataMessageSyncId >= -1
      /\ jsonSyncId \in Int /\ jsonSyncId >= -1
      /\ \A p \in Picks(jsonUpdates) : p.key \in Nat /\ p.arg \in Int
      /\ \A m \in Machines : \A p \in OnTheWay(m) : p.key \in Nat /\ p.arg \in Int
  BY <1>1, Numbers
<1>3. /\ onMessage(msg) /\ asked' = asked + 1 /\ clientNumbers' \in BOOLEAN
      /\ asked > 0 => clientNumbers' = clientNumbers
      /\ UNCHANGED <<channel, direct, answers, lastPickDataMessageSyncId, answered>>
  BY DEF SendPick, SendJson, driverVars, mergeVars
<1>4. msg \in PickMessage /\ msg \in JsonMessage /\ msg.kind = "PICK" BY <1>2 DEF PickMessage, JsonMessage, UNDEFINED
<1>4a. msg.key = asked /\ msg.arg = IF clientNumbers' THEN asked ELSE UNDEFINED OBVIOUS
<1> HIDE DEF msg
<1>5. /\ geometryUpdate' \in Seq(SceneMessage) /\ rdlUpdates' \in Seq(SceneMessage)
      /\ jsonUpdates' \in Seq(JsonMessage) /\ jsonSyncId' = jsonSyncId
      /\ jsonUpdates' = Append(jsonUpdates, msg)
  BY <1>1, <1>3, <1>4, Gathered
<1>6. TypeOK' BY <1>1, <1>2, <1>3, <1>5 DEF TypeOK
<1>7. jsonUpdates \in Seq(JsonMessage) BY <1>1 DEF TypeOK
<1>8. \A p : p \in Picks(jsonUpdates') <=> p \in Picks(jsonUpdates) \/ p = msg
  BY <1>4, <1>5, <1>7, PicksAppend
<1>9. \A m \in Machines : OnTheWay(m)' = OnTheWay(m) BY <1>3 DEF OnTheWay
<1>10. PicksGathered'
  <2>1. \A p \in Picks(jsonUpdates) : p.key < msg.key BY <1>2, <1>4a DEF IInv, PicksGathered
  <2>2. InOrder(jsonUpdates) BY DEF IInv, PicksGathered
  <2>3. InOrder(jsonUpdates') BY <1>4, <1>5, <1>7, <2>1, <2>2, PicksAppend
  <2>4. ASSUME NEW p \in Picks(jsonUpdates')
        PROVE  /\ Len(answered) <= p.key /\ p.key < asked + 1
               /\ \A m \in Machines : \A q \in OnTheWay(m) : q.key < p.key
    <3>1. CASE p \in Picks(jsonUpdates) BY <1>2, <3>1 DEF IInv, PicksGathered
    <3>2. CASE p = msg
      <4>1. p.key = asked BY <1>4a, <3>2
      <4>2. Len(answered) <= asked BY DEF IInv, AnsweredInOrder
      <4>3. \A m \in Machines : \A q \in OnTheWay(m) : q.key < asked BY DEF IInv, PicksForwarded
      <4> QED BY <1>2, <4>1, <4>2, <4>3
    <3> QED BY <1>8, <3>1, <3>2
  <2> QED BY <1>3, <1>9, <2>3, <2>4 DEF PicksGathered
<1>11. PicksForwarded' BY <1>2, <1>3, <1>9 DEF IInv, PicksForwarded
<1>12. NoneIsMissing'
  <2> SUFFICES ASSUME NEW m \in Machines, NEW k \in Len(answered) .. asked
               PROVE  \E p \in OnTheWay(m) \cup Picks(jsonUpdates') : p.key = k
    BY <1>2, <1>3, <1>9 DEF NoneIsMissing
  <2>1. CASE k = asked BY <1>4a, <1>8, <2>1
  <2>2. CASE k # asked
    <3>1. k \in Len(answered) .. asked - 1 BY <1>2, <2>2
    <3>2. \E p \in OnTheWay(m) \cup Picks(jsonUpdates) : p.key = k BY <3>1 DEF IInv, NoneIsMissing
    <3> QED BY <1>8, <3>2
  <2> QED BY <2>1, <2>2
<1>13. NumbersAgree' BY <1>3, <1>9 DEF IInv, NumbersAgree
<1>14. NumbersAhead'
  <2>1. CASE asked > 0
    <3>1. clientNumbers' = clientNumbers BY <1>3, <2>1
    <3> QED BY <1>3, <1>4a, <1>5, <1>8, <1>9, <3>1 DEF IInv, NumbersAhead
  <2>2. CASE asked = 0
    <3>1. Picks(jsonUpdates) = {} BY <1>2, <2>2 DEF IInv, PicksGathered
    <3>2. \A m \in Machines : OnTheWay(m) = {} BY <1>2, <2>2 DEF IInv, PicksForwarded
    <3>3. Len(answered) = 0 BY <1>2, <2>2 DEF IInv, AnsweredInOrder
    <3>4. lastPickDataMessageSyncId = -1 BY <3>3 DEF IInv, AnsweredInOrder, UNDEFINED
    <3>5. \A p \in Picks(jsonUpdates') : p = msg BY <1>8, <3>1
    <3> QED BY <1>2, <1>3, <1>4a, <1>5, <1>9, <2>2, <3>2, <3>3, <3>4, <3>5 DEF NumbersAhead
  <2> QED BY <1>2, <2>1, <2>2
<1>15. AnsweredInOrder' BY <1>2, <1>3 DEF IInv, AnsweredInOrder
<1> QED BY <1>6, <1>10, <1>11, <1>12, <1>13, <1>14, <1>15 DEF IInv

LEMMA ClientKeepsIInv == IInv /\ Client => IInv'
<1> SUFFICES ASSUME IInv, Client PROVE IInv' OBVIOUS
<1> USE DEF driverVars, mergeVars, SendJson
<1>1. ASSUME NEW msg \in NextSceneMessages, SendScene(msg) PROVE IInv'
  <2>0. nextSyncId \in Nat BY <1>1, SessionAssumption DEF SendScene, SyncIds
  <2>1. msg \in SceneMessage
    BY <1>1, <2>0 DEF NextSceneMessages, SceneMessage, RdlMessage, GeometryMessage
  <2>2. msg.kind # "PICK" BY <1>1 DEF NextSceneMessages, RdlKinds
  <2>3. onMessage(msg) /\ UNCHANGED <<channel, direct, answers, lastPickDataMessageSyncId, clientNumbers, asked, answered>>
    BY <1>1 DEF SendScene
  <2> QED BY <2>1, <2>2, <2>3, OthersKeepIInv
<1>2. CASE SendPick BY <1>2, SendPickKeepsIInv
<1>3. CASE SendOther
  <2>1. PICK kind \in {"INVALIDATE", "START", "STOP", "SETUP", "ROI_DISABLE"} :
          SendJson([kind |-> kind, arg |-> UNDEFINED]) /\ UNCHANGED <<clientNumbers, asked>>
    BY <1>3 DEF SendOther
  <2> DEFINE msg == [kind |-> kind, arg |-> UNDEFINED]
  <2>2. msg \in JsonMessage /\ msg.kind # "PICK" BY DEF JsonMessage, OtherMessage, UNDEFINED
  <2>3. onMessage(msg) /\ UNCHANGED <<channel, direct, answers, lastPickDataMessageSyncId, clientNumbers, asked, answered>>
    BY <2>1
  <2> HIDE DEF msg
  <2> QED BY <2>2, <2>3, OthersKeepIInv
<1>4. CASE SendRoi
  <2>1. PICK region \in Regions :
          SendJson([kind |-> "ROI_SET", arg |-> region]) /\ UNCHANGED <<clientNumbers, asked>>
    BY <1>4 DEF SendRoi
  <2> DEFINE msg == [kind |-> "ROI_SET", arg |-> region]
  <2>2. msg \in JsonMessage /\ msg.kind # "PICK" BY DEF JsonMessage, RoiMessage
  <2>3. onMessage(msg) /\ UNCHANGED <<channel, direct, answers, lastPickDataMessageSyncId, clientNumbers, asked, answered>>
    BY <2>1
  <2> HIDE DEF msg
  <2> QED BY <2>2, <2>3, OthersKeepIInv
<1>5. CASE SendViewport
  <2>1. TypeOK BY DEF IInv
  <2>2. PICK viewport \in Viewports \cup {Scene!DEFAULT} :
          direct' = [m \in Followed |-> Append(direct[m], [kind |-> "VIEWPORT", arg |-> viewport])]
    BY <1>5 DEF SendViewport
  <2>3. UNCHANGED <<geometryUpdate, rdlUpdates, jsonUpdates, jsonSyncId, channel, answers,
                    lastPickDataMessageSyncId, clientNumbers, asked, answered>>
    BY <1>5 DEF SendViewport, dispatchVars
  <2>4. direct' \in [Followed -> Seq(ViewportMessage)]
    <3> DEFINE e == [kind |-> "VIEWPORT", arg |-> viewport]
    <3>1. e \in ViewportMessage BY DEF ViewportMessage
    <3>2. direct \in [Followed -> Seq(ViewportMessage)] BY <2>1 DEF TypeOK
    <3> HIDE DEF e
    <3>3. \A m \in Followed : Append(direct[m], e) \in Seq(ViewportMessage) BY <3>1, <3>2
    <3> QED BY <2>2, <3>3 DEF e
  <2>5. TypeOK' BY <2>1, <2>3, <2>4 DEF TypeOK
  <2>6. InOrder(jsonUpdates) /\ \A m \in Machines : InOrder(channel[m]) BY DEF IInv, PicksGathered, PicksForwarded
  <2> QED BY <2>3, <2>5, <2>6, PicksKept
<1> QED BY <1>1, <1>2, <1>3, <1>4, <1>5 DEF Client

(***************************************************************************)
(* The dispatch computation.                                               *)
(***************************************************************************)

(* The picks of the JSON messages join those on their way to every machine. *)
LEMMA Joined ==
  ASSUME Followed = Machines, IInv, Dispatch
  PROVE  \A m \in Machines :
           /\ channel'[m] \in Seq(SceneMessage \cup JsonMessage)
           /\ \A p : p \in Picks(channel'[m]) <=> p \in Picks(channel[m]) \/ p \in Picks(numberedJson)
           /\ InOrder(channel[m]) /\ InOrder(numberedJson)
                /\ (\A p \in Picks(channel[m]), q \in Picks(numberedJson) : p.key < q.key)
                => InOrder(channel'[m])
<1> DEFINE S == SceneMessage \cup JsonMessage
<1>1. /\ geometryUpdate \in Seq(SceneMessage) /\ rdlUpdates \in Seq(SceneMessage)
      /\ channel \in [Machines -> Seq(S)]
  BY DEF IInv, TypeOK
<1>2. numberedJson \in Seq(JsonMessage) BY NumberedPicks DEF IInv, TypeOK
<1>3. channel' = [m \in Machines |-> channel[m] \o (geometryThenRdl \o numberedJson)]
  BY DEF Dispatch, Forwarded
<1>4. \A T : T \subseteq S => Seq(T) \subseteq Seq(S) OBVIOUS
<1>5. geometryThenRdl \in Seq(SceneMessage) BY <1>1, ConcatFacts DEF geometryThenRdl
<1>6. Picks(geometryThenRdl) = {} /\ InOrder(geometryThenRdl)
  <2>1. \A k \in 1 .. Len(geometryThenRdl) : geometryThenRdl[k] \in SceneMessage BY <1>5, ElementFacts
  <2>2. \A e \in SceneMessage : e.kind # "PICK" BY DEF SceneMessage, RdlMessage, GeometryMessage, RdlKinds
  <2> QED BY <1>5, <2>1, <2>2, PicksEmpty
<1>7. geometryThenRdl \in Seq(S) /\ numberedJson \in Seq(S) BY <1>2, <1>4, <1>5
<1> HIDE DEF S
<1> DEFINE f == geometryThenRdl \o numberedJson
<1>8. /\ f \in Seq(S) /\ \A p : p \in Picks(f) <=> p \in Picks(numberedJson)
      /\ InOrder(numberedJson) => InOrder(f)
  BY <1>6, <1>7, ConcatFacts, PicksConcat
<1> HIDE DEF f
<1> SUFFICES ASSUME NEW m \in Machines
             PROVE  /\ channel'[m] \in Seq(S)
                    /\ \A p : p \in Picks(channel'[m]) <=> p \in Picks(channel[m]) \/ p \in Picks(numberedJson)
                    /\ InOrder(channel[m]) /\ InOrder(numberedJson)
                         /\ (\A p \in Picks(channel[m]), q \in Picks(numberedJson) : p.key < q.key)
                         => InOrder(channel'[m])
  BY DEF S
<1>9. channel'[m] = channel[m] \o f /\ channel[m] \in Seq(S) BY <1>1, <1>3 DEF f
<1>10. /\ channel[m] \o f \in Seq(S)
       /\ \A p : p \in Picks(channel[m] \o f) <=> p \in Picks(channel[m]) \/ p \in Picks(f)
       /\ InOrder(channel[m]) /\ InOrder(f) /\ (\A p \in Picks(channel[m]), q \in Picks(f) : p.key < q.key)
            => InOrder(channel[m] \o f)
  BY <1>8, <1>9, ConcatFacts, PicksConcat
<1> QED BY <1>8, <1>9, <1>10

LEMMA DispatchKeepsIInv ==
  ASSUME Followed = Machines, IInv, Dispatch
  PROVE  IInv'
<1> DEFINE J == Picks(jsonUpdates)
           N == Picks(numberedJson)
           last == jsonSyncId + Numbered(Len(jsonUpdates))
<1>1. TypeOK BY DEF IInv
<1>2. /\ asked \in Nat /\ Len(answered) \in Nat
      /\ lastPickDataMessageSyncId \in Int /\ lastPickDataMessageSyncId >= -1
      /\ jsonSyncId \in Int /\ jsonSyncId >= -1
      /\ \A p \in J : p.key \in Nat /\ p.arg \in Int
      /\ \A m \in Machines : \A p \in OnTheWay(m) : p.key \in Nat /\ p.arg \in Int
  BY <1>1, Numbers
<1>3. /\ geometryUpdate' = <<>> /\ rdlUpdates' = <<>> /\ jsonUpdates' = <<>> /\ jsonSyncId' = last
      /\ UNCHANGED <<direct, answers, lastPickDataMessageSyncId, clientNumbers, asked, answered>>
      /\ channel' = [m \in Machines |-> channel'[m]]
  BY DEF Dispatch, onIdle, clientVars, mergeVars
<1>4. /\ last \in Nat \cup {UNDEFINED} /\ last >= jsonSyncId
      /\ \A p \in J : \E q \in N : q.key = p.key
      /\ \A q \in N : \E p \in J :
           /\ q.key = p.key
           /\ IF p.arg = UNDEFINED THEN q.arg \in jsonSyncId + 1 .. last ELSE q.arg = p.arg
      /\ InOrder(numberedJson)
      /\ (\A p \in J : p.arg = UNDEFINED) => \A p, q \in N : p.key < q.key <=> p.arg < q.arg
  BY <1>1, NumberedPicks DEF IInv, TypeOK, PicksGathered
<1> HIDE DEF last
<1>5. last \in Int BY <1>4 DEF UNDEFINED
<1>6. \A m \in Machines : \A p : p \in Picks(channel'[m]) <=> p \in Picks(channel[m]) \/ p \in N
  BY Joined
<1>7. \A m \in Machines : \A p : p \in OnTheWay(m)' <=> p \in OnTheWay(m) \/ p \in N
  BY <1>3, <1>6 DEF OnTheWay
<1>8. Picks(<<>>) = {} /\ InOrder(<<>>)
  <2> DEFINE s == <<>>
  <2>1. s \in Seq(JsonMessage) /\ \A k \in 1 .. Len(s) : FALSE OBVIOUS
  <2> HIDE DEF s
  <2>2. Picks(s) = {} /\ InOrder(s) BY <2>1, PicksEmpty
  <2> QED BY <2>2 DEF s
<1>9. Picks(jsonUpdates') = {} /\ InOrder(jsonUpdates') BY <1>3, <1>8
<1>10. TypeOK'
  <2>1. /\ geometryUpdate' \in Seq(SceneMessage) /\ rdlUpdates' \in Seq(SceneMessage)
        /\ jsonUpdates' \in Seq(JsonMessage)
    BY <1>3
  <2>2. \A m \in Machines : channel'[m] \in Seq(SceneMessage \cup JsonMessage) BY Joined
  <2>3. channel' \in [Machines -> Seq(SceneMessage \cup JsonMessage)] BY <1>3, <2>2
  <2>4. jsonSyncId' \in Nat \cup {UNDEFINED} BY <1>3, <1>4
  <2> QED BY <1>1, <1>3, <2>1, <2>3, <2>4 DEF TypeOK
<1>11. \A q \in N : /\ q.key \in Nat /\ Len(answered) <= q.key /\ q.key < asked
                    /\ \A m \in Machines : \A p \in OnTheWay(m) : p.key < q.key
  <2> TAKE q \in N
  <2>1. PICK p \in J : q.key = p.key BY <1>4
  <2> QED BY <1>2, <2>1 DEF IInv, PicksGathered
<1>12. \A q \in N : IF clientNumbers THEN q.arg = q.key ELSE q.arg \in jsonSyncId + 1 .. last
  <2> TAKE q \in N
  <2>1. PICK p \in J : /\ q.key = p.key
                       /\ IF p.arg = UNDEFINED THEN q.arg \in jsonSyncId + 1 .. last ELSE q.arg = p.arg
    BY <1>4
  <2>2. IF clientNumbers THEN p.arg = p.key ELSE p.arg = UNDEFINED BY DEF IInv, NumbersAhead
  <2>3. p.key \in Nat BY <1>2
  <2> QED BY <2>1, <2>2, <2>3 DEF UNDEFINED
<1>13. \A p, q \in N : p.key < q.key <=> p.arg < q.arg
  <2>1. CASE clientNumbers BY <1>12, <2>1
  <2>2. CASE ~clientNumbers
    <3>1. \A p \in J : p.arg = UNDEFINED BY <2>2 DEF IInv, NumbersAhead
    <3> QED BY <1>4, <3>1
  <2> QED BY <2>1, <2>2
<1>14. \A m \in Machines : \A p \in OnTheWay(m), q \in N : p.arg < q.arg
  <2> SUFFICES ASSUME NEW m \in Machines, NEW p \in OnTheWay(m), NEW q \in N PROVE p.arg < q.arg
    OBVIOUS
  <2>1. CASE clientNumbers
    <3>1. p.arg = p.key BY <2>1 DEF IInv, NumbersAhead
    <3> QED BY <1>11, <1>12, <2>1, <3>1
  <2>2. CASE ~clientNumbers
    <3>1. p.arg \in 0 .. jsonSyncId BY <2>2 DEF IInv, NumbersAhead
    <3>2. q.arg \in jsonSyncId + 1 .. last BY <1>12, <2>2
    <3> QED BY <1>2, <1>5, <3>1, <3>2
  <2> QED BY <2>1, <2>2
<1>15. \A q \in N : q.arg \in Int /\ q.arg > lastPickDataMessageSyncId
  <2> TAKE q \in N
  <2>1. CASE clientNumbers
    <3>1. lastPickDataMessageSyncId = Len(answered) - 1 BY <2>1 DEF IInv, NumbersAhead
    <3>2. q.arg = q.key BY <1>12, <2>1
    <3> QED BY <1>2, <1>11, <3>1, <3>2
  <2>2. CASE ~clientNumbers
    <3>1. lastPickDataMessageSyncId <= jsonSyncId BY <2>2 DEF IInv, NumbersAhead
    <3>2. q.arg \in jsonSyncId + 1 .. last BY <1>12, <2>2
    <3> QED BY <1>2, <1>5, <3>1, <3>2
  <2> QED BY <2>1, <2>2
<1> HIDE DEF J, N
<1>16. PicksGathered' BY <1>9 DEF PicksGathered
<1>17. PicksForwarded'
  <2> SUFFICES ASSUME NEW m \in Machines
               PROVE  /\ InOrder(channel'[m]) /\ InOrder(answers[m])
                      /\ \A p \in OnTheWay(m)' : p.key < asked
                      /\ \A p \in Picks(answers[m]), q \in Picks(channel'[m]) : p.key < q.key
    BY <1>3 DEF PicksForwarded
  <2>1. /\ InOrder(channel[m]) /\ InOrder(answers[m])
        /\ \A p \in OnTheWay(m) : p.key < asked
        /\ \A p \in Picks(answers[m]), q \in Picks(channel[m]) : p.key < q.key
    BY DEF IInv, PicksForwarded
  <2>2. \A p \in Picks(channel[m]) \cup Picks(answers[m]), q \in N : p.key < q.key BY <1>11 DEF OnTheWay
  <2>3. InOrder(channel'[m]) BY <1>4, <2>1, <2>2, Joined DEF N
  <2>4. \A p \in OnTheWay(m)' : p.key < asked BY <1>7, <1>11, <2>1
  <2>5. \A p \in Picks(answers[m]), q \in Picks(channel'[m]) : p.key < q.key BY <1>6, <2>1, <2>2
  <2> QED BY <2>1, <2>3, <2>4, <2>5
<1>18. NoneIsMissing'
  <2> SUFFICES ASSUME NEW m \in Machines, NEW k \in Len(answered) .. asked - 1
               PROVE  \E p \in OnTheWay(m)' : p.key = k
    BY <1>3 DEF NoneIsMissing
  <2>1. PICK p \in OnTheWay(m) \cup J : p.key = k BY DEF IInv, NoneIsMissing, J
  <2>2. CASE p \in OnTheWay(m) BY <1>7, <2>1, <2>2
  <2>3. CASE p \in J
    <3>1. PICK q \in N : q.key = p.key BY <1>4, <2>3
    <3> QED BY <1>7, <2>1, <3>1
  <2> QED BY <2>1, <2>2, <2>3
<1>19. NumbersAgree'
  <2>1. ASSUME NEW m \in Machines, NEW n \in Machines, NEW p \in OnTheWay(m)', NEW q \in OnTheWay(n)'
        PROVE  p.key < q.key <=> p.arg < q.arg
    <3>1. CASE p \in OnTheWay(m) /\ q \in OnTheWay(n) BY <3>1 DEF IInv, NumbersAgree
    <3>2. CASE p \in OnTheWay(m) /\ q \in N BY <1>11, <1>14, <3>2
    <3>3. CASE p \in N /\ q \in OnTheWay(n)
      <4>1. q.key < p.key /\ q.arg < p.arg BY <1>11, <1>14, <3>3
      <4>2. q.key \in Int /\ q.arg \in Int /\ p.key \in Int /\ p.arg \in Int BY <1>2, <1>11, <1>15, <3>3
      <4> QED BY <4>1, <4>2
    <3>4. CASE p \in N /\ q \in N BY <1>13, <3>4
    <3> QED BY <1>7, <3>1, <3>2, <3>3, <3>4
  <2>2. ASSUME NEW m \in Machines, NEW p \in OnTheWay(m)'
        PROVE  p.key < Len(answered) <=> p.arg <= lastPickDataMessageSyncId
    <3>1. CASE p \in OnTheWay(m) BY <3>1 DEF IInv, NumbersAgree
    <3>2. CASE p \in N BY <1>2, <1>11, <1>15, <3>2
    <3> QED BY <1>7, <3>1, <3>2
  <2> QED BY <1>3, <2>1, <2>2 DEF NumbersAgree
<1>20. NumbersAhead'
  <2>1. CASE clientNumbers
    <3>1. /\ lastPickDataMessageSyncId = Len(answered) - 1
          /\ \A m \in Machines : \A p \in OnTheWay(m) : p.arg = p.key
      BY <2>1 DEF IInv, NumbersAhead
    <3>2. \A m \in Machines : \A p \in OnTheWay(m)' : p.arg = p.key BY <1>7, <1>12, <2>1, <3>1
    <3> QED BY <1>3, <1>9, <2>1, <3>1, <3>2 DEF NumbersAhead
  <2>2. CASE ~clientNumbers
    <3>1. /\ lastPickDataMessageSyncId <= jsonSyncId
          /\ \A m \in Machines : \A p \in OnTheWay(m) : p.arg \in 0 .. jsonSyncId
      BY <2>2 DEF IInv, NumbersAhead
    <3>2. lastPickDataMessageSyncId <= last BY <1>2, <1>4, <1>5, <3>1
    <3>3. ASSUME NEW m \in Machines, NEW p \in OnTheWay(m)' PROVE p.arg \in 0 .. last
      <4>1. CASE p \in OnTheWay(m)
        <5>1. p.arg \in 0 .. jsonSyncId BY <3>1, <4>1
        <5> QED BY <1>2, <1>4, <1>5, <5>1
      <4>2. CASE p \in N
        <5>1. p.arg \in jsonSyncId + 1 .. last BY <1>12, <2>2, <4>2
        <5> QED BY <1>2, <1>5, <5>1
      <4> QED BY <1>7, <4>1, <4>2
    <3> QED BY <1>3, <1>9, <2>2, <3>2, <3>3 DEF NumbersAhead
  <2> QED BY <2>1, <2>2
<1>21. AnsweredInOrder' BY <1>3 DEF IInv, AnsweredInOrder
<1> QED BY <1>10, <1>16, <1>17, <1>18, <1>19, <1>20, <1>21 DEF IInv

(***************************************************************************)
(* The machines.                                                           *)
(***************************************************************************)

(* A machine takes a message from the dispatch computation: a pick moves on
   to the merge, anything else is no pick. *)
LEMMA ReceiveKeepsIInv ==
  ASSUME Followed = Machines, IInv, NEW m \in Machines, Receive(m)
  PROVE  IInv'
<1> USE DEF clientVars, mergeVars, dispatchVars
<1>1. TypeOK BY DEF IInv
<1>2. ASSUME m \in Followed, direct[m] # <<>>, direct' = [direct EXCEPT ![m] = Tail(@)],
             handle(m, Head(direct[m])), UNCHANGED <<dispatchVars, channel, clientVars, mergeVars>>
      PROVE  IInv'
  <2>1. direct[m] \in Seq(ViewportMessage) BY <1>1, <1>2 DEF TypeOK
  <2>2. Head(direct[m]) \in ViewportMessage /\ Tail(direct[m]) \in Seq(ViewportMessage) BY <1>2, <2>1, TailFacts
  <2>3. Head(direct[m]).kind # "PICK" BY <2>2 DEF ViewportMessage
  <2>4. answers' = answers BY <1>2, <2>3 DEF handle
  <2>5. direct' \in [Followed -> Seq(ViewportMessage)] BY <1>1, <1>2, <2>2 DEF TypeOK
  <2>6. TypeOK' BY <1>1, <1>2, <2>4, <2>5 DEF TypeOK
  <2>7. InOrder(jsonUpdates) /\ \A n \in Machines : InOrder(channel[n]) BY DEF IInv, PicksGathered, PicksForwarded
  <2> QED BY <1>2, <2>4, <2>6, <2>7, PicksKept
<1>3. ASSUME channel[m] # <<>>, channel' = [channel EXCEPT ![m] = Tail(@)],
             handle(m, Head(channel[m])), UNCHANGED <<dispatchVars, direct, clientVars, mergeVars>>
      PROVE  IInv'
  <2> DEFINE S == SceneMessage \cup JsonMessage
             e == Head(channel[m])
  <2>1. channel \in [Machines -> Seq(S)] /\ answers \in [Machines -> Seq(PickMessage)] BY <1>1 DEF TypeOK
  <2>2. e \in S /\ Tail(channel[m]) \in Seq(S) BY <1>3, <2>1, TailFacts
  <2>3. e.kind = "PICK" => e \in PickMessage
    BY <2>2 DEF SceneMessage, RdlMessage, GeometryMessage, JsonMessage, OtherMessage, RoiMessage, RdlKinds
  <2> HIDE DEF S
  <2>4. /\ \A p : p \in Picks(channel[m]) <=> (p = e /\ p.kind = "PICK") \/ p \in Picks(Tail(channel[m]))
        /\ InOrder(channel[m]) => /\ InOrder(Tail(channel[m]))
                                  /\ e.kind = "PICK" => \A p \in Picks(Tail(channel[m])) : e.key < p.key
    BY <1>3, <2>1, PicksTail
  <2>5. \A n \in Machines : channel'[n] = IF n = m THEN Tail(channel[m]) ELSE channel[n] BY <1>3, <2>1
  <2>6. channel' \in [Machines -> Seq(S)] BY <1>3, <2>1, <2>2
  <2>7. CASE e.kind # "PICK"
    <3>1. answers' = answers BY <1>3, <2>7 DEF handle
    <3>2. TypeOK' BY <1>1, <1>3, <2>6, <3>1 DEF TypeOK, S
    <3>3. \A p : p \in Picks(channel[m]) <=> p \in Picks(Tail(channel[m])) BY <2>4, <2>7
    <3>4. Picks(channel[m]) = Picks(Tail(channel[m])) BY <3>3
    <3>5. InOrder(jsonUpdates) /\ \A n \in Machines : InOrder(channel[n]) BY DEF IInv, PicksGathered, PicksForwarded
    <3>6. \A n \in Machines : Picks(channel'[n]) = Picks(channel[n]) /\ InOrder(channel'[n])
      BY <2>4, <2>5, <3>4, <3>5
    <3> QED BY <1>3, <3>1, <3>2, <3>5, <3>6, PicksKept
  <2>8. CASE e.kind = "PICK"
    <3>1. answers' = [answers EXCEPT ![m] = Append(@, e)]
      BY <1>3, <2>8 DEF handle, evalPickMessage, RdlKinds, Scene!RoiKinds
    <3>2. e \in PickMessage BY <2>3, <2>8
    <3> HIDE DEF e
    <3>3. \A n \in Machines : answers'[n] = IF n = m THEN Append(answers[m], e) ELSE answers[n] BY <2>1, <3>1
    <3>4. answers' \in [Machines -> Seq(PickMessage)]
      <4>1. answers[m] \in Seq(PickMessage) BY <2>1
      <4>2. Append(answers[m], e) \in Seq(PickMessage) BY <3>2, <4>1, AppendFacts
      <4> QED BY <2>1, <3>1, <4>2
    <3>5. TypeOK' BY <1>1, <1>3, <2>6, <3>4 DEF TypeOK, S
    <3>6. /\ \A p : p \in Picks(Append(answers[m], e)) <=> p \in Picks(answers[m]) \/ (p = e /\ p.kind = "PICK")
          /\ InOrder(answers[m]) /\ (e.kind = "PICK" => \A p \in Picks(answers[m]) : p.key < e.key)
               => InOrder(Append(answers[m], e))
      BY <2>1, <3>2, PicksAppend
    <3>7. \A n \in Machines : \A p : p \in OnTheWay(n)' <=> p \in OnTheWay(n)
      <4> TAKE n \in Machines
      <4>1. CASE n = m BY <2>4, <2>5, <3>3, <3>6, <4>1 DEF OnTheWay
      <4>2. CASE n # m BY <2>5, <3>3, <4>2 DEF OnTheWay
      <4> QED BY <4>1, <4>2
    <3>8. \A n \in Machines : OnTheWay(n)' = OnTheWay(n) BY <3>7
    <3>9. PicksGathered' BY <1>3, <3>8 DEF IInv, PicksGathered
    <3>10. PicksForwarded'
      <4> SUFFICES ASSUME NEW n \in Machines
                   PROVE  /\ InOrder(channel'[n]) /\ InOrder(answers'[n])
                          /\ \A p \in OnTheWay(n) : p.key < asked
                          /\ \A p \in Picks(answers'[n]), q \in Picks(channel'[n]) : p.key < q.key
        BY <1>3, <3>8 DEF PicksForwarded
      <4>1. /\ InOrder(channel[n]) /\ InOrder(answers[n])
            /\ \A p \in OnTheWay(n) : p.key < asked
            /\ \A p \in Picks(answers[n]), q \in Picks(channel[n]) : p.key < q.key
        BY DEF IInv, PicksForwarded
      <4>2. CASE n # m BY <2>5, <3>3, <4>1, <4>2
      <4>3. CASE n = m
        <5>1. e \in Picks(channel[m]) BY <2>4, <2>8
        <5>2. \A p \in Picks(answers[m]) : p.key < e.key BY <4>1, <4>3, <5>1
        <5>3. InOrder(Append(answers[m], e)) BY <3>6, <4>1, <4>3, <5>2
        <5>4. InOrder(Tail(channel[m])) /\ \A q \in Picks(Tail(channel[m])) : e.key < q.key
          BY <2>4, <2>8, <4>1, <4>3
        <5>5. \A p \in Picks(Append(answers[m], e)), q \in Picks(Tail(channel[m])) : p.key < q.key
          BY <2>4, <3>6, <4>1, <4>3, <5>4
        <5> QED BY <2>5, <3>3, <4>1, <4>3, <5>3, <5>4, <5>5
      <4> QED BY <4>2, <4>3
    <3>11. NoneIsMissing' BY <1>3, <3>8 DEF IInv, NoneIsMissing
    <3>12. NumbersAgree' BY <1>3, <3>8 DEF IInv, NumbersAgree
    <3>13. NumbersAhead' BY <1>3, <3>8 DEF IInv, NumbersAhead
    <3>14. AnsweredInOrder' BY <1>3 DEF IInv, AnsweredInOrder
    <3> QED BY <3>5, <3>9, <3>10, <3>11, <3>12, <3>13, <3>14 DEF IInv
  <2> QED BY <2>7, <2>8
<1> QED BY <1>2, <1>3 DEF Receive

LEMMA MachineKeepsIInv ==
  ASSUME IInv, NEW m \in Machines, Machine(m)
  PROVE  IInv'
<1>1. TypeOK BY DEF IInv
<1>2. UNCHANGED <<geometryUpdate, rdlUpdates, jsonUpdates, jsonSyncId, channel, direct, answers,
                  lastPickDataMessageSyncId, clientNumbers, asked, answered>>
  BY DEF Machine, dispatchVars, clientVars, mergeVars
<1>3. TypeOK' BY <1>1, <1>2 DEF TypeOK
<1>4. InOrder(jsonUpdates) /\ \A n \in Machines : InOrder(channel[n]) BY DEF IInv, PicksGathered, PicksForwarded
<1> QED BY <1>2, <1>3, <1>4, PicksKept

(***************************************************************************)
(* The merge computation.                                                  *)
(***************************************************************************)

(* The first answer with a larger number than any before it is the next one asked for. *)
LEMMA MergeKeepsIInv ==
  ASSUME IInv, NEW m \in Machines, onJSONMessage(m)
  PROVE  IInv'
<1> DEFINE a == Head(answers[m])
           n0 == Len(answered)
<1>1. TypeOK BY DEF IInv
<1>2. /\ asked \in Nat /\ n0 \in Nat
      /\ lastPickDataMessageSyncId \in Int
      /\ \A p \in Picks(jsonUpdates) : p.key \in Nat /\ p.arg \in Int
      /\ \A m_1 \in Machines : \A p \in OnTheWay(m_1) : p.key \in Nat /\ p.arg \in Int
  BY <1>1, Numbers
<1>3. /\ answers[m] # <<>> /\ answers' = [answers EXCEPT ![m] = Tail(@)]
      /\ IF a.arg > lastPickDataMessageSyncId
         THEN lastPickDataMessageSyncId' = a.arg /\ answered' = Append(answered, a.key)
         ELSE UNCHANGED <<lastPickDataMessageSyncId, answered>>
      /\ UNCHANGED <<geometryUpdate, rdlUpdates, jsonUpdates, jsonSyncId, channel, direct, clientNumbers, asked>>
  BY DEF onJSONMessage, isNewPick, dispatchVars, clientVars, mergeVars
<1>4. answers \in [Machines -> Seq(PickMessage)] BY <1>1 DEF TypeOK
<1>5. a \in PickMessage /\ Tail(answers[m]) \in Seq(PickMessage) BY <1>3, <1>4, TailFacts
<1>6. a.kind = "PICK" /\ a.key \in Nat /\ a.arg \in Nat \cup {UNDEFINED} BY <1>5 DEF PickMessage
<1>7. /\ \A p : p \in Picks(answers[m]) <=> (p = a /\ p.kind = "PICK") \/ p \in Picks(Tail(answers[m]))
      /\ InOrder(answers[m]) => InOrder(Tail(answers[m])) /\ \A p \in Picks(Tail(answers[m])) : a.key < p.key
  BY <1>3, <1>4, <1>6, PicksTail
<1> HIDE DEF a
<1>8. \A n \in Machines : answers'[n] = IF n = m THEN Tail(answers[m]) ELSE answers[n] BY <1>3, <1>4
<1>9. a \in OnTheWay(m) BY <1>6, <1>7 DEF OnTheWay
<1>10. \A n \in Machines : \A p : /\ p \in OnTheWay(n)' => p \in OnTheWay(n)
                                  /\ p \in OnTheWay(n) /\ (n # m \/ p # a) => p \in OnTheWay(n)'
  <2> TAKE n \in Machines
  <2>1. CASE n = m BY <1>3, <1>7, <1>8, <2>1 DEF OnTheWay
  <2>2. CASE n # m BY <1>3, <1>8, <2>2 DEF OnTheWay
  <2> QED BY <2>1, <2>2
<1>11. \A p \in OnTheWay(m)' : a.key < p.key
  <2>1. /\ InOrder(answers[m])
        /\ \A p \in Picks(answers[m]), q \in Picks(channel[m]) : p.key < q.key
    BY DEF IInv, PicksForwarded
  <2>2. a \in Picks(answers[m]) BY <1>6, <1>7
  <2>3. \A p \in OnTheWay(m)' : p \in Picks(channel[m]) \/ p \in Picks(Tail(answers[m])) BY <1>3, <1>8 DEF OnTheWay
  <2> QED BY <1>7, <2>1, <2>2, <2>3
<1>12. a.key < asked /\ \A p \in Picks(jsonUpdates) : a.key < p.key
  BY <1>9 DEF IInv, PicksForwarded, PicksGathered
<1>13. a.key < n0 <=> a.arg <= lastPickDataMessageSyncId BY <1>9 DEF IInv, NumbersAgree
<1>14. \A p \in OnTheWay(m) : p = a \/ a.key < p.key BY <1>10, <1>11
<1>15. a.key >= n0 => a.key = n0
  <2> HAVE a.key >= n0
  <2>1. n0 \in n0 .. asked - 1 BY <1>2, <1>6, <1>12
  <2>2. PICK p \in OnTheWay(m) \cup Picks(jsonUpdates) : p.key = n0 BY <2>1 DEF IInv, NoneIsMissing
  <2> QED BY <1>2, <1>6, <1>12, <1>14, <2>2
<1>16. PicksForwarded'
  <2> SUFFICES ASSUME NEW n \in Machines
               PROVE  /\ InOrder(channel[n]) /\ InOrder(answers'[n])
                      /\ \A p \in OnTheWay(n)' : p.key < asked
                      /\ \A p \in Picks(answers'[n]), q \in Picks(channel[n]) : p.key < q.key
    BY <1>3 DEF PicksForwarded
  <2>1. /\ InOrder(channel[n]) /\ InOrder(answers[n])
        /\ \A p \in OnTheWay(n) : p.key < asked
        /\ \A p \in Picks(answers[n]), q \in Picks(channel[n]) : p.key < q.key
    BY DEF IInv, PicksForwarded
  <2>2. InOrder(answers'[n]) BY <1>7, <1>8, <2>1
  <2>3. \A p \in Picks(answers'[n]) : p \in Picks(answers[n]) BY <1>7, <1>8
  <2> QED BY <1>10, <2>1, <2>2, <2>3
<1>17. answers' \in [Machines -> Seq(PickMessage)] BY <1>3, <1>4, <1>5
<1>18. CASE a.arg > lastPickDataMessageSyncId
  <2>1. /\ lastPickDataMessageSyncId' = a.arg /\ answered' = Append(answered, a.key) BY <1>3, <1>18
  <2>2. a.key = n0 BY <1>2, <1>6, <1>9, <1>13, <1>15, <1>18
  <2>3. /\ answered' \in Seq(Nat) /\ Len(answered') = n0 + 1 /\ answered'[n0 + 1] = n0
        /\ \A i \in 1 .. n0 : answered'[i] = answered[i]
    BY <1>1, <1>6, <2>1, <2>2, AppendFacts DEF TypeOK
  <2> HIDE DEF n0
  <2>4. TypeOK' BY <1>1, <1>3, <1>6, <1>17, <2>1, <2>3 DEF TypeOK
  <2>5. PicksGathered'
    <3>1. /\ InOrder(jsonUpdates)
          /\ \A p \in Picks(jsonUpdates) :
               /\ p.key < asked
               /\ \A n \in Machines : \A q \in OnTheWay(n) : q.key < p.key
      BY DEF IInv, PicksGathered
    <3>2. \A p \in Picks(jsonUpdates) : n0 + 1 <= p.key BY <1>2, <1>12, <2>2
    <3> QED BY <1>3, <1>10, <2>3, <3>1, <3>2 DEF PicksGathered
  <2>6. NoneIsMissing'
    <3> SUFFICES ASSUME NEW n \in Machines, NEW k \in n0 + 1 .. asked - 1
                 PROVE  \E p \in OnTheWay(n)' \cup Picks(jsonUpdates) : p.key = k
      BY <1>3, <2>3 DEF NoneIsMissing
    <3>1. k \in n0 .. asked - 1 /\ k # n0 BY <1>2
    <3>2. PICK p \in OnTheWay(n) \cup Picks(jsonUpdates) : p.key = k BY <3>1 DEF IInv, NoneIsMissing, n0
    <3>3. p # a BY <2>2, <3>1, <3>2
    <3> QED BY <1>10, <3>2, <3>3
  <2>7. NumbersAgree'
    <3>1. \A n, o \in Machines : \A p \in OnTheWay(n), q \in OnTheWay(o) : p.key < q.key <=> p.arg < q.arg
      BY DEF IInv, NumbersAgree
    <3>2. ASSUME NEW n \in Machines, NEW p \in OnTheWay(n)' PROVE p.key < n0 + 1 <=> p.arg <= a.arg
      <4>1. p \in OnTheWay(n) BY <1>10
      <4>2. a.key < p.key <=> a.arg < p.arg BY <1>9, <3>1, <4>1
      <4>3. p.key \in Nat /\ p.arg \in Int /\ a.arg \in Int BY <1>2, <1>9, <4>1
      <4> QED BY <1>2, <2>2, <4>2, <4>3
    <3> QED BY <1>10, <2>1, <2>3, <3>1, <3>2 DEF NumbersAgree
  <2>8. NumbersAhead'
    <3>1. CASE clientNumbers
      <4>1. /\ \A p \in Picks(jsonUpdates) : p.arg = p.key
            /\ \A n \in Machines : \A p \in OnTheWay(n) : p.arg = p.key
        BY <3>1 DEF IInv, NumbersAhead
      <4>2. a.arg = n0 BY <1>9, <2>2, <4>1
      <4> QED BY <1>2, <1>3, <1>10, <2>1, <2>3, <3>1, <4>1, <4>2 DEF NumbersAhead
    <3>2. CASE ~clientNumbers
      <4>1. /\ \A p \in Picks(jsonUpdates) : p.arg = UNDEFINED
            /\ \A n \in Machines : \A p \in OnTheWay(n) : p.arg \in 0 .. jsonSyncId
        BY <3>2 DEF IInv, NumbersAhead
      <4>2. a.arg <= jsonSyncId BY <1>9, <4>1
      <4> QED BY <1>3, <1>10, <2>1, <3>2, <4>1, <4>2 DEF NumbersAhead
    <3> QED BY <3>1, <3>2
  <2>9. AnsweredInOrder'
    <3>1. \A i \in DOMAIN answered : answered[i] = i - 1 BY DEF IInv, AnsweredInOrder
    <3>2. DOMAIN answered = 1 .. n0 /\ DOMAIN answered' = 1 .. n0 + 1 BY <1>1, <2>3, ElementFacts DEF TypeOK, n0
    <3>3. \A i \in 1 .. n0 + 1 : i \in 1 .. n0 \/ i = n0 + 1 BY <1>2
    <3>4. \A i \in DOMAIN answered' : answered'[i] = i - 1 BY <1>2, <2>3, <3>1, <3>2, <3>3
    <3>5. Len(answered') <= asked /\ Len(answered') # 0 BY <1>2, <1>12, <2>2, <2>3
    <3> QED BY <1>3, <3>4, <3>5 DEF AnsweredInOrder
  <2> QED BY <1>16, <2>4, <2>5, <2>6, <2>7, <2>8, <2>9 DEF IInv
<1>19. CASE ~(a.arg > lastPickDataMessageSyncId)
  <2>1. UNCHANGED <<lastPickDataMessageSyncId, answered>> BY <1>3, <1>19
  <2>2. a.key < n0 BY <1>2, <1>9, <1>13, <1>19
  <2>3. TypeOK' BY <1>1, <1>3, <1>17, <2>1 DEF TypeOK
  <2>4. PicksGathered' BY <1>3, <1>10, <2>1 DEF IInv, PicksGathered
  <2>5. NoneIsMissing'
    <3> SUFFICES ASSUME NEW n \in Machines, NEW k \in n0 .. asked - 1
                 PROVE  \E p \in OnTheWay(n)' \cup Picks(jsonUpdates) : p.key = k
      BY <1>3, <2>1 DEF NoneIsMissing
    <3>1. PICK p \in OnTheWay(n) \cup Picks(jsonUpdates) : p.key = k BY DEF IInv, NoneIsMissing
    <3>2. p # a BY <1>2, <2>2, <3>1
    <3> QED BY <1>10, <3>1, <3>2
  <2>6. NumbersAgree' BY <1>10, <2>1 DEF IInv, NumbersAgree
  <2>7. NumbersAhead' BY <1>3, <1>10, <2>1 DEF IInv, NumbersAhead
  <2>8. AnsweredInOrder' BY <1>3, <2>1 DEF IInv, AnsweredInOrder
  <2> QED BY <1>16, <2>3, <2>4, <2>5, <2>6, <2>7, <2>8 DEF IInv
<1> QED BY <1>18, <1>19

(***************************************************************************)
(* The theorems.                                                           *)
(***************************************************************************)

LEMMA NextKeepsIInv ==
  ASSUME Followed = Machines, IInv, [Next]_vars
  PROVE  IInv'
<1>1. CASE Client BY <1>1, ClientKeepsIInv
<1>2. CASE Dispatch BY <1>2, DispatchKeepsIInv
<1>3. ASSUME NEW m \in Machines, Receive(m) PROVE IInv' BY <1>3, ReceiveKeepsIInv
<1>4. ASSUME NEW m \in Machines, Machine(m) PROVE IInv' BY <1>4, MachineKeepsIInv
<1>5. ASSUME NEW m \in Machines, onJSONMessage(m) PROVE IInv' BY <1>5, MergeKeepsIInv
<1>6. CASE UNCHANGED vars
  <2>1. UNCHANGED <<geometryUpdate, rdlUpdates, jsonUpdates, jsonSyncId, channel, direct, answers,
                    lastPickDataMessageSyncId, clientNumbers, asked, answered>>
    BY <1>6 DEF vars, dispatchVars, driverVars, clientVars, mergeVars
  <2>2. TypeOK' BY <2>1 DEF IInv, TypeOK
  <2>3. InOrder(jsonUpdates) /\ \A n \in Machines : InOrder(channel[n]) BY DEF IInv, PicksGathered, PicksForwarded
  <2> QED BY <2>1, <2>2, <2>3, PicksKept
<1> QED BY <1>1, <1>2, <1>3, <1>4, <1>5, <1>6 DEF Next

(* The picks stay in order on every way through the system, and none of those
   not yet answered is missing on the way of any machine. *)
THEOREM Invariance == Followed = Machines => (Spec => []IInv)
<1> SUFFICES ASSUME Followed = Machines PROVE Spec => []IInv OBVIOUS
<1>1. Init => IInv BY InitIInv
<1>2. IInv /\ [Next]_vars => IInv' BY NextKeepsIInv
<1> QED BY <1>1, <1>2, PTL DEF Spec

LEMMA PicksAnsweredHolds ==
  ASSUME IInv
  PROVE  PicksAnswered
<1>1. TypeOK BY DEF IInv
<1>2. asked \in Nat /\ Len(answered) \in Nat BY <1>1, Numbers
<1>3. ASSUME NothingOnItsWay, Len(answered) # asked PROVE FALSE
  <2>1. PICK m \in Machines : TRUE OBVIOUS
  <2>2. Len(answered) \in Len(answered) .. asked - 1 BY <1>2, <1>3 DEF IInv, AnsweredInOrder
  <2>3. PICK p \in OnTheWay(m) \cup Picks(jsonUpdates) : p.key = Len(answered) BY <2>2 DEF IInv, NoneIsMissing
  <2>4. channel[m] = <<>> /\ answers[m] = <<>> BY <1>3 DEF NothingOnItsWay
  <2>5. jsonUpdates = <<>>
    <3> DEFINE s == geometryUpdate \o rdlUpdates
    <3>1. geometryUpdate \in Seq(SceneMessage) /\ rdlUpdates \in Seq(SceneMessage) BY <1>1 DEF TypeOK
    <3>2. s \in Seq(SceneMessage) /\ jsonUpdates \in Seq(JsonMessage) BY <1>1, <3>1, ConcatFacts DEF TypeOK
    <3>3. s \o jsonUpdates = <<>> BY <1>3 DEF NothingOnItsWay, HasUpdates
    <3> HIDE DEF s
    <3>4. ASSUME NEW A, NEW B, NEW x \in Seq(A), NEW y \in Seq(B), x \o y = <<>> PROVE y = <<>>
      <4>1. Len(x) + Len(y) = 0 BY <3>4
      <4>2. Len(y) = 0 BY <4>1
      <4> QED BY <4>2
    <3> QED BY <3>2, <3>3, <3>4
  <2> DEFINE s == <<>>
  <2>6. s \in Seq(JsonMessage) /\ \A k \in 1 .. Len(s) : FALSE OBVIOUS
  <2>7. OnTheWay(m) = Picks(s) \cup Picks(s) /\ Picks(jsonUpdates) = Picks(s) BY <2>4, <2>5 DEF OnTheWay
  <2> HIDE DEF s
  <2>8. Picks(s) = {} BY <2>6, PicksEmpty
  <2> QED BY <2>3, <2>7, <2>8
<1> QED BY <1>3 DEF PicksAnswered, IInv, AnsweredInOrder

(* Whatever the machines' speed and whoever numbers the picks, each pick is
   answered to the client once, in order, and none is lost. *)
THEOREM AnsweredOnce == Followed = Machines => (Spec => []PicksAnswered)
<1> SUFFICES ASSUME Followed = Machines PROVE Spec => []PicksAnswered OBVIOUS
<1>1. IInv => PicksAnswered BY PicksAnsweredHolds
<1>2. Spec => []IInv BY Invariance
<1> QED BY <1>1, <1>2, PTL

================================================================================
