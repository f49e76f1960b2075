--------------------------- MODULE RecorderProofs ---------------------------
(***************************************************************************)
(* Proofs about the recorder beside its monitors: what a probe finds, the  *)
(* gap between fetches, the streak of failed cookies, the status shown of  *)
(* a streamer, and a recording session.                                    *)
(***************************************************************************)
EXTENDS Probes, ProbePacing, CookieHealth, Status, Recording, FiniteSetTheorems,
        WellFoundedInduction, NaturalsInduction, TLAPS

\* The order of the natural numbers.
Less == {ss \in Nat \X Nat : ss[1] < ss[2]}

\* A set of numbers has a smallest one.
LEMMA Smallest ==
    ASSUME NEW S \in SUBSET Nat, S # {}
    PROVE  \E m \in S : \A n \in S : m <= n
<1>1. IsWellFoundedOn(Less, Nat)
  BY NatLessThanWellFounded DEF OpToRel, Less
<1>2. PICK m \in S : \A n \in S : ~(<<n, m>> \in Less)
  BY <1>1, WFMin
<1>3. ASSUME NEW n \in S PROVE m <= n
  <2>1. n \in Nat /\ m \in Nat
    OBVIOUS
  <2>2. ~(n < m)
    BY <1>2, <2>1 DEF Less
  <2> QED
    BY <2>1, <2>2
<1> QED
  BY <1>3

-----------------------------------------------------------------------------
(* Probes.                                                                 *)

ProbesSpec == ProbesInit /\ [][ProbesNext]_probeVars

\* The outcome of a probe, and what the room was while it ran.
Told(by, was, outcome) == probed' = [by |-> by, was |-> was, outcome |-> outcome]

\* An item that decides is found where there is one.
LEMMA DecidingItem ==
    ASSUME NEW p \in RoomPages, NEW i \in DOMAIN p, p[i].refused \/ p[i].living
    PROVE  SelectInSeq(p, LAMBDA j : j.refused \/ j.living) # 0
<1> DEFINE I == {k \in 1..Len(p) : p[k].refused \/ p[k].living}
<1>1. PICK m \in 0..2 : p \in [1..m -> Items]
  BY DEF RoomPages, SeqOf
<1>2. Len(p) = m /\ DOMAIN p = 1..m
  BY <1>1
<1>3. i \in I /\ I \subseteq {1, 2}
  BY <1>1, <1>2
<1> HIDE DEF I
<1>4. \E x \in I : \A y \in I : x <= y
  <2>1. CASE 1 \in I
    BY <1>3, <2>1
  <2>2. CASE 1 \notin I
    BY <1>3, <2>2
  <2> QED
    BY <2>1, <2>2
<1>5. Min(I) \in I
  BY <1>4 DEF Min
<1>6. Min(I) # 0
  BY <1>3, <1>5
<1>7. SelectInSeq(p, LAMBDA j : j.refused \/ j.living) = IF I # {} THEN Min(I) ELSE 0
  BY DEF SelectInSeq, I
<1> QED
  BY <1>3, <1>6, <1>7

\* A page read as offline is one of a room that is not live: a page that says
\* so must be honest about it and must not be empty.
LEMMA PageIsOffline ==
    ASSUME NEW p \in RoomPages, p = <<>> \/ HonestPage(p), ReadPage(p) = "offline"
    PROVE  ~live
<1>1. p # <<>> /\ SelectInSeq(p, LAMBDA i : i.refused \/ i.living) = 0
  BY DEF ReadPage
<1>2. \A i \in DOMAIN p : ~(p[i].refused \/ p[i].living)
  BY <1>1, DecidingItem
<1> QED
  BY <1>1, <1>2 DEF HonestPage

\* The start has probed nothing.
LEMMA ProbesInitially == ProbesInit => OfflineIsTrue
BY DEF ProbesInit, OfflineIsTrue, Offline

\* No answer of Kuaishou or Bilibili is read as offline unless the room was.
LEMMA ProbesPreserve == OfflineIsTrue /\ [ProbesNext]_probeVars => OfflineIsTrue'
<1> SUFFICES ASSUME OfflineIsTrue, [ProbesNext]_probeVars PROVE OfflineIsTrue'
  OBVIOUS
<1> DEFINE Trusted == {"KuaishouPage", "KuaishouShare", "Bilibili"}
<1>1. ASSUME NEW by, NEW outcome, Told(by, live, outcome),
             by \in Trusted /\ outcome = "offline" => ~live
      PROVE  OfflineIsTrue'
  BY <1>1 DEF Told, OfflineIsTrue, Offline
<1>2. CASE Kuaishou
  <2> PICK p \in RoomPages :
        /\ p = <<>> \/ HonestPage(p)
        /\ \/ ReadPage(p) = "offline" /\ ProbeEnds("KuaishouPage", "offline")
           \/ /\ ReadPage(p) = "stream"
              /\ \E s \in Offers \ {<<>>} :
                    Streams("KuaishouPage", s, PickByRate, "error")
           \/ /\ ReadPage(p) \in {"error", "stream"}
              /\ \E result \in {0, 1}, living \in {FALSE, live} :
                    /\ result = 1 => living = live
                    /\ IF ReadShare(result, living) = "stream"
                       THEN \E s \in Offers :
                               Streams("KuaishouShare", s, PickUnsorted, "error")
                       ELSE ProbeEnds("KuaishouShare", ReadShare(result, living))
    BY <1>2 DEF Kuaishou
  <2>1. CASE ReadPage(p) = "offline" /\ ProbeEnds("KuaishouPage", "offline")
    <3>1. ~live
      BY <2>1, PageIsOffline
    <3> QED
      BY <1>1, <2>1, <3>1 DEF ProbeEnds, Told
  <2>2. ASSUME NEW s, Streams("KuaishouPage", s, PickByRate, "error")
        PROVE  OfflineIsTrue'
    <3>1. \E o \in {"error", "stream"} : Told("KuaishouPage", live, o)
      BY <2>2 DEF Streams, Told
    <3> QED
      BY <1>1, <3>1
  <2>3. ASSUME NEW result \in {0, 1}, NEW living \in {FALSE, live},
               result = 1 => living = live,
               IF ReadShare(result, living) = "stream"
               THEN \E s \in Offers :
                       Streams("KuaishouShare", s, PickUnsorted, "error")
               ELSE ProbeEnds("KuaishouShare", ReadShare(result, living))
        PROVE  OfflineIsTrue'
    <3>1. CASE ReadShare(result, living) = "stream"
      <4>1. \E o \in {"error", "stream"} : Told("KuaishouShare", live, o)
        BY <2>3, <3>1 DEF Streams, Told
      <4> QED
        BY <1>1, <4>1
    <3>2. CASE ReadShare(result, living) # "stream"
      <4>1. ReadShare(result, living) = "offline" => ~living /\ result = 1
        BY DEF ReadShare
      <4>2. Told("KuaishouShare", live, ReadShare(result, living))
        BY <2>3, <3>2 DEF ProbeEnds, Told
      <4> QED
        BY <1>1, <2>3, <4>1, <4>2
    <3> QED
      BY <3>1, <3>2
  <2> QED
    BY <2>1, <2>2, <2>3
<1>3. CASE Bilibili
  <2>1. CASE ProbeEnds("Bilibili", "error")
    BY <1>1, <2>1 DEF ProbeEnds, Told
  <2>2. CASE ~live /\ ProbeEnds("Bilibili", "offline")
    BY <1>1, <2>2 DEF ProbeEnds, Told
  <2>3. CASE live /\ ~ProbeEnds("Bilibili", "error")
    <3>1. \E o \in {"error", "stream"} : Told("Bilibili", live, o)
      BY <1>3, <2>3 DEF Bilibili, Streams, Told
    <3> QED
      BY <1>1, <3>1
  <2> QED
    BY <1>3, <2>1, <2>2, <2>3 DEF Bilibili
<1>4. CASE Twitch
  <2>1. \E o : Told("Twitch", live, o)
    BY <1>4 DEF Twitch, PlaybackToken, Usher, ProbeEnds, Streams, Told
  <2> QED
    BY <1>1, <2>1
<1>5. CASE Soop
  <2>1. \E o : Told("Soop", live, o)
    BY <1>5 DEF Soop, SoopNode, ProbeEnds, Streams, Told
  <2> QED
    BY <1>1, <2>1
<1>6. CASE Douyin
  <2>1. \E o : Told("Douyin", live, o)
    BY <1>6 DEF Douyin, ProbeEnds, Streams, Told
  <2> QED
    BY <1>1, <2>1
<1>7. CASE Turn \/ UNCHANGED probeVars
  BY <1>7 DEF Turn, probeVars, OfflineIsTrue, Offline
<1> QED
  BY <1>2, <1>3, <1>4, <1>5, <1>6, <1>7 DEF ProbesNext

\* No page, share or status of Kuaishou or Bilibili, disturbed by whatever
\* captcha, throttling or failure, is read as a room that is not live while it
\* is (fetchViaWebPage, fetchViaByUserAPI, Bilibili's GetStreamURL).
THEOREM OfflineIsTrueAlways == ProbesSpec => []OfflineIsTrue
BY ProbesInitially, ProbesPreserve, PTL DEF ProbesSpec

\* There is a rank at each place of a list: the largest one with enough ranks
\* as good as it.
LEMMA RankIsThere ==
    ASSUME NEW I, IsFiniteSet(I), I # {}, NEW s, \A i \in I : s[i] \in Nat,
           NEW k \in 1 .. Cardinality(I)
    PROVE  RankAt(s, I, k) \in {s[i] : i \in I}
<1> DEFINE Above(r) == {i \in I : s[i] > r}
           From(r) == {i \in I : s[i] >= r}
           R == {s[i] : i \in I}
           G == {r \in R : k <= Cardinality(From(r))}
           C == {Cardinality(From(r)) : r \in G}
<1>1. R \in SUBSET Nat /\ R # {} /\ k \in Nat /\ 1 <= k
  <2>1. Cardinality(I) \in Nat
    BY FS_CardinalityType
  <2> QED
    BY <2>1
<1>2. ASSUME NEW J \in SUBSET I PROVE IsFiniteSet(J) /\ Cardinality(J) \in Nat
  BY <1>2, FS_Subset, FS_CardinalityType
<1>3. PICK m \in R : \A n \in R : m <= n
  <2> HIDE DEF R
  <2> QED
    BY <1>1, Smallest
<1>4. G # {}
  <2>1. From(m) = I
    BY <1>1, <1>3
  <2>2. k <= Cardinality(I)
    BY FS_CardinalityType
  <2>3. m \in G
    BY <1>3, <2>1, <2>2
  <2> QED
    BY <2>3
<1>5. C \in SUBSET Nat /\ C # {}
  BY <1>2, <1>4
<1>6. PICK r \in G : \A t \in G : Cardinality(From(r)) <= Cardinality(From(t))
  <2>1. PICK c \in C : \A n \in C : c <= n
    <3> HIDE DEF C
    <3> QED
      BY <1>5, Smallest
  <2>2. PICK r \in G : c = Cardinality(From(r))
    BY <2>1
  <2>3. \A t \in G : Cardinality(From(t)) \in C
    OBVIOUS
  <2> HIDE DEF C, G
  <2> QED
    BY <2>1, <2>2, <2>3
<1>7. Cardinality(Above(r)) < k
  <2> SUFFICES ASSUME ~(Cardinality(Above(r)) < k) PROVE FALSE
    OBVIOUS
  <2> DEFINE A == {s[i] : i \in Above(r)}
  <2>1. r \in Nat /\ Cardinality(Above(r)) \in Nat /\ k <= Cardinality(Above(r))
    BY <1>1, <1>2
  <2>2. A # {}
    <3>1. Above(r) # {}
      BY <1>1, <2>1, FS_EmptySet
    <3> QED
      BY <3>1
  <2>3. PICK t \in A : \A n \in A : t <= n
    <3>1. A \in SUBSET Nat
      OBVIOUS
    <3> HIDE DEF A
    <3> QED
      BY <2>2, <3>1, Smallest
  <2>4. t \in Nat /\ t > r /\ t \in R
    BY <2>3
  <2>5. From(t) = Above(r)
    <3>1. ASSUME NEW i \in I PROVE s[i] >= t <=> s[i] > r
      <4>1. s[i] \in Nat
        OBVIOUS
      <4>2. s[i] > r => t <= s[i]
        BY <2>3
      <4> QED
        BY <2>1, <2>4, <4>1, <4>2
    <3> QED
      BY <3>1
  <2>6. Cardinality(From(r)) <= Cardinality(Above(r))
    BY <1>6, <2>1, <2>4, <2>5
  <2>7. Above(r) \in SUBSET From(r) /\ IsFiniteSet(From(r)) /\ From(r) \in SUBSET I
    BY <1>2, <2>1
  <2>8. Cardinality(From(r)) = Cardinality(Above(r))
    <3>1. Cardinality(Above(r)) <= Cardinality(From(r))
      BY <2>7, FS_Subset
    <3>2. Cardinality(From(r)) \in Nat
      BY <1>2, <2>7
    <3> QED
      BY <2>1, <2>6, <3>1, <3>2
  <2>9. From(r) = Above(r)
    BY <2>7, <2>8, FS_Subset
  <2>10. PICK j \in I : r = s[j]
    OBVIOUS
  <2>11. j \in From(r) /\ j \notin Above(r)
    BY <2>1, <2>10
  <2> QED
    BY <2>9, <2>11
<1> QED
  BY <1>6, <1>7 DEF RankAt

\* A place counted from 1 lies in the list.
LEMMA PlaceIsThere ==
    ASSUME NEW n \in Nat, n # 0, NEW q
    PROVE  Place(n, q) \in 1 .. n
<1>1. (n \div 2) + 1 \in 1 .. n
  OBVIOUS
<1> QED
  BY <1>1 DEF Place

\* A list of ranks, and what is taken of it.
LEMMA TakenOfIt ==
    ASSUME NEW s \in Offers, NEW I \in SUBSET (DOMAIN s), NEW q
    PROVE  PickOf(s, I, q) \in Ranks \cup {0}
<1>1. PICK n \in 0 .. MaxOffer : s \in [1 .. n -> Ranks]
  BY DEF Offers, SeqOf
<1>2. IsFiniteSet(I)
  <2>1. IsFiniteSet(1 .. n)
    BY FS_Interval
  <2> QED
    BY <1>1, <2>1, FS_Subset
<1>3. \A i \in I : s[i] \in Ranks /\ s[i] \in Nat
  BY <1>1, ProbesAssumption DEF ProbesAssumption
<1>4. CASE I # {}
  <2>1. Cardinality(I) \in Nat /\ Cardinality(I) # 0
    BY <1>2, <1>4, FS_CardinalityType, FS_EmptySet
  <2>2. Place(Cardinality(I), q) \in 1 .. Cardinality(I)
    BY <2>1, PlaceIsThere
  <2>3. RankAt(s, I, Place(Cardinality(I), q)) \in {s[i] : i \in I}
    BY <1>2, <1>3, <1>4, <2>2, RankIsThere
  <2> QED
    BY <1>3, <1>4, <2>3 DEF PickOf
<1> QED
  BY <1>4 DEF PickOf

\* Every platform's choice is one of the ranks, or nothing.
LEMMA PicksAreRanks ==
    ASSUME NEW s \in Offers, NEW q \in Settings
    PROVE  /\ PickUnsorted(s, q) \in Ranks \cup {0}
           /\ PickByRate(s, q) \in Ranks \cup {0}
           /\ PickQN(s, q) \in Ranks \cup {0}
           /\ \A h \in SUBSET Ranks : PickVariant(h, s, q) \in Ranks \cup {0}
           /\ PickPreset(s, q) \in Ranks \cup {0}
           /\ PickKey(s, q) \in Ranks \cup {0}
<1>1. PICK n \in 0 .. MaxOffer : s \in [1 .. n -> Ranks]
  BY DEF Offers, SeqOf
<1>2. n \in Nat /\ Len(s) = n /\ DOMAIN s = 1 .. n /\ \A i \in 1 .. n : s[i] \in Ranks
  BY <1>1
<1>3. s # << >> => n # 0
  BY <1>1
<1>4. ToSet(s) \subseteq Ranks
  BY <1>2 DEF ToSet
<1>5. PickUnsorted(s, q) \in Ranks \cup {0}
  BY <1>2, <1>3, PlaceIsThere DEF PickUnsorted
<1>6. PickByRate(s, q) \in Ranks \cup {0}
  BY TakenOfIt DEF PickByRate
<1>7. PickQN(s, q) \in Ranks \cup {0}
  BY <1>4, <1>6 DEF PickQN
<1>8. ASSUME NEW h \in SUBSET Ranks PROVE PickVariant(h, s, q) \in Ranks \cup {0}
  <2> DEFINE usable == {i \in DOMAIN s : s[i] \in h}
             J == IF usable = {} THEN DOMAIN s ELSE usable
  <2>1. J \in SUBSET (DOMAIN s)
    OBVIOUS
  <2>2. PickVariant(h, s, q) = PickOf(s, J, q)
    BY DEF PickVariant
  <2> HIDE DEF J
  <2> QED
    BY <2>1, <2>2, TakenOfIt
<1>9. PickPreset(s, q) \in Ranks \cup {0}
  <2>1. CASE s # << >>
    <3> DEFINE named == {i \in DOMAIN s : Named(s[i]) = q}
               J == IF named = {} THEN DOMAIN s ELSE named
    <3>1. J \subseteq 1 .. n /\ J # {}
      BY <1>2, <1>3, <2>1
    <3>2. PickPreset(s, q) = RankAt(s, J, 1)
      BY <2>1 DEF PickPreset
    <3> HIDE DEF J
    <3>3. IsFiniteSet(J)
      <4>1. IsFiniteSet(1 .. n)
        BY <1>2, FS_Interval
      <4> QED
        BY <3>1, <4>1, FS_Subset
    <3>4. 1 \in 1 .. Cardinality(J)
      BY <3>1, <3>3, FS_CardinalityType, FS_EmptySet
    <3>5. \A i \in J : s[i] \in Nat /\ s[i] \in Ranks
      BY <1>2, <3>1, ProbesAssumption DEF ProbesAssumption
    <3>6. RankAt(s, J, 1) \in {s[i] : i \in J}
      BY <3>1, <3>3, <3>4, <3>5, RankIsThere
    <3> QED
      BY <3>2, <3>5, <3>6
  <2> QED
    BY <2>1 DEF PickPreset
<1>10. PickKey(s, q) \in Ranks \cup {0}
  <2> DEFINE keys == DouyinKeys[q]
             J == {i \in 1 .. Len(keys) : keys[i] \in ToSet(s)}
             first == IF J # {} THEN Min(J) ELSE 0
  <2>1. PickKey(s, q) = IF first > 0 THEN keys[first]
                        ELSE IF s = << >> THEN 0 ELSE s[1]
    BY DEF PickKey, SelectInSeq
  <2>2. s # << >> => s[1] \in Ranks
    BY <1>2, <1>3
  <2>3. CASE J # {}
    <3>1. J \in SUBSET Nat
      OBVIOUS
    <3>2. PICK m \in J : \A k \in J : m <= k
      <4> HIDE DEF J
      <4> QED
        BY <2>3, <3>1, Smallest
    <3>3. Min(J) \in J
      BY <3>2 DEF Min
    <3>4. keys[first] \in ToSet(s)
      BY <2>3, <3>3
    <3> QED
      BY <1>4, <2>1, <2>2, <3>4
  <2> QED
    BY <2>1, <2>2, <2>3
<1> QED
  BY <1>5, <1>6, <1>7, <1>8, <1>9, <1>10

\* What the end of a probe leaves, with a stream or without.
Leaves(by, outcome) ==
    /\ probed' = [by |-> by, was |-> live, outcome |-> outcome]
    /\ offer' \in Offers /\ picked' \in [Settings -> Ranks \cup {0}]
    /\ live' = live

\* A probe that ends without a stream leaves nothing taken.
LEMMA EndLeaves ==
    ASSUME NEW by, NEW how, ProbeEnds(by, how)
    PROVE  Leaves(by, how)
<1>1. << >> \in Offers
  <2>1. 0 \in 0 .. MaxOffer /\ << >> \in [1 .. 0 -> Ranks]
    BY ProbesAssumption DEF ProbesAssumption
  <2> QED
    BY <2>1 DEF Offers, SeqOf
<1>2. NothingTaken \in [Settings -> Ranks \cup {0}]
  BY DEF NothingTaken
<1> QED
  BY <1>1, <1>2 DEF ProbeEnds, Leaves

\* The same for a stream, as each platform takes it.
LEMMA StreamLeaves ==
    ASSUME NEW by, NEW s \in Offers, NEW o,
           \/ Streams(by, s, PickUnsorted, o) \/ Streams(by, s, PickByRate, o)
           \/ Streams(by, s, PickPreset, o) \/ Streams(by, s, PickKey, o)
           \/ \E h \in SUBSET Ranks :
                 Streams(by, s, LAMBDA list, q : PickVariant(h, list, q), o)
           \/ \E granted \in BOOLEAN :
                 Streams(by, s, LAMBDA list, q : IF granted THEN PickQN(list, q)
                                                 ELSE PickByRate(list, "sd"), o)
    PROVE  Leaves(by, "stream") \/ Leaves(by, o)
<1>1. /\ offer' = s /\ live' = live
      /\ \E out \in {"stream", o} :
            probed' = [by |-> by, was |-> live, outcome |-> out]
  BY DEF Streams
<1>2. "sd" \in Settings
  BY DEF Settings
<1>3. picked' \in [Settings -> Ranks \cup {0}]
  <2>1. CASE Streams(by, s, PickUnsorted, o)
    BY <2>1, PicksAreRanks DEF Streams
  <2>2. CASE Streams(by, s, PickByRate, o)
    BY <2>2, PicksAreRanks DEF Streams
  <2>3. CASE Streams(by, s, PickPreset, o)
    BY <2>3, PicksAreRanks DEF Streams
  <2>4. CASE Streams(by, s, PickKey, o)
    BY <2>4, PicksAreRanks DEF Streams
  <2>5. ASSUME NEW h \in SUBSET Ranks,
               Streams(by, s, LAMBDA list, q : PickVariant(h, list, q), o)
        PROVE  picked' \in [Settings -> Ranks \cup {0}]
    BY <2>5, PicksAreRanks DEF Streams
  <2>6. ASSUME NEW granted \in BOOLEAN,
               Streams(by, s, LAMBDA list, q : IF granted THEN PickQN(list, q)
                                               ELSE PickByRate(list, "sd"), o)
        PROVE  picked' \in [Settings -> Ranks \cup {0}]
    BY <1>2, <2>6, PicksAreRanks DEF Streams
  <2> QED
    BY <2>1, <2>2, <2>3, <2>4, <2>5, <2>6
<1> QED
  BY <1>1, <1>3 DEF Leaves

\* Every probe leaves what its type says.
LEMMA ProbesKeepType == ProbesTypeOK /\ [ProbesNext]_probeVars => ProbesTypeOK'
<1> SUFFICES ASSUME ProbesTypeOK, [ProbesNext]_probeVars PROVE ProbesTypeOK'
  OBVIOUS
<1> DEFINE Outcomes == {"stream", "offline", "error"}
<1>1. ASSUME NEW by \in Sources, NEW o \in Outcomes, Leaves(by, o)
      PROVE  ProbesTypeOK'
  BY <1>1 DEF Leaves, ProbesTypeOK
<1>2. CASE Kuaishou
  <2>1. \E by \in {"KuaishouPage", "KuaishouShare"}, o \in Outcomes :
           \/ ProbeEnds(by, o)
           \/ \E s \in Offers : \/ Streams(by, s, PickByRate, "error")
                                \/ Streams(by, s, PickUnsorted, "error")
    BY <1>2 DEF Kuaishou, ReadShare
  <2> QED
    BY <1>1, <2>1, EndLeaves, StreamLeaves DEF Sources
<1>3. CASE Bilibili
  <2>1. \/ \E o \in Outcomes : ProbeEnds("Bilibili", o)
        \/ \E s \in Offers, granted \in BOOLEAN :
              Streams("Bilibili", s,
                      LAMBDA list, q : IF granted THEN PickQN(list, q)
                                       ELSE PickByRate(list, "sd"), "error")
    BY <1>3 DEF Bilibili
  <2> QED
    BY <1>1, <2>1, EndLeaves, StreamLeaves DEF Sources
<1>4. CASE Twitch
  <2>1. \/ \E o \in Outcomes : ProbeEnds("Twitch", o)
        \/ \E s \in Offers, h \in SUBSET Ranks :
              Streams("Twitch", s, LAMBDA list, q : PickVariant(h, list, q), "error")
    BY <1>4 DEF Twitch, PlaybackToken, Usher
  <2> QED
    BY <1>1, <2>1, EndLeaves, StreamLeaves DEF Sources
<1>5. CASE Soop
  <2>1. \/ \E o \in Outcomes : ProbeEnds("Soop", o)
        \/ \E s \in Offers : Streams("Soop", s, PickPreset, "error")
    BY <1>5 DEF Soop, SoopNode
  <2> QED
    BY <1>1, <2>1, EndLeaves, StreamLeaves DEF Sources
<1>6. CASE Douyin
  <2>1. \/ \E o \in Outcomes : ProbeEnds("Douyin", o)
        \/ \E s \in Offers : Streams("Douyin", s, PickKey, "offline")
    BY <1>6 DEF Douyin
  <2> QED
    BY <1>1, <2>1, EndLeaves, StreamLeaves DEF Sources
<1>7. CASE Turn \/ UNCHANGED probeVars
  BY <1>7 DEF Turn, probeVars, ProbesTypeOK
<1> QED
  BY <1>2, <1>3, <1>4, <1>5, <1>6, <1>7 DEF ProbesNext

\* A start of the program satisfies it.
LEMMA ProbesStartTyped == ProbesInit => ProbesTypeOK
<1> SUFFICES ASSUME ProbesInit PROVE ProbesTypeOK
  OBVIOUS
<1>1. 0 \in 0 .. MaxOffer /\ << >> \in [1 .. 0 -> Ranks]
  BY ProbesAssumption DEF ProbesAssumption
<1>2. << >> \in Offers
  BY <1>1 DEF Offers, SeqOf
<1>3. picked \in [Settings -> Ranks \cup {0}]
  BY DEF ProbesInit, NothingTaken
<1> QED
  BY <1>2, <1>3 DEF ProbesInit, ProbesTypeOK, Sources

\* The type invariant of the probes: whatever list a platform offers, what is
\* taken for a setting is a rank, or nothing; no place is beyond the list.
THEOREM ProbesTypeCorrect == ProbesSpec => []ProbesTypeOK
BY ProbesStartTyped, ProbesKeepType, PTL DEF ProbesSpec

-----------------------------------------------------------------------------
(* ProbePacing.                                                            *)

PacingSpec == PacingInit /\ [][PacingNext]_pacingVars

\* Between the gap and its fetch there is nobody but the holder of the mutex.
OneAtTheGate == \A r \in Rooms : room[r] \in {"gap", "hold"} => owner = r

\* The room at a place of the gate is the holder.
AtGate(place) == \E r \in Rooms : owner = r /\ room[r] = place

\* The sleep of the holder and the age of the last stamp add up to the gap.
SleepsForTheRest == AtGate("gap") => age + sleep >= Gap

\* Stamps and fetches have the same age, but for the stamp of a fetch that is
\* still to go out, which was made when the last one was a gap old.
StampIsFetch == calm => since = IF AtGate("hold") THEN Gap ELSE age

PacingInvariant ==
    /\ PacingTypeOK /\ OneAtTheGate /\ SleepsForTheRest /\ StampIsFetch

LongestSleep == IF Gap > MaxHold THEN Gap ELSE MaxHold

\* The numbers of the gate.
LEMMA PacingNumbers ==
    /\ Gap \in Nat \ {0} /\ MaxHold \in Nat /\ BaseHold \in Nat
    /\ LongestSleep \in Nat /\ Gap <= LongestSleep /\ MaxHold <= LongestSleep
    /\ Nobody \notin Rooms
    /\ \A t \in Nat, m \in Nat : Capped(t, m) \in 0..m
    /\ \A t \in Nat, m \in Nat : t <= m => Capped(t, m) = t
    /\ \A n \in Nat : BaseHold * n \in Nat
<1>1. /\ Gap \in Nat \ {0} /\ MaxHold \in Nat /\ BaseHold \in Nat
      /\ Nobody \notin Rooms
  BY PacingAssumption DEF PacingAssumption
<1>2. LongestSleep \in Nat /\ Gap <= LongestSleep /\ MaxHold <= LongestSleep
  BY <1>1 DEF LongestSleep
<1>3. \A n \in Nat : BaseHold * n \in Nat
  BY <1>1
<1>4. \A t \in Nat, m \in Nat : Capped(t, m) \in 0..m
  BY DEF Capped
<1>5. \A t \in Nat, m \in Nat : t <= m => Capped(t, m) = t
  BY DEF Capped
<1> QED
  BY <1>1, <1>2, <1>3, <1>4, <1>5

\* The start: nobody waits, and the last fetch is long ago.
LEMMA PacingInitially == PacingInit => PacingInvariant
<1> SUFFICES ASSUME PacingInit PROVE PacingInvariant
  OBVIOUS
<1>1. PacingTypeOK
  BY PacingNumbers DEF PacingInit, PacingTypeOK, LongestSleep
<1>2. OneAtTheGate /\ ~AtGate("gap") /\ ~AtGate("hold")
  BY DEF PacingInit, OneAtTheGate, AtGate
<1>3. SleepsForTheRest /\ StampIsFetch
  BY <1>2 DEF PacingInit, SleepsForTheRest, StampIsFetch
<1> QED
  BY <1>1, <1>2, <1>3 DEF PacingInvariant

\* A room that is not at the gate and does not come to it leaves it as it is.
LEMMA GateStays ==
    ASSUME PacingInvariant, NEW r \in Rooms, NEW p,
           p \in {"idle", "waits", "fetches"}, room[r] \notin {"gap", "hold"},
           room' = [room EXCEPT ![r] = p], owner' = owner
    PROVE  /\ OneAtTheGate'
           /\ AtGate("gap")' <=> AtGate("gap")
           /\ AtGate("hold")' <=> AtGate("hold")
           /\ room' \in [Rooms -> {"idle", "waits", "gap", "hold", "fetches"}]
BY DEF PacingInvariant, PacingTypeOK, OneAtTheGate, AtGate

\* Every step of time, of a room at the gate and of an answer keeps it.
LEMMA PacingPreserves ==
    PacingInvariant /\ [PacingNext]_pacingVars => PacingInvariant'
<1> SUFFICES ASSUME PacingInvariant, [PacingNext]_pacingVars
             PROVE  PacingInvariant'
  OBVIOUS
<1>1. /\ room \in [Rooms -> {"idle", "waits", "gap", "hold", "fetches"}]
      /\ owner \in Rooms \cup {Nobody}
      /\ age \in 0..Gap /\ since \in 0..Gap /\ hold \in 0..MaxHold
      /\ streak \in 0..MaxHold /\ sleep \in 0..LongestSleep /\ calm \in BOOLEAN
  BY DEF PacingInvariant, PacingTypeOK, LongestSleep
<1>2. OneAtTheGate /\ SleepsForTheRest /\ StampIsFetch
  BY DEF PacingInvariant
<1>3. CASE Tick
  <2>1. /\ age' = Capped(age + 1, Gap) /\ since' = Capped(since + 1, Gap)
        /\ hold' = (IF hold > 0 THEN hold - 1 ELSE 0)
        /\ sleep' = (IF sleep > 0 THEN sleep - 1 ELSE 0)
        /\ UNCHANGED <<room, owner, streak, calm>>
        /\ owner # Nobody => sleep > 0
    BY <1>3 DEF Tick
  <2>2. /\ age' \in 0..Gap /\ since' \in 0..Gap /\ hold' \in 0..MaxHold
        /\ sleep' \in 0..LongestSleep
    <3>1. /\ age + 1 \in Nat /\ since + 1 \in Nat /\ Gap \in Nat
          /\ MaxHold \in Nat /\ LongestSleep \in Nat
      BY <1>1, PacingNumbers
    <3>2. age' \in 0..Gap /\ since' \in 0..Gap
      BY <2>1, <3>1, PacingNumbers
    <3>3. hold' \in 0..MaxHold
      BY <1>1, <2>1, <3>1
    <3>4. sleep' \in 0..LongestSleep
      BY <1>1, <2>1, <3>1
    <3> QED
      BY <3>2, <3>3, <3>4
  <2>3. PacingTypeOK'
    BY <1>1, <2>1, <2>2 DEF PacingTypeOK, LongestSleep
  <2>4. OneAtTheGate' /\ (AtGate("gap")' <=> AtGate("gap"))
        /\ (AtGate("hold")' <=> AtGate("hold"))
    BY <1>2, <2>1 DEF OneAtTheGate, AtGate
  <2>5. SleepsForTheRest'
    <3> SUFFICES ASSUME AtGate("gap") PROVE age' + sleep' >= Gap
      BY <2>4 DEF SleepsForTheRest
    <3>1. owner # Nobody
      BY PacingNumbers DEF AtGate
    <3> QED
      BY <1>1, <1>2, <2>1, <3>1, PacingNumbers DEF SleepsForTheRest, Capped
  <2>6. StampIsFetch'
    BY <1>1, <1>2, <2>1, <2>4, PacingNumbers DEF StampIsFetch, Capped
  <2> QED
    BY <2>3, <2>4, <2>5, <2>6 DEF PacingInvariant
<1>4. ASSUME NEW r \in Rooms,
             BeginProbe(r) \/ NoteRisk(r) \/ NoteOK(r) \/ FetchFails(r)
      PROVE  PacingInvariant'
  <2>1. PICK p \in {"idle", "waits"} : room' = [room EXCEPT ![r] = p]
    BY <1>4 DEF BeginProbe, NoteRisk, NoteOK, FetchFails, Next0
  <2>2. /\ UNCHANGED <<owner, age, sleep, since, calm>>
        /\ room[r] \notin {"gap", "hold"}
    BY <1>4 DEF BeginProbe, NoteRisk, NoteOK, FetchFails
  <2>3. /\ OneAtTheGate' /\ (AtGate("gap")' <=> AtGate("gap"))
        /\ (AtGate("hold")' <=> AtGate("hold"))
        /\ room' \in [Rooms -> {"idle", "waits", "gap", "hold", "fetches"}]
    BY <2>1, <2>2, GateStays
  <2>4. streak' \in 0..MaxHold /\ hold' \in 0..MaxHold
    <3>1. CASE NoteRisk(r)
      <4>1. streak' = Capped(streak + 1, MaxHold)
            /\ hold' = Capped(BaseHold * streak', MaxHold)
        BY <3>1 DEF NoteRisk
      <4>2. streak' \in 0..MaxHold /\ streak' \in Nat
        BY <1>1, <4>1, PacingNumbers
      <4> QED
        BY <4>1, <4>2, PacingNumbers
    <3>2. CASE ~NoteRisk(r)
      <4>1. \/ streak' = streak /\ hold' = hold
            \/ streak' = 0 /\ hold' = 0
        BY <1>4, <3>2 DEF BeginProbe, NoteOK, FetchFails
      <4>2. 0 \in 0..MaxHold
        BY PacingNumbers
      <4> QED
        BY <1>1, <4>1, <4>2
    <3> QED
      BY <3>1, <3>2
  <2>5. PacingTypeOK'
    BY <1>1, <2>2, <2>3, <2>4 DEF PacingTypeOK, LongestSleep
  <2> QED
    BY <1>2, <2>2, <2>3, <2>5 DEF PacingInvariant, SleepsForTheRest, StampIsFetch
<1>5. ASSUME NEW r \in Rooms, LockGate(r)
      PROVE  PacingInvariant'
  <2>1. /\ room[r] = "waits" /\ owner = Nobody /\ owner' = r
        /\ room' = [room EXCEPT ![r] = "gap"] /\ sleep' = Gap - age
        /\ UNCHANGED <<age, hold, streak, since, calm>>
    BY <1>5 DEF LockGate
  <2>2. ~AtGate("hold") /\ ~AtGate("hold")' /\ OneAtTheGate'
    BY <1>1, <1>2, <2>1, PacingNumbers DEF AtGate, OneAtTheGate
  <2>3. sleep' \in 0..LongestSleep /\ age + sleep' >= Gap
    BY <1>1, <2>1, PacingNumbers
  <2>4. PacingTypeOK'
    BY <1>1, <2>1, <2>3 DEF PacingTypeOK, LongestSleep
  <2> QED
    BY <1>2, <2>1, <2>2, <2>3, <2>4
    DEF PacingInvariant, SleepsForTheRest, StampIsFetch
<1>6. ASSUME NEW r \in Rooms, StampFetch(r)
      PROVE  PacingInvariant'
  <2>1. /\ owner = r /\ room[r] = "gap" /\ sleep = 0 /\ age' = 0 /\ sleep' = hold
        /\ room' = [room EXCEPT ![r] = "hold"]
        /\ UNCHANGED <<owner, hold, streak, since, calm>>
    BY <1>6 DEF StampFetch
  <2>2. /\ AtGate("gap") /\ ~AtGate("hold") /\ ~AtGate("gap")' /\ AtGate("hold")'
        /\ OneAtTheGate'
    BY <1>1, <1>2, <2>1 DEF AtGate, OneAtTheGate
  <2>3. age = Gap
    BY <1>1, <1>2, <2>1, <2>2, PacingNumbers DEF SleepsForTheRest
  <2>4. sleep' \in 0..LongestSleep /\ age' \in 0..Gap
    BY <1>1, <2>1, PacingNumbers
  <2>5. PacingTypeOK'
    BY <1>1, <2>1, <2>4 DEF PacingTypeOK, LongestSleep
  <2> QED
    BY <1>2, <2>1, <2>2, <2>3, <2>5
    DEF PacingInvariant, SleepsForTheRest, StampIsFetch
<1>7. ASSUME NEW r \in Rooms, Fetch(r)
      PROVE  PacingInvariant'
  <2>1. /\ owner = r /\ room[r] = "hold" /\ owner' = Nobody
        /\ room' = [room EXCEPT ![r] = "fetches"]
        /\ since' = 0 /\ calm' = (age = 0)
        /\ UNCHANGED <<age, hold, streak, sleep>>
    BY <1>7 DEF Fetch
  <2>2. ~AtGate("gap")' /\ ~AtGate("hold")' /\ OneAtTheGate'
    BY <1>1, <1>2, <2>1, PacingNumbers DEF AtGate, OneAtTheGate
  <2>3. PacingTypeOK'
    BY <1>1, <2>1, PacingNumbers DEF PacingTypeOK, LongestSleep
  <2> QED
    BY <2>1, <2>2, <2>3 DEF PacingInvariant, SleepsForTheRest, StampIsFetch
<1>8. CASE UNCHANGED pacingVars
  BY <1>8
  DEF pacingVars, PacingInvariant, PacingTypeOK, OneAtTheGate, SleepsForTheRest,
      StampIsFetch, AtGate
<1> QED
  BY <1>3, <1>4, <1>5, <1>6, <1>7, <1>8 DEF PacingNext

\* A fetch goes out by the step of the gate only, when the last one is a gap old.
LEMMA FetchIsApart ==
    ASSUME PacingInvariant, [PacingNext]_pacingVars, NEW r \in Rooms,
           room[r] = "hold", room'[r] = "fetches", calm
    PROVE  since >= Gap
<1>1. owner = r /\ AtGate("hold") /\ since = Gap
  BY DEF PacingInvariant, OneAtTheGate, AtGate, StampIsFetch
<1> QED
  BY <1>1, PacingNumbers

\* Two fetches of any two rooms are the gap apart, whatever the order in which
\* any number of rooms get the mutex and however the hold grows and falls,
\* unless the first of the two slept through a hold (kuaishouThrottle).
THEOREM FetchesApartAlways == PacingSpec => FetchesApart
<1>1. PacingInvariant /\ [PacingNext]_pacingVars =>
        [\A r \in Rooms : (room[r] = "hold" /\ room'[r] = "fetches" /\ calm)
                             => since >= Gap]_pacingVars
  BY FetchIsApart
<1> QED
  BY <1>1, PacingInitially, PacingPreserves, PTL DEF PacingSpec, FetchesApart

\* The type invariant of the gate before Kuaishou's pages and the rooms at it.
THEOREM PacingTypeCorrect == PacingSpec => []PacingTypeOK
<1>1. PacingInvariant => PacingTypeOK
  BY DEF PacingInvariant
<1> QED
  BY <1>1, PacingInitially, PacingPreserves, PTL DEF PacingSpec

-----------------------------------------------------------------------------
(* CookieHealth.                                                           *)

CookieSpec == CookieInit /\ [][CookieNext]_cookieVars

ReporterState == [at : {"idle", "failed", "succeeded", "set", "found"},
                  sets : Verdicts, found : Verdicts]

\* Reporter r is about to call the cookie suspect.
Suspects(r) == reporters[r].at \in {"set", "found"} /\ reporters[r].sets = "suspect"

\* A streak that reached the limit was reported, or is being reported by the
\* monitor whose failure reached it.
StreakIsOnItsWay ==
    failures >= ErrorLimit => suspected \/ \E r \in Reporters : Suspects(r)

CookieInvariant == CookieTypeOK /\ StreakIsOnItsWay

\* The start has no verdict and no failure.
LEMMA CookieInitially == CookieInit => CookieInvariant
<1> SUFFICES ASSUME CookieInit PROVE CookieInvariant
  OBVIOUS
<1>1. Quiet \in ReporterState
  BY DEF Quiet, ReporterState, Verdicts, Bad
<1>2. reporters \in [Reporters -> ReporterState]
  BY <1>1 DEF CookieInit
<1>3. 0 \in 0..MaxErrors /\ ~(0 >= ErrorLimit)
  BY CookieAssumption DEF CookieAssumption
<1> QED
  BY <1>2, <1>3
  DEF CookieInit, CookieInvariant, CookieTypeOK, StreakIsOnItsWay, ReporterState,
      Verdicts, Bad

\* Every report of a monitor, every answer of the platform and every verdict
\* keeps it.
LEMMA CookiePreserves ==
    CookieInvariant /\ [CookieNext]_cookieVars => CookieInvariant'
<1> SUFFICES ASSUME CookieInvariant, [CookieNext]_cookieVars
             PROVE  CookieInvariant'
  OBVIOUS
<1>1. /\ cookie \in BOOLEAN /\ verdict \in Verdicts /\ suspected \in BOOLEAN
      /\ failures \in 0..MaxErrors /\ failures \in Nat /\ MaxErrors \in Nat
      /\ ErrorLimit \in Nat \ {0} /\ reporters \in [Reporters -> ReporterState]
      /\ notice \in {"none", "alarm", "recovered"} /\ StreakIsOnItsWay
  BY CookieAssumption
  DEF CookieInvariant, CookieTypeOK, ReporterState, CookieAssumption
<1>2. /\ Quiet \in ReporterState /\ [Quiet EXCEPT !.at = "succeeded"] \in ReporterState
      /\ \A s \in Verdicts : Setting(s) \in ReporterState
      /\ {"ok", "invalid", "unknown", "suspect"} \subseteq Verdicts
      /\ Quiet.at = "idle" /\ Setting("suspect").at = "set"
      /\ Setting("suspect").sets = "suspect"
  BY DEF Quiet, Setting, ReporterState, Verdicts, Bad
<1>3. ASSUME NEW r \in Reporters, NEW s \in ReporterState, Reports(r, s)
      PROVE  /\ reporters' \in [Reporters -> ReporterState]
             /\ reporters'[r] = s
             /\ \A q \in Reporters \ {r} : reporters'[q] = reporters[q]
  BY <1>1, <1>3 DEF Reports
<1>4. ASSUME NEW r \in Reporters, NEW s \in ReporterState, Reports(r, s),
             ~Suspects(r), failures' = failures, suspected' = suspected
      PROVE  StreakIsOnItsWay'
  BY <1>1, <1>3, <1>4 DEF StreakIsOnItsWay, Suspects
<1>5. Watchers \subseteq Reporters /\ HealthLoop \in Reporters
  BY DEF Reporters
<1>6. CASE ChangeCookie
  BY <1>1, <1>6
  DEF ChangeCookie, CookieInvariant, CookieTypeOK, StreakIsOnItsWay, Suspects,
      ReporterState
<1>7. CASE AskPlatform
  <2>1. PICK s \in {"ok", "invalid", "unknown"} : Reports(HealthLoop, Setting(s))
    BY <1>7 DEF AskPlatform
  <2>2. Setting(s) \in ReporterState /\ ~Suspects(HealthLoop)
    BY <1>2, <1>7 DEF AskPlatform, Suspects
  <2>3. StreakIsOnItsWay' /\ reporters' \in [Reporters -> ReporterState]
    BY <1>3, <1>4, <1>5, <1>7, <2>1, <2>2 DEF AskPlatform
  <2> QED
    BY <1>1, <1>7, <2>3 DEF AskPlatform, CookieInvariant, CookieTypeOK, ReporterState
<1>8. ASSUME NEW w \in Watchers, ProbeSucceeds(w)
      PROVE  CookieInvariant'
  <2>1. reporters' \in [Reporters -> ReporterState]
    BY <1>2, <1>3, <1>5, <1>8 DEF ProbeSucceeds
  <2>2. StreakIsOnItsWay'
    BY <1>1, <1>8 DEF ProbeSucceeds, StreakIsOnItsWay
  <2>3. failures' \in 0..MaxErrors
    BY <1>1, <1>8 DEF ProbeSucceeds
  <2> QED
    BY <1>1, <1>8, <2>1, <2>2, <2>3
    DEF ProbeSucceeds, CookieInvariant, CookieTypeOK, ReporterState
<1>9. ASSUME NEW w \in Watchers, LiftSuspicion(w)
      PROVE  CookieInvariant'
  <2>1. PICK s \in ReporterState : Reports(w, s)
    BY <1>2, <1>9 DEF LiftSuspicion
  <2>2. ~Suspects(w)
    BY <1>9 DEF LiftSuspicion, Suspects
  <2>3. StreakIsOnItsWay' /\ reporters' \in [Reporters -> ReporterState]
    BY <1>3, <1>4, <1>5, <1>9, <2>1, <2>2 DEF LiftSuspicion
  <2> QED
    BY <1>1, <1>9, <2>3 DEF LiftSuspicion, CookieInvariant, CookieTypeOK, ReporterState
<1>10. ASSUME NEW w \in Watchers, ProbeFails(w)
       PROVE  CookieInvariant'
  <2>1. /\ failures' = failures + 1 /\ failures' \in 0..MaxErrors
        /\ UNCHANGED <<cookie, verdict, notice, suspected>>
    BY <1>1, <1>10 DEF ProbeFails
  <2>2. ~Suspects(w)
    BY <1>10 DEF ProbeFails, Suspects
  <2>3. CASE failures' = ErrorLimit
    <3>1. Reports(w, Setting("suspect"))
      BY <1>10, <2>3 DEF ProbeFails
    <3>2. /\ reporters' \in [Reporters -> ReporterState]
          /\ reporters'[w] = Setting("suspect")
      BY <1>2, <1>3, <1>5, <3>1
    <3>3. Suspects(w)'
      BY <1>2, <3>2 DEF Suspects
    <3>4. StreakIsOnItsWay'
      BY <1>5, <3>3 DEF StreakIsOnItsWay
    <3> QED
      BY <1>1, <2>1, <3>2, <3>4 DEF CookieInvariant, CookieTypeOK, ReporterState
  <2>4. CASE failures' # ErrorLimit
    <3>1. Reports(w, Quiet)
      BY <1>10, <2>4 DEF ProbeFails
    <3>2. /\ reporters' \in [Reporters -> ReporterState]
          /\ \A q \in Reporters \ {w} : reporters'[q] = reporters[q]
      BY <1>2, <1>3, <1>5, <3>1
    <3>3. failures' >= ErrorLimit => failures >= ErrorLimit
      BY <1>1, <2>1, <2>4
    <3>4. StreakIsOnItsWay'
      BY <1>1, <2>1, <2>2, <3>2, <3>3 DEF StreakIsOnItsWay, Suspects
    <3> QED
      BY <1>1, <2>1, <3>2, <3>4 DEF CookieInvariant, CookieTypeOK, ReporterState
  <2> QED
    BY <2>3, <2>4
<1>11. ASSUME NEW r \in Reporters, FindVerdict(r)
       PROVE  CookieInvariant'
  <2>1. CASE reporters[r].sets = "unknown" /\ verdict # "unknown"
    <3>1. Reports(r, Quiet) /\ ~Suspects(r)
      BY <1>11, <2>1 DEF FindVerdict, Suspects
    <3>2. StreakIsOnItsWay' /\ reporters' \in [Reporters -> ReporterState]
      BY <1>2, <1>3, <1>4, <1>11, <3>1 DEF FindVerdict
    <3> QED
      BY <1>1, <1>11, <3>2 DEF FindVerdict, CookieInvariant, CookieTypeOK, ReporterState
  <2>2. CASE ~(reporters[r].sets = "unknown" /\ verdict # "unknown")
    <3> DEFINE s == [reporters[r] EXCEPT !.at = "found", !.found = verdict]
    <3>1. Reports(r, s)
      BY <1>11, <2>2 DEF FindVerdict
    <3>2. s \in ReporterState /\ s.at = "found" /\ s.sets = reporters[r].sets
      BY <1>1 DEF ReporterState
    <3> HIDE DEF s
    <3>3. /\ reporters' \in [Reporters -> ReporterState] /\ reporters'[r] = s
          /\ \A q \in Reporters \ {r} : reporters'[q] = reporters[q]
      BY <1>3, <3>1, <3>2
    <3>4. \A q \in Reporters : Suspects(q) => Suspects(q)'
      BY <3>2, <3>3 DEF Suspects
    <3>5. StreakIsOnItsWay'
      BY <1>1, <1>11, <3>4 DEF FindVerdict, StreakIsOnItsWay
    <3> QED
      BY <1>1, <1>11, <3>3, <3>5
      DEF FindVerdict, CookieInvariant, CookieTypeOK, ReporterState
  <2> QED
    BY <2>1, <2>2
<1>12. ASSUME NEW r \in Reporters, StoreVerdict(r)
       PROVE  CookieInvariant'
  <2>1. /\ verdict' = reporters[r].sets /\ verdict' \in Verdicts
        /\ suspected' = (suspected \/ reporters[r].sets = "suspect")
        /\ suspected' \in BOOLEAN
        /\ notice' \in {"none", "alarm", "recovered"}
        /\ Reports(r, Quiet) /\ UNCHANGED <<cookie, failures>>
    BY <1>1, <1>12 DEF StoreVerdict, ReporterState
  <2>2. /\ reporters' \in [Reporters -> ReporterState]
        /\ \A q \in Reporters \ {r} : reporters'[q] = reporters[q]
    BY <1>2, <1>3, <2>1
  <2>3. StreakIsOnItsWay'
    <3>1. CASE Suspects(r) \/ suspected
      <4>1. suspected'
        BY <2>1, <3>1 DEF Suspects
      <4> QED
        BY <4>1 DEF StreakIsOnItsWay
    <3>2. CASE ~Suspects(r) /\ ~suspected
      <4>1. failures >= ErrorLimit => \E q \in Reporters \ {r} : Suspects(q)
        BY <1>1, <3>2 DEF StreakIsOnItsWay
      <4>2. \A q \in Reporters \ {r} : Suspects(q)' <=> Suspects(q)
        BY <2>2 DEF Suspects
      <4> QED
        BY <2>1, <4>1, <4>2 DEF StreakIsOnItsWay
    <3> QED
      BY <3>1, <3>2
  <2> QED
    BY <1>1, <2>1, <2>2, <2>3 DEF CookieInvariant, CookieTypeOK, ReporterState
<1>13. CASE UNCHANGED cookieVars
  BY <1>1, <1>13
  DEF cookieVars, CookieInvariant, CookieTypeOK, StreakIsOnItsWay, Suspects,
      ReporterState
<1> QED
  BY <1>6, <1>7, <1>8, <1>9, <1>10, <1>11, <1>12, <1>13 DEF CookieNext

\* However many monitors of a platform fail at once, a streak of failures that
\* reaches the limit is reported: when nobody is in the middle of a report, the
\* cookie was called suspect since the last success (recordCookieProbeOutcome,
\* setCookieHealth).
THEOREM StreakIsReportedAlways == CookieSpec => []StreakIsReported
<1>1. CookieInvariant => StreakIsReported
  <2> SUFFICES ASSUME CookieInvariant, AllQuiet, failures >= ErrorLimit
               PROVE  suspected
    BY DEF StreakIsReported
  <2>1. \A r \in Reporters : ~Suspects(r)
    BY DEF AllQuiet, Suspects, Quiet
  <2> QED
    BY <2>1 DEF CookieInvariant, StreakIsOnItsWay
<1> QED
  BY <1>1, CookieInitially, CookiePreserves, PTL DEF CookieSpec

\* The type invariant of a cookie's streak and verdict.
THEOREM CookieTypeCorrect == CookieSpec => []CookieTypeOK
<1>1. CookieInvariant => CookieTypeOK
  BY DEF CookieInvariant
<1> QED
  BY <1>1, CookieInitially, CookiePreserves, PTL DEF CookieSpec

-----------------------------------------------------------------------------
(* Status.                                                                 *)

StatusSpec == StatusInit /\ [][StatusNext]_statusVars

\* Where monitors and requests can be.
RecorderPlaces ==
    {"dead", "begin", "top", "load", "judge", "store", "session", "exit", "clear"}
AskerPlaces ==
    {"dead", "load", "judge", "store", "exit", "clear", "copy", "put", "show",
     "order"}

\* The part of the type invariant this needs.
StatusState ==
    /\ task \in Tasks /\ order \in {"none", "running", "paused", "deleted"}
    /\ active \in BOOLEAN /\ overlapped \in BOOLEAN
    /\ signal \in BOOLEAN /\ needs \in BOOLEAN /\ unsent \in BOOLEAN
    /\ doing \in [Recorders \cup Askers ->
                    [at : RecorderPlaces \cup AskerPlaces,
                     msg : Messages \cup Asks, read : Tasks]]
    /\ shot \in [Recorders -> Tasks]
    /\ \A m \in Recorders : doing[m].at \in RecorderPlaces
    /\ \A r \in Askers : doing[r].at \in AskerPlaces

\* In updateBuiltinStatus, and what monitors and requests tell there.
Updating == {"load", "judge", "store"}

Tellable(u) == IF u \in Askers THEN {"watching", "stopped"} ELSE Messages
MessagesAreTold ==
    \A u \in Recorders \cup Askers :
        doing[u].at \in Updating => doing[u].msg \in Tellable(u)

\* A new picture is taken during a session, which waits for it.
ShotInSession ==
    \A m \in Recorders : shot[m] # NoTask => doing[m].at = "session"

\* Without overlap there is one request at a time.
OneAsker ==
    \A r, s \in Askers : doing[r].at # "dead" /\ doing[s].at # "dead" => r = s

\* A monitor will see that the streamer is deleted ...
MonitorWillTell == \E m \in Recorders : doing[m].at \notin {"dead", "clear"}
\* ... or a request is about to remove the entry, or to start a monitor.
RequestWillTell ==
    \E r \in Askers : \/ doing[r].at = "exit"
                      \/ doing[r].at = "show" /\ doing[r].msg = "resume" /\ ~active

\* Of a deleted streamer no copy is under way, a request that tells of it adds
\* it anew, and an entry that came back has somebody to remove it.
DeletedIsHandled ==
    /\ \A r \in Askers :
          /\ doing[r].at \notin {"order", "copy", "put"}
          /\ doing[r].at \in Updating => doing[r].msg = "watching" /\ ~active
    /\ task # NoTask => MonitorWillTell \/ RequestWillTell

\* ChangesAreSent is inductive by itself; the rest is for DeletedIsGone.
StatusInvariant ==
    /\ StatusState /\ MessagesAreTold /\ ShotInSession /\ ChangesAreSent
    /\ ~overlapped => OneAsker /\ (order = "deleted" => DeletedIsHandled)

\* The first state satisfies it.
LEMMA StatusInitially == StatusInit => StatusInvariant
<1> SUFFICES ASSUME StatusInit PROVE StatusInvariant
  OBVIOUS
<1>1. /\ task = NoTask /\ order = "none" /\ active = FALSE
      /\ signal = FALSE /\ needs = FALSE /\ unsent = FALSE /\ overlapped = FALSE
      /\ doing = [u \in Recorders \cup Askers |->
                    [at |-> "dead", msg |-> "watching", read |-> NoTask]]
      /\ shot = [m \in Recorders |-> NoTask]
  BY DEF StatusInit, Resting, Doing
<1>2. StatusState
  BY <1>1 DEF StatusState, Tasks, Messages, RecorderPlaces, AskerPlaces
<1> QED
  BY <1>1, <1>2 DEF StatusInvariant, MessagesAreTold, ShotInSession,
     ChangesAreSent, OneAsker, Updating

\* What is left of a position when a goroutine moves on.
LEMMA MovedOn ==
    ASSUME NEW e \in [at : RecorderPlaces \cup AskerPlaces,
                      msg : Messages \cup Asks, read : Tasks],
           NEW a, NEW t
    PROVE  /\ [e EXCEPT !.at = a] = [at |-> a, msg |-> e.msg, read |-> e.read]
           /\ [e EXCEPT !.at = a, !.read = t]
                  = [at |-> a, msg |-> e.msg, read |-> t]
<1>1. PICK p \in RecorderPlaces \cup AskerPlaces, m \in Messages \cup Asks,
           r \in Tasks : e = [at |-> p, msg |-> m, read |-> r]
  OBVIOUS
<1>2. [[at |-> p, msg |-> m, read |-> r] EXCEPT !.at = a]
          = [at |-> a, msg |-> m, read |-> r]
  OBVIOUS
<1>3. [[at |-> p, msg |-> m, read |-> r] EXCEPT !.at = a, !.read = t]
          = [at |-> a, msg |-> m, read |-> t]
  <2>1. [[at |-> p, msg |-> m, read |-> r] EXCEPT !.at = a, !.read = t]
            = [[[at |-> p, msg |-> m, read |-> r] EXCEPT !.at = a]
                  EXCEPT !.read = t]
    OBVIOUS
  <2>2. [[at |-> a, msg |-> m, read |-> r] EXCEPT !.read = t]
            = [at |-> a, msg |-> m, read |-> t]
    OBVIOUS
  <2> QED
    BY <1>2, <2>1, <2>2
<1>4. e.msg = m /\ e.read = r
  BY <1>1
<1> QED
  BY <1>1, <1>2, <1>3, <1>4

\* What a step of one goroutine does to the others: nothing.
LEMMA DoOne ==
    ASSUME StatusState, NEW u \in Recorders \cup Askers,
           NEW a \in RecorderPlaces \cup AskerPlaces,
           NEW g \in Messages \cup Asks, NEW t \in Tasks,
           Do(u, [at |-> a, msg |-> g, read |-> t]),
           u \in Recorders => a \in RecorderPlaces,
           u \in Askers => a \in AskerPlaces
    PROVE  /\ doing' \in [Recorders \cup Askers ->
                            [at : RecorderPlaces \cup AskerPlaces,
                             msg : Messages \cup Asks, read : Tasks]]
           /\ \A v \in Recorders \cup Askers : v # u => doing'[v] = doing[v]
           /\ doing'[u] = [at |-> a, msg |-> g, read |-> t]
           /\ \A m \in Recorders : doing'[m].at \in RecorderPlaces
           /\ \A r \in Askers : doing'[r].at \in AskerPlaces
<1>1. [at |-> a, msg |-> g, read |-> t]
          \in [at : RecorderPlaces \cup AskerPlaces,
               msg : Messages \cup Asks, read : Tasks]
  OBVIOUS
<1>2. doing' = [doing EXCEPT ![u] = [at |-> a, msg |-> g, read |-> t]]
  BY DEF Do
<1>3. /\ doing' \in [Recorders \cup Askers ->
                       [at : RecorderPlaces \cup AskerPlaces,
                        msg : Messages \cup Asks, read : Tasks]]
      /\ \A v \in Recorders \cup Askers : v # u => doing'[v] = doing[v]
      /\ doing'[u] = [at |-> a, msg |-> g, read |-> t]
  BY <1>1, <1>2 DEF StatusState
<1> QED
  BY <1>3 DEF StatusState

\* A goroutine that moves on keeps the invariant when it leaves what the
\* invariant says of it: it does not take away a picture, asks for what it
\* stored to be sent, and tells nothing of a deleted streamer unless somebody
\* will remove it.
LEMMA OneMovesOn ==
    ASSUME StatusInvariant, NEW u \in Recorders \cup Askers,
           NEW a \in RecorderPlaces \cup AskerPlaces,
           NEW g \in Messages \cup Asks, NEW t \in Tasks,
           Do(u, [at |-> a, msg |-> g, read |-> t]),
           u \in Recorders => a \in RecorderPlaces,
           u \in Askers => a \in AskerPlaces,
           a \in Updating => g \in Tellable(u),
           doing[u].at # "dead", u \in Recorders => shot[u] = NoTask,
           UNCHANGED <<overlapped, shot, needs>>,
           active' \in {active, FALSE}, order' \in {order, "running", "paused"},
           task' \in Tasks, signal' \in BOOLEAN, unsent' \in BOOLEAN,
           unsent' /\ task' # NoTask =>
               \/ signal'
               \/ u \in Askers /\ a \in {"show", "clear"}
               \/ /\ signal' = signal /\ unsent /\ task # NoTask
                  /\ u \in Askers => doing[u].at \notin {"show", "clear"},
           ~overlapped /\ order = "deleted" /\ order' = "deleted" =>
               /\ u \in Askers =>
                     /\ a \notin {"order", "copy", "put"}
                     /\ a \in Updating => g = "watching" /\ ~active
               /\ task' # NoTask =>
                     \/ u \in Recorders /\ a \notin {"dead", "clear"}
                     \/ u \in Askers /\ a = "exit"
                     \/ u \in Askers /\ a = "show" /\ g = "resume" /\ ~active
                     \/ /\ task # NoTask
                        /\ u \in Recorders => doing[u].at \in {"dead", "clear"}
                        /\ u \in Askers => doing[u].at \notin {"exit", "show"}
    PROVE  StatusInvariant'
<1>0. StatusState
  BY DEF StatusInvariant
<1>d. doing'[u] = [at |-> a, msg |-> g, read |-> t]
  BY <1>0, DoOne
<1>a. /\ doing' \in [Recorders \cup Askers ->
                       [at : RecorderPlaces \cup AskerPlaces,
                        msg : Messages \cup Asks, read : Tasks]]
      /\ \A v \in Recorders \cup Askers : v # u => doing'[v] = doing[v]
      /\ doing'[u].at = a /\ doing'[u].msg = g
      /\ \A m \in Recorders : doing'[m].at \in RecorderPlaces
      /\ \A r \in Askers : doing'[r].at \in AskerPlaces
  <2>1. doing'[u].at = a /\ doing'[u].msg = g
    BY <1>d
  <2> QED
    BY <1>0, <2>1, DoOne
<1>b. StatusState'
  BY <1>0, <1>a DEF StatusState
<1>c. active' => active
  BY <1>0 DEF StatusState
<1>1. MessagesAreTold'
  <2>1. ASSUME NEW v \in Recorders \cup Askers, doing'[v].at \in Updating
        PROVE  doing'[v].msg \in Tellable(v)
    BY <1>a, <2>1 DEF StatusInvariant, MessagesAreTold
  <2> QED
    BY <2>1 DEF MessagesAreTold, Tellable
<1>2. ShotInSession'
  BY <1>a DEF StatusInvariant, ShotInSession
<1>3. ChangesAreSent'
  <2> SUFFICES ASSUME unsent', task' # NoTask, ~signal', ~needs'
               PROVE  \E r \in Askers : doing'[r].at \in {"show", "clear"}
    BY DEF ChangesAreSent
  <2>1. CASE u \in Askers /\ a \in {"show", "clear"}
    BY <1>a, <2>1
  <2>2. CASE /\ signal' = signal /\ unsent /\ task # NoTask
             /\ u \in Askers => doing[u].at \notin {"show", "clear"}
    <3>1. PICK r \in Askers : doing[r].at \in {"show", "clear"}
      BY <2>2 DEF StatusInvariant, ChangesAreSent
    <3> QED
      BY <1>a, <2>2, <3>1
  <2> QED
    BY <2>1, <2>2
<1>4. ASSUME ~overlapped' PROVE OneAsker'
  BY <1>4, <1>a DEF StatusInvariant, OneAsker
<1>5. ASSUME ~overlapped', order' = "deleted" PROVE DeletedIsHandled'
  <2>1. ~overlapped /\ order = "deleted" /\ DeletedIsHandled
    BY <1>5 DEF StatusInvariant
  <2>2. \A r \in Askers :
          /\ doing'[r].at \notin {"order", "copy", "put"}
          /\ doing'[r].at \in Updating => doing'[r].msg = "watching" /\ ~active'
    BY <1>5, <1>a, <1>c, <2>1 DEF DeletedIsHandled
  <2>3. ASSUME task' # NoTask PROVE (MonitorWillTell \/ RequestWillTell)'
    <3>1. CASE u \in Recorders /\ a \notin {"dead", "clear"}
      BY <1>a, <3>1 DEF MonitorWillTell
    <3>2. CASE u \in Askers /\ a = "exit"
      BY <1>a, <3>2 DEF RequestWillTell
    <3>3. CASE u \in Askers /\ a = "show" /\ g = "resume" /\ ~active
      BY <1>a, <1>c, <3>3 DEF RequestWillTell
    <3>4. CASE /\ task # NoTask
               /\ u \in Recorders => doing[u].at \in {"dead", "clear"}
               /\ u \in Askers => doing[u].at \notin {"exit", "show"}
      <4>1. CASE MonitorWillTell
        BY <1>a, <3>4, <4>1 DEF MonitorWillTell
      <4>2. CASE RequestWillTell
        <5>1. PICK r \in Askers :
                \/ doing[r].at = "exit"
                \/ doing[r].at = "show" /\ doing[r].msg = "resume" /\ ~active
          BY <4>2 DEF RequestWillTell
        <5>2. doing'[r] = doing[r]
          BY <1>a, <3>4, <5>1
        <5> QED
          BY <1>c, <5>1, <5>2 DEF RequestWillTell
      <4> QED
        BY <2>1, <3>4, <4>1, <4>2 DEF DeletedIsHandled
    <3> QED
      BY <1>5, <2>1, <2>3, <3>1, <3>2, <3>3, <3>4
  <2> QED
    BY <2>2, <2>3 DEF DeletedIsHandled
<1> QED
  BY <1>b, <1>1, <1>2, <1>3, <1>4, <1>5 DEF StatusInvariant

\* The entry and its flags keep their types when one is stored.
LEMMA PutKeepsTypes ==
    ASSUME StatusState, NEW t \in Tasks, NEW c \in BOOLEAN, Put(t, c)
    PROVE  /\ task' \in Tasks /\ unsent' \in BOOLEAN /\ signal' \in BOOLEAN
           /\ task' = t /\ (c => signal')
           /\ t = task => unsent' = unsent
           /\ ~c => signal' = signal
BY DEF StatusState, Put

\* updateBuiltinStatus keeps it.
LEMMA UpdatesPreserve ==
    ASSUME StatusInvariant, NEW u \in Recorders \cup Askers,
           LoadTask(u) \/ JudgeChange(u) \/ StoreTask(u)
    PROVE  StatusInvariant'
<1> DEFINE d == doing[u]
<1>1. /\ d \in [at : RecorderPlaces \cup AskerPlaces,
                msg : Messages \cup Asks, read : Tasks]
      /\ task \in Tasks /\ signal \in BOOLEAN /\ unsent \in BOOLEAN
      /\ StatusState
  BY DEF StatusInvariant, StatusState
<1>2. d.at \in Updating => (u \in Recorders => shot[u] = NoTask)
  BY DEF StatusInvariant, ShotInSession, Updating
<1>3. d.at \in Updating => d.msg \in Tellable(u)
  BY DEF StatusInvariant, MessagesAreTold
<1>4. ~overlapped /\ order = "deleted" /\ u \in Askers /\ d.at \in Updating
          => d.msg = "watching" /\ ~active
  BY DEF StatusInvariant, DeletedIsHandled
<1>5. d.at = "load" \/ d.at = "judge" \/ d.at = "store"
  BY DEF LoadTask, JudgeChange, StoreTask
<1>6. CASE LoadTask(u)
  <2>1. /\ Do(u, [d EXCEPT !.at = "judge", !.read = task])
        /\ UNCHANGED <<active, order, overlapped, shot, needs>>
        /\ UNCHANGED <<task, unsent, signal>>
    BY <1>6 DEF LoadTask, Unput, restVars
  <2>2. [d EXCEPT !.at = "judge", !.read = task]
            = [at |-> "judge", msg |-> d.msg, read |-> task]
    <3> HIDE DEF d
    <3> QED
      BY <1>1, MovedOn
  <2>3. Do(u, [at |-> "judge", msg |-> d.msg, read |-> task])
    BY <2>1, <2>2
  <2>4. /\ "judge" \in RecorderPlaces /\ "judge" \in AskerPlaces
        /\ d.at \in Updating /\ d.msg \in Messages \cup Asks
    BY <1>1, <1>5 DEF RecorderPlaces, AskerPlaces, Updating
  <2> QED
    BY <1>1, <1>2, <1>3, <1>4, <1>5, <2>1, <2>3, <2>4, OneMovesOn
<1>7. CASE JudgeChange(u)
  <2>1. PICK t \in Messages \cup {d.msg} :
           /\ Do(u, [at |-> "store", msg |-> d.msg, read |-> t])
           /\ UNCHANGED <<active, order, overlapped, shot, needs>>
           /\ UNCHANGED <<task, unsent, signal>>
    BY <1>7 DEF JudgeChange, Unput, restVars, Messages
  <2>2. /\ "store" \in RecorderPlaces /\ "store" \in AskerPlaces
        /\ d.at \in Updating /\ t \in Tasks /\ d.msg \in Messages \cup Asks
    BY <1>1, <1>3, <1>5, <2>1 DEF RecorderPlaces, AskerPlaces, Updating, Tasks,
       Tellable, Messages
  <2> QED
    BY <1>1, <1>2, <1>3, <1>4, <1>5, <2>1, <2>2, OneMovesOn
<1>8. CASE StoreTask(u)
  <2>1. /\ Put(d.read, TRUE) /\ d.read \in Tasks /\ d.at \in Updating
        /\ UNCHANGED <<active, order, overlapped, shot, needs>>
    BY <1>1, <1>5, <1>8 DEF StoreTask, Updating, restVars
  <2>2. task' \in Tasks /\ unsent' \in BOOLEAN /\ signal' \in BOOLEAN /\ signal'
    BY <1>1, <2>1, PutKeepsTypes
  <2>3. CASE u \in Askers
    <3>1. d.msg \in {"watching", "stopped"} /\ u \notin Recorders
      BY <1>3, <2>1, <2>3, StatusAssumption DEF Tellable, StatusAssumption
    <3>2. CASE d.msg = "watching"
      <4>1. Do(u, [at |-> "show", msg |-> "resume", read |-> NoTask])
        BY <1>8, <2>3, <3>1, <3>2 DEF StoreTask, Doing
      <4>2. "show" \in AskerPlaces /\ "resume" \in Asks /\ NoTask \in Tasks
            /\ "show" \notin Updating
        BY DEF AskerPlaces, Asks, Tasks, Updating
      <4> QED
        BY <1>1, <1>2, <1>4, <1>5, <2>1, <2>2, <2>3, <3>1, <4>1, <4>2, OneMovesOn
    <3>3. CASE d.msg = "stopped"
      <4>1. Do(u, [at |-> "dead", msg |-> "watching", read |-> NoTask])
        BY <1>8, <2>3, <3>1, <3>3 DEF StoreTask, Doing, Resting
      <4>2. "dead" \in AskerPlaces /\ "watching" \in Messages /\ NoTask \in Tasks
            /\ "dead" \notin Updating
        BY DEF AskerPlaces, Messages, Tasks, Updating
      <4> QED
        BY <1>1, <1>2, <1>4, <1>5, <2>1, <2>2, <2>3, <3>1, <3>3, <4>1, <4>2,
           OneMovesOn
    <3> QED
      BY <3>1, <3>2, <3>3
  <2>4. CASE u \in Recorders
    <3>1. PICK a \in {"session", "top"}, g \in {"live", "watching"} :
             Do(u, [at |-> a, msg |-> g, read |-> NoTask])
      BY <1>8, <2>4, StatusAssumption DEF StoreTask, Doing, StatusAssumption
    <3>2. a \in RecorderPlaces /\ g \in Messages /\ NoTask \in Tasks
          /\ a \notin Updating /\ a \notin {"dead", "clear"}
      BY <3>1 DEF RecorderPlaces, Messages, Tasks, Updating
    <3> QED
      BY <1>1, <1>2, <1>5, <2>1, <2>2, <2>4, <3>1, <3>2, StatusAssumption,
         OneMovesOn DEF StatusAssumption
  <2> QED
    BY <2>3, <2>4
<1> QED
  BY <1>6, <1>7, <1>8

\* A monitor's own steps keep it.
LEMMA MonitorPreserves ==
    ASSUME StatusInvariant, NEW m \in Recorders,
           \/ BeginRecorder(m) \/ WatchRound(m) \/ SessionEnds(m)
           \/ RemoveEntry(m) \/ ClearDebounce(m)
    PROVE  StatusInvariant'
<1>1. /\ task \in Tasks /\ signal \in BOOLEAN /\ unsent \in BOOLEAN
      /\ StatusState
  BY DEF StatusInvariant, StatusState
<1>2. m \notin Askers /\ m \in Recorders \cup Askers
      /\ Tellable(m) = {"watching", "live", "waiting", "stopped"}
  BY StatusAssumption DEF StatusAssumption, Tellable, Messages
<1>3. doing[m].at # "session" => shot[m] = NoTask
  BY DEF StatusInvariant, ShotInSession
<1>4. NoTask \in Tasks
  BY DEF Tasks
<1>5. CASE BeginRecorder(m) \/ WatchRound(m) \/ SessionEnds(m)
  <2>1. PICK a \in {"load", "exit"}, g \in {"watching", "live", "waiting", "stopped"} :
           Do(m, [at |-> a, msg |-> g, read |-> NoTask])
    BY <1>5 DEF BeginRecorder, WatchRound, SessionEnds, Doing, Findings
  <2>2. /\ UNCHANGED <<active, overlapped, shot, needs, task, unsent, signal>>
        /\ order' \in {order, "running"} /\ shot[m] = NoTask
        /\ doing[m].at \in {"begin", "top", "session"}
    BY <1>3, <1>5 DEF BeginRecorder, WatchRound, SessionEnds, Unput, restVars
  <2>3. a \in RecorderPlaces /\ g \in Messages /\ a \notin {"dead", "clear"}
    BY <2>1 DEF RecorderPlaces, Messages
  <2> QED
    BY <1>1, <1>2, <1>4, <2>1, <2>2, <2>3, OneMovesOn
<1>6. CASE RemoveEntry(m)
  <2>1. /\ Do(m, [at |-> "clear", msg |-> "watching", read |-> NoTask])
        /\ Put(NoTask, FALSE) /\ active' = FALSE /\ doing[m].at = "exit"
        /\ UNCHANGED <<order, overlapped, shot, needs>>
    BY <1>6 DEF RemoveEntry, Doing, restVars
  <2>2. task' = NoTask /\ unsent' \in BOOLEAN /\ signal' \in BOOLEAN
    BY <1>1, <1>4, <2>1, PutKeepsTypes
  <2>3. "clear" \in RecorderPlaces /\ "watching" \in Messages
        /\ "clear" \notin Updating
    BY DEF RecorderPlaces, Messages, Updating
  <2> QED
    BY <1>1, <1>2, <1>3, <1>4, <2>1, <2>2, <2>3, OneMovesOn
<1>7. CASE ClearDebounce(m)
  <2>1. /\ Do(m, [at |-> "dead", msg |-> "watching", read |-> NoTask])
        /\ Put(task, m \in Askers) /\ doing[m].at = "clear"
        /\ UNCHANGED <<active, order, overlapped, shot, needs>>
    BY <1>7 DEF ClearDebounce, Doing, Resting, restVars
  <2>2. UNCHANGED <<task, unsent, signal>>
    BY <1>1, <1>2, <2>1 DEF Put
  <2>3. "dead" \in RecorderPlaces /\ "watching" \in Messages
        /\ "dead" \notin Updating
    BY DEF RecorderPlaces, Messages, Updating
  <2> QED
    BY <1>1, <1>2, <1>3, <1>4, <2>1, <2>2, <2>3, OneMovesOn
<1> QED
  BY <1>5, <1>6, <1>7

\* The steps of a request that is under way keep it.
LEMMA RequestPreserves ==
    ASSUME StatusInvariant, NEW r \in Askers,
           \/ OrderAll(r) \/ CopyTask(r) \/ PutTask(r) \/ RemoveTask(r)
           \/ ClearDebounce(r)
    PROVE  StatusInvariant'
<1> DEFINE d == doing[r]
<1>1. /\ task \in Tasks /\ signal \in BOOLEAN /\ unsent \in BOOLEAN
      /\ d \in [at : RecorderPlaces \cup AskerPlaces,
                msg : Messages \cup Asks, read : Tasks]
      /\ StatusState
  BY DEF StatusInvariant, StatusState
<1>2. r \notin Recorders /\ r \in Recorders \cup Askers
  BY StatusAssumption DEF StatusAssumption
<1>3. ~overlapped /\ order = "deleted" => d.at \notin {"order", "copy", "put"}
  BY DEF StatusInvariant, DeletedIsHandled
<1>4. NoTask \in Tasks
  BY DEF Tasks
<1>5. CASE OrderAll(r) \/ (CopyTask(r) /\ task # NoTask)
  <2>1. PICK t \in Tasks : Do(r, [at |-> "put", msg |-> d.msg, read |-> t])
    <3>1. CASE OrderAll(r)
      <4>1. Do(r, [d EXCEPT !.at = "put"])
        BY <3>1 DEF OrderAll
      <4>2. [d EXCEPT !.at = "put"]
                = [at |-> "put", msg |-> d.msg, read |-> d.read]
        <5> HIDE DEF d
        <5> QED
          BY <1>1, MovedOn
      <4> QED
        BY <1>1, <4>1, <4>2
    <3>2. CASE CopyTask(r) /\ task # NoTask
      <4>1. Do(r, [d EXCEPT !.at = "put", !.read = task])
        BY <3>2 DEF CopyTask
      <4>2. [d EXCEPT !.at = "put", !.read = task]
                = [at |-> "put", msg |-> d.msg, read |-> task]
        <5> HIDE DEF d
        <5> QED
          BY <1>1, MovedOn
      <4> QED
        BY <1>1, <4>1, <4>2
    <3> QED
      BY <1>5, <3>1, <3>2
  <2>2. /\ UNCHANGED <<active, overlapped, shot, needs, task, unsent, signal>>
        /\ order' \in {order, "running", "paused"}
        /\ d.at \in {"order", "copy"}
    BY <1>5 DEF OrderAll, CopyTask, Unput, restVars
  <2>3. "put" \in AskerPlaces /\ d.msg \in Messages \cup Asks
        /\ "put" \notin Updating
    BY <1>1 DEF AskerPlaces, Updating
  <2> QED
    BY <1>1, <1>2, <1>3, <2>1, <2>2, <2>3, OneMovesOn
<1>6. CASE (CopyTask(r) /\ task = NoTask) \/ PutTask(r)
  <2>1. /\ Do(r, [at |-> "show", msg |-> d.msg, read |-> NoTask])
        /\ d.at \in {"copy", "put"}
        /\ UNCHANGED <<active, order, overlapped, shot, needs>>
    BY <1>6 DEF CopyTask, PutTask, Doing, restVars
  <2>2. task' \in Tasks /\ unsent' \in BOOLEAN /\ signal' \in BOOLEAN
    <3>1. CASE CopyTask(r)
      BY <1>1, <3>1 DEF CopyTask, Unput
    <3>2. CASE PutTask(r)
      <4>1. PICK t \in Tasks : Put(t, FALSE)
        BY <1>1, <3>2 DEF PutTask, Tasks, Messages, Resumed
      <4> QED
        BY <1>1, <4>1, PutKeepsTypes
    <3> QED
      BY <1>6, <3>1, <3>2
  <2>3. "show" \in AskerPlaces /\ d.msg \in Messages \cup Asks
        /\ "show" \notin Updating
    BY <1>1 DEF AskerPlaces, Updating
  <2> QED
    BY <1>1, <1>2, <1>3, <1>4, <2>1, <2>2, <2>3, OneMovesOn
<1>7. CASE RemoveTask(r)
  <2>1. PICK a \in {"clear", "show"} :
           Do(r, [at |-> a, msg |-> "delete", read |-> NoTask])
    BY <1>7 DEF RemoveTask, Doing
  <2>2. /\ Put(NoTask, FALSE) /\ active' = FALSE /\ d.at = "exit"
        /\ UNCHANGED <<order, overlapped, shot, needs>>
    BY <1>7 DEF RemoveTask, restVars
  <2>3. task' = NoTask /\ unsent' \in BOOLEAN /\ signal' \in BOOLEAN
    BY <1>1, <1>4, <2>2, PutKeepsTypes
  <2>4. a \in AskerPlaces /\ "delete" \in Asks /\ a \notin Updating
        /\ a \notin {"order", "copy", "put"}
    BY <2>1 DEF AskerPlaces, Asks, Updating
  <2> QED
    BY <1>1, <1>2, <1>4, <2>1, <2>2, <2>3, <2>4, OneMovesOn
<1>8. CASE ClearDebounce(r)
  <2>1. /\ Do(r, [at |-> "dead", msg |-> "watching", read |-> NoTask])
        /\ Put(task, TRUE) /\ d.at = "clear"
        /\ UNCHANGED <<active, order, overlapped, shot, needs>>
    BY <1>8 DEF ClearDebounce, Doing, Resting, restVars
  <2>2. UNCHANGED task /\ unsent' \in BOOLEAN /\ signal' \in BOOLEAN /\ signal'
    BY <1>1, <2>1, PutKeepsTypes
  <2>3. "dead" \in AskerPlaces /\ "watching" \in Messages
        /\ "dead" \notin Updating
    BY DEF AskerPlaces, Messages, Updating
  <2> QED
    BY <1>1, <1>2, <1>4, <2>1, <2>2, <2>3, OneMovesOn
<1> QED
  BY <1>5, <1>6, <1>7, <1>8

\* A new request keeps it: it counts as overlapping unless every other one has
\* ended and, when the streamer is deleted, it adds it anew.
LEMMA AskPreserves ==
    ASSUME StatusInvariant, NEW r \in Askers, NEW op \in Asks, AskFor(r, op)
    PROVE  StatusInvariant'
<1>1. /\ task \in Tasks /\ StatusState
      /\ order \in {"none", "running", "paused", "deleted"}
      /\ overlapped \in BOOLEAN /\ active \in BOOLEAN
  BY DEF StatusInvariant, StatusState
<1>2. r \notin Recorders /\ r \in Recorders \cup Askers
  BY StatusAssumption DEF StatusAssumption
<1>3. /\ doing[r].at = "dead" /\ UNCHANGED <<active, shot, needs>>
      /\ UNCHANGED <<task, unsent, signal>>
      /\ overlapped' = (overlapped \/ (order = "deleted" /\ op \in Copying)
                          \/ \E s \in Askers : doing[s].at # "dead")
  BY DEF AskFor, Asked, Unput
<1>4. overlapped' \in BOOLEAN
      /\ (~overlapped' =>
            /\ ~overlapped /\ \A s \in Askers : doing[s].at = "dead"
            /\ order = "deleted" => op \notin Copying)
  BY <1>1, <1>3
<1>5. PICK a \in {"copy", "exit", "load", "order"}, g \in Messages \cup Asks,
           t \in Tasks :
        /\ Do(r, [at |-> a, msg |-> g, read |-> t])
        /\ order' \in {"none", "running", "paused", "deleted"}
        /\ a = "load" => g \in {"watching", "stopped"}
        /\ order' = "deleted" /\ ~overlapped' =>
              \/ a = "exit"
              \/ order = "deleted" /\ a = "load" /\ g = "watching" /\ ~active
  <2>1. NoTask \in Tasks /\ op \in Messages \cup Asks
        /\ "watching" \in Messages \cup Asks /\ "stopped" \in Messages \cup Asks
    BY DEF Tasks, Messages
  <2>2. CASE op \in {"pause", "resume", "setFlags"}
    <3>1. /\ Do(r, [at |-> "copy", msg |-> op, read |-> NoTask])
          /\ order' \in {order, "running", "paused"}
          /\ order' = "deleted" => order = "deleted"
      BY <2>2 DEF AskFor, Doing
    <3>2. op \in Copying
      BY <2>2 DEF Copying, Asks
    <3> QED
      BY <1>1, <1>4, <2>1, <3>1, <3>2
  <2>3. CASE op \in {"delete", "botDelete"}
    <3>1. /\ Do(r, [at |-> "exit", msg |-> op, read |-> NoTask])
          /\ order' = "deleted"
      BY <2>3 DEF AskFor, Doing
    <3> QED
      BY <2>1, <3>1
  <2>4. CASE op = "addPaused"
    <3>1. /\ Do(r, [at |-> "load", msg |-> "stopped", read |-> NoTask])
          /\ order' = "paused"
      BY <2>4 DEF AskFor, Doing
    <3> QED
      BY <2>1, <3>1
  <2>5. CASE op = "add"
    <3>1. /\ Do(r, [at |-> "load", msg |-> "watching", read |-> NoTask])
          /\ order' = order /\ ~active
      BY <2>5 DEF AskFor, Doing
    <3> QED
      BY <1>1, <2>1, <3>1
  <2>6. CASE op \in {"pauseAll", "resumeAll", "botPause", "botResume"}
    <3>1. /\ Do(r, [at |-> "order", msg |-> op, read |-> task])
          /\ order' = order
      BY <2>6 DEF AskFor
    <3>2. op \in Copying
      BY <2>6 DEF Copying, Asks
    <3> QED
      BY <1>1, <1>4, <2>1, <3>1, <3>2
  <2> QED
    BY <2>2, <2>3, <2>4, <2>5, <2>6 DEF Asks
<1>6. a \in AskerPlaces
  BY DEF AskerPlaces
<1>7. doing'[r] = [at |-> a, msg |-> g, read |-> t]
  BY <1>1, <1>2, <1>5, <1>6, DoOne
<1>8. /\ doing' \in [Recorders \cup Askers ->
                       [at : RecorderPlaces \cup AskerPlaces,
                        msg : Messages \cup Asks, read : Tasks]]
      /\ \A v \in Recorders \cup Askers : v # r => doing'[v] = doing[v]
      /\ \A m \in Recorders : doing'[m].at \in RecorderPlaces
      /\ \A s \in Askers : doing'[s].at \in AskerPlaces
  BY <1>1, <1>2, <1>5, <1>6, DoOne
<1>9. doing'[r].at = a /\ doing'[r].msg = g
  BY <1>7
<1>10. StatusState'
  BY <1>1, <1>3, <1>4, <1>5, <1>8 DEF StatusState
<1>11. MessagesAreTold'
  <2>1. ASSUME NEW v \in Recorders \cup Askers, doing'[v].at \in Updating
        PROVE  doing'[v].msg \in Tellable(v)
    <3>1. CASE v = r
      BY <1>5, <1>9, <2>1, <3>1 DEF Tellable, Updating
    <3>2. CASE v # r
      BY <1>8, <2>1, <3>2 DEF StatusInvariant, MessagesAreTold
    <3> QED
      BY <3>1, <3>2
  <2> QED
    BY <2>1 DEF MessagesAreTold, Tellable
<1>12. ShotInSession'
  BY <1>2, <1>3, <1>8 DEF StatusInvariant, ShotInSession
<1>13. ChangesAreSent'
  BY <1>3, <1>8 DEF StatusInvariant, ChangesAreSent
<1>14. ASSUME ~overlapped' PROVE OneAsker'
  BY <1>4, <1>8, <1>14 DEF OneAsker
<1>15. ASSUME ~overlapped', order' = "deleted" PROVE DeletedIsHandled'
  <2>1. \A s \in Askers : s # r => doing'[s].at = "dead"
    BY <1>4, <1>8, <1>15
  <2>2. a = "exit" \/ (order = "deleted" /\ a = "load" /\ g = "watching" /\ ~active)
    BY <1>5, <1>15
  <2>3. \A s \in Askers :
          /\ doing'[s].at \notin {"order", "copy", "put"}
          /\ doing'[s].at \in Updating => doing'[s].msg = "watching" /\ ~active'
    BY <1>3, <1>9, <2>1, <2>2 DEF Updating
  <2>4. ASSUME task' # NoTask PROVE (MonitorWillTell \/ RequestWillTell)'
    <3>1. CASE a = "exit"
      BY <1>9, <3>1 DEF RequestWillTell
    <3>2. CASE a # "exit"
      <4>1. ~overlapped /\ order = "deleted" /\ task # NoTask
        BY <1>3, <1>4, <1>15, <2>2, <2>4, <3>2
      <4>2. MonitorWillTell
        BY <1>4, <1>15, <4>1 DEF StatusInvariant, DeletedIsHandled, RequestWillTell
      <4> QED
        BY <1>2, <1>8, <4>2 DEF MonitorWillTell
    <3> QED
      BY <3>1, <3>2
  <2> QED
    BY <2>3, <2>4 DEF DeletedIsHandled
<1> QED
  BY <1>10, <1>11, <1>12, <1>13, <1>14, <1>15 DEF StatusInvariant

\* The end of a request keeps it: a monitor it starts has something to tell.
LEMMA ShowPreserves ==
    ASSUME StatusInvariant, NEW r \in Askers, Show(r)
    PROVE  StatusInvariant'
<1>1. /\ task \in Tasks /\ signal \in BOOLEAN /\ unsent \in BOOLEAN
      /\ active \in BOOLEAN /\ StatusState
  BY DEF StatusInvariant, StatusState
<1>2. r \notin Recorders /\ r \in Recorders \cup Askers
  BY StatusAssumption DEF StatusAssumption
<1>3. CASE ~Starts(r)
  <2>1. /\ Do(r, [at |-> "dead", msg |-> "watching", read |-> NoTask])
        /\ Put(task, TRUE) /\ doing[r].at = "show" /\ active' = active
        /\ UNCHANGED <<order, overlapped, shot, needs>>
        /\ ~(doing[r].msg = "resume" /\ ~active)
    BY <1>1, <1>3 DEF Show, Resting, Doing, restVars, Starts, Resuming
  <2>2. UNCHANGED task /\ unsent' \in BOOLEAN /\ signal' \in BOOLEAN /\ signal'
    BY <1>1, <2>1, PutKeepsTypes
  <2>3. "dead" \in AskerPlaces /\ "watching" \in Messages
        /\ "dead" \notin Updating /\ NoTask \in Tasks
    BY DEF AskerPlaces, Messages, Updating, Tasks
  <2>4. StatusState'
    BY <1>1, <1>2, <2>1, <2>2, <2>3, DoOne DEF StatusState
  <2>5. \A v \in Recorders \cup Askers : v # r => doing'[v] = doing[v]
    BY <1>1, <1>2, <2>1, <2>3, DoOne
  <2>6. doing'[r].at = "dead"
    BY <1>1, <1>2, <2>1, <2>3, DoOne
  <2>7. MessagesAreTold' /\ ShotInSession' /\ ChangesAreSent'
    <3>1. ASSUME NEW v \in Recorders \cup Askers, doing'[v].at \in Updating
          PROVE  doing'[v].msg \in Tellable(v)
      BY <2>3, <2>5, <2>6, <3>1 DEF StatusInvariant, MessagesAreTold
    <3>2. MessagesAreTold'
      BY <3>1 DEF MessagesAreTold, Tellable
    <3>3. ShotInSession'
      BY <1>2, <2>1, <2>5 DEF StatusInvariant, ShotInSession
    <3>4. ChangesAreSent'
      BY <2>2 DEF ChangesAreSent
    <3> QED
      BY <3>2, <3>3, <3>4
  <2>8. ASSUME ~overlapped' PROVE OneAsker'
    BY <2>1, <2>5, <2>6, <2>8 DEF StatusInvariant, OneAsker
  <2>9. ASSUME ~overlapped', order' = "deleted" PROVE DeletedIsHandled'
    <3>1. DeletedIsHandled
      BY <2>1, <2>9 DEF StatusInvariant
    <3>2. \A s \in Askers :
            /\ doing'[s].at \notin {"order", "copy", "put"}
            /\ doing'[s].at \in Updating => doing'[s].msg = "watching" /\ ~active'
      BY <2>1, <2>3, <2>5, <2>6, <3>1 DEF DeletedIsHandled
    <3>3. MonitorWillTell => MonitorWillTell'
      BY <1>2, <2>5 DEF MonitorWillTell
    <3>4. RequestWillTell => RequestWillTell'
      BY <2>1, <2>5 DEF RequestWillTell
    <3> QED
      BY <2>2, <3>1, <3>2, <3>3, <3>4 DEF DeletedIsHandled
  <2> QED
    BY <2>4, <2>7, <2>8, <2>9 DEF StatusInvariant
<1>4. CASE Starts(r)
  <2>1. PICK m \in Recorders :
          /\ doing[m].at = "dead"
          /\ doing' = [doing EXCEPT
                         ![r] = [at |-> "dead", msg |-> "watching",
                                 read |-> NoTask],
                         ![m] = [at |-> "begin", msg |-> "watching",
                                 read |-> NoTask]]
    BY <1>4 DEF Show, Resting, Doing
  <2>2. /\ Put(task, TRUE) /\ active' \in BOOLEAN
        /\ UNCHANGED <<order, overlapped, shot, needs>>
    BY <1>4 DEF Show, restVars
  <2>3. UNCHANGED task /\ unsent' \in BOOLEAN /\ signal' \in BOOLEAN /\ signal'
    BY <1>1, <2>2, PutKeepsTypes
  <2>4. /\ "dead" \in AskerPlaces /\ "watching" \in Messages
        /\ "dead" \notin Updating /\ NoTask \in Tasks
        /\ "begin" \in RecorderPlaces /\ "begin" \notin Updating
    BY DEF AskerPlaces, RecorderPlaces, Messages, Updating, Tasks
  <2>5. /\ doing' \in [Recorders \cup Askers ->
                         [at : RecorderPlaces \cup AskerPlaces,
                          msg : Messages \cup Asks, read : Tasks]]
        /\ doing'[r].at = "dead" /\ doing'[m].at = "begin"
        /\ \A v \in Recorders \cup Askers : v # r /\ v # m => doing'[v] = doing[v]
    <3>1. /\ [at |-> "dead", msg |-> "watching", read |-> NoTask]
                \in [at : RecorderPlaces \cup AskerPlaces,
                     msg : Messages \cup Asks, read : Tasks]
          /\ [at |-> "begin", msg |-> "watching", read |-> NoTask]
                \in [at : RecorderPlaces \cup AskerPlaces,
                     msg : Messages \cup Asks, read : Tasks]
      BY <2>4
    <3>2. doing \in [Recorders \cup Askers ->
                       [at : RecorderPlaces \cup AskerPlaces,
                        msg : Messages \cup Asks, read : Tasks]]
      BY <1>1 DEF StatusState
    <3>3. m # r /\ m \in Recorders \cup Askers
      BY <1>2
    <3>4. doing' \in [Recorders \cup Askers ->
                         [at : RecorderPlaces \cup AskerPlaces,
                          msg : Messages \cup Asks, read : Tasks]]
      BY <1>2, <2>1, <3>1, <3>2, <3>3
    <3>5. doing'[r] = [at |-> "dead", msg |-> "watching", read |-> NoTask]
          /\ doing'[m] = [at |-> "begin", msg |-> "watching", read |-> NoTask]
      BY <1>2, <2>1, <3>2, <3>3
    <3>6. \A v \in Recorders \cup Askers : v # r /\ v # m => doing'[v] = doing[v]
      BY <2>1, <3>2
    <3> QED
      BY <3>4, <3>5, <3>6
  <2>6. StatusState'
    <3>1. \A n \in Recorders : doing'[n].at \in RecorderPlaces
      BY <1>1, <1>2, <2>4, <2>5 DEF StatusState
    <3>2. \A s \in Askers : doing'[s].at \in AskerPlaces
      BY <1>1, <2>1, <2>4, <2>5, StatusAssumption
         DEF StatusState, StatusAssumption
    <3> QED
      BY <1>1, <2>2, <2>3, <2>5, <3>1, <3>2 DEF StatusState
  <2>7. m \notin Askers
    BY StatusAssumption DEF StatusAssumption
  <2>8. MessagesAreTold' /\ ShotInSession' /\ ChangesAreSent'
    <3>1. ASSUME NEW v \in Recorders \cup Askers, doing'[v].at \in Updating
          PROVE  doing'[v].msg \in Tellable(v)
      BY <2>4, <2>5, <3>1 DEF StatusInvariant, MessagesAreTold
    <3>2. MessagesAreTold'
      BY <3>1 DEF MessagesAreTold, Tellable
    <3>3. ShotInSession'
      BY <1>2, <2>1, <2>2, <2>5 DEF StatusInvariant, ShotInSession
    <3>4. ChangesAreSent'
      BY <2>3 DEF ChangesAreSent
    <3> QED
      BY <3>2, <3>3, <3>4
  <2>9. ASSUME ~overlapped' PROVE OneAsker'
    BY <2>2, <2>5, <2>7, <2>9 DEF StatusInvariant, OneAsker
  <2>10. ASSUME ~overlapped', order' = "deleted" PROVE DeletedIsHandled'
    <3>1. DeletedIsHandled /\ OneAsker /\ doing[r].at = "show"
      BY <2>2, <2>10 DEF StatusInvariant, Show
    <3>2. \A s \in Askers : doing'[s].at = "dead"
      BY <2>5, <2>7, <3>1 DEF OneAsker
    <3>3. MonitorWillTell'
      BY <2>1, <2>5 DEF MonitorWillTell
    <3> QED
      BY <2>4, <3>2, <3>3 DEF DeletedIsHandled
  <2> QED
    BY <2>6, <2>8, <2>9, <2>10 DEF StatusInvariant
<1> QED
  BY <1>3, <1>4

\* Every step keeps it.
LEMMA StatusPreserves ==
    StatusInvariant /\ [StatusNext]_statusVars => StatusInvariant'
<1> SUFFICES ASSUME StatusInvariant, [StatusNext]_statusVars
             PROVE  StatusInvariant'
  OBVIOUS
<1>1. /\ task \in Tasks /\ signal \in BOOLEAN /\ unsent \in BOOLEAN
      /\ needs \in BOOLEAN /\ shot \in [Recorders -> Tasks] /\ StatusState
      /\ NoTask \in Tasks
  BY DEF StatusInvariant, StatusState, Tasks
<1> USE DEF MonitorWillTell, RequestWillTell, DeletedIsHandled, OneAsker,
            MessagesAreTold, Tellable, ChangesAreSent
\* What is neither a goroutine's step nor a change of the entry.
<1>2. ASSUME UNCHANGED <<task, order, active, overlapped, doing>>,
             signal' \in BOOLEAN, unsent' \in BOOLEAN, needs' \in BOOLEAN,
             shot' \in [Recorders -> Tasks], ShotInSession', ChangesAreSent'
      PROVE  StatusInvariant'
  <2>1. StatusState'
    BY <1>1, <1>2 DEF StatusState
  <2>2. /\ MessagesAreTold' <=> MessagesAreTold
        /\ OneAsker' <=> OneAsker
        /\ DeletedIsHandled' <=> DeletedIsHandled
    BY <1>2
  <2> QED
    BY <1>2, <2>1, <2>2 DEF StatusInvariant
<1>3. ASSUME NEW m \in Recorders, RecorderNext(m) \/ ShotCopy(m)
      PROVE  StatusInvariant'
  <2>1. CASE ShotPut(m)
    <3>1. /\ UNCHANGED <<order, active, overlapped, doing, needs>>
          /\ Put(shot[m], TRUE) /\ shot[m] \in Tasks /\ shot[m] # NoTask
          /\ shot' = [shot EXCEPT ![m] = NoTask]
      BY <1>1, <2>1 DEF ShotPut
    <3>2. task' \in Tasks /\ unsent' \in BOOLEAN /\ signal' \in BOOLEAN /\ signal'
      BY <1>1, <3>1, PutKeepsTypes
    <3>3. shot' \in [Recorders -> Tasks] /\ ShotInSession'
      BY <1>1, <3>1 DEF StatusInvariant, ShotInSession
    <3>4. ChangesAreSent'
      BY <3>2
    <3>5. StatusState'
      BY <1>1, <3>1, <3>2, <3>3 DEF StatusState
    <3>6. /\ MessagesAreTold' <=> MessagesAreTold
          /\ OneAsker' <=> OneAsker
      BY <3>1
    <3>7. DeletedIsHandled => DeletedIsHandled'
      <4>1. doing[m].at = "session"
        BY <3>1 DEF StatusInvariant, ShotInSession
      <4> QED
        BY <3>1, <4>1
    <3> QED
      BY <3>1, <3>3, <3>4, <3>5, <3>6, <3>7 DEF StatusInvariant
  <2>2. CASE ShotCopy(m)
    <3>1. /\ UNCHANGED <<task, order, active, overlapped, doing, needs>>
          /\ UNCHANGED <<signal, unsent>> /\ doing[m].at = "session"
          /\ shot' = [shot EXCEPT ![m] = task]
      BY <2>2 DEF ShotCopy, Unput
    <3>2. shot' \in [Recorders -> Tasks] /\ ShotInSession'
      BY <1>1, <3>1 DEF StatusInvariant, ShotInSession
    <3>3. ChangesAreSent'
      BY <3>1 DEF StatusInvariant
    <3> QED
      BY <1>1, <1>2, <3>1, <3>2, <3>3
  <2>3. CASE \/ BeginRecorder(m) \/ WatchRound(m) \/ SessionEnds(m)
             \/ RemoveEntry(m) \/ ClearDebounce(m)
    BY <2>3, MonitorPreserves
  <2>4. CASE LoadTask(m) \/ JudgeChange(m) \/ StoreTask(m)
    BY <2>4, UpdatesPreserve
  <2> QED
    BY <1>3, <2>1, <2>2, <2>3, <2>4 DEF RecorderNext
<1>4. ASSUME NEW r \in Askers, AskerNext(r) PROVE StatusInvariant'
  BY <1>4, AskPreserves, ShowPreserves, RequestPreserves, UpdatesPreserve
     DEF AskerNext
<1>5. CASE TakeSignal \/ SendTasks \/ ThreeMinutesPass
  <2>1. /\ UNCHANGED <<task, order, active, overlapped, doing, shot>>
        /\ signal' \in BOOLEAN /\ unsent' \in BOOLEAN /\ needs' \in BOOLEAN
    BY <1>1, <1>5 DEF TakeSignal, SendTasks, ThreeMinutesPass, restVars, Unput
  <2>2. ShotInSession'
    BY <2>1 DEF StatusInvariant, ShotInSession
  <2>3. ChangesAreSent'
    <3>1. CASE TakeSignal
      BY <3>1 DEF TakeSignal
    <3>2. CASE SendTasks
      BY <3>2 DEF SendTasks
    <3>3. CASE ThreeMinutesPass
      BY <3>3 DEF ThreeMinutesPass, restVars, Unput, StatusInvariant
    <3> QED
      BY <1>5, <3>1, <3>2, <3>3
  <2> QED
    BY <1>1, <1>2, <2>1, <2>2, <2>3
<1>6. CASE UNCHANGED statusVars
  <2>1. /\ UNCHANGED <<task, order, active, overlapped, doing, shot>>
        /\ UNCHANGED <<signal, unsent, needs>>
    BY <1>6 DEF statusVars, restVars
  <2>2. ShotInSession' /\ ChangesAreSent'
    BY <2>1 DEF StatusInvariant, ShotInSession
  <2> QED
    BY <1>1, <1>2, <2>1, <2>2
<1> QED
  BY <1>3, <1>4, <1>5, <1>6 DEF StatusNext

\* No change of an entry is lost between those that store and the goroutine
\* that sends, for any number of monitors and requests and every interleaving
\* of their copies and stores (triggerBuiltinBroadcast and its callers).
THEOREM ChangesAreSentAlways == StatusSpec => []ChangesAreSent
<1>1. StatusInvariant => ChangesAreSent
  BY DEF StatusInvariant
<1> QED
  BY <1>1, StatusInitially, StatusPreserves, PTL DEF StatusSpec

\* A deleted streamer leaves no entry behind, whatever its monitors still
\* store, unless requests overlap (builtin_monitor.go:33-39,
\* builtin_api.go:431-439).
THEOREM DeletedIsGoneAlways == StatusSpec => []DeletedIsGone
<1>1. StatusInvariant => DeletedIsGone
  BY DEF StatusInvariant, DeletedIsGone, DeletedIsHandled, MonitorWillTell,
     RequestWillTell
<1> QED
  BY <1>1, StatusInitially, StatusPreserves, PTL DEF StatusSpec

\* The rest of the types of the status: the marks of the notices, and the
\* counters of the bounds.
StatusRest ==
    /\ debounce \in [live : Marks, offline : Marks]
    /\ asks \in 0..MaxAsks /\ writes \in 0..MaxWrites

\* A start of the program satisfies it.
LEMMA StatusRestInitially == StatusInit => StatusRest
BY StatusAssumption DEF StatusInit, StatusRest, StatusAssumption, Marks

\* A mark that is set or grows old stays one.
LEMMA MarksStay ==
    ASSUME NEW d \in [live : Marks, offline : Marks], NEW m \in Marks
    PROVE  /\ [d EXCEPT !.live = m] \in [live : Marks, offline : Marks]
           /\ [d EXCEPT !.offline = m] \in [live : Marks, offline : Marks]
OBVIOUS

\* Every step keeps it.
LEMMA StatusRestPreserves ==
    StatusRest /\ [StatusNext]_statusVars => StatusRest'
<1> SUFFICES ASSUME StatusRest, [StatusNext]_statusVars PROVE StatusRest'
  OBVIOUS
<1> DEFINE Kinds == [live : Marks, offline : Marks]
<1>1. debounce \in Kinds /\ "recent" \in Marks /\ "old" \in Marks
  BY DEF StatusRest, Marks
<1>2. /\ asks \in 0..MaxAsks /\ writes \in 0..MaxWrites
      /\ MaxAsks \in Nat /\ MaxWrites \in Nat
  BY StatusAssumption DEF StatusRest, StatusAssumption
<1>3. CASE UNCHANGED <<debounce, asks, writes>>
  BY <1>3 DEF StatusRest
<1>4. ASSUME NEW u \in Recorders \cup Askers, JudgeChange(u) PROVE StatusRest'
  <2>1. UNCHANGED <<asks, writes>>
    BY <1>4 DEF JudgeChange, restVars
  <2>2. \/ debounce' = debounce
        \/ debounce' = [debounce EXCEPT !.live = "recent"]
        \/ debounce' = [debounce EXCEPT !.offline = "recent"]
    BY <1>4 DEF JudgeChange
  <2>3. debounce' \in Kinds
    BY <1>1, <2>2, MarksStay
  <2> QED
    BY <1>2, <2>1, <2>3 DEF StatusRest
<1>5. ASSUME NEW u \in Recorders \cup Askers, ClearDebounce(u) PROVE StatusRest'
  BY <1>2, <1>5 DEF ClearDebounce, Forgotten, restVars, StatusRest, Marks
<1>6. ASSUME NEW m \in Recorders, WatchRound(m) \/ ShotCopy(m) PROVE StatusRest'
  <2>1. UNCHANGED <<debounce, asks>>
        /\ (writes' = writes \/ (writes < MaxWrites /\ writes' = writes + 1))
    BY <1>6 DEF WatchRound, ShotCopy
  <2> QED
    BY <1>1, <1>2, <2>1 DEF StatusRest
<1>7. ASSUME NEW m \in Recorders,
             BeginRecorder(m) \/ SessionEnds(m) \/ ShotPut(m) \/ RemoveEntry(m)
      PROVE  StatusRest'
  BY <1>3, <1>7 DEF BeginRecorder, SessionEnds, ShotPut, RemoveEntry, restVars
<1>8. ASSUME NEW u \in Recorders \cup Askers, LoadTask(u) \/ StoreTask(u)
      PROVE  StatusRest'
  BY <1>3, <1>8 DEF LoadTask, StoreTask, restVars
<1>9. ASSUME NEW r \in Askers, NEW op \in Asks, AskFor(r, op) PROVE StatusRest'
  <2>1. UNCHANGED <<debounce, writes>> /\ asks < MaxAsks /\ asks' = asks + 1
    BY <1>9 DEF AskFor, Asked
  <2> QED
    BY <1>1, <1>2, <2>1 DEF StatusRest
<1>10. ASSUME NEW r \in Askers,
              OrderAll(r) \/ CopyTask(r) \/ PutTask(r) \/ RemoveTask(r) \/ Show(r)
       PROVE  StatusRest'
  BY <1>3, <1>10 DEF OrderAll, CopyTask, PutTask, RemoveTask, Show, restVars
<1>11. CASE TakeSignal \/ SendTasks \/ UNCHANGED statusVars
  BY <1>3, <1>11 DEF TakeSignal, SendTasks, statusVars, restVars
<1>12. CASE ThreeMinutesPass
  <2>1. UNCHANGED <<asks, writes>>
    BY <1>12 DEF ThreeMinutesPass, restVars
  <2>2. \/ debounce' = [debounce EXCEPT !.live = "old"]
        \/ debounce' = [debounce EXCEPT !.offline = "old"]
    BY <1>12 DEF ThreeMinutesPass
  <2>3. debounce' \in Kinds
    BY <1>1, <2>2, MarksStay
  <2> QED
    BY <1>2, <2>1, <2>3 DEF StatusRest
<1> QED
  BY <1>4, <1>5, <1>6, <1>7, <1>8, <1>9, <1>10, <1>11, <1>12
  DEF StatusNext, RecorderNext, AskerNext

\* Together they are the types.
LEMMA StatusIsTyped == StatusInvariant /\ StatusRest => StatusTypeOK
<1> SUFFICES ASSUME StatusInvariant, StatusRest PROVE StatusTypeOK
  OBVIOUS
<1>1. [at : RecorderPlaces \cup AskerPlaces, msg : Messages \cup Asks, read : Tasks]
      = [at : {"dead", "begin", "top", "load", "judge", "store", "session",
               "exit", "clear", "copy", "put", "show", "order"},
         msg : Messages \cup Asks, read : Tasks]
  <2>1. RecorderPlaces \cup AskerPlaces
        = {"dead", "begin", "top", "load", "judge", "store", "session", "exit",
           "clear", "copy", "put", "show", "order"}
    BY DEF RecorderPlaces, AskerPlaces
  <2> QED
    BY <2>1
<1> QED
  BY <1>1 DEF StatusInvariant, StatusState, StatusRest, StatusTypeOK

\* The type invariant of the status.
THEOREM StatusTypeCorrect == StatusSpec => []StatusTypeOK
BY StatusInitially, StatusPreserves, StatusRestInitially, StatusRestPreserves,
   StatusIsTyped, PTL DEF StatusSpec

-----------------------------------------------------------------------------
(* Recording.                                                              *)

RecordingSpec == RecordingInit /\ [][RecordingNext]_recordingVars

\* Outside of a session, and when it is being put away, no process writes
\* segments; outside of it, no goroutine takes pictures from them either.
SessionIsAlone ==
    /\ main \in {"idle", "off", "start"} => ffmpeg \in {"none", "ended"}
    /\ main \in {"joining", "cleaning"} => ffmpeg = "ended"
    /\ main \in {"idle", "off", "start", "cleaning"} => shots = "none"
    /\ main \in {"off", "start"} => segments = {}

RecordingInvariant == RecordingTypeOK /\ SessionIsAlone /\ NoTempLeft

\* The numbers of a session.
LEMMA RecordingNumbers ==
    /\ Grace \in Nat \ {0} /\ FirstShots \in Nat /\ MaxElapsed \in Nat
    /\ MaxSessions \in Nat /\ 0 \in Limits
    /\ Grace \in 0..Grace /\ Grace \in -1..Grace /\ 0 \in 0..Grace /\ -1 \in -1..Grace
    /\ 0 \in 0..MaxElapsed /\ 0 \in 0..FirstShots /\ 0 \in 0..MaxSessions
BY RecordingAssumption DEF RecordingAssumption

\* The start has no session.
LEMMA RecordingInitially == RecordingInit => RecordingInvariant
<1> SUFFICES ASSUME RecordingInit PROVE RecordingInvariant
  OBVIOUS
<1>1. mode \in Modes /\ limit \in [max : Limits, inWindow : BOOLEAN]
  BY RecordingNumbers DEF RecordingInit, Modes
<1>2. stopped \in [max : BOOLEAN, window : BOOLEAN, hit : BOOLEAN]
  BY DEF RecordingInit, NotStopped
<1>3. RecordingTypeOK
  BY <1>1, <1>2, RecordingNumbers DEF RecordingInit, RecordingTypeOK
<1>4. SessionIsAlone /\ NoTempLeft
  BY DEF RecordingInit, SessionIsAlone, NoTempLeft
<1> QED
  BY <1>3, <1>4 DEF RecordingInvariant

\* The steps of RecordStream keep it.
LEMMA RecordStreamPreserves ==
    ASSUME RecordingInvariant, RecordStreamNext
    PROVE  RecordingInvariant'
<1> USE RecordingNumbers
    DEF RecordingInvariant, RecordingTypeOK, SessionIsAlone, NoTempLeft, Modes,
        NotStopped, MainFromTo, callVars, clockVars, shotVars, ScreenshotsOnly
<1>1. CASE WaitOff
  BY <1>1 DEF WaitOff
<1>2. CASE StartFails
  BY <1>2 DEF StartFails
<1>3. CASE StartFfmpeg
  BY <1>3 DEF StartFfmpeg
<1>4. CASE SeeCancelled
  BY <1>4 DEF SeeCancelled, Ask
<1>5. CASE QuitOrKill
  BY <1>5 DEF QuitOrKill
<1>6. CASE SeeEnd
  BY <1>6 DEF SeeEnd
<1>7. CASE Look
  <2>1. /\ main = "select" /\ tickDue' = FALSE /\ killer' \in -1..Grace
        /\ ffmpeg' \in {"none", "runs", "asked", "ended"}
    BY <1>7 DEF Look, LooksAtLimits, Ask
  <2>2. stopped' \in [max : BOOLEAN, window : BOOLEAN, hit : BOOLEAN]
    <3>1. limit \in [max : Limits, inWindow : BOOLEAN] => limit.inWindow \in BOOLEAN
      OBVIOUS
    <3> HIDE DEF RecordingInvariant, SessionIsAlone, NoTempLeft
    <3>2. limit.inWindow \in BOOLEAN
      BY <3>1 DEF RecordingInvariant
    <3>3. CASE stopped' = stopped
      BY <3>3 DEF RecordingInvariant
    <3>4. CASE stopped' # stopped
      <4>1. stopped' = [max |-> limit.inWindow, window |-> ~limit.inWindow,
                        hit |-> limit.inWindow]
        <5> HIDE DEF RecordingTypeOK, RecordingInvariant
        <5> QED
          BY <1>7, <3>4, Zenon DEF Look
      <4>2. CASE limit.inWindow = TRUE
        BY <4>1, <4>2
      <4>3. CASE limit.inWindow = FALSE
        BY <4>1, <4>3
      <4> QED
        BY <3>2, <4>2, <4>3
    <3> QED
      BY <3>3, <3>4
  <2> QED
    BY <1>7, <2>1, <2>2 DEF Look
<1>8. CASE Join
  BY <1>8 DEF Join
<1>9. CASE CleanUp
  BY <1>9 DEF CleanUp, Cleaned
<1> QED
  BY <1>1, <1>2, <1>3, <1>4, <1>5, <1>6, <1>7, <1>8, <1>9 DEF RecordStreamNext

\* So do calls, pictures, the process, the user and the clock.
LEMMA RecordingPreserves ==
    RecordingInvariant /\ [RecordingNext]_recordingVars => RecordingInvariant'
<1> SUFFICES ASSUME RecordingInvariant, [RecordingNext]_recordingVars
             PROVE  RecordingInvariant'
  OBVIOUS
<1>1. CASE RecordStreamNext
  BY <1>1, RecordStreamPreserves
<1> USE RecordingNumbers
    DEF RecordingInvariant, RecordingTypeOK, SessionIsAlone, NoTempLeft, Modes,
        NotStopped, MainFromTo, callVars, clockVars, shotVars, ScreenshotsOnly
<1>2. ASSUME NEW f \in Modes, CallRecordStream(f)
      PROVE  RecordingInvariant'
  <2>1. /\ main = "idle" /\ main' \in {"off", "start"} /\ shots' = "none"
        /\ ffmpeg' = "none" /\ segments' = {} /\ mode' = f
    BY <1>2 DEF CallRecordStream
  <2>2. /\ sessions' \in 0..MaxSessions
        /\ stopped' \in [max : BOOLEAN, window : BOOLEAN, hit : BOOLEAN]
    BY <1>2 DEF CallRecordStream
  <2>3. RecordingTypeOK'
    BY <1>2, <2>1, <2>2 DEF CallRecordStream
  <2> QED
    BY <2>1, <2>3
<1>3. CASE FirstShot
  BY <1>3 DEF FirstShot, TakeCover
<1>4. CASE Shoot
  BY <1>4 DEF Shoot, TakeCover, Cleaned
<1>5. CASE EndShots
  BY <1>5 DEF EndShots
<1>6. CASE FfmpegEnds
  BY <1>6 DEF FfmpegEnds
<1>7. CASE SegmentFills
  BY <1>7 DEF SegmentFills
<1>8. CASE SegmentsCool
  BY <1>8 DEF SegmentsCool
<1>9. CASE CancelSession
  BY <1>9 DEF CancelSession
<1>10. CASE ChangeLimit
  BY <1>10 DEF ChangeLimit
<1>11. CASE TimePasses
  BY <1>11 DEF TimePasses
<1>12. CASE KillByTimer
  BY <1>12 DEF KillByTimer
<1>13. CASE UNCHANGED recordingVars
  BY <1>13 DEF recordingVars
<1> QED
  BY <1>1, <1>2, <1>3, <1>4, <1>5, <1>6, <1>7, <1>8, <1>9, <1>10, <1>11, <1>12,
     <1>13
  DEF RecordingNext

\* Wherever a session is cancelled, fails or is stopped, it is over only when
\* its process and its goroutine are, and one for screenshots alone has then
\* left no segment behind (RecordStream, cleanupScreenshotTempSegments).
THEOREM NoTempLeftAlways == RecordingSpec => []NoTempLeft
<1>1. RecordingInvariant => NoTempLeft
  BY DEF RecordingInvariant
<1> QED
  BY <1>1, RecordingInitially, RecordingPreserves, PTL DEF RecordingSpec

\* The type invariant of a recording session.
THEOREM RecordingTypeCorrect == RecordingSpec => []RecordingTypeOK
<1>1. RecordingInvariant => RecordingTypeOK
  BY DEF RecordingInvariant
<1> QED
  BY <1>1, RecordingInitially, RecordingPreserves, PTL DEF RecordingSpec
=============================================================================
