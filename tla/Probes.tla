------------------------------- MODULE Probes -------------------------------
(***************************************************************************)
(* What a probe makes of a platform's answers: GetStreamURL of the five    *)
(* platforms (internal/recorder/builtin_kuaishou.go, _bilibili.go,         *)
(* _twitch.go, _soop.go, _douyin.go) - a stream to record, "offline" (an   *)
(* empty address and no error) or an error - and which of the offered      *)
(* qualities it takes.  The platforms are external: an answer is a tuple   *)
(* of what the code looks at, honest about the room or disturbed by a      *)
(* captcha, throttling, an expired cookie or the network.                  *)
(***************************************************************************)
EXTENDS Integers, Sequences, FiniteSets, SequencesExt

CONSTANTS Ranks,    \* clarity ranks a platform offers (bit rates, qn)
          MaxOffer  \* bound: qualities offered at once

ASSUME ProbesAssumption == Ranks \subseteq Nat \ {0} /\ MaxOffer \in Nat \ {0}

Offers == SeqOf(Ranks, MaxOffer)

VARIABLES
  live,     \* is the room live?
  probed,   \* the last probe: [by, was: the room's state, outcome]
  offer,    \* the ranks offered with the stream
  picked     \* per quality setting: the rank of the stream taken

probeVars == <<live, probed, offer, picked>>

Settings == {"sd", "hd", "uhd"}
NothingTaken == [q \in Settings |-> 0]

Sources == {"none", "KuaishouPage", "KuaishouShare", "Bilibili", "Twitch",
            "Soop", "Douyin"}

ProbesTypeOK ==
    /\ live \in BOOLEAN
    /\ probed \in [by : Sources, was : BOOLEAN,
                   outcome : {"none", "stream", "offline", "error"}]
    /\ offer \in Offers /\ picked \in [Settings -> Ranks \cup {0}]

ProbesInit ==
    /\ live \in BOOLEAN
    /\ probed = [by |-> "none", was |-> FALSE, outcome |-> "none"]
    /\ offer = <<>> /\ picked = NothingTaken

-----------------------------------------------------------------------------
(* The choice of a quality.                                                *)

\* The rank at place k when those at the indices I are sorted, best first.
RankAt(s, I, k) ==
    CHOOSE r \in {s[i] : i \in I} :
        /\ Cardinality({i \in I : s[i] > r}) < k
        /\ k <= Cardinality({i \in I : s[i] >= r})

\* Best, middle and last of a list, counted from 1.
Place(n, quality) == CASE quality = "sd" -> n
                       [] quality = "hd" -> (n \div 2) + 1
                       [] OTHER -> 1

\* kuaishouPickResolutionGroup: the order is the platform's.
PickUnsorted(s, quality) == IF s = <<>> THEN 0 ELSE s[Place(Len(s), quality)]

\* kuaishouPickRepresentation: those with an address, sorted by bit rate (or
\* the level where there is none), then by place.
PickOf(s, I, quality) ==
    IF I = {} THEN 0 ELSE RankAt(s, I, Place(Cardinality(I), quality))

PickByRate(s, quality) == PickOf(s, DOMAIN s, quality)

\* pickTwitchVariant: those in h264, where there are any.
PickVariant(h264, s, quality) ==
    LET usable == {i \in DOMAIN s : s[i] \in h264}
    IN  PickOf(s, IF usable = {} THEN DOMAIN s ELSE usable, quality)

\* pickBilibiliQN: the qn the setting stands for, if the room offers it, and
\* otherwise the place in the list.  Qn: 10000, 250 and 150 by rank.
Qn == [uhd |-> 4, hd |-> 3, sd |-> 2]

PickQN(s, quality) ==
    IF Qn[quality] \in ToSet(s) THEN Qn[quality] ELSE PickByRate(s, quality)

\* Soop: the first preset whose name contains the setting, else the best; the
\* names of the presets by rank ("uhd" is in none of them).
Named(rank) == CASE rank = 3 -> "hd" [] rank = 2 -> "sd" [] OTHER -> "original"

PickPreset(s, quality) ==
    LET named == {i \in DOMAIN s : Named(s[i]) = quality}
    IN  IF s = <<>> THEN 0
        ELSE RankAt(s, IF named = {} THEN DOMAIN s ELSE named, 1)

\* Douyin: fixed keys per setting, and any FLV address when they are missing;
\* the ranks stand for SD1, HD1, FULL_HD1 and ORIGIN.
DouyinKeys == [uhd |-> <<4, 3>>, hd |-> <<2>>, sd |-> <<1>>]

PickKey(s, quality) ==
    LET keys == DouyinKeys[quality]
        first == SelectInSeq(keys, LAMBDA k : k \in ToSet(s))
    IN  IF first > 0 THEN keys[first] ELSE IF s = <<>> THEN 0 ELSE s[1]

\* A stream for every setting; a room that offers no address gives the
\* outcome the code has for that.
Streams(by, s, Pick(_, _), otherwise) ==
    /\ probed' = [by |-> by, was |-> live,
                  outcome |-> IF s = <<>> THEN otherwise ELSE "stream"]
    /\ offer' = s /\ picked' = [q \in Settings |-> Pick(s, q)]
    /\ UNCHANGED live

ProbeEnds(by, how) ==
    /\ probed' = [by |-> by, was |-> live, outcome |-> how]
    /\ offer' = <<>> /\ picked' = NothingTaken
    /\ UNCHANGED live

-----------------------------------------------------------------------------
(* The platforms' answers.                                                 *)

\* Kuaishou's page: a list of items; an item says that access is throttled
\* (errorType), or whether the room is live and at which addresses.
Items == [refused : BOOLEAN, living : BOOLEAN]
RoomPages == SeqOf(Items, 2)
HonestPage(p) == /\ \A i \in DOMAIN p : p[i].living => live
                 /\ live => \E i \in DOMAIN p : p[i].refused \/ p[i].living

\* Mutant: an empty play list is read as a room that is not live.
ReadPageTrusting(p) ==
    LET deciding == SelectInSeq(p, LAMBDA i : i.refused \/ i.living)
    IN  IF deciding = 0 THEN "offline"
        ELSE IF p[deciding].refused THEN "error" ELSE "stream"

\* fetchViaWebPage: an empty list is throttling or an unknown room, never
\* offline; otherwise the first item that is refused or living decides.
ReadPage(p) ==
    LET deciding == SelectInSeq(p, LAMBDA i : i.refused \/ i.living)
    IN  IF p = <<>> THEN "error"
        ELSE IF deciding = 0 THEN "offline"
        ELSE IF p[deciding].refused THEN "error" ELSE "stream"

\* fetchViaByUserAPI: result 1 and not living is offline; any other result,
\* an empty body or no JSON is an error.
ReadShare(result, living) == CASE living -> "stream"
                               [] result # 1 -> "error"
                               [] OTHER -> "offline"

\* The page first, and the share API when the page gave an error, which a live
\* room without an address is too.
Kuaishou ==
    \E p \in RoomPages :
       /\ p = <<>> \/ HonestPage(p)
       /\ \/ ReadPage(p) = "offline" /\ ProbeEnds("KuaishouPage", "offline")
          \/ /\ ReadPage(p) = "stream"
             /\ \E s \in Offers \ {<<>>} :
                   Streams("KuaishouPage", s, PickByRate, "error")
          \/ /\ ReadPage(p) \in {"error", "stream"}
             /\ \E result \in {0, 1}, living \in {FALSE, live} :
                   /\ result = 1 => living = live
                   /\ IF ReadShare(result, living) = "stream"
                      THEN \E s \in Offers :
                              Streams("KuaishouShare", s, PickUnsorted, "error")
                      ELSE ProbeEnds("KuaishouShare", ReadShare(result, living))

\* Bilibili: a code other than 0 or no room number is an error, a status
\* other than 1 offline (2: a rerun); a live room without a codec is an error.
\* The wanted qn takes a second request, whose failure keeps the first
\* answer's stream: the qn the service grants on its own, here its lowest.
Bilibili ==
    \/ ProbeEnds("Bilibili", "error")
    \/ ~live /\ ProbeEnds("Bilibili", "offline")
    \/ /\ live
       /\ \E s \in Offers, granted \in BOOLEAN :
             Streams("Bilibili", s,
                     LAMBDA list, q : IF granted THEN PickQN(list, q)
                                      ELSE PickByRate(list, "sd"), "error")

\* twitchGQLPost: an expired login (401) is tried again without it, which
\* does for a public channel.
Granted(login, public) == login = "good" \/ public

\* fetchMasterPlaylist: 404 is read as the end of the stream, and so is a body
\* that breaks off before its first byte, whose error is not looked at.
Usher ==
    \/ ProbeEnds("Twitch", "offline")
    \/ ProbeEnds("Twitch", "error")
    \/ \E s \in Offers, h264 \in SUBSET Ranks :
          Streams("Twitch", s, LAMBDA list, q : PickVariant(h264, list, q),
                  "error")

\* fetchPlaybackToken: none for a channel that asks for a login.
PlaybackToken ==
    \E login \in {"none", "good", "expired"}, public \in BOOLEAN :
       IF Granted(login, public) THEN Usher ELSE ProbeEnds("Twitch", "error")

\* Twitch: the channel's state, the playback token, the usher's list.
Twitch ==
    \/ ProbeEnds("Twitch", "error")
    \/ ~live /\ ProbeEnds("Twitch", "offline")
    \/ live /\ PlaybackToken

\* Soop's aid and the assigned node, whose request is tried three times.
SoopNode(s) ==
    Streams("Soop", s, PickPreset, "error") \/ ProbeEnds("Soop", "error")

\* Soop: a page without a broadcast number is offline - the number "null" of a
\* room that is not live, and any page that does not show one; so is any
\* result of the live API but 1 and -6 (log in again).
Soop ==
    \/ ProbeEnds("Soop", "error")
    \/ \E page \in {"number", "null", "other"} :
          /\ page = "number" => live
          /\ page = "null" => ~live
          /\ page # "number" /\ ProbeEnds("Soop", "offline")
    \/ live /\ ProbeEnds("Soop", "offline")
    \/ live /\ \E s \in Offers : SoopNode(s)

\* Douyin: a body that is not the JSON expected, like a room that is not
\* found, has an empty list of rooms, and that is offline; so is a live room
\* without any address.
Douyin ==
    \/ ProbeEnds("Douyin", "error")
    \/ ProbeEnds("Douyin", "offline")
    \/ live /\ \E s \in Offers : Streams("Douyin", s, PickKey, "offline")

Turn == live' = ~live /\ UNCHANGED <<probed, offer, picked>>

ProbesNext == Kuaishou \/ Bilibili \/ Twitch \/ Soop \/ Douyin \/ Turn

-----------------------------------------------------------------------------
(* Properties.                                                             *)

Offline(by) == probed.by \in by /\ probed.outcome = "offline"

\* A throttled, refused or empty answer of Kuaishou or Bilibili is never read
\* as a room that is not live (builtin_kuaishou.go: it has to be treated as a
\* passing error, or a live room is silently skipped).
OfflineIsTrue ==
    Offline({"KuaishouPage", "KuaishouShare", "Bilibili"}) => ~probed.was
=============================================================================
