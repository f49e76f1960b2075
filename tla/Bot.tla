-------------------------------- MODULE Bot ---------------------------------
(***************************************************************************)
(* The Telegram bot (internal/bots/telegram.go): the link to the service,  *)
(* updates handled each in a goroutine of its own, panels whose buttons    *)
(* name streamers by fingerprint and a page, and the search.  Panels are   *)
(* drawn from what builtinStatusMap holds when the handler gets there,     *)
(* while other handlers, the console and the monitors change it.  What a   *)
(* control does beside the entry is the subject of Status (botPause,       *)
(* botResume, botDelete), settings that of ConfigStore, "/update" that of  *)
(* SelfUpdate.  Fingerprints are taken to be distinct; one panel message   *)
(* is followed.                                                            *)
(***************************************************************************)
EXTENDS Integers, FiniteSets

CONSTANTS Streamers,   \* keys, as their places in the alphabet
          BotHandlers, \* updates handled at once
          PageSize,    \* 12
          SearchCap,   \* 20
          MaxBackoff,  \* 60 seconds
          MaxTaken     \* bound: updates

ASSUME BotAssumption ==
    /\ Streamers \subseteq Nat \ {0} /\ IsFiniteSet(Streamers)
    /\ {PageSize, SearchCap, MaxTaken} \subseteq Nat
    /\ PageSize > 0 /\ MaxBackoff \in Nat /\ MaxBackoff >= 2

VARIABLES
  link,     \* "connecting", "listening", or "waiting" to listen again
  backoff,  \* seconds to the next try
  entries,  \* builtinStatusMap
  panel,    \* the message with the buttons, as it is shown
  jobs,     \* the handlers
  updatesIn     \* history: updates so far

botVars == <<link, backoff, entries, panel, jobs, updatesIn>>

Controls == {"pause", "resume", "delete"}
Menus == Controls \cup {"cover"}
Texts == {"main", "watermark", "help", "closed"}
Panels == [menu : Menus \cup Texts \cup {"search"}, page : Nat,
           rows : SUBSET Streamers, paused : SUBSET Streamers,
           of : SUBSET Streamers]
TextPanel(menu) ==
    [menu |-> menu, page |-> 0, rows |-> {}, paused |-> {}, of |-> {}]

Job(place, menu, page, key) ==
    [place |-> place, menu |-> menu, page |-> page, key |-> key,
     draft |-> TextPanel("closed")]
IdleJob == Job("idle", "main", 0, 0)

BotTypeOK ==
    /\ link \in {"connecting", "listening", "waiting"}
    /\ backoff \in 2..MaxBackoff
    /\ entries \in [Streamers -> {"none", "watched", "paused"}]
    /\ panel \in Panels
    /\ jobs \in [BotHandlers ->
                   [place : {"idle", "resolve", "control", "save", "draw",
                             "send", "open", "close", "search", "add"},
                    menu : Menus \cup Texts, page : Nat,
                    key : Streamers \cup {0}, draft : Panels]]
    /\ updatesIn \in 0..MaxTaken

BotInit ==
    /\ link = "connecting" /\ backoff = 2
    /\ entries \in [Streamers -> {"none", "watched"}]
    /\ panel = TextPanel("closed")
    /\ jobs = [h \in BotHandlers |-> IdleJob]
    /\ updatesIn = 0

-----------------------------------------------------------------------------
(* The link.                                                               *)

Doubled == IF 2 * backoff > MaxBackoff THEN MaxBackoff ELSE 2 * backoff
SameRest == UNCHANGED <<entries, panel, jobs, updatesIn>>

\* InitTelegram tries until the service knows the token; the listener starts
\* with a backoff of its own.
Connect ==
    /\ link = "connecting"
    /\ \/ link' = "listening" /\ backoff' = 2
       \/ link' = link /\ backoff' = Doubled
    /\ SameRest

\* The channel of updates closes, or its consumer panics.
ListenEnds ==
    link = "listening" /\ link' = "waiting" /\ UNCHANGED backoff /\ SameRest

ListenAgain ==
    link = "waiting" /\ link' = "listening" /\ backoff' = Doubled /\ SameRest

-----------------------------------------------------------------------------
(* Panels.                                                                 *)

Present == {k \in Streamers : entries[k] # "none"}
PausedOnes == {k \in Streamers : entries[k] = "paused"}
PageCount(S) == IF S = {} THEN 1 ELSE (Cardinality(S) + PageSize - 1) \div PageSize
PageOf(S, p) ==
    {k \in S : Cardinality({j \in S : j < k}) \div PageSize = p - 1}

\* Mutant: a page that is no longer there is shown as asked for.
PageAsked(S, p) == IF p < 1 THEN 1 ELSE p

\* A page there is.
PageShown(S, p) ==
    IF p < 1 THEN 1 ELSE IF p > PageCount(S) THEN PageCount(S) ELSE p

\* tgEditToTargetMenu: one page of the streamers there are now.
TargetMenu(menu, p) ==
    LET q == PageShown(Present, p)
    IN  [menu |-> menu, page |-> q, rows |-> PageOf(Present, q),
         paused |-> PausedOnes, of |-> Present]

ToMain == Job("draw", "main", 0, 0)

\* What the buttons of a panel ask for.  (Those that only send an answer:
\* Answer.)
ButtonsOf(p) ==
    IF p.menu = "closed" THEN {}
    ELSE {ToMain} \cup
         CASE p.menu = "main" ->
                 {Job("draw", m, 1, 0) : m \in Menus}
                    \cup {Job("draw", m, 0, 0) : m \in {"watermark", "help"}}
                    \cup {Job("close", "main", 0, 0)}
           [] p.menu \in Menus ->
                 {Job("resolve", p.menu, p.page, k) : k \in p.rows}
                    \cup {Job("draw", p.menu, q, 0) :
                            q \in {p.page - 1, p.page + 1} \cap 1..PageCount(p.of)}
           [] p.menu = "search" ->
                 {Job("resolve", IF k \in p.paused THEN "resume" ELSE "pause",
                      1, k) : k \in p.rows}
           [] p.menu = "watermark" -> {Job("draw", "watermark", 0, 0)}
           [] OTHER -> {}

\* Commands, answers to a prompt and links.
MessagesFrom ==
    {Job("open", m, 0, 0) : m \in {"main", "help"}}
      \cup {Job("search", "main", 0, 0)}
      \cup {Job("add", "main", 0, k) : k \in Streamers}

Receive ==
    /\ link = "listening" /\ backoff' = 2
    /\ updatesIn < MaxTaken /\ updatesIn' = updatesIn + 1

\* An update gets a handler.
Dispatch(h) ==
    /\ Receive /\ jobs[h] = IdleJob
    /\ \E j \in ButtonsOf(panel) \cup MessagesFrom :
          jobs' = [jobs EXCEPT ![h] = j]
    /\ UNCHANGED <<link, entries, panel>>

\* One that is turned down, or answered with a text, a file or a prompt.
Answer == Receive /\ UNCHANGED <<link, entries, panel, jobs>>

-----------------------------------------------------------------------------
(* Handlers.                                                               *)

NextPlace(h, p, q) ==
    jobs[h].place = p /\ jobs' = [jobs EXCEPT ![h].place = q]
JobEnds(h, p) == jobs[h].place = p /\ jobs' = [jobs EXCEPT ![h] = IdleJob]
SameLink == UNCHANGED <<link, backoff, updatesIn>>

\* The fingerprint is looked for among the entries.  A cover is sent as it is
\* on the disk.
ResolveTarget(h) ==
    /\ IF jobs[h].key \in Present /\ jobs[h].menu # "cover"
       THEN NextPlace(h, "resolve", "control") ELSE JobEnds(h, "resolve")
    /\ UNCHANGED <<entries, panel>> /\ SameLink

\* tgExecutePreciseControl loads the entry ...
LoadEntry(h) ==
    /\ NextPlace(h, "control", IF jobs[h].key \in Present THEN "save" ELSE "draw")
    /\ UNCHANGED <<entries, panel>> /\ SameLink

\* ... and stores it, or deletes it, after the state and the list were written.
SaveEntry(h) ==
    /\ NextPlace(h, "save", "draw")
    /\ entries' = [entries EXCEPT ![jobs[h].key] =
                     CASE jobs[h].menu = "pause" -> "paused"
                       [] jobs[h].menu = "resume" -> "watched"
                       [] OTHER -> "none"]
    /\ UNCHANGED panel /\ SameLink

DrawPanel(h) ==
    /\ jobs[h].place = "draw"
    /\ jobs' = [jobs EXCEPT ![h].place = "send",
                  ![h].draft = IF jobs[h].menu \in Menus
                               THEN TargetMenu(jobs[h].menu, jobs[h].page)
                               ELSE TextPanel(jobs[h].menu)]
    /\ UNCHANGED <<entries, panel>> /\ SameLink

\* The edit reaches the message, or is refused: it was deleted, nothing
\* changed, too many requests.
EditMessage(h) ==
    /\ JobEnds(h, "send")
    /\ \/ panel.menu # "closed" /\ panel' = jobs[h].draft
       \/ UNCHANGED panel
    /\ UNCHANGED entries /\ SameLink

\* "/menu" and "/help" send a message and edit it.
OpenPanel(h) ==
    /\ JobEnds(h, "open") /\ panel' = TextPanel(jobs[h].menu)
    /\ UNCHANGED entries /\ SameLink

ClosePanel(h) ==
    /\ JobEnds(h, "close") /\ panel' = TextPanel("closed")
    /\ UNCHANGED entries /\ SameLink

\* tgHandleSearch: a message with the first SearchCap it comes upon.
SearchEntries(h) ==
    /\ JobEnds(h, "search")
    /\ \E found \in SUBSET Present :
          /\ Cardinality(found) <= SearchCap
          /\ panel' = IF found = {} THEN panel
                      ELSE [menu |-> "search", page |-> 1, rows |-> found,
                            paused |-> PausedOnes, of |-> found]
    /\ UNCHANGED entries /\ SameLink

\* tgHandleAdd: a streamer that has no monitor is listed and shown, as paused
\* where the link begins with "#".
AddStreamer(h) ==
    /\ JobEnds(h, "add")
    /\ \/ entries[jobs[h].key] # "none" /\ UNCHANGED entries
       \/ \E s \in {"watched", "paused"} :
             entries' = [entries EXCEPT ![jobs[h].key] = s]
    /\ UNCHANGED panel /\ SameLink

\* The console and the monitors.
Elsewhere(k) ==
    /\ \E s \in {"none", "watched", "paused"} \ {entries[k]} :
          entries' = [entries EXCEPT ![k] = s]
    /\ UNCHANGED <<panel, jobs>> /\ SameLink

BotNext ==
    \/ Connect \/ ListenEnds \/ ListenAgain \/ Answer
    \/ \E h \in BotHandlers :
          \/ Dispatch(h) \/ ResolveTarget(h) \/ LoadEntry(h) \/ SaveEntry(h)
          \/ DrawPanel(h) \/ EditMessage(h) \/ OpenPanel(h) \/ ClosePanel(h)
          \/ SearchEntries(h) \/ AddStreamer(h)
    \/ \E k \in Streamers : Elsewhere(k)

-----------------------------------------------------------------------------
\* A panel drawn while there are streamers names one of them, although the
\* button that asked for its page may be older than the deletions that made
\* the page disappear (telegram.go:636-654, 409).
PanelHasButtons == panel.menu \in Menus /\ panel.rows = {} => panel.of = {}
=============================================================================
