----------------------------- MODULE ProbePacing ----------------------------
(***************************************************************************)
(* The pace of the Kuaishou probes (builtin_kuaishou.go): all rooms go     *)
(* through kuaishouThrottle, which keeps a gap between fetches and, after  *)
(* answers that look like throttling, a hold that grows with the streak of *)
(* such answers.  Times are remaining units, so the model is finite.       *)
(***************************************************************************)
EXTENDS Integers, FiniteSets

CONSTANTS Rooms,     \* the goroutines that probe Kuaishou rooms
          Gap,       \* kuaishouMinFetchGap
          BaseHold,  \* kuaishouRiskBaseHold
          MaxHold    \* kuaishouRiskMaxHold

Nobody == "nobody"  \* who holds a free mutex

ASSUME PacingAssumption ==
    /\ IsFiniteSet(Rooms) /\ Nobody \notin Rooms /\ Gap \in Nat \ {0}
    /\ BaseHold \in Nat \ {0} /\ MaxHold \in Nat /\ BaseHold <= MaxHold

VARIABLES
  room,    \* per room: "idle", "waits", "gap", "hold", "fetches"
  owner,   \* the holder of kuaishouFetchMu
  age,     \* since kuaishouLastFetch, at most Gap
  hold,    \* what is left of kuaishouRiskHoldUntil
  streak,  \* kuaishouRiskStreak, counted no further than MaxHold
  sleep,   \* what is left of the owner's sleep
  since,   \* history: since the last fetch began, at most Gap
  calm     \* history: the last fetch slept through no hold

pacingVars == <<room, owner, age, hold, streak, sleep, since, calm>>

PacingTypeOK ==
    /\ room \in [Rooms -> {"idle", "waits", "gap", "hold", "fetches"}]
    /\ owner \in Rooms \cup {Nobody}
    /\ age \in 0..Gap /\ since \in 0..Gap /\ hold \in 0..MaxHold
    /\ streak \in 0..MaxHold
    /\ sleep \in 0..(IF Gap > MaxHold THEN Gap ELSE MaxHold)
    /\ calm \in BOOLEAN

PacingInit ==
    /\ room = [r \in Rooms |-> "idle"] /\ owner = Nobody
    /\ age = Gap /\ hold = 0 /\ streak = 0 /\ sleep = 0
    /\ since = Gap /\ calm = TRUE

Capped(t, most) == IF t > most THEN most ELSE t

\* A unit of time is long against a step: the owner whose sleep is over acts
\* before the next one passes.
Tick ==
    /\ owner # Nobody => sleep > 0
    /\ age' = Capped(age + 1, Gap) /\ since' = Capped(since + 1, Gap)
    /\ hold' = IF hold > 0 THEN hold - 1 ELSE 0
    /\ sleep' = IF sleep > 0 THEN sleep - 1 ELSE 0
    /\ UNCHANGED <<room, owner, streak, calm>>

\* GetStreamURL: the page, and the share API, each after the throttle.
BeginProbe(r) ==
    /\ room[r] = "idle" /\ room' = [room EXCEPT ![r] = "waits"]
    /\ UNCHANGED <<owner, age, hold, streak, sleep, since, calm>>

\* Mutant: the gap is kept from the fetch before, whose age is a unit more.
LockGateShort(r) ==
    /\ room[r] = "waits" /\ owner = Nobody
    /\ owner' = r /\ room' = [room EXCEPT ![r] = "gap"]
    /\ sleep' = IF age < Gap THEN Gap - age - 1 ELSE 0
    /\ UNCHANGED <<age, hold, streak, since, calm>>

\* kuaishouThrottle: under the lock, sleep for what is missing of the gap ...
LockGate(r) ==
    /\ room[r] = "waits" /\ owner = Nobody
    /\ owner' = r /\ room' = [room EXCEPT ![r] = "gap"]
    /\ sleep' = Gap - age
    /\ UNCHANGED <<age, hold, streak, since, calm>>

\* ... stamp the fetch, read the hold and sleep through it ...
StampFetch(r) ==
    /\ owner = r /\ room[r] = "gap" /\ sleep = 0
    /\ age' = 0
    /\ sleep' = hold /\ room' = [room EXCEPT ![r] = "hold"]
    /\ UNCHANGED <<owner, hold, streak, since, calm>>

\* Mutant: the lock is not released.
FetchLocked(r) ==
    /\ owner = r /\ room[r] = "hold" /\ sleep = 0
    /\ room' = [room EXCEPT ![r] = "fetches"]
    /\ since' = 0 /\ calm' = (age = 0)
    /\ UNCHANGED <<owner, age, hold, streak, sleep>>

\* ... and let the next one in while the fetch goes out.
Fetch(r) ==
    /\ owner = r /\ room[r] = "hold" /\ sleep = 0
    /\ owner' = Nobody /\ room' = [room EXCEPT ![r] = "fetches"]
    /\ since' = 0 /\ calm' = (age = 0)
    /\ UNCHANGED <<age, hold, streak, sleep>>

Next0(r) == \E place \in {"idle", "waits"} : room' = [room EXCEPT ![r] = place]

\* kuaishouNoteRisk, kuaishouNoteOK, or a failure that notes neither; a failed
\* page is followed by the share API.
NoteRisk(r) ==
    /\ room[r] = "fetches" /\ Next0(r)
    /\ streak' = Capped(streak + 1, MaxHold)
    /\ hold' = Capped(BaseHold * streak', MaxHold)
    /\ UNCHANGED <<owner, age, sleep, since, calm>>

NoteOK(r) ==
    /\ room[r] = "fetches" /\ room' = [room EXCEPT ![r] = "idle"]
    /\ streak' = 0 /\ hold' = 0
    /\ UNCHANGED <<owner, age, sleep, since, calm>>

FetchFails(r) ==
    /\ room[r] = "fetches" /\ Next0(r)
    /\ UNCHANGED <<owner, age, hold, streak, sleep, since, calm>>

PacingNext == \/ Tick
              \/ \E r \in Rooms : \/ BeginProbe(r) \/ LockGate(r) \/ StampFetch(r)
                                  \/ Fetch(r) \/ NoteRisk(r) \/ NoteOK(r)
                                  \/ FetchFails(r)

-----------------------------------------------------------------------------
\* Two fetches of any two rooms are the gap apart (builtin_kuaishou.go at
\* kuaishouMinFetchGap), whatever the order the rooms get the lock in, unless
\* the first slept through a hold.
FetchesApart ==
    [][\A r \in Rooms : (room[r] = "hold" /\ room'[r] = "fetches" /\ calm)
                           => since >= Gap]_pacingVars

\* However often the platform refuses, no room's probe waits for ever.
ProbesGoOn == \A r \in Rooms : room[r] = "waits" ~> room[r] = "fetches"
=============================================================================
