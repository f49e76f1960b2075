----------------------------- MODULE ConfigStore ----------------------------
(***************************************************************************)
(* The settings of the program: the store of config.json                   *)
(* (internal/config), the recorder's own published copy of the builtin     *)
(* section (internal/recorder/export.go), and those who change them: the   *)
(* console's forms (PUT /config, the recorder's settings and cookies) and  *)
(* the Telegram menus, which still write the legacy file the start merges. *)
(* A setting is abstracted to the number of the change that gave it its    *)
(* value; 0 is the default.                                                *)
(***************************************************************************)
EXTENDS Integers, FiniteSets

CONSTANTS Writers,      \* requests and menu presses that run concurrently
          MaxChanges,   \* bound: changes made
          MaxBoots      \* bound: starts of the process

ASSUME ConfigAssumption ==
    /\ IsFiniteSet(Writers) /\ MaxChanges \in Nat /\ MaxBoots \in Nat \ {0}

Version == 0..MaxChanges

\* Config: the main section, and the builtin one (config.BuiltinSettings).
Builtin == [settings : Version, cookies : Version]
Config == [main : Version, builtin : Builtin]
DefaultBuiltin == [settings |-> 0, cookies |-> 0]
Default == [main |-> 0, builtin |-> DefaultBuiltin]
NoLegacy == -1

VARIABLES
  boot,      \* "off", "read", "merge", "renamed", "init" or "up"
  boots,     \* counter of the bound
  changes,   \* the number of the youngest change
  cfg,       \* CfgStore.cfg
  published, \* builtinCfgPtr: the recorder's settings
  json,      \* config.json
  legacy,    \* builtin_config.json (its cookies are never read)
  writers,    \* what each writer does: [at, change, what it has read]
  replaced   \* history: the youngest main section Replace stored

configVars == <<boot, boots, changes, cfg, published, json, legacy, writers,
                replaced>>

Resting0 == [at |-> "idle", change |-> 0, seen |-> Default]

WriterPlaces == {"idle", "put", "update", "updateCookies", "persist", "apply",
                 "save", "write", "telegram"}

ConfigTypeOK ==
    /\ boot \in {"off", "read", "merge", "renamed", "init", "up"}
    /\ boots \in 0..MaxBoots /\ changes \in Version
    /\ cfg \in Config /\ published \in Builtin /\ json \in Config
    /\ legacy \in Version \cup {NoLegacy}
    /\ writers \in [Writers -> [at : WriterPlaces, change : Version,
                               seen : Config]]
    /\ replaced \in Version

ConfigInit ==
    /\ boot = "off" /\ boots = 0 /\ changes = 0
    /\ cfg = Default /\ published = DefaultBuiltin /\ json = Default
    /\ legacy \in {NoLegacy, 0}
    /\ writers = [w \in Writers |-> Resting0]
    /\ replaced = 0

Go(w, place) == writers' = [writers EXCEPT ![w].at = place]
Saw(w, place, c) == writers' = [writers EXCEPT ![w].at = place, ![w].seen = c]

-----------------------------------------------------------------------------
(* Start (run.go, Run), and the end of the process, at any moment.         *)

\* LoadFromDisk: what the file says (a file that is missing or does not
\* parse gives the defaults; AtomicWrite leaves none that does not), saved.
LoadFromDisk ==
    /\ boot = "off" /\ boots < MaxBoots
    /\ boot' = "merge" /\ boots' = boots + 1
    /\ cfg' = json /\ replaced' = json.main
    /\ published' = DefaultBuiltin
    /\ UNCHANGED <<changes, json, legacy, writers>>

\* MigrateLegacy: the legacy file replaces the builtin section but for the
\* cookies, and is renamed before the result is saved.
Merge ==
    /\ boot = "merge"
    /\ IF legacy = NoLegacy
       THEN boot' = "init" /\ UNCHANGED <<cfg, legacy>>
       ELSE /\ cfg' = [cfg EXCEPT !.builtin.settings = legacy]
            /\ legacy' = NoLegacy /\ boot' = "renamed"
    /\ UNCHANGED <<boots, changes, published, json, writers, replaced>>

SaveMerged ==
    /\ boot = "renamed" /\ boot' = "init"
    /\ json' = cfg
    /\ UNCHANGED <<boots, changes, cfg, published, legacy, writers, replaced>>

\* The rest of the start saves once more and InitBuiltinRecorder publishes
\* the recorder's copy.
InitBuiltinRecorder ==
    /\ boot = "init" /\ boot' = "up"
    /\ json' = cfg /\ published' = cfg.builtin
    /\ UNCHANGED <<boots, changes, cfg, legacy, writers, replaced>>

EndProcess ==
    /\ boot # "off" /\ boots < MaxBoots
    /\ boot' = "off"
    /\ cfg' = Default /\ published' = DefaultBuiltin /\ replaced' = json.main
    /\ writers' = [w \in Writers |-> Resting0]
    /\ UNCHANGED <<boots, changes, json, legacy>>

-----------------------------------------------------------------------------
(* The writers.                                                            *)

Change(w, place, c) ==
    /\ boot = "up" /\ writers[w].at = "idle" /\ changes < MaxChanges
    /\ changes' = changes + 1
    /\ writers' = [writers EXCEPT ![w] = [at |-> place, change |-> changes + 1,
                                        seen |-> c]]

\* PUT /config replaces the whole configuration.  The form was filled from a
\* GET: its builtin section is the one of that moment, here of the request.
BeginPut(w) ==
    /\ Change(w, "put", cfg)
    /\ UNCHANGED <<boot, boots, cfg, published, json, legacy, replaced>>

Replace(w) ==
    /\ writers[w].at = "put"
    /\ cfg' = [writers[w].seen EXCEPT !.main = writers[w].change]
    /\ replaced' = writers[w].change
    /\ Go(w, "save")
    /\ UNCHANGED <<boot, boots, changes, published, json, legacy>>

\* UpdateConfig: load the published copy, change it, publish it.
BeginUpdate(w) ==
    /\ \E place \in {"update", "updateCookies"} :
          Change(w, place, [Default EXCEPT !.builtin = published])
    /\ UNCHANGED <<boot, boots, cfg, published, json, legacy, replaced>>

UpdateConfig(w) ==
    LET old == writers[w].seen.builtin
    IN  /\ writers[w].at \in {"update", "updateCookies"}
        /\ published' = IF writers[w].at = "update"
                        THEN [old EXCEPT !.settings = writers[w].change]
                        ELSE [old EXCEPT !.cookies = writers[w].change]
        /\ Go(w, "persist")
        /\ UNCHANGED <<boot, boots, changes, cfg, json, legacy, replaced>>

\* PersistConfig: a snapshot of the published copy, Update and Save.
PersistConfig(w) ==
    /\ writers[w].at = "persist"
    /\ Saw(w, "apply", [cfg EXCEPT !.builtin = published])
    /\ UNCHANGED <<boot, boots, changes, cfg, published, json, legacy, replaced>>

\* Mutant: the store read, changed and replaced instead of updated in place.
UpdateByReplacing(w) ==
    /\ writers[w].at = "apply"
    /\ cfg' = writers[w].seen
    /\ Go(w, "save")
    /\ UNCHANGED <<boot, boots, changes, published, json, legacy, replaced>>

\* Update under the store's lock: the builtin section only.
Update(w) ==
    /\ writers[w].at = "apply"
    /\ cfg' = [cfg EXCEPT !.builtin = writers[w].seen.builtin]
    /\ Go(w, "save")
    /\ UNCHANGED <<boot, boots, changes, published, json, legacy, replaced>>

\* Save: Get, then AtomicWrite, with no lock between them.
SaveGet(w) ==
    /\ writers[w].at = "save"
    /\ Saw(w, "write", cfg)
    /\ UNCHANGED <<boot, boots, changes, cfg, published, json, legacy, replaced>>

SaveWrite(w) ==
    /\ writers[w].at = "write"
    /\ json' = writers[w].seen
    /\ writers' = [writers EXCEPT ![w] = Resting0]
    /\ UNCHANGED <<boot, boots, changes, cfg, published, legacy, replaced>>

\* A Telegram menu changes the published copy in place ...
TelegramChange(w) ==
    /\ Change(w, "telegram", Default)
    /\ published' = [published EXCEPT !.settings = changes + 1]
    /\ UNCHANGED <<boot, boots, cfg, json, legacy, replaced>>

\* ... and saveBuiltinConfigTG writes the legacy file.
SaveBuiltinConfigTG(w) ==
    /\ writers[w].at = "telegram"
    /\ legacy' = published.settings
    /\ writers' = [writers EXCEPT ![w] = Resting0]
    /\ UNCHANGED <<boot, boots, changes, cfg, published, json, replaced>>

-----------------------------------------------------------------------------
Writing(w) == \/ BeginPut(w) \/ Replace(w) \/ BeginUpdate(w) \/ UpdateConfig(w)
              \/ PersistConfig(w) \/ Update(w) \/ SaveGet(w) \/ SaveWrite(w)
              \/ TelegramChange(w) \/ SaveBuiltinConfigTG(w)

ConfigNext == \/ LoadFromDisk \/ Merge \/ SaveMerged \/ InitBuiltinRecorder
              \/ EndProcess
              \/ \E w \in Writers : Writing(w)

-----------------------------------------------------------------------------
(* Properties.                                                             *)

\* The recorder's forms and PUT /config write the same store concurrently:
\* none of the recorder's saves takes back main settings that a PUT has
\* stored meanwhile (Update changes the builtin section under the lock).
MainSettingsStay == cfg.main = replaced \/ boot = "off"
=============================================================================
