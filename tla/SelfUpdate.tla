----------------------------- MODULE SelfUpdate -----------------------------
(***************************************************************************)
(* The update of the program through the Telegram bot                      *)
(* (tgHandleUpdateBinary, checkAndNotifyOTASuccess in                      *)
(* internal/bots/telegram.go): a document sent with "/update" is           *)
(* downloaded beside the executable and renamed over it, and a script      *)
(* restarts the service.  One update is handled at a time here.            *)
(***************************************************************************)
EXTENDS Integers

CONSTANTS MaxUpdates \* bound: documents sent

ASSUME UpdateAssumption == MaxUpdates \in Nat

VARIABLES
  binary,   \* what is at each path: "none", "part" of a program, or "whole"
  updating, \* where the handler stands
  flagFile, \* .ota_chat_id
  service,  \* the process: "runs", or "ends" for the script to start it again
  updates,  \* history: documents sent
  announced \* checkAndNotifyOTASuccess of this process: where it stands

updateVars == <<binary, updating, flagFile, service, updates, announced>>

Programs == {"none", "part", "whole"}

UpdateTypeOK ==
    /\ binary \in [exe : Programs, tmp : Programs, bak : Programs]
    /\ updating \in {"idle", "open", "copy", "unlink", "backup", "replace",
                     "restore", "flag", "restart"}
    /\ flagFile \in BOOLEAN /\ service \in {"runs", "ends"}
    /\ updates \in 0..MaxUpdates
    /\ announced \in {"start", "send", "remove", "done"}

UpdateInit ==
    /\ binary = [exe |-> "whole", tmp |-> "none", bak |-> "none"]
    /\ updating = "idle" /\ flagFile = FALSE /\ service = "runs"
    /\ updates = 0 /\ announced = "start"

Step(p, q) == service = "runs" /\ updating = p /\ updating' = q
SameFiles == UNCHANGED <<binary, flagFile>>

\* os.Rename: what was at the target is gone.
Renamed(from, to) == [binary EXCEPT ![to] = binary[from], ![from] = "none"]

Document ==
    /\ Step("idle", "open") /\ updates < MaxUpdates /\ updates' = updates + 1
    /\ UNCHANGED <<service, announced>> /\ SameFiles

\* No link, no answer but 200, no place to write to: nothing is touched.
Download ==
    /\ \/ Step("open", "idle") /\ UNCHANGED binary
       \/ Step("open", "copy") /\ binary' = [binary EXCEPT !.tmp = "part"]
    /\ UNCHANGED <<flagFile, service, announced, updates>>

\* io.Copy ends with the body, or with an error - the 60 seconds of the
\* client are over - that is overwritten unread.
CopyBody ==
    /\ Step("copy", "unlink")
    /\ \E c \in {"part", "whole"} : binary' = [binary EXCEPT !.tmp = c]
    /\ UNCHANGED <<flagFile, service, announced, updates>>

\* The old backup goes, the executable becomes the backup.
Unlink ==
    /\ Step("unlink", "backup") /\ binary' = [binary EXCEPT !.bak = "none"]
    /\ UNCHANGED <<flagFile, service, announced, updates>>

\* A rename that fails changes nothing; this one's error is not looked at.
Backup ==
    /\ Step("backup", "replace")
    /\ binary' \in {binary, Renamed("exe", "bak")}
    /\ UNCHANGED <<flagFile, service, announced, updates>>

ReplaceExe ==
    /\ \/ /\ Step("replace", "flag") /\ binary' = Renamed("tmp", "exe")
       \/ Step("replace", "restore") /\ UNCHANGED binary
    /\ UNCHANGED <<flagFile, service, updates, announced>>

\* Mutant: an update that failed leaves the executable moved away.
GiveUp ==
    /\ Step("restore", "idle")
    /\ UNCHANGED <<flagFile, binary, service, announced, updates>>

\* The backup is put back - where there is one, that is, where the
\* executable was moved away.  This rename undoes one that has just succeeded,
\* and is taken to succeed.
PutBack ==
    /\ Step("restore", "idle")
    /\ binary' = IF binary.bak = "none" THEN binary ELSE Renamed("bak", "exe")
    /\ UNCHANGED <<flagFile, service, announced, updates>>

WriteFlag ==
    /\ Step("flag", "restart") /\ flagFile' = TRUE
    /\ UNCHANGED <<binary, service, announced, updates>>

\* systemd-run starts the script, or the script is started directly and the
\* process exits; the script may fail to stop it in the first case.
RunScript ==
    /\ Step("restart", "idle")
    /\ service' \in {"runs", "ends"}
    /\ UNCHANGED <<announced, updates>> /\ SameFiles

\* The service starts what is at the path.
StartService ==
    /\ service = "ends" /\ binary.exe = "whole" /\ service' = "runs"
    /\ announced' = "start"
    /\ UNCHANGED <<updating, updates>> /\ SameFiles

\* Once the bot is connected: the receipt for the chat in the file.
ReadFlag ==
    /\ service = "runs" /\ announced = "start"
    /\ announced' = IF flagFile THEN "send" ELSE "done"
    /\ UNCHANGED <<updating, service, updates>> /\ SameFiles

SendReceipt ==
    /\ service = "runs" /\ announced = "send" /\ announced' = "remove"
    /\ UNCHANGED <<updating, service, updates>> /\ SameFiles

RemoveFlag ==
    /\ service = "runs" /\ announced = "remove" /\ announced' = "done"
    /\ flagFile' = FALSE
    /\ UNCHANGED <<updating, service, binary, updates>>

UpdateNext ==
    \/ Document \/ Download \/ CopyBody \/ Unlink \/ Backup \/ ReplaceExe
    \/ PutBack \/ WriteFlag \/ RunScript \/ StartService \/ ReadFlag
    \/ SendReceipt \/ RemoveFlag

-----------------------------------------------------------------------------
\* Between updates there is something at the path of the executable, whichever
\* of the two renames failed (telegram.go:1170-1178).
ProgramStays == updating = "idle" => binary.exe # "none"

\* Between updates there is a whole program at the path of the executable:
\* the replacement is atomic, so says the handler (telegram.go:1126).
ProgramIsWhole == updating = "idle" => binary.exe = "whole"
=============================================================================
