---------------------------- MODULE ConfigStore ----------------------------
(***************************************************************************)
(* config.py: the settings in memory, Settings.save, step by step, and     *)
(* load_settings after a restart.  A task is a thread in which save() is   *)
(* called, or the event loop on behalf of a handler.  What is done with    *)
(* the settings is OperatorApi's.                                          *)
(***************************************************************************)
EXTENDS Naturals

CONSTANTS
  Id,      \* accounts, by cfg.identifier
  NoId,    \* "": no active account
  Task,    \* handlers and threads that may save
  NoTask,
  Torn     \* a file that is not JSON: load_settings takes it for an empty one

VARIABLES
  accounts, \* settings.accounts
  banned,   \* accounts with cfg.banned; the pool holds the same cfg objects
  active,   \* settings.active_account
  file,     \* what config.json holds
  disk,     \* "good", or "poor": writes may fail, and renames be refused
  writer,   \* who holds _CONFIG_SAVE_LOCK
  save,     \* where each task is in save()
  snap,     \* the payload each task has built, with the number of its save
  begun,    \* history: saves begun
  fileNo    \* history: number of the save whose payload the file holds

settingsVars == <<accounts, banned, active>>
savingVars == <<writer, save, snap, begun>>
storeVars == <<settingsVars, savingVars, file, disk, fileNo>>

Payload == [accounts : SUBSET Id, banned : SUBSET Id, active : Id \cup {NoId}]
EmptyFile == [accounts |-> {}, banned |-> {}, active |-> NoId]
NoPayload == [content |-> EmptyFile, no |-> 0]

StoreTypeOK ==
  /\ accounts \subseteq Id /\ banned \subseteq Id
  /\ active \in Id \cup {NoId}
  /\ file \in Payload \cup {Torn}
  /\ disk \in {"good", "poor"}
  /\ writer \in Task \cup {NoTask}
  /\ save \in [Task -> {"no", "begin", "active", "lock", "rename", "overwrite",
                        "fill", "saved", "raised"}]
  /\ snap \in [Task -> [content : Payload, no : Nat]]
  /\ {begun, fileNo} \subseteq Nat
  \* the lock is held for the writing, and no longer
  /\ \A t \in Task : writer = t <=> save[t] \in {"rename", "overwrite", "fill"}

StoreInit(contents) ==
  /\ file \in contents
  /\ accounts = file.accounts /\ banned = file.banned /\ active = file.active
  /\ disk \in {"good", "poor"}
  /\ writer = NoTask
  /\ save = [t \in Task |-> "no"]
  /\ snap = [t \in Task |-> NoPayload]
  /\ begun = 0 /\ fileNo = 0

\* save() is over and has returned or raised; its caller goes on.
SaveDone(t) == save[t] \in {"saved", "raised"}

-----------------------------------------------------------------------------
(* Settings.save                                                           *)

SaveStep(t, from, to) ==
  /\ save[t] = from
  /\ save' = [save EXCEPT ![t] = to]

\* The payload is built field by field, and without the lock.
ReadAccounts(t) ==
  /\ SaveStep(t, "begin", "active")
  /\ begun' = begun + 1
  /\ snap' = [snap EXCEPT ![t] = [no |-> begun + 1,
                content |-> [EmptyFile EXCEPT !.accounts = accounts,
                                              !.banned = banned \cap accounts]]]
  /\ UNCHANGED <<settingsVars, file, disk, writer, fileNo>>

ReadActive(t) ==
  /\ SaveStep(t, "active", "lock")
  /\ snap' = [snap EXCEPT ![t].content.active = active]
  /\ UNCHANGED <<settingsVars, file, disk, writer, begun, fileNo>>

\* A bug to find: the lock is kept when the writing fails.
WriteTemp_KeepsLock(t) ==
  /\ writer = NoTask
  /\ \/ SaveStep(t, "lock", "rename")
     \/ disk = "poor" /\ SaveStep(t, "lock", "raised")
  /\ writer' = t
  /\ UNCHANGED <<settingsVars, file, disk, snap, begun, fileNo>>

\* The lock is taken, and the unique temporary file written and flushed to
\* disk; when that fails the lock is let go.
WriteTemp(t) ==
  /\ writer = NoTask
  /\ \/ SaveStep(t, "lock", "rename") /\ writer' = t
     \/ disk = "poor" /\ SaveStep(t, "lock", "raised") /\ UNCHANGED writer
  /\ UNCHANGED <<settingsVars, file, disk, snap, begun, fileNo>>

Publish(t) ==
  /\ file' = snap[t].content
  /\ fileNo' = snap[t].no
  /\ writer' = NoTask

\* A bug to find: the file is written in place at once.
Rename_InPlace(t) ==
  /\ SaveStep(t, "rename", "overwrite")
  /\ UNCHANGED <<settingsVars, file, disk, writer, snap, begun, fileNo>>

\* os.replace, tried four times: the file changes as a whole, or the rename
\* is refused.
Rename(t) ==
  /\ \/ SaveStep(t, "rename", "saved") /\ Publish(t)
     \/ /\ disk = "poor"
        /\ SaveStep(t, "rename", "overwrite")
        /\ UNCHANGED <<file, fileNo, writer>>
  /\ UNCHANGED <<settingsVars, disk, snap, begun>>

\* The direct overwrite opens the file, which truncates it or is refused and leaves
\* it whole, and then fills it or fails to.
Truncate(t) ==
  /\ \/ SaveStep(t, "overwrite", "fill") /\ file' = Torn /\ UNCHANGED writer
     \/ SaveStep(t, "overwrite", "raised") /\ writer' = NoTask /\ UNCHANGED file
  /\ UNCHANGED <<settingsVars, disk, snap, begun, fileNo>>

Fill(t) ==
  /\ \/ SaveStep(t, "fill", "saved") /\ Publish(t)
     \/ /\ SaveStep(t, "fill", "raised")
        /\ writer' = NoTask
        /\ UNCHANGED <<file, fileNo>>
  /\ UNCHANGED <<settingsVars, disk, snap, begun>>

SaveNext(t) ==
  \/ ReadAccounts(t) \/ ReadActive(t) \/ WriteTemp(t) \/ Rename(t)
  \/ Truncate(t) \/ Fill(t)

-----------------------------------------------------------------------------
(* The process dies and is started again: load_settings                    *)

Loaded == IF file = Torn THEN EmptyFile ELSE file

Reload ==
  /\ accounts' = Loaded.accounts
  /\ banned' = Loaded.banned
  /\ active' = Loaded.active
  /\ writer' = NoTask
  /\ save' = [t \in Task |-> "no"]
  /\ snap' = [t \in Task |-> NoPayload]
  /\ fileNo' = 0
  /\ begun' = IF file = Torn THEN 1 ELSE 0
  /\ UNCHANGED <<file, disk>>

-----------------------------------------------------------------------------

(* Nobody, in this process or another, ever reads a half-written           *)
(* configuration, and no crash leaves one, as long as renames are not      *)
(* refused: "can't interleave or observe a half-written config"            *)
(* (config.py:180-182).                                                    *)
NeverHalfWritten == disk = "good" => file # Torn
=============================================================================
