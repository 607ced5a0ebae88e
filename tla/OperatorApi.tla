---------------------------- MODULE OperatorApi ----------------------------
(***************************************************************************)
(* The endpoints that change accounts (server_routes.py, accounts.py) and  *)
(* the worker threads that mark bans and move CURRENT, on the two copies   *)
(* of the selection (settings.active_account and the pool's _current), the *)
(* two lists of accounts and the saved file.                               *)
(*                                                                         *)
(* A handler runs on the event loop between two awaits: loop says who is   *)
(* in the middle of such a piece.  What it hands to asyncio.to_thread, and *)
(* what the workers do, interleaves with everything.                       *)
(***************************************************************************)
EXTENDS ConfigStore

CONSTANTS
  CallsOf,    \* bound: each task makes one call, out of these
  MaxCrashes  \* bound: restarts

ASSUME OpAssumption ==
  /\ NoId \notin Id /\ NoTask \notin Task /\ Torn \notin Payload
  /\ MaxCrashes \in Nat

VARIABLES
  pooled,   \* app.state.pool exists: it is made by the first request
  roster,   \* the pool's _items
  current,  \* the pool's _current
  at,       \* where each task is
  req,      \* the call of each task and the account it names
  kept,     \* the list remove_account has built, until it is assigned
  loop,     \* the task in the middle of a piece on the event loop
  crashes,  \* restarts so far
  overlap,  \* history: two edits of the account lists were under way at once
  crossed   \* history: so were two changes of the selection, since the last request

historyVars == <<overlap, crossed>>
apiVars == <<pooled, roster, current, at, req, kept, loop, crashes, historyVars>>
opVars == <<storeVars, apiVars>>

Calls == {"list", "clear", "select", "add", "delete", "unblock", "token",
          "ban", "switch"}
Requests == Calls \ {"ban", "switch"}  \* the others are made by workers
\* The accounts a request may name: select with no name clears CURRENT, and
\* unblock with none clears every ban.
Names(call) == CASE call \in {"list", "clear"} -> {NoId}
                 [] call = "unblock" -> Id \cup {NoId}
                 [] OTHER -> Id
NoCall == [call |-> "none", id |-> NoId]
Places == {"idle", "ended", "synced", "pick", "picked", "join", "joined", "enlisted",
           "activated", "leave", "left", "kept", "replaced", "unblock", "token",
           "switching", "switched", "saving"}

OpTypeOK ==
  /\ StoreTypeOK
  /\ {pooled, overlap, crossed} \subseteq BOOLEAN
  /\ roster \subseteq Id
  /\ current \in Id \cup {NoId}
  /\ at \in [Task -> Places]
  /\ req \in [Task -> [call : Calls \cup {"none"}, id : Id \cup {NoId}]]
  /\ kept \in [Task -> SUBSET Id]
  /\ loop \in Task \cup {NoTask}
  /\ crashes \in 0..MaxCrashes

\* Some tasks may make no call at all.
OpInit(contents) ==
  /\ StoreInit(contents)
  /\ pooled = FALSE /\ roster = {} /\ current = NoId
  /\ at \in [Task -> {"idle", "ended"}]
  /\ req = [t \in Task |-> NoCall]
  /\ kept = [t \in Task |-> {}]
  /\ loop = NoTask
  /\ crashes = 0
  /\ overlap = FALSE /\ crossed = FALSE

Goto(t, from, to) ==
  /\ at[t] = from
  /\ at' = [at EXCEPT ![t] = to]
  /\ UNCHANGED req

\* A task begins its call, or ends it with an answer.
Call(t, call, id, to) ==
  /\ at[t] = "idle"
  /\ call \in CallsOf[t]
  /\ at' = [at EXCEPT ![t] = to]
  /\ req' = [req EXCEPT ![t] = [call |-> call, id |-> id]]

End(t, from) ==
  /\ at[t] = from
  /\ at' = [at EXCEPT ![t] = "ended"]
  /\ req' = [req EXCEPT ![t] = NoCall]

BeginSave(t) ==
  /\ save' = [save EXCEPT ![t] = "begin"]
  /\ UNCHANGED <<writer, snap, begun>>

EndSave(t) ==
  /\ save' = [save EXCEPT ![t] = "no"]
  /\ snap' = [snap EXCEPT ![t] = NoPayload]
  /\ UNCHANGED <<writer, begun>>

Idle(t) == at[t] \in {"idle", "ended"}

\* What most steps leave alone.
Elsewhere == UNCHANGED <<file, disk, fileNo, pooled, crashes>>
NoSave == UNCHANGED savingVars

-----------------------------------------------------------------------------
(* _pool(): every request first brings the pool's CURRENT in line          *)

\* sync_current_from_settings: settings win, and a stale name is cleared.
Synced ==
  IF active \in roster THEN [active |-> active, current |-> active]
                       ELSE [active |-> NoId, current |-> NoId]

\* Tasks between their first change of the selection or the lists and their last.
Changing == {t \in Task : at[t] \in {"picked", "joined", "enlisted", "activated", "left",
                                     "kept", "replaced", "switched"}}
Crossing == crossed' = (crossed \/ Changing # {})

Receive(t, call, id) ==
  /\ loop = NoTask
  /\ Call(t, call, id, "synced")
  /\ loop' = t
  /\ pooled' = TRUE
  /\ IF ~pooled
     THEN /\ roster' = accounts /\ current' = active
          /\ UNCHANGED active /\ NoSave
     ELSE /\ active' = Synced.active /\ current' = Synced.current
          /\ UNCHANGED roster
          /\ IF Synced = [active |-> active, current |-> current]
             THEN NoSave ELSE BeginSave(t)  \* saved on the event loop itself
  /\ crossed' = (Changing # {})
  /\ UNCHANGED <<accounts, banned, file, disk, fileNo, kept, crashes, overlap>>

\* The piece goes on, once a save in it is over.
Continue(t, call) ==
  /\ at[t] = "synced"
  /\ req[t].call = call
  /\ save[t] = "no" \/ SaveDone(t)
  /\ loop' = NoTask

Listed(t) ==
  /\ Continue(t, "list")
  /\ End(t, "synced")
  /\ EndSave(t)
  /\ UNCHANGED <<settingsVars, roster, current, kept, historyVars>>
  /\ Elsewhere

\* The first await of the other handlers: what follows runs in a thread.
ToThread(t, call, to) ==
  /\ Continue(t, call)
  /\ Goto(t, "synced", to)
  /\ EndSave(t)
  /\ UNCHANGED <<settingsVars, roster, current, kept, historyVars>>
  /\ Elsewhere

\* The save at the end of a call is over.  PUT token then goes on.
Finish(t) ==
  /\ SaveDone(t)
  /\ End(t, "saving")
  /\ EndSave(t)
  /\ banned' = IF req[t].call = "token" /\ save[t] = "saved"
               THEN banned \ ({req[t].id} \cap roster) ELSE banned
  /\ UNCHANGED <<accounts, active, roster, current, kept, loop,
                 historyVars>>
  /\ Elsewhere

-----------------------------------------------------------------------------
(* POST /v1/accounts/select                                                *)

ClearSelection(t) ==
  /\ Continue(t, "clear")
  /\ Goto(t, "synced", "saving")
  /\ active' = NoId /\ current' = NoId
  /\ BeginSave(t)
  /\ Crossing
  /\ UNCHANGED <<accounts, banned, roster, kept, overlap>>
  /\ Elsewhere

Pick(t) ==
  /\ \/ req[t].id \in roster /\ current' = req[t].id /\ Goto(t, "pick", "picked")
     \/ req[t].id \notin roster /\ End(t, "pick") /\ UNCHANGED current
  /\ Crossing
  /\ UNCHANGED <<settingsVars, roster, kept, loop, overlap>>
  /\ Elsewhere /\ NoSave

\* A bug to find: the selection is not carried over to the settings.
StoreSelection_Forgotten(t) ==
  /\ loop = NoTask
  /\ Goto(t, "picked", "saving")
  /\ BeginSave(t)
  /\ UNCHANGED <<settingsVars, roster, current, kept, loop, historyVars>>
  /\ Elsewhere

StoreSelection(t) ==
  /\ loop = NoTask
  /\ Goto(t, "picked", "saving")
  /\ active' = current
  /\ BeginSave(t)
  /\ UNCHANGED <<accounts, banned, roster, current, kept, loop, historyVars>>
  /\ Elsewhere

-----------------------------------------------------------------------------
(* POST /v1/accounts: accounts.add_account, in a thread                    *)

\* Tasks between their change of the pool's list and that of the settings'.
Editing == {t \in Task : at[t] \in {"joined", "left", "kept"}}

Join(t) ==
  /\ \/ /\ req[t].id \notin roster
        /\ Goto(t, "join", "joined")
        /\ roster' = roster \cup {req[t].id}
        /\ banned' = banned \ {req[t].id}
        /\ overlap' = (overlap \/ Editing # {})
     \/ /\ req[t].id \in roster  \* 409
        /\ End(t, "join")
        /\ UNCHANGED <<roster, banned, overlap>>
  /\ Crossing
  /\ UNCHANGED <<accounts, active, current, kept, loop>>
  /\ Elsewhere /\ NoSave

Enlist(t) ==
  /\ Goto(t, "joined", "enlisted")
  /\ accounts' = accounts \cup {req[t].id}
  /\ UNCHANGED <<banned, active, roster, current, kept, loop, historyVars>>
  /\ Elsewhere /\ NoSave

MakeActive(t) ==
  /\ Goto(t, "enlisted", "activated")
  /\ active' = req[t].id
  /\ UNCHANGED <<accounts, banned, roster, current, kept, loop, historyVars>>
  /\ Elsewhere /\ NoSave

MakeCurrent(t) ==
  /\ Goto(t, "activated", "saving")
  /\ current' = IF req[t].id \in roster THEN req[t].id ELSE current
  /\ BeginSave(t)
  /\ UNCHANGED <<settingsVars, roster, kept, loop, historyVars>>
  /\ Elsewhere

-----------------------------------------------------------------------------
(* DELETE /v1/accounts/{id}: AccountPool.remove, then remove_account       *)

Leave(t) ==
  /\ \/ /\ req[t].id \in roster
        /\ Goto(t, "leave", "left")
        /\ roster' = roster \ {req[t].id}
        /\ current' = IF current = req[t].id THEN NoId ELSE current
        /\ overlap' = (overlap \/ Editing # {})
     \/ /\ req[t].id \notin roster  \* 404
        /\ End(t, "leave")
        /\ UNCHANGED <<roster, current, overlap>>
  /\ Crossing
  /\ UNCHANGED <<settingsVars, kept, loop>>
  /\ Elsewhere /\ NoSave

\* A bug to find: the settings keep a removed account that was not CURRENT.
KeepOthers_IfActive(t) ==
  /\ req[t].id \in accounts
  /\ Goto(t, "left", "kept")
  /\ kept' = [kept EXCEPT ![t] = IF active \in {req[t].id, NoId}
                                 THEN accounts \ {req[t].id} ELSE accounts]
  /\ UNCHANGED <<settingsVars, roster, current, loop, historyVars>>
  /\ Elsewhere /\ NoSave

KeepOthers(t) ==
  /\ req[t].id \in accounts
  /\ Goto(t, "left", "kept")
  /\ kept' = [kept EXCEPT ![t] = accounts \ {req[t].id}]
  /\ UNCHANGED <<settingsVars, roster, current, loop, historyVars>>
  /\ Elsewhere /\ NoSave

\* The settings no longer have the account: remove_account changes nothing, and the
\* handler saves all the same.
NothingToDrop(t) ==
  /\ req[t].id \notin accounts
  /\ Goto(t, "left", "saving")
  /\ BeginSave(t)
  /\ UNCHANGED <<settingsVars, roster, current, kept, loop, historyVars>>
  /\ Elsewhere

\* It takes the old one's place.
ReplaceList(t) ==
  /\ Goto(t, "kept", "replaced")
  /\ accounts' = kept[t]
  /\ kept' = [kept EXCEPT ![t] = {}]
  /\ UNCHANGED <<banned, active, roster, current, loop, historyVars>>
  /\ Elsewhere /\ NoSave

Deselect(t) ==
  /\ Goto(t, "replaced", "saving")
  /\ active' = IF active \in accounts THEN active ELSE NoId
  /\ BeginSave(t)
  /\ UNCHANGED <<accounts, banned, roster, current, kept, loop, historyVars>>
  /\ Elsewhere

-----------------------------------------------------------------------------
(* The other endpoints, and the workers                                    *)

\* POST /v1/accounts/unblock, for one account (or all, when it names none).
Unblock(t) ==
  /\ Goto(t, "unblock", "saving")
  /\ banned' = banned \ (IF req[t].id = NoId THEN roster ELSE {req[t].id} \cap roster)
  /\ BeginSave(t)
  /\ UNCHANGED <<accounts, active, roster, current, kept, loop, historyVars>>
  /\ Elsewhere

\* PUT token saves first and clears the ban afterwards (Finish).
SetToken(t) ==
  /\ \/ req[t].id \in roster /\ Goto(t, "token", "saving") /\ BeginSave(t)
     \/ req[t].id \notin roster /\ End(t, "token") /\ NoSave
  /\ UNCHANGED <<settingsVars, roster, current, kept, loop, historyVars>>
  /\ Elsewhere

Work(t, call, id, to) ==
  /\ pooled
  /\ Call(t, call, id, to)
  /\ UNCHANGED <<accounts, active, file, disk, fileNo, pooled, roster, current, kept,
                 loop, crashes, historyVars>>

\* A bug to find: the ban is marked, but not saved.
MarkBan_Unsaved(t, id) ==
  /\ id \in roster \cap accounts
  /\ Work(t, "ban", id, "ended")
  /\ banned' = banned \cup {id}
  /\ NoSave

\* _ban_403_for_item on a worker thread.
MarkBan(t, id) ==
  /\ id \in roster \cap accounts
  /\ Work(t, "ban", id, "saving")
  /\ banned' = banned \cup {id}
  /\ BeginSave(t)

\* _switch_current_after_ban_failover: CURRENT was the account that failed.
SeeFailedCurrent(t, used) ==
  /\ current \notin {NoId, used}
  /\ Work(t, "switch", used, "switching")
  /\ UNCHANGED banned /\ NoSave

SwitchCurrent(t) ==
  /\ \/ req[t].id \in roster /\ current' = req[t].id /\ Goto(t, "switching", "switched")
     \/ req[t].id \notin roster /\ End(t, "switching") /\ UNCHANGED current
  /\ Crossing
  /\ UNCHANGED <<settingsVars, roster, kept, loop, overlap>>
  /\ Elsewhere /\ NoSave

StoreSwitch(t) ==
  /\ Goto(t, "switched", "saving")
  /\ active' = current
  /\ BeginSave(t)
  /\ UNCHANGED <<accounts, banned, roster, current, kept, loop, historyVars>>
  /\ Elsewhere

Crash ==
  /\ crashes < MaxCrashes
  /\ crashes' = crashes + 1
  /\ Reload
  /\ pooled' = FALSE /\ roster' = {} /\ current' = NoId
  /\ at' = [t \in Task |-> IF Idle(t) THEN at[t] ELSE "ended"]
  /\ req' = [t \in Task |-> NoCall]
  /\ kept' = [t \in Task |-> {}]
  /\ loop' = NoTask /\ overlap' = FALSE /\ crossed' = FALSE

-----------------------------------------------------------------------------

Handle(t) ==
  \/ \E call \in Requests : \E id \in Names(call) : Receive(t, call, id)
  \/ Listed(t) \/ Finish(t) \/ ClearSelection(t)
  \/ ToThread(t, "select", "pick") \/ Pick(t) \/ StoreSelection(t)
  \/ ToThread(t, "add", "join") \/ Join(t) \/ Enlist(t) \/ MakeActive(t) \/ MakeCurrent(t)
  \/ ToThread(t, "delete", "leave") \/ Leave(t) \/ KeepOthers(t)
  \/ NothingToDrop(t) \/ ReplaceList(t) \/ Deselect(t)
  \/ ToThread(t, "unblock", "unblock") \/ Unblock(t)
  \/ ToThread(t, "token", "token") \/ SetToken(t)
  \/ \E id \in Id : MarkBan(t, id) \/ SeeFailedCurrent(t, id)
  \/ SwitchCurrent(t) \/ StoreSwitch(t)

OpNext ==
  \/ \E t \in Task : Handle(t) \/ (SaveNext(t) /\ UNCHANGED apiVars)
  \/ Crash

OpSpec(contents) == OpInit(contents) /\ [][OpNext]_opVars

-----------------------------------------------------------------------------

OpQuiet == \A t \in Task : Idle(t)

(* With no call under way the pool and the settings select the same        *)
(* account, or none, unless two changes of CURRENT crossed; the next       *)
(* request then makes them agree again, whatever became of the account     *)
(* they name (accounts.py, sync_current_from_settings).  A name of no      *)
(* account selects nothing: a pool made from one keeps it for a while.     *)
(* And the settings must still hold every account of the pool: if edits    *)
(* that overlapped have lost one, removing another deselects it in the     *)
(* settings alone (remove_account), until the next request.                *)
SelectionAgrees ==
  OpQuiet /\ pooled /\ ~crossed /\ roster \subseteq accounts
    => roster \cap {current} = roster \cap {active}

(* With no call under way the pool and the settings hold the same          *)
(* accounts, unless two edits overlapped: remove_account puts a list it    *)
(* built earlier in the place of one that has changed since.               *)
RosterAgrees == OpQuiet /\ pooled /\ ~overlap => roster = accounts

(* With no call under way, a file that holds the payload of the save begun *)
(* last holds every account, the selection and every ban: the only ways to *)
(* lose a change are an older payload written over a newer one and a save  *)
(* that failed, not the field-by-field reading nor a handler that saved    *)
(* too early.                                                              *)
NothingElseLost ==
  OpQuiet /\ fileNo = begun /\ file # Torn =>
    /\ file.accounts = accounts
    /\ file.active = active
    /\ banned \cap accounts \subseteq file.banned
=============================================================================
