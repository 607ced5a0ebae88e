--------------------------- MODULE OperatorProofs ---------------------------
(***************************************************************************)
(* Theorems about OperatorApi and ConfigStore, for any accounts, any       *)
(* number of tasks, any calls they make and any number of restarts.        *)
(***************************************************************************)
EXTENDS OperatorApi, TLAPS

-----------------------------------------------------------------------------
(* The inductive invariants                                                *)

\* A save is under way only at the end of a call, or in the synchronisation a
\* request begins with; before the first request there is no call; whoever adds an
\* account names one.
PhaseInv ==
  /\ \A t \in Task : at[t] = "saving" => save[t] # "no"
  /\ \A t \in Task : save[t] # "no" => at[t] \in {"saving", "synced"}
  /\ ~pooled => \A t \in Task : Idle(t)
  /\ \A t \in Task : at[t] \in {"join", "joined"} => req[t].call = "add"
  /\ \A t \in Task : req[t].call = "add" => req[t].id \in Id

\* Only a refused rename opens the file for writing.
WholeInv ==
  disk = "good" => file # Torn /\ \A t \in Task : save[t] \notin {"overwrite", "fill"}

\* One edit at a time: the lists differ by the account it names, until it reaches
\* the settings' list.
RosterInv ==
  pooled /\ ~overlap =>
    /\ \A t, u \in Editing : t = u
    /\ Editing = {} => roster = accounts
    /\ \A t \in Editing :
         /\ at[t] = "joined" => roster = accounts \cup {req[t].id}
         /\ at[t] = "left" => roster = accounts \ {req[t].id}
         /\ at[t] = "kept" => roster = kept[t]

\* One change of the selection at a time; while it adds an account, that account
\* stays in the pool.  At other times the two selections agree, or the settings have
\* dropped one of an account they no longer hold.
Agree == roster \cap {current} = roster \cap {active}
Dropped == active = NoId /\ current \in roster \ accounts
Removing == {t \in Task : at[t] \in {"left", "kept", "replaced"}}
SelectionInv ==
  pooled /\ ~crossed =>
    /\ \A t, u \in Changing : t = u
    /\ \A t \in Changing :
         /\ at[t] \in {"joined", "enlisted", "activated"} => req[t].id \in roster
         /\ at[t] = "activated" => active = req[t].id
         /\ at[t] = "kept" => kept[t] \subseteq accounts
    /\ Changing \subseteq Removing => Agree \/ Dropped

\* Tasks that will still begin a save after the change they made.
Owing == Changing \cup {t \in Task : save[t] = "begin"}

\* The payload of the save begun last is up to date, field by field as it is built,
\* unless somebody is about to begin another; the file may hold it.
Lists(content) ==
  content.accounts = accounts /\ banned \cap accounts \subseteq content.banned
LostInv ==
  /\ fileNo <= begun /\ \A t \in Task : snap[t].no <= begun
  /\ Owing = {} =>
       /\ \A t \in Task : save[t] \notin {"no", "begin", "saved", "raised"} /\ snap[t].no = begun
            => Lists(snap[t].content) /\ (save[t] # "active" => snap[t].content.active = active)
       /\ fileNo = begun /\ file # Torn => Lists(file) /\ file.active = active

-----------------------------------------------------------------------------
(* What a step of a handler or worker may do                               *)

\* The types but those of the file and of the saving.
ApiTypes ==
  /\ accounts \subseteq Id /\ banned \subseteq Id /\ active \in Id \cup {NoId}
  /\ roster \subseteq Id /\ current \in Id \cup {NoId}
  /\ {pooled, overlap, crossed} \subseteq BOOLEAN
  /\ at \in [Task -> Places]
  /\ req \in [Task -> [call : Calls \cup {"none"}, id : Id \cup {NoId}]]
  /\ kept \in [Task -> SUBSET Id]
  /\ loop \in Task \cup {NoTask}

\* A step of a call that moves the task on, and may begin or end its save.
SaveMoves(t) ==
  \/ NoSave /\ save[t] = "no" /\ at'[t] # "saving"
  \/ BeginSave(t) /\ save[t] \in {"no", "saved", "raised"} /\ at'[t] \in {"saving", "synced"}
  \/ EndSave(t) /\ save[t] \in {"no", "saved", "raised"} /\ at'[t] # "saving"
Moves(t) ==
  /\ \A u \in Task \ {t} : at'[u] = at[u] /\ req'[u] = req[u] /\ kept'[u] = kept[u]
  /\ at'[t] # "idle"
  /\ UNCHANGED <<file, disk, fileNo, crashes>>
  /\ pooled' = TRUE
  /\ at'[t] \in {"join", "joined"} => req'[t].call = "add"
  /\ req'[t].call = "add" => req'[t].id \in Id
  /\ SaveMoves(t)

Shape(t) == ApiTypes' /\ Moves(t)

\* What holds at a place.
LEMMA AtPlace ==
  ASSUME OpTypeOK, PhaseInv, NEW t \in Task
  PROVE  /\ ApiTypes
         /\ at[t] \notin {"saving", "synced"} => save[t] = "no"
         /\ at[t] \notin {"idle", "ended"} => pooled
         /\ at[t] \in {"join", "joined"} => req[t].call = "add"
         /\ req[t].call = "add" => req[t].id \in Id
BY DEF ApiTypes, OpTypeOK, StoreTypeOK, PhaseInv, Idle

\* A step that goes on, or ends the call, keeps the types of at and req.
LEMMA ApiStep ==
  ASSUME ApiTypes, NEW t \in Task, NEW from, NEW to \in Places, Goto(t, from, to) \/ End(t, from)
  PROVE  /\ at' \in [Task -> Places]
         /\ req' \in [Task -> [call : Calls \cup {"none"}, id : Id \cup {NoId}]]
<1>1. CASE Goto(t, from, to)
  BY <1>1 DEF Goto, ApiTypes
<1>2. CASE End(t, from)
  BY <1>2 DEF End, ApiTypes, NoCall, Places
<1> QED
  BY <1>1, <1>2

LEMMA RequestShape ==
  ASSUME OpTypeOK, PhaseInv, NEW t \in Task,
         \/ \E call \in Requests : \E id \in Names(call) : Receive(t, call, id)
         \/ Listed(t) \/ Finish(t)
         \/ ToThread(t, "add", "join")
         \/ \E call \in Calls, to \in {"pick", "leave", "unblock", "token"} : ToThread(t, call, to)
  PROVE  Shape(t)
<1> USE AtPlace DEF Shape
<1>1. ASSUME NEW call \in Requests, NEW id \in Names(call), Receive(t, call, id) PROVE Shape(t)
  <2>1. id \in Id \cup {NoId} /\ call \in Calls
    BY DEF Names, Requests
  <2>2. ApiTypes'
    BY <1>1, <2>1 DEF ApiTypes, Receive, Call, Places, Synced
  <2>3. Moves(t)
    BY <1>1, <2>1 DEF ApiTypes, Receive, Call, Moves, SaveMoves, Names
  <2> QED
    BY <2>2, <2>3
<1>2. CASE Listed(t)
  <2>1. ApiTypes'
    BY <1>2 DEF Listed, Continue, End, Elsewhere, ApiTypes, Places, NoCall, settingsVars, historyVars
  <2>2. Moves(t)
    BY <1>2 DEF Listed, Continue, End, Elsewhere, Moves, SaveMoves, ApiTypes, SaveDone, NoCall
  <2> QED
    BY <2>1, <2>2
<1>3. CASE Finish(t)
  <2>1. ApiTypes'
    BY <1>3 DEF Finish, End, Elsewhere, ApiTypes, Places, NoCall, historyVars
  <2>2. Moves(t)
    BY <1>3 DEF Finish, End, Elsewhere, Moves, SaveMoves, ApiTypes, SaveDone, NoCall
  <2> QED
    BY <2>1, <2>2
<1>4. ASSUME NEW call, NEW to \in {"pick", "join", "leave", "unblock", "token"},
             to = "join" => call = "add", ToThread(t, call, to)
      PROVE  Shape(t)
  <2>1. ApiTypes'
    BY <1>4 DEF ToThread, Continue, Goto, Elsewhere, ApiTypes, Places, settingsVars, historyVars
  <2>2. Moves(t)
    BY <1>4 DEF ToThread, Continue, Goto, Elsewhere, Moves, SaveMoves, ApiTypes, SaveDone
  <2> QED
    BY <2>1, <2>2
<1> QED
  BY <1>1, <1>2, <1>3, <1>4

LEMMA SelectionShape ==
  ASSUME OpTypeOK, PhaseInv, NEW t \in Task,
         \/ ClearSelection(t) \/ Pick(t) \/ StoreSelection(t)
         \/ \E id \in Id : SeeFailedCurrent(t, id)
         \/ SwitchCurrent(t) \/ StoreSwitch(t)
  PROVE  Shape(t)
<1> USE AtPlace DEF Shape
<1>1. CASE ClearSelection(t)
  <2>1. ApiTypes'
    BY <1>1 DEF ClearSelection, Continue, Goto, Elsewhere, Crossing, ApiTypes, Places
  <2>2. Moves(t)
    BY <1>1 DEF ClearSelection, Continue, Goto, Elsewhere, Moves, SaveMoves, ApiTypes, SaveDone
  <2> QED
    BY <2>1, <2>2
<1>2. CASE Pick(t) \/ SwitchCurrent(t)
  <2>1. /\ at' \in [Task -> Places]
        /\ req' \in [Task -> [call : Calls \cup {"none"}, id : Id \cup {NoId}]]
    BY <1>2, ApiStep DEF Pick, SwitchCurrent, Places
  <2>2. ApiTypes'
    BY <1>2, <2>1 DEF Pick, SwitchCurrent, Elsewhere, ApiTypes, settingsVars, Crossing
  <2>3. Moves(t)
    BY <1>2 DEF Pick, SwitchCurrent, Goto, End, Elsewhere, Moves, SaveMoves, ApiTypes, NoCall
  <2> QED
    BY <2>2, <2>3
<1>3. CASE StoreSelection(t) \/ StoreSwitch(t)
  <2>1. ApiTypes'
    BY <1>3 DEF StoreSelection, StoreSwitch, Goto, Elsewhere, ApiTypes, Places, historyVars
  <2>2. Moves(t)
    BY <1>3 DEF StoreSelection, StoreSwitch, Goto, Elsewhere, Moves, SaveMoves, ApiTypes
  <2> QED
    BY <2>1, <2>2
<1>4. ASSUME NEW id \in Id, SeeFailedCurrent(t, id) PROVE Shape(t)
  <2>1. ApiTypes'
    BY <1>4 DEF SeeFailedCurrent, Work, Call, ApiTypes, Calls, Places, historyVars
  <2>2. Moves(t)
    BY <1>4 DEF SeeFailedCurrent, Work, Call, Moves, SaveMoves, ApiTypes
  <2> QED
    BY <2>1, <2>2
<1> QED
  BY <1>1, <1>2, <1>3, <1>4

LEMMA ListShape ==
  ASSUME OpTypeOK, PhaseInv, NEW t \in Task,
         \/ Join(t) \/ Enlist(t) \/ MakeActive(t) \/ MakeCurrent(t)
         \/ Leave(t) \/ KeepOthers(t) \/ NothingToDrop(t) \/ ReplaceList(t) \/ Deselect(t)
  PROVE  Shape(t)
<1> USE AtPlace DEF Shape
<1>1. CASE Join(t)
  <2>1. at[t] = "join" /\ req[t].id \in Id
    BY <1>1 DEF Join, Goto, End
  <2>2. /\ at' \in [Task -> Places]
        /\ req' \in [Task -> [call : Calls \cup {"none"}, id : Id \cup {NoId}]]
    BY <1>1, ApiStep DEF Join, Places
  <2>3. ApiTypes'
    BY <1>1, <2>1, <2>2 DEF Join, Elsewhere, ApiTypes, Crossing
  <2>4. Moves(t)
    BY <1>1 DEF Join, Goto, End, Elsewhere, Moves, SaveMoves, ApiTypes, NoCall
  <2> QED
    BY <2>3, <2>4
<1>2. CASE Leave(t)
  <2>1. /\ at' \in [Task -> Places]
        /\ req' \in [Task -> [call : Calls \cup {"none"}, id : Id \cup {NoId}]]
    BY <1>2, ApiStep DEF Leave, Places
  <2>2. ApiTypes'
    BY <1>2, <2>1 DEF Leave, Elsewhere, ApiTypes, Crossing, settingsVars
  <2>3. Moves(t)
    BY <1>2 DEF Leave, Goto, End, Elsewhere, Moves, SaveMoves, ApiTypes, NoCall
  <2> QED
    BY <2>2, <2>3
<1>3. CASE Enlist(t) \/ MakeActive(t)
  <2>1. ApiTypes'
    BY <1>3 DEF Enlist, MakeActive, Goto, Elsewhere, ApiTypes, Places, historyVars
  <2>2. Moves(t)
    BY <1>3 DEF Enlist, MakeActive, Goto, Elsewhere, Moves, SaveMoves, ApiTypes
  <2> QED
    BY <2>1, <2>2
<1>4. CASE MakeCurrent(t) \/ NothingToDrop(t) \/ Deselect(t)
  <2>1. ApiTypes'
    BY <1>4 DEF MakeCurrent, NothingToDrop, Deselect, Goto, Elsewhere, ApiTypes, Places,
       historyVars, settingsVars
  <2>2. Moves(t)
    BY <1>4 DEF MakeCurrent, NothingToDrop, Deselect, Goto, Elsewhere, Moves, SaveMoves, ApiTypes
  <2> QED
    BY <2>1, <2>2
<1>5. CASE KeepOthers(t) \/ ReplaceList(t)
  <2>1. ApiTypes'
    BY <1>5 DEF KeepOthers, ReplaceList, Goto, Elsewhere, ApiTypes, Places, historyVars, settingsVars
  <2>2. Moves(t)
    BY <1>5 DEF KeepOthers, ReplaceList, Goto, Elsewhere, Moves, SaveMoves, ApiTypes
  <2> QED
    BY <2>1, <2>2
<1> QED
  BY <1>1, <1>2, <1>3, <1>4, <1>5

LEMMA OtherShape ==
  ASSUME OpTypeOK, PhaseInv, NEW t \in Task,
         Unblock(t) \/ SetToken(t) \/ \E id \in Id : MarkBan(t, id)
  PROVE  Shape(t)
<1> USE AtPlace DEF Shape
<1>1. CASE Unblock(t) \/ SetToken(t)
  <2>1. ApiTypes'
    BY <1>1 DEF Unblock, SetToken, Goto, End, Elsewhere, ApiTypes, Places, NoCall, historyVars,
       settingsVars
  <2>2. Moves(t)
    BY <1>1 DEF Unblock, SetToken, Goto, End, Elsewhere, Moves, SaveMoves, ApiTypes, NoCall
  <2> QED
    BY <2>1, <2>2
<1>2. ASSUME NEW id \in Id, MarkBan(t, id) PROVE Shape(t)
  <2>1. ApiTypes'
    BY <1>2 DEF MarkBan, Work, Call, ApiTypes, Calls, Places, historyVars
  <2>2. Moves(t)
    BY <1>2 DEF MarkBan, Work, Call, Moves, SaveMoves, ApiTypes
  <2> QED
    BY <2>1, <2>2
<1> QED
  BY <1>1, <1>2

LEMMA HandleShape ==
  ASSUME OpTypeOK, PhaseInv, NEW t \in Task, Handle(t)
  PROVE  Shape(t)
BY RequestShape, SelectionShape, ListShape, OtherShape DEF Handle, Calls

-----------------------------------------------------------------------------
(* Types, and the saving                                                   *)

\* The types of the saving: the lock is held for the writing, and no longer.
SavingTypes ==
  /\ file \in Payload \cup {Torn} /\ disk \in {"good", "poor"}
  /\ writer \in Task \cup {NoTask}
  /\ save \in [Task -> {"no", "begin", "active", "lock", "rename", "overwrite",
                        "fill", "saved", "raised"}]
  /\ snap \in [Task -> [content : Payload, no : Nat]]
  /\ {begun, fileNo} \subseteq Nat
  /\ \A t \in Task : writer = t <=> save[t] \in {"rename", "overwrite", "fill"}

LEMMA TypesSplit ==
  OpTypeOK <=> ApiTypes /\ SavingTypes /\ crashes \in 0..MaxCrashes
BY DEF OpTypeOK, StoreTypeOK, ApiTypes, SavingTypes

LEMMA NoPayloadType == NoPayload \in [content : Payload, no : Nat]
BY DEF NoPayload, EmptyFile, Payload

OpInv == OpTypeOK /\ PhaseInv /\ WholeInv

LEMMA OpInitInv ==
  ASSUME NEW contents, contents \subseteq Payload, OpInit(contents)
  PROVE  OpInv
<1>1. file \in Payload
  BY DEF OpInit, StoreInit
<1>2. accounts \subseteq Id /\ banned \subseteq Id /\ active \in Id \cup {NoId}
  BY <1>1 DEF OpInit, StoreInit, Payload
<1>3. SavingTypes
  BY <1>1, NoPayloadType, OpAssumption DEF OpInit, StoreInit, SavingTypes
<1>4. ApiTypes
  BY <1>2 DEF OpInit, ApiTypes, Places, NoCall
<1>5. crashes \in 0..MaxCrashes
  BY OpAssumption DEF OpInit
<1>6. PhaseInv /\ WholeInv
  BY <1>1, OpAssumption DEF OpInit, StoreInit, PhaseInv, WholeInv, Idle, NoCall
<1> QED
  BY <1>3, <1>4, <1>5, <1>6, TypesSplit DEF OpInv

\* What the endpoints and workers do to the saving.
LEMMA HandleOpInv == ASSUME OpInv, NEW t \in Task, Handle(t) PROVE OpInv'
<1>1. ApiTypes' /\ Moves(t) /\ ApiTypes /\ SavingTypes
  BY HandleShape, TypesSplit DEF OpInv, Shape
<1>2. /\ \A u \in Task \ {t} : save'[u] = save[u]
      /\ save'[t] \in {"no", "begin"}
      /\ save[t] \in {"no", "saved", "raised"}
      /\ at'[t] = "saving" => save'[t] # "no"
      /\ save'[t] # "no" => at'[t] \in {"saving", "synced"}
      /\ UNCHANGED <<writer, begun, file, disk, fileNo, crashes>>
      /\ save' \in [Task -> {"no", "begin", "active", "lock", "rename", "overwrite",
                             "fill", "saved", "raised"}]
      /\ snap' \in [Task -> [content : Payload, no : Nat]]
  BY <1>1, NoPayloadType DEF SavingTypes, Moves, SaveMoves, NoSave, BeginSave, EndSave, savingVars
<1>3. SavingTypes'
  BY <1>1, <1>2 DEF SavingTypes
<1>4. OpTypeOK'
  <2>1. crashes' \in 0..MaxCrashes
    BY <1>2 DEF OpInv, OpTypeOK
  <2> QED
    BY <1>1, <1>3, <2>1, TypesSplit DEF OpTypeOK, StoreTypeOK, ApiTypes, SavingTypes
<1>5. WholeInv'
  BY <1>2 DEF OpInv, WholeInv
<1>6. /\ \A u \in Task : at'[u] = "saving" => save'[u] # "no"
      /\ \A u \in Task : save'[u] # "no" => at'[u] \in {"saving", "synced"}
      /\ pooled'
  BY <1>1, <1>2 DEF Moves, OpInv, PhaseInv
<1>7. /\ \A u \in Task : at'[u] \in {"join", "joined"} => req'[u].call = "add"
      /\ \A u \in Task : req'[u].call = "add" => req'[u].id \in Id
  BY <1>1 DEF Moves, OpInv, PhaseInv
<1> QED
  BY <1>4, <1>5, <1>6, <1>7 DEF OpInv, PhaseInv

\* What a step of save() does to it.
LEMMA SaveOpInv ==
  ASSUME OpInv, NEW t \in Task, SaveNext(t), UNCHANGED apiVars
  PROVE  OpInv'
<1> USE DEF SaveStep, settingsVars
<1>0. /\ SavingTypes /\ ApiTypes /\ UNCHANGED settingsVars /\ disk' = disk
      /\ UNCHANGED <<pooled, roster, current, at, req, kept, loop, crashes, overlap, crossed>>
  BY TypesSplit DEF OpInv, SaveNext, ReadAccounts, ReadActive, WriteTemp, Rename, Truncate, Fill,
     apiVars, historyVars
<1>1. /\ \A u \in Task \ {t} : save'[u] = save[u]
      /\ save[t] \notin {"no", "saved", "raised"} /\ save'[t] # "no"
  BY <1>0 DEF SavingTypes, SaveNext, ReadAccounts, ReadActive, WriteTemp, Rename, Truncate, Fill
<1>2. PhaseInv'
  BY <1>0, <1>1 DEF OpInv, PhaseInv, Idle
<1>3. SavingTypes' /\ WholeInv'
  <2>1. CASE ReadAccounts(t)
    <3>1. snap' \in [Task -> [content : Payload, no : Nat]] /\ begun' \in Nat
      <4>1. [EmptyFile EXCEPT !.accounts = accounts, !.banned = banned \cap accounts] \in Payload
        BY <1>0 DEF ApiTypes, Payload, EmptyFile
      <4> QED
        BY <1>0, <2>1, <4>1 DEF ReadAccounts, SavingTypes
    <3> QED
      BY <1>0, <2>1, <3>1 DEF ReadAccounts, SavingTypes, OpInv, WholeInv
  <2>2. CASE ReadActive(t)
    <3>1. snap[t] \in [content : Payload, no : Nat]
      BY <1>0 DEF SavingTypes
    <3>2. snap' \in [Task -> [content : Payload, no : Nat]]
      BY <1>0, <2>2, <3>1 DEF ReadActive, SavingTypes, ApiTypes, Payload
    <3> QED
      BY <1>0, <2>2, <3>2 DEF ReadActive, SavingTypes, OpInv, WholeInv
  <2>3. CASE WriteTemp(t)
    BY <1>0, <2>3, OpAssumption DEF WriteTemp, SavingTypes, OpInv, WholeInv
  <2>4. CASE Rename(t)
    BY <1>0, <2>4, OpAssumption DEF Rename, Publish, SavingTypes, OpInv, WholeInv
  <2>5. CASE Truncate(t)
    BY <1>0, <2>5, OpAssumption DEF Truncate, SavingTypes, OpInv, WholeInv
  <2>6. CASE Fill(t)
    BY <1>0, <2>6, OpAssumption DEF Fill, Publish, SavingTypes, OpInv, WholeInv
  <2> QED
    BY <2>1, <2>2, <2>3, <2>4, <2>5, <2>6 DEF SaveNext
<1>4. OpTypeOK'
  BY <1>0, <1>3 DEF OpInv, OpTypeOK, StoreTypeOK, SavingTypes
<1> QED
  BY <1>2, <1>3, <1>4 DEF OpInv

LEMMA CrashOpInv == ASSUME OpInv, Crash PROVE OpInv'
<1>1. /\ save' = [t \in Task |-> "no"] /\ snap' = [t \in Task |-> NoPayload]
      /\ writer' = NoTask /\ fileNo' = 0 /\ begun' \in {0, 1} /\ UNCHANGED <<file, disk>>
      /\ \A t \in Task : at'[t] \in {"idle", "ended"} /\ req'[t] = NoCall
      /\ ~pooled' /\ crashes' \in 0..MaxCrashes
  BY OpAssumption DEF Crash, Reload, OpInv, OpTypeOK, Idle
<1>2. SavingTypes'
  BY <1>1, NoPayloadType, OpAssumption DEF OpInv, OpTypeOK, StoreTypeOK, SavingTypes
<1>3. Loaded \in Payload
  BY DEF Loaded, EmptyFile, Payload, OpInv, OpTypeOK, StoreTypeOK
<1>4. ApiTypes'
  BY <1>1, <1>3 DEF Crash, Reload, ApiTypes, OpInv, OpTypeOK, Places, Payload, NoCall, Idle
<1>5. PhaseInv' /\ WholeInv'
  BY <1>1 DEF PhaseInv, OpInv, WholeInv, NoCall, Idle
<1> QED
  BY <1>1, <1>2, <1>4, <1>5 DEF OpInv, OpTypeOK, StoreTypeOK, SavingTypes, ApiTypes

LEMMA OpNextInv == ASSUME OpInv, [OpNext]_opVars PROVE OpInv'
<1>1. CASE UNCHANGED opVars
  BY <1>1 DEF opVars, storeVars, settingsVars, savingVars, apiVars, historyVars, OpInv, OpTypeOK,
     StoreTypeOK, PhaseInv, WholeInv, Idle
<1> QED
  BY <1>1, HandleOpInv, SaveOpInv, CrashOpInv DEF OpNext

LEMMA OpInvHolds ==
  ASSUME NEW CONSTANT contents, contents \subseteq Payload
  PROVE  OpSpec(contents) => []OpInv
<1>1. OpInit(contents) => OpInv
  BY OpInitInv
<1> QED
  BY <1>1, OpNextInv, PTL DEF OpSpec

-----------------------------------------------------------------------------
(* The two lists of accounts                                               *)

\* The steps that change neither the lists nor the selection.
Plain(t) ==
  \/ Listed(t) \/ Finish(t) \/ Unblock(t) \/ SetToken(t)
  \/ \E id \in Id : MarkBan(t, id) \/ SeeFailedCurrent(t, id)
  \/ \E call \in Calls : \E to \in {"pick", "join", "leave", "unblock", "token"} :
       ToThread(t, call, to)
Listing(t) ==
  \/ Join(t) \/ Enlist(t) \/ Leave(t) \/ KeepOthers(t) \/ NothingToDrop(t)
  \/ ReplaceList(t)
Selecting(t) ==
  \/ ClearSelection(t) \/ Pick(t) \/ StoreSelection(t) \/ SwitchCurrent(t)
  \/ StoreSwitch(t) \/ MakeActive(t) \/ MakeCurrent(t) \/ Deselect(t)

LEMMA HandleSplit ==
  ASSUME NEW t, Handle(t)
  PROVE  \/ \E call \in Requests : \E id \in Names(call) : Receive(t, call, id)
         \/ Plain(t) \/ Listing(t) \/ Selecting(t)
<1>1. CASE \/ ToThread(t, "select", "pick") \/ ToThread(t, "add", "join")
           \/ ToThread(t, "delete", "leave") \/ ToThread(t, "unblock", "unblock")
           \/ ToThread(t, "token", "token")
  <2>1. {"select", "add", "delete", "unblock", "token"} \subseteq Calls
    BY DEF Calls
  <2> QED
    BY <1>1, <2>1 DEF Plain
<1> QED
  BY <1>1, Zenon DEF Handle, Plain, Listing, Selecting

LEMMA PlainStep ==
  ASSUME OpInv, NEW t \in Task, Plain(t)
  PROVE  /\ UNCHANGED <<accounts, active, roster, current, kept, pooled, overlap, crossed>>
         /\ t \notin Changing /\ t \notin Changing'
<1>1. at \in [Task -> Places]
  BY DEF OpInv, OpTypeOK
<1>2. /\ UNCHANGED <<accounts, active, roster, current, kept, pooled, overlap, crossed>>
      /\ at[t] \in {"synced", "saving", "unblock", "token", "idle"}
      /\ at'[t] \in {"ended", "saving", "switching", "pick", "join", "leave", "unblock", "token"}
  BY <1>1 DEF Listed, Finish, Unblock, SetToken, MarkBan, SeeFailedCurrent, ToThread, Continue, Work,
     Call, Goto, End, Elsewhere, settingsVars, historyVars, Plain
<1> QED
  BY <1>2 DEF Changing

LEMMA RosterStutter ==
  ASSUME RosterInv, NEW t \in Task, Moves(t), t \notin Editing, t \notin Editing',
         UNCHANGED <<accounts, roster, pooled, overlap, kept>>
  PROVE  RosterInv'
<1>1. /\ Editing' = Editing
      /\ \A u \in Editing : at'[u] = at[u] /\ req'[u] = req[u] /\ kept'[u] = kept[u]
  BY DEF Moves, Editing
<1> QED
  BY <1>1 DEF RosterInv

LEMMA RosterHandle == ASSUME OpInv, RosterInv, NEW t \in Task, Handle(t) PROVE RosterInv'
<1>0. Moves(t) /\ at \in [Task -> Places] /\ kept \in [Task -> SUBSET Id]
  BY HandleShape DEF OpInv, OpTypeOK, Shape
<1>1. ASSUME NEW call \in Requests, NEW id \in Names(call), Receive(t, call, id) PROVE RosterInv'
  <2>1. t \notin Editing /\ t \notin Editing'
    BY <1>0, <1>1 DEF Receive, Call, Editing
  <2>2. CASE pooled
    BY <1>0, <1>1, <2>1, <2>2, RosterStutter DEF Receive
  <2>3. CASE ~pooled
    <3>1. Editing' = {} /\ roster' = accounts'
      BY <1>0, <1>1, <2>1, <2>3 DEF Receive, OpInv, PhaseInv, Idle, Editing, Moves
    <3> QED
      BY <3>1 DEF RosterInv
  <2> QED
    BY <2>2, <2>3
<1>2. CASE Join(t)
  <2>1. CASE at'[t] = "joined"
    <3>1. /\ roster' = roster \cup {req[t].id} /\ req' = req /\ UNCHANGED <<accounts, pooled>>
          /\ overlap' = (overlap \/ Editing # {}) /\ at[t] = "join"
      BY <1>0, <1>2, <2>1 DEF Join, Goto, End, Elsewhere
    <3>2. CASE overlap'
      BY <3>2 DEF RosterInv
    <3>3. CASE ~overlap'
      <4>1. Editing = {} /\ ~overlap
        BY <3>1, <3>3
      <4>2. Editing' = {t}
        BY <1>0, <2>1, <4>1 DEF Editing, Moves
      <4> QED
        BY <2>1, <3>1, <4>1, <4>2 DEF RosterInv
    <3> QED
      BY <3>2, <3>3
  <2>2. CASE at'[t] = "ended" /\ UNCHANGED <<roster, overlap>>
    BY <1>0, <1>2, <2>2, RosterStutter DEF Join, Goto, End, Elsewhere, Editing
  <2> QED
    BY <1>0, <1>2, <2>1, <2>2 DEF Join, Goto, End
<1>3. CASE Leave(t)
  <2>1. CASE at'[t] = "left"
    <3>1. /\ roster' = roster \ {req[t].id} /\ req' = req /\ UNCHANGED <<accounts, pooled>>
          /\ overlap' = (overlap \/ Editing # {}) /\ at[t] = "leave"
      BY <1>0, <1>3, <2>1 DEF Leave, Goto, End, Elsewhere, settingsVars
    <3>2. CASE overlap'
      BY <3>2 DEF RosterInv
    <3>3. CASE ~overlap'
      <4>1. Editing = {} /\ ~overlap
        BY <3>1, <3>3
      <4>2. Editing' = {t}
        BY <1>0, <2>1, <4>1 DEF Editing, Moves
      <4> QED
        BY <2>1, <3>1, <4>1, <4>2 DEF RosterInv
    <3> QED
      BY <3>2, <3>3
  <2>2. CASE at'[t] = "ended" /\ UNCHANGED <<roster, overlap>>
    BY <1>0, <1>3, <2>2, RosterStutter DEF Leave, Goto, End, Elsewhere, Editing, settingsVars
  <2> QED
    BY <1>0, <1>3, <2>1, <2>2 DEF Leave, Goto, End
<1>4. CASE Enlist(t)
  <2>1. /\ at[t] = "joined" /\ at'[t] = "enlisted" /\ accounts' = accounts \cup {req[t].id}
        /\ UNCHANGED <<roster, overlap, pooled>>
    BY <1>0, <1>4 DEF Enlist, Goto, Elsewhere, historyVars
  <2>2. Editing' = Editing \ {t} /\ t \in Editing
    BY <1>0, <2>1 DEF Editing, Moves
  <2> QED
    BY <2>1, <2>2 DEF RosterInv
<1>5. CASE KeepOthers(t)
  <2>1. /\ at[t] = "left" /\ at'[t] = "kept" /\ kept'[t] = accounts \ {req[t].id}
        /\ UNCHANGED <<accounts, roster, overlap, pooled>>
    BY <1>0, <1>5 DEF KeepOthers, Goto, Elsewhere, historyVars, settingsVars
  <2>2. Editing' = Editing /\ t \in Editing
    BY <1>0, <2>1 DEF Editing, Moves
  <2>3. pooled /\ ~overlap => Editing = {t} /\ roster = accounts \ {req[t].id}
    BY <2>1, <2>2 DEF RosterInv
  <2> QED
    BY <2>1, <2>2, <2>3 DEF RosterInv
<1>6. CASE ReplaceList(t)
  <2>1. /\ at[t] = "kept" /\ at'[t] = "replaced" /\ accounts' = kept[t]
        /\ UNCHANGED <<roster, overlap, pooled>>
    BY <1>0, <1>6 DEF ReplaceList, Goto, Elsewhere, historyVars
  <2>2. Editing' = Editing \ {t} /\ t \in Editing
    BY <1>0, <2>1 DEF Editing, Moves
  <2> QED
    BY <2>1, <2>2 DEF RosterInv
<1>7. CASE NothingToDrop(t)
  <2>1. /\ at[t] = "left" /\ at'[t] = "saving" /\ accounts \ {req[t].id} = accounts
        /\ UNCHANGED <<accounts, roster, overlap, pooled>>
    BY <1>0, <1>7 DEF NothingToDrop, Goto, Elsewhere, historyVars, settingsVars
  <2>2. Editing' = Editing \ {t} /\ t \in Editing
    BY <1>0, <2>1 DEF Editing, Moves
  <2> QED
    BY <2>1, <2>2 DEF RosterInv
<1>8. CASE Selecting(t)
  <2>1. /\ UNCHANGED <<accounts, roster, pooled, overlap, kept>>
        /\ at[t] \notin {"joined", "left", "kept"} /\ at'[t] \notin {"joined", "left", "kept"}
    BY <1>0, <1>8 DEF ClearSelection, Pick, StoreSelection, SwitchCurrent, StoreSwitch, MakeActive,
       MakeCurrent, Deselect, Continue, Goto, End, Elsewhere, historyVars, settingsVars, Selecting
  <2> QED
    BY <1>0, <2>1, RosterStutter DEF Editing
<1>9. CASE Plain(t)
  <2>1. /\ UNCHANGED <<accounts, roster, kept, pooled, overlap>>
        /\ t \notin Changing /\ t \notin Changing'
    BY <1>9, PlainStep
  <2> QED
    BY <1>0, <2>1, RosterStutter DEF Editing, Changing
<1> QED
  BY <1>1, <1>2, <1>3, <1>4, <1>5, <1>6, <1>7, <1>8, <1>9, HandleSplit DEF Listing

LEMMA SaveNextFrame ==
  ASSUME NEW t \in Task, SaveNext(t), UNCHANGED apiVars
  PROVE  UNCHANGED <<settingsVars, disk, pooled, roster, current, at, req, kept, overlap, crossed>>
BY DEF SaveNext, ReadAccounts, ReadActive, WriteTemp, Rename, Truncate, Fill, apiVars, historyVars

LEMMA RosterNext == ASSUME OpInv, RosterInv, [OpNext]_opVars PROVE RosterInv'
<1>1. CASE UNCHANGED <<accounts, pooled, roster, at, req, kept, overlap>>
  BY <1>1 DEF RosterInv, Editing
<1>2. CASE Crash
  BY <1>2 DEF Crash, RosterInv
<1> QED
  BY <1>1, <1>2, RosterHandle, SaveNextFrame DEF OpNext, opVars, storeVars, settingsVars, apiVars,
     historyVars

-----------------------------------------------------------------------------
(* The two copies of the selection                                         *)

LEMMA OthersStay ==
  ASSUME NEW t \in Task, Moves(t)
  PROVE  /\ \A u \in Task \ {t} : /\ u \in Changing' <=> u \in Changing
                                  /\ u \in Removing' <=> u \in Removing
                                  /\ at'[u] = at[u] /\ req'[u] = req[u] /\ kept'[u] = kept[u]
         /\ Changing \subseteq Task /\ Changing' \subseteq Task
         /\ Removing \subseteq Task /\ Removing' \subseteq Task
BY DEF Moves, Changing, Removing

\* A step that ends a change, or is no part of one: nobody else is changing anything.
LEMMA SelectionAlone ==
  ASSUME SelectionInv, NEW t \in Task, Moves(t), t \notin Changing',
         pooled' /\ ~crossed' => Changing \subseteq {t} /\ (Agree' \/ Dropped')
  PROVE  SelectionInv'
<1>1. ASSUME pooled', ~crossed' PROVE Changing' = {}
  BY <1>1, OthersStay
<1> QED
  BY <1>1 DEF SelectionInv

\* A step that begins a change or goes on with one.
LEMMA SelectionUnderWay ==
  ASSUME SelectionInv, NEW t \in Task, Moves(t), t \in Changing',
         pooled' /\ ~crossed' =>
           /\ Changing \subseteq {t}
           /\ at'[t] \in {"joined", "enlisted", "activated"} => req'[t].id \in roster'
           /\ at'[t] = "activated" => active' = req'[t].id
           /\ at'[t] = "kept" => kept'[t] \subseteq accounts'
           /\ t \in Removing' => Agree' \/ Dropped'
  PROVE  SelectionInv'
<1>1. ASSUME pooled', ~crossed' PROVE Changing' = {t}
  BY <1>1, OthersStay
<1> QED
  BY <1>1 DEF SelectionInv

\* A step that touches neither.
LEMMA SelectionStutter ==
  ASSUME SelectionInv, NEW t \in Task, Moves(t), t \notin Changing, t \notin Changing',
         UNCHANGED <<accounts, active, roster, current, pooled>>, crossed' \/ crossed' = crossed
  PROVE  SelectionInv'
<1>1. /\ Changing' = Changing /\ \A u \in Changing : u \in Removing' <=> u \in Removing
      /\ \A u \in Changing : at'[u] = at[u] /\ req'[u] = req[u] /\ kept'[u] = kept[u]
  BY OthersStay
<1> QED
  BY <1>1 DEF SelectionInv, Agree, Dropped

\* Nobody else changes the selection while one task does, unless that is remembered.
LEMMA SelectionHeld ==
  ASSUME SelectionInv, NEW t \in Changing, pooled, ~crossed
  PROVE  Changing \subseteq {t}
BY DEF SelectionInv

LEMMA SelectionReceive ==
  ASSUME OpInv, SelectionInv, NEW t \in Task, NEW call \in Requests, NEW id \in Names(call),
         Receive(t, call, id), Moves(t)
  PROVE  SelectionInv'
<1>0. at \in [Task -> Places] /\ roster \subseteq Id /\ active \in Id \cup {NoId}
  BY DEF OpInv, OpTypeOK, StoreTypeOK
<1>1. t \notin Changing'
  BY <1>0 DEF Receive, Call, Changing
<1>2. crossed' = (Changing # {})
  BY DEF Receive
<1>3. CASE ~pooled
  <2>1. roster' = accounts /\ current' = active /\ active' = active
    BY <1>3 DEF Receive
  <2> QED
    BY <1>1, <1>2, <2>1, SelectionAlone DEF Agree
<1>4. CASE pooled
  <2>1. active' = Synced.active /\ current' = Synced.current /\ roster' = roster
    BY <1>4 DEF Receive
  <2>2. Agree'
    BY <1>0, <2>1 DEF Agree, Synced
  <2> QED
    BY <1>1, <1>2, <2>2, SelectionAlone
<1> QED
  BY <1>3, <1>4

LEMMA SelectionSelecting ==
  ASSUME OpInv, SelectionInv, NEW t \in Task, Moves(t), Selecting(t)
  PROVE  SelectionInv'
<1>0. /\ at \in [Task -> Places] /\ roster \subseteq Id /\ accounts \subseteq Id
      /\ active \in Id \cup {NoId} /\ current \in Id \cup {NoId}
      /\ crossed \in BOOLEAN
  BY DEF OpInv, OpTypeOK, StoreTypeOK
<1>p. at[t] \notin {"idle", "ended"} => pooled
  BY DEF OpInv, PhaseInv, Idle
<1>1. CASE ClearSelection(t)
  <2>1. /\ at'[t] = "saving" /\ active' = NoId /\ current' = NoId
        /\ crossed' = (crossed \/ Changing # {})
    BY <1>0, <1>1 DEF ClearSelection, Goto, Crossing
  <2> QED
    BY <1>0, <2>1, SelectionAlone DEF Agree, Changing
<1>2. CASE Pick(t) \/ SwitchCurrent(t)
  <2>1. /\ at[t] \in {"pick", "switching"} /\ crossed' = (crossed \/ Changing # {})
        /\ UNCHANGED <<accounts, active, roster, pooled>>
        /\ \/ at'[t] \in {"picked", "switched"}
           \/ at'[t] = "ended" /\ UNCHANGED current
    BY <1>0, <1>2 DEF Pick, SwitchCurrent, Goto, End, Elsewhere, settingsVars, Crossing
  <2>2. CASE at'[t] \in {"picked", "switched"}
    <3>1. t \in Changing' /\ t \notin Removing'
      BY <2>2 DEF Changing, Removing
    <3> QED
      BY <2>1, <2>2, <3>1, SelectionUnderWay
  <2>3. CASE at'[t] = "ended" /\ UNCHANGED current
    <3>1. t \notin Changing /\ t \notin Changing'
      BY <2>1, <2>3 DEF Changing
    <3> QED
      BY <1>0, <2>1, <2>3, <3>1, SelectionStutter
  <2> QED
    BY <2>1, <2>2, <2>3
<1>3. CASE StoreSelection(t) \/ StoreSwitch(t)
  <2>1. /\ at[t] \in {"picked", "switched"} /\ at'[t] = "saving" /\ active' = current
        /\ UNCHANGED <<accounts, roster, current, pooled, crossed>>
    BY <1>0, <1>3 DEF StoreSelection, StoreSwitch, Goto, Elsewhere, historyVars
  <2>2. t \in Changing /\ t \notin Changing' /\ Agree'
    BY <2>1 DEF Changing, Agree
  <2> QED
    BY <2>1, <2>2, SelectionHeld, SelectionAlone
<1>4. CASE MakeActive(t)
  <2>1. /\ at[t] = "enlisted" /\ at'[t] = "activated" /\ active' = req[t].id /\ req' = req
        /\ UNCHANGED <<accounts, roster, pooled, crossed>>
    BY <1>0, <1>4 DEF MakeActive, Goto, Elsewhere, historyVars
  <2>2. t \in Changing /\ t \in Changing' /\ t \notin Removing'
    BY <2>1 DEF Changing, Removing
  <2>3. pooled' /\ ~crossed' => req[t].id \in roster
    BY <2>1, <2>2 DEF SelectionInv
  <2> QED
    BY <2>1, <2>2, <2>3, SelectionHeld, SelectionUnderWay
<1>5. CASE MakeCurrent(t)
  <2>1. /\ at[t] = "activated" /\ at'[t] = "saving"
        /\ current' = IF req[t].id \in roster THEN req[t].id ELSE current
        /\ UNCHANGED <<accounts, active, roster, pooled, crossed>>
    BY <1>0, <1>5 DEF MakeCurrent, Goto, Elsewhere, historyVars, settingsVars
  <2>2. t \in Changing /\ t \notin Changing'
    BY <2>1 DEF Changing
  <2>3. pooled' /\ ~crossed' => req[t].id \in roster /\ active = req[t].id
    BY <2>1, <2>2 DEF SelectionInv
  <2> QED
    BY <2>1, <2>2, <2>3, SelectionHeld, SelectionAlone DEF Agree
<1>6. CASE Deselect(t)
  <2>1. /\ at[t] = "replaced" /\ at'[t] = "saving"
        /\ active' = IF active \in accounts THEN active ELSE NoId
        /\ UNCHANGED <<accounts, roster, current, pooled, crossed>>
    BY <1>0, <1>6 DEF Deselect, Goto, Elsewhere, historyVars
  <2>2. t \in Changing /\ t \in Removing /\ t \notin Changing'
    BY <2>1 DEF Changing, Removing
  <2>3. pooled' /\ ~crossed' => Changing \subseteq {t} /\ (Agree \/ Dropped)
    BY <2>1, <2>2, SelectionHeld DEF SelectionInv
  <2>4. Agree \/ Dropped => Agree' \/ Dropped'
    <3>1. ASSUME Agree PROVE Agree' \/ Dropped'
      BY <1>0, <2>1, <3>1, OpAssumption DEF Agree, Dropped
    <3>2. ASSUME Dropped PROVE Dropped'
      BY <1>0, <2>1, <3>2, OpAssumption DEF Dropped
    <3> QED
      BY <3>1, <3>2
  <2> QED
    BY <2>2, <2>3, <2>4, SelectionAlone
<1> QED
  BY <1>1, <1>2, <1>3, <1>4, <1>5, <1>6 DEF Selecting

LEMMA SelectionListing ==
  ASSUME OpInv, SelectionInv, NEW t \in Task, Moves(t), Listing(t)
  PROVE  SelectionInv'
<1>0. /\ at \in [Task -> Places] /\ roster \subseteq Id /\ accounts \subseteq Id
      /\ active \in Id \cup {NoId} /\ current \in Id \cup {NoId}
      /\ crossed \in BOOLEAN /\ kept \in [Task -> SUBSET Id]
  BY DEF OpInv, OpTypeOK, StoreTypeOK
<1>p. at[t] \notin {"idle", "ended"} => pooled
  BY DEF OpInv, PhaseInv, Idle
<1>1. CASE Join(t)
  <2>1. /\ at[t] = "join" /\ crossed' = (crossed \/ Changing # {})
        /\ UNCHANGED <<accounts, active, current, pooled>>
        /\ \/ at'[t] = "joined" /\ roster' = roster \cup {req[t].id} /\ req' = req
           \/ at'[t] = "ended" /\ UNCHANGED roster
    BY <1>0, <1>1 DEF Join, Goto, End, Elsewhere, Crossing
  <2>2. CASE at'[t] = "joined" /\ roster' = roster \cup {req[t].id} /\ req' = req
    <3>1. t \in Changing' /\ t \notin Removing'
      BY <2>2 DEF Changing, Removing
    <3> QED
      BY <2>1, <2>2, <3>1, SelectionUnderWay
  <2>3. CASE at'[t] = "ended" /\ UNCHANGED roster
    <3>1. t \notin Changing /\ t \notin Changing'
      BY <2>1, <2>3 DEF Changing
    <3> QED
      BY <1>0, <2>1, <2>3, <3>1, SelectionStutter
  <2> QED
    BY <2>1, <2>2, <2>3
<1>2. CASE Leave(t)
  <2>1. /\ at[t] = "leave" /\ crossed' = (crossed \/ Changing # {})
        /\ UNCHANGED <<accounts, active, pooled>>
        /\ \/ /\ at'[t] = "left" /\ roster' = roster \ {req[t].id}
              /\ current' = IF current = req[t].id THEN NoId ELSE current
           \/ at'[t] = "ended" /\ UNCHANGED <<roster, current>>
    BY <1>0, <1>2 DEF Leave, Goto, End, Elsewhere, settingsVars, Crossing
  <2>2. CASE /\ at'[t] = "left" /\ roster' = roster \ {req[t].id}
             /\ current' = IF current = req[t].id THEN NoId ELSE current
    <3>1. t \in Changing'
      BY <2>2 DEF Changing
    <3>2. pooled' /\ ~crossed' => Changing = {} /\ (Agree \/ Dropped)
      BY <2>1 DEF SelectionInv
    <3>3. ASSUME Agree PROVE Agree'
      BY <1>0, <2>1, <2>2, <3>3, OpAssumption DEF Agree
    <3>4. ASSUME Dropped PROVE Agree' \/ Dropped'
      BY <1>0, <2>1, <2>2, <3>4, OpAssumption DEF Agree, Dropped
    <3> QED
      BY <2>2, <3>1, <3>2, <3>3, <3>4, SelectionUnderWay
  <2>3. CASE at'[t] = "ended" /\ UNCHANGED <<roster, current>>
    <3>1. t \notin Changing /\ t \notin Changing'
      BY <2>1, <2>3 DEF Changing
    <3> QED
      BY <1>0, <2>1, <2>3, <3>1, SelectionStutter
  <2> QED
    BY <2>1, <2>2, <2>3
<1>3. CASE Enlist(t)
  <2>1. /\ at[t] = "joined" /\ at'[t] = "enlisted" /\ req' = req
        /\ UNCHANGED <<active, roster, current, pooled, crossed>>
    BY <1>0, <1>3 DEF Enlist, Goto, Elsewhere, historyVars
  <2>2. t \in Changing /\ t \in Changing' /\ t \notin Removing'
    BY <2>1 DEF Changing, Removing
  <2>3. pooled' /\ ~crossed' => req[t].id \in roster
    BY <2>1, <2>2 DEF SelectionInv
  <2> QED
    BY <2>1, <2>2, <2>3, SelectionHeld, SelectionUnderWay
<1>4. CASE KeepOthers(t)
  <2>1. /\ at[t] = "left" /\ at'[t] = "kept" /\ kept'[t] = accounts \ {req[t].id}
        /\ UNCHANGED <<accounts, active, roster, current, pooled, crossed>>
    BY <1>0, <1>4 DEF KeepOthers, Goto, Elsewhere, historyVars, settingsVars
  <2>2. t \in Changing /\ t \in Changing' /\ t \in Removing
    BY <2>1 DEF Changing, Removing
  <2>3. pooled' /\ ~crossed' => Changing \subseteq {t} /\ (Agree \/ Dropped)
    BY <2>1, <2>2, SelectionHeld DEF SelectionInv
  <2>4. (Agree' <=> Agree) /\ (Dropped' <=> Dropped)
    BY <2>1 DEF Agree, Dropped
  <2> QED
    BY <2>1, <2>2, <2>3, <2>4, SelectionUnderWay
<1>5. CASE ReplaceList(t)
  <2>1. /\ at[t] = "kept" /\ at'[t] = "replaced" /\ accounts' = kept[t]
        /\ UNCHANGED <<active, roster, current, pooled, crossed>>
    BY <1>0, <1>5 DEF ReplaceList, Goto, Elsewhere, historyVars
  <2>2. t \in Changing /\ t \in Changing' /\ t \in Removing
    BY <2>1 DEF Changing, Removing
  <2>3. pooled' /\ ~crossed' =>
          Changing \subseteq {t} /\ (Agree \/ Dropped) /\ kept[t] \subseteq accounts
    BY <2>1, <2>2, SelectionHeld DEF SelectionInv
  <2>4. kept[t] \subseteq accounts /\ (Agree \/ Dropped) => Agree' \/ Dropped'
    BY <2>1 DEF Agree, Dropped
  <2> QED
    BY <2>1, <2>2, <2>3, <2>4, SelectionUnderWay
<1>6. CASE NothingToDrop(t)
  <2>1. /\ at[t] = "left" /\ at'[t] = "saving"
        /\ UNCHANGED <<accounts, active, roster, current, pooled, crossed>>
    BY <1>0, <1>6 DEF NothingToDrop, Goto, Elsewhere, historyVars, settingsVars
  <2>2. t \in Changing /\ t \notin Changing' /\ t \in Removing
    BY <2>1 DEF Changing, Removing
  <2>3. pooled' /\ ~crossed' => Changing \subseteq {t} /\ (Agree \/ Dropped)
    BY <2>1, <2>2, SelectionHeld DEF SelectionInv
  <2>4. (Agree' <=> Agree) /\ (Dropped' <=> Dropped)
    BY <2>1 DEF Agree, Dropped
  <2> QED
    BY <2>1, <2>2, <2>3, <2>4, SelectionAlone
<1> QED
  BY <1>1, <1>2, <1>3, <1>4, <1>5, <1>6 DEF Listing

LEMMA SelectionNext == ASSUME OpInv, SelectionInv, [OpNext]_opVars PROVE SelectionInv'
<1>1. CASE UNCHANGED <<accounts, active, pooled, roster, current, at, req, kept, crossed>>
  BY <1>1 DEF SelectionInv, Changing, Removing, Agree, Dropped
<1>2. CASE Crash
  BY <1>2 DEF Crash, SelectionInv
<1>3. ASSUME NEW t \in Task, Handle(t) PROVE SelectionInv'
  <2>1. Moves(t)
    BY <1>3, HandleShape DEF OpInv, Shape
  <2>2. ASSUME Plain(t) PROVE SelectionInv'
    <3>1. /\ UNCHANGED <<accounts, active, roster, current, pooled, crossed>>
          /\ t \notin Changing /\ t \notin Changing'
      BY <2>2, PlainStep
    <3> QED
      BY <2>1, <3>1, SelectionStutter
  <2> QED
    BY <1>3, <2>1, <2>2, HandleSplit, SelectionReceive, SelectionSelecting, SelectionListing
<1> QED
  BY <1>1, <1>2, <1>3, SaveNextFrame DEF OpNext, opVars, storeVars, settingsVars, apiVars,
     historyVars

-----------------------------------------------------------------------------
(* What the file holds                                                     *)

\* Whoever changes what is saved still owes a save: a handler never settles that, and
\* when nobody owes one after its step, the step has changed nothing but lifted bans.
Unsaved(t) ==
  t \in Changing' \/ save'[t] = "begin"
Settled(t) ==
  t \notin Changing /\ UNCHANGED <<accounts, active>> /\ banned' \subseteq banned

LEMMA ReceiveOwes ==
  ASSUME OpInv, NEW t \in Task, NEW call \in Requests, NEW id \in Names(call),
         Receive(t, call, id)
  PROVE  Unsaved(t) \/ Settled(t)
<1>1. /\ at[t] = "idle" /\ UNCHANGED <<accounts, banned>> /\ t \in DOMAIN save
      /\ active' = active \/ BeginSave(t)
  BY DEF Receive, Call, Synced, OpInv, OpTypeOK, StoreTypeOK
<1> QED
  BY <1>1 DEF Unsaved, Settled, Changing, BeginSave

LEMMA SelectingOwes ==
  ASSUME OpInv, NEW t \in Task, Selecting(t)
  PROVE  Unsaved(t) \/ Settled(t)
<1>0. at \in [Task -> Places] /\ DOMAIN save = Task
  BY DEF OpInv, OpTypeOK, StoreTypeOK
<1>1. CASE Pick(t) \/ SwitchCurrent(t)
  <2>1. /\ at[t] \in {"pick", "switching"} /\ UNCHANGED <<accounts, banned, active>>
    BY <1>1 DEF Pick, SwitchCurrent, Goto, End, settingsVars
  <2> QED
    BY <2>1 DEF Settled, Changing
<1>2. CASE MakeActive(t)
  BY <1>0, <1>2 DEF MakeActive, Goto, Unsaved, Changing
<1>3. CASE \/ ClearSelection(t) \/ StoreSelection(t) \/ StoreSwitch(t)
           \/ MakeCurrent(t) \/ Deselect(t)
  BY <1>0, <1>3 DEF ClearSelection, StoreSelection, StoreSwitch, MakeCurrent, Deselect, BeginSave,
     Unsaved
<1> QED
  BY <1>1, <1>2, <1>3 DEF Selecting

LEMMA ListingOwes ==
  ASSUME OpInv, NEW t \in Task, Listing(t)
  PROVE  Unsaved(t) \/ Settled(t)
<1>0. at \in [Task -> Places]
  BY DEF OpInv, OpTypeOK
<1>1. CASE Join(t)
  BY <1>0, <1>1 DEF Join, Goto, End, Unsaved, Settled, Changing
<1>2. CASE Leave(t)
  BY <1>0, <1>2 DEF Leave, Goto, End, Unsaved, Settled, Changing, settingsVars
<1>3. CASE Enlist(t) \/ KeepOthers(t) \/ ReplaceList(t)
  BY <1>0, <1>3 DEF Enlist, KeepOthers, ReplaceList, Goto, Unsaved, Changing
<1>4. CASE NothingToDrop(t)
  BY <1>4 DEF NothingToDrop, BeginSave, Unsaved, OpInv, OpTypeOK, StoreTypeOK
<1> QED
  BY <1>1, <1>2, <1>3, <1>4 DEF Listing

LEMMA PlainOwes ==
  ASSUME OpInv, NEW t \in Task, Plain(t)
  PROVE  Unsaved(t) \/ Settled(t)
<1>1. UNCHANGED <<accounts, active>> /\ t \notin Changing
  BY PlainStep
<1>2. CASE \E id \in Id : MarkBan(t, id)
  BY <1>2 DEF MarkBan, BeginSave, Unsaved, OpInv, OpTypeOK, StoreTypeOK
<1>3. CASE \/ Listed(t) \/ Finish(t) \/ Unblock(t) \/ SetToken(t)
           \/ \E id \in Id : SeeFailedCurrent(t, id)
           \/ \E call \in Calls : \E to \in {"pick", "join", "leave", "unblock", "token"} :
                ToThread(t, call, to)
  <2>1. banned' \subseteq banned
    BY <1>3 DEF Listed, Finish, Unblock, SetToken, SeeFailedCurrent, ToThread, settingsVars
  <2> QED
    BY <1>1, <2>1 DEF Settled
<1> QED
  BY <1>2, <1>3 DEF Plain

LEMMA HandleOwes ==
  ASSUME OpInv, NEW t \in Task, Handle(t)
  PROVE  Unsaved(t) \/ Settled(t)
BY HandleSplit, ReceiveOwes, SelectingOwes, ListingOwes, PlainOwes

\* A handler keeps the payloads of the others, and drops its own at the end.
LEMMA HandlePayloads ==
  ASSUME OpInv, NEW t \in Task, Handle(t)
  PROVE  /\ \A u \in Task : save'[u] \notin {"no", "begin"} =>
              u # t /\ save'[u] = save[u] /\ snap'[u] = snap[u]
         /\ \A u \in Task : snap'[u] = snap[u] \/ snap'[u] = NoPayload
         /\ \A u \in Task \ {t} : save'[u] = save[u]
         /\ save[t] # "begin"
         /\ UNCHANGED <<file, fileNo, begun>>
<1>1. SaveMoves(t) /\ UNCHANGED <<file, fileNo>> /\ SavingTypes
  BY HandleShape, TypesSplit DEF OpInv, Shape, Moves
<1>2. CASE NoSave
  BY <1>1, <1>2 DEF SaveMoves, NoSave, savingVars, BeginSave, EndSave, SavingTypes
<1>3. CASE BeginSave(t)
  BY <1>1, <1>3 DEF SaveMoves, NoSave, savingVars, BeginSave, SavingTypes
<1>4. CASE EndSave(t)
  BY <1>1, <1>4 DEF SaveMoves, NoSave, savingVars, EndSave, SavingTypes
<1> QED
  BY <1>1, <1>2, <1>3, <1>4 DEF SaveMoves

LEMMA LostHandle == ASSUME OpInv, LostInv, NEW t \in Task, Handle(t) PROVE LostInv'
<1>1. Moves(t) /\ SavingTypes
  BY HandleShape, TypesSplit DEF OpInv, Shape
<1>2. fileNo' <= begun' /\ \A u \in Task : snap'[u].no <= begun'
  BY <1>1, HandlePayloads DEF LostInv, SavingTypes, NoPayload
<1>3. ASSUME Owing' = {}
      PROVE  /\ Owing = {} /\ UNCHANGED <<accounts, active>> /\ banned' \subseteq banned
  <2>1. ~Unsaved(t)
    BY <1>3 DEF Owing, Unsaved
  <2>2. Settled(t)
    BY <2>1, HandleOwes
  <2>3. \A u \in Task \ {t} : u \notin Owing
    BY <1>1, <1>3, OthersStay, HandlePayloads DEF Owing
  <2>4. t \notin Owing
    BY <2>2, HandlePayloads DEF Owing, Settled
  <2>5. Owing \subseteq Task
    BY DEF Owing, Changing
  <2> QED
    BY <2>2, <2>3, <2>4, <2>5 DEF Settled
<1>4. ASSUME Owing' = {}, NEW u \in Task,
             save'[u] \notin {"no", "begin", "saved", "raised"}, snap'[u].no = begun'
      PROVE  /\ Lists(snap[u].content)'
             /\ save'[u] # "active" => snap'[u].content.active = active'
  <2>1. save'[u] = save[u] /\ snap'[u] = snap[u] /\ begun' = begun
    BY <1>4, HandlePayloads
  <2>2. Lists(snap[u].content) /\ (save[u] # "active" => snap[u].content.active = active)
    BY <1>3, <1>4, <2>1 DEF LostInv
  <2> QED
    BY <1>3, <1>4, <2>1, <2>2 DEF Lists
<1>5. ASSUME Owing' = {}, fileNo' = begun', file' # Torn
      PROVE  Lists(file)' /\ file'.active = active'
  <2>1. UNCHANGED <<file, fileNo, begun>>
    BY HandlePayloads
  <2>2. Lists(file) /\ file.active = active
    BY <1>3, <1>5, <2>1 DEF LostInv
  <2> QED
    BY <1>3, <1>5, <2>1, <2>2 DEF Lists
<1> QED
  BY <1>2, <1>4, <1>5 DEF LostInv

LEMMA LostSave ==
  ASSUME OpInv, LostInv, NEW t \in Task, SaveNext(t), UNCHANGED apiVars
  PROVE  LostInv'
<1>0. /\ SavingTypes /\ UNCHANGED <<accounts, banned, active, at>>
      /\ accounts \subseteq Id /\ banned \subseteq Id
  BY SaveNextFrame, TypesSplit DEF OpInv, ApiTypes, settingsVars
<1>1. Changing' = Changing
  BY <1>0 DEF Changing
<1>2. CASE ReadAccounts(t)
  <2>1. /\ save[t] = "begin" /\ save' = [save EXCEPT ![t] = "active"] /\ begun' = begun + 1
        /\ UNCHANGED <<file, fileNo>>
        /\ \A u \in Task \ {t} : snap'[u] = snap[u]
        /\ snap'[t].no = begun + 1
        /\ snap'[t].content.accounts = accounts /\ snap'[t].content.banned = banned \cap accounts
    BY <1>0, <1>2 DEF ReadAccounts, SaveStep, SavingTypes, EmptyFile
  <2>2. fileNo' < begun' /\ \A u \in Task : snap'[u].no <= begun' /\ (u # t => snap'[u].no < begun')
    BY <1>0, <2>1 DEF LostInv, SavingTypes
  <2>3. save'[t] = "active" /\ Lists(snap[t].content)'
    BY <1>0, <2>1 DEF Lists, SavingTypes
  <2> QED
    BY <1>0, <2>1, <2>2, <2>3 DEF LostInv, SavingTypes
<1>3. CASE ReadActive(t)
  <2>1. /\ save[t] = "active" /\ save' = [save EXCEPT ![t] = "lock"] /\ begun' = begun
        /\ UNCHANGED <<file, fileNo>>
        /\ \A u \in Task \ {t} : snap'[u] = snap[u]
        /\ snap'[t].no = snap[t].no /\ snap'[t].content.active = active
        /\ snap'[t].content.accounts = snap[t].content.accounts
        /\ snap'[t].content.banned = snap[t].content.banned
    <3>1. snap[t] \in [content : Payload, no : Nat]
      BY <1>0 DEF SavingTypes
    <3> QED
      BY <1>0, <1>3, <3>1 DEF ReadActive, SaveStep, SavingTypes, Payload
  <2>2. Owing' = Owing
    BY <1>0, <1>1, <2>1 DEF Owing, SavingTypes
  <2>3. save'[t] = "lock" /\ \A u \in Task \ {t} : save'[u] = save[u]
    BY <1>0, <2>1 DEF SavingTypes
  <2> QED
    BY <1>0, <2>1, <2>2, <2>3 DEF LostInv, Lists
<1>4. CASE WriteTemp(t) \/ Truncate(t) \/ (Rename(t) /\ save'[t] = "overwrite")
           \/ (Fill(t) /\ save'[t] = "raised")
  <2>1. /\ \A u \in Task \ {t} : save'[u] = save[u]
        /\ save[t] \notin {"no", "begin", "active", "saved", "raised"}
        /\ save'[t] \notin {"no", "begin", "active"}
        /\ UNCHANGED <<snap, begun, fileNo>> /\ file' \in {file, Torn}
    BY <1>0, <1>4 DEF WriteTemp, Truncate, Rename, Fill, SaveStep, SavingTypes
  <2>2. Owing' = Owing
    BY <1>1, <2>1 DEF Owing
  <2> QED
    BY <1>0, <2>1, <2>2 DEF LostInv, Lists
<1>5. CASE (Rename(t) \/ Fill(t)) /\ save'[t] = "saved"
  <2>1. /\ \A u \in Task \ {t} : save'[u] = save[u]
        /\ save[t] \in {"rename", "fill"} /\ save'[t] = "saved"
        /\ UNCHANGED <<snap, begun>> /\ file' = snap[t].content /\ fileNo' = snap[t].no
    BY <1>0, <1>5 DEF Rename, Fill, Publish, SaveStep, SavingTypes
  <2>2. Owing' = Owing
    BY <1>1, <2>1 DEF Owing
  <2>3. Owing = {} /\ snap[t].no = begun
          => Lists(snap[t].content) /\ snap[t].content.active = active
    BY <2>1 DEF LostInv
  <2>4. fileNo' <= begun' /\ \A u \in Task : snap'[u].no <= begun'
    BY <2>1 DEF LostInv
  <2>5. ASSUME Owing' = {}, NEW u \in Task,
               save'[u] \notin {"no", "begin", "saved", "raised"}, snap'[u].no = begun'
        PROVE  /\ Lists(snap[u].content)'
               /\ save'[u] # "active" => snap'[u].content.active = active'
    <3>1. u # t /\ save[u] = save'[u]
      BY <2>1, <2>5
    <3> QED
      BY <1>0, <2>1, <2>2, <2>5, <3>1 DEF LostInv, Lists
  <2>6. ASSUME Owing' = {}, fileNo' = begun'
        PROVE  Lists(file)' /\ file'.active = active'
    BY <1>0, <2>1, <2>2, <2>3, <2>6 DEF Lists
  <2> QED
    BY <2>4, <2>5, <2>6 DEF LostInv
<1> QED
  <2>1. Rename(t) => save'[t] \in {"saved", "overwrite"}
    BY <1>0 DEF Rename, SaveStep, SavingTypes
  <2>2. Fill(t) => save'[t] \in {"saved", "raised"}
    BY <1>0 DEF Fill, SaveStep, SavingTypes
  <2> QED
    BY <1>2, <1>3, <1>4, <1>5, <2>1, <2>2 DEF SaveNext

LEMMA LostNext == ASSUME OpInv, LostInv, [OpNext]_opVars PROVE LostInv'
<1>1. CASE UNCHANGED <<settingsVars, savingVars, file, fileNo, at>>
  BY <1>1 DEF LostInv, Owing, Changing, Lists, settingsVars, savingVars
<1>2. CASE Crash
  <2>1. /\ \A u \in Task : save'[u] = "no" /\ snap'[u] = NoPayload
        /\ fileNo' = 0 /\ begun' = (IF file = Torn THEN 1 ELSE 0) /\ file' = file
        /\ file # Torn =>
             accounts' = file.accounts /\ banned' = file.banned /\ active' = file.active
    BY <1>2 DEF Crash, Reload, Loaded
  <2>2. fileNo' <= begun' /\ \A u \in Task : snap'[u].no <= begun'
    BY <2>1 DEF NoPayload
  <2>3. fileNo' = begun' /\ file' # Torn => Lists(file)' /\ file'.active = active'
    BY <2>1 DEF Lists
  <2> QED
    BY <2>1, <2>2, <2>3 DEF LostInv
<1> QED
  BY <1>1, <1>2, LostHandle, LostSave DEF OpNext, opVars, storeVars, apiVars

-----------------------------------------------------------------------------
(* The theorems                                                            *)

\* Whatever the file holds at first, and whichever tasks the endpoints and workers are
\* given, the settings, the pool, the calls and the saves under way keep their types:
\* among them that _CONFIG_SAVE_LOCK is held exactly while the file is written
\* (config.py, Settings.save).
THEOREM OpTypeCorrect ==
  ASSUME NEW CONSTANT contents, contents \subseteq Payload
  PROVE  OpSpec(contents) => []OpTypeOK
<1>1. OpInv => OpTypeOK
  BY DEF OpInv
<1> QED
  BY <1>1, OpInvHolds, PTL

\* As long as renames are not refused nobody ever reads a half-written config.json,
\* and no crash leaves one, whatever saves race (config.py, Settings.save).
THEOREM NeverHalfWrittenHolds ==
  ASSUME NEW CONSTANT contents, contents \subseteq Payload
  PROVE  OpSpec(contents) => []NeverHalfWritten
<1>1. OpInv => NeverHalfWritten
  BY DEF OpInv, WholeInv, NeverHalfWritten
<1> QED
  BY <1>1, OpInvHolds, PTL

\* With no call under way the pool and the settings hold the same accounts, unless two
\* edits of the lists overlapped (accounts.py, add_account and remove_account).
THEOREM RosterAgreesHolds ==
  ASSUME NEW CONSTANT contents, contents \subseteq Payload
  PROVE  OpSpec(contents) => []RosterAgrees
<1>1. OpInit(contents) => RosterInv
  BY DEF OpInit, RosterInv
<1>2. RosterInv => RosterAgrees
  BY DEF RosterInv, RosterAgrees, OpQuiet, Idle, Editing
<1> QED
  BY <1>1, <1>2, RosterNext, OpInvHolds, PTL DEF OpSpec

\* With no call under way the pool and the settings select the same account, or none,
\* unless two changes of CURRENT crossed since the last request or the settings have
\* lost an account of the pool (accounts.py, sync_current_from_settings).
THEOREM SelectionAgreesHolds ==
  ASSUME NEW CONSTANT contents, contents \subseteq Payload
  PROVE  OpSpec(contents) => []SelectionAgrees
<1>1. OpInit(contents) => SelectionInv
  BY DEF OpInit, SelectionInv
<1>2. SelectionInv => SelectionAgrees
  BY DEF SelectionInv, SelectionAgrees, OpQuiet, Idle, Changing, Agree, Dropped
<1> QED
  BY <1>1, <1>2, SelectionNext, OpInvHolds, PTL DEF OpSpec

\* With no call under way, a file that holds the payload of the save begun last holds
\* every account, the selection and every ban: nothing is lost but by an older payload
\* written over a newer one, or by a save that failed (server_routes.py: every handler
\* saves after its last change).
THEOREM NothingElseLostHolds ==
  ASSUME NEW CONSTANT contents, contents \subseteq Payload
  PROVE  OpSpec(contents) => []NothingElseLost
<1>1. OpInit(contents) => LostInv
  BY DEF OpInit, StoreInit, LostInv, Owing, Changing, Lists, NoPayload
<1>2. OpInv /\ LostInv => NothingElseLost
  <2>1. OpInv /\ OpQuiet => Owing = {}
    BY DEF OpInv, PhaseInv, OpQuiet, Idle, Owing, Changing
  <2> QED
    BY <2>1 DEF LostInv, NothingElseLost, Lists
<1> QED
  BY <1>1, <1>2, LostNext, OpInvHolds, PTL DEF OpSpec
=============================================================================
