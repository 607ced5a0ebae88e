-------------------------- MODULE StreamBridgeProofs --------------------------
(* Theorems about StreamBridge, for any requests, accounts and workers. *)
EXTENDS StreamBridge, TLAPS

(***************************************************************************)
(* What the places of generator and producer say about each other.         *)
(***************************************************************************)
PlaceInv ==
  \A r \in Request :
    /\ gen[r] \in {"none", "ready"} => job[r] = "none"
    /\ gen[r] = "open" => job[r] # "none"
    /\ gen[r] # "none" \/ job[r] # "none" => slot[r] \in Account
    /\ closing[r] # "none" => gen[r] = "closed"
    /\ closing[r] = "unread" => job[r] = "none"
    /\ job[r] = "event" => made[r] < MaxText
    /\ job[r] \in {"ending", "reporting"} => result[r] # "none"

TypeInv == TypeOK /\ PlaceInv

(***************************************************************************)
(* The end of the reply is in the queue, or was taken from it.             *)
(***************************************************************************)
EndQueued(r) ==
  job[r] = "over" /\ result[r] \in Terminal /\ closing[r] \notin Terminal

\* The queue holds the text not shown yet, and the end of the reply behind it.
Queue(r) ==
  /\ shown[r] + Len(out[r]) = IF EndQueued(r) THEN made[r] + 1 ELSE made[r]
  /\ \A k \in 1..Len(out[r]) :
       out[r][k] # "text" => k = Len(out[r]) /\ EndQueued(r)
  /\ EndQueued(r) => Len(out[r]) > 0 /\ out[r][Len(out[r])] # "text"
  /\ closing[r] \in Terminal => job[r] = "over" /\ Len(out[r]) = 0

QueueInv == \A r \in Request : Queue(r)

LEMMA InitTypeInv == Init => TypeInv
  BY BridgeAssumption, SMTT(20)
     DEF Init, TypeInv, TypeOK, PlaceInv, Terminal, Working

LEMMA InitQueueInv == Init => QueueInv
  BY SMTT(20) DEF Init, QueueInv, Queue, EndQueued, Terminal

LEMMA NextTypeInv ==
  ASSUME TypeInv, QueueInv, [Next]_vars
  PROVE  TypeInv'
PROOF
  <1> USE BridgeAssumption
  <1>1. CASE UNCHANGED vars
    BY <1>1 DEF vars, jobVars, genVars, TypeInv, TypeOK, PlaceInv, Terminal, Working
  <1>2. ASSUME NEW r \in Request, NEW a \in Account, Admit(r, a) PROVE TypeInv'
    BY <1>2, SMTT(30) DEF Admit, Lock, jobVars,
         TypeInv, TypeOK, PlaceInv, Terminal, Working
  <1>3. ASSUME NEW r \in Request, StartStream(r) PROVE TypeInv'
    BY <1>3, SMTT(30) DEF StartStream,
         TypeInv, TypeOK, PlaceInv, Terminal, Working
  <1>4. ASSUME NEW r \in Request, NeverStarted(r) PROVE TypeInv'
    BY <1>4, SMTT(30) DEF NeverStarted, jobVars,
         TypeInv, TypeOK, PlaceInv, Terminal, Working
  <1>5. ASSUME NEW r \in Request, Deliver(r) PROVE TypeInv'
    <2>1. /\ out[r] \in Seq({"text"} \cup Terminal) /\ out[r] # <<>>
          /\ Len(out[r]) \in Nat \ {0} /\ Head(out[r]) = out[r][1]
      BY <1>5 DEF Deliver, TypeInv, TypeOK
    <2>2. /\ Head(out[r]) \in {"text"} \cup Terminal
          /\ Tail(out[r]) \in Seq({"text"} \cup Terminal)
      BY <2>1
    <2>3. ASSUME Head(out[r]) = "text" PROVE shown[r] + 1 <= MaxText
      <3>1. ~EndQueued(r) \/ Len(out[r]) > 1
        BY <2>1, <2>3 DEF QueueInv, Queue
      <3>2. made[r] \in 0..MaxText /\ shown[r] \in 0..MaxText
        BY DEF TypeInv, TypeOK
      <3> QED
        BY <2>1, <3>1, <3>2 DEF QueueInv, Queue
    <2>4. TypeOK'
      <3>1. UNCHANGED <<live, locked, slot, job, backlog, waf, result, made>>
        BY <1>5 DEF Deliver, jobVars
      <3>2. out' \in [Request -> Seq({"text"} \cup Terminal)]
        BY <1>5, <2>2 DEF Deliver, TypeInv, TypeOK
      <3>3. CASE Head(out[r]) = "text"
        <4>1. /\ shown' = [shown EXCEPT ![r] = @ + 1]
              /\ wait' = [wait EXCEPT ![r] = ConsumerTicks]
              /\ UNCHANGED <<gen, cancelled, closing>>
          BY <1>5, <3>3 DEF Deliver
        <4>2. shown' \in [Request -> 0..MaxText] /\ wait' \in [Request -> 0..ConsumerTicks]
          BY <2>3, <3>3, <4>1 DEF TypeInv, TypeOK
        <4> QED
          BY <3>1, <3>2, <4>1, <4>2 DEF TypeInv, TypeOK
      <3>4. CASE Head(out[r]) # "text"
        <4>1. Close(r, Head(out[r])) /\ UNCHANGED <<shown, wait>>
          BY <1>5, <3>4 DEF Deliver
        <4>2. Head(out[r]) \in Terminal
          BY <2>2, <3>4
        <4> QED
          BY <3>1, <3>2, <4>1, <4>2, SMTT(30) DEF Close, TypeInv, TypeOK
      <3> QED
        BY <3>3, <3>4
    <2>5. PlaceInv'
      BY <1>5, <2>2, SMTT(30)
         DEF Deliver, Close, jobVars, TypeInv, TypeOK, PlaceInv, Terminal
    <2> QED
      BY <2>4, <2>5 DEF TypeInv
  <1>6. ASSUME NEW r \in Request, GiveUp(r) PROVE TypeInv'
    BY <1>6, SMTT(30) DEF GiveUp, Close, jobVars,
         TypeInv, TypeOK, PlaceInv, Terminal, Working
  <1>7. ASSUME NEW r \in Request, ClientLeaves(r) PROVE TypeInv'
    BY <1>7, SMTT(30) DEF ClientLeaves, Close, jobVars,
         TypeInv, TypeOK, PlaceInv, Terminal, Working
  <1>8. ASSUME NEW r \in Request, Begin(r) PROVE TypeInv'
    <2>1. backlog' \in Seq(Request)
      BY <1>8 DEF Begin, TypeInv, TypeOK
    <2>q. UNCHANGED <<live, locked, slot, out, waf, result, made, genVars>>
      BY <1>8 DEF Begin
    <2>j. job' \in [Request -> {"none", "queued", "over"} \cup Working]
      BY <1>8 DEF Begin, Goto, TypeInv, TypeOK, Working
    <2>2. TypeOK'
      BY <2>1, <2>q, <2>j DEF genVars, TypeInv, TypeOK
    <2>3. PlaceInv'
      <3>1. job[r] = "queued" /\ job' = [job EXCEPT ![r] = "running"]
        BY <1>8 DEF Begin, Goto
      <3> QED
        BY <2>q, <3>1 DEF genVars, TypeInv, TypeOK, PlaceInv
    <2> QED
      BY <2>2, <2>3 DEF TypeInv
  <1>9. ASSUME NEW r \in Request, ReadEvent(r) PROVE TypeInv'
    BY <1>9, SMTT(30) DEF ReadEvent, Goto, genVars,
         TypeInv, TypeOK, PlaceInv, Terminal, Working
  <1>10. ASSUME NEW r \in Request, PutText(r) PROVE TypeInv'
    <2>q. UNCHANGED <<live, locked, slot, backlog, waf, result, genVars>>
      BY <1>10 DEF PutText
    <2>m. job[r] = "event" /\ job' = [job EXCEPT ![r] = "running"]
          /\ made' = [made EXCEPT ![r] = @ + 1]
      BY <1>10 DEF PutText, Goto
    <2>1. out' \in [Request -> Seq({"text"} \cup Terminal)]
      BY <1>10, SMTT(30) DEF PutText, Put, TypeInv, TypeOK
    <2>2. job' \in [Request -> {"none", "queued", "over"} \cup Working]
      BY <2>m DEF TypeInv, TypeOK, Working
    <2>3. made' \in [Request -> 0..MaxText]
      BY <2>m, BridgeAssumption DEF TypeInv, TypeOK, PlaceInv
    <2>4. TypeOK'
      BY <2>q, <2>1, <2>2, <2>3 DEF genVars, TypeInv, TypeOK
    <2>5. PlaceInv'
      BY <2>q, <2>m DEF genVars, TypeInv, TypeOK, PlaceInv
    <2> QED
      BY <2>4, <2>5 DEF TypeInv
  <1>11. ASSUME NEW r \in Request, NEW how \in Terminal \cup {"stopped"},
               EndCompletion(r, how) PROVE TypeInv'
    BY <1>11, SMTT(30) DEF EndCompletion, Goto, genVars,
         TypeInv, TypeOK, PlaceInv, Terminal, Working
  <1>12. ASSUME NEW r \in Request, ReleaseSlot(r) PROVE TypeInv'
    BY <1>12, SMTT(30) DEF ReleaseSlot, Unlock, Goto, genVars,
         TypeInv, TypeOK, PlaceInv, Terminal, Working
  <1>13. ASSUME NEW r \in Request, Report(r) PROVE TypeInv'
    <2>1. result[r] \in Terminal \/ result[r] = "stopped"
      BY <1>13 DEF Report, Goto, TypeInv, TypeOK, PlaceInv
    <2>2. out' \in [Request -> Seq({"text"} \cup Terminal)]
      <3>1. out' = out \/ out' = [out EXCEPT ![r] = Append(out[r], result[r])]
        BY <1>13 DEF Report, Put
      <3>2. out \in [Request -> Seq({"text"} \cup Terminal)]
        BY DEF TypeInv, TypeOK
      <3>3. out' # out => result[r] \in Terminal
        BY <1>13, <2>1 DEF Report
      <3>4. CASE out' = out
        BY <3>2, <3>4
      <3>5. CASE out' = [out EXCEPT ![r] = Append(out[r], result[r])] /\ result[r] \in Terminal
        <4>1. Append(out[r], result[r]) \in Seq({"text"} \cup Terminal)
          BY <3>2, <3>5
        <4> QED
          BY <3>2, <3>5, <4>1
      <3> QED
        BY <3>1, <3>3, <3>4, <3>5
    <2>3. job' \in [Request -> {"none", "queued", "over"} \cup Working]
      BY <1>13 DEF Report, Goto, TypeInv, TypeOK
    <2>q. UNCHANGED <<live, locked, slot, backlog, waf, result, made, genVars>>
      BY <1>13 DEF Report
    <2>5. TypeOK'
      BY <2>2, <2>3, <2>q DEF genVars, TypeInv, TypeOK
    <2>4. PlaceInv'
      BY <1>13, SMTT(30) DEF Report, Goto, genVars, TypeInv, TypeOK, PlaceInv
    <2> QED
      BY <2>4, <2>5 DEF TypeInv
  <1>14. ASSUME NEW r \in Request, GiveSlotForWaf(r) PROVE TypeInv'
    BY <1>14, SMTT(30) DEF GiveSlotForWaf, Unlock, Goto, genVars,
         TypeInv, TypeOK, PlaceInv, Terminal, Working
  <1>15. ASSUME NEW r \in Request, TakeSlotBack(r) PROVE TypeInv'
    BY <1>15, SMTT(30) DEF TakeSlotBack, Lock, Goto, genVars,
         TypeInv, TypeOK, PlaceInv, Terminal, Working
  <1>16. ASSUME NEW r \in Request, AbandonSlot(r) PROVE TypeInv'
    BY <1>16, SMTT(30) DEF AbandonSlot, Goto, genVars,
         TypeInv, TypeOK, PlaceInv, Terminal, Working
  <1>17. CASE Tick
    BY <1>17, SMTT(30) DEF Tick, jobVars, genVars,
         TypeInv, TypeOK, PlaceInv, Terminal, Working
  <1> QED
    BY <1>1, <1>2, <1>3, <1>4, <1>5, <1>6, <1>7, <1>8, <1>9, <1>10, <1>11, <1>12, <1>13, <1>14, <1>15, <1>16, <1>17
       DEF Next, Respond, Produce

(***************************************************************************)
(* A request whose reply is not touched keeps its queue.                   *)
(***************************************************************************)
Same(s) ==
  /\ shown'[s] = shown[s] /\ out'[s] = out[s] /\ made'[s] = made[s]
  /\ closing'[s] \in Terminal <=> closing[s] \in Terminal
  /\ job'[s] = "over" <=> job[s] = "over"
  /\ job[s] = "over" => result'[s] = result[s]

LEMMA QueueKept ==
  ASSUME NEW s \in Request, Queue(s), Same(s)
  PROVE  Queue(s)'
  BY SMTT(30) DEF Queue, EndQueued, Same

LEMMA NextQueueInv ==
  ASSUME TypeInv, QueueInv, [Next]_vars
  PROVE  QueueInv'
PROOF
  <1> SUFFICES ASSUME NEW s \in Request PROVE Queue(s)'
    BY DEF QueueInv
  <1>q. \A r \in Request : Queue(r)
    BY DEF QueueInv
  <1>t. /\ job \in [Request -> {"none", "queued", "over"} \cup Working]
        /\ result \in [Request -> {"none", "stopped"} \cup Terminal]
        /\ closing \in [Request -> {"none", "timeout", "left", "unread"} \cup Terminal]
        /\ out \in [Request -> Seq({"text"} \cup Terminal)]
        /\ made \in [Request -> 0..MaxText]
        /\ shown \in [Request -> 0..MaxText]
    BY DEF TypeInv, TypeOK
  <1>p. PlaceInv
    BY DEF TypeInv
  <1>1. CASE UNCHANGED vars
    <2>1. Same(s)
      BY <1>1 DEF vars, jobVars, genVars, Same
    <2> QED
      BY <1>q, <2>1, QueueKept
  <1>2. ASSUME NEW r \in Request, NEW a \in Account, Admit(r, a) PROVE Queue(s)'
    <2>1. Same(s)
      BY <1>2, <1>t, <1>p DEF Admit, jobVars, Same
    <2> QED
      BY <1>q, <2>1, QueueKept
  <1>3. ASSUME NEW r \in Request, StartStream(r) PROVE Queue(s)'
    <2>1. Same(s)
      BY <1>3, <1>t, <1>p DEF StartStream, PlaceInv, Same
    <2> QED
      BY <1>q, <2>1, QueueKept
  <1>4. ASSUME NEW r \in Request, NeverStarted(r) PROVE Queue(s)'
    <2>1. Same(s)
      BY <1>4, <1>t, <1>p DEF NeverStarted, jobVars, PlaceInv, Terminal, Same
    <2> QED
      BY <1>q, <2>1, QueueKept
  <1>5. ASSUME NEW r \in Request, Deliver(r) PROVE Queue(s)'
    <2>1. CASE s # r
      <3>1. Same(s)
        BY <1>5, <1>t, <2>1 DEF Deliver, Close, jobVars, Same
      <3> QED
        BY <1>q, <3>1, QueueKept
    <2>2. CASE s = r
      <3>q. Queue(r)
        BY <1>q
      <3>1. /\ out[r] \in Seq({"text"} \cup Terminal) /\ out[r] # <<>>
            /\ out'[r] = Tail(out[r])
        BY <1>5, <1>t DEF Deliver
      <3>2. /\ Len(out[r]) \in Nat \ {0} /\ Head(out[r]) = out[r][1]
            /\ Head(out[r]) \in {"text"} \cup Terminal
            /\ Tail(out[r]) \in Seq({"text"} \cup Terminal)
            /\ Len(Tail(out[r])) = Len(out[r]) - 1
            /\ \A k \in 1..(Len(out[r]) - 1) : Tail(out[r])[k] = out[r][k + 1]
        BY <3>1
      <3>3. 1 \in 1..Len(out[r])
        BY <3>2
      <3>4. /\ closing[r] = "none" /\ UNCHANGED <<job, result, made>>
            /\ shown[r] \in Nat /\ made[r] \in Nat
        BY <1>5, <1>t, <1>p DEF Deliver, Close, jobVars, PlaceInv
      <3>5. CASE Head(out[r]) = "text"
        <4>1. shown'[r] = shown[r] + 1 /\ closing'[r] = closing[r]
          BY <1>5, <1>t, <3>5 DEF Deliver
        <4>2. EndQueued(r)' <=> EndQueued(r)
          BY <3>4, <4>1 DEF EndQueued
        <4>3. EndQueued(r) => Len(out[r]) > 1
          BY <3>q, <3>2, <3>5 DEF Queue
        <4>4. /\ shown'[r] + Len(out'[r]) = IF EndQueued(r)' THEN made'[r] + 1 ELSE made'[r]
              /\ EndQueued(r)' => Len(out'[r]) > 0
          <5>1. shown[r] + Len(out[r]) = IF EndQueued(r) THEN made[r] + 1 ELSE made[r]
            BY <3>q DEF Queue
          <5>2. Len(out'[r]) = Len(out[r]) - 1 /\ made'[r] = made[r]
            BY <3>1, <3>2, <3>4
          <5>3. CASE EndQueued(r)
            BY <3>2, <3>4, <4>1, <4>2, <4>3, <5>1, <5>2, <5>3
          <5>4. CASE ~EndQueued(r)
            <6>1. ~EndQueued(r)'
              BY <4>2, <5>4
            <6>2. shown[r] + Len(out[r]) = made[r]
              BY <5>1, <5>4
            <6>3. shown'[r] + Len(out'[r]) = made'[r]
              <7>1. shown[r] \in Nat /\ Len(out[r]) \in Nat /\ shown'[r] = shown[r] + 1
                BY <3>2, <3>4, <4>1
              <7> QED
                BY <5>2, <6>2, <7>1
            <6> QED
              BY <6>1, <6>3
          <5> QED
            BY <5>3, <5>4
        <4>5. \A k \in 1..Len(out'[r]) :
                out'[r][k] # "text" => k = Len(out'[r]) /\ EndQueued(r)'
          BY <3>q, <3>1, <3>2, <4>2 DEF Queue
        <4>6. EndQueued(r)' => out'[r][Len(out'[r])] # "text"
          BY <3>q, <3>1, <3>2, <4>2, <4>3 DEF Queue
        <4>7. closing'[r] \notin Terminal
          BY <3>4, <4>1 DEF Terminal
        <4>8. Queue(r)'
          BY <4>4, <4>5, <4>6, <4>7 DEF Queue
        <4> QED
          BY <2>2, <4>8 DEF Queue, EndQueued
      <3>6. CASE Head(out[r]) # "text"
        <4>1. Len(out[r]) = 1 /\ EndQueued(r)
          <5>1. out[r][1] # "text"
            BY <3>2, <3>6
          <5> QED
            BY <3>q, <3>3, <5>1 DEF Queue
        <4>2. /\ shown'[r] = shown[r]
              /\ closing'[r] = Head(out[r]) /\ closing'[r] \in Terminal
          BY <1>5, <1>t, <3>2, <3>6 DEF Deliver, Close
        <4>3. ~EndQueued(r)'
          BY <4>2 DEF EndQueued
        <4>4. Len(out'[r]) = 0 /\ shown[r] = made[r] /\ job[r] = "over"
          BY <3>q, <3>1, <3>2, <3>4, <4>1 DEF Queue, EndQueued
        <4>5. Queue(r)'
          BY <3>4, <4>2, <4>3, <4>4 DEF Queue
        <4> QED
          BY <2>2, <4>5 DEF Queue, EndQueued
      <3> QED
        BY <3>5, <3>6
    <2> QED
      BY <2>1, <2>2
  <1>6. ASSUME NEW r \in Request, GiveUp(r) PROVE Queue(s)'
    <2>1. Same(s)
      BY <1>6, <1>t, <1>p DEF GiveUp, Close, jobVars, PlaceInv, Terminal, Same
    <2> QED
      BY <1>q, <2>1, QueueKept
  <1>7. ASSUME NEW r \in Request, ClientLeaves(r) PROVE Queue(s)'
    <2>1. Same(s)
      BY <1>7, <1>t, <1>p DEF ClientLeaves, Close, jobVars, PlaceInv, Terminal, Same
    <2> QED
      BY <1>q, <2>1, QueueKept
  <1>8. ASSUME NEW r \in Request, Begin(r) PROVE Queue(s)'
    <2>1. Same(s)
      BY <1>8, <1>t, <1>p DEF Begin, Goto, genVars, Same
    <2> QED
      BY <1>q, <2>1, QueueKept
  <1>9. ASSUME NEW r \in Request, ReadEvent(r) PROVE Queue(s)'
    <2>1. Same(s)
      BY <1>9, <1>t, <1>p DEF ReadEvent, Goto, genVars, Same
    <2> QED
      BY <1>q, <2>1, QueueKept
  <1>10. ASSUME NEW r \in Request, PutText(r) PROVE Queue(s)'
    <2>1. CASE s # r
      <3>1. Same(s)
        BY <1>10, <1>t, <2>1 DEF PutText, Put, Goto, genVars, Same
      <3> QED
        BY <1>q, <3>1, QueueKept
    <2>2. CASE s = r
      <3>q. Queue(r)
        BY <1>q
      <3>1. /\ out[r] \in Seq({"text"} \cup Terminal)
            /\ shown[r] \in Nat /\ made[r] \in Nat
            /\ out'[r] = Append(out[r], "text") /\ made'[r] = made[r] + 1
            /\ UNCHANGED <<shown, closing>>
        BY <1>10, <1>t DEF PutText, Put, genVars
      <3>2. job[r] = "event" /\ job'[r] = "running"
        BY <1>10, <1>t DEF PutText, Goto
      <3>3. ~EndQueued(r) /\ ~EndQueued(r)' /\ closing[r] \notin Terminal
        BY <3>q, <3>2 DEF EndQueued, Queue
      <3>4. /\ Len(out'[r]) = Len(out[r]) + 1 /\ Len(out[r]) \in Nat
            /\ \A k \in 1..Len(out'[r]) :
                 out'[r][k] = IF k = Len(out[r]) + 1 THEN "text" ELSE out[r][k]
        BY <3>1
      <3>5. shown'[r] + Len(out'[r]) = made'[r]
        BY <3>q, <3>1, <3>3, <3>4 DEF Queue
      <3>6. \A k \in 1..Len(out[r]) : out[r][k] = "text"
        BY <3>q, <3>3 DEF Queue
      <3>7. \A k \in 1..Len(out'[r]) : out'[r][k] = "text"
        BY <3>4, <3>6
      <3>8. Queue(r)'
        BY <3>1, <3>3, <3>5, <3>7 DEF Queue
      <3> QED
        BY <2>2, <3>8 DEF Queue, EndQueued
    <2> QED
      BY <2>1, <2>2
  <1>11. ASSUME NEW r \in Request, NEW how \in Terminal \cup {"stopped"},
               EndCompletion(r, how) PROVE Queue(s)'
    <2>1. Same(s)
      BY <1>11, <1>t, <1>p DEF EndCompletion, Goto, genVars, Same
    <2> QED
      BY <1>q, <2>1, QueueKept
  <1>12. ASSUME NEW r \in Request, ReleaseSlot(r) PROVE Queue(s)'
    <2>1. Same(s)
      BY <1>12, <1>t, <1>p DEF ReleaseSlot, Goto, genVars, Same
    <2> QED
      BY <1>q, <2>1, QueueKept
  <1>13. ASSUME NEW r \in Request, Report(r) PROVE Queue(s)'
    <2>1. CASE s # r
      <3>1. Same(s)
        BY <1>13, <1>t, <2>1 DEF Report, Put, Goto, genVars, Same
      <3> QED
        BY <1>q, <3>1, QueueKept
    <2>2. CASE s = r
      <3>q. Queue(r)
        BY <1>q
      <3>1. /\ result[r] \in Terminal \/ result[r] = "stopped"
            /\ job[r] = "reporting" /\ job'[r] = "over"
            /\ UNCHANGED <<shown, closing, result, made>>
        BY <1>13, <1>t, <1>p DEF Report, Goto, genVars, PlaceInv
      <3>2. ~EndQueued(r) /\ closing[r] \notin Terminal
        BY <3>q, <3>1 DEF EndQueued, Queue
      <3>3. CASE result[r] = "stopped"
        <4>1. out' = out /\ ~EndQueued(r)'
          BY <1>13, <3>1, <3>3 DEF Report, EndQueued, Terminal
        <4>2. Queue(r)'
          BY <3>q, <3>1, <3>2, <4>1 DEF Queue
        <4> QED
          BY <2>2, <4>2 DEF Queue, EndQueued
      <3>4. CASE result[r] \in Terminal
        <4>1. /\ out[r] \in Seq({"text"} \cup Terminal)
              /\ shown[r] \in Nat /\ made[r] \in Nat
              /\ out'[r] = Append(out[r], result[r])
          BY <1>13, <1>t, <3>4 DEF Report, Put, Terminal
        <4>2. EndQueued(r)' /\ result[r] # "text"
          BY <3>1, <3>2, <3>4 DEF EndQueued, Terminal
        <4>3. /\ Len(out'[r]) = Len(out[r]) + 1 /\ Len(out[r]) \in Nat
              /\ \A k \in 1..Len(out'[r]) :
                   out'[r][k] = IF k = Len(out[r]) + 1 THEN result[r] ELSE out[r][k]
          BY <3>4, <4>1
        <4>4. shown'[r] + Len(out'[r]) = made'[r] + 1
          BY <3>q, <3>1, <3>2, <4>1, <4>3 DEF Queue
        <4>5. \A k \in 1..Len(out'[r]) : out'[r][k] # "text" => k = Len(out'[r])
          BY <3>q, <3>2, <4>3 DEF Queue
        <4>6. out'[r][Len(out'[r])] # "text"
          BY <4>2, <4>3
        <4>7. Queue(r)'
          BY <3>1, <3>2, <4>2, <4>3, <4>4, <4>5, <4>6 DEF Queue
        <4> QED
          BY <2>2, <4>7 DEF Queue, EndQueued
      <3> QED
        BY <3>1, <3>3, <3>4
    <2> QED
      BY <2>1, <2>2
  <1>14. ASSUME NEW r \in Request, GiveSlotForWaf(r) PROVE Queue(s)'
    <2>1. Same(s)
      BY <1>14, <1>t, <1>p DEF GiveSlotForWaf, Goto, genVars, Same
    <2> QED
      BY <1>q, <2>1, QueueKept
  <1>15. ASSUME NEW r \in Request, TakeSlotBack(r) PROVE Queue(s)'
    <2>1. Same(s)
      BY <1>15, <1>t, <1>p DEF TakeSlotBack, Goto, genVars, Same
    <2> QED
      BY <1>q, <2>1, QueueKept
  <1>16. ASSUME NEW r \in Request, AbandonSlot(r) PROVE Queue(s)'
    <2>1. Same(s)
      BY <1>16, <1>t, <1>p DEF AbandonSlot, Goto, genVars, Same
    <2> QED
      BY <1>q, <2>1, QueueKept
  <1>17. CASE Tick
    <2>1. Same(s)
      BY <1>17, <1>t, <1>p DEF Tick, jobVars, genVars, Same
    <2> QED
      BY <1>q, <2>1, QueueKept
  <1> QED
    BY <1>1, <1>2, <1>3, <1>4, <1>5, <1>6, <1>7, <1>8, <1>9, <1>10, <1>11, <1>12, <1>13, <1>14, <1>15, <1>16, <1>17
       DEF Next, Respond, Produce

THEOREM QueueHolds == Spec => [](TypeInv /\ QueueInv)
PROOF
  <1>1. Init => TypeInv /\ QueueInv
    BY InitTypeInv, InitQueueInv
  <1>2. TypeInv /\ QueueInv /\ [Next]_vars => TypeInv' /\ QueueInv'
    BY NextTypeInv, NextQueueInv
  <1> QED
    BY <1>1, <1>2, PTL DEF Spec

(***************************************************************************)
(* Type correctness (server.py, _stream_completion).                       *)
(***************************************************************************)
THEOREM BridgeTypeCorrect == Spec => []TypeOK
  BY QueueHolds, PTL DEF TypeInv

(***************************************************************************)
(* A reply that ends well was shown in full (server.py: the generator      *)
(* closes on "done" after the deltas the producer has put before).         *)
(***************************************************************************)
THEOREM ReplyCompleteHolds == Spec => []ReplyComplete
PROOF
  <1>1. TypeInv /\ QueueInv => ReplyComplete
    <2> SUFFICES ASSUME TypeInv, QueueInv, NEW r \in Request, closing[r] = "done"
                 PROVE  shown[r] = made[r] /\ out[r] = <<>>
      BY DEF ReplyComplete
    <2>1. /\ out[r] \in Seq({"text"} \cup Terminal)
          /\ shown[r] \in Nat /\ made[r] \in Nat
      BY DEF TypeInv, TypeOK
    <2>2. Queue(r) /\ ~EndQueued(r)
      BY DEF QueueInv, EndQueued, Terminal
    <2>3. Len(out[r]) = 0
      BY <2>2 DEF Queue, Terminal
    <2> QED
      BY <2>1, <2>2, <2>3 DEF Queue
  <1> QED
    BY <1>1, QueueHolds, PTL

-----------------------------------------------------------------------------
(* The slots                                                               *)

Accounted(a) ==
  \E r \in Request : slot[r] = a /\ (WillRelease(r) \/ closing[r] = "unread")

LEMMA InitSlots == Init => SlotsAccounted
  BY DEF Init, SlotsAccounted

LEMMA NextSlots ==
  ASSUME TypeInv, SlotsAccounted, [Next]_vars
  PROVE  SlotsAccounted'
PROOF
  <1>t. /\ locked \in [Account -> BOOLEAN]
        /\ slot \in [Request -> Account \cup {NoSlot}]
        /\ gen \in [Request -> {"none", "ready", "open", "closed"}]
        /\ job \in [Request -> {"none", "queued", "over"} \cup Working]
        /\ closing \in [Request -> {"none", "timeout", "left", "unread"} \cup Terminal]
    BY DEF TypeInv, TypeOK
  <1>p. PlaceInv
    BY DEF TypeInv
  <1> SUFFICES ASSUME NEW b \in Account, locked'[b] PROVE Accounted(b)'
    BY DEF SlotsAccounted, Accounted
  <1>h. locked[b] => Accounted(b)
    BY DEF SlotsAccounted, Accounted
  <1>1. CASE UNCHANGED vars
    BY <1>1, <1>h DEF vars, jobVars, genVars, Accounted, WillRelease
  <1>2. ASSUME NEW r \in Request, NEW a \in Account, Admit(r, a) PROVE Accounted(b)'
    BY <1>2, <1>h, <1>t, <1>p, BridgeAssumption
       DEF Admit, Lock, jobVars, Accounted, WillRelease, PlaceInv
  <1>3. ASSUME NEW r \in Request, StartStream(r) PROVE Accounted(b)'
    BY <1>3, <1>h, <1>t, <1>p
       DEF StartStream, Accounted, WillRelease, PlaceInv
  <1>4. ASSUME NEW r \in Request, NeverStarted(r) PROVE Accounted(b)'
    BY <1>4, <1>h, <1>t, <1>p
       DEF NeverStarted, jobVars, Accounted, WillRelease, PlaceInv
  <1>5. ASSUME NEW r \in Request, Deliver(r) PROVE Accounted(b)'
    BY <1>5, <1>h, <1>t, <1>p
       DEF Deliver, Close, jobVars, Terminal, Accounted, WillRelease, PlaceInv
  <1>6. ASSUME NEW r \in Request, GiveUp(r) PROVE Accounted(b)'
    BY <1>6, <1>h, <1>t, <1>p
       DEF GiveUp, Close, jobVars, Accounted, WillRelease, PlaceInv
  <1>7. ASSUME NEW r \in Request, ClientLeaves(r) PROVE Accounted(b)'
    BY <1>7, <1>h, <1>t, <1>p
       DEF ClientLeaves, Close, jobVars, Accounted, WillRelease, PlaceInv
  <1>8. ASSUME NEW r \in Request, Begin(r) PROVE Accounted(b)'
    BY <1>8, <1>h, <1>t, <1>p
       DEF Begin, Goto, genVars, Accounted, WillRelease, PlaceInv
  <1>9. ASSUME NEW r \in Request, ReadEvent(r) PROVE Accounted(b)'
    BY <1>9, <1>h, <1>t, <1>p
       DEF ReadEvent, Goto, genVars, Accounted, WillRelease, PlaceInv
  <1>10. ASSUME NEW r \in Request, PutText(r) PROVE Accounted(b)'
    BY <1>10, <1>h, <1>t, <1>p
       DEF PutText, Goto, genVars, Accounted, WillRelease, PlaceInv
  <1>11. ASSUME NEW r \in Request, NEW how \in Terminal \cup {"stopped"},
               EndCompletion(r, how) PROVE Accounted(b)'
    BY <1>11, <1>h, <1>t, <1>p
       DEF EndCompletion, Goto, genVars, Accounted, WillRelease, PlaceInv
  <1>12. ASSUME NEW r \in Request, ReleaseSlot(r) PROVE Accounted(b)'
    BY <1>12, <1>h, <1>t, <1>p
       DEF ReleaseSlot, Unlock, Goto, genVars, Accounted, WillRelease, PlaceInv
  <1>13. ASSUME NEW r \in Request, Report(r) PROVE Accounted(b)'
    BY <1>13, <1>h, <1>t, <1>p
       DEF Report, Goto, genVars, Accounted, WillRelease, PlaceInv
  <1>14. ASSUME NEW r \in Request, GiveSlotForWaf(r) PROVE Accounted(b)'
    BY <1>14, <1>h, <1>t, <1>p
       DEF GiveSlotForWaf, Unlock, Goto, genVars, Accounted, WillRelease, PlaceInv
  <1>15. ASSUME NEW r \in Request, TakeSlotBack(r) PROVE Accounted(b)'
    BY <1>15, <1>h, <1>t, <1>p
       DEF TakeSlotBack, Lock, Goto, genVars, Accounted, WillRelease, PlaceInv
  <1>16. ASSUME NEW r \in Request, AbandonSlot(r) PROVE Accounted(b)'
    BY <1>16, <1>h, <1>t, <1>p
       DEF AbandonSlot, Goto, genVars, Accounted, WillRelease, PlaceInv
  <1>17. CASE Tick
    BY <1>17, <1>h, <1>t, <1>p
       DEF Tick, jobVars, genVars, Accounted, WillRelease, PlaceInv
  <1> QED
    BY <1>1, <1>2, <1>3, <1>4, <1>5, <1>6, <1>7, <1>8, <1>9, <1>10, <1>11, <1>12, <1>13, <1>14, <1>15, <1>16, <1>17
       DEF Next, Respond, Produce

(***************************************************************************)
(* A taken slot has a request that will release it, or was lost by a       *)
(* response that never started (server_routes.py, completion_service.py).  *)
(***************************************************************************)
THEOREM SlotsAccountedHolds == Spec => []SlotsAccounted
PROOF
  <1>1. TypeInv /\ SlotsAccounted /\ [Next]_vars => SlotsAccounted'
    BY NextSlots
  <1> QED
    BY <1>1, InitSlots, QueueHolds, PTL DEF Spec
==============================================================================
