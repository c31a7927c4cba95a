----------------------------- MODULE EngineSteps -----------------------------
(***************************************************************************)
(* EngineInv, the part of the engine's invariant that ties Admission and   *)
(* Lifecycle together: where a task of a submission call is, what the      *)
(* channels hold, and what the stopper has done.  Every lemma of the form   *)
(* XKeeps lists what a step X changes and proves that EngineInv survives   *)
(* it; EngineProofs shows that the actions of Engine change just that.     *)
(***************************************************************************)
EXTENDS EngineState, FiniteSetTheorems, TLAPS

LaneNames  == {"thread", "isolated"}
CallPC     == {"idle", "reserving", "sending"} \cup CallEnded
ShutdownPC == {"idle", "gate", "closing", "waiting"} \cup Ended
Unreturned == {"new", "inserted", "sent"}   \* no handle given out yet

ChanType == chan \in [LaneNames -> Seq(Tasks \cup {STOP})]
CallType == cpc \in [Calls -> CallPC] /\ unsent \in [Calls -> SUBSET Tasks]
StopType ==
  /\ started \in BOOLEAN /\ shutdown_complete \in BOOLEAN
  /\ spc \in [Shutdowns -> ShutdownPC]
  /\ stops \in Seq(LaneNames) /\ alive \subseteq AllWorkers

(* A submission call's tasks are new, inserted, sent or handed out all       *)
(* together, save while it is sending them one by one.                       *)
CallInv(c) ==
  /\ cpc[c] = "idle" => rpc[c] = "idle"
  /\ cpc[c] = "sending" => rpc[c] = "granted"
  /\ cpc[c] # "sending" => unsent[c] = {}
  /\ unsent[c] \subseteq Batch[c]
  /\ \A t \in Batch[c] :
       /\ cpc[c] \notin {"sending", "submitted"} => hpc[t] = "new"
       /\ cpc[c] = "sending" =>
            hpc[t] = IF t \in unsent[c] THEN "inserted" ELSE "sent"
       /\ cpc[c] = "submitted" => hpc[t] \notin Unreturned

(* A channel holds distinct tasks of its lane, then STOP messages, and these *)
(* only after shutdown has started.                                          *)
InOrder(s) ==
  \A i, j \in 1..Len(s) : i < j =>
    IF s[i] = STOP THEN s[j] = STOP ELSE s[i] # s[j]
OfLane(s, lane) == \A i \in 1..Len(s) : s[i] # STOP => Lane(s[i]) = lane
NoStop(s)       == \A i \in 1..Len(s) : s[i] # STOP
OnlyStop(s)     == \A i \in 1..Len(s) : s[i] = STOP

LaneInv(lane) ==
  /\ OfLane(chan[lane], lane) /\ InOrder(chan[lane])
  /\ ~started => NoStop(chan[lane])

Queued == queue = InChan

(* Only STOP messages are left in the channel of a worker that has left.     *)
LeftInv(w) ==
  w \notin alive => started /\ wpc[w] = "idle" /\ OnlyStop(chan[Home(w)])

CallsOK == \A c \in Calls : CallInv(c)
LanesOK == \A lane \in LaneNames : LaneInv(lane)
LeftOK  == \A w \in AllWorkers : LeftInv(w)

(* Nobody sends once a shutdown has the gate or has been through it.         *)
NoSender == \A c \in Calls : cpc[c] # "sending"
GateInv  == started \/ (\E s \in Shutdowns : spc[s] = "closing") => NoSender

(* What the announcement, and the return of a waiting shutdown, stand for.   *)
CompleteInv ==
  /\ ~started => stops = <<>>
  /\ shutdown_complete => started /\ alive = {}
  /\ \A s \in Waiting : spc[s] = "returned" => shutdown_complete

HandedOut == {t \in Tasks : hpc[t] \notin Unreturned}
Counted   == submitted_count = Cardinality(HandedOut)

(* What the engine relies on of Lifecycle's invariant.                       *)
LifeType ==
  /\ DOMAIN hpc = Tasks /\ DOMAIN wpc = AllWorkers /\ DOMAIN wtask = AllWorkers
  /\ queue \in SUBSET Tasks
AtWork ==
  \A w \in AllWorkers : wpc[w] # "idle" =>
    /\ wtask[w] \in Tasks /\ wtask[w] \notin queue
    /\ hpc[wtask[w]] \notin {"new", "inserted"}
Apart ==
  \A v, w \in AllWorkers :
    v # w /\ wpc[v] # "idle" /\ wpc[w] # "idle" => wtask[v] # wtask[w]
Sent == \A t \in queue : hpc[t] \notin {"new", "inserted"}

LifeOK == LifeType /\ AtWork /\ Apart /\ Sent

EngineInv ==
  /\ ChanType /\ CallType /\ StopType
  /\ CallsOK /\ LanesOK /\ Queued /\ LeftOK
  /\ GateInv /\ CompleteInv /\ Counted /\ HeldExact

EInv == LifeOK /\ EngineInv
-----------------------------------------------------------------------------
(* What a step leaves alone.                                                 *)
CallsKept    == UNCHANGED <<cpc, unsent, submitted_count>>
ChannelsKept == UNCHANGED <<chan, queue>>
ShutdownKept == UNCHANGED <<started, spc, stops, shutdown_complete, alive>>
UnitsKept    == UNCHANGED <<rpc, held>>
TasksKept    == UNCHANGED <<hpc, wpc, wtask>>

(* notify_all changes no grant.                                              *)
GrantsKept ==
  \A c \in Calls : /\ (rpc'[c] = "granted") <=> (rpc[c] = "granted")
                   /\ (rpc'[c] = "idle") <=> (rpc[c] = "idle")

(* The tasks are partitioned into finite batches, one per submission call.   *)
LEMMA BatchFacts ==
  /\ \A c \in Calls : Batch[c] \in SUBSET Tasks
  /\ \A c, d \in Calls : c # d => Batch[c] \cap Batch[d] = {}
  /\ \A t \in Tasks : \E c \in Calls : t \in Batch[c]
  /\ STOP \notin Tasks
BY SMT, Z3, EngineAssumption

(* A part of the invariant survives a step that changes no variable of it.   *)
LEMMA CallFrame ==
  ASSUME CallsOK, CallsKept, UNCHANGED hpc, GrantsKept
  PROVE  CallsOK'
BY Zenon DEF CallsOK, CallInv, CallsKept, GrantsKept

(* The same for a single call.                                               *)
LEMMA SameCall ==
  ASSUME NEW c \in Calls, CallInv(c), cpc'[c] = cpc[c], unsent'[c] = unsent[c],
         (rpc'[c] = "granted") <=> (rpc[c] = "granted"),
         (rpc'[c] = "idle") <=> (rpc[c] = "idle"),
         \A t \in Batch[c] : hpc'[t] = hpc[t]
  PROVE  CallInv(c)'
BY Zenon DEF CallInv

(* Frame for a channel nothing is sent to or received from.                  *)
LEMMA SameLane ==
  ASSUME NEW l \in LaneNames, LaneInv(l), chan'[l] = chan[l], started => started'
  PROVE  LaneInv(l)'
BY Zenon DEF LaneInv

(* Frame for all channels: shutdown may start.                               *)
LEMMA LaneFrame ==
  ASSUME LanesOK, ChannelsKept, started => started'
  PROVE  LanesOK'
BY Zenon, SameLane DEF LanesOK, ChannelsKept

(* Frame for Queued: nothing is sent or received.                            *)
LEMMA QueuedFrame ==
  ASSUME Queued, ChannelsKept
  PROVE  Queued'
BY Zenon DEF Queued, InChan, ChannelsKept

(* Frame for LeftInv: nobody leaves, no idle worker takes anything up.       *)
LEMMA LeftFrame ==
  ASSUME LeftOK, UNCHANGED alive, ChannelsKept, started => started',
         \A w \in AllWorkers : w \notin alive => wpc'[w] = wpc[w]
  PROVE  LeftOK'
BY Zenon DEF LeftOK, LeftInv, ChannelsKept

(* Frame for GateInv: neither a submission nor a shutdown call moves.        *)
LEMMA GateFrame ==
  ASSUME GateInv, UNCHANGED <<cpc, spc, started>>
  PROVE  GateInv'
BY Zenon DEF GateInv, NoSender

(* Frame for CompleteInv: no shutdown call and no worker leaves.             *)
LEMMA CompleteFrame ==
  ASSUME CompleteInv, ShutdownKept
  PROVE  CompleteInv'
BY Zenon DEF CompleteInv, ShutdownKept

(* Frame for StopType.                                                       *)
LEMMA StopFrame ==
  ASSUME StopType, ShutdownKept
  PROVE  StopType'
BY Zenon DEF StopType, ShutdownKept

(* Frame for Counted: no handle is given out.                                *)
LEMMA CountedFrame ==
  ASSUME Counted, UNCHANGED submitted_count,
         \A t \in Tasks : (hpc[t] \in Unreturned) <=> (hpc'[t] \in Unreturned)
  PROVE  Counted'
<1>1. HandedOut' = HandedOut
  BY Zenon DEF HandedOut
<1> QED BY Zenon, <1>1 DEF Counted

(* A step that concerns no channel, no worker and no shutdown call.          *)
LEMMA CallerFrame ==
  ASSUME EngineInv, ChannelsKept, ShutdownKept, UNCHANGED wpc
  PROVE  ChanType' /\ StopType' /\ LanesOK' /\ Queued' /\ LeftOK' /\ CompleteInv'
<1>1. UNCHANGED <<chan, started, alive>>
  BY Zenon DEF ChannelsKept, ShutdownKept
<1>2. ChanType /\ StopType /\ LanesOK /\ Queued /\ LeftOK /\ CompleteInv
  BY Zenon DEF EngineInv
<1>3. ChanType'
  BY Zenon, <1>1, <1>2 DEF ChanType
<1>4. LeftOK'
  BY Zenon, <1>1, <1>2, LeftFrame
<1> QED BY Zenon, <1>1, <1>2, <1>3, <1>4, LaneFrame, QueuedFrame, CompleteFrame, StopFrame

(* Frame for HeldExact: no unit, no task and no call moves.                  *)
LEMMA HeldFrame ==
  ASSUME HeldExact, UNCHANGED <<held, unsent, chan>>, GrantsKept,
         \A c \in Calls : (cpc'[c] = "reserving") <=> (cpc[c] = "reserving"),
         Taken' = Taken
  PROVE  HeldExact'
<1>1. Reserved' = Reserved
  BY Zenon DEF Reserved, GrantsKept
<1>2. InChan' = InChan
  BY Zenon DEF InChan
<1> QED BY Zenon, <1>1, <1>2 DEF HeldExact

-----------------------------------------------------------------------------
(* Submission calls.                                                         *)

(* What a call that enters, waits in or fails in reserve does: it may get the *)
(* units of its batch, and moves no task.                                    *)
ReserveEffect(c, pc) ==
  /\ cpc[c] \in {"idle", "reserving"} /\ cpc' = [cpc EXCEPT ![c] = pc]
  /\ pc \in CallPC \ {"idle", "sending", "submitted"}
  /\ UNCHANGED <<unsent, submitted_count>>
  /\ ChannelsKept /\ ShutdownKept /\ TasksKept
  /\ \A d \in Calls : d # c => rpc'[d] = rpc[d]
  /\ \/ /\ held' = held \cup Batch[c] /\ rpc[c] # "granted" /\ rpc'[c] = "granted"
        /\ cpc[c] = "reserving" /\ pc = "reserving"
     \/ /\ held' = held /\ (rpc'[c] = "granted" <=> rpc[c] = "granted")
        /\ rpc[c] = "granted" => cpc[c] = "reserving" /\ pc = "reserving"

(* The part of a step of call c that its program counter describes.          *)
LEMMA CallMoves ==
  ASSUME CallType, NEW c \in Calls, NEW pc \in CallPC, cpc' = [cpc EXCEPT ![c] = pc]
  PROVE  /\ cpc' \in [Calls -> CallPC]
         /\ cpc'[c] = pc /\ \A d \in Calls : d # c => cpc'[d] = cpc[d]
BY Zenon DEF CallType

(* Reserving keeps the invariant: units and grants grow together.            *)
LEMMA ReserveKeeps ==
  ASSUME EInv, NEW c \in Calls, NEW pc, ReserveEffect(c, pc)
  PROVE  EngineInv'
<1>1. EngineInv /\ CallType /\ CallsOK /\ GateInv /\ HeldExact /\ Counted
  BY Zenon DEF EInv, EngineInv
<1>2. /\ ChannelsKept /\ ShutdownKept /\ TasksKept /\ UNCHANGED <<unsent, submitted_count>>
      /\ \A d \in Calls : d # c => rpc'[d] = rpc[d]
      /\ pc \in CallPC \ {"idle", "sending", "submitted"}
      /\ cpc' = [cpc EXCEPT ![c] = pc]
  BY Zenon DEF ReserveEffect
<1>3. /\ cpc' \in [Calls -> CallPC]
      /\ cpc'[c] = pc /\ \A d \in Calls : d # c => cpc'[d] = cpc[d]
  BY Zenon, <1>1, <1>2, CallMoves
<1>4. UNCHANGED <<chan, started, spc, hpc, wpc, wtask>>
  BY Zenon, <1>2 DEF ChannelsKept, ShutdownKept, TasksKept
<1>5. CallType'
  BY Zenon, <1>1, <1>2, <1>3 DEF CallType
<1>6. CallsOK'
  <2> SUFFICES ASSUME NEW d \in Calls PROVE CallInv(d)'
    BY Zenon DEF CallsOK
  <2>1. CallInv(d)
    BY Zenon, <1>1 DEF CallsOK
  <2>2. CASE d # c
    BY Zenon, <1>2, <1>3, <1>4, <2>1, <2>2, SameCall
  <2>3. CASE d = c
    BY Zenon, <1>2, <1>3, <1>4, <2>1, <2>3 DEF CallInv, ReserveEffect
  <2> QED BY Zenon, <2>2, <2>3
<1>7. ChanType' /\ StopType' /\ LanesOK' /\ Queued' /\ LeftOK' /\ CompleteInv' /\ Counted'
  BY Zenon, <1>1, <1>2, <1>4, CallerFrame, CountedFrame
<1>8. GateInv'
  BY Zenon, <1>1, <1>2, <1>3, <1>4 DEF GateInv, NoSender
<1>9. HeldExact'
  <2>1. unsent[c] = {}
    BY Zenon, <1>1 DEF CallsOK, CallInv, ReserveEffect
  <2>2. InChan' = InChan /\ Taken' = Taken
    BY Zenon, <1>4 DEF InChan, Taken
  <2>3. CASE /\ held' = held /\ (rpc'[c] = "granted" <=> rpc[c] = "granted")
             /\ rpc[c] = "granted" => cpc[c] = "reserving" /\ pc = "reserving"
    <3>1. Reserved' = Reserved
      BY SMT, Z3, <1>2, <1>3, <2>3 DEF Reserved
    <3> QED BY Zenon, <1>1, <2>2, <2>3, <3>1 DEF HeldExact
  <2>4. CASE held' = held \cup Batch[c] /\ rpc[c] # "granted" /\ rpc'[c] = "granted"
             /\ cpc[c] = "reserving" /\ pc = "reserving"
    <3>1. Reserved' = Reserved \cup Batch[c]
      BY SMT, Z3, <1>2, <1>3, <2>4 DEF Reserved
    <3> QED BY Zenon, <1>1, <2>2, <2>4, <3>1 DEF HeldExact
  <2> QED BY Zenon, <2>3, <2>4 DEF ReserveEffect
<1> QED BY Zenon, <1>5, <1>6, <1>7, <1>8, <1>9 DEF EngineInv

(* The units a granted call gives back are its own: no channel and no worker *)
(* has a task of it yet.                                                     *)
LEMMA BatchStillHere ==
  ASSUME EInv, NEW c \in Calls, cpc[c] = "reserving"
  PROVE  /\ \A t \in Batch[c] : hpc[t] = "new"
         /\ Batch[c] \cap InChan = {} /\ Batch[c] \cap Taken = {}
<1>1. CallInv(c) /\ Queued /\ AtWork /\ Sent
  BY Zenon DEF EInv, EngineInv, CallsOK, LifeOK
<1>2. \A t \in Batch[c] : hpc[t] = "new"
  BY Zenon, <1>1 DEF CallInv
<1>3. Batch[c] \cap InChan = {}
  BY Zenon, <1>1, <1>2 DEF Sent, Queued
<1>4. Batch[c] \cap Taken = {}
  BY Zenon, <1>1, <1>2 DEF AtWork, Taken
<1> QED BY Zenon, <1>2, <1>3, <1>4

(* What a submission that fails after reserve does, whichever of the error    *)
(* paths it takes: it gives its units back.                                  *)
FailureEffect(c, pc) ==
  /\ cpc[c] = "reserving" /\ rpc[c] = "granted" /\ cpc' = [cpc EXCEPT ![c] = pc]
  /\ pc \in CallEnded \ {"submitted"}
  /\ UNCHANGED <<unsent, submitted_count>>
  /\ ChannelsKept /\ ShutdownKept /\ TasksKept
  /\ held' = held \ Batch[c] /\ GrantsKept

(* A failed submission keeps the invariant: no unit is lost, none is given   *)
(* back twice.                                                               *)
LEMMA FailureKeeps ==
  ASSUME EInv, NEW c \in Calls, NEW pc, FailureEffect(c, pc)
  PROVE  EngineInv'
<1>1. EngineInv /\ CallType /\ CallsOK /\ GateInv /\ HeldExact /\ Counted
  BY Zenon DEF EInv, EngineInv
<1>2. /\ ChannelsKept /\ ShutdownKept /\ TasksKept /\ UNCHANGED <<unsent, submitted_count>>
      /\ pc \in CallPC \ {"idle", "reserving", "sending", "submitted"}
      /\ cpc' = [cpc EXCEPT ![c] = pc]
  BY Zenon DEF FailureEffect, CallPC, CallEnded
<1>3. /\ cpc' \in [Calls -> CallPC]
      /\ cpc'[c] = pc /\ \A d \in Calls : d # c => cpc'[d] = cpc[d]
  BY Zenon, <1>1, <1>2, CallMoves
<1>4. UNCHANGED <<chan, started, spc, hpc, wpc, wtask>>
  BY Zenon, <1>2 DEF ChannelsKept, ShutdownKept, TasksKept
<1>5. CallType'
  BY Zenon, <1>1, <1>2, <1>3 DEF CallType
<1>6. CallsOK'
  <2> SUFFICES ASSUME NEW d \in Calls PROVE CallInv(d)'
    BY Zenon DEF CallsOK
  <2>1. CallInv(d) /\ GrantsKept
    BY Zenon, <1>1 DEF CallsOK, FailureEffect
  <2>2. CASE d # c
    BY Zenon, <1>2, <1>3, <1>4, <2>1, <2>2, SameCall DEF GrantsKept
  <2>3. CASE d = c
    BY Zenon, <1>2, <1>3, <1>4, <2>1, <2>3 DEF CallInv, FailureEffect
  <2> QED BY Zenon, <2>2, <2>3
<1>7. ChanType' /\ StopType' /\ LanesOK' /\ Queued' /\ LeftOK' /\ CompleteInv' /\ Counted'
  BY Zenon, <1>1, <1>2, <1>4, CallerFrame, CountedFrame
<1>8. GateInv'
  BY Zenon, <1>1, <1>2, <1>3, <1>4 DEF GateInv, NoSender
<1>9. HeldExact'
  <2>1. /\ cpc[c] = "reserving" /\ rpc[c] = "granted"
        /\ held' = held \ Batch[c] /\ GrantsKept
    BY Zenon DEF FailureEffect
  <2>2. unsent[c] = {} /\ \A d \in Calls : unsent[d] \subseteq Batch[d]
    BY Zenon, <1>1, <2>1 DEF CallsOK, CallInv
  <2>3. InChan' = InChan /\ Taken' = Taken
    BY Zenon, <1>4 DEF InChan, Taken
  <2>4. Reserved' = Reserved \ Batch[c]
    <3>1. \A t \in Reserved' : t \in Reserved /\ t \notin Batch[c]
      <4> SUFFICES ASSUME NEW d \in Calls, rpc[d] = "granted",
                          NEW t \in (IF cpc'[d] = "reserving" THEN Batch[d]
                                     ELSE unsent[d])
                   PROVE  t \in Reserved /\ t \notin Batch[c]
        BY Zenon, <1>2, <2>1 DEF Reserved, GrantsKept
      <4>1. d # c
        BY Zenon, <1>2, <1>3, <2>2
      <4>2. t \in Batch[d]
        BY Zenon, <2>2
      <4> QED BY SMT, Z3, <1>3, <4>1, <4>2, BatchFacts DEF Reserved
    <3>2. \A t \in Reserved : t \notin Batch[c] => t \in Reserved'
      BY Zenon, <1>2, <1>3, <2>1 DEF Reserved, GrantsKept
    <3> QED BY Zenon, <3>1, <3>2
  <2>5. Batch[c] \cap InChan = {} /\ Batch[c] \cap Taken = {}
    BY Zenon, <2>1, BatchStillHere
  <2> QED BY Zenon, <1>1, <2>1, <2>3, <2>4, <2>5 DEF HeldExact
<1> QED BY Zenon, <1>5, <1>6, <1>7, <1>8, <1>9 DEF EngineInv

(* What the insertion of a whole batch under the gate does.                  *)
InsertEffect(c) ==
  /\ cpc[c] = "reserving" /\ rpc[c] = "granted"
  /\ ~started /\ \A s \in Shutdowns : spc[s] # "closing"
  /\ cpc' = [cpc EXCEPT ![c] = "sending"]
  /\ unsent' = [unsent EXCEPT ![c] = Batch[c]]
  /\ hpc' = [t \in Tasks |-> IF t \in Batch[c] THEN "inserted" ELSE hpc[t]]
  /\ UNCHANGED <<submitted_count, wpc, wtask>>
  /\ ChannelsKept /\ ShutdownKept /\ UnitsKept

(* The insertion keeps the invariant: nobody else is at the gate.            *)
LEMMA InsertKeeps ==
  ASSUME EInv, NEW c \in Calls, InsertEffect(c)
  PROVE  EngineInv'
<1>1. EngineInv /\ CallType /\ CallsOK /\ HeldExact /\ Counted
  BY Zenon DEF EInv, EngineInv
<1>2. /\ ChannelsKept /\ ShutdownKept /\ UNCHANGED <<rpc, held, wpc, wtask, submitted_count>>
      /\ cpc[c] = "reserving" /\ cpc' = [cpc EXCEPT ![c] = "sending"]
      /\ unsent' = [unsent EXCEPT ![c] = Batch[c]]
  BY Zenon DEF InsertEffect, UnitsKept
<1>3. /\ cpc' \in [Calls -> CallPC]
      /\ cpc'[c] = "sending" /\ \A d \in Calls : d # c => cpc'[d] = cpc[d]
  <2>1. "sending" \in CallPC
    BY Zenon DEF CallPC
  <2> QED BY Zenon, <1>1, <1>2, <2>1, CallMoves
<1>4. /\ unsent' \in [Calls -> SUBSET Tasks]
      /\ unsent'[c] = Batch[c] /\ \A d \in Calls : d # c => unsent'[d] = unsent[d]
  BY Zenon, <1>1, <1>2, BatchFacts DEF CallType
<1>5. /\ \A t \in Batch[c] : hpc[t] = "new" /\ hpc'[t] = "inserted"
      /\ \A t \in Tasks \ Batch[c] : hpc'[t] = hpc[t]
  BY Zenon, <1>2, BatchFacts, BatchStillHere DEF InsertEffect
<1>6. CallType'
  BY Zenon, <1>3, <1>4 DEF CallType
<1>7. CallsOK'
  <2> SUFFICES ASSUME NEW d \in Calls PROVE CallInv(d)'
    BY Zenon DEF CallsOK
  <2>1. CASE d = c
    <3>1. rpc'[c] = "granted"
      BY Zenon, <1>2 DEF InsertEffect
    <3> QED BY Zenon, <1>3, <1>4, <1>5, <2>1, <3>1 DEF CallInv
  <2>2. CASE d # c
    <3>1. CallInv(d) /\ rpc'[d] = rpc[d]
      BY Zenon, <1>1, <1>2 DEF CallsOK
    <3>2. \A t \in Batch[d] : hpc'[t] = hpc[t]
      BY Zenon, <1>5, <2>2, BatchFacts
    <3> QED BY Zenon, <1>3, <1>4, <2>2, <3>1, <3>2, SameCall
  <2> QED BY Zenon, <2>1, <2>2
<1>8. ChanType' /\ StopType' /\ LanesOK' /\ Queued' /\ LeftOK' /\ CompleteInv'
  BY Zenon, <1>1, <1>2, CallerFrame
<1>9. Counted'
  <2>1. \A t \in Tasks : (hpc[t] \in Unreturned) <=> (hpc'[t] \in Unreturned)
    BY Zenon, <1>5 DEF Unreturned
  <2> QED BY Zenon, <1>1, <1>2, <2>1, CountedFrame
<1>10. GateInv'
  <2>1. ~started' /\ \A s \in Shutdowns : spc'[s] # "closing"
    BY Zenon DEF InsertEffect, ShutdownKept
  <2> QED BY Zenon, <2>1 DEF GateInv
<1>11. HeldExact'
  <2>1. Reserved' = Reserved
    <3>1. \A d \in Calls : (IF cpc'[d] = "reserving" THEN Batch[d] ELSE unsent'[d])
                           = (IF cpc[d] = "reserving" THEN Batch[d] ELSE unsent[d])
      BY Zenon, <1>2, <1>3, <1>4
    <3> QED BY SMT, Z3, <1>2, <3>1 DEF Reserved
  <2>2. InChan' = InChan /\ Taken' = Taken
    BY Zenon, <1>2 DEF InChan, Taken, ChannelsKept
  <2> QED BY Zenon, <1>1, <1>2, <2>1, <2>2 DEF HeldExact
<1> QED BY Zenon, <1>6, <1>7, <1>8, <1>9, <1>10, <1>11 DEF EngineInv

(* What the end of a submission does: the handles are returned and counted.  *)
SubmittedEffect(c) ==
  /\ cpc[c] = "sending" /\ cpc' = [cpc EXCEPT ![c] = "submitted"]
  /\ unsent[c] = {} /\ \A t \in Batch[c] : hpc[t] = "sent"
  /\ hpc' = [t \in Tasks |-> IF t \in Batch[c] THEN "open" ELSE hpc[t]]
  /\ submitted_count' = submitted_count + Cardinality(Batch[c])
  /\ UNCHANGED <<unsent, wpc, wtask>> /\ ChannelsKept /\ ShutdownKept /\ UnitsKept

(* The end of a submission keeps the invariant; finite sets are counted       *)
(* elsewhere.                                                                *)
LEMMA SubmittedKeeps ==
  ASSUME EInv, NEW c \in Calls, SubmittedEffect(c),
         Cardinality(HandedOut \cup Batch[c])
           = Cardinality(HandedOut) + Cardinality(Batch[c])
  PROVE  EngineInv'
<1>1. EngineInv /\ CallType /\ CallsOK /\ GateInv /\ HeldExact /\ Counted
  BY Zenon DEF EInv, EngineInv
<1>2. /\ ChannelsKept /\ ShutdownKept /\ UNCHANGED <<rpc, held, wpc, wtask, unsent>>
      /\ cpc[c] = "sending" /\ cpc' = [cpc EXCEPT ![c] = "submitted"]
  BY Zenon DEF SubmittedEffect, UnitsKept
<1>3. /\ cpc' \in [Calls -> CallPC]
      /\ cpc'[c] = "submitted" /\ \A d \in Calls : d # c => cpc'[d] = cpc[d]
  <2>1. "submitted" \in CallPC
    BY Zenon DEF CallPC, CallEnded
  <2> QED BY Zenon, <1>1, <1>2, <2>1, CallMoves
<1>4. /\ \A t \in Batch[c] : hpc'[t] = "open"
      /\ \A t \in Tasks \ Batch[c] : hpc'[t] = hpc[t]
  BY Zenon, BatchFacts DEF SubmittedEffect
<1>5. CallType'
  BY Zenon, <1>1, <1>2, <1>3 DEF CallType
<1>6. CallsOK'
  <2> SUFFICES ASSUME NEW d \in Calls PROVE CallInv(d)'
    BY Zenon DEF CallsOK
  <2>1. CASE d = c
    <3>1. unsent'[c] = {}
      BY Zenon, <1>2 DEF SubmittedEffect
    <3> QED BY Zenon, <1>3, <1>4, <2>1, <3>1 DEF CallInv, Unreturned
  <2>2. CASE d # c
    <3>1. CallInv(d) /\ rpc'[d] = rpc[d] /\ unsent'[d] = unsent[d]
      BY Zenon, <1>1, <1>2 DEF CallsOK
    <3>2. \A t \in Batch[d] : hpc'[t] = hpc[t]
      BY Zenon, <1>4, <2>2, BatchFacts
    <3> QED BY Zenon, <1>3, <2>2, <3>1, <3>2, SameCall
  <2> QED BY Zenon, <2>1, <2>2
<1>7. ChanType' /\ StopType' /\ LanesOK' /\ Queued' /\ LeftOK' /\ CompleteInv'
  BY Zenon, <1>1, <1>2, CallerFrame
<1>8. Counted'
  <2>1. HandedOut' = HandedOut \cup Batch[c]
    BY Zenon, <1>4, BatchFacts DEF HandedOut, Unreturned
  <2>2. submitted_count' = submitted_count + Cardinality(Batch[c])
    BY Zenon DEF SubmittedEffect
  <2> QED BY Zenon, <1>1, <2>1, <2>2 DEF Counted
<1>9. GateInv'
  <2>1. UNCHANGED <<started, spc>>
    BY Zenon, <1>2 DEF ShutdownKept
  <2> QED BY Zenon, <1>1, <1>2, <1>3, <2>1 DEF GateInv, NoSender
<1>10. HeldExact'
  <2>1. \A d \in Calls : (cpc'[d] = "reserving") <=> (cpc[d] = "reserving")
    BY Zenon, <1>2, <1>3
  <2>2. GrantsKept /\ Taken' = Taken /\ UNCHANGED chan
    BY Zenon, <1>2 DEF GrantsKept, Taken, ChannelsKept
  <2> QED BY Zenon, <1>1, <1>2, <2>1, <2>2, HeldFrame
<1> QED BY Zenon, <1>5, <1>6, <1>7, <1>8, <1>9, <1>10 DEF EngineInv
-----------------------------------------------------------------------------
(* Channels.                                                                 *)

(* A send adds one message behind the others.                                *)
LEMMA SendFacts ==
  ASSUME NEW S, NEW s \in Seq(S), NEW e \in S
  PROVE  LET r == Append(s, e) IN
         /\ r \in Seq(S) /\ Len(s) \in Nat /\ Len(r) = Len(s) + 1
         /\ \A i \in 1..Len(s) : r[i] = s[i]
         /\ r[Len(s) + 1] = e
         /\ \A u : Holds(r, u) <=> Holds(s, u) \/ u = e
<1> DEFINE r == Append(s, e)
<1>1. /\ r \in Seq(S) /\ Len(s) \in Nat /\ Len(r) = Len(s) + 1
      /\ \A i \in 1..Len(s) : r[i] = s[i]
      /\ r[Len(s) + 1] = e
  BY SMT, Z3
<1> HIDE DEF r
<1>2. \A i \in 1..Len(r) : i \in 1..Len(s) \/ i = Len(s) + 1
  BY SMT, Z3, <1>1
<1>3. \A i \in 1..Len(s) : i \in 1..Len(r)
  BY SMT, Z3, <1>1
<1>4. Len(s) + 1 \in 1..Len(r)
  BY SMT, Z3, <1>1
<1>5. \A u : Holds(r, u) <=> Holds(s, u) \/ u = e
  BY Zenon, <1>1, <1>2, <1>3, <1>4 DEF Holds
<1> QED BY Zenon, <1>1, <1>5 DEF r

(* A receive takes off the first message.                                    *)
LEMMA ReceiveFacts ==
  ASSUME NEW S, NEW s \in Seq(S), s # <<>>
  PROVE  /\ Tail(s) \in Seq(S) /\ Head(s) = s[1] /\ 1 \in 1..Len(s)
         /\ Len(s) \in Nat \ {0} /\ Len(Tail(s)) = Len(s) - 1
         /\ \A i \in 1..Len(Tail(s)) : i + 1 \in 1..Len(s) /\ Tail(s)[i] = s[i + 1]
BY SMT, Z3

(* A task sent behind other tasks keeps the order of the channel.            *)
LEMMA TaskBehind ==
  ASSUME NEW s \in Seq(Tasks \cup {STOP}), NEW t \in Tasks, NoStop(s), InOrder(s),
         OfLane(s, Lane(t)), ~Holds(s, t)
  PROVE  LET r == Append(s, t) IN NoStop(r) /\ InOrder(r) /\ OfLane(r, Lane(t))
<1> DEFINE r == Append(s, t)
<1>1. /\ Len(s) \in Nat /\ Len(r) = Len(s) + 1
      /\ \A i \in 1..Len(s) : r[i] = s[i]
      /\ r[Len(s) + 1] = t
  BY SMT, Z3, SendFacts
<1> HIDE DEF r
<1>2. t # STOP /\ \A i \in 1..Len(s) : s[i] # t /\ s[i] # STOP
  BY Zenon, BatchFacts DEF Holds, NoStop
<1>3. NoStop(r)
  BY SMT, Z3, <1>1, <1>2 DEF NoStop
<1>4. InOrder(r)
  BY SMT, Z3, <1>1, <1>2 DEF InOrder
<1>5. OfLane(r, Lane(t))
  BY SMT, Z3, <1>1 DEF OfLane
<1> QED BY Zenon, <1>3, <1>4, <1>5 DEF r

(* A STOP message behind whatever a channel holds keeps its order.           *)
LEMMA StopBehind ==
  ASSUME NEW s \in Seq(Tasks \cup {STOP}), NEW lane, InOrder(s), OfLane(s, lane)
  PROVE  LET r == Append(s, STOP) IN
         InOrder(r) /\ OfLane(r, lane) /\ (OnlyStop(s) => OnlyStop(r))
<1> DEFINE r == Append(s, STOP)
<1>1. /\ Len(s) \in Nat /\ Len(r) = Len(s) + 1
      /\ \A i \in 1..Len(s) : r[i] = s[i]
      /\ r[Len(s) + 1] = STOP
  BY SMT, Z3, SendFacts
<1> HIDE DEF r
<1>2. InOrder(r)
  BY SMT, Z3, <1>1 DEF InOrder
<1>3. OfLane(r, lane) /\ (OnlyStop(s) => OnlyStop(r))
  BY SMT, Z3, <1>1 DEF OfLane, OnlyStop
<1> QED BY Zenon, <1>2, <1>3 DEF r

(* What is left of a channel after a receive.                                *)
LEMMA TailInOrder ==
  ASSUME NEW s \in Seq(Tasks \cup {STOP}), s # <<>>, NEW lane,
         InOrder(s), OfLane(s, lane)
  PROVE  LET r == Tail(s) IN
         /\ InOrder(r) /\ OfLane(r, lane)
         /\ (OnlyStop(s) => OnlyStop(r)) /\ (NoStop(s) => NoStop(r))
         /\ Head(s) = STOP => OnlyStop(s)
         /\ Head(s) # STOP => \A u : Holds(r, u) <=> Holds(s, u) /\ u # Head(s)
<1> DEFINE r == Tail(s)
           h == Head(s)
<1>1. /\ h = s[1] /\ 1 \in 1..Len(s) /\ Len(s) \in Nat \ {0} /\ Len(r) = Len(s) - 1
      /\ \A i \in 1..Len(r) : i + 1 \in 1..Len(s) /\ r[i] = s[i + 1]
  BY Zenon, ReceiveFacts
<1> HIDE DEF r, h
<1>2. InOrder(r)
  BY SMT, Z3, <1>1 DEF InOrder
<1>3. OfLane(r, lane) /\ (OnlyStop(s) => OnlyStop(r)) /\ (NoStop(s) => NoStop(r))
  BY Zenon, <1>1 DEF OfLane, OnlyStop, NoStop
<1>4. \A i \in 1..Len(s) : i = 1 \/ (i - 1 \in 1..Len(r) /\ r[i - 1] = s[i] /\ 1 < i)
  BY SMT, Z3, <1>1
<1>5. h = STOP => OnlyStop(s)
  BY Zenon, <1>1, <1>4 DEF InOrder, OnlyStop
<1>6. ASSUME h # STOP PROVE \A u : Holds(r, u) <=> Holds(s, u) /\ u # h
  <2>1. \A i \in 1..Len(r) : s[i + 1] # h
    BY SMT, Z3, <1>1, <1>6 DEF InOrder
  <2>2. ASSUME NEW u, Holds(r, u) PROVE Holds(s, u) /\ u # h
    BY Zenon, <1>1, <2>1, <2>2 DEF Holds
  <2>3. ASSUME NEW u, Holds(s, u), u # h PROVE Holds(r, u)
    BY Zenon, <1>1, <1>4, <2>3 DEF Holds
  <2> QED BY Zenon, <2>2, <2>3
<1> QED BY Zenon, <1>2, <1>3, <1>5, <1>6 DEF r, h

(* What a send does: a task is put into the channel of its lane.             *)
SendEffect(c, t) ==
  /\ cpc[c] = "sending" /\ t \in unsent[c] /\ hpc[t] = "inserted"
  /\ chan' = [chan EXCEPT ![Lane(t)] = Append(@, t)]
  /\ unsent' = [unsent EXCEPT ![c] = @ \ {t}]
  /\ hpc' = [hpc EXCEPT ![t] = "sent"] /\ queue' = queue \cup {t}
  /\ UNCHANGED <<cpc, submitted_count, wpc, wtask>> /\ ShutdownKept /\ UnitsKept

(* A send keeps the invariant: the unit goes with the task.                  *)
LEMMA SendKeeps ==
  ASSUME EInv, NEW c \in Calls, NEW t \in Tasks, SendEffect(c, t)
  PROVE  EngineInv'
<1>1. /\ ChanType /\ CallType /\ StopType /\ CallsOK /\ LanesOK /\ Queued /\ LeftOK
      /\ GateInv /\ CompleteInv /\ Counted /\ HeldExact /\ LifeType /\ Sent
  BY Zenon DEF EInv, EngineInv, LifeOK
<1>2. /\ UNCHANGED <<rpc, held, cpc, submitted_count, wpc, wtask>>
      /\ UNCHANGED <<started, spc, alive>> /\ ShutdownKept
      /\ cpc[c] = "sending" /\ t \in unsent[c]
      /\ hpc[t] = "inserted" /\ queue' = queue \cup {t}
  BY Zenon DEF SendEffect, ShutdownKept, UnitsKept
<1>3. ~started
  BY Zenon, <1>1, <1>2 DEF GateInv, NoSender
<1> DEFINE lane == Lane(t)
           s == chan[lane]
           r == Append(s, t)
<1>4. lane \in LaneNames /\ s \in Seq(Tasks \cup {STOP})
  BY Zenon, <1>1 DEF ChanType, Lane, LaneNames
<1>5. r \in Seq(Tasks \cup {STOP}) /\ \A u : Holds(r, u) <=> Holds(s, u) \/ u = t
  BY SMT, Z3, <1>4, SendFacts
<1>6. t \notin InChan
  BY Zenon, <1>1, <1>2 DEF Sent, Queued
<1>7. ~Holds(s, t)
  BY Zenon, <1>1, <1>4, <1>6 DEF InChan, ChanType
<1>8. NoStop(r) /\ InOrder(r) /\ OfLane(r, lane)
  BY Zenon, <1>1, <1>3, <1>4, <1>7, TaskBehind DEF LanesOK, LaneInv
<1>9. chan' = [chan EXCEPT ![lane] = r]
  BY Zenon DEF SendEffect
<1> HIDE DEF lane, r
<1>10. /\ ChanType' /\ chan'[lane] = r
       /\ \A l \in LaneNames : l # lane => chan'[l] = chan[l]
  BY Zenon, <1>1, <1>4, <1>5, <1>9 DEF ChanType
<1>11. /\ unsent' \in [Calls -> SUBSET Tasks]
       /\ unsent'[c] = unsent[c] \ {t} /\ \A d \in Calls : d # c => unsent'[d] = unsent[d]
  BY Zenon, <1>1 DEF SendEffect, CallType
<1>12. hpc'[t] = "sent" /\ \A u \in Tasks : u # t => hpc'[u] = hpc[u]
  BY Zenon, <1>1 DEF SendEffect, LifeType
<1>13. CallType'
  BY Zenon, <1>1, <1>2, <1>11 DEF CallType
<1>14. CallsOK'
  <2> SUFFICES ASSUME NEW d \in Calls PROVE CallInv(d)'
    BY Zenon DEF CallsOK
  <2>1. CallInv(d) /\ CallInv(c) /\ Batch[d] \in SUBSET Tasks
    BY Zenon, <1>1, BatchFacts DEF CallsOK
  <2>2. CASE d = c
    BY ZenonT(40), <1>2, <1>11, <1>12, <2>1, <2>2 DEF CallInv
  <2>3. CASE d # c
    <3>1. t \notin Batch[d]
      BY Zenon, <1>2, <2>1, <2>3, BatchFacts DEF CallInv
    <3> QED BY Zenon, <1>2, <1>11, <1>12, <2>1, <2>3, <3>1, SameCall
  <2> QED BY Zenon, <2>2, <2>3
<1>15. LanesOK'
  <2> SUFFICES ASSUME NEW l \in LaneNames PROVE LaneInv(l)'
    BY Zenon DEF LanesOK
  <2>1. CASE l = lane
    BY Zenon, <1>8, <1>10, <2>1 DEF LaneInv
  <2>2. CASE l # lane
    BY Zenon, <1>1, <1>2, <1>10, <2>2, SameLane DEF LanesOK
  <2> QED BY Zenon, <2>1, <2>2
<1>16. InChan' = InChan \cup {t}
  <2>1. DOMAIN chan = LaneNames /\ DOMAIN chan' = LaneNames
    BY Zenon, <1>1, <1>10 DEF ChanType
  <2>2. \A u : Holds(chan'[lane], u) <=> Holds(chan[lane], u) \/ u = t
    BY Zenon, <1>5, <1>10
  <2>3. \A u : (\E l \in LaneNames : Holds(chan'[l], u))
             <=> (\E l \in LaneNames : Holds(chan[l], u)) \/ u = t
    BY Zenon, <1>4, <1>10, <2>2
  <2> QED BY Zenon, <2>1, <2>3 DEF InChan
<1>17. Queued'
  BY Zenon, <1>1, <1>2, <1>16 DEF Queued
<1>18. LeftOK'
  BY Zenon, <1>1, <1>2, <1>3 DEF LeftOK, LeftInv
<1>19. StopType' /\ GateInv' /\ CompleteInv'
  BY Zenon, <1>1, <1>2, StopFrame, GateFrame, CompleteFrame
<1>20. Counted'
  <2>1. \A u \in Tasks : (hpc[u] \in Unreturned) <=> (hpc'[u] \in Unreturned)
    BY Zenon, <1>2, <1>12 DEF Unreturned
  <2> QED BY Zenon, <1>1, <1>2, <2>1, CountedFrame
<1>21. HeldExact'
  <2>1. Taken' = Taken
    BY Zenon, <1>2 DEF Taken
  <2>2. rpc[c] = "granted"
    BY Zenon, <1>1, <1>2 DEF CallsOK, CallInv
  <2>3. Reserved = Reserved' \cup {t}
    BY Zenon, <1>2, <1>11, <2>2 DEF Reserved
  <2> QED BY Zenon, <1>1, <1>2, <1>16, <2>1, <2>3 DEF HeldExact
<1> QED BY Zenon, <1>10, <1>13, <1>14, <1>15, <1>17, <1>18, <1>19, <1>20, <1>21 DEF EngineInv
-----------------------------------------------------------------------------
(* Worker threads.                                                           *)

(* Some worker takes the head of the channel of its lane.                    *)
Popped(w) ==
  /\ chan[Home(w)] # <<>> /\ Pop(w)
  /\ CallsKept /\ UnitsKept /\ UNCHANGED <<hpc, started, spc, stops, shutdown_complete>>

(* A receive leaves the calls and the order of the channels as they were.    *)
LEMMA PopKeeps ==
  ASSUME EngineInv, NEW w \in AllWorkers, Popped(w)
  PROVE  /\ ChanType' /\ CallType' /\ CallsOK' /\ LanesOK' /\ GateInv' /\ Counted'
         /\ Home(w) \in LaneNames /\ chan[Home(w)] \in Seq(Tasks \cup {STOP})
         /\ chan'[Home(w)] = Tail(chan[Home(w)])
         /\ \A l \in LaneNames : l # Home(w) => chan'[l] = chan[l]
         /\ DOMAIN chan = LaneNames /\ DOMAIN chan' = LaneNames
         /\ Reserved' = Reserved
<1> DEFINE s == chan[Home(w)]
<1>1. /\ ChanType /\ CallType /\ CallsOK /\ LanesOK /\ GateInv /\ Counted
      /\ CallsKept /\ UNCHANGED <<cpc, unsent, submitted_count, rpc, held, hpc, started, spc>>
      /\ s # <<>> /\ chan' = [chan EXCEPT ![Home(w)] = Tail(s)]
  BY Zenon DEF EngineInv, Popped, CallsKept, UnitsKept, Pop
<1>2. Home(w) \in LaneNames /\ s \in Seq(Tasks \cup {STOP}) /\ DOMAIN chan = LaneNames
  BY Zenon, <1>1 DEF ChanType, Home, LaneNames
<1>3. InOrder(s) /\ OfLane(s, Home(w)) /\ (~started => NoStop(s))
  BY Zenon, <1>1, <1>2 DEF LanesOK, LaneInv
<1> HIDE DEF s
<1>4. Tail(s) \in Seq(Tasks \cup {STOP})
  BY Zenon, <1>1, <1>2, ReceiveFacts
<1>5. /\ ChanType' /\ chan'[Home(w)] = Tail(s) /\ DOMAIN chan' = LaneNames
      /\ \A l \in LaneNames : l # Home(w) => chan'[l] = chan[l]
  BY Zenon, <1>1, <1>2, <1>4 DEF ChanType
<1>6. /\ InOrder(Tail(s)) /\ OfLane(Tail(s), Home(w)) /\ (NoStop(s) => NoStop(Tail(s)))
  BY Zenon, <1>1, <1>2, <1>3, TailInOrder
<1>7. LanesOK'
  <2> SUFFICES ASSUME NEW l \in LaneNames PROVE LaneInv(l)'
    BY Zenon DEF LanesOK
  <2>1. CASE l = Home(w)
    BY Zenon, <1>1, <1>3, <1>5, <1>6, <2>1 DEF LaneInv
  <2>2. CASE l # Home(w)
    BY Zenon, <1>1, <1>5, <2>2, SameLane DEF LanesOK
  <2> QED BY Zenon, <2>1, <2>2
<1>8. CallType' /\ Reserved' = Reserved
  BY Zenon, <1>1 DEF CallType, Reserved
<1>9. CallsOK' /\ GateInv' /\ Counted'
  BY Zenon, <1>1, CallFrame, GateFrame, CountedFrame DEF GrantsKept
<1> QED BY Zenon, <1>2, <1>5, <1>7, <1>8, <1>9 DEF s

(* What remains in a channel that had only STOP messages.                    *)
LEMMA PopStops ==
  ASSUME EngineInv, NEW w \in AllWorkers, Popped(w),
         NEW v \in AllWorkers, OnlyStop(chan[Home(v)])
  PROVE  OnlyStop(chan[Home(v)])'
<1>1. /\ Home(w) \in LaneNames /\ chan[Home(w)] \in Seq(Tasks \cup {STOP})
      /\ chan'[Home(w)] = Tail(chan[Home(w)]) /\ chan[Home(w)] # <<>>
      /\ \A l \in LaneNames : l # Home(w) => chan'[l] = chan[l]
  BY Zenon, PopKeeps DEF Popped
<1>2. InOrder(chan[Home(w)]) /\ OfLane(chan[Home(w)], Home(w)) /\ Home(v) \in LaneNames
  BY Zenon, <1>1 DEF EngineInv, LanesOK, LaneInv, Home, LaneNames
<1>3. OnlyStop(chan[Home(w)]) => OnlyStop(Tail(chan[Home(w)]))
  BY Zenon, <1>1, <1>2, TailInOrder
<1>4. chan'[Home(v)] = IF Home(v) = Home(w) THEN Tail(chan[Home(w)]) ELSE chan[Home(v)]
  BY Zenon, <1>1, <1>2
<1> QED BY SMT, Z3, <1>3, <1>4 DEF OnlyStop

(* What a worker does that receives STOP: it leaves its loop.                *)
ReceiveStopEffect(w) ==
  /\ wpc[w] = "idle" /\ Head(chan[Home(w)]) = STOP /\ Popped(w)
  /\ alive' = alive \ {w} /\ UNCHANGED <<queue, wpc, wtask>>

(* It found nothing else in its channel.                                     *)
LEMMA ReceiveStopKeeps ==
  ASSUME EInv, NEW w \in AllWorkers, ReceiveStopEffect(w)
  PROVE  EngineInv'
<1> DEFINE s == chan[Home(w)]
<1>1. /\ EngineInv /\ LanesOK /\ Queued /\ LeftOK /\ StopType /\ CompleteInv /\ HeldExact
      /\ Popped(w) /\ s # <<>> /\ Head(s) = STOP /\ wpc[w] = "idle"
      /\ alive' = alive \ {w} /\ UNCHANGED <<queue, wpc, wtask>>
      /\ UNCHANGED <<held, started, spc, stops, shutdown_complete>>
  BY Zenon DEF EInv, EngineInv, ReceiveStopEffect, Popped, UnitsKept
<1>2. /\ ChanType' /\ CallType' /\ CallsOK' /\ LanesOK' /\ GateInv' /\ Counted'
      /\ Home(w) \in LaneNames /\ s \in Seq(Tasks \cup {STOP})
      /\ chan'[Home(w)] = Tail(s)
      /\ \A l \in LaneNames : l # Home(w) => chan'[l] = chan[l]
      /\ DOMAIN chan = LaneNames /\ DOMAIN chan' = LaneNames
      /\ Reserved' = Reserved
  BY Zenon, <1>1, PopKeeps
<1>3. InOrder(s) /\ OfLane(s, Home(w)) /\ (~started => NoStop(s))
  BY Zenon, <1>1, <1>2 DEF LanesOK, LaneInv
<1>4. Head(s) = s[1] /\ 1 \in 1..Len(s)
  BY Zenon, <1>1, <1>2, ReceiveFacts
<1> HIDE DEF s
<1>5. OnlyStop(s) /\ OnlyStop(Tail(s)) /\ started
  BY Zenon, <1>1, <1>2, <1>3, <1>4, TailInOrder DEF NoStop
<1>6. InChan' = InChan
  <2>1. \A u \in Tasks : ~Holds(s, u) /\ ~Holds(Tail(s), u)
    BY Zenon, <1>5, BatchFacts DEF Holds, OnlyStop
  <2>2. \A u \in Tasks : ~Holds(chan[Home(w)], u) /\ ~Holds(chan'[Home(w)], u)
    BY Zenon, <1>2, <2>1 DEF s
  <2> QED BY <1>2, <2>2, Zenon DEF InChan
<1>7. LeftOK'
  <2> SUFFICES ASSUME NEW v \in AllWorkers, v \notin alive'
               PROVE  started' /\ wpc'[v] = "idle" /\ OnlyStop(chan[Home(v)])'
    BY Zenon DEF LeftOK, LeftInv
  <2>1. wpc[v] = "idle" /\ OnlyStop(chan[Home(v)])
    BY Zenon, <1>1, <1>5 DEF LeftOK, LeftInv, s
  <2> QED BY Zenon, <1>1, <1>5, <2>1, PopStops
<1>8. StopType' /\ CompleteInv'
  BY Zenon, <1>1 DEF StopType, CompleteInv
<1>9. Queued' /\ HeldExact'
  BY Zenon, <1>1, <1>2, <1>6 DEF Queued, HeldExact, Taken
<1> QED BY Zenon, <1>2, <1>7, <1>8, <1>9 DEF EngineInv

(* What a worker does that receives a task: it takes it over.                *)
ReceiveTaskEffect(w, t) ==
  /\ wpc[w] = "idle" /\ w \in alive /\ Head(chan[Home(w)]) = t /\ t # STOP
  /\ Popped(w) /\ t \in queue /\ queue' = queue \ {t}
  /\ wtask' = [wtask EXCEPT ![w] = t] /\ wpc' = [wpc EXCEPT ![w] = "received"]
  /\ UNCHANGED alive

(* A receive takes exactly one task out of the channels.                     *)
LEMMA ReceiveTakes ==
  ASSUME EInv, NEW w \in AllWorkers, NEW t, ReceiveTaskEffect(w, t)
  PROVE  InChan' = InChan \ {t}
<1> DEFINE s == chan[Home(w)]
<1>1. EngineInv /\ LanesOK /\ Popped(w) /\ s # <<>> /\ Head(s) = t /\ t # STOP
  BY Zenon DEF EInv, EngineInv, ReceiveTaskEffect, Popped
<1>2. /\ Home(w) \in LaneNames /\ s \in Seq(Tasks \cup {STOP})
      /\ chan'[Home(w)] = Tail(s)
      /\ \A l \in LaneNames : l # Home(w) => chan'[l] = chan[l]
      /\ DOMAIN chan = LaneNames /\ DOMAIN chan' = LaneNames
  BY Zenon, <1>1, PopKeeps
<1>3. InOrder(s) /\ OfLane(s, Home(w))
  BY Zenon, <1>1, <1>2 DEF LanesOK, LaneInv
<1>4. \A u : Holds(Tail(s), u) <=> Holds(s, u) /\ u # t
  BY Zenon, <1>1, <1>2, <1>3, TailInOrder
<1>5. t = s[1] /\ 1 \in 1..Len(s)
  BY Zenon, <1>1, <1>2, ReceiveFacts
<1>6. Lane(t) = Home(w)
  BY Zenon, <1>1, <1>3, <1>5 DEF OfLane
<1>7. \A l \in LaneNames : l # Home(w) => ~Holds(chan[l], t)
  <2>1. \A l \in LaneNames : OfLane(chan[l], l)
    BY Zenon, <1>1 DEF LanesOK, LaneInv
  <2> QED BY Zenon, <1>1, <1>6, <2>1 DEF Holds, OfLane
<1>8. \A u \in Tasks : Holds(chan'[Home(w)], u) <=> Holds(chan[Home(w)], u) /\ u # t
  BY Zenon, <1>2, <1>4
<1> HIDE DEF s
<1>9. \A u \in Tasks : \A l \in LaneNames :
        Holds(chan'[l], u) <=> Holds(chan[l], u) /\ u # t
  BY Zenon, <1>2, <1>7, <1>8
<1> QED BY Zenon, <1>2, <1>9 DEF InChan

(* The unit of a task received is in the worker's hands.                     *)
LEMMA ReceiveTaskKeeps ==
  ASSUME EInv, NEW w \in AllWorkers, NEW t, ReceiveTaskEffect(w, t)
  PROVE  EngineInv'
<1>1. /\ EngineInv /\ LifeType /\ Queued /\ LeftOK /\ StopType /\ CompleteInv /\ HeldExact
      /\ Popped(w) /\ wpc[w] = "idle" /\ w \in alive /\ t \in queue
      /\ queue' = queue \ {t} /\ UNCHANGED alive
      /\ UNCHANGED <<held, started, spc, stops, shutdown_complete>>
  BY Zenon DEF EInv, EngineInv, LifeOK, ReceiveTaskEffect, Popped, UnitsKept
<1>2. /\ ChanType' /\ CallType' /\ CallsOK' /\ LanesOK' /\ GateInv' /\ Counted'
      /\ Reserved' = Reserved
  BY Zenon, <1>1, PopKeeps
<1>3. InChan' = InChan \ {t}
  BY Zenon, ReceiveTakes
<1>4. /\ wpc'[w] = "received" /\ wtask'[w] = t
      /\ \A v \in AllWorkers : v # w => wpc'[v] = wpc[v] /\ wtask'[v] = wtask[v]
  BY Zenon, <1>1 DEF ReceiveTaskEffect, LifeType
<1>5. LeftOK'
  <2> SUFFICES ASSUME NEW v \in AllWorkers, v \notin alive
               PROVE  started' /\ wpc'[v] = "idle" /\ OnlyStop(chan[Home(v)])'
    BY Zenon, <1>1 DEF LeftOK, LeftInv
  <2>1. started /\ v # w /\ wpc[v] = "idle" /\ OnlyStop(chan[Home(v)])
    BY Zenon, <1>1 DEF LeftOK, LeftInv
  <2> QED BY Zenon, <1>1, <1>4, <2>1, PopStops
<1>6. StopType' /\ CompleteInv'
  BY Zenon, <1>1 DEF StopType, CompleteInv
<1>7. Taken' = Taken \cup {t}
  BY Zenon, <1>1, <1>4 DEF Taken
<1>8. Queued' /\ HeldExact'
  BY Zenon, <1>1, <1>2, <1>3, <1>7 DEF Queued, HeldExact
<1> QED BY Zenon, <1>2, <1>5, <1>6, <1>8 DEF EngineInv

(* A task whose unit is still with its submission is in no channel and with  *)
(* no worker.                                                                *)
LEMMA ReservedFresh ==
  ASSUME EngineInv
  PROVE  \A t \in Reserved : t \in Tasks /\ hpc[t] \in {"new", "inserted"}
<1>1. CallsOK
  BY Zenon DEF EngineInv
<1> SUFFICES ASSUME NEW c \in Calls,
                    NEW t \in IF cpc[c] = "reserving" THEN Batch[c] ELSE unsent[c]
             PROVE  t \in Tasks /\ hpc[t] \in {"new", "inserted"}
  BY Zenon DEF Reserved
<1>2. CallInv(c) /\ Batch[c] \in SUBSET Tasks
  BY Zenon, <1>1, BatchFacts DEF CallsOK
<1> QED BY Zenon, <1>2 DEF CallInv

(* What a worker with a task in its hands does; it may give back the unit.   *)
WorkEffect(w, pc) ==
  /\ wpc[w] # "idle" /\ wpc' = [wpc EXCEPT ![w] = pc]
  /\ UNCHANGED <<hpc, wtask>> /\ CallsKept /\ ChannelsKept /\ ShutdownKept

(* Such a worker has not left.                                               *)
LEMMA WorkFrame ==
  ASSUME EInv, NEW w \in AllWorkers, NEW pc, WorkEffect(w, pc), GrantsKept
  PROVE  /\ ChanType' /\ CallType' /\ StopType' /\ CallsOK' /\ LanesOK' /\ Queued'
         /\ LeftOK' /\ GateInv' /\ CompleteInv' /\ Counted'
         /\ wpc'[w] = pc /\ \A v \in AllWorkers : v # w => wpc'[v] = wpc[v]
         /\ UNCHANGED <<hpc, wtask, cpc, unsent, chan>>
<1>1. /\ ChanType /\ CallType /\ StopType /\ CallsOK /\ LanesOK /\ Queued /\ LeftOK
      /\ GateInv /\ CompleteInv /\ Counted /\ LifeType
  BY Zenon DEF EInv, EngineInv, LifeOK
<1>2. /\ UNCHANGED <<hpc, wtask>> /\ CallsKept /\ ChannelsKept /\ ShutdownKept
      /\ UNCHANGED <<cpc, unsent, submitted_count, chan, started, spc, alive>>
      /\ wpc[w] # "idle"
  BY Zenon DEF WorkEffect, CallsKept, ChannelsKept, ShutdownKept
<1>3. wpc'[w] = pc /\ \A v \in AllWorkers : v # w => wpc'[v] = wpc[v]
  BY Zenon, <1>1 DEF WorkEffect, LifeType
<1>4. w \in alive
  BY Zenon, <1>1, <1>2 DEF LeftOK, LeftInv
<1>5. LeftOK'
  BY Zenon, <1>1, <1>2, <1>3, <1>4, LeftFrame
<1>6. ChanType' /\ CallType'
  BY Zenon, <1>1, <1>2 DEF ChanType, CallType
<1>7. CallsOK' /\ LanesOK' /\ Queued' /\ StopType' /\ GateInv' /\ CompleteInv' /\ Counted'
  BY Zenon, <1>1, <1>2, CallFrame, LaneFrame, QueuedFrame, StopFrame, GateFrame,
     CompleteFrame, CountedFrame
<1> QED BY Zenon, <1>2, <1>3, <1>5, <1>6, <1>7

(* The worker gives back the unit of the task it has received.               *)
LEMMA ReleaseUnitKeeps ==
  ASSUME EInv, NEW w \in AllWorkers, wpc[w] = "received", WorkEffect(w, "released"),
         held' = held \ {wtask[w]}, GrantsKept
  PROVE  EngineInv'
<1>1. /\ ChanType' /\ CallType' /\ StopType' /\ CallsOK' /\ LanesOK' /\ Queued'
      /\ LeftOK' /\ GateInv' /\ CompleteInv' /\ Counted'
      /\ wpc'[w] = "released" /\ \A v \in AllWorkers : v # w => wpc'[v] = wpc[v]
      /\ UNCHANGED <<hpc, wtask, cpc, unsent, chan>>
  BY Zenon, WorkFrame
<1>2. EngineInv /\ Queued /\ HeldExact /\ AtWork /\ Apart
  BY Zenon DEF EInv, EngineInv, LifeOK
<1>3. /\ wtask[w] \notin queue /\ hpc[wtask[w]] \notin {"new", "inserted"}
      /\ \A v \in AllWorkers : v # w /\ wpc[v] = "received" => wtask[v] # wtask[w]
  BY Zenon, <1>2 DEF AtWork, Apart
<1>4. wtask[w] \notin Reserved /\ wtask[w] \notin InChan
  BY Zenon, <1>2, <1>3, ReservedFresh DEF Queued
<1>5. Reserved' = Reserved
  BY <1>1, Zenon DEF Reserved, GrantsKept
<1>6. InChan' = InChan
  BY <1>1, Zenon DEF InChan
<1>7. Taken' = Taken \ {wtask[w]}
  BY Zenon, <1>1, <1>3 DEF Taken
<1>8. HeldExact'
  BY Zenon, <1>2, <1>4, <1>5, <1>6, <1>7 DEF HeldExact
<1> QED BY Zenon, <1>1, <1>8 DEF EngineInv

(* A worker runs its task or records its outcome.                            *)
LEMMA WorkerKeeps ==
  ASSUME EInv, NEW w \in AllWorkers, wpc[w] # "received",
         NEW pc, pc # "received", WorkEffect(w, pc), UnitsKept
  PROVE  EngineInv'
<1>1. GrantsKept /\ UNCHANGED held
  BY Zenon DEF GrantsKept, UnitsKept
<1>2. /\ ChanType' /\ CallType' /\ StopType' /\ CallsOK' /\ LanesOK' /\ Queued'
      /\ LeftOK' /\ GateInv' /\ CompleteInv' /\ Counted'
      /\ wpc'[w] = pc /\ \A v \in AllWorkers : v # w => wpc'[v] = wpc[v]
      /\ UNCHANGED <<hpc, wtask, cpc, unsent, chan>>
  BY Zenon, <1>1, WorkFrame
<1>3. Taken' = Taken
  BY Zenon, <1>2 DEF Taken
<1>4. HeldExact'
  BY Zenon, <1>1, <1>2, <1>3, HeldFrame DEF EInv, EngineInv
<1> QED BY Zenon, <1>2, <1>4 DEF EngineInv

(* A cancel, or the close of a handle.                                       *)
LEMMA UserKeeps ==
  ASSUME EInv, CallsKept, ChannelsKept, ShutdownKept, UnitsKept,
         UNCHANGED <<wpc, wtask>>,
         \A t \in Tasks : (hpc[t] \in Unreturned \/ hpc'[t] \in Unreturned)
                          => hpc'[t] = hpc[t]
  PROVE  EngineInv'
<1>1. UNCHANGED <<cpc, unsent, submitted_count, chan, started, spc, held, rpc>>
  BY Zenon DEF CallsKept, ChannelsKept, ShutdownKept, UnitsKept
<1>2. EngineInv /\ CallType /\ CallsOK /\ GateInv /\ Counted /\ HeldExact
  BY Zenon DEF EInv, EngineInv
<1>3. CallsOK'
  <2> SUFFICES ASSUME NEW c \in Calls PROVE CallInv(c)'
    BY Zenon DEF CallsOK
  <2>1. CallInv(c) /\ Batch[c] \in SUBSET Tasks
    BY Zenon, <1>2, BatchFacts DEF CallsOK
  <2> QED BY <1>1, <2>1, Zenon DEF CallInv, Unreturned
<1>4. ChanType' /\ StopType' /\ LanesOK' /\ Queued' /\ LeftOK' /\ CompleteInv'
  BY Zenon, <1>2, CallerFrame
<1>5. GateInv' /\ Counted'
  BY Zenon, <1>1, <1>2, GateFrame, CountedFrame
<1>6. CallType' /\ GrantsKept /\ Taken' = Taken
  BY Zenon, <1>1, <1>2 DEF CallType, GrantsKept, Taken
<1>7. HeldExact'
  BY Zenon, <1>1, <1>2, <1>6, HeldFrame
<1> QED BY Zenon, <1>3, <1>4, <1>5, <1>6, <1>7 DEF EngineInv
-----------------------------------------------------------------------------
(* Shutdown calls and the stopper thread.                                    *)

(* One STOP message for every worker of a lane.                              *)
LEMMA StopsType ==
  ASSUME NEW m \in Nat, NEW n \in Nat
  PROVE  [i \in 1..m |-> "thread"] \o [i \in 1..n |-> "isolated"] \in Seq(LaneNames)
BY SMT, Z3 DEF LaneNames

(* What a shutdown call does: it takes the gate only when nobody sends,      *)
(* starts the stopper only there, and may close admission.                   *)
ShutdownEffect(s, pc) ==
  /\ pc \in ShutdownPC /\ spc' = [spc EXCEPT ![s] = pc]
  /\ pc = "closing" => NoSender
  /\ pc = "returned" /\ s \in Waiting => shutdown_complete
  /\ started' \in BOOLEAN /\ (started => started')
  /\ started' /\ ~started => spc[s] = "closing"
  /\ stops' \in Seq(LaneNames) /\ (~started' => stops' = stops)
  /\ UNCHANGED <<alive, shutdown_complete, held>> /\ GrantsKept
  /\ CallsKept /\ ChannelsKept /\ TasksKept

(* A shutdown call keeps the invariant.                                      *)
LEMMA ShutdownKeeps ==
  ASSUME EInv, NEW s \in Shutdowns, NEW pc, ShutdownEffect(s, pc)
  PROVE  EngineInv'
<1>1. /\ ChanType /\ CallType /\ StopType /\ CallsOK /\ LanesOK /\ Queued /\ LeftOK
      /\ GateInv /\ CompleteInv /\ Counted /\ HeldExact
  BY Zenon DEF EInv, EngineInv
<1>2. /\ CallsKept /\ ChannelsKept /\ GrantsKept /\ (started => started')
      /\ UNCHANGED <<cpc, unsent, submitted_count, chan, hpc, wpc, wtask, alive, held>>
  BY Zenon DEF ShutdownEffect, CallsKept, ChannelsKept, TasksKept
<1>3. /\ spc' \in [Shutdowns -> ShutdownPC] /\ spc'[s] = pc
      /\ \A x \in Shutdowns : x # s => spc'[x] = spc[x]
  BY Zenon, <1>1 DEF ShutdownEffect, StopType
<1>4. StopType'
  BY Zenon, <1>1, <1>2, <1>3 DEF StopType, ShutdownEffect
<1>5. ChanType' /\ CallType' /\ Taken' = Taken
  BY Zenon, <1>1, <1>2 DEF ChanType, CallType, Taken
<1>6. CallsOK' /\ LanesOK' /\ Queued' /\ LeftOK' /\ Counted' /\ HeldExact'
  BY ZenonT(40), <1>1, <1>2, <1>5, CallFrame, LaneFrame, QueuedFrame, LeftFrame, CountedFrame,
     HeldFrame
<1>7. GateInv'
  <2>1. NoSender => NoSender'
    BY Zenon, <1>2 DEF NoSender
  <2>2. ~NoSender => ~started' /\ \A x \in Shutdowns : spc'[x] # "closing"
    BY Zenon, <1>1, <1>3 DEF GateInv, ShutdownEffect
  <2> QED BY Zenon, <2>1, <2>2 DEF GateInv
<1>8. CompleteInv'
  <2>1. \A x \in Waiting : spc'[x] = "returned" => shutdown_complete
    BY Zenon, <1>1, <1>3, EngineAssumption DEF CompleteInv, ShutdownEffect
  <2> QED BY Zenon, <1>1, <2>1 DEF CompleteInv, ShutdownEffect
<1> QED BY Zenon, <1>4, <1>5, <1>6, <1>7, <1>8 DEF EngineInv

(* What the stopper does: it sends one STOP message.                         *)
SendStopEffect(lane) ==
  /\ stops # <<>> /\ lane = Head(stops) /\ stops' = Tail(stops)
  /\ chan' = [chan EXCEPT ![lane] = Append(@, STOP)]
  /\ UNCHANGED <<queue, started, spc, alive, shutdown_complete>>
  /\ CallsKept /\ TasksKept /\ UnitsKept

(* The stopper puts STOP behind whatever is in a channel.                    *)
LEMMA SendStopKeeps ==
  ASSUME EInv, NEW lane, SendStopEffect(lane)
  PROVE  EngineInv'
<1> DEFINE s == chan[lane]
           r == Append(s, STOP)
<1>1. /\ ChanType /\ CallType /\ StopType /\ CallsOK /\ LanesOK /\ Queued /\ LeftOK
      /\ GateInv /\ CompleteInv /\ Counted /\ HeldExact
  BY Zenon DEF EInv, EngineInv
<1>2. /\ CallsKept /\ UNCHANGED <<cpc, unsent, submitted_count, rpc, held>>
      /\ UNCHANGED <<hpc, wpc, wtask, queue, started, spc, alive, shutdown_complete>>
  BY Zenon DEF SendStopEffect, CallsKept, TasksKept, UnitsKept
<1>3. started /\ lane \in LaneNames /\ stops' \in Seq(LaneNames)
  BY SMT, Z3, <1>1, ReceiveFacts DEF SendStopEffect, StopType, CompleteInv
<1>4. s \in Seq(Tasks \cup {STOP}) /\ InOrder(s) /\ OfLane(s, lane)
  BY Zenon, <1>1, <1>3 DEF ChanType, LanesOK, LaneInv
<1>5. r \in Seq(Tasks \cup {STOP}) /\ \A u : Holds(r, u) <=> Holds(s, u) \/ u = STOP
  BY SMT, Z3, <1>4, SendFacts
<1>6. InOrder(r) /\ OfLane(r, lane) /\ (OnlyStop(s) => OnlyStop(r))
  BY Zenon, <1>4, StopBehind
<1>7. chan' = [chan EXCEPT ![lane] = r]
  BY Zenon DEF SendStopEffect
<1> HIDE DEF r
<1>8. /\ ChanType' /\ chan'[lane] = r /\ DOMAIN chan = LaneNames /\ DOMAIN chan' = LaneNames
      /\ \A l \in LaneNames : l # lane => chan'[l] = chan[l]
  BY Zenon, <1>1, <1>3, <1>5, <1>7 DEF ChanType
<1>9. LanesOK'
  <2> SUFFICES ASSUME NEW l \in LaneNames PROVE LaneInv(l)'
    BY Zenon DEF LanesOK
  <2>1. CASE l = lane
    BY Zenon, <1>2, <1>3, <1>6, <1>8, <2>1 DEF LaneInv
  <2>2. CASE l # lane
    BY Zenon, <1>1, <1>2, <1>8, <2>2, SameLane DEF LanesOK
  <2> QED BY Zenon, <2>1, <2>2
<1>10. InChan' = InChan
  <2>1. \A u \in Tasks : Holds(chan'[lane], u) <=> Holds(chan[lane], u)
    BY Zenon, <1>5, <1>8, BatchFacts
  <2>2. \A u \in Tasks : \A l \in LaneNames : Holds(chan'[l], u) <=> Holds(chan[l], u)
    BY Zenon, <1>8, <2>1
  <2> QED BY Zenon, <1>8, <2>2 DEF InChan
<1>11. LeftOK'
  <2> SUFFICES ASSUME NEW w \in AllWorkers, w \notin alive
               PROVE  started' /\ wpc'[w] = "idle" /\ OnlyStop(chan[Home(w)])'
    BY Zenon, <1>2 DEF LeftOK, LeftInv
  <2>1. wpc[w] = "idle" /\ OnlyStop(chan[Home(w)]) /\ Home(w) \in LaneNames
    BY Zenon, <1>1 DEF LeftOK, LeftInv, Home, LaneNames
  <2>2. chan'[Home(w)] = IF Home(w) = lane THEN r ELSE chan[Home(w)]
    BY Zenon, <1>8, <2>1
  <2> QED BY Zenon, <1>2, <1>3, <1>6, <2>1, <2>2 DEF OnlyStop
<1>12. CallsOK' /\ GateInv' /\ Counted'
  BY Zenon, <1>1, <1>2, CallFrame, GateFrame, CountedFrame DEF GrantsKept
<1>13. CallType' /\ StopType' /\ CompleteInv'
  BY Zenon, <1>1, <1>2, <1>3 DEF CallType, StopType, CompleteInv
<1>14. Queued' /\ HeldExact'
  BY Zenon, <1>1, <1>2, <1>10 DEF Queued, HeldExact, Reserved, Taken
<1> QED BY ZenonT(40), <1>8, <1>9, <1>11, <1>12, <1>13, <1>14 DEF EngineInv

(* The stopper announces the end; a step that changes nothing.               *)
LEMMA CompleteKeeps ==
  ASSUME EInv, shutdown_complete' \in BOOLEAN,
         shutdown_complete => shutdown_complete',
         shutdown_complete' => shutdown_complete \/ (started /\ alive = {}),
         UNCHANGED <<started, spc, stops, alive>>,
         CallsKept, ChannelsKept, TasksKept, UnitsKept
  PROVE  EngineInv'
<1>1. /\ ChanType /\ CallType /\ StopType /\ CallsOK /\ LanesOK /\ Queued /\ LeftOK
      /\ GateInv /\ CompleteInv /\ Counted /\ HeldExact
  BY Zenon DEF EInv, EngineInv
<1>2. UNCHANGED <<cpc, unsent, submitted_count, chan, rpc, held, hpc, wpc, wtask>>
  BY Zenon DEF CallsKept, ChannelsKept, TasksKept, UnitsKept
<1>3. ChanType' /\ CallType' /\ StopType' /\ GrantsKept /\ Taken' = Taken
  BY Zenon, <1>1, <1>2 DEF ChanType, CallType, StopType, GrantsKept, Taken
<1>4. CallsOK' /\ LanesOK' /\ Queued' /\ LeftOK' /\ GateInv' /\ Counted' /\ HeldExact'
  BY ZenonT(40), <1>1, <1>2, <1>3, CallFrame, LaneFrame, QueuedFrame, LeftFrame, GateFrame,
     CountedFrame, HeldFrame
<1>5. CompleteInv'
  BY Zenon, <1>1, <1>2 DEF CompleteInv, StopType
<1> QED BY Zenon, <1>3, <1>4, <1>5 DEF EngineInv

(* Everything idle and empty.                                                *)
EngineEmpty ==
  /\ chan = [lane \in LaneNames |-> <<>>]
  /\ cpc = [c \in Calls |-> "idle"] /\ unsent = [c \in Calls |-> {}]
  /\ started = FALSE /\ shutdown_complete = FALSE
  /\ spc = [s \in Shutdowns |-> "idle"] /\ stops = <<>> /\ alive = AllWorkers
  /\ submitted_count = 0 /\ rpc = [c \in Calls |-> "idle"] /\ held = {}
  /\ hpc = [t \in Tasks |-> "new"] /\ queue = {}
  /\ wpc = [w \in AllWorkers |-> "idle"]

(* The engine's part of the invariant holds initially.                       *)
LEMMA EngineInit ==
  ASSUME EngineEmpty, Cardinality({}) = 0
  PROVE  EngineInv
<1>1. ChanType /\ CallType
  BY SMT, Z3 DEF EngineEmpty, ChanType, CallType, CallPC
<1>2. StopType
  <2>1. started \in BOOLEAN /\ shutdown_complete \in BOOLEAN
    BY Zenon DEF EngineEmpty
  <2>2. /\ spc \in [Shutdowns -> ShutdownPC] /\ alive \subseteq AllWorkers
        /\ stops \in Seq(LaneNames)
    BY SMT, Z3 DEF EngineEmpty, ShutdownPC
  <2> QED BY Zenon, <2>1, <2>2 DEF StopType
<1>3. CallsOK
  BY Zenon, BatchFacts DEF CallsOK, CallInv, EngineEmpty
<1>4. \A lane \in LaneNames : chan[lane] = <<>> /\ Len(chan[lane]) = 0
  BY Zenon DEF EngineEmpty
<1>5. LanesOK
  BY SMT, Z3, <1>4 DEF LanesOK, LaneInv, OfLane, InOrder, NoStop
<1>6. InChan = {}
  BY SMT, Z3, <1>4 DEF InChan, EngineEmpty, Holds
<1>7. Taken = {} /\ Reserved = {}
  BY Zenon DEF Taken, Reserved, EngineEmpty
<1>8. Queued /\ HeldExact
  BY Zenon, <1>6, <1>7 DEF Queued, HeldExact, EngineEmpty
<1>9. LeftOK /\ GateInv /\ CompleteInv
  BY Zenon, EngineAssumption DEF LeftOK, LeftInv, GateInv, CompleteInv, EngineEmpty
<1>10. Counted
  <2>1. HandedOut = {}
    BY Zenon DEF HandedOut, Unreturned, EngineEmpty
  <2> QED BY Zenon, <2>1 DEF Counted, EngineEmpty
<1> QED BY Zenon, <1>1, <1>2, <1>3, <1>5, <1>8, <1>9, <1>10 DEF EngineInv
-----------------------------------------------------------------------------
(* What follows from the invariant.                                          *)

(* Lifecycle's invariant on unfinished work: it is with somebody.            *)
Finished == {"Completed", "Failed", "Cancelled"}
Busy == \E w \in AllWorkers : wpc[w] # "idle"

LifePlaces ==
  \A t \in Tasks :
    /\ status[t] \in {"Pending", "Running", "Completed", "Failed", "Cancelled"}
    /\ hpc[t] \in {"new", "inserted"} => status[t] = "Pending"
    /\ status[t] = "Running" => Busy
    /\ status[t] = "Pending" => hpc[t] \in {"new", "inserted"} \/ t \in queue \/ Busy
    /\ status[t] \in Finished /\ ~completed[t]
         => Busy \/ \E k \in Cancels : /\ kpc[k] \in {"record", "result", "signal"}
                                       /\ ktask[k] = t

(* Every set of tasks is finite, and disjoint ones add up.                   *)
LEMMA TaskSets ==
  ASSUME NEW S \in SUBSET Tasks, NEW T \in SUBSET Tasks
  PROVE  /\ IsFiniteSet(S) /\ Cardinality(S) \in Nat
         /\ S \cap T = {} => Cardinality(S \cup T) = Cardinality(S) + Cardinality(T)
<1>1. /\ IsFiniteSet(S) /\ Cardinality(S) \in Nat
      /\ IsFiniteSet(T) /\ Cardinality(T) \in Nat
  BY Zenon, EngineAssumption, FS_Subset, FS_CardinalityType
<1>2. Cardinality(S \cup T) = Cardinality(S) + Cardinality(T) - Cardinality(S \cap T)
  BY Zenon, <1>1, FS_Union
<1>3. S \cap T = {} => Cardinality(S \cap T) = 0
  BY FS_EmptySet, Zenon
<1> QED BY SMT, Z3, <1>1, <1>2, <1>3

(* Every lane has a worker.                                                  *)
LEMMA LaneServed ==
  \A lane \in LaneNames : \E w \in AllWorkers : Home(w) = lane
BY Zenon, EngineAssumption DEF LaneNames, AllWorkers, Home

(* After the announcement no worker is left and nothing is queued or under   *)
(* way, so every task is new or has its outcome.                             *)
LEMMA QuietEngine ==
  ASSUME EInv, LifePlaces, shutdown_complete
  PROVE  /\ alive = {} /\ InChan = {} /\ Taken = {} /\ ~Busy
         /\ \A t \in Tasks : hpc[t] # "new" => status[t] \in Finished
<1>1. /\ ChanType /\ CompleteInv /\ GateInv /\ Queued /\ LeftOK /\ CallsOK
  BY Zenon DEF EInv, EngineInv
<1>2. alive = {} /\ started
  BY Zenon, <1>1 DEF CompleteInv
<1>3. \A w \in AllWorkers : wpc[w] = "idle" /\ OnlyStop(chan[Home(w)])
  BY Zenon, <1>1, <1>2 DEF LeftOK, LeftInv
<1>4. \A lane \in LaneNames : OnlyStop(chan[lane])
  BY Zenon, <1>3, LaneServed
<1>5. InChan = {}
  <2>1. DOMAIN chan = LaneNames
    BY Zenon, <1>1 DEF ChanType
  <2> QED BY SMT, Z3, <1>4, <2>1, BatchFacts DEF InChan, Holds, OnlyStop
<1>6. ~Busy /\ Taken = {}
  BY Zenon, <1>3 DEF Taken, Busy
<1>7. \A t \in Tasks : hpc[t] # "inserted"
  <2> SUFFICES ASSUME NEW t \in Tasks PROVE hpc[t] # "inserted"
    BY Zenon
  <2>1. PICK c \in Calls : t \in Batch[c]
    BY Zenon, BatchFacts
  <2>2. CallInv(c) /\ cpc[c] # "sending"
    BY Zenon, <1>1, <1>2 DEF CallsOK, GateInv, NoSender
  <2> QED BY Zenon, <2>1, <2>2 DEF CallInv, Unreturned
<1>8. ASSUME NEW t \in Tasks, hpc[t] # "new" PROVE status[t] \in Finished
  <2>1. t \notin queue
    BY Zenon, <1>1, <1>5 DEF Queued
  <2> QED BY ZenonT(40), <1>6, <1>7, <1>8, <2>1 DEF LifePlaces, Finished
<1> QED BY Zenon, <1>2, <1>5, <1>6, <1>8

(* The tasks whose handle is out, by outcome.                                *)
With(s) == {t \in Tasks : status[t] = s}

(* What the statistics of a quiet Lifecycle are, in the engine's terms.      *)
StatsOK ==
  (\A w \in AllWorkers : wpc[w] = "idle") /\ (\A k \in Cancels : kpc[k] \in {"idle", "true", "false"})
    => /\ running_count = 0
       /\ completed_count = Cardinality(With("Completed"))
       /\ failed_count = Cardinality(With("Failed"))
       /\ cancelled_count = Cardinality(With("Cancelled"))

(* The statistics of a finished engine.                                      *)
LEMMA BooksFromInv ==
  ASSUME EInv, LifePlaces, StatsOK, available \in Nat,
         available + Cardinality(held) = Capacity
  PROVE  BooksBalance
<1> SUFFICES ASSUME shutdown_complete,
                    \A c \in Calls : cpc[c] \in CallEnded \cup {"idle"},
                    \A k \in Cancels : kpc[k] \in {"idle", "true", "false"}
             PROVE  /\ submitted_count = completed_count + failed_count
                                         + cancelled_count
                    /\ available = Capacity /\ running_count = 0
  BY Zenon DEF BooksBalance
<1> DEFINE X == With("Completed")
           Y == With("Failed")
           Z == With("Cancelled")
<1>1. /\ InChan = {} /\ Taken = {} /\ ~Busy
      /\ \A t \in Tasks : hpc[t] # "new" => status[t] \in Finished
  BY Zenon, QuietEngine
<1>2. HeldExact /\ Counted /\ CallsOK
  BY Zenon DEF EInv, EngineInv
<1>3. /\ running_count = 0
      /\ completed_count = Cardinality(X)
      /\ failed_count = Cardinality(Y)
      /\ cancelled_count = Cardinality(Z)
  BY Zenon, <1>1 DEF Busy, StatsOK
<1>4. HandedOut = (X \cup Y) \cup Z
  <2>1. \A t \in Tasks : hpc[t] # "sent"
    <3> SUFFICES ASSUME NEW t \in Tasks PROVE hpc[t] # "sent"
      BY Zenon
    <3>1. PICK c \in Calls : t \in Batch[c]
      BY Zenon, BatchFacts
    <3>2. CallInv(c) /\ cpc[c] # "sending"
      BY Zenon, <1>2 DEF CallsOK, CallEnded
    <3> QED BY Zenon, <3>1, <3>2 DEF CallInv, Unreturned
  <2>2. \A t \in Tasks : hpc[t] \notin Unreturned <=> status[t] \in Finished
    BY Zenon, <1>1, <2>1 DEF LifePlaces, Unreturned, Finished
  <2> QED BY Zenon, <2>2 DEF HandedOut, With, Finished
<1>5. /\ X \in SUBSET Tasks /\ Y \in SUBSET Tasks /\ Z \in SUBSET Tasks
      /\ X \cup Y \in SUBSET Tasks /\ X \cap Y = {} /\ (X \cup Y) \cap Z = {}
  BY Zenon DEF With
<1> HIDE DEF X, Y, Z
<1>6. submitted_count = completed_count + failed_count + cancelled_count
  <2>1. Cardinality(X \cup Y) = Cardinality(X) + Cardinality(Y)
    BY Zenon, <1>5, TaskSets
  <2>2. Cardinality((X \cup Y) \cup Z) = Cardinality(X \cup Y) + Cardinality(Z)
    BY Zenon, <1>5, TaskSets
  <2> QED BY ZenonT(40), <1>2, <1>3, <1>4, <2>1, <2>2 DEF Counted
<1>7. held = {}
  <2>1. Reserved = {}
    <3>1. \A c \in Calls : cpc[c] # "reserving" /\ unsent[c] = {}
      BY Zenon, <1>2 DEF CallsOK, CallInv, CallEnded
    <3> QED BY Zenon, <3>1 DEF Reserved
  <2> QED BY Zenon, <1>1, <1>2, <2>1 DEF HeldExact
<1>8. available = Capacity
  BY SMT, Z3, <1>7, FS_EmptySet
<1> QED BY Zenon, <1>3, <1>6, <1>8

(* A sequence without duplicates is as long as its set of elements is large. *)
LEMMA CountElements ==
  ASSUME NEW s, Len(s) \in Nat, NEW T, s \in [1..Len(s) -> T],
         \A i, j \in 1..Len(s) : i < j => s[i] # s[j]
  PROVE  Cardinality({s[i] : i \in 1..Len(s)}) = Len(s)
<1> DEFINE n == Len(s)
           R == {s[i] : i \in 1..n}
<1>1. n \in Nat
  BY Zenon
<1>2. s \in [1..n -> R] /\ \A r \in R : \E i \in 1..n : s[i] = r
  BY Zenon
<1>3. \A i, j \in 1..n : s[i] = s[j] => i = j
  BY SMT, Z3
<1> HIDE DEF n, R
<1>4. s \in Bijection(1..n, R)
  BY Zenon, <1>2, <1>3 DEF Bijection, Injection, Surjection, IsInjective
<1>5. ExistsBijection(1..n, R)
  BY <1>4, Zenon DEF ExistsBijection
<1>6. Cardinality(R) = n
  BY Zenon, <1>1, <1>5, FS_CountingElements
<1> QED BY <1>6, Zenon DEF n, R

(* The reservation pays for the send.                                        *)
LEMMA SendFromInv ==
  ASSUME EInv, held \in SUBSET Tasks, available \in Nat,
         available + Cardinality(held) = Capacity
  PROVE  SendNeverFails
<1> SUFFICES ASSUME NEW c \in Calls, unsent[c] # {}
             PROVE  LET lane == Lane(CHOOSE t \in unsent[c] : TRUE) IN
                    /\ Len(chan[lane]) + Cardinality(unsent[c]) <= Capacity
                    /\ \E w \in alive : Home(w) = lane
  BY Zenon DEF SendNeverFails
<1> DEFINE lane == Lane(CHOOSE t \in unsent[c] : TRUE)
           s == chan[lane]
           R == {s[i] : i \in 1..Len(s)}
           U == unsent[c]
<1>1. /\ ChanType /\ HeldExact /\ GateInv /\ Queued /\ CallInv(c) /\ Sent
      /\ LanesOK /\ LeftOK
  BY Zenon DEF EInv, EngineInv, CallsOK, LifeOK
<1>2. cpc[c] = "sending" /\ rpc[c] = "granted" /\ ~started
  BY Zenon, <1>1 DEF CallInv, GateInv, NoSender
<1>3. lane \in LaneNames
  BY Zenon DEF Lane, LaneNames
<1> HIDE DEF lane
<1>4. \E w \in alive : Home(w) = lane
  BY Zenon, <1>1, <1>2, <1>3, LaneServed DEF LeftOK, LeftInv
<1>5. s \in Seq(Tasks \cup {STOP}) /\ DOMAIN chan = LaneNames
  BY Zenon, <1>1, <1>3 DEF ChanType
<1>6. NoStop(s) /\ InOrder(s)
  BY Zenon, <1>1, <1>2, <1>3 DEF LanesOK, LaneInv
<1> HIDE DEF s
<1>7. Len(s) \in Nat /\ s \in [1..Len(s) -> Tasks \cup {STOP}]
  BY SMT, Z3, <1>5
<1>8. /\ R \in SUBSET Tasks
      /\ \A i, j \in 1..Len(s) : i < j => s[i] # s[j]
  BY Zenon, <1>6, <1>7 DEF NoStop, InOrder
<1>9. Cardinality(R) = Len(s)
  BY Zenon, <1>7, <1>8, CountElements
<1>10. R \subseteq InChan
  <2>1. \A u \in R : Holds(chan[lane], u)
    BY Zenon DEF Holds, s
  <2> QED BY Zenon, <1>3, <1>5, <1>8, <2>1 DEF InChan
<1> HIDE DEF R
<1>11. U \subseteq held /\ R \subseteq held
  <2>1. U \subseteq Reserved
    BY Zenon, <1>2 DEF Reserved
  <2> QED BY Zenon, <1>1, <1>10, <2>1 DEF HeldExact
<1>12. R \cap U = {}
  <2>1. \A t \in U : hpc[t] = "inserted"
    BY Zenon, <1>1, <1>2 DEF CallInv
  <2>2. \A t \in R : hpc[t] # "inserted"
    BY Zenon, <1>1, <1>10 DEF Queued, Sent
  <2> QED BY Zenon, <2>1, <2>2
<1>13. U \in SUBSET Tasks
  BY Zenon, <1>11
<1> HIDE DEF U
<1>14. /\ Cardinality(R \cup U) = Cardinality(R) + Cardinality(U)
       /\ Cardinality(U) \in Nat
  BY Zenon, <1>8, <1>12, <1>13, TaskSets
<1>15. Cardinality(R \cup U) <= Cardinality(held) /\ Cardinality(held) \in Nat
  <2>1. IsFiniteSet(held) /\ Cardinality(held) \in Nat
    BY Zenon, TaskSets
  <2> QED BY Zenon, <1>11, <2>1, FS_Subset
<1>16. Len(s) + Cardinality(U) <= Capacity
  BY SMT, Z3, <1>7, <1>9, <1>14, <1>15
<1> QED BY <1>4, <1>16, Zenon DEF lane, s, U
=============================================================================
