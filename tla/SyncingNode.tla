---------------------------- MODULE SyncingNode ----------------------------
(***************************************************************************)
(* The election of the syncing node of a chain (services/p2p.ts, the       *)
(* syncingNode field of models/state.ts): the one of several processes     *)
(* that keeps the index of UtxoIndex.  The field holds the last heart-beat *)
(* of the syncing node; a process writes its own over it when the field    *)
(* still holds what the process read, or nothing.                          *)
(*                                                                         *)
(* Time passes in ticks of the length of refreshSyncingNode's wait.  Only  *)
(* ages of heart-beats matter, up to Lease, and whether what a process has *)
(* read is what the field still holds: no two heart-beats are equal, as    *)
(* they hold the process and the time.                                     *)
(***************************************************************************)
EXTENDS Integers, FiniteSets

CONSTANTS
  Nodes,
  Nobody,       \* the owner of a field that is not set
  Former,       \* the owner of a heart-beat whose process is gone
  Lease,        \* syncingNodeLeaseMs, in ticks
  MaxStalls,    \* bound: ticks that pass while a process or the database is late
  MaxStops      \* bound: processes that are stopped or killed

ASSUME ElectionAssumption ==
  /\ {Nobody, Former} \cap Nodes = {} /\ Nobody # Former
  /\ Lease \in Nat \ {0} /\ MaxStalls \in Nat /\ MaxStops \in Nat

VARIABLES
  field,     \* state.syncingNode: the owner of the heart-beat and its age
  pc,        \* node -> where refreshSyncingNode is
  stopping,  \* node -> how far stop() is
  view,      \* node -> lastHeartBeat, and whether the field still holds it
  was,       \* node -> wasSyncingNode
  flag,      \* node -> isSyncingNode
  timers,    \* node -> queuedRegistrations: time left, whether the field still
             \* holds the heart-beat the timer was queued with, and whether the
             \* process that sent its write is gone
  syncing,   \* node -> sync() runs
  stalls, stops

vars == <<field, pc, stopping, view, was, flag, timers, syncing, stalls, stops>>

Unset == [owner |-> Nobody, age |-> 0]
NoView == [owner |-> Nobody, age |-> 0, held |-> FALSE]

\* getIsSyncingNode: the heart-beat is this process's own, and fresh.
IsSyncing(n, heartBeat) == heartBeat.owner = n /\ heartBeat.age < Lease

Init ==
  /\ field = Unset
  /\ pc = [n \in Nodes |-> "loop"]
  /\ stopping = [n \in Nodes |-> "no"]
  /\ view = [n \in Nodes |-> NoView]
  /\ was = [n \in Nodes |-> FALSE]
  /\ flag = [n \in Nodes |-> FALSE]
  /\ timers = [n \in Nodes |-> {}]
  /\ syncing = [n \in Nodes |-> FALSE]
  /\ stalls = 0 /\ stops = 0

\* A timer that is due may have run: clearTimeout does not stop its write.
Due(n) == {timer \in timers[n] : timer.left = 0}

\* What was read of the field before it is written is no longer in it.
Forgotten == [n \in Nodes |-> [view[n] EXCEPT !.held = FALSE]]
Outdated == [n \in Nodes |-> {[timer EXCEPT !.held = FALSE] : timer \in timers[n]}]
-----------------------------------------------------------------------------
(* refreshSyncingNode                                                      *)

BeginRefresh(n) ==
  /\ pc[n] = "loop" /\ stopping[n] = "no"
  /\ was' = [was EXCEPT ![n] = IsSyncing(n, view[n])]
  /\ pc' = [pc EXCEPT ![n] = "read"]
  /\ UNCHANGED <<field, stopping, view, flag, timers, syncing, stalls, stops>>

\* Fault: a secondary does not wait for the lease to run out.
HastyDelay(primary) == IF primary THEN 0 ELSE 1

\* registerSyncingNode: at once for the syncing node and for an empty field.
Delay(primary) == IF primary THEN 0 ELSE Lease

\* A syncing node that is no longer one throws, and is stopped, unless its
\* heart-beat was old before it looked; a new one starts a sync.  A round that
\* has begun goes on after stop().
Refresh(n) ==
  /\ pc[n] = "read"
  /\ LET read == [owner |-> field.owner, age |-> field.age, held |-> TRUE]
         now == IsSyncing(n, read)
         primary == read.owner = Nobody \/ now
     IN /\ view' = [view EXCEPT ![n] = read]
        /\ flag' = [flag EXCEPT ![n] = now]
        /\ IF was[n] /\ ~ now
           THEN /\ stopping' = [stopping EXCEPT ![n] = IF @ = "no" THEN "asked" ELSE @]
                /\ \E sent \in SUBSET Due(n) : timers' = [timers EXCEPT ![n] = sent]
                /\ UNCHANGED syncing
           ELSE /\ timers' = [timers EXCEPT ![n] = @ \cup
                                {[left |-> Delay(primary), held |-> TRUE, gone |-> FALSE]}]
                /\ syncing' = [syncing EXCEPT ![n] = @ \/ (~ was[n] /\ now)]
                /\ UNCHANGED stopping
  /\ pc' = [pc EXCEPT ![n] = "wait"]
  /\ UNCHANGED <<field, was, stalls, stops>>

\* Fault: the write does not ask what the field holds.
Unconditional(timer) == TRUE

\* Fault: the query does not match a state without the field.
OnlyHeld(timer) == field.owner # Nobody /\ timer.held

\* The query of selfNominateSyncingNode.
MayNominate(timer) == field.owner = Nobody \/ timer.held

\* A queued registration whose time has come: its write arrives, whatever has
\* become of the process.
Nominate(n) ==
  \E timer \in Due(n) :
    /\ IF MayNominate(timer)
       THEN /\ field' = [owner |-> IF timer.gone THEN Former ELSE n, age |-> 0]
            /\ view' = Forgotten
            /\ timers' = [Outdated EXCEPT ![n] =
                 {[other EXCEPT !.held = FALSE] : other \in timers[n] \ {timer}}]
       ELSE /\ timers' = [timers EXCEPT ![n] = @ \ {timer}]
            /\ UNCHANGED <<field, view>>
    /\ UNCHANGED <<pc, stopping, was, flag, syncing, stalls, stops>>

\* The sync comes to its end; a block of a peer starts another one.
EndSync(n) ==
  /\ syncing[n] /\ pc[n] # "down"
  /\ syncing' = [syncing EXCEPT ![n] = FALSE]
  /\ UNCHANGED <<field, pc, stopping, view, was, flag, timers, stalls, stops>>

PeerBlock(n) ==
  /\ flag[n] /\ ~ syncing[n] /\ pc[n] # "down"
  /\ syncing' = [syncing EXCEPT ![n] = TRUE]
  /\ UNCHANGED <<field, pc, stopping, view, was, flag, timers, stalls, stops>>
-----------------------------------------------------------------------------
(* Stopping, dying, starting.                                              *)

Stop(n) ==
  /\ stops < MaxStops /\ stopping[n] = "no" /\ pc[n] # "down"
  /\ stops' = stops + 1
  /\ stopping' = [stopping EXCEPT ![n] = "asked"]
  /\ \E sent \in SUBSET Due(n) : timers' = [timers EXCEPT ![n] = sent]
  /\ UNCHANGED <<field, pc, view, was, flag, syncing, stalls>>

\* unregisterSyncingNode clears the field when it holds a fresh heart-beat of
\* this process.
Resign(n) ==
  /\ stopping[n] = "asked"
  /\ stopping' = [stopping EXCEPT ![n] = "resigned"]
  /\ IF IsSyncing(n, field)
     THEN /\ field' = Unset
          /\ view' = [Forgotten EXCEPT ![n] = [owner |-> n, age |-> field.age, held |-> FALSE]]
          /\ timers' = Outdated
     ELSE /\ view' = [view EXCEPT ![n] = [owner |-> field.owner, age |-> field.age,
                                         held |-> TRUE]]
          /\ UNCHANGED <<field, timers>>
  /\ UNCHANGED <<pc, was, flag, syncing, stalls, stops>>

\* The process ends: it has stopped, or it is killed.
Exit(n) ==
  /\ \/ stopping[n] = "resigned" /\ UNCHANGED stops
     \/ stops < MaxStops /\ stops' = stops + 1
  /\ pc[n] # "down"
  /\ pc' = [pc EXCEPT ![n] = "down"]
  /\ stopping' = [stopping EXCEPT ![n] = "no"]
  /\ view' = [view EXCEPT ![n] = NoView]
  /\ was' = [was EXCEPT ![n] = FALSE]
  /\ flag' = [flag EXCEPT ![n] = FALSE]
  /\ \E sent \in SUBSET Due(n) :
       timers' = [timers EXCEPT ![n] = {[timer EXCEPT !.gone = TRUE] : timer \in sent}]
  /\ syncing' = [syncing EXCEPT ![n] = FALSE]
  /\ field' = IF field.owner = n THEN [field EXCEPT !.owner = Former] ELSE field
  /\ UNCHANGED stalls

\* A process manager starts it again, under another process number.
Start(n) ==
  /\ pc[n] = "down"
  /\ pc' = [pc EXCEPT ![n] = "loop"]
  /\ UNCHANGED <<field, stopping, view, was, flag, timers, syncing, stalls, stops>>
-----------------------------------------------------------------------------
Aged(heartBeat) ==
  [heartBeat EXCEPT !.age = IF @ < Lease /\ heartBeat.owner # Nobody THEN @ + 1 ELSE @]

\* Every loop has come round, and every timer that was due has run and written.
InTime ==
  /\ \A n \in Nodes : pc[n] \in {"wait", "down"} \/ (pc[n] = "loop" /\ stopping[n] # "no")
  /\ \A n \in Nodes : \A timer \in timers[n] : timer.left > 0

Tick ==
  /\ IF InTime THEN UNCHANGED stalls
     ELSE stalls < MaxStalls /\ stalls' = stalls + 1
  /\ field' = Aged(field)
  /\ view' = [n \in Nodes |-> Aged(view[n])]
  /\ timers' = [n \in Nodes |->
       {[timer EXCEPT !.left = IF @ > 0 THEN @ - 1 ELSE 0] : timer \in timers[n]}]
  /\ pc' = [n \in Nodes |-> IF pc[n] = "wait" THEN "loop" ELSE pc[n]]
  /\ UNCHANGED <<stopping, was, flag, syncing, stops>>

Step(n) == BeginRefresh(n) \/ Refresh(n) \/ Nominate(n) \/ Resign(n)

Next ==
  \/ \E n \in Nodes : Step(n) \/ EndSync(n) \/ PeerBlock(n)
  \/ \E n \in Nodes : Stop(n) \/ Exit(n) \/ Start(n)
  \/ Tick

\* Processes run, time passes, and a process that is gone is started again.
Fairness ==
  /\ \A n \in Nodes : WF_vars(Step(n)) /\ WF_vars(Start(n))
                    /\ WF_vars(stopping[n] = "resigned" /\ Exit(n))
  /\ WF_vars(Tick)

Spec == Init /\ [][Next]_vars /\ Fairness
-----------------------------------------------------------------------------
(* Properties.                                                             *)

Ages == 0..Lease

TypeOK ==
  /\ field \in [owner : Nodes \cup {Nobody, Former}, age : Ages]
  /\ pc \in [Nodes -> {"loop", "read", "wait", "down"}]
  /\ stopping \in [Nodes -> {"no", "asked", "resigned"}]
  /\ view \in [Nodes -> [owner : Nodes \cup {Nobody, Former}, age : Ages, held : BOOLEAN]]
  /\ was \in [Nodes -> BOOLEAN] /\ flag \in [Nodes -> BOOLEAN]
  /\ timers \in [Nodes -> SUBSET [left : Ages, held : BOOLEAN, gone : BOOLEAN]]
  /\ syncing \in [Nodes -> BOOLEAN]

\* Two processes never both take themselves for the syncing node, however late
\* their timers and the database are; one that has resigned has its heart-beat
\* until it is gone.
OneSyncingNode ==
  /\ TypeOK
  /\ LET Syncing == {n \in Nodes : IsSyncing(n, view[n]) /\ stopping[n] # "resigned"}
     IN \A m, n \in Syncing : m = n

\* Nobody takes the field over from a syncing node whose heart-beat is fresh,
\* nor does the late write of a process that is gone: the timer of a secondary
\* ends after the lease it was queued with.
FreshIsNotReplaced ==
  [][\A n \in Nodes : IsSyncing(n, field) /\ stopping[n] = "no" =>
       field'.owner = n \/ (field'.owner = Former /\ pc'[n] = "down")]_vars

\* While every process is in time, two syncs overlap only when one of the
\* processes is stopping.
SyncsAlone ==
  stalls = 0 =>
    \A m, n \in Nodes : m # n /\ syncing[m] /\ syncing[n] =>
      stopping[m] # "no" \/ stopping[n] # "no"

\* Processes stop, die and start again, and there is always a syncing node in
\* the end.
SomeoneSyncs == []<>(\E n \in Nodes : flag[n])
=============================================================================
