------------------------- MODULE SyncingNode_proofs -------------------------
(***************************************************************************)
(* Proofs about SyncingNode: there is one syncing node, its fresh          *)
(* heart-beat is not replaced, and while every process is in time it syncs *)
(* alone.                                                                  *)
(***************************************************************************)
EXTENDS SyncingNode, TLAPS

(* A timer that can still write the field belongs to the process whose     *)
(* heart-beat it is to replace, or comes due when the lease has run out;   *)
(* that of a process now gone replaces none of a process.                  *)
TimersRight ==
  \A n \in Nodes : \A timer \in timers[n] : timer.held =>
    \/ field.owner \in {Nobody, IF timer.gone THEN Former ELSE n}
    \/ field.age + timer.left >= Lease

(* A process that takes itself for the syncing node owns the field.        *)
ViewsRight ==
  \A n \in Nodes : IsSyncing(n, view[n]) /\ stopping[n] # "resigned" =>
    field.owner = n /\ field.age <= view[n].age

DownHasNothing ==
  \A n \in Nodes : pc[n] = "down" =>
    /\ \A timer \in timers[n] : timer.gone
    /\ view[n] = NoView /\ ~ flag[n] /\ ~ syncing[n]
    /\ stopping[n] = "no" /\ field.owner # n

ElectionInv == TypeOK /\ TimersRight /\ ViewsRight /\ DownHasNothing

LEMMA InitElection == Init => ElectionInv
  BY ElectionAssumption
  DEF Init, Unset, NoView, ElectionInv, TypeOK, Ages, TimersRight, ViewsRight, DownHasNothing, IsSyncing

(* What a write of the field and a tick make of a timer and of a view.      *)
Timer == [left : Ages, held : BOOLEAN, gone : BOOLEAN]
View == [owner : Nodes \cup {Nobody, Former}, age : Ages, held : BOOLEAN]
Shortened(timer) == [timer EXCEPT !.left = IF @ > 0 THEN @ - 1 ELSE 0]

LEMMA TimerChanges ==
  ASSUME NEW timer \in Timer
  PROVE  /\ [timer EXCEPT !.held = FALSE] \in Timer
         /\ ~ [timer EXCEPT !.held = FALSE].held
         /\ [timer EXCEPT !.held = FALSE].gone = timer.gone
         /\ Shortened(timer).gone = timer.gone
         /\ Shortened(timer) \in Timer
         /\ Shortened(timer).held = timer.held
         /\ Shortened(timer).left = IF timer.left > 0 THEN timer.left - 1 ELSE 0
<1>1. timer.left \in 0 .. Lease /\ timer.held \in BOOLEAN /\ timer.gone \in BOOLEAN
  BY DEF Timer, Ages
<1>2. (IF timer.left > 0 THEN timer.left - 1 ELSE 0) \in 0 .. Lease
  BY <1>1, ElectionAssumption
<1> QED
  BY <1>1, <1>2 DEF Timer, Ages, Shortened

LEMMA DelayInAges == \A primary \in BOOLEAN : Delay(primary) \in Ages
  BY ElectionAssumption DEF Delay, Ages

LEMMA ViewChanges ==
  ASSUME NEW v \in View
  PROVE  /\ [v EXCEPT !.held = FALSE] \in View
         /\ [v EXCEPT !.held = FALSE].owner = v.owner
         /\ [v EXCEPT !.held = FALSE].age = v.age
         /\ v = NoView => [v EXCEPT !.held = FALSE] = NoView /\ Aged(v) = NoView
         /\ Aged(v) \in View
         /\ Aged(v).owner = v.owner
         /\ Aged(v).age = IF v.age < Lease /\ v.owner # Nobody THEN v.age + 1 ELSE v.age
<1> DEFINE older == IF v.age < Lease /\ v.owner # Nobody THEN v.age + 1 ELSE v.age
<1>1. v.age \in 0 .. Lease
  BY DEF View, Ages
<1>2. older \in 0 .. Lease
  BY <1>1, ElectionAssumption
<1>3. Aged(v) = [v EXCEPT !.age = older]
  BY DEF Aged
<1> HIDE DEF older
<1>4. Aged(v) \in View /\ Aged(v).owner = v.owner /\ Aged(v).age = older
  BY <1>2, <1>3 DEF View, Ages
<1>5. v = NoView => Aged(v) = NoView /\ [v EXCEPT !.held = FALSE] = NoView
  <2> SUFFICES ASSUME v = NoView PROVE Aged(v) = NoView /\ [v EXCEPT !.held = FALSE] = NoView
    OBVIOUS
  <2>1. older = 0
    BY DEF older, NoView
  <2> QED
    BY <1>3, <2>1 DEF NoView
<1>6. /\ [v EXCEPT !.held = FALSE] \in View
      /\ [v EXCEPT !.held = FALSE].owner = v.owner
      /\ [v EXCEPT !.held = FALSE].age = v.age
  BY DEF View
<1> QED
  BY <1>4, <1>5, <1>6 DEF older

(* A write of the field leaves no timer that can write it again, and none  *)
(* of a process that is gone gets a process again.                         *)
AllGone(m) == \A timer \in timers[m] : timer.gone

LEMMA WritesOutdate ==
  ASSUME ElectionInv, NEW n \in Nodes, NEW timer,
         \/ timers' = Outdated
         \/ timers' = [Outdated EXCEPT ![n] =
              {[other EXCEPT !.held = FALSE] : other \in timers[n] \ {timer}}]
  PROVE  /\ timers' \in [Nodes -> SUBSET Timer]
         /\ \A m \in Nodes : /\ \A other \in timers'[m] : ~ other.held
                             /\ AllGone(m) => AllGone(m)'
<1>1. timers \in [Nodes -> SUBSET Timer]
  BY DEF ElectionInv, TypeOK, Timer
<1>2. \A m \in Nodes : \E kept \in SUBSET timers[m] :
        timers'[m] = {[other EXCEPT !.held = FALSE] : other \in kept}
  <2>1. timers[n] \ {timer} \in SUBSET timers[n]
    OBVIOUS
  <2> QED
    BY <1>1, <2>1 DEF Outdated
<1>3. DOMAIN timers' = Nodes /\ timers' = [m \in Nodes |-> timers'[m]]
  BY DEF Outdated
<1>4. \A m \in Nodes : \A new \in timers'[m] :
        \E old \in timers[m] : new = [old EXCEPT !.held = FALSE] /\ old \in Timer
  BY <1>1, <1>2
<1>5. \A m \in Nodes : \A new \in timers'[m] :
        new \in Timer /\ ~ new.held /\ (AllGone(m) => new.gone)
  <2> TAKE m \in Nodes
  <2> TAKE new \in timers'[m]
  <2>1. PICK old \in timers[m] : new = [old EXCEPT !.held = FALSE] /\ old \in Timer
    BY <1>4
  <2> QED
    BY <2>1, TimerChanges DEF AllGone
<1> QED
  BY <1>3, <1>5 DEF AllGone

LEMMA WritesForget ==
  ASSUME ElectionInv
  PROVE  /\ Forgotten \in [Nodes -> View]
         /\ \A m \in Nodes : /\ Forgotten[m].owner = view[m].owner
                             /\ Forgotten[m].age = view[m].age
                             /\ view[m] = NoView => Forgotten[m] = NoView
<1>1. view \in [Nodes -> View]
  BY DEF ElectionInv, TypeOK, View
<1> QED
  BY <1>1, ViewChanges DEF Forgotten

LEMMA NextElection == ElectionInv /\ [Next]_vars => ElectionInv'
<1> SUFFICES ASSUME ElectionInv, [Next]_vars PROVE ElectionInv'
  OBVIOUS
<1> USE ElectionAssumption DEF ElectionInv, TypeOK, Ages, IsSyncing, Timer, View
<1>1. CASE UNCHANGED vars
  BY <1>1 DEF vars, TimersRight, ViewsRight, DownHasNothing
<1>2. ASSUME NEW n \in Nodes, BeginRefresh(n) PROVE ElectionInv'
  BY <1>2 DEF BeginRefresh, TimersRight, ViewsRight, DownHasNothing
<1>3. ASSUME NEW n \in Nodes, Refresh(n) PROVE ElectionInv'
  <2> DEFINE read == [owner |-> field.owner, age |-> field.age, held |-> TRUE]
             now == read.owner = n /\ read.age < Lease
             new == [left |-> Delay(read.owner = Nobody \/ now), held |-> TRUE, gone |-> FALSE]
  <2>1. read \in View /\ now \in BOOLEAN
    OBVIOUS
  <2>2. new \in Timer
    BY DelayInAges
  <2>3. /\ pc[n] = "read" /\ pc' = [pc EXCEPT ![n] = "wait"]
        /\ view' = [view EXCEPT ![n] = read]
        /\ flag' = [flag EXCEPT ![n] = now]
        /\ UNCHANGED <<field, was>>
    BY <1>3 DEF Refresh
  <2>4. \/ /\ stopping' = [stopping EXCEPT ![n] = IF @ = "no" THEN "asked" ELSE @]
           /\ \E sent \in SUBSET Due(n) : timers' = [timers EXCEPT ![n] = sent]
           /\ UNCHANGED syncing
        \/ /\ timers' = [timers EXCEPT ![n] = @ \cup {new}]
           /\ syncing' = [syncing EXCEPT ![n] = @ \/ (~ was[n] /\ now)]
           /\ UNCHANGED stopping
    BY <1>3 DEF Refresh
  <2> HIDE DEF read, now, new
  <2>5. TypeOK'
    <3>1. \A sent \in SUBSET Due(n) : sent \in SUBSET Timer
      BY DEF Due
    <3>2. timers' \in [Nodes -> SUBSET Timer]
      BY <2>2, <2>4, <3>1
    <3> QED
      BY <2>1, <2>3, <2>4, <3>2
  <2>6. TimersRight'
    BY <2>3, <2>4 DEF Delay, Due, TimersRight, new, now, read
  <2>7. ViewsRight'
    BY <2>3, <2>4 DEF ViewsRight, read
  <2>8. DownHasNothing'
    BY <2>3, <2>4 DEF DownHasNothing
  <2> QED
    BY <2>5, <2>6, <2>7, <2>8
<1>4. ASSUME NEW n \in Nodes, Nominate(n) PROVE ElectionInv'
  <2> DEFINE owner(timer) == IF timer.gone THEN Former ELSE n
  <2>1. PICK timer \in timers[n] :
          /\ timer.left = 0
          /\ \/ /\ MayNominate(timer)
                /\ field' = [owner |-> owner(timer), age |-> 0]
                /\ view' = Forgotten
                /\ timers' = [Outdated EXCEPT ![n] =
                     {[other EXCEPT !.held = FALSE] : other \in timers[n] \ {timer}}]
             \/ /\ timers' = [timers EXCEPT ![n] = @ \ {timer}]
                /\ UNCHANGED <<field, view>>
          /\ UNCHANGED <<pc, stopping, was, flag, syncing>>
    BY <1>4 DEF Nominate, Due
  <2>2. CASE UNCHANGED <<field, view>> /\ timers' = [timers EXCEPT ![n] = @ \ {timer}]
    BY <2>1, <2>2 DEF TimersRight, ViewsRight, DownHasNothing
  <2>3. CASE /\ MayNominate(timer)
             /\ field' = [owner |-> owner(timer), age |-> 0]
             /\ view' = Forgotten
             /\ timers' = [Outdated EXCEPT ![n] =
                  {[other EXCEPT !.held = FALSE] : other \in timers[n] \ {timer}}]
    <3>1. /\ timers' \in [Nodes -> SUBSET Timer]
          /\ \A m \in Nodes : /\ \A other \in timers'[m] : ~ other.held
                              /\ AllGone(m) => AllGone(m)'
      BY <2>3, WritesOutdate
    <3>2. /\ view' \in [Nodes -> View]
          /\ \A m \in Nodes : /\ view'[m].owner = view[m].owner
                              /\ view'[m].age = view[m].age
                              /\ view[m] = NoView => view'[m] = NoView
      BY <2>3, WritesForget
    <3>3. TypeOK'
      BY <2>1, <2>3, <3>1, <3>2
    <3>4. TimersRight'
      BY <3>1 DEF TimersRight
    <3>5. ASSUME NEW m \in Nodes, view[m].owner = m, view[m].age < Lease,
                 stopping[m] # "resigned"
          PROVE  m = n /\ ~ timer.gone
      BY <2>1, <2>3, <3>5 DEF TimersRight, ViewsRight, MayNominate
    <3>6. ViewsRight'
      BY <2>1, <2>3, <3>2, <3>5 DEF ViewsRight
    <3>7. DownHasNothing'
      BY <2>1, <2>3, <3>1, <3>2 DEF DownHasNothing, AllGone
    <3> QED
      BY <3>3, <3>4, <3>6, <3>7
  <2> QED
    BY <2>1, <2>2, <2>3
<1>5. ASSUME NEW n \in Nodes, EndSync(n) \/ PeerBlock(n) PROVE ElectionInv'
  <2>1. /\ UNCHANGED <<field, pc, stopping, view, was, flag, timers>>
        /\ pc[n] # "down"
        /\ \E s \in BOOLEAN : syncing' = [syncing EXCEPT ![n] = s]
    BY <1>5 DEF EndSync, PeerBlock
  <2> QED
    BY <2>1 DEF TimersRight, ViewsRight, DownHasNothing
<1>6. ASSUME NEW n \in Nodes, Stop(n) PROVE ElectionInv'
  BY <1>6 DEF Stop, Due, TimersRight, ViewsRight, DownHasNothing
<1>7. ASSUME NEW n \in Nodes, Resign(n) PROVE ElectionInv'
  <2>1. /\ stopping[n] = "asked" /\ stopping' = [stopping EXCEPT ![n] = "resigned"]
        /\ UNCHANGED <<pc, was, flag, syncing>>
    BY <1>7 DEF Resign
  <2>2. CASE /\ IsSyncing(n, field) /\ field' = Unset /\ timers' = Outdated
             /\ view' = [Forgotten EXCEPT ![n] =
                           [owner |-> n, age |-> field.age, held |-> FALSE]]
    <3>1. /\ timers' \in [Nodes -> SUBSET Timer]
          /\ \A m \in Nodes : /\ \A other \in timers'[m] : ~ other.held
                              /\ AllGone(m) => AllGone(m)'
      BY <2>2, WritesOutdate
    <3>2. /\ view' \in [Nodes -> View] /\ view'[n].owner = n
          /\ \A m \in Nodes \ {n} : /\ view'[m].owner = view[m].owner
                                    /\ view'[m].age = view[m].age
                                    /\ view[m] = NoView => view'[m] = NoView
      BY <2>2, WritesForget
    <3>3. TypeOK'
      BY <2>1, <2>2, <3>1, <3>2 DEF Unset
    <3>4. TimersRight'
      BY <3>1 DEF TimersRight
    <3>5. ViewsRight'
      BY <2>1, <2>2, <3>2 DEF ViewsRight
    <3>6. DownHasNothing'
      BY <2>1, <2>2, <3>1, <3>2 DEF DownHasNothing, AllGone, Unset
    <3> QED
      BY <3>3, <3>4, <3>5, <3>6
  <2>3. CASE /\ UNCHANGED <<field, timers>>
             /\ view' = [view EXCEPT ![n] =
                           [owner |-> field.owner, age |-> field.age, held |-> TRUE]]
    BY <2>1, <2>3 DEF TimersRight, ViewsRight, DownHasNothing
  <2> QED
    BY <1>7, <2>2, <2>3 DEF Resign
<1>8. ASSUME NEW n \in Nodes, Exit(n) PROVE ElectionInv'
  <2>1. /\ pc' = [pc EXCEPT ![n] = "down"]
        /\ stopping' = [stopping EXCEPT ![n] = "no"]
        /\ view' = [view EXCEPT ![n] = NoView]
        /\ was' = [was EXCEPT ![n] = FALSE]
        /\ flag' = [flag EXCEPT ![n] = FALSE]
        /\ syncing' = [syncing EXCEPT ![n] = FALSE]
        /\ field' = IF field.owner = n THEN [field EXCEPT !.owner = Former] ELSE field
    BY <1>8 DEF Exit
  <2>2. PICK sent \in SUBSET Due(n) :
          timers' = [timers EXCEPT ![n] = {[timer EXCEPT !.gone = TRUE] : timer \in sent}]
    BY <1>8 DEF Exit
  <2>3. \A old \in timers[n] :
          /\ [old EXCEPT !.gone = TRUE] \in Timer
          /\ [old EXCEPT !.gone = TRUE].gone
          /\ [old EXCEPT !.gone = TRUE].held = old.held
          /\ [old EXCEPT !.gone = TRUE].left = old.left
    <3> TAKE old \in timers[n]
    <3>1. old \in Timer
      OBVIOUS
    <3> QED
      BY <3>1
  <2>4. \A timer \in timers'[n] :
          /\ timer \in Timer /\ timer.gone
          /\ \E old \in timers[n] : timer.held = old.held /\ timer.left = old.left
                                    /\ old.gone \in BOOLEAN
    BY <2>2, <2>3 DEF Due
  <2>5. /\ timers' = [timers EXCEPT ![n] = timers'[n]]
        /\ \A m \in Nodes \ {n} : timers'[m] = timers[m]
    BY <2>2
  <2>6. TypeOK'
    BY <2>1, <2>4, <2>5 DEF NoView
  <2>7. TimersRight'
    BY <2>1, <2>4, <2>5 DEF TimersRight
  <2>8. ViewsRight'
    BY <2>1 DEF ViewsRight, NoView
  <2>9. DownHasNothing'
    BY <2>1, <2>4, <2>5 DEF DownHasNothing
  <2> QED
    BY <2>6, <2>7, <2>8, <2>9
<1>9. ASSUME NEW n \in Nodes, Start(n) PROVE ElectionInv'
  BY <1>9 DEF Start, TimersRight, ViewsRight, DownHasNothing
<1>10. CASE Tick
  <2>1. /\ field' = Aged(field)
        /\ view' = [n \in Nodes |-> Aged(view[n])]
        /\ timers' = [n \in Nodes |-> {Shortened(timer) : timer \in timers[n]}]
        /\ pc' = [n \in Nodes |-> IF pc[n] = "wait" THEN "loop" ELSE pc[n]]
        /\ UNCHANGED <<stopping, was, flag, syncing>>
    BY <1>10 DEF Tick, Shortened
  <2>2. /\ field'.owner = field.owner
        /\ field'.age = IF field.age < Lease /\ field.owner # Nobody
                        THEN field.age + 1 ELSE field.age
        /\ field' \in [owner : Nodes \cup {Nobody, Former}, age : Ages]
    BY <2>1 DEF Aged
  <2>3. \A n \in Nodes :
          /\ view'[n].owner = view[n].owner
          /\ view'[n].age = IF view[n].age < Lease /\ view[n].owner # Nobody
                            THEN view[n].age + 1 ELSE view[n].age
          /\ view[n] = NoView => view'[n] = NoView
          /\ view'[n] \in View
    BY <2>1, ViewChanges
  <2>4. \A n \in Nodes : \A timer \in timers'[n] :
          /\ timer \in Timer
          /\ \E old \in timers[n] : /\ timer.held = old.held /\ timer.gone = old.gone
                                    /\ timer.left = IF old.left > 0 THEN old.left - 1 ELSE 0
    <3>1. ASSUME NEW n \in Nodes, NEW timer \in timers'[n]
          PROVE  \E old \in timers[n] : timer = Shortened(old) /\ old \in Timer
      BY <2>1, <3>1
    <3>2. ASSUME NEW n \in Nodes, NEW timer \in timers'[n]
          PROVE  /\ timer \in Timer
                 /\ \E old \in timers[n] :
                      /\ timer.held = old.held /\ timer.gone = old.gone
                      /\ timer.left = IF old.left > 0 THEN old.left - 1 ELSE 0
      <4>1. PICK old \in timers[n] : timer = Shortened(old) /\ old \in Timer
        BY <3>1
      <4> QED
        BY <4>1, TimerChanges
    <3> QED
      BY <3>2
  <2>5. TypeOK'
    BY <2>1, <2>2, <2>3, <2>4
  <2>6. TimersRight'
    BY <2>2, <2>4 DEF TimersRight
  <2>7. ViewsRight'
    BY <2>1, <2>2, <2>3 DEF ViewsRight
  <2>8. DownHasNothing'
    BY <2>1, <2>2, <2>3, <2>4 DEF DownHasNothing
  <2> QED
    BY <2>5, <2>6, <2>7, <2>8
<1> QED
  BY <1>1, <1>2, <1>3, <1>4, <1>5, <1>6, <1>7, <1>8, <1>9, <1>10 DEF Next, Step

LEMMA Election == Spec => []ElectionInv
  BY InitElection, NextElection, PTL DEF Spec

(* For any number of processes, any lease, and any lateness of timers and  *)
(* of the database: never do two processes both take themselves for the    *)
(* syncing node.                                                           *)
THEOREM OneNodeSyncs == Spec => []OneSyncingNode
<1>1. ElectionInv => OneSyncingNode
  BY DEF ElectionInv, ViewsRight, OneSyncingNode
<1> QED
  BY <1>1, Election, PTL

(* Nobody takes the field over from a process whose heart-beat is fresh.   *)
THEOREM FreshStays == Spec => FreshIsNotReplaced
<1> DEFINE Kept == \A n \in Nodes : IsSyncing(n, field) /\ stopping[n] = "no" =>
                     field'.owner = n \/ (field'.owner = Former /\ pc'[n] = "down")
<1>1. ASSUME ElectionInv, [Next]_vars PROVE [Kept]_vars
  <2> SUFFICES ASSUME NEW n \in Nodes, field.owner = n, field.age < Lease,
                      stopping[n] = "no", field' # field
               PROVE  field'.owner = n \/ (field'.owner = Former /\ pc'[n] = "down")
    BY DEF IsSyncing, vars
  <2> USE <1>1, ElectionAssumption
  <2>1. ASSUME NEW m \in Nodes, Nominate(m) PROVE field'.owner = n
    <3>1. PICK timer \in timers[m] :
            /\ timer.left = 0 /\ MayNominate(timer)
            /\ field' = [owner |-> IF timer.gone THEN Former ELSE m, age |-> 0]
      BY <2>1 DEF Nominate, Due
    <3>2. timer.held
      BY <3>1 DEF MayNominate
    <3> QED
      BY <3>1, <3>2 DEF ElectionInv, TimersRight, TypeOK, Ages
  <2>3. ASSUME NEW m \in Nodes, Resign(m) PROVE FALSE
    BY <2>3 DEF Resign, IsSyncing
  <2>4. ASSUME NEW m \in Nodes, Exit(m) PROVE field'.owner = Former /\ pc'[n] = "down"
    BY <2>4 DEF Exit, ElectionInv, TypeOK
  <2>5. CASE Tick
    BY <2>5 DEF Tick, Aged, ElectionInv, TypeOK
  <2>6. ASSUME NEW m \in Nodes, \/ BeginRefresh(m) \/ Refresh(m) \/ EndSync(m)
                                \/ PeerBlock(m) \/ Stop(m) \/ Start(m)
        PROVE  FALSE
    BY <2>6 DEF BeginRefresh, Refresh, EndSync, PeerBlock, Stop, Start
  <2> QED
    BY <2>1, <2>3, <2>4, <2>5, <2>6 DEF Next, Step, vars
<1> QED
  BY <1>1, Election, PTL DEF Spec, FreshIsNotReplaced
-----------------------------------------------------------------------------
(* What holds while every process is in time.  The syncing node renews its *)
(* heart-beat in every tick: it is at most a tick old, and once it is, a   *)
(* round that is over has left a timer that is due.                        *)
Renewed ==
  \A n \in Nodes : field.owner = n /\ stopping[n] = "no" =>
    /\ field.age <= 1
    /\ pc[n] = "wait" /\ field.age = 1 =>
         \E timer \in timers[n] : timer.held /\ timer.left = 0

SyncsWithField ==
  \A n \in Nodes : (syncing[n] \/ flag[n]) /\ stopping[n] = "no" => field.owner = n

InTimeInv == stalls \in Nat /\ (stalls = 0 => Renewed /\ SyncsWithField)

LEMMA InitInTime == Init => InTimeInv
  BY ElectionAssumption DEF Init, Unset, InTimeInv, Renewed, SyncsWithField

LEMMA NextInTime ==
  ASSUME Lease > 1, ElectionInv, InTimeInv, [Next]_vars
  PROVE  InTimeInv'
<1> USE ElectionAssumption DEF InTimeInv
<1>1. ASSUME UNCHANGED vars PROVE InTimeInv'
  BY <1>1 DEF vars, Renewed, SyncsWithField
<1>2. ASSUME NEW n \in Nodes, BeginRefresh(n) PROVE InTimeInv'
  BY <1>2 DEF BeginRefresh, Renewed, SyncsWithField, ElectionInv, TypeOK
<1>3. ASSUME NEW n \in Nodes, Refresh(n) PROVE InTimeInv'
  <2> SUFFICES ASSUME stalls = 0 PROVE Renewed' /\ SyncsWithField'
    BY <1>3 DEF Refresh
  <2>1. /\ pc' = [pc EXCEPT ![n] = "wait"]
        /\ flag' = [flag EXCEPT ![n] = field.owner = n /\ field.age < Lease]
        /\ UNCHANGED <<field, was>>
    BY <1>3 DEF Refresh, IsSyncing
  <2> DEFINE now == field.owner = n /\ field.age < Lease
             new == [left |-> Delay(field.owner = Nobody \/ now), held |-> TRUE, gone |-> FALSE]
  <2>2. \/ /\ was[n] /\ ~ now
           /\ stopping' = [stopping EXCEPT ![n] = IF @ = "no" THEN "asked" ELSE @]
           /\ \E sent \in SUBSET Due(n) : timers' = [timers EXCEPT ![n] = sent]
           /\ UNCHANGED syncing
        \/ /\ timers' = [timers EXCEPT ![n] = @ \cup {new}]
           /\ syncing' = [syncing EXCEPT ![n] = @ \/ (~ was[n] /\ now)]
           /\ UNCHANGED stopping
    BY <1>3 DEF Refresh, IsSyncing
  <2>3. now => new.held /\ new.left = 0
    BY DEF Delay
  <2> HIDE DEF new
  <2>4. Renewed'
    BY <2>1, <2>2, <2>3 DEF Renewed, ElectionInv, TypeOK
  <2>5. SyncsWithField'
    BY <2>1, <2>2 DEF SyncsWithField, ElectionInv, TypeOK
  <2> QED
    BY <2>4, <2>5
<1>4. ASSUME NEW n \in Nodes, Nominate(n) PROVE InTimeInv'
  <2> SUFFICES ASSUME stalls = 0 PROVE Renewed' /\ SyncsWithField'
    BY <1>4 DEF Nominate
  <2>1. PICK timer \in timers[n] :
          /\ timer.left = 0
          /\ \/ /\ MayNominate(timer)
                /\ field' = [owner |-> IF timer.gone THEN Former ELSE n, age |-> 0]
             \/ /\ ~ MayNominate(timer) /\ UNCHANGED field
                /\ timers' = [timers EXCEPT ![n] = @ \ {timer}]
          /\ UNCHANGED <<pc, stopping, flag, syncing>>
    BY <1>4 DEF Nominate, Due
  <2>2. CASE UNCHANGED field /\ timers' = [timers EXCEPT ![n] = @ \ {timer}]
             /\ ~ MayNominate(timer)
    BY <2>1, <2>2 DEF Renewed, SyncsWithField, MayNominate, ElectionInv, TypeOK
  <2>3. CASE /\ MayNominate(timer)
             /\ field' = [owner |-> IF timer.gone THEN Former ELSE n, age |-> 0]
    <3>1. ASSUME NEW m \in Nodes, field.owner = m, stopping[m] = "no"
          PROVE  m = n /\ ~ timer.gone
      BY <2>1, <2>3, <3>1
      DEF Renewed, MayNominate, ElectionInv, TimersRight, TypeOK, Ages
    <3> QED
      BY <2>1, <2>3, <3>1 DEF Renewed, SyncsWithField
  <2> QED
    BY <2>1, <2>2, <2>3
<1>5. ASSUME NEW n \in Nodes, EndSync(n) \/ PeerBlock(n) PROVE InTimeInv'
  <2>1. /\ UNCHANGED <<field, pc, stopping, flag, timers, stalls>>
        /\ \E s \in BOOLEAN : syncing' = [syncing EXCEPT ![n] = s] /\ (s => flag[n])
    BY <1>5 DEF EndSync, PeerBlock
  <2> QED
    BY <2>1 DEF Renewed, SyncsWithField, ElectionInv, TypeOK
<1>6. ASSUME NEW n \in Nodes, Stop(n) PROVE InTimeInv'
  BY <1>6 DEF Stop, Renewed, SyncsWithField, ElectionInv, TypeOK
<1>7. ASSUME NEW n \in Nodes, Resign(n) PROVE InTimeInv'
  <2>1. /\ stopping' = [stopping EXCEPT ![n] = "resigned"]
        /\ UNCHANGED <<pc, flag, syncing, stalls>>
        /\ \/ field.owner = n /\ field' = Unset
           \/ UNCHANGED <<field, timers>>
    BY <1>7 DEF Resign, IsSyncing
  <2> QED
    BY <2>1 DEF Unset, Renewed, SyncsWithField, ElectionInv, TypeOK
<1>8. ASSUME NEW n \in Nodes, Exit(n) PROVE InTimeInv'
  <2>1. /\ pc' = [pc EXCEPT ![n] = "down"]
        /\ stopping' = [stopping EXCEPT ![n] = "no"]
        /\ flag' = [flag EXCEPT ![n] = FALSE]
        /\ \A m \in Nodes \ {n} : timers'[m] = timers[m]
        /\ syncing' = [syncing EXCEPT ![n] = FALSE]
        /\ \/ field.owner = n /\ field'.owner = Former
           \/ field.owner # n /\ UNCHANGED field
        /\ UNCHANGED stalls
    BY <1>8 DEF Exit, ElectionInv, TypeOK
  <2> QED
    BY <2>1 DEF Renewed, SyncsWithField, ElectionInv, TypeOK
<1>9. ASSUME NEW n \in Nodes, Start(n) PROVE InTimeInv'
  BY <1>9 DEF Start, Renewed, SyncsWithField, ElectionInv, TypeOK, DownHasNothing
<1>10. ASSUME Tick PROVE InTimeInv'
  <2> SUFFICES ASSUME stalls' = 0 PROVE Renewed' /\ SyncsWithField'
    BY <1>10 DEF Tick
  <2>1. /\ field' = Aged(field)
        /\ pc' = [n \in Nodes |-> IF pc[n] = "wait" THEN "loop" ELSE pc[n]]
        /\ UNCHANGED <<stopping, flag, syncing>>
    BY <1>10 DEF Tick
  <2>2. InTime /\ stalls = 0
    BY <1>10 DEF Tick
  <2>3. field'.owner = field.owner /\ field'.age \in {field.age, field.age + 1}
    BY <2>1 DEF Aged, ElectionInv, TypeOK
  <2>4. \A n \in Nodes : field.owner = n /\ stopping[n] = "no" =>
          pc[n] = "wait" /\ field.age = 0
    BY <2>2 DEF InTime, Renewed, ElectionInv, TypeOK, Ages, DownHasNothing
  <2>5. Renewed'
    BY <2>1, <2>3, <2>4 DEF Renewed, ElectionInv, TypeOK
  <2>6. SyncsWithField'
    BY <2>1, <2>2, <2>3 DEF SyncsWithField
  <2> QED
    BY <2>5, <2>6
<1> QED
  BY <1>1, <1>2, <1>3, <1>4, <1>5, <1>6, <1>7, <1>8, <1>9, <1>10 DEF Next, Step

(* With a lease longer than the wait between two heart-beats: while every  *)
(* process is in time, two syncs overlap only when one is stopping.        *)
THEOREM SyncAlone ==
  ASSUME Lease > 1
  PROVE  Spec => []SyncsAlone
<1>1. ElectionInv /\ InTimeInv /\ [Next]_vars => InTimeInv'
  BY NextInTime
<1>2. Spec => []InTimeInv
  BY <1>1, InitInTime, Election, PTL DEF Spec
<1>3. InTimeInv => SyncsAlone
  BY DEF InTimeInv, SyncsWithField, SyncsAlone
<1> QED
  BY <1>2, <1>3, PTL
=============================================================================
