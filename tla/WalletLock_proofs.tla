------------------------- MODULE WalletLock_proofs -------------------------
(***************************************************************************)
(* Proofs about WalletLock: it is a lease lock, and it excludes while the  *)
(* locks live as long as their tasks and the clean-ups come in time.       *)
(***************************************************************************)
EXTENDS WalletLock, TLAPS

(* What holds of the lock in every instance: a clean-up that saw the       *)
(* stored lock has seen it expired.                                        *)
Counts ==
  /\ finds \in Nat /\ deletes \in Nat /\ strays \in Nat
  /\ deletes > 0 => lock # NoLock /\ expired
LockInv ==
  /\ lock \in Procs \cup {NoLock}
  /\ pc \in [Procs -> PC]
  /\ Counts

LEMMA InitInvariant == Init => LockInv
  BY NamesAssumption DEF Init, LockInv, Counts, PC

(* The counters of the clean-ups after a step that adds none about a lock. *)
LEMMA CountsKept ==
  ASSUME LockInv, finds' \in Nat,
         \/ UNCHANGED <<deletes, strays>> /\ (deletes > 0 => UNCHANGED <<lock, expired>>)
         \/ deletes' = 0 /\ strays' \in Nat
  PROVE  Counts'
  BY DEF LockInv, Counts

LEMMA NextInvariant == LockInv /\ [Next]_vars => LockInv'
<1> SUFFICES ASSUME LockInv, [Next]_vars PROVE LockInv'
  OBVIOUS
<1> USE NamesAssumption
<1>0. ASSUME Counts', lock' \in Procs \cup {NoLock},
             pc' = pc \/ \E p \in Procs, to \in PC : pc' = [pc EXCEPT ![p] = to]
      PROVE  LockInv'
  BY <1>0 DEF LockInv
<1>1. CASE UNCHANGED vars \/ AllServed
  BY <1>1 DEF vars, AllServed, LockInv, Counts
<1>2. ASSUME NEW p \in Procs, AcquireLock(p) PROVE LockInv'
  <2>1. deletes = 0 /\ Counts'
    BY <1>2 DEF AcquireLock, LockInv, Counts
  <2> QED
    BY <1>0, <1>2, <2>1 DEF AcquireLock, Goto, PC
<1>3. ASSUME NEW p \in Procs, LockExists(p) PROVE LockInv'
  <2>1. pc' = [pc EXCEPT ![p] = "busy"] \/ pc' = [pc EXCEPT ![p] = "wait"]
    BY <1>3 DEF LockExists, Goto
  <2>2. /\ finds' \in {finds, finds + 1} /\ finds \in Nat
        /\ UNCHANGED <<lock, expired, deletes, strays>>
    BY <1>3 DEF LockExists, LockInv, Counts
  <2>3. Counts'
    BY <2>2, CountsKept
  <2> QED
    BY <1>0, <2>1, <2>2, <2>3 DEF LockInv, PC
<1>4. ASSUME NEW p \in Procs,
             \/ Retry(p) \/ TaskDone(p) \/ AcquireFails(p) \/ ReleaseFails(p) \/ Die(p)
      PROVE  LockInv'
  <2>1. /\ UNCHANGED <<lock, expired, finds, deletes, strays>>
        /\ \E to \in PC : pc' = [pc EXCEPT ![p] = to]
    BY <1>4 DEF Retry, TaskDone, AcquireFails, ReleaseFails, Die, Goto, PC
  <2>2. Counts'
    BY <2>1, CountsKept DEF LockInv, Counts
  <2> QED
    BY <1>0, <2>1, <2>2 DEF LockInv
<1>5. ASSUME NEW p \in Procs, ReleaseLock(p) PROVE LockInv'
  <2>1. /\ UNCHANGED finds /\ deletes' = 0 /\ strays' \in Nat /\ lock' = NoLock
        /\ \E to \in PC : pc' = [pc EXCEPT ![p] = to]
    BY <1>5 DEF ReleaseLock, LockGone, Goto, PC, LockInv, Counts
  <2> QED
    BY <1>0, <2>1, CountsKept DEF LockInv, Counts
<1>6. CASE FindLock
  BY <1>6 DEF FindLock, LockInv, Counts
<1>7. CASE DeleteLock
  <2>1. /\ UNCHANGED <<finds, pc>> /\ deletes' = 0 /\ strays' \in Nat /\ lock' = NoLock
    BY <1>7 DEF DeleteLock, LockGone, LockInv, Counts
  <2> QED
    BY <1>0, <2>1, CountsKept DEF LockInv, Counts
<1>8. CASE Expire
  BY <1>8 DEF Expire, LockInv, Counts
<1> QED
  BY <1>1, <1>2, <1>3, <1>4, <1>5, <1>6, <1>7, <1>8 DEF Next, Step

LEMMA Invariant == Spec => []LockInv
  BY InitInvariant, NextInvariant, PTL DEF Spec

(* While every lock lives as long as its task and is cleared in time, a    *)
(* task at work owns the stored lock.                                      *)
OwnerInv == Prompt /\ \A p \in Running : lock = p

LEMMA InitOwns == Init => OwnerInv
  BY NamesAssumption DEF Init, OwnerInv, Prompt, Running

LEMMA NextOwns ==
  ASSUME LockInv, OwnerInv, Next /\ Prompt'
  PROVE  OwnerInv'
<1> USE NamesAssumption DEF OwnerInv, Running
<1>1. ASSUME NEW p \in Procs, AcquireLock(p) PROVE OwnerInv'
  BY <1>1 DEF AcquireLock, Goto, LockInv
<1>2. ASSUME NEW p \in Procs,
             LockExists(p) \/ Retry(p) \/ AcquireFails(p) \/ ReleaseFails(p) \/ Die(p)
      PROVE  OwnerInv'
  <2>1. /\ UNCHANGED lock
        /\ \E to \in {"busy", "wait", "try", "failed", "done", "dead"} :
             pc' = [pc EXCEPT ![p] = to]
    BY <1>2 DEF LockExists, Retry, AcquireFails, ReleaseFails, Die, Goto
  <2> QED
    BY <2>1 DEF LockInv
<1>3. ASSUME NEW p \in Procs, TaskDone(p) PROVE OwnerInv'
  BY <1>3 DEF TaskDone, Goto, LockInv
<1>4. ASSUME NEW p \in Procs, ReleaseLock(p) PROVE OwnerInv'
  BY <1>4 DEF ReleaseLock, Goto, LockInv
<1>5. CASE DeleteLock
  <2>1. \/ lock = NoLock
        \/ expired
    BY <1>5 DEF DeleteLock, LockInv, Counts, Prompt
  <2>2. Running = {}
    BY <2>1 DEF Prompt
  <2> QED
    BY <1>5, <2>2 DEF DeleteLock
<1>6. CASE FindLock \/ Expire \/ AllServed
  BY <1>6 DEF FindLock, Expire, AllServed, vars
<1> QED
  BY <1>1, <1>2, <1>3, <1>4, <1>5, <1>6 DEF Next, Step

(* For any number of processes and any waiting times, with processes that  *)
(* die, releases that are lost and any number of clean-ups in flight: as   *)
(* long as no task outlives its lockTime and nobody takes the lock before  *)
(* the clean-ups of the last one are through, runLocked never runs two     *)
(* tasks at once.                                                          *)
THEOREM TasksExclude == PromptSpec => []MutualExclusion
<1> DEFINE PInv == LockInv /\ OwnerInv
<1>1. Init => PInv
  BY InitInvariant, InitOwns
<1>2. PInv /\ [Next /\ Prompt']_vars => PInv'
  <2> SUFFICES ASSUME PInv, [Next /\ Prompt']_vars PROVE PInv'
    OBVIOUS
  <2>1. CASE Next /\ Prompt'
    BY <2>1, NextInvariant, NextOwns
  <2>2. CASE UNCHANGED vars
    BY <2>2 DEF vars, LockInv, Counts, OwnerInv, Prompt, Running
  <2> QED
    BY <2>1, <2>2
<1>3. PInv => MutualExclusion
  BY DEF OwnerInv, MutualExclusion
<1> QED
  BY <1>1, <1>2, <1>3, PTL DEF PromptSpec

(* Every step maps to a step of the lease lock or to none. *)
LEMMA LeaseStep ==
  ASSUME LockInv, [Next]_vars
  PROVE  [Lease!Next]_<<Owner, Running>>
<1> USE NamesAssumption DEF LockInv, PC, Running, Owner
<1>1. CASE UNCHANGED <<lock, pc>>
  BY <1>1
<1>2. ASSUME NEW p \in Procs, AcquireLock(p) PROVE Lease!Begin(p)
  BY <1>2 DEF AcquireLock, Goto, Lease!Begin
<1>3. ASSUME NEW p \in Procs,
             \/ LockExists(p) \/ Retry(p) \/ TaskDone(p) \/ AcquireFails(p)
      PROVE  UNCHANGED <<Owner, Running>>
  <2>1. UNCHANGED lock
    BY <1>3 DEF LockExists, Retry, TaskDone, AcquireFails
  <2>2. PICK to \in PC :
          /\ pc' = [pc EXCEPT ![p] = to]
          /\ pc[p] \in {"task", "release"} <=> to \in {"task", "release"}
    BY <1>3 DEF LockExists, Retry, TaskDone, AcquireFails, Goto
  <2>3. Running' = Running
    BY <2>2
  <2> QED
    BY <2>1, <2>3
<1>4. ASSUME NEW p \in Procs, ReleaseLock(p) PROVE Lease!End(p)
  <2>1. p \in Running /\ Running' = Running \ {p} /\ Owner' = NoLock
    BY <1>4 DEF ReleaseLock, LockGone, Goto
  <2>2. Owner = p \/ Threatened
    BY <2>1 DEF Threatened
  <2> QED
    BY <2>1, <2>2 DEF Lease!End
<1>5. ASSUME NEW p \in Procs, ReleaseFails(p) \/ Die(p) PROVE Lease!Die(p)
  BY <1>5 DEF ReleaseFails, Die, Goto, Lease!Die
<1>6. CASE DeleteLock
  <2>1. Running' = Running /\ Owner' = NoLock
    BY <1>6 DEF DeleteLock, LockGone
  <2>2. Threatened
    BY <1>6 DEF DeleteLock, Threatened, Counts
  <2> QED
    BY <2>1, <2>2 DEF Lease!Next, Lease!Lapse
<1>7. CASE FindLock \/ Expire \/ AllServed \/ UNCHANGED vars
  BY <1>7 DEF FindLock, Expire, AllServed, vars
<1> HIDE DEF Owner, Running
<1> QED
  BY <1>1, <1>2, <1>3, <1>4, <1>5, <1>6, <1>7 DEF Next, Step, Lease!Next

(* WalletLock implements LeaseLock: a task of runLocked begins only when   *)
(* no lock is stored, and the lock of a task at work goes only with it,    *)
(* but for an expired lease, a late clean-up or a displaced task.          *)
THEOREM ImplementsLeaseLock == Spec => IsLeaseLock
<1>1. Init => Lease!Init
  BY NamesAssumption DEF Init, Lease!Init, Owner, Running
<1>2. LockInv /\ [Next]_vars => [Lease!Next]_<<Owner, Running>>
  BY LeaseStep
<1> QED
  BY <1>1, <1>2, Invariant, PTL DEF Spec, IsLeaseLock, Lease!Spec
-----------------------------------------------------------------------------
(* Waiting.  The attempts are counted: the bound of the instance is not    *)
(* reached by a process that has a waitTime.                               *)
TriesCounted == \A w \in Waits \ {Forever} : (MaxTries - 2) * RetryStep > w

(* Between two attempts, timeLeft is what is left of waitTime after the    *)
(* attempts made, and nobody tries again once it is negative.              *)
BetweenTries(p) ==
  \/ tries[p] = 0 /\ timeLeft[p] = Forever
  \/ /\ tries[p] >= 1 /\ timeLeft[p] \in Int
     /\ timeLeft[p] = waitTime[p] - Waited(p)
     /\ timeLeft[p] >= - RetryStep

WaitTyped ==
  /\ waitTime \in [Procs -> Waits]
  /\ timeLeft \in [Procs -> Int \cup {Forever}]
  /\ tries \in [Procs -> 0 .. MaxTries]
  /\ finds \in Nat /\ deletes \in Nat /\ strays \in Nat /\ Clears <= MaxClears
  /\ expired \in BOOLEAN

WaitInv ==
  /\ LockInv /\ WaitTyped
  /\ \A p \in Procs : waitTime[p] # Forever =>
       /\ pc[p] \in {"try", "wait"} => BetweenTries(p)
       /\ pc[p] = "busy" => Waited(p) > waitTime[p]
       /\ Waited(p) <= waitTime[p] + 2 * RetryStep

LEMMA InitWaits == Init => WaitInv
<1> SUFFICES ASSUME Init PROVE WaitInv
  OBVIOUS
<1>1. LockInv
  BY InitInvariant DEF LockInv
<1>2. \A p \in Procs : tries[p] = 0 /\ timeLeft[p] = Forever /\ pc[p] = "try"
  BY DEF Init
<1>3. WaitTyped
  <2>1. /\ timeLeft \in [Procs -> Int \cup {Forever}]
        /\ tries \in [Procs -> 0 .. MaxTries]
    BY WaitAssumption DEF Init
  <2>2. finds = 0 /\ deletes = 0 /\ strays = 0 /\ MaxClears \in Nat
    BY WaitAssumption DEF Init
  <2>3. finds \in Nat /\ deletes \in Nat /\ strays \in Nat /\ Clears <= MaxClears
    BY <2>2 DEF Clears
  <2>4. expired \in BOOLEAN /\ waitTime \in [Procs -> Waits]
    BY DEF Init
  <2> QED
    BY <2>1, <2>3, <2>4 DEF WaitTyped
<1>4. ASSUME NEW p \in Procs, waitTime[p] # Forever
      PROVE  Waited(p) <= waitTime[p] + 2 * RetryStep
  BY <1>2, <1>3, <1>4, WaitAssumption DEF Waited, WaitTyped
<1> QED
  BY <1>1, <1>2, <1>3, <1>4 DEF WaitInv, BetweenTries

(* A process that has not given up has attempts left to count.             *)
LEMMA TriesLeft ==
  ASSUME TriesCounted, WaitInv, NEW p \in Procs, waitTime[p] # Forever,
         pc[p] \in {"try", "wait"}
  PROVE  tries[p] < MaxTries
<1> DEFINE w == waitTime[p]
           t == tries[p]
<1>1. w \in Nat /\ t \in 0 .. MaxTries /\ RetryStep \in Nat \ {0} /\ MaxTries \in Nat
  BY WaitAssumption DEF WaitInv, WaitTyped
<1>2. (MaxTries - 2) * RetryStep > w
  BY DEF TriesCounted, WaitInv, WaitTyped
<1>3. t = 0 \/ (t - 1) * RetryStep <= w + RetryStep
  BY <1>1 DEF WaitInv, BetweenTries, Waited
<1>4. (t - 1) * RetryStep = (t - 2) * RetryStep + RetryStep
  BY <1>1
<1>5. CASE t = MaxTries
  BY <1>1, <1>2, <1>3, <1>4, <1>5
<1> QED
  BY <1>1, <1>5

(* The next attempt of a process that has waited as long as it should.     *)
LEMMA Counting ==
  ASSUME TriesCounted, WaitInv, NEW p \in Procs, waitTime[p] # Forever,
         pc[p] = "try", CountTry(p), UNCHANGED waitTime
  PROVE  /\ tries'[p] = tries[p] + 1
         /\ Waited(p)' = Waited(p) + RetryStep
         /\ Waited(p)' <= waitTime[p] + 2 * RetryStep
         /\ waitTime[p] \in Nat /\ Waited(p) \in Int /\ RetryStep \in Nat \ {0}
<1>1. tries[p] < MaxTries
  BY TriesLeft
<1>2. tries[p] \in Nat /\ RetryStep \in Nat \ {0} /\ waitTime[p] \in Nat
  BY WaitAssumption DEF WaitInv, WaitTyped
<1>3. tries'[p] = tries[p] + 1
  BY <1>1 DEF CountTry, WaitInv, WaitTyped
<1>4. Waited(p)' = Waited(p) + RetryStep /\ Waited(p) \in Int
  <2> DEFINE t == tries[p]
  <2>1. tries'[p] - 1 = (t - 1) + 1 /\ t - 1 \in Int
    BY <1>2, <1>3
  <2>2. \A k \in Int : k * RetryStep \in Int /\ (k + 1) * RetryStep = k * RetryStep + RetryStep
    BY <1>2
  <2>3. ((t - 1) + 1) * RetryStep = (t - 1) * RetryStep + RetryStep
        /\ (t - 1) * RetryStep \in Int
    BY <2>1, <2>2
  <2>4. Waited(p)' = (tries'[p] - 1) * RetryStep /\ Waited(p) = (t - 1) * RetryStep
    BY DEF Waited
  <2> QED
    BY <2>1, <2>3, <2>4, Zenon
<1>5. tries[p] = 0 => Waited(p)' = 0
  BY <1>2, <1>3 DEF Waited
<1>6. tries[p] # 0 => Waited(p) <= waitTime[p] + RetryStep
  BY <1>2, <1>4 DEF WaitInv, BetweenTries
<1> QED
  BY <1>2, <1>3, <1>4, <1>5, <1>6

(* What one process leaves alone of the others.                            *)
LEMMA OthersWait ==
  ASSUME WaitInv, NEW p \in Procs, UNCHANGED waitTime,
         \A q \in Procs \ {p} : UNCHANGED <<pc[q], timeLeft[q], tries[q]>>,
         LockInv', WaitTyped',
         waitTime[p] # Forever =>
           /\ pc'[p] \in {"try", "wait"} => BetweenTries(p)'
           /\ pc'[p] = "busy" => Waited(p)' > waitTime[p]
           /\ Waited(p)' <= waitTime[p] + 2 * RetryStep
  PROVE  WaitInv'
  BY DEF WaitInv, BetweenTries, Waited

LEMMA CountTyped ==
  ASSUME WaitTyped, NEW p \in Procs, CountTry(p)
  PROVE  /\ tries' \in [Procs -> 0 .. MaxTries]
         /\ \A q \in Procs \ {p} : tries'[q] = tries[q]
<1>1. tries[p] < MaxTries => tries[p] + 1 \in 0 .. MaxTries
  BY WaitAssumption DEF WaitTyped
<1> QED
  BY <1>1 DEF CountTry, WaitTyped

LEMMA NextWaits ==
  ASSUME TriesCounted, WaitInv, LockInv', [Next]_vars
  PROVE  WaitInv'
<1> USE WaitAssumption
<1>0. LockInv'
  BY DEF LockInv
<1>1. CASE UNCHANGED vars \/ AllServed
  BY <1>0, <1>1 DEF vars, AllServed, WaitInv, WaitTyped, BetweenTries, Waited, Clears
<1>2. ASSUME NEW p \in Procs, AcquireLock(p) \/ AcquireFails(p) PROVE WaitInv'
  <2>1. /\ pc[p] = "try" /\ CountTry(p)
        /\ \E to \in {"task", "failed"} : pc' = [pc EXCEPT ![p] = to]
        /\ UNCHANGED <<waitTime, timeLeft, finds, deletes, strays>>
        /\ expired' \in {FALSE, expired}
    BY <1>2 DEF AcquireLock, AcquireFails, Goto
  <2>2. WaitTyped'
    BY <2>1, CountTyped DEF WaitInv, WaitTyped, Clears
  <2>3. waitTime[p] # Forever => Waited(p)' <= waitTime[p] + 2 * RetryStep
    BY <2>1, Counting
  <2>4. pc'[p] \in {"task", "failed"}
    BY <2>1 DEF WaitInv, LockInv
  <2>5. \A q \in Procs \ {p} : UNCHANGED <<pc[q], timeLeft[q], tries[q]>>
    BY <2>1, CountTyped DEF WaitInv, LockInv
  <2> QED
    BY <1>0, <2>1, <2>2, <2>3, <2>4, <2>5, OthersWait
<1>3. ASSUME NEW p \in Procs, LockExists(p) PROVE WaitInv'
  <2>1. /\ pc[p] = "try" /\ CountTry(p)
        /\ UNCHANGED <<waitTime, deletes, strays, expired>>
        /\ finds' = IF Clears < MaxClears THEN finds + 1 ELSE finds
    BY <1>3 DEF LockExists
  <2>2. \/ /\ timeLeft[p] # Forever /\ timeLeft[p] < 0
           /\ pc' = [pc EXCEPT ![p] = "busy"] /\ UNCHANGED timeLeft
        \/ /\ ~ (timeLeft[p] # Forever /\ timeLeft[p] < 0)
           /\ pc' = [pc EXCEPT ![p] = "wait"]
           /\ timeLeft' = [timeLeft EXCEPT ![p] =
                IF waitTime[p] = Forever THEN Forever
                ELSE IF @ = Forever THEN waitTime[p] ELSE @ - RetryStep]
    BY <1>3 DEF LockExists, Goto
  <2>3. timeLeft' \in [Procs -> Int \cup {Forever}]
    BY <2>2 DEF WaitInv, WaitTyped
  <2>4. WaitTyped'
    BY <2>1, <2>3, CountTyped DEF WaitInv, WaitTyped, Clears
  <2>5. \A q \in Procs \ {p} : UNCHANGED <<pc[q], timeLeft[q], tries[q]>>
    BY <2>1, <2>2, CountTyped DEF WaitInv, LockInv, WaitTyped
  <2>6. ASSUME waitTime[p] # Forever
        PROVE  /\ pc'[p] \in {"try", "wait"} => BetweenTries(p)'
               /\ pc'[p] = "busy" => Waited(p)' > waitTime[p]
               /\ Waited(p)' <= waitTime[p] + 2 * RetryStep
    <3>1. /\ tries'[p] = tries[p] + 1
          /\ Waited(p)' = Waited(p) + RetryStep
          /\ Waited(p)' <= waitTime[p] + 2 * RetryStep
          /\ waitTime[p] \in Nat /\ Waited(p) \in Int /\ RetryStep \in Nat \ {0}
      BY <2>1, <2>6, Counting
    <3>2. BetweenTries(p) /\ tries[p] \in Nat
      BY <2>1, <2>6 DEF WaitInv, WaitTyped
    <3>3. tries[p] = 0 => Waited(p)' = 0
      BY <3>1, <3>2 DEF Waited
    <3>4. CASE timeLeft[p] # Forever /\ timeLeft[p] < 0
      BY <2>2, <3>1, <3>2, <3>4 DEF BetweenTries, WaitInv, LockInv
    <3>5. CASE ~ (timeLeft[p] # Forever /\ timeLeft[p] < 0)
      <4>1. pc'[p] = "wait" /\ timeLeft'[p] =
              IF timeLeft[p] = Forever THEN waitTime[p] ELSE timeLeft[p] - RetryStep
        BY <2>2, <2>6, <3>5 DEF WaitInv, WaitTyped, LockInv
      <4>2. BetweenTries(p)'
        BY <2>1, <3>1, <3>2, <3>3, <3>5, <4>1, NamesAssumption DEF BetweenTries
      <4> QED
        BY <3>1, <4>1, <4>2
    <3> QED
      BY <3>4, <3>5
  <2> QED
    BY <1>0, <2>1, <2>4, <2>5, <2>6, OthersWait
<1>4. ASSUME NEW p \in Procs, \/ Retry(p) \/ TaskDone(p) \/ ReleaseLock(p)
                              \/ ReleaseFails(p) \/ Die(p)
      PROVE  WaitInv'
  <2>1. /\ UNCHANGED <<waitTime, timeLeft, tries>>
        /\ expired' \in {FALSE, expired}
        /\ \/ pc[p] = "wait" /\ pc' = [pc EXCEPT ![p] = "try"]
           \/ \E to \in {"release", "done", "dead"} : pc' = [pc EXCEPT ![p] = to]
    BY <1>4 DEF Retry, TaskDone, ReleaseLock, LockGone, ReleaseFails, Die, Goto
  <2>2. WaitTyped'
    <3>1. \/ UNCHANGED <<finds, deletes, strays>>
          \/ UNCHANGED finds /\ strays' = strays + deletes /\ deletes' = 0
      BY <1>4 DEF Retry, TaskDone, ReleaseLock, ReleaseFails, Die
    <3>2. finds' \in Nat /\ deletes' \in Nat /\ strays' \in Nat /\ Clears' <= MaxClears
      BY <3>1 DEF WaitInv, WaitTyped, Clears
    <3> QED
      BY <2>1, <3>2 DEF WaitInv, WaitTyped
  <2>3. /\ \A q \in Procs \ {p} : pc'[q] = pc[q]
        /\ pc'[p] # "busy" /\ (pc'[p] \in {"try", "wait"} => pc[p] \in {"try", "wait"})
    BY <2>1 DEF WaitInv, LockInv
  <2> QED
    BY <1>0, <2>1, <2>2, <2>3, OthersWait DEF WaitInv, BetweenTries, Waited
<1>5. CASE FindLock \/ DeleteLock \/ Expire
  <2>1. UNCHANGED <<pc, waitTime, timeLeft, tries>>
    BY <1>5 DEF FindLock, DeleteLock, Expire
  <2>2. WaitTyped'
    <3>1. UNCHANGED <<waitTime, timeLeft, tries>> /\ expired' \in BOOLEAN
      BY <1>5 DEF FindLock, DeleteLock, LockGone, Expire, WaitInv, WaitTyped
    <3>2. finds' \in Nat /\ deletes' \in Nat /\ strays' \in Nat /\ Clears' <= MaxClears
      BY <1>5 DEF FindLock, DeleteLock, Expire, WaitInv, WaitTyped, Clears
    <3> QED
      BY <3>1, <3>2 DEF WaitInv, WaitTyped
  <2> QED
    BY <1>0, <2>1, <2>2 DEF WaitInv, BetweenTries, Waited
<1> QED
  BY <1>1, <1>2, <1>3, <1>4, <1>5 DEF Next, Step

(* For any number of processes, any waiting times and any retry step: a    *)
(* process with a waitTime gives up neither before it has waited that long *)
(* nor more than two retry steps later, with failures and without.         *)
THEOREM WaitsHonoured ==
  ASSUME TriesCounted
  PROVE  Spec => []WaitIsHonoured
<1>1. WaitInv => WaitIsHonoured
  <2>1. WaitInv => TypeOK
    BY WaitAssumption DEF WaitInv, WaitTyped, LockInv, Counts, TypeOK
  <2> QED
    BY <2>1 DEF WaitInv, WaitIsHonoured
<1>2. WaitInv /\ LockInv' /\ [Next]_vars => WaitInv'
  BY NextWaits
<1> QED
  BY <1>1, <1>2, InitWaits, Invariant, PTL DEF Spec
=============================================================================
