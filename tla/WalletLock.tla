----------------------------- MODULE WalletLock -----------------------------
(***************************************************************************)
(* The database lock of bitcore-wallet-service (src/lib/lock.ts and the    *)
(* LOCKS collection of src/lib/storage.ts) for one key.  Every process     *)
(* runs one task with runLocked.  Insertion of the lock document is        *)
(* atomic; the look-up and the deletion of an expired lock are two         *)
(* database calls that nobody waits for.                                   *)
(***************************************************************************)
EXTENDS Integers, FiniteSets

CONSTANTS
  Procs,
  Waits,       \* the waitTime a process may pass, in ms; Forever for none
  RetryStep,   \* ACQUIRE_RETRY_STEP, in ms
  DefaultWait, \* the default of waitTime in the comment of ILockOptions, in ms
  MayFail,    \* TRUE when processes may die and database calls may fail
  LongTasks,   \* TRUE when a task may outlive its lockTime
  MaxTries,    \* bound: attempts are counted up to here
  MaxClears,   \* bound: clearExpiredLock calls in flight
  Forever, NoLock, Orphan

ASSUME WaitAssumption ==
  /\ Waits \ {Forever} \subseteq Nat
  /\ RetryStep \in Nat \ {0} /\ DefaultWait \in Nat
  /\ MaxTries \in Nat /\ MaxClears \in Nat \ {0}
ASSUME NamesAssumption ==
  /\ NoLock \notin Procs /\ Orphan \notin Procs /\ NoLock # Orphan
  /\ Forever \notin Int
  /\ MayFail \in BOOLEAN /\ LongTasks \in BOOLEAN

VARIABLES
  lock,      \* owner in the stored lock document, NoLock when there is none
  expired,   \* expireOn of the stored lock has passed
  pc,        \* where each process is
  waitTime,  \* the waitTime each process passed
  timeLeft,  \* what is left of it, Forever while undefined
  tries,     \* attempts to insert the lock
  finds,     \* clearExpiredLock calls about to look the lock up
  deletes,   \* those that saw it expired and are about to delete it
  strays     \* those that saw an earlier lock expired, which is gone by now

vars == <<lock, expired, pc, waitTime, timeLeft, tries, finds, deletes, strays>>

PC == {"try", "wait", "task", "release", "done", "busy", "failed", "dead"}

Init ==
  /\ lock = NoLock
  /\ expired = FALSE
  /\ pc = [p \in Procs |-> "try"]
  /\ waitTime \in [Procs -> Waits]
  /\ timeLeft = [p \in Procs |-> Forever]
  /\ tries = [p \in Procs |-> 0]
  /\ finds = 0
  /\ deletes = 0
  /\ strays = 0

Goto(p, to) == pc' = [pc EXCEPT ![p] = to]
Clears == finds + deletes + strays
CountTry(p) ==
  tries' = [tries EXCEPT ![p] = IF @ < MaxTries THEN @ + 1 ELSE @]

(* acquireLock inserts the document. *)
AcquireLock(p) ==
  /\ pc[p] = "try"
  /\ lock = NoLock
  /\ lock' = p
  /\ expired' = FALSE
  /\ CountTry(p)
  /\ Goto(p, "task")
  /\ UNCHANGED <<waitTime, timeLeft, finds, deletes, strays>>

(* Faults: timeLeft is not handed to the next attempt; no lock is cleared. *)
LockExistsForgetful(p) ==
  /\ pc[p] = "try"
  /\ lock # NoLock
  /\ finds' = IF Clears < MaxClears THEN finds + 1 ELSE finds
  /\ CountTry(p)
  /\ Goto(p, "wait")
  /\ timeLeft' = [timeLeft EXCEPT ![p] = waitTime[p]]
  /\ UNCHANGED <<lock, expired, waitTime, deletes, strays>>
LockExistsNoClear(p) ==
  /\ pc[p] = "try"
  /\ lock # NoLock
  /\ CountTry(p)
  /\ Goto(p, "wait")
  /\ UNCHANGED <<lock, expired, waitTime, timeLeft, finds, deletes, strays>>

(* Fault: runLocked releases after the task and after LOCKED alike. *)
LockExistsReleasing(p) ==
  /\ pc[p] = "try"
  /\ lock # NoLock
  /\ CountTry(p)
  /\ Goto(p, IF timeLeft[p] # Forever /\ timeLeft[p] < 0 THEN "release" ELSE "wait")
  /\ timeLeft' = [timeLeft EXCEPT ![p] =
       IF waitTime[p] = Forever THEN Forever
       ELSE IF @ = Forever THEN waitTime[p] ELSE @ - RetryStep]
  /\ UNCHANGED <<lock, expired, waitTime, finds, deletes, strays>>

(* E11000: the clearing of an expired lock is started and not waited for;  *)
(* LOCKED once timeLeft is negative, else another try after RetryStep.     *)
LockExists(p) ==
  /\ pc[p] = "try"
  /\ lock # NoLock
  /\ finds' = IF Clears < MaxClears THEN finds + 1 ELSE finds
  /\ CountTry(p)
  /\ IF timeLeft[p] # Forever /\ timeLeft[p] < 0
     THEN Goto(p, "busy") /\ UNCHANGED timeLeft
     ELSE /\ Goto(p, "wait")
          /\ timeLeft' = [timeLeft EXCEPT ![p] =
               IF waitTime[p] = Forever THEN Forever
               ELSE IF @ = Forever THEN waitTime[p] ELSE @ - RetryStep]
  /\ UNCHANGED <<lock, expired, waitTime, deletes, strays>>

(* Any other database error ends the attempt. *)
AcquireFails(p) ==
  /\ MayFail
  /\ pc[p] = "try"
  /\ CountTry(p)
  /\ Goto(p, "failed")
  /\ UNCHANGED <<lock, expired, waitTime, timeLeft, finds, deletes, strays>>

Retry(p) ==
  /\ pc[p] = "wait"
  /\ Goto(p, "try")
  /\ UNCHANGED <<lock, expired, waitTime, timeLeft, tries, finds, deletes, strays>>

(* The task calls back; runLocked answers its caller, then releases.       *)
TaskDone(p) ==
  /\ pc[p] = "task"
  /\ Goto(p, "release")
  /\ UNCHANGED <<lock, expired, waitTime, timeLeft, tries, finds, deletes, strays>>

(* The document is deleted; what is about to delete it will find another   *)
(* one or none.                                                            *)
LockGone ==
  /\ lock' = NoLock
  /\ expired' = FALSE

(* releaseLock deletes by key, whoever owns the document. *)
ReleaseLock(p) ==
  /\ pc[p] = "release"
  /\ LockGone
  /\ strays' = strays + deletes
  /\ deletes' = 0
  /\ Goto(p, "done")
  /\ UNCHANGED <<waitTime, timeLeft, tries, finds>>

(* The caller has been answered; nobody notices that the lock stays. *)
ReleaseFails(p) ==
  /\ MayFail
  /\ pc[p] = "release"
  /\ Goto(p, "done")
  /\ UNCHANGED <<lock, expired, waitTime, timeLeft, tries, finds, deletes, strays>>

(* Fault: whether the lock has expired is not looked at. *)
FindAnyLock ==
  /\ finds > 0
  /\ finds' = finds - 1
  /\ deletes' = IF lock # NoLock THEN deletes + 1 ELSE deletes
  /\ UNCHANGED <<lock, expired, pc, waitTime, timeLeft, tries, strays>>

(* clearExpiredLock: the look-up, then the deletion by key. *)
FindLock ==
  /\ finds > 0
  /\ finds' = finds - 1
  /\ deletes' = IF lock # NoLock /\ expired THEN deletes + 1 ELSE deletes
  /\ UNCHANGED <<lock, expired, pc, waitTime, timeLeft, tries, strays>>

DeleteLock ==
  /\ deletes + strays > 0
  /\ LockGone
  /\ strays' = deletes + strays - 1
  /\ deletes' = 0
  /\ UNCHANGED <<pc, waitTime, timeLeft, tries, finds>>

(* expireOn passes; without LongTasks only after the owner is through. *)
Expire ==
  /\ lock # NoLock
  /\ ~expired
  /\ \/ LongTasks
     \/ pc[lock] \notin {"task", "release"}
  /\ expired' = TRUE
  /\ UNCHANGED <<lock, pc, waitTime, timeLeft, tries, finds, deletes, strays>>

Die(p) ==
  /\ MayFail
  /\ pc[p] \in {"task", "release"}
  /\ Goto(p, "dead")
  /\ UNCHANGED <<lock, expired, waitTime, timeLeft, tries, finds, deletes, strays>>

Served == {"done", "busy", "failed", "dead"}
AllServed ==
  /\ \A p \in Procs : pc[p] \in Served
  /\ UNCHANGED vars

Step(p) ==
  AcquireLock(p) \/ LockExists(p) \/ Retry(p) \/ TaskDone(p) \/ ReleaseLock(p)

Next ==
  \/ \E p \in Procs : Step(p) \/ AcquireFails(p) \/ ReleaseFails(p) \/ Die(p)
  \/ FindLock \/ DeleteLock \/ Expire
  \/ AllServed

(* Timers fire, database calls return, tasks end and time passes.          *)
Fairness ==
  /\ \A p \in Procs : WF_vars(Step(p))
  /\ WF_vars(FindLock) /\ WF_vars(DeleteLock) /\ WF_vars(Expire)

Spec == Init /\ [][Next]_vars
FairSpec == Spec /\ Fairness

(* What lockTime is chosen for: no task outlives it, and nobody takes the  *)
(* lock while a clean-up that saw the last one expired is still under way. *)
Running == {p \in Procs : pc[p] \in {"task", "release"}}
Prompt ==
  /\ expired => lock \notin Running
  /\ strays > 0 => lock = NoLock

PromptSpec == Init /\ [][Next /\ Prompt']_vars

----------------------------------------------------------------------------
(* Properties. *)

(* Every variable has its type. *)
TypeOK ==
  /\ lock \in Procs \cup {NoLock}
  /\ expired \in BOOLEAN
  /\ pc \in [Procs -> PC]
  /\ waitTime \in [Procs -> Waits]
  /\ \A p \in Procs : timeLeft[p] # Forever => timeLeft[p] \in Int
  /\ tries \in [Procs -> 0 .. MaxTries]
  /\ finds \in Nat /\ deletes \in Nat /\ strays \in Nat /\ Clears <= MaxClears

(* runLocked never runs two tasks at once, although locks are released and *)
(* cleared by key, owners die, releases are lost and several waiters clear *)
(* one expired lock: stated of PromptSpec.                                 *)
MutualExclusion == \A p, q \in Running : p = q

(* A process with a waitTime gives up neither before it has waited that    *)
(* long nor more than two retry steps later, whatever the attempts.        *)
Waited(p) == (tries[p] - 1) * RetryStep
WaitIsHonoured ==
  /\ TypeOK
  /\ \A p \in Procs : waitTime[p] # Forever =>
       /\ pc[p] = "busy" => Waited(p) > waitTime[p]
       /\ Waited(p) <= waitTime[p] + 2 * RetryStep

(* Without a waitTime a process waits the default of ILockOptions.         *)
DefaultWaitIsHonoured ==
  \A p \in Procs : waitTime[p] = Forever =>
    Waited(p) <= DefaultWait + 2 * RetryStep

(* Every process gets to run its task or is told that it cannot, even if   *)
(* others die while holding the lock or their release is lost.             *)
EveryoneServed == \A p \in Procs : <>(pc[p] \in Served)

(* The lock of a task at work goes only when the task ends, unless its     *)
(* lease has run out, a clean-up of an earlier lock is still under way, or *)
(* a task that lost its own lock is about to release it by key.            *)
Owner == IF lock \in Procs \ Running THEN Orphan ELSE lock
Threatened == expired \/ strays > 0 \/ Running \ {lock} # {}
Lease == INSTANCE LeaseLock WITH
  lock <- Owner, busy <- Running, threatened <- Threatened
IsLeaseLock == Lease!Spec
=============================================================================
