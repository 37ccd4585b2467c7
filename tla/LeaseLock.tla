----------------------------- MODULE LeaseLock -----------------------------
(***************************************************************************)
(* What the users of a wallet lock may rely on.  A task starts only when   *)
(* no lock is stored; the lock disappears when its task ends, when its     *)
(* owner crashed, or while it is threatened, at any moment.                *)
(***************************************************************************)
CONSTANTS Procs, NoLock, Orphan

VARIABLES
  lock,       \* owner of the stored lock, Orphan when it crashed
  busy,       \* who runs a task
  threatened  \* the lease has run out, or what is left of an earlier one
              \* may take the lock away

Init == lock = NoLock /\ busy = {}

Begin(p) ==
  /\ lock = NoLock /\ p \notin busy
  /\ lock' = p
  /\ busy' = busy \cup {p}

End(p) ==
  /\ p \in busy
  /\ lock = p \/ threatened
  /\ lock' = NoLock
  /\ busy' = busy \ {p}

Die(p) ==
  /\ p \in busy
  /\ lock' = IF lock = p THEN Orphan ELSE lock
  /\ busy' = busy \ {p}

Lapse ==
  /\ lock = Orphan \/ threatened
  /\ lock' = NoLock
  /\ UNCHANGED busy

Next == Lapse \/ \E p \in Procs : Begin(p) \/ End(p) \/ Die(p)

Spec == Init /\ [][Next]_<<lock, busy>>
=============================================================================
