---------------------------- MODULE AbstractLock ----------------------------
(***************************************************************************)
(* What a lock promises: it has at most one holder, it is taken only when  *)
(* it is free, and only its holder gives it up.  The spin lock and the     *)
(* mutex of Kernel/Sync are shown to implement it.                         *)
(***************************************************************************)

CONSTANTS
  Clients,   \* who may hold a lock
  Locks,
  NoHolder   \* the value of a free lock, not a client

VARIABLE holder

Init == holder = [l \in Locks |-> NoHolder]

Acquire(k, l) ==
  /\ holder[l] = NoHolder
  /\ holder' = [holder EXCEPT ![l] = k]

Release(k, l) ==
  /\ holder[l] = k
  /\ holder' = [holder EXCEPT ![l] = NoHolder]

Next == \E k \in Clients, l \in Locks : Acquire(k, l) \/ Release(k, l)

Spec == Init /\ [][Next]_holder

=============================================================================
