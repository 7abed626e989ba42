---------------------------- MODULE AbstractLock ----------------------------
(***************************************************************************)
(* What a mutex promises: a thread takes it when nobody has it, keeps it   *)
(* until it gives it back itself, and nobody else's step touches it.       *)
(***************************************************************************)
CONSTANT Threads

VARIABLE holders        \* the threads that hold the lock

Init == holders = {}

Take(t) == holders = {} /\ holders' = {t}

Give(t) == holders = {t} /\ holders' = {}

Next == \E t \in Threads : Take(t) \/ Give(t)

Spec == Init /\ [][Next]_holders

=============================================================================
