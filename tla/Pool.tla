-------------------------------- MODULE Pool --------------------------------
(* A pool of permits: each is free or held, and goes from one to the other. *)
EXTENDS Naturals

CONSTANT Size

VARIABLES free, held

PoolInit == free = Size /\ held = 0
Acquire == free > 0 /\ free' = free - 1 /\ held' = held + 1
Release == held > 0 /\ free' = free + 1 /\ held' = held - 1

PoolSpec == PoolInit /\ [][Acquire \/ Release]_<<free, held>>
=============================================================================
