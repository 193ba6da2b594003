-------------------------------- MODULE JobLease --------------------------------
(***************************************************************************)
(* What the advisory lock promises the jobs that take it: at most one run  *)
(* holds the lease.  A run whose lease is revoked is not told; it goes on  *)
(* beside the next one until it ends by itself.                            *)
(***************************************************************************)
CONSTANTS Runner, None

VARIABLES
    run,       \* the runner whose run holds the lease, or None
    orphans    \* runners whose run goes on without it

vars == <<run, orphans>>

Init == run = None /\ orphans = {}

Begin(r) == run = None /\ r \notin orphans /\ run' = r /\ UNCHANGED orphans

End(r) == run = r /\ run' = None /\ UNCHANGED orphans

Revoke(r) == run = r /\ run' = None /\ orphans' = orphans \union {r}

OrphanEnds(r) == r \in orphans /\ orphans' = orphans \ {r} /\ UNCHANGED run

(* A process that dies ends all the runs it had. *)
Die(dead) ==
    /\ run' = IF run \in dead THEN None ELSE run
    /\ orphans' = orphans \ dead

Next ==
    \/ \E r \in Runner : Begin(r) \/ End(r) \/ Revoke(r) \/ OrphanEnds(r)
    \/ \E dead \in SUBSET Runner : Die(dead)

Safety == Init /\ [][Next]_vars

\* No run, with its lease or without, goes on for ever.
Spec == Safety /\ \A r \in Runner : WF_vars(End(r)) /\ WF_vars(OrphanEnds(r))

=============================================================================
