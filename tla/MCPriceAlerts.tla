---------------------------- MODULE MCPriceAlerts ----------------------------
(***************************************************************************)
(* Small instances of PriceAlerts: every watchlist row belongs to u1, so   *)
(* that the rows share the mail, the digest and the run of one user, or    *)
(* each row has a user of its own.                                         *)
(***************************************************************************)
EXTENDS PriceAlerts, TLC

CONSTANTS u1, u2

MCOwner == [w \in Watch |-> u1]
MCOwners == [w \in Watch |-> IF w = 1 THEN u1 ELSE u2]

(* Both users want mail at once, and u1 can have it, while u2 may have no
   address or watch an item that is not active.  An edit may change any of it. *)
WatchedInit ==
    /\ Init
    /\ \A w \in Watch :
           /\ row[w] = "on" /\ pref[Owner[w]] = [enabled |-> TRUE, mode |-> "immediate"]
           /\ Owner[w] = u1 => active[w] /\ reachable[u1]

WatchedSpec == WatchedInit /\ [][Next]_vars /\ Fairness

\* Replicas are interchangeable; only safety is checked with it.
Symmetry == Permutations(Sched)

=============================================================================
