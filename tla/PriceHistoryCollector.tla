------------------------- MODULE PriceHistoryCollector -------------------------
(***************************************************************************)
(* A run of the price collector of catalog-service (RunOnce of             *)
(* internal/scheduler/price_history.go): count the active items page by    *)
(* page, then list the pages again and collect a price for each item.      *)
(*                                                                         *)
(* Every page is a query of its own with LIMIT and OFFSET over the items   *)
(* active at that moment, while admins and importers activate and          *)
(* deactivate items.  Runs exclude each other by the lock of               *)
(* SchedulerLock, so there is one.                                         *)
(***************************************************************************)
EXTENDS Naturals, FiniteSets

CONSTANTS
    Item,        \* numbered in the order of created_at
    Batch,       \* the page size
    MaxFaults,   \* bound on failing calls and runs cut off
    MaxEdits     \* bound on the changes to the catalog

ASSUME CollectorAssumption ==
    /\ Item \subseteq Nat /\ IsFiniteSet(Item)
    /\ Batch \in Nat \ {0} /\ MaxFaults \in Nat /\ MaxEdits \in Nat

VARIABLES
    life,        \* rows of items: absent, or is_active or not
    pc, offset,
    page,        \* the items of the page at hand still to collect
    total,       \* what the counting pass found
    processed,   \* items the observer was told of
    collected,   \* items whose price the run has stored
    faults, edits,
    \* history, read by the properties only
    steady,      \* items active ever since the second pass began
    visits,      \* how often the run has come to each item
    ons, offs    \* items activated during the run, deactivated during its second pass

vars == <<life, pc, offset, page, total, processed, collected, faults, edits,
          steady, visits, ons, offs>>
catalog == <<life, edits, steady, ons, offs>>

Life == {"absent", "on", "off"}
PC == {"idle", "count", "list", "collect", "done", "cut"}

Active == {i \in Item : life[i] = "on"}

\* ListActiveItemsForPriceSync
Page(o) == {i \in Active : Cardinality({j \in Active : j < i}) \in o..(o + Batch - 1)}

First(S) == CHOOSE i \in S : \A j \in S : i <= j

Fault == faults < MaxFaults /\ faults' = faults + 1

-----------------------------------------------------------------------------
Begin ==
    /\ pc \in {"idle", "done", "cut"}
    /\ pc' = "count"
    /\ offset' = 0 /\ total' = 0 /\ processed' = 0 /\ collected' = {}
    /\ steady' = {} /\ visits' = [i \in Item |-> 0] /\ ons' = 0 /\ offs' = 0
    /\ UNCHANGED <<life, page, faults, edits>>

(* Slip: the offset of the counting pass is not reset. *)
BeginCollectingAtOffset ==
    /\ pc' = "list"
    /\ UNCHANGED offset
    /\ steady' = Active /\ offs' = 0
    /\ UNCHANGED ons

\* OnStart; the second pass begins.
BeginCollecting ==
    /\ pc' = "list"
    /\ offset' = 0
    /\ steady' = Active /\ offs' = 0
    /\ UNCHANGED ons

(* Slip: the count of the last page is taken for the total. *)
CountLastPage ==
    /\ pc = "count"
    /\ total' = Cardinality(Page(offset))
    /\ IF Cardinality(Page(offset)) < Batch
       THEN BeginCollecting
       ELSE offset' = offset + Batch /\ UNCHANGED <<pc, steady, ons, offs>>
    /\ UNCHANGED <<life, page, processed, collected, faults, edits, visits>>

\* A page that is not full is the last one.
CountPage ==
    /\ pc = "count"
    /\ total' = total + Cardinality(Page(offset))
    /\ IF Cardinality(Page(offset)) < Batch
       THEN BeginCollecting
       ELSE offset' = offset + Batch /\ UNCHANGED <<pc, steady, ons, offs>>
    /\ UNCHANGED <<life, page, processed, collected, faults, edits, visits>>

(* Slip: an empty page is not looked for. *)
ListAnyPage ==
    /\ pc = "list"
    /\ page' = Page(offset) /\ pc' = "collect" /\ offset' = offset + Batch
    /\ UNCHANGED <<catalog, total, processed, collected, faults, visits>>

(* Slip: the next page starts with the last item of this one. *)
ListPageOverlapping ==
    /\ pc = "list"
    /\ page' = Page(offset)
    /\ IF page' = {}
       THEN pc' = "done" /\ UNCHANGED offset
       ELSE pc' = "collect" /\ offset' = offset + Batch - 1
    /\ UNCHANGED <<catalog, total, processed, collected, faults, visits>>

\* The second pass ends with an empty page.
ListPage ==
    /\ pc = "list"
    /\ page' = Page(offset)
    /\ IF page' = {}
       THEN pc' = "done" /\ UNCHANGED offset
       ELSE pc' = "collect" /\ offset' = offset + Batch
    /\ UNCHANGED <<catalog, total, processed, collected, faults, visits>>

(* The query fails or the run has used up its 15 minutes: it is given up, and
   recorded as finished without an error. *)
ListFails ==
    /\ pc \in {"count", "list"}
    /\ Fault
    /\ pc' = "cut"
    /\ UNCHANGED <<catalog, offset, page, total, processed, collected, visits>>

(* The next item of the page, whatever has become of it since. *)
Visit ==
    /\ pc = "collect"
    /\ LET i == First(page)
       IN  /\ page' = page \ {i}
           /\ visits' = [visits EXCEPT ![i] = @ + 1]
    /\ processed' = processed + 1
    /\ pc' = IF page' = {} THEN "list" ELSE "collect"
    /\ UNCHANGED <<catalog, offset, total>>

CollectItem ==
    /\ Visit
    /\ collected' = collected \union {First(page)}
    /\ UNCHANGED faults

\* No price is found, the integration does not answer, or the price is not stored.
CollectFails ==
    /\ Visit
    /\ Fault
    /\ UNCHANGED collected

\* The replica dies; the next run starts from the beginning.
Crash ==
    /\ pc \notin {"idle", "done"}
    /\ Fault
    /\ pc' = "idle" /\ page' = {}
    /\ UNCHANGED <<catalog, offset, total, processed, collected, visits>>

-----------------------------------------------------------------------------
Edited == edits < MaxEdits /\ edits' = edits + 1

(* CreateItem, UpsertItem, UpdateItem with is_active: an item appears at its
   place in the order of created_at. *)
Activate(i) ==
    /\ life[i] # "on"
    /\ Edited
    /\ life' = [life EXCEPT ![i] = "on"]
    /\ ons' = ons + 1
    /\ UNCHANGED <<pc, offset, page, total, processed, collected, faults, steady, visits, offs>>

DeactivateItem(i) ==
    /\ life[i] = "on"
    /\ Edited
    /\ life' = [life EXCEPT ![i] = "off"]
    /\ offs' = offs + 1
    /\ steady' = steady \ {i}
    /\ UNCHANGED <<pc, offset, page, total, processed, collected, faults, visits, ons>>

Init ==
    /\ life \in [Item -> {"absent", "on"}]
    /\ pc = "idle" /\ offset = 0 /\ page = {}
    /\ total = 0 /\ processed = 0 /\ collected = {}
    /\ faults = 0 /\ edits = 0
    /\ steady = {} /\ visits = [i \in Item |-> 0] /\ ons = 0 /\ offs = 0

Next ==
    \/ Begin \/ CountPage \/ ListPage \/ ListFails
    \/ CollectItem \/ CollectFails \/ Crash
    \/ \E i \in Item : Activate(i) \/ DeactivateItem(i)

Spec == Init /\ [][Next]_vars

-----------------------------------------------------------------------------
(* Every variable has its type, and a run that collects has an item at hand. *)
TypeOK ==
    /\ life \in [Item -> Life]
    /\ pc \in PC
    /\ {offset, total, processed, faults, edits, ons, offs} \subseteq Nat
    /\ page \subseteq Item /\ collected \subseteq Item /\ steady \subseteq Active
    /\ visits \in [Item -> Nat]
    /\ pc = "collect" <=> page # {}

Missed == steady \ {i \in Item : visits[i] > 0}

(* OFFSET counts from the items active now: one that leaves the pages already
   listed moves the rest, and the next page starts too late.  Of the items
   active all along, a run that reaches its end misses one at most for each
   item deactivated under it, and none otherwise. *)
MissesNeedDeactivations == pc = "done" => Cardinality(Missed) <= offs

(* "Start full price history sync job", says the API: a run that reaches its
   end has come to every item that was active all along. *)
SyncIsFull == pc = "done" => Missed = {}

(* An item that joins the pages already listed makes the next page start too
   early: a run comes to no item twice but for an item activated under it. *)
SecondVisitsNeedActivations ==
    \A i \in Item : visits[i] <= 1 + ons

(* The progress an admin sees is a share of the total counted first: it goes
   beyond it by no more than was activated meanwhile. *)
ProcessedWithinTotal == pc \in {"list", "collect", "done"} => processed <= total + ons

=============================================================================
