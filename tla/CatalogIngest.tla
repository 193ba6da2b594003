----------------------------- MODULE CatalogIngest ----------------------------
(***************************************************************************)
(* The three ways into the catalogue at once: requests of admins and users *)
(* to catalog-service, an import job inside of it (CatalogImport), and a   *)
(* sync by api-integration-service, which searches a market and upserts    *)
(* what it finds over HTTP, one item after the other, without translations *)
(* (service/service.go, client/catalog/client.go).                         *)
(*                                                                         *)
(* HTTP callers do not wait for ever: the gateway and the services' own    *)
(* clients have timeouts, and catalog-service ends a call whose caller is  *)
(* gone (Fail).                                                            *)
(***************************************************************************)
EXTENDS CatalogImport

CONSTANTS
    Sync,            \* the process of the sync
    Request,         \* the requests under way at a time
    Updates,         \* what an update may change: a slug, translations, is_active
    SyncItems,       \* what the market's search may find, in order
    MaxRequests      \* bound on the requests, the sync included

ASSUME IngestAssumption ==
    /\ Proc = Request \union {Import, Sync} /\ {Import, Sync} \cap Request = {} /\ Import # Sync
    /\ Updates \subseteq [slug : Key \union {NoSlug}, langs : SUBSET Lang, active : Activity]
    /\ SyncItems \subseteq Seq(Key) /\ MaxRequests \in Nat

VARIABLES
    requests,        \* requests made
    sync             \* the request to sync

vars == <<itemVars, importVars, requests, sync>>

SyncPC == {"none", "next", "upsert", "ok", "error"}
SyncCall == [pc : SyncPC, left : Seq(Key), synced : SUBSET Key]
NoSync == [pc |-> "none", left |-> <<>>, synced |-> {}]

\* Translations are committed, by the job or by somebody else.
Localize(p) ==
    localized' = IF ~(call[p].pc = "commit" /\ items' # items /\ call[p].langs # {}) THEN localized
                 ELSE IF p = Import THEN localized \union {call[p].key}
                 ELSE localized \ {call[p].key}

-----------------------------------------------------------------------------
\* Requests to catalog-service

Requested == requests < MaxRequests /\ requests' = requests + 1

Writes(p) ==
    \/ \E k, s \in Key, L \in SUBSET Lang : CreateItem(p, k, s, L) \/ UpsertItem(p, k, s, L)
    \/ \E k \in Key, u \in Updates : UpdateItem(p, k, u.slug, u.langs, u.active)
    \/ \E k \in Key : DeleteItem(p, k)

Reads(p) ==
    \/ \E k \in Key : GetItemByID(p, k)
    \/ \E activeOnly \in BOOLEAN :
           ListItems(p, activeOnly) \/ \E m \in SUBSET Key : SearchItems(p, m, activeOnly)

Serve(p) == Requested /\ (Writes(p) \/ Reads(p)) /\ UNCHANGED <<importVars, sync>>

-----------------------------------------------------------------------------
\* The provider of the game is asked, and finds items; EVE's never searches.
MarketAnswers(found) ==
    /\ sync.pc = "none"
    /\ Requested
    /\ sync' = [sync EXCEPT !.pc = IF found = <<>> THEN "ok" ELSE "next", !.left = found]
    /\ UNCHANGED <<itemVars, importVars>>

SyncSearchToCatalog == \E found \in SyncItems \union {<<>>} : MarketAnswers(found)

SyncItemToCatalog == \E k \in Key : MarketAnswers(<<k>>)

\* wrapProviderError: not found, refused, or no answer.
MarketRefuses ==
    /\ sync.pc = "none"
    /\ Requested
    /\ sync' = [sync EXCEPT !.pc = "error"]
    /\ UNCHANGED <<itemVars, importVars>>

\* toCatalogUpsert: an item without a slug gets its id; no translations.
SyncNext ==
    /\ sync.pc = "next" /\ sync.left # <<>>
    /\ UpsertItem(Sync, Head(sync.left), Head(sync.left), {})
    /\ sync' = [sync EXCEPT !.pc = "upsert"]
    /\ UNCHANGED <<importVars, requests>>

\* The first upsert that fails, or is not answered in time, ends the sync with an error.
SyncDone ==
    /\ sync.pc = "upsert"
    /\ Answered(Sync)
    /\ sync' = IF call[Sync].res = "ok"
               THEN [pc |-> IF Len(sync.left) = 1 THEN "ok" ELSE "next",
                     left |-> Tail(sync.left), synced |-> sync.synced \union {call[Sync].key}]
               ELSE [sync EXCEPT !.pc = "error"]
    /\ UNCHANGED <<importVars, requests>>

-----------------------------------------------------------------------------
CallStep(p) ==
    /\ Step(p)
    /\ Localize(p)
    /\ UNCHANGED <<remote, edits, job, counted, requests, sync>>

CallFails(p) ==
    /\ Fail(p)
    /\ Localize(p)
    /\ UNCHANGED <<remote, edits, job, counted, requests, sync>>

RequestAnswered(p) ==
    /\ Answered(p)
    /\ UNCHANGED <<importVars, requests, sync>>

JobStarts ==
    /\ \E r \in Imports : StartCatalogImport(r)
    /\ UNCHANGED <<requests, sync>>

JobStep == (ImportStep \/ LockRefused \/ MarketFails) /\ UNCHANGED <<requests, sync>>

Market == (\E r \in Remotes : MarketChanges(r)) /\ UNCHANGED <<requests, sync>>

Init == ImportInit /\ requests = 0 /\ sync = NoSync

Next ==
    \/ \E p \in Request : Serve(p) \/ RequestAnswered(p)
    \/ \E p \in Proc : CallStep(p) \/ CallFails(p)
    \/ JobStarts \/ JobStep \/ Market
    \/ SyncSearchToCatalog \/ SyncItemToCatalog \/ MarketRefuses \/ SyncNext \/ SyncDone

(* The service's own steps are taken; an HTTP caller's patience ends.  Nothing
   makes an admin ask for an import, nor a call of the job's fail. *)
Fairness ==
    /\ \A p \in Proc : WF_vars(CallStep(p))
    /\ \A p \in Request : WF_vars(RequestAnswered(p))
    /\ \A p \in Request \union {Sync} : WF_vars(CallFails(p))
    /\ WF_vars(ImportStep /\ UNCHANGED <<requests, sync>>)

Spec == Init /\ [][Next]_vars /\ Fairness

-----------------------------------------------------------------------------
(* Every variable has its type, and every connection is in the pool, or held by
   a transaction, a statement, open rows or the lock of the job. *)
TypeOK ==
    /\ items \in [Key -> ItemRow]
    /\ call \in [Proc -> Call]
    /\ remote \in Remotes /\ edits \in 0..MaxEdits
    /\ job \in Job /\ counted \subseteq Key /\ localized \subseteq Key
    /\ sync \in SyncCall /\ requests \in 0..MaxRequests
    /\ idle + Pinned + Cardinality({p \in Proc : Holds(p) = 1}) = MaxConns

Busy == {p \in Proc : call[p].pc \notin {"idle", "answered"}}

(* A listing asks for a second connection while it has one, so listings can
   starve each other and everybody else of the pool.  Nothing else can: when no
   call under way can take a step, one of them is a listing. *)
StuckNeedsListing ==
    Busy # {} /\ (\A p \in Busy : ~ENABLED Step(p)) => \E p \in Busy : call[p].pc = "next"

(* The item of an answer is read by two statements after the write: its row is
   at least as new as the write, and its translations at least as new as its row. *)
AnswerCoversWrite ==
    \A p \in Proc : call[p].res = "ok" /\ call[p].op \in {"create", "upsert", "update", "get"} =>
        call[p].own <= call[p].row /\ call[p].row <= call[p].trans

(* What an import has counted for its progress, and what a sync reports, is in
   the catalogue, whatever else went wrong. *)
CountedIsStored == \A k \in counted \union sync.synced : Stored(k)

(* Upserts that bring no translations leave those of the item (the test
   UpsertItem_PreservesTranslationsWhenOmitted): what an import has localized
   stays so until another call brings translations of its own. *)
LocalizedStays == \A k \in localized : items[k].langs = job.langs

(* While the market does not change, a completed import has counted, and so
   stored (CountedIsStored), the entries worth it, each of them once, from the
   first one up to the limit or the last: over however many pages none is left
   out for another one, and none is taken twice.  Its progress never goes beyond
   the total it announced. *)
ImportIsComplete ==
    edits = 0 =>
        /\ job.pc = "completed" =>
               \E W \in SUBSET Wanted :
                   /\ \A i \in W, j \in Wanted : j < i => j \in W
                   /\ Cardinality(W) = IF job.limit > 0 THEN Least(job.limit, Cardinality(Wanted))
                                       ELSE Cardinality(Wanted)
                   /\ counted = {remote[i] : i \in W}
                   /\ job.processed = Cardinality(W)
        /\ job.pc \in {"entry", "upsert", "end", "completed"} => job.processed <= job.total

(* What the callers see of the items, and of the calls: how far each one is. *)
ItemsSeen ==
    [k \in Key |-> [slug |-> items[k].slug, active |-> items[k].active, langs |-> items[k].langs]]

StageOf(c) ==
    CASE c.pc = "idle" -> "none"
      [] c.pc = "answered" -> c.res
      [] c.pc \in {"readRow", "readLangs"} /\ c.op # "get" -> "done"
      [] OTHER -> "asked"

Seen(c) == [op |-> c.op, key |-> c.key, slug |-> c.slug, langs |-> c.langs,
            active |-> c.active, stage |-> StageOf(c)]

CallsSeen == [p \in Proc |-> Seen(call[p])]

Store == INSTANCE ItemStore WITH store <- ItemsSeen, calls <- CallsSeen

(* Whatever requests, the import and the sync do at once and wherever a call is
   cut off, the catalogue is a store whose writes happen at one moment each: a
   row is never stored without the translations that came with it, an item that
   was written is found when the answer is read, and what refuses a call is so.
   What the two statements of a read return is no part of the store: the row may
   be older than the translations beside it (AnswerCoversWrite bounds that). *)
ImplementsStore == Store!Spec

(* No call keeps the job from its end: who holds the pool gives up in time. *)
ImportEnds == job.pc # "none" ~> job.pc \in {"completed", "failed"}

=============================================================================
