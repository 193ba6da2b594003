----------------------------- MODULE CatalogImport ----------------------------
(***************************************************************************)
(* The import of a game's market catalogue into the items of               *)
(* CatalogItems: an admin job (adminjobs/catalog_import_runner.go) runs    *)
(* the importer (shared/catalogimport/importer) over a source              *)
(* (shared/catalogimport/source), one upsert after the other, inside       *)
(* catalog-service.                                                        *)
(*                                                                         *)
(* While it runs the job keeps the connection of its advisory lock.  Its   *)
(* context has no end: only an error stops it.  A remote entry is a key,   *)
(* or a Junk entry, which the source leaves out: not priced, without sell  *)
(* orders, unpublished or without a slug.  A request to the market, with   *)
(* the attempts the source makes at it (five at most), is one step, which  *)
(* may fail.                                                               *)
(***************************************************************************)
EXTENDS CatalogItems, Sequences

CONSTANTS
    Import,      \* the process of the job
    Junk,        \* an entry no source imports
    Remotes,     \* the catalogues the market may have
    Imports,     \* what an admin may ask for: a game, a language, a limit (0 for none)
    PageSize,    \* of the source that pages (1000 in the code)
    MaxEdits     \* bound on the changes of the market's catalogue

ASSUME ImportAssumption ==
    /\ Import \in Proc /\ Junk \notin Key
    /\ Remotes \subseteq Seq(Key \union {Junk})
    /\ Imports \subseteq [game : {"tarkov", "warframe", "eve"}, langs : SUBSET Lang, limit : Nat]
    /\ PageSize \in Nat \ {0} /\ MaxEdits \in Nat

VARIABLES
    remote,      \* the market's catalogue
    edits,       \* how often it has changed
    job,         \* the admin job and its importer
    counted,     \* history: keys the job has counted as processed
    localized    \* history: keys the job has translated, and nobody else since

importVars == <<remote, edits, job, counted, localized>>

Game == {"tarkov", "warframe", "eve"}
JobPC == {"none", "lock", "mark", "hint", "fetch", "entry", "upsert", "end", "abort", "completed", "failed"}

Job == [pc : JobPC, game : Game, langs : SUBSET Lang, limit : Nat,
        total : Nat, processed : Nat, offset : Nat, page : Seq(Key \union {Junk}), last : BOOLEAN]

NoJob == [pc |-> "none", game |-> "tarkov", langs |-> {}, limit |-> 0,
          total |-> 0, processed |-> 0, offset |-> 0, page |-> <<>>, last |-> FALSE]

Least(a, b) == IF a < b THEN a ELSE b

\* What a source takes of the catalogue: the places of the entries worth it.
Wanted == {i \in DOMAIN remote : remote[i] # Junk}

JobTo(pc) == job' = [job EXCEPT !.pc = pc]

-----------------------------------------------------------------------------
(* StartCatalogImport: the job is registered as running, and answered.  "en" or
   no language asks for no translations. *)
StartCatalogImport(r) ==
    /\ job.pc = "none"
    /\ job' = [NoJob EXCEPT !.pc = "lock", !.game = r.game, !.langs = r.langs, !.limit = r.limit]
    /\ UNCHANGED <<remote, edits, counted, localized, itemVars>>

\* AcquireSchedulerLock takes a connection for as long as the job runs.
TakeImportLock ==
    /\ job.pc = "lock"
    /\ idle > 0 /\ idle' = idle - 1
    /\ JobTo("mark")
    /\ UNCHANGED <<remote, edits, counted, localized, items, call>>

\* Another run has the lock, or the database fails: failed or skipped, at once.
LockRefused ==
    /\ job.pc = "lock"
    /\ JobTo("failed")
    /\ UNCHANGED <<remote, edits, counted, localized, itemVars>>

\* MarkSchedulerStarted, on a second connection; its error does not matter.
MarkImportStarted ==
    /\ job.pc = "mark"
    /\ idle > 0
    /\ JobTo("hint")
    /\ UNCHANGED <<remote, edits, counted, localized, itemVars>>

\* A paging source believes the limit, or counts every entry.
TarkovTotal == IF job.limit > 0 THEN job.limit ELSE Len(remote)

\* The whole list, junk included, up to the limit.
WarframeTotal == IF job.limit > 0 THEN Least(Len(remote), job.limit) ELSE Len(remote)

\* The entries with a price: which of them are published is not known yet.
EveTotals ==
    LET priced == {n \in 0..Len(remote) : Cardinality(Wanted) <= n}
    IN  {IF job.limit > 0 THEN Least(n, job.limit) ELSE n : n \in priced}

\* TotalHint, then OnStart tells the manager.
TotalHint ==
    /\ job.pc = "hint"
    /\ \E n \in CASE job.game = "tarkov" -> {TarkovTotal}
              [] job.game = "warframe" -> {WarframeTotal}
              [] job.game = "eve" -> EveTotals :
           job' = [job EXCEPT !.pc = "fetch", !.total = n]
    /\ UNCHANGED <<remote, edits, counted, localized, itemVars>>

(* Slip: an offset that counts the entries imported, not those listed. *)
TarkovFetchFromProcessed ==
    /\ job.pc = "fetch" /\ job.game = "tarkov"
    /\ LET batch == IF job.limit > 0 THEN Least(PageSize, job.limit - job.processed) ELSE PageSize
           page == SubSeq(remote, job.processed + 1, Least(Len(remote), job.processed + batch))
       IN  job' = [job EXCEPT !.page = page,
                              !.offset = @ + Len(page),
                              !.last = Len(page) < batch,
                              !.pc = IF page = <<>> THEN "end" ELSE "entry"]
    /\ UNCHANGED <<remote, edits, counted, localized, itemVars>>

(* A page of PageSize, or of what is left to the limit; one that is not full
   is the last. *)
TarkovFetch ==
    /\ job.pc = "fetch" /\ job.game = "tarkov"
    /\ LET batch == IF job.limit > 0 THEN Least(PageSize, job.limit - job.processed) ELSE PageSize
           page == SubSeq(remote, job.offset + 1, Least(Len(remote), job.offset + batch))
       IN  job' = [job EXCEPT !.page = page,
                              !.offset = @ + Len(page),
                              !.last = Len(page) < batch,
                              !.pc = IF page = <<>> THEN "end" ELSE "entry"]
    /\ UNCHANGED <<remote, edits, counted, localized, itemVars>>

\* Warframe and EVE list everything at once, and go through it without asking again.
FetchAll ==
    /\ job.pc = "fetch" /\ job.game # "tarkov"
    /\ job' = [job EXCEPT !.page = remote, !.last = TRUE, !.pc = "entry"]
    /\ UNCHANGED <<remote, edits, counted, localized, itemVars>>

LimitReached == job.limit > 0 /\ job.processed >= job.limit

\* The page is used up: fetch the next one, or stop.
PageDone ==
    /\ job.pc = "entry" /\ (job.page = <<>> \/ LimitReached)
    /\ JobTo(IF job.last \/ LimitReached THEN "end" ELSE "fetch")
    /\ UNCHANGED <<remote, edits, counted, localized, itemVars>>

(* The entry is looked up at the market (hasSellOrders, fetchType), which shows
   whether it is worth importing. *)
NextEntry(worth) ==
    /\ job.pc = "entry" /\ job.page # <<>> /\ ~LimitReached
    /\ (Head(job.page) # Junk) = worth

\* No price, no sell order, no published type: it is passed over, and not counted.
SkipEntry ==
    /\ NextEntry(FALSE)
    /\ job' = [job EXCEPT !.page = Tail(@)]
    /\ UNCHANGED <<remote, edits, counted, localized, itemVars>>

\* Languages an entry is translated to: the market may not have the one asked for.
Translated == {{}, job.langs}

\* The entry is consumed: it goes to the upsert of the catalog.
ImportEntry ==
    /\ NextEntry(TRUE)
    /\ \E L \in Translated :
           UpsertItem(Import, Head(job.page), Head(job.page), L)
    /\ JobTo("upsert")
    /\ UNCHANGED <<remote, edits, counted, localized>>

(* Slip: an upsert that failed is counted like any other. *)
EntryDoneUnchecked ==
    /\ job.pc = "upsert"
    /\ Answered(Import)
    /\ job' = [job EXCEPT !.pc = "entry", !.processed = @ + 1, !.page = Tail(@)]
    /\ counted' = counted \union {call[Import].key}
    /\ UNCHANGED <<remote, edits, localized>>

\* OnItemProcessed after a stored entry; the first error ends the import.
EntryDone ==
    /\ job.pc = "upsert"
    /\ Answered(Import)
    /\ IF call[Import].res = "ok"
       THEN /\ job' = [job EXCEPT !.pc = "entry", !.processed = @ + 1, !.page = Tail(@)]
            /\ counted' = counted \union {call[Import].key}
       ELSE JobTo("abort") /\ UNCHANGED counted
    /\ UNCHANGED <<remote, edits, localized>>

\* The market does not answer, is too busy in every attempt, or answers with an error.
MarketFails ==
    /\ job.pc \in {"hint", "fetch", "entry"}
    /\ JobTo("abort")
    /\ UNCHANGED <<remote, edits, counted, localized, itemVars>>

(* Slip: a failed run returns without giving the lock's connection back. *)
JobEndsLeaking ==
    /\ job.pc \in {"end", "abort"}
    /\ idle > 0
    /\ JobTo(IF job.pc = "end" THEN "completed" ELSE "failed")
    /\ idle' = IF job.pc = "end" THEN idle + 1 ELSE idle
    /\ UNCHANGED <<remote, edits, counted, localized, items, call>>

\* MarkSchedulerFinished, on a connection of its own; then the lock is released.
JobEnds ==
    /\ job.pc \in {"end", "abort"}
    /\ idle > 0
    /\ JobTo(IF job.pc = "end" THEN "completed" ELSE "failed")
    /\ idle' = idle + 1
    /\ UNCHANGED <<remote, edits, counted, localized, items, call>>

Pinned == IF job.pc \in JobPC \ {"none", "lock", "completed", "failed"} THEN 1 ELSE 0

ImportStep ==
    \/ TakeImportLock \/ MarkImportStarted \/ TotalHint \/ TarkovFetch \/ FetchAll \/ PageDone
    \/ SkipEntry \/ ImportEntry \/ EntryDone \/ JobEnds

\* Entries come and go at the market.
MarketChanges(r) ==
    /\ edits < MaxEdits /\ edits' = edits + 1
    /\ r # remote /\ remote' = r
    /\ UNCHANGED <<job, counted, localized, itemVars>>

ImportInit ==
    /\ ItemsInit
    /\ idle = MaxConns
    /\ remote \in Remotes /\ edits = 0
    /\ job = NoJob /\ counted = {} /\ localized = {}

=============================================================================
