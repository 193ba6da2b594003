----------------------------- MODULE CatalogItems -----------------------------
(***************************************************************************)
(* The items of catalog-service and the calls that read and write them     *)
(* (internal/handler/items.go, service/service.go,                         *)
(* repository/catalog_repository.go), statement by statement.              *)
(*                                                                         *)
(* A write is a transaction on one connection of the pool; its answer is   *)
(* read afterwards, by two further statements outside of it.  A listing    *)
(* keeps its connection while it asks for a second one per row.  A call    *)
(* ends at any statement when the database fails or its caller goes away.  *)
(*                                                                         *)
(* Items of one game and source: a key is an external_id, and the slug it  *)
(* usually has is named as the key.  Input that validation refuses changes *)
(* nothing and is left out.                                                *)
(***************************************************************************)
EXTENDS Naturals, FiniteSets

CONSTANTS
    Key,         \* external ids, and slugs: numbers from 1
    Lang,        \* languages of translations
    Proc,        \* callers, each with one call at a time
    MaxConns     \* size of the connection pool (10 in the code)

ASSUME CatalogAssumption ==
    /\ Key \subseteq Nat \ {0} /\ IsFiniteSet(Key)
    /\ IsFiniteSet(Lang) /\ IsFiniteSet(Proc)
    /\ MaxConns \in Nat \ {0}

VARIABLES
    items,       \* rows of items with their item_translations
    call,        \* the call each process is in
    idle         \* connections of the pool nobody has taken

itemVars == <<items, call, idle>>

NoSlug == 0
Activity == {"on", "off", "keep"}   \* is_active as a call asks for it

\* ver, history: the number of changes committed to the item.
ItemRow == [slug : Key \union {NoSlug}, active : BOOLEAN, langs : SUBSET Lang, ver : Nat]
Absent == [slug |-> NoSlug, active |-> FALSE, langs |-> {}, ver |-> 0]
Stored(k) == items[k].slug # NoSlug

Op == {"none", "create", "upsert", "update", "delete", "get", "list"}
PC == {"idle", "begin", "row", "langs", "commit", "readRow", "readLangs", "next", "answered"}
Result == {"none", "ok", "conflict", "notfound", "error"}

\* own, row, trans, history: the version a write made, and those its answer was read from.
Call == [op : Op, pc : PC, res : Result, key : Key \union {0},
         slug : Key \union {NoSlug}, langs : SUBSET Lang, active : Activity,
         left : SUBSET Key, own : Nat, row : Nat, trans : Nat]

NoCall == [op |-> "none", pc |-> "idle", res |-> "none", key |-> 0, slug |-> NoSlug,
           langs |-> {}, active |-> "keep", left |-> {}, own |-> 0, row |-> 0, trans |-> 0]

\* The connection a call has, for its transaction, its statement or its open rows.
Holds(p) == IF call[p].pc \in {"row", "langs", "commit", "next"} THEN 1 ELSE 0

To(p, pc) == call' = [call EXCEPT ![p].pc = pc]

Ends(p, res) == call' = [call EXCEPT ![p].pc = "answered", ![p].res = res]

\* rollback, rows.Close: the connection goes back.
EndsReleasing(p, res) == Ends(p, res) /\ idle' = idle + Holds(p)

-----------------------------------------------------------------------------
\* Calls

Ask(p, c) == call[p].pc = "idle" /\ call' = [call EXCEPT ![p] = c] /\ UNCHANGED <<items, idle>>

\* No translations are nil, after normalizeTranslations.
CreateItem(p, k, s, L) ==
    Ask(p, [NoCall EXCEPT !.op = "create", !.pc = "begin",
                          !.key = k, !.slug = s, !.langs = L, !.active = "on"])

UpsertItem(p, k, s, L) ==
    Ask(p, [NoCall EXCEPT !.op = "upsert", !.pc = "begin",
                          !.key = k, !.slug = s, !.langs = L, !.active = "on"])

\* An empty slug, no is_active and no translations leave what is there.
UpdateItem(p, k, s, L, a) ==
    Ask(p, [NoCall EXCEPT !.op = "update", !.pc = "begin",
                          !.key = k, !.slug = s, !.langs = L, !.active = a])

DeleteItem(p, k) ==
    Ask(p, [NoCall EXCEPT !.op = "delete", !.pc = "begin", !.key = k, !.active = "off"])

GetItemByID(p, k) ==
    Ask(p, [NoCall EXCEPT !.op = "get", !.pc = "readRow", !.key = k])

-----------------------------------------------------------------------------
\* Transactions

\* BeginTx, or Exec on the pool: wait for a connection.
Begin(p) ==
    /\ call[p].pc = "begin" /\ call[p].op # "list"
    /\ idle > 0 /\ idle' = idle - 1
    /\ To(p, "row")
    /\ UNCHANGED items

NewSlug(p) == IF call[p].slug = NoSlug THEN items[call[p].key].slug ELSE call[p].slug

\* UNIQUE (game, source, slug)
SlugTaken(p) == \E k \in Key \ {call[p].key} : Stored(k) /\ items[k].slug = NewSlug(p)

(* A statement waits while another transaction has the row, or has written or
   left the slug, and has not ended. *)
Blocked(p) ==
    \E q \in Proc \ {p} :
        /\ call[q].pc \in {"langs", "commit"}
        /\ \/ call[q].key = call[p].key
           \/ NewSlug(p) \in {NewSlug(q), items[call[q].key].slug}

Statement(p, op) == call[p].pc = "row" /\ call[p].op = op /\ ~Blocked(p)

RowWritten(p) ==
    /\ To(p, IF call[p].langs = {} THEN "commit" ELSE "langs")
    /\ UNCHANGED <<items, idle>>

InsertRow(p) ==
    /\ Statement(p, "create")
    /\ IF Stored(call[p].key) \/ SlugTaken(p)
       THEN EndsReleasing(p, "conflict") /\ UNCHANGED items
       ELSE RowWritten(p)

(* Slip: the error of the statement returns without the rollback. *)
UpsertRowLeaking(p) ==
    /\ Statement(p, "upsert")
    /\ IF SlugTaken(p)
       THEN Ends(p, "error") /\ UNCHANGED <<items, idle>>
       ELSE RowWritten(p)

\* ON CONFLICT (game, source, external_id) DO UPDATE
UpsertRow(p) ==
    /\ Statement(p, "upsert")
    /\ IF SlugTaken(p)
       THEN EndsReleasing(p, "error") /\ UNCHANGED items
       ELSE RowWritten(p)

UpdateRow(p) ==
    /\ Statement(p, "update")
    /\ CASE ~Stored(call[p].key) -> EndsReleasing(p, "notfound") /\ UNCHANGED items
         [] Stored(call[p].key) /\ SlugTaken(p) -> EndsReleasing(p, "conflict") /\ UNCHANGED items
         [] OTHER -> RowWritten(p)

Deactivated(k) == [items EXCEPT ![k].active = FALSE, ![k].ver = @ + 1]

\* One statement, a transaction of its own.
DeactivateRow(p) ==
    /\ Statement(p, "delete")
    /\ IF Stored(call[p].key)
       THEN items' = Deactivated(call[p].key) /\ EndsReleasing(p, "ok")
       ELSE EndsReleasing(p, "notfound") /\ UNCHANGED items

(* Slip: the translations are written over the pool, outside of the transaction. *)
WriteTranslationsAtOnce(p) ==
    /\ call[p].pc = "langs"
    /\ items' = [items EXCEPT ![call[p].key].langs = call[p].langs]
    /\ To(p, "commit")
    /\ UNCHANGED idle

\* DELETE and INSERTs in the transaction, seen by nobody before it commits.
WriteTranslations(p) ==
    /\ call[p].pc = "langs"
    /\ To(p, "commit")
    /\ UNCHANGED <<items, idle>>

(* Slip: an upsert replaces the translations even when it brings none. *)
RowOfReplacing(p) ==
    LET c == call[p] old == items[c.key]
    IN  [slug |-> NewSlug(p), ver |-> old.ver + 1, langs |-> c.langs,
         active |-> c.active = "on" \/ (c.active = "keep" /\ old.active)]

\* What the transaction makes of the row and of its translations.
RowOf(p) ==
    LET c == call[p] old == items[c.key]
    IN  [slug |-> NewSlug(p), ver |-> old.ver + 1,
         langs |-> IF c.langs = {} THEN old.langs ELSE c.langs,
         active |-> c.active = "on" \/ (c.active = "keep" /\ old.active)]

Apply(p) == items' = [items EXCEPT ![call[p].key] = RowOf(p)]

(* Slip: the row of the answer is read before the commit, over a second
   connection while the transaction has the first. *)
CommitAfterReading(p) ==
    /\ call[p].pc = "commit"
    /\ idle > 0
    /\ Apply(p)
    /\ call' = [call EXCEPT ![p].pc = "readLangs", ![p].own = items[call[p].key].ver + 1,
                            ![p].row = items[call[p].key].ver]
    /\ idle' = idle + 1

Commit(p) ==
    /\ call[p].pc = "commit"
    /\ Apply(p)
    /\ call' = [call EXCEPT ![p].pc = "readRow", ![p].own = items[call[p].key].ver + 1]
    /\ idle' = idle + 1

-----------------------------------------------------------------------------
\* Reads: each takes a connection for one statement, and leaves it.

ReadRow(p) ==
    /\ call[p].pc = "readRow"
    /\ idle > 0
    /\ IF Stored(call[p].key)
       THEN call' = [call EXCEPT ![p].pc = "readLangs", ![p].row = items[call[p].key].ver]
       ELSE Ends(p, "notfound")
    /\ UNCHANGED <<items, idle>>

ReadTranslations(p) ==
    /\ call[p].pc = "readLangs"
    /\ idle > 0
    /\ call' = [call EXCEPT ![p].pc = "answered", ![p].res = "ok",
                            ![p].trans = items[call[p].key].ver]
    /\ UNCHANGED <<items, idle>>

\* The query of a listing, once it has a connection; its rows stay open.
OpenRows(p, found) ==
    /\ call[p].pc = "idle"
    /\ idle > 0 /\ idle' = idle - 1
    /\ call' = [call EXCEPT ![p] = [NoCall EXCEPT !.op = "list", !.pc = "next", !.left = found]]
    /\ UNCHANGED items

\* One page of them; active_only defaults to TRUE, and FALSE asks for the inactive ones.
ListItems(p, activeOnly) == OpenRows(p, {k \in Key : Stored(k) /\ items[k].active = activeOnly})

SearchItems(p, matching, activeOnly) ==
    OpenRows(p, {k \in matching : Stored(k) /\ items[k].active = activeOnly})

\* The translations of the next row, over a second connection.
NextRow(p) ==
    /\ call[p].pc = "next" /\ call[p].left # {}
    /\ idle > 0
    /\ \E k \in call[p].left : call' = [call EXCEPT ![p].left = @ \ {k}]
    /\ UNCHANGED <<items, idle>>

RowsDone(p) ==
    /\ call[p].pc = "next" /\ call[p].left = {}
    /\ EndsReleasing(p, "ok")
    /\ UNCHANGED items

-----------------------------------------------------------------------------
(* The database fails, or the caller is gone and the context of the call ends:
   an open transaction is rolled back, unless its COMMIT has been sent, and a
   statement of its own may have been executed. *)
Fail(p) ==
    /\ call[p].pc \notin {"idle", "answered"}
    /\ EndsReleasing(p, "error")
    /\ \/ UNCHANGED items
       \/ call[p].pc = "commit" /\ Apply(p)
       \/ /\ Statement(p, "delete") /\ Stored(call[p].key)
          /\ items' = Deactivated(call[p].key)

\* The answer is written; what it said is no longer of interest.
Answered(p) ==
    /\ call[p].pc = "answered"
    /\ call' = [call EXCEPT ![p] = NoCall]
    /\ UNCHANGED <<items, idle>>

Step(p) ==
    \/ Begin(p) \/ InsertRow(p) \/ UpsertRow(p) \/ UpdateRow(p) \/ DeactivateRow(p)
    \/ WriteTranslations(p) \/ Commit(p)
    \/ ReadRow(p) \/ ReadTranslations(p) \/ NextRow(p) \/ RowsDone(p)

ItemsInit ==
    /\ items = [k \in Key |-> Absent]
    /\ call = [p \in Proc |-> NoCall]

=============================================================================
