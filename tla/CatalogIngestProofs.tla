-------------------------- MODULE CatalogIngestProofs --------------------------
(***************************************************************************)
(* Theorems of CatalogIngest for any items, languages, requests, sizes of  *)
(* the pool and of a page, and any catalogues of the market.               *)
(***************************************************************************)
EXTENDS CatalogIngest, SequenceTheorems, FiniteSetTheorems, TLAPS

\* Calls whose answer holds the item, read after the write.
Answering == {"create", "upsert", "update", "get"}

(* What a call in progress knows: what it has written is stored, and versions
   only grow from the write to the two reads of its answer. *)
CallInv(p) ==
    LET c == call[p] IN
    /\ c.op = "none" <=> c.pc = "idle"
    /\ c.op = "none" => c.langs = {}
    /\ c.pc = "next" => c.op = "list"
    /\ c.pc \in {"begin", "row"} => c.op \in {"create", "upsert", "update", "delete"}
    /\ c.op \notin {"none", "list"} => c.key \in Key
    /\ c.op \in {"create", "upsert"} => c.slug \in Key
    /\ c.pc \in {"langs", "commit"} =>
          c.op \in {"create", "upsert"} \/ (c.op = "update" /\ Stored(c.key))
    /\ c.pc \in {"readRow", "readLangs"} => c.op \in Answering
    /\ c.pc = "readRow" => c.own <= items[c.key].ver
    /\ c.pc = "readLangs" =>
          Stored(c.key) /\ c.own <= c.row /\ c.row <= items[c.key].ver
    /\ c.res = "ok" /\ c.op \in Answering =>
          Stored(c.key) /\ c.own <= c.row /\ c.row <= c.trans
    /\ c.res # "none" => c.pc = "answered"

ItemsTyped ==
    /\ items \in [Key -> ItemRow] /\ call \in [Proc -> Call] /\ idle \in Nat

\* No item is lost, and its version only grows.
ItemsGrow == \A k \in Key : (Stored(k) => Stored(k)') /\ items[k].ver <= items'[k].ver

\* A connection is taken from the pool, given back, or neither.
Balanced(p) ==
    \/ Holds(p)' = Holds(p) /\ idle' = idle
    \/ Holds(p) = 0 /\ Holds(p)' = 1 /\ idle = idle' + 1
    \/ Holds(p) = 1 /\ Holds(p)' = 0 /\ idle' = idle + 1

(* One process moves: its call is sound again, and the connection it has or has
   not is taken from the pool or given back to it. *)
Moved(p) ==
    /\ \E c \in Call : call' = [call EXCEPT ![p] = c]
    /\ items' \in [Key -> ItemRow] /\ ItemsGrow
    /\ idle' \in Nat /\ Balanced(p)
    /\ CallInv(p)'

\* A call takes a step and remains the call it was.
SameCall(p) ==
    /\ call'[p].op = call[p].op /\ call'[p].key = call[p].key
    /\ call'[p].langs = call[p].langs

\* What a step may do to the items.
ItemsStep(p) ==
    \/ items' = items
    \/ call[p].pc = "commit" /\ items' = [items EXCEPT ![call[p].key] = RowOf(p)]
    \/ /\ call[p].pc = "row" /\ call[p].op = "delete" /\ call[p].key \in Key
       /\ items' = Deactivated(call[p].key)

LEMMA CommitRow ==
  ASSUME ItemsTyped, NEW p \in Proc, CallInv(p), call[p].pc = "commit"
  PROVE  /\ call[p].key \in Key /\ call[p].op \in Answering
         /\ RowOf(p) \in ItemRow /\ RowOf(p).slug # NoSlug
         /\ RowOf(p).ver = items[call[p].key].ver + 1
  <1>1. call[p].key \in Key /\ call[p].op \in Answering
    BY DEF CallInv, Answering
  <1>2. NewSlug(p) \in Key
    BY <1>1 DEF CallInv, NewSlug, ItemsTyped, Call, Stored, ItemRow
  <1>3. NoSlug \notin Key
    BY CatalogAssumption DEF NoSlug
  <1>4. items[call[p].key] \in ItemRow /\ call[p] \in Call
    BY <1>1 DEF ItemsTyped
  <1>5. items[call[p].key].ver \in Nat /\ items[call[p].key].langs \in SUBSET Lang
        /\ call[p].langs \in SUBSET Lang
    BY <1>4 DEF ItemRow, Call
  <1> QED
    BY <1>1, <1>2, <1>3, <1>5 DEF RowOf, ItemRow

LEMMA ApplyGrows ==
  ASSUME ItemsTyped, NEW p \in Proc, CallInv(p), call[p].pc = "commit", Apply(p)
  PROVE  /\ items' \in [Key -> ItemRow] /\ ItemsGrow
         /\ items'[call[p].key].slug # NoSlug
         /\ items'[call[p].key].ver = items[call[p].key].ver + 1
  <1> DEFINE row == RowOf(p)
  <1>1. items' = [items EXCEPT ![call[p].key] = row]
    BY DEF Apply
  <1>2. /\ call[p].key \in Key /\ row \in ItemRow /\ row.slug # NoSlug
        /\ row.ver = items[call[p].key].ver + 1
    BY CommitRow
  <1> HIDE DEF row
  <1>3. items' \in [Key -> ItemRow]
    BY <1>1, <1>2 DEF ItemsTyped
  <1>4. /\ items'[call[p].key] = row
        /\ \A k \in Key \ {call[p].key} : items'[k] = items[k]
    BY <1>1, <1>2 DEF ItemsTyped
  <1>5. \A k \in Key : items[k].ver \in Nat
    BY DEF ItemsTyped, ItemRow
  <1> QED
    BY <1>2, <1>3, <1>4, <1>5 DEF ItemsGrow, Stored

LEMMA DeactivatedGrows ==
  ASSUME ItemsTyped, NEW k \in Key, items' = Deactivated(k)
  PROVE  items' \in [Key -> ItemRow] /\ ItemsGrow
  BY DEF Deactivated, ItemsTyped, ItemRow, ItemsGrow, Stored

LEMMA SameItems == ASSUME ItemsTyped, items' = items
                   PROVE items' \in [Key -> ItemRow] /\ ItemsGrow
  <1>1. \A k \in Key : items[k].ver \in Nat
    BY DEF ItemsTyped, ItemRow
  <1> QED
    BY <1>1 DEF ItemsTyped, ItemsGrow, Stored

LEMMA CallTyped ==
  ASSUME ItemsTyped, NEW p \in Proc, NEW c \in Call, call' = [call EXCEPT ![p] = c]
  PROVE  call' \in [Proc -> Call] /\ call'[p] = c
  BY DEF ItemsTyped

\* A call of a process that has none: it enters with no connection, or with that of its rows.
LEMMA AskMoves ==
  ASSUME ItemsTyped, NEW p \in Proc, CallInv(p), NEW c \in Call, Ask(p, c),
         c.op \in Answering \union {"delete"}, c.key \in Key,
         c.op \in {"create", "upsert"} => c.slug \in Key,
         (c.pc = "begin" /\ c.op # "get") \/ (c.pc = "readRow" /\ c.op = "get"),
         c.res = "none", c.own = 0
  PROVE  Moved(p) /\ items' = items /\ call' = [call EXCEPT ![p] = c]
  <1>1. /\ call' = [call EXCEPT ![p] = c] /\ items' = items /\ idle' = idle
        /\ call[p].pc = "idle"
    BY DEF Ask
  <1>2. call'[p] = c
    BY <1>1, CallTyped
  <1>3. items[c.key].ver \in Nat
    BY DEF ItemsTyped, ItemRow
  <1>4. CallInv(p)'
    BY <1>1, <1>2, <1>3 DEF CallInv, Answering
  <1>5. Holds(p) = 0 /\ Holds(p)' = 0
    BY <1>1, <1>2 DEF Holds
  <1> QED
    BY <1>1, <1>4, <1>5, SameItems DEF Moved, Balanced, ItemsTyped

LEMMA AnsweredMoves ==
  ASSUME ItemsTyped, NEW p \in Proc, CallInv(p), Answered(p)
  PROVE  Moved(p) /\ items' = items /\ call' = [call EXCEPT ![p] = NoCall]
  <1>1. NoCall \in Call
    BY DEF NoCall, Call, Op, PC, Result, Activity, NoSlug
  <1>2. /\ call' = [call EXCEPT ![p] = NoCall] /\ items' = items /\ idle' = idle
        /\ call[p].pc = "answered"
    BY DEF Answered
  <1>3. call'[p] = NoCall
    BY <1>1, <1>2, CallTyped
  <1>4. CallInv(p)'
    BY <1>3 DEF CallInv, NoCall, Answering
  <1>5. Holds(p) = 0 /\ Holds(p)' = 0
    BY <1>2, <1>3 DEF Holds, NoCall
  <1> QED
    BY <1>1, <1>2, <1>4, <1>5, SameItems DEF Moved, Balanced, ItemsTyped

\* A listing is asked for.
LEMMA OpenMoves ==
  ASSUME ItemsTyped, NEW p \in Proc, CallInv(p), NEW found \in SUBSET Key, OpenRows(p, found)
  PROVE  Moved(p) /\ items' = items /\ call'[p].op = "list"
  <1> DEFINE c == [NoCall EXCEPT !.op = "list", !.pc = "next", !.left = found]
  <1>1. c \in Call
    BY DEF NoCall, Call, Op, PC, Result, Activity, NoSlug
  <1>2. /\ call' = [call EXCEPT ![p] = c] /\ items' = items /\ idle' = idle - 1
        /\ idle > 0 /\ call[p].pc = "idle"
    BY DEF OpenRows
  <1>3. c.op = "list" /\ c.pc = "next" /\ c.res = "none"
    BY DEF NoCall
  <1> HIDE DEF c
  <1>4. call'[p] = c
    BY <1>1, <1>2, CallTyped
  <1>5. CallInv(p)'
    BY <1>3, <1>4 DEF CallInv, Answering
  <1>6. Holds(p) = 0 /\ Holds(p)' = 1
    BY <1>2, <1>3, <1>4 DEF Holds
  <1>7. idle' \in Nat /\ idle' + 1 = idle
    BY <1>2 DEF ItemsTyped
  <1>8. Balanced(p)
    BY <1>2, <1>3, <1>4, <1>7 DEF Balanced, Holds, ItemsTyped
  <1>9. items' \in [Key -> ItemRow] /\ ItemsGrow
    BY <1>2, SameItems
  <1> QED
    BY <1>1, <1>2, <1>3, <1>4, <1>5, <1>7, <1>8, <1>9 DEF Moved

-----------------------------------------------------------------------------
\* A call ends, with the connection it has going back to the pool.
LEMMA EndMoves ==
  ASSUME ItemsTyped, NEW p \in Proc, CallInv(p), NEW res \in Result, EndsReleasing(p, res),
         call[p].pc \notin {"idle", "answered"}, res # "ok" \/ call[p].op \notin Answering,
         items' \in [Key -> ItemRow], ItemsGrow
  PROVE  Moved(p) /\ SameCall(p)
  <1> DEFINE c == [call[p] EXCEPT !.pc = "answered", !.res = res]
  <1>1. call' = [call EXCEPT ![p] = c] /\ idle' = idle + Holds(p)
    BY DEF EndsReleasing, Ends, ItemsTyped
  <1>2. /\ c \in Call /\ c.pc = "answered" /\ c.res = res
        /\ c.op = call[p].op /\ c.key = call[p].key /\ c.slug = call[p].slug
        /\ c.langs = call[p].langs
    BY DEF ItemsTyped, Call, PC
  <1> HIDE DEF c
  <1>3. call'[p] = c
    BY <1>1, <1>2, CallTyped
  <1>4. CallInv(p)'
    BY <1>2, <1>3 DEF CallInv, Answering
  <1>5. idle' \in Nat /\ Balanced(p)
    BY <1>1, <1>2, <1>3 DEF Balanced, Holds, ItemsTyped
  <1> QED
    BY <1>1, <1>2, <1>3, <1>4, <1>5 DEF Moved, SameCall

\* A call goes on to its next statement.
LEMMA ToMoves ==
  ASSUME ItemsTyped, NEW p \in Proc, CallInv(p), NEW pc \in PC, To(p, pc),
         ItemsGrow,
         call[p].pc \notin {"idle", "answered"},
         pc \notin {"idle", "begin", "answered", "readRow", "readLangs"},
         pc = "next" => call[p].op = "list", pc = "row" => call[p].pc = "begin",
         pc \in {"langs", "commit"} =>
             call[p].op \in {"create", "upsert"} \/ (call[p].op = "update" /\ Stored(call[p].key))
  PROVE  CallInv(p)' /\ SameCall(p) /\ call'[p].pc = pc
         /\ \E c \in Call : call' = [call EXCEPT ![p] = c]
  <1> DEFINE c == [call[p] EXCEPT !.pc = pc]
  <1>1. call' = [call EXCEPT ![p] = c]
    BY DEF To, ItemsTyped
  <1>2. /\ c \in Call /\ c.pc = pc /\ c.res = call[p].res
        /\ c.op = call[p].op /\ c.key = call[p].key /\ c.slug = call[p].slug
        /\ c.langs = call[p].langs
    BY DEF ItemsTyped, Call
  <1> HIDE DEF c
  <1>3. call'[p] = c
    BY <1>1, <1>2, CallTyped
  <1> QED
    BY <1>1, <1>2, <1>3 DEF CallInv, Answering, SameCall, ItemsGrow

LEMMA StepMoves ==
  ASSUME ItemsTyped, NEW p \in Proc, CallInv(p), Step(p) \/ Fail(p)
  PROVE  Moved(p) /\ SameCall(p) /\ ItemsStep(p)
  <1> DEFINE Goal == Moved(p) /\ SameCall(p) /\ ItemsStep(p)
  <1>1. ASSUME NEW res \in Result, EndsReleasing(p, res), items' = items,
               call[p].pc \notin {"idle", "answered"}, res # "ok" \/ call[p].op \notin Answering
        PROVE  Goal
    BY <1>1, EndMoves, SameItems DEF ItemsStep
  <1>2. ASSUME RowWritten(p), call[p].pc = "row",
               call[p].op \in {"create", "upsert"} \/ (call[p].op = "update" /\ Stored(call[p].key))
        PROVE  Goal
    <2> DEFINE pc == IF call[p].langs = {} THEN "commit" ELSE "langs"
    <2>1. To(p, pc) /\ items' = items /\ idle' = idle /\ pc \in PC /\ pc \in {"langs", "commit"}
      BY <1>2 DEF RowWritten, PC
    <2> HIDE DEF pc
    <2>2. /\ CallInv(p)' /\ SameCall(p) /\ call'[p].pc = pc
          /\ \E c \in Call : call' = [call EXCEPT ![p] = c]
      BY <1>2, <2>1, ToMoves, SameItems
    <2>3. idle' \in Nat /\ Balanced(p)
      BY <1>2, <2>1, <2>2 DEF Balanced, Holds, ItemsTyped
    <2> QED
      BY <2>1, <2>2, <2>3, SameItems DEF Moved, ItemsStep
  <1>3. {"conflict", "notfound", "error", "ok"} \subseteq Result
    BY DEF Result
  <1>4. CASE Begin(p)
    <2>1. To(p, "row") /\ items' = items /\ idle > 0 /\ idle' = idle - 1 /\ call[p].pc = "begin"
      BY <1>4 DEF Begin
    <2>2. /\ CallInv(p)' /\ SameCall(p) /\ call'[p].pc = "row"
          /\ \E c \in Call : call' = [call EXCEPT ![p] = c]
      BY <2>1, ToMoves, SameItems DEF PC
    <2>3. idle' \in Nat /\ Balanced(p)
      BY <2>1, <2>2 DEF Balanced, Holds, ItemsTyped
    <2> QED
      BY <2>1, <2>2, <2>3, SameItems DEF Moved, ItemsStep
  <1>5. CASE InsertRow(p)
    BY <1>1, <1>2, <1>3, <1>5 DEF InsertRow, Statement
  <1>6. CASE UpsertRow(p)
    BY <1>1, <1>2, <1>3, <1>6 DEF UpsertRow, Statement
  <1>7. CASE UpdateRow(p)
    <2>1. CASE ~Stored(call[p].key)
      BY <1>1, <1>3, <1>7, <2>1 DEF UpdateRow, Statement
    <2>2. CASE Stored(call[p].key) /\ SlugTaken(p)
      BY <1>1, <1>3, <1>7, <2>2 DEF UpdateRow, Statement
    <2>3. CASE Stored(call[p].key) /\ ~SlugTaken(p)
      BY <1>2, <1>7, <2>3 DEF UpdateRow, Statement
    <2> QED
      BY <2>1, <2>2, <2>3
  <1>8. CASE DeactivateRow(p)
    <2>1. call[p].pc = "row" /\ call[p].op = "delete" /\ call[p].key \in Key
      BY <1>8 DEF DeactivateRow, Statement, CallInv
    <2>2. CASE ~Stored(call[p].key)
      BY <1>1, <1>3, <1>8, <2>1, <2>2 DEF DeactivateRow
    <2>3. CASE Stored(call[p].key)
      <3>1. items' = Deactivated(call[p].key) /\ EndsReleasing(p, "ok")
        BY <1>8, <2>3 DEF DeactivateRow
      <3>2. items' \in [Key -> ItemRow] /\ ItemsGrow
        BY <2>1, <3>1, DeactivatedGrows
      <3> QED
        BY <1>3, <2>1, <3>1, <3>2, EndMoves DEF ItemsStep, Answering
    <2> QED
      BY <2>2, <2>3
  <1>9. CASE WriteTranslations(p)
    <2>1. To(p, "commit") /\ items' = items /\ idle' = idle /\ call[p].pc = "langs"
      BY <1>9 DEF WriteTranslations
    <2>2. /\ CallInv(p)' /\ SameCall(p) /\ call'[p].pc = "commit"
          /\ \E c \in Call : call' = [call EXCEPT ![p] = c]
      BY <2>1, ToMoves, SameItems DEF PC, CallInv
    <2>3. idle' \in Nat /\ Balanced(p)
      BY <2>1, <2>2 DEF Balanced, Holds, ItemsTyped
    <2> QED
      BY <2>1, <2>2, <2>3, SameItems DEF Moved, ItemsStep
  <1>10. CASE Commit(p)
    <2> DEFINE own == items[call[p].key].ver + 1
               c == [call[p] EXCEPT !.pc = "readRow", !.own = own]
    <2>1. /\ call[p].pc = "commit" /\ Apply(p) /\ idle' = idle + 1
          /\ call' = [call EXCEPT ![p] = c]
      BY <1>10 DEF Commit, ItemsTyped
    <2>2. call[p].key \in Key /\ call[p].op \in Answering /\ own \in Nat
      BY <2>1, CommitRow DEF ItemsTyped, ItemRow
    <2>3. /\ items' \in [Key -> ItemRow] /\ ItemsGrow
          /\ items'[call[p].key].ver = own
      BY <2>1, ApplyGrows
    <2> HIDE DEF own
    <2>4. /\ c \in Call /\ c.pc = "readRow" /\ c.res = call[p].res /\ c.own = own
          /\ c.op = call[p].op /\ c.key = call[p].key /\ c.slug = call[p].slug
          /\ c.langs = call[p].langs
      BY <2>2 DEF ItemsTyped, Call, PC
    <2> HIDE DEF c
    <2>5. call'[p] = c
      BY <2>1, <2>4, CallTyped
    <2>6. CallInv(p)'
      BY <2>1, <2>2, <2>3, <2>4, <2>5 DEF CallInv, Answering
    <2>7. idle' \in Nat /\ Balanced(p)
      BY <2>1, <2>4, <2>5 DEF Balanced, Holds, ItemsTyped
    <2> QED
      BY <2>1, <2>3, <2>4, <2>5, <2>6, <2>7 DEF Moved, SameCall, ItemsStep, Apply
  <1>11. CASE ReadRow(p)
    <2>1. call[p].pc = "readRow" /\ items' = items /\ idle' = idle
      BY <1>11 DEF ReadRow
    <2>2. CASE ~Stored(call[p].key)
      <3>1. EndsReleasing(p, "notfound")
        BY <1>11, <2>1, <2>2 DEF ReadRow, EndsReleasing, Holds, ItemsTyped
      <3> QED
        BY <1>1, <1>3, <2>1, <3>1
    <2>3. CASE Stored(call[p].key)
      <3> DEFINE row == items[call[p].key].ver
                 c == [call[p] EXCEPT !.pc = "readLangs", !.row = row]
      <3>1. call' = [call EXCEPT ![p] = c]
        BY <1>11, <2>3 DEF ReadRow, ItemsTyped
      <3>2. row \in Nat /\ call[p].own <= row
        BY <2>1 DEF CallInv, Answering, ItemsTyped, ItemRow
      <3>3. /\ c \in Call /\ c.pc = "readLangs" /\ c.res = call[p].res /\ c.own = call[p].own
            /\ c.op = call[p].op /\ c.key = call[p].key /\ c.slug = call[p].slug
            /\ c.langs = call[p].langs /\ c.row = row
        <4> HIDE DEF row
        <4> QED
          BY <3>2 DEF ItemsTyped, Call, PC
      <3> HIDE DEF c
      <3>4. call'[p] = c
        BY <3>1, <3>3, CallTyped
      <3>5. CallInv(p)'
        BY <2>1, <2>3, <3>2, <3>3, <3>4 DEF CallInv, Answering, Stored
      <3>6. idle' \in Nat /\ Balanced(p)
        BY <2>1, <3>3, <3>4 DEF Balanced, Holds, ItemsTyped
      <3> QED
        BY <2>1, <3>1, <3>3, <3>4, <3>5, <3>6, SameItems DEF Moved, SameCall, ItemsStep
    <2> QED
      BY <2>2, <2>3
  <1>12. CASE ReadTranslations(p)
    <2> DEFINE trans == items[call[p].key].ver
               c == [call[p] EXCEPT !.pc = "answered", !.res = "ok", !.trans = trans]
    <2>1. /\ call[p].pc = "readLangs" /\ items' = items /\ idle' = idle
          /\ call' = [call EXCEPT ![p] = c]
      BY <1>12 DEF ReadTranslations, ItemsTyped
    <2>2. /\ trans \in Nat /\ call[p].own <= call[p].row /\ call[p].row <= trans
          /\ Stored(call[p].key)
      BY <2>1 DEF CallInv, Answering, ItemsTyped, ItemRow
    <2>3. /\ c \in Call /\ c.pc = "answered" /\ c.res = "ok" /\ c.own = call[p].own
          /\ c.op = call[p].op /\ c.key = call[p].key /\ c.slug = call[p].slug
          /\ c.langs = call[p].langs /\ c.row = call[p].row /\ c.trans = trans
      <3> HIDE DEF trans
      <3> QED
        BY <2>2 DEF ItemsTyped, Call, PC, Result
    <2> HIDE DEF c, trans
    <2>4. call'[p] = c
      BY <2>1, <2>3, CallTyped
    <2>5. CallInv(p)'
      BY <2>1, <2>2, <2>3, <2>4 DEF CallInv, Answering, Stored
    <2>6. idle' \in Nat /\ Balanced(p)
      BY <2>1, <2>3, <2>4 DEF Balanced, Holds, ItemsTyped
    <2> QED
      BY <2>1, <2>3, <2>4, <2>5, <2>6, SameItems DEF Moved, SameCall, ItemsStep
  <1>13. CASE NextRow(p)
    <2>1. PICK k \in call[p].left : call' = [call EXCEPT ![p].left = @ \ {k}]
      BY <1>13 DEF NextRow
    <2> DEFINE left == call[p].left \ {k}
               c == [call[p] EXCEPT !.left = left]
    <2>2. /\ call[p].pc = "next" /\ items' = items /\ idle' = idle
          /\ call' = [call EXCEPT ![p] = c]
      BY <1>13, <2>1 DEF NextRow, ItemsTyped
    <2>3. left \in SUBSET Key
      BY DEF ItemsTyped, Call
    <2>4. /\ c \in Call /\ c.pc = call[p].pc /\ c.res = call[p].res
          /\ c.op = call[p].op /\ c.key = call[p].key /\ c.slug = call[p].slug
          /\ c.langs = call[p].langs
      <3> HIDE DEF left
      <3> QED
        BY <2>3 DEF ItemsTyped, Call
    <2> HIDE DEF c, left
    <2>5. call'[p] = c
      BY <2>2, <2>4, CallTyped
    <2>6. CallInv(p)'
      BY <2>2, <2>4, <2>5 DEF CallInv, Answering
    <2>7. idle' \in Nat /\ Balanced(p)
      BY <2>2, <2>4, <2>5 DEF Balanced, Holds, ItemsTyped
    <2> QED
      BY <2>2, <2>4, <2>5, <2>6, <2>7, SameItems DEF Moved, SameCall, ItemsStep
  <1>14. CASE RowsDone(p)
    BY <1>1, <1>3, <1>14 DEF RowsDone, CallInv, Answering
  <1>15. CASE Fail(p)
    <2>1. EndsReleasing(p, "error") /\ call[p].pc \notin {"idle", "answered"}
      BY <1>15 DEF Fail
    <2>2. CASE items' = items
      BY <1>1, <1>3, <2>1, <2>2
    <2>3. CASE call[p].pc = "commit" /\ Apply(p)
      BY <1>3, <2>1, <2>3, ApplyGrows, EndMoves DEF ItemsStep, Apply
    <2>4. CASE Statement(p, "delete") /\ items' = Deactivated(call[p].key)
      <3>1. call[p].pc = "row" /\ call[p].op = "delete" /\ call[p].key \in Key
        BY <2>4 DEF Statement, CallInv
      <3> QED
        BY <1>3, <2>1, <2>4, <3>1, DeactivatedGrows, EndMoves DEF ItemsStep
    <2> QED
      BY <1>15, <2>2, <2>3, <2>4 DEF Fail
  <1> QED
    BY <1>4, <1>5, <1>6, <1>7, <1>8, <1>9, <1>10, <1>11, <1>12, <1>13, <1>14, <1>15 DEF Step

-----------------------------------------------------------------------------
\* The calls of all processes, the job and the sync.
CallsInv == ItemsTyped /\ \A p \in Proc : CallInv(p)

LEMMA MovedKeeps ==
  ASSUME CallsInv, NEW p \in Proc, Moved(p)
  PROVE  CallsInv' /\ ItemsGrow /\ \A q \in Proc \ {p} : call'[q] = call[q]
  <1>1. PICK c \in Call : call' = [call EXCEPT ![p] = c]
    BY DEF Moved
  <1>2. call' \in [Proc -> Call] /\ \A q \in Proc \ {p} : call'[q] = call[q]
    BY <1>1 DEF CallsInv, ItemsTyped
  <1>3. ItemsTyped' /\ ItemsGrow /\ CallInv(p)'
    BY <1>2 DEF Moved, ItemsTyped
  <1>4. ASSUME NEW q \in Proc \ {p} PROVE CallInv(q)'
    <2>1. call'[q] = call[q] /\ CallInv(q) /\ call[q] \in Call
      BY <1>2 DEF CallsInv, ItemsTyped
    <2>2. \A k \in Key : items[k].ver \in Nat /\ items'[k].ver \in Nat
      BY <1>3 DEF CallsInv, ItemsTyped, ItemRow
    <2>3. call[q].own \in Nat /\ call[q].row \in Nat
      BY <2>1 DEF Call
    <2> QED
      BY <1>3, <2>1, <2>2, <2>3 DEF CallInv, ItemsGrow, Answering, Stored
  <1> QED
    BY <1>2, <1>3, <1>4 DEF CallsInv

LEMMA SameCalls == CallsInv /\ UNCHANGED itemVars => CallsInv' /\ ItemsGrow
  <1> SUFFICES ASSUME CallsInv, UNCHANGED itemVars PROVE CallsInv' /\ ItemsGrow
    OBVIOUS
  <1>1. items' = items /\ call' = call /\ idle' = idle
    BY DEF itemVars
  <1>2. CallsInv'
    BY <1>1 DEF CallsInv, ItemsTyped, CallInv, Stored
  <1> QED
    BY <1>1, <1>2, SameItems DEF CallsInv

(* A call as it is asked for: it has everything but a connection. *)
NewCall(c) ==
    /\ c \in Call /\ c.op \in Answering \union {"delete"} /\ c.key \in Key
    /\ c.op \in {"create", "upsert"} => c.slug \in Key
    /\ c.op = "delete" => c.slug = NoSlug /\ c.langs = {} /\ c.active = "off"
    /\ (c.pc = "begin" /\ c.op # "get") \/ (c.pc = "readRow" /\ c.op = "get")
    /\ c.res = "none" /\ c.own = 0

LEMMA NewCallMoves ==
  ASSUME CallsInv, NEW p \in Proc, NEW c, NewCall(c), Ask(p, c)
  PROVE  Moved(p) /\ items' = items /\ call'[p] = c
  BY AskMoves, CallTyped DEF NewCall, CallsInv

\* What an import or a sync asks for.
LEMMA UpsertAsks ==
  ASSUME NEW p \in Proc, NEW k \in Key, NEW L \in SUBSET Lang, UpsertItem(p, k, k, L)
  PROVE  \E c : NewCall(c) /\ Ask(p, c) /\ c.op = "upsert" /\ c.langs = L
  <1> DEFINE c == [NoCall EXCEPT !.op = "upsert", !.pc = "begin",
                                 !.key = k, !.slug = k, !.langs = L, !.active = "on"]
  <1>1. NewCall(c) /\ c.op = "upsert" /\ c.langs = L
    BY DEF NewCall, NoCall, Call, Op, PC, Result, Activity, NoSlug, Answering
  <1> QED
    BY <1>1 DEF UpsertItem

LEMMA UpsertMoves ==
  ASSUME CallsInv, NEW p \in Proc, NEW k \in Key, NEW L \in SUBSET Lang, UpsertItem(p, k, k, L)
  PROVE  Moved(p) /\ items' = items /\ call'[p].op = "upsert" /\ call'[p].langs = L
  <1>1. PICK c : NewCall(c) /\ Ask(p, c) /\ c.op = "upsert" /\ c.langs = L
    BY UpsertAsks
  <1> QED
    BY <1>1, NewCallMoves

\* What a request asks for.
LEMMA RequestAsks ==
  ASSUME NEW p \in Proc, Writes(p) \/ Reads(p)
  PROVE  \/ \E c : NewCall(c) /\ Ask(p, c)
         \/ \E found \in SUBSET Key : OpenRows(p, found)
  <1> DEFINE Asked == \E c : NewCall(c) /\ Ask(p, c)
  <1>1. ASSUME NEW k \in Key, NEW s \in Key, NEW L \in SUBSET Lang,
               CreateItem(p, k, s, L) \/ UpsertItem(p, k, s, L)
        PROVE  Asked
    <2>1. CASE CreateItem(p, k, s, L)
      <3>1. NewCall([NoCall EXCEPT !.op = "create", !.pc = "begin",
                                   !.key = k, !.slug = s, !.langs = L, !.active = "on"])
        BY DEF NewCall, NoCall, Call, Op, PC, Result, Activity, NoSlug, Answering
      <3> QED
        BY <2>1, <3>1 DEF CreateItem
    <2>2. CASE UpsertItem(p, k, s, L)
      <3>1. NewCall([NoCall EXCEPT !.op = "upsert", !.pc = "begin",
                                   !.key = k, !.slug = s, !.langs = L, !.active = "on"])
        BY DEF NewCall, NoCall, Call, Op, PC, Result, Activity, NoSlug, Answering
      <3> QED
        BY <2>2, <3>1 DEF UpsertItem
    <2> QED
      BY <1>1, <2>1, <2>2
  <1>2. ASSUME NEW k \in Key, NEW u \in Updates, UpdateItem(p, k, u.slug, u.langs, u.active)
        PROVE  Asked
    <2>1. u.slug \in Key \union {NoSlug} /\ u.langs \in SUBSET Lang /\ u.active \in Activity
      BY IngestAssumption
    <2>2. NewCall([NoCall EXCEPT !.op = "update", !.pc = "begin",
                                 !.key = k, !.slug = u.slug, !.langs = u.langs, !.active = u.active])
      BY <2>1 DEF NewCall, NoCall, Call, Op, PC, Result, NoSlug, Answering
    <2> QED
      BY <1>2, <2>2 DEF UpdateItem
  <1>3. ASSUME NEW k \in Key, DeleteItem(p, k) PROVE Asked
    <2>1. NewCall([NoCall EXCEPT !.op = "delete", !.pc = "begin", !.key = k, !.active = "off"])
      BY DEF NewCall, NoCall, Call, Op, PC, Result, Activity, NoSlug, Answering
    <2> QED
      BY <1>3, <2>1 DEF DeleteItem
  <1>4. ASSUME NEW k \in Key, GetItemByID(p, k) PROVE Asked
    <2>1. NewCall([NoCall EXCEPT !.op = "get", !.pc = "readRow", !.key = k])
      BY DEF NewCall, NoCall, Call, Op, PC, Result, Activity, NoSlug, Answering
    <2> QED
      BY <1>4, <2>1 DEF GetItemByID
  <1>5. ASSUME NEW activeOnly \in BOOLEAN, NEW m \in SUBSET Key,
               ListItems(p, activeOnly) \/ SearchItems(p, m, activeOnly)
        PROVE  \E found \in SUBSET Key : OpenRows(p, found)
    BY <1>5 DEF ListItems, SearchItems
  <1>6. CASE Writes(p)
    BY <1>1, <1>2, <1>3, <1>6 DEF Writes
  <1>7. CASE Reads(p)
    BY <1>4, <1>5, <1>7 DEF Reads
  <1> QED
    BY <1>6, <1>7

LEMMA ServeMoves ==
  ASSUME CallsInv, NEW p \in Proc, Writes(p) \/ Reads(p)
  PROVE  Moved(p) /\ items' = items
  BY RequestAsks, NewCallMoves, OpenMoves DEF CallsInv

-----------------------------------------------------------------------------
(* Types of the job and of the sync; what is being upserted is still at the head. *)
JobTyped ==
    /\ job.pc = "upsert" => job.page # <<>>
    /\ sync.pc = "upsert" => sync.left # <<>>
    /\ remote \in Remotes /\ edits \in 0..MaxEdits /\ job \in Job
    /\ requests \in 0..MaxRequests /\ sync \in SyncCall
    /\ counted \subseteq Key /\ localized \subseteq Key

\* The job and the sync only upsert, one item at a time.
OwnInv ==
    /\ call[Import].op \in {"none", "upsert"} /\ call[Sync].op \in {"none", "upsert"}
    /\ job.pc # "upsert" => call[Import].op = "none"
    /\ sync.pc # "upsert" => call[Sync].op = "none"

LEMMA Processes == /\ Import \in Proc /\ Sync \in Proc /\ Import # Sync
                   /\ Request \subseteq Proc /\ Import \notin Request /\ Sync \notin Request
  BY IngestAssumption

LEMMA OkIsStored ==
  ASSUME CallsInv, OwnInv, NEW p \in {Import, Sync}, call[p].res = "ok"
  PROVE  call[p].key \in Key /\ Stored(call[p].key)
  <1>1. p \in Proc /\ call[p].op \in {"none", "upsert"}
    BY Processes DEF OwnInv
  <1> QED
    BY <1>1 DEF CallsInv, CallInv, Answering

LEMMA RemoteTyped ==
  ASSUME JobTyped
  PROVE  /\ remote \in Seq(Key \union {Junk}) /\ Len(remote) \in Nat
         /\ job.page \in Seq(Key \union {Junk})
  BY ImportAssumption DEF JobTyped, Job

\* A total, as long as it is a number; a page that is a part of the catalogue.
LEMMA TotalTyped ==
  ASSUME JobTyped, TotalHint
  PROVE  job' \in Job /\ job'.pc = "fetch"
  <1>1. PICK n \in CASE job.game = "tarkov" -> {TarkovTotal}
              [] job.game = "warframe" -> {WarframeTotal}
              [] job.game = "eve" -> EveTotals :
           job' = [job EXCEPT !.pc = "fetch", !.total = n]
    BY DEF TotalHint
  <1>2. Len(remote) \in Nat /\ job.limit \in Nat
    BY RemoteTyped DEF JobTyped, Job
  <1>3. TarkovTotal \in Nat /\ WarframeTotal \in Nat /\ EveTotals \subseteq Nat
    BY <1>2 DEF TarkovTotal, WarframeTotal, EveTotals, Least
  <1>4. job.game \in Game /\ job \in Job
    BY DEF JobTyped, Job
  <1>5. n \in Nat
    BY <1>1, <1>3, <1>4 DEF Game
  <1> QED
    BY <1>1, <1>4, <1>5 DEF Job, JobPC

LEMMA PageTyped ==
  ASSUME JobTyped, TarkovFetch
  PROVE  job' \in Job /\ job'.pc # "upsert"
  <1> DEFINE batch == IF job.limit > 0 THEN Least(PageSize, job.limit - job.processed) ELSE PageSize
             first == job.offset + 1
             until == Least(Len(remote), job.offset + batch)
             page == SubSeq(remote, first, until)
             offset == job.offset + Len(page)
             last == Len(page) < batch
             pc == IF page = <<>> THEN "end" ELSE "entry"
  <1>1. job' = [job EXCEPT !.page = page, !.offset = offset, !.last = last, !.pc = pc]
    BY DEF TarkovFetch, JobTyped, Job
  <1>2. /\ job \in Job /\ job.limit \in Nat /\ job.processed \in Nat /\ job.offset \in Nat
        /\ PageSize \in Nat /\ remote \in Seq(Key \union {Junk}) /\ Len(remote) \in Nat
    BY RemoteTyped, ImportAssumption DEF JobTyped, Job
  <1>3. batch \in Int
    BY <1>2 DEF Least
  <1>4. first \in Int /\ first >= 1 /\ until \in Int /\ until <= Len(remote)
    <2> HIDE DEF batch
    <2> QED
      BY <1>2, <1>3 DEF Least
  <1> HIDE DEF batch, first, until
  <1>5. \A i \in first..until : remote[i] \in Key \union {Junk}
    BY <1>2, <1>4
  <1>6. page \in Seq(Key \union {Junk}) /\ Len(page) \in Nat
    BY <1>4, <1>5, SubSeqProperties, LenProperties
  <1> HIDE DEF page
  <1>7. offset \in Nat /\ last \in BOOLEAN /\ pc \in JobPC /\ pc # "upsert"
    BY <1>2, <1>6 DEF JobPC
  <1> HIDE DEF offset, last, pc
  <1> QED
    BY <1>1, <1>2, <1>6, <1>7 DEF Job

LEMMA ImportTyped ==
  ASSUME CallsInv, OwnInv, JobTyped, JobStarts \/ JobStep
  PROVE  /\ job' \in Job /\ counted' \subseteq Key
         /\ job'.pc = "upsert" => job'.page # <<>>
  <1>1. job \in Job /\ counted \subseteq Key /\ job.page \in Seq(Key \union {Junk})
    BY RemoteTyped DEF JobTyped
  <1>2. ASSUME NEW pc \in JobPC, JobTo(pc)
        PROVE  job' \in Job /\ job'.pc = pc /\ job'.page = job.page
    BY <1>1, <1>2 DEF JobTo, Job
  <1>3. CASE JobStarts
    <2>1. PICK r \in Imports : StartCatalogImport(r)
      BY <1>3 DEF JobStarts
    <2>2. r.game \in Game /\ r.langs \in SUBSET Lang /\ r.limit \in Nat
      BY ImportAssumption DEF Game
    <2>3. counted' = counted
          /\ job' = [NoJob EXCEPT !.pc = "lock", !.game = r.game, !.langs = r.langs, !.limit = r.limit]
      BY <2>1 DEF StartCatalogImport
    <2>4. NoJob \in Job
      BY DEF NoJob, Job, JobPC, Game
    <2> QED
      BY <1>1, <2>2, <2>3, <2>4 DEF Job, JobPC
  <1>4. CASE TotalHint
    BY <1>1, <1>4, TotalTyped DEF TotalHint
  <1>5. CASE TarkovFetch
    BY <1>1, <1>5, PageTyped DEF TarkovFetch
  <1>6. CASE FetchAll
    BY <1>1, <1>6, RemoteTyped DEF FetchAll, Job, JobPC
  <1>7. CASE \/ TakeImportLock \/ LockRefused \/ MarkImportStarted \/ PageDone \/ JobEnds \/ MarketFails
    BY <1>1, <1>2, <1>7
    DEF TakeImportLock, LockRefused, MarkImportStarted, PageDone, JobEnds, MarketFails, JobPC
  <1>8. CASE SkipEntry
    <2>1. Tail(job.page) \in Seq(Key \union {Junk}) /\ job.pc = "entry"
      BY <1>1, <1>8 DEF SkipEntry, NextEntry
    <2> QED
      BY <1>1, <1>8, <2>1 DEF SkipEntry, Job
  <1>9. CASE ImportEntry
    BY <1>1, <1>2, <1>9 DEF ImportEntry, NextEntry, JobPC
  <1>10. CASE EntryDone
    <2>1. CASE call[Import].res # "ok"
      BY <1>1, <1>2, <1>10, <2>1 DEF EntryDone, JobPC
    <2>2. CASE call[Import].res = "ok"
      <3> DEFINE processed == job.processed + 1
                 page == Tail(job.page)
      <3>1. /\ job' = [job EXCEPT !.pc = "entry", !.processed = processed, !.page = page]
            /\ counted' = counted \union {call[Import].key}
        BY <1>1, <1>10, <2>2 DEF EntryDone, Job
      <3>2. processed \in Nat
        BY <1>1 DEF Job
      <3>3. page \in Seq(Key \union {Junk})
        BY <1>1, <1>10 DEF EntryDone, JobTyped
      <3> HIDE DEF processed, page
      <3> QED
        BY <1>1, <2>2, <3>1, <3>2, <3>3, OkIsStored DEF Job, JobPC
    <2> QED
      BY <2>1, <2>2
  <1> QED
    BY <1>3, <1>4, <1>5, <1>6, <1>7, <1>8, <1>9, <1>10 DEF JobStep, ImportStep

-----------------------------------------------------------------------------
IngestInv == CallsInv /\ OwnInv /\ JobTyped

\* The next entry goes to the catalog.
LEMMA ImportEntryMoves ==
  ASSUME IngestInv, ImportEntry
  PROVE  /\ Moved(Import) /\ items' = items /\ call'[Import].op = "upsert"
         /\ call'[Import].langs \in {{}, job.langs}
         /\ job.pc = "entry" /\ job'.pc = "upsert" /\ job'.langs = job.langs
         /\ UNCHANGED <<remote, edits, counted, localized>>
  <1>1. Head(job.page) \in Key
    BY RemoteTyped DEF ImportEntry, NextEntry, IngestInv
  <1>2. PICK L \in Translated : UpsertItem(Import, Head(job.page), Head(job.page), L)
    BY DEF ImportEntry
  <1>3. L \in SUBSET Lang /\ L \in {{}, job.langs}
    BY DEF Translated, IngestInv, JobTyped, Job
  <1>4. /\ Moved(Import) /\ items' = items /\ call'[Import].op = "upsert"
        /\ call'[Import].langs = L
    BY <1>1, <1>2, <1>3, UpsertMoves, Processes DEF IngestInv
  <1> QED
    BY <1>3, <1>4 DEF ImportEntry, NextEntry, JobTo, IngestInv, JobTyped, Job

\* The upsert of an entry is answered.
LEMMA EntryDoneMoves ==
  ASSUME IngestInv, EntryDone
  PROVE  /\ Moved(Import) /\ items' = items /\ call' = [call EXCEPT ![Import] = NoCall]
         /\ job.pc = "upsert" /\ job'.pc \in {"entry", "abort"} /\ job'.langs = job.langs
         /\ \A k \in counted' \ counted : k \in Key /\ Stored(k)
         /\ UNCHANGED <<remote, edits, localized>>
  <1>1. Moved(Import) /\ items' = items /\ call' = [call EXCEPT ![Import] = NoCall]
    BY AnsweredMoves, Processes DEF EntryDone, IngestInv, CallsInv
  <1>2. \A k \in counted' \ counted : k \in Key /\ Stored(k)
    BY OkIsStored DEF EntryDone, IngestInv
  <1> QED
    BY <1>1, <1>2 DEF EntryDone, JobTo, IngestInv, JobTyped, Job

LEMMA FetchGoesOn ==
  ASSUME JobTyped, TarkovFetch
  PROVE  job'.pc \in {"end", "entry"} /\ job'.langs = job.langs
  <1> DEFINE batch == IF job.limit > 0 THEN Least(PageSize, job.limit - job.processed) ELSE PageSize
             page == SubSeq(remote, job.offset + 1, Least(Len(remote), job.offset + batch))
             offset == job.offset + Len(page)
             last == Len(page) < batch
             pc == IF page = <<>> THEN "end" ELSE "entry"
  <1>1. job' = [job EXCEPT !.page = page, !.offset = offset, !.last = last, !.pc = pc]
    BY DEF TarkovFetch, JobTyped, Job
  <1>2. pc \in {"end", "entry"}
    OBVIOUS
  <1> HIDE DEF batch, page, offset, last, pc
  <1> QED
    BY <1>1, <1>2 DEF JobTyped, Job

\* The other steps of the job leave the items and the calls alone.
JobOnly ==
    /\ items' = items /\ call' = call
    /\ job'.pc # "upsert" /\ job.pc # "upsert"
    /\ job'.langs = job.langs \/ (job.pc = "none" /\ job'.pc = "lock")
    /\ job'.pc # "none"
    /\ UNCHANGED <<remote, edits, counted, localized, requests, sync>>

LEMMA JobOnlySteps ==
  ASSUME IngestInv, JobStarts \/ JobStep
  PROVE  \/ JobOnly
         \/ (ImportEntry \/ EntryDone) /\ UNCHANGED <<requests, sync>>
  <1> USE DEF JobOnly, itemVars
  <1>1. job \in Job
    BY DEF IngestInv, JobTyped
  <1>2. CASE JobStarts
    <2>1. PICK r \in Imports : StartCatalogImport(r)
      BY <1>2 DEF JobStarts
    <2>2. job.pc = "none" /\ job' = [NoJob EXCEPT !.pc = "lock", !.game = r.game,
                                                  !.langs = r.langs, !.limit = r.limit]
      BY <2>1 DEF StartCatalogImport
    <2>3. job'.pc = "lock"
      BY <2>2 DEF NoJob
    <2> QED
      BY <1>2, <2>1, <2>2, <2>3 DEF JobStarts, StartCatalogImport
  <1>3. CASE TotalHint /\ UNCHANGED <<requests, sync>>
    BY <1>1, <1>3 DEF TotalHint, Job
  <1>4. CASE TarkovFetch /\ UNCHANGED <<requests, sync>>
    BY <1>4, FetchGoesOn DEF TarkovFetch, IngestInv
  <1>5. CASE (FetchAll \/ SkipEntry) /\ UNCHANGED <<requests, sync>>
    BY <1>1, <1>5 DEF FetchAll, SkipEntry, NextEntry, Job
  <1>6. CASE /\ TakeImportLock \/ LockRefused \/ MarkImportStarted \/ PageDone \/ JobEnds \/ MarketFails
             /\ UNCHANGED <<requests, sync>>
    <2>1. ASSUME NEW pc, JobTo(pc) PROVE job'.pc = pc /\ job'.langs = job.langs
      BY <1>1, <2>1 DEF JobTo, Job
    <2> QED
      BY <1>6, <2>1
      DEF TakeImportLock, LockRefused, MarkImportStarted, PageDone, JobEnds, MarketFails
  <1>7. CASE JobStep
    BY <1>3, <1>4, <1>5, <1>6, <1>7 DEF JobStep, ImportStep
  <1> QED
    BY <1>2, <1>7

\* They take the connection of the lock from the pool, or give it back.
LEMMA IdleStays ==
  ASSUME IngestInv, JobOnly, JobStarts \/ JobStep
  PROVE  idle' \in Nat /\ idle' + Pinned' = idle + Pinned
  <1>1. job \in Job /\ idle \in Nat
    BY DEF IngestInv, JobTyped, CallsInv, ItemsTyped
  <1>2. ASSUME NEW pc \in JobPC, job'.pc = pc, idle' = idle,
               job.pc \in {"none", "lock", "completed", "failed"} <=>
                   pc \in {"none", "lock", "completed", "failed"}
        PROVE  idle' \in Nat /\ idle' + Pinned' = idle + Pinned
    BY <1>1, <1>2 DEF Pinned, Job
  <1>3. ASSUME NEW pc \in JobPC, JobTo(pc) PROVE job'.pc = pc
    BY <1>1, <1>3 DEF JobTo, Job
  <1>4. CASE JobStarts
    <2>1. PICK r \in Imports : StartCatalogImport(r)
      BY <1>4 DEF JobStarts
    <2>2. job'.pc = "lock" /\ job.pc = "none" /\ idle' = idle
      BY <2>1 DEF StartCatalogImport, NoJob, itemVars
    <2> QED
      BY <1>2, <2>2 DEF JobPC
  <1>5. CASE TakeImportLock
    <2>1. job.pc = "lock" /\ job'.pc = "mark" /\ idle > 0 /\ idle' = idle - 1
      BY <1>3, <1>5 DEF TakeImportLock, JobPC
    <2> QED
      BY <1>1, <2>1 DEF Pinned, JobPC
  <1>6. CASE JobEnds
    <2>1. job.pc \in {"end", "abort"} /\ job'.pc \in {"completed", "failed"} /\ idle' = idle + 1
      BY <1>3, <1>6 DEF JobEnds, JobPC
    <2> QED
      BY <1>1, <2>1 DEF Pinned, JobPC
  <1>7. CASE LockRefused
    BY <1>2, <1>3, <1>7 DEF LockRefused, JobPC, itemVars
  <1>8. CASE MarkImportStarted \/ MarketFails
    BY <1>2, <1>3, <1>8 DEF MarkImportStarted, MarketFails, JobPC, itemVars
  <1>9. CASE PageDone
    <2>1. job.pc = "entry" /\ job'.pc \in {"end", "fetch"} /\ idle' = idle
      BY <1>3, <1>9 DEF PageDone, JobPC, itemVars
    <2> QED
      BY <1>2, <2>1 DEF JobPC
  <1>10. CASE TotalHint
    <2>1. job.pc = "hint" /\ idle' = idle /\ job'.pc = "fetch"
      BY <1>1, <1>10 DEF TotalHint, itemVars, Job
    <2> QED
      BY <1>2, <2>1 DEF JobPC
  <1>11. CASE TarkovFetch
    <2>1. job.pc = "fetch" /\ idle' = idle
      BY <1>11 DEF TarkovFetch, itemVars
    <2>2. job'.pc \in {"end", "entry"}
      BY <1>11, FetchGoesOn DEF IngestInv
    <2> QED
      BY <1>2, <2>1, <2>2 DEF JobPC
  <1>12. CASE FetchAll \/ SkipEntry
    <2>1. job.pc \in {"fetch", "entry"} /\ idle' = idle /\ job'.pc = "entry"
      BY <1>1, <1>12 DEF FetchAll, SkipEntry, NextEntry, itemVars, Job
    <2> QED
      BY <1>2, <2>1 DEF JobPC
  <1>13. ~ImportEntry /\ ~EntryDone
    BY <1>1, <1>3 DEF JobOnly, ImportEntry, EntryDone, JobPC
  <1> QED
    BY <1>4, <1>5, <1>6, <1>7, <1>8, <1>9, <1>10, <1>11, <1>12, <1>13 DEF JobStep, ImportStep

\* A request to sync, before its first upsert.
LEMMA SyncStarts ==
  ASSUME IngestInv, SyncSearchToCatalog \/ SyncItemToCatalog \/ MarketRefuses
  PROVE  /\ sync' \in SyncCall /\ sync.pc # "upsert" /\ sync'.pc # "upsert"
         /\ sync'.synced = sync.synced /\ requests' \in 0..MaxRequests
         /\ UNCHANGED <<itemVars, importVars>>
  <1>1. sync \in SyncCall /\ requests \in 0..MaxRequests /\ MaxRequests \in Nat
    BY IngestAssumption DEF IngestInv, JobTyped
  <1>2. ASSUME NEW found \in Seq(Key), MarketAnswers(found)
        PROVE  /\ sync' \in SyncCall /\ sync.pc # "upsert" /\ sync'.pc # "upsert"
               /\ sync'.synced = sync.synced /\ requests' \in 0..MaxRequests
               /\ UNCHANGED <<itemVars, importVars>>
    <2>1. PICK pc \in {"ok", "next"} : sync' = [sync EXCEPT !.pc = pc, !.left = found]
      BY <1>2 DEF MarketAnswers
    <2>2. sync' \in SyncCall /\ sync'.pc = pc /\ sync'.synced = sync.synced
      BY <1>1, <2>1 DEF SyncCall, SyncPC
    <2>3. requests' \in 0..MaxRequests
      BY <1>1, <1>2 DEF MarketAnswers, Requested
    <2> QED
      BY <1>2, <2>2, <2>3 DEF MarketAnswers
  <1>3. CASE SyncSearchToCatalog
    <2>1. PICK found \in SyncItems \union {<<>>} : MarketAnswers(found)
      BY <1>3 DEF SyncSearchToCatalog
    <2>2. <<>> \in Seq(Key) /\ SyncItems \subseteq Seq(Key)
      BY IngestAssumption
    <2> QED
      BY <1>2, <2>1, <2>2
  <1>4. CASE SyncItemToCatalog
    <2>1. PICK k \in Key : MarketAnswers(<<k>>)
      BY <1>4 DEF SyncItemToCatalog
    <2>2. <<k>> \in Seq(Key)
      OBVIOUS
    <2> QED
      BY <1>2, <2>1, <2>2
  <1>5. CASE MarketRefuses
    BY <1>1, <1>5 DEF MarketRefuses, Requested, SyncCall, SyncPC
  <1> QED
    BY <1>3, <1>4, <1>5

LEMMA SyncNextMoves ==
  ASSUME IngestInv, SyncNext
  PROVE  /\ Moved(Sync) /\ items' = items /\ call'[Sync].op = "upsert"
         /\ sync' \in SyncCall /\ sync'.left # <<>> /\ sync'.pc = "upsert" /\ sync'.synced = sync.synced
         /\ UNCHANGED <<importVars, requests>>
  <1>1. sync \in SyncCall /\ sync.left \in Seq(Key) /\ sync.left # <<>>
    BY DEF SyncNext, IngestInv, JobTyped, SyncCall
  <1>2. Head(sync.left) \in Key
    BY <1>1
  <1>3. Moved(Sync) /\ items' = items /\ call'[Sync].op = "upsert"
    BY <1>2, UpsertMoves, Processes DEF SyncNext, IngestInv
  <1> QED
    BY <1>1, <1>3 DEF SyncNext, SyncCall, SyncPC

LEMMA SyncDoneMoves ==
  ASSUME IngestInv, SyncDone
  PROVE  /\ Moved(Sync) /\ items' = items /\ call' = [call EXCEPT ![Sync] = NoCall]
         /\ sync' \in SyncCall /\ sync'.pc # "upsert"
         /\ \A k \in sync'.synced \ sync.synced : k \in Key /\ Stored(k)
         /\ UNCHANGED <<importVars, requests>>
  <1>1. sync \in SyncCall /\ sync.left \in Seq(Key) /\ sync.left # <<>>
    BY DEF SyncDone, IngestInv, JobTyped, SyncCall
  <1>2. Tail(sync.left) \in Seq(Key)
    BY <1>1
  <1>3. Moved(Sync) /\ items' = items /\ call' = [call EXCEPT ![Sync] = NoCall]
    BY AnsweredMoves, Processes DEF SyncDone, IngestInv, CallsInv
  <1>4. CASE call[Sync].res = "ok"
    <2>1. call[Sync].key \in Key /\ Stored(call[Sync].key)
      BY <1>4, OkIsStored DEF IngestInv
    <2>2. PICK pc \in {"ok", "next"} :
             sync' = [pc |-> pc, left |-> Tail(sync.left), synced |-> sync.synced \union {call[Sync].key}]
      BY <1>4 DEF SyncDone
    <2> QED
      BY <1>1, <1>2, <1>3, <2>1, <2>2 DEF SyncDone, SyncCall, SyncPC
  <1>5. CASE call[Sync].res # "ok"
    BY <1>1, <1>3, <1>5 DEF SyncDone, SyncCall, SyncPC
  <1> QED
    BY <1>4, <1>5

\* A step leaves the calls of the job and of the sync alone, or is one of theirs.
LEMMA BaseStep == IngestInv /\ [Next]_vars => IngestInv' /\ ItemsGrow
  <1> SUFFICES ASSUME IngestInv, [Next]_vars PROVE IngestInv' /\ ItemsGrow
    OBVIOUS
  <1> USE Processes
  <1>1. CallsInv /\ OwnInv /\ JobTyped
    BY DEF IngestInv
  <1>2. ASSUME NEW p \in Request, Serve(p) \/ RequestAnswered(p)
        PROVE  IngestInv' /\ ItemsGrow
    <2>1. Moved(p)
      <3>1. CASE Serve(p)
        BY <1>1, <3>1, ServeMoves DEF Serve
      <3>2. CASE RequestAnswered(p)
        BY <1>1, <3>2, AnsweredMoves DEF RequestAnswered, CallsInv
      <3> QED
        BY <1>2, <3>1, <3>2
    <2>2. CallsInv' /\ ItemsGrow /\ \A q \in Proc \ {p} : call'[q] = call[q]
      BY <1>1, <2>1, MovedKeeps
    <2>3. requests' \in 0..MaxRequests /\ UNCHANGED <<importVars, sync>>
      BY <1>1, <1>2, IngestAssumption DEF Serve, Requested, RequestAnswered, JobTyped
    <2> QED
      BY <1>1, <2>2, <2>3 DEF IngestInv, OwnInv, JobTyped, importVars
  <1>3. ASSUME NEW p \in Proc, CallStep(p) \/ CallFails(p)
        PROVE  IngestInv' /\ ItemsGrow
    <2>1. Moved(p) /\ SameCall(p)
      BY <1>1, <1>3, StepMoves DEF CallStep, CallFails, CallsInv
    <2>2. CallsInv' /\ ItemsGrow /\ \A q \in Proc \ {p} : call'[q] = call[q]
      BY <1>1, <2>1, MovedKeeps
    <2>3. \A q \in Proc : call'[q].op = call[q].op
      BY <2>1, <2>2 DEF SameCall
    <2>4. localized' \subseteq Key
      <3>1. p = Import /\ call[p].pc = "commit" => call[p].key \in Key
        BY <1>1 DEF CallsInv, CallInv
      <3> QED
        BY <1>1, <1>3, <3>1 DEF CallStep, CallFails, Localize, JobTyped
    <2>5. UNCHANGED <<remote, edits, job, counted, requests, sync>>
      BY <1>3 DEF CallStep, CallFails
    <2> QED
      BY <1>1, <2>2, <2>3, <2>4, <2>5 DEF IngestInv, OwnInv, JobTyped
  <1>4. CASE JobStarts \/ JobStep
    <2>1. job' \in Job /\ counted' \subseteq Key /\ (job'.pc = "upsert" => job'.page # <<>>)
      BY <1>1, <1>4, ImportTyped
    <2>2. CASE JobOnly
      <3>1. CallsInv' /\ ItemsGrow
        <4>1. idle' \in Nat
          BY <1>4, <2>2, IdleStays
        <4> QED
          BY <1>1, <2>2, <4>1, SameItems DEF JobOnly, CallsInv, ItemsTyped, CallInv, Stored
      <3> QED
        BY <1>1, <2>1, <2>2, <3>1 DEF IngestInv, OwnInv, JobTyped, JobOnly
    <2>3. CASE ImportEntry /\ UNCHANGED <<requests, sync>>
      <3>1. CallsInv' /\ ItemsGrow /\ \A q \in Proc \ {Import} : call'[q] = call[q]
        BY <1>1, <2>3, ImportEntryMoves, MovedKeeps
      <3> QED
        BY <1>1, <2>1, <2>3, <3>1, ImportEntryMoves DEF IngestInv, OwnInv, JobTyped
    <2>4. CASE EntryDone /\ UNCHANGED <<requests, sync>>
      <3>1. CallsInv' /\ ItemsGrow /\ \A q \in Proc \ {Import} : call'[q] = call[q]
        BY <1>1, <2>4, EntryDoneMoves, MovedKeeps
      <3>2. call'[Import].op = "none"
        BY <1>1, <2>4, EntryDoneMoves DEF CallsInv, ItemsTyped, NoCall
      <3> QED
        BY <1>1, <2>1, <2>4, <3>1, <3>2, EntryDoneMoves DEF IngestInv, OwnInv, JobTyped
    <2> QED
      BY <1>4, <2>2, <2>3, <2>4, JobOnlySteps
  <1>5. CASE Market
    <2>1. UNCHANGED itemVars /\ UNCHANGED <<job, counted, localized, requests, sync>>
      BY <1>5 DEF Market, MarketChanges
    <2>2. remote' \in Remotes /\ edits' \in 0..MaxEdits
      BY <1>1, <1>5, ImportAssumption DEF Market, MarketChanges, JobTyped
    <2>3. CallsInv' /\ ItemsGrow
      BY <1>1, <2>1, SameCalls
    <2> QED
      BY <1>1, <2>1, <2>2, <2>3 DEF IngestInv, OwnInv, JobTyped, itemVars
  <1>6. CASE SyncSearchToCatalog \/ SyncItemToCatalog \/ MarketRefuses
    <2>1. CallsInv' /\ ItemsGrow
      BY <1>1, <1>6, SyncStarts, SameCalls
    <2> QED
      BY <1>1, <1>6, <2>1, SyncStarts DEF IngestInv, OwnInv, JobTyped, itemVars, importVars
  <1>7. CASE SyncNext
    <2>1. CallsInv' /\ ItemsGrow /\ \A q \in Proc \ {Sync} : call'[q] = call[q]
      BY <1>1, <1>7, SyncNextMoves, MovedKeeps
    <2> QED
      BY <1>1, <1>7, <2>1, SyncNextMoves DEF IngestInv, OwnInv, JobTyped, importVars
  <1>8. CASE SyncDone
    <2>1. CallsInv' /\ ItemsGrow /\ \A q \in Proc \ {Sync} : call'[q] = call[q]
      BY <1>1, <1>8, SyncDoneMoves, MovedKeeps
    <2>2. call'[Sync].op = "none"
      BY <1>1, <1>8, SyncDoneMoves DEF CallsInv, ItemsTyped, NoCall
    <2> QED
      BY <1>1, <1>8, <2>1, <2>2, SyncDoneMoves DEF IngestInv, OwnInv, JobTyped, importVars
  <1>9. CASE UNCHANGED vars
    <2>1. CallsInv' /\ ItemsGrow
      BY <1>1, <1>9, SameCalls DEF vars
    <2> QED
      BY <1>1, <1>9, <2>1 DEF vars, IngestInv, OwnInv, JobTyped, itemVars, importVars
  <1> QED
    BY <1>2, <1>3, <1>4, <1>5, <1>6, <1>7, <1>8, <1>9 DEF Next

LEMMA IngestInit == Init => IngestInv
  <1> SUFFICES ASSUME Init PROVE IngestInv
    OBVIOUS
  <1> USE Processes DEF Init, ImportInit, ItemsInit
  <1>1. ItemsTyped
    <2>1. Absent \in ItemRow /\ NoCall \in Call
      BY DEF Absent, ItemRow, NoSlug, NoCall, Call, Op, PC, Result, Activity
    <2> QED
      BY <2>1, CatalogAssumption DEF ItemsTyped
  <1>2. \A p \in Proc : CallInv(p)
    BY DEF CallInv, NoCall, Answering
  <1>3. OwnInv
    BY DEF OwnInv, NoCall
  <1>4. JobTyped
    <2>1. NoJob \in Job /\ NoJob.pc = "none"
      BY DEF NoJob, Job, JobPC, Game
    <2>2. NoSync \in SyncCall /\ NoSync.pc = "none"
      BY DEF NoSync, SyncCall, SyncPC
    <2> QED
      BY <2>1, <2>2, ImportAssumption, IngestAssumption DEF JobTyped
  <1> QED
    BY <1>1, <1>2, <1>3, <1>4 DEF IngestInv, CallsInv

LEMMA BaseCorrect == Spec => []IngestInv
  BY IngestInit, BaseStep, PTL DEF Spec

(* The item of an answer covers the write it answers, in both reads, for any
   number of writers: nobody takes an item away, and versions only grow. *)
THEOREM AnswersCorrect == Spec => []AnswerCoversWrite
  <1>1. IngestInv => AnswerCoversWrite
    BY DEF IngestInv, CallsInv, CallInv, Answering, AnswerCoversWrite
  <1> QED
    BY <1>1, BaseCorrect, PTL

-----------------------------------------------------------------------------
LEMMA StoredStep == IngestInv /\ CountedIsStored /\ [Next]_vars => CountedIsStored'
  <1> SUFFICES ASSUME IngestInv, CountedIsStored, [Next]_vars PROVE CountedIsStored'
    OBVIOUS
  <1>1. \A k \in Key : Stored(k) => Stored(k)'
    BY BaseStep DEF ItemsGrow
  <1>2. counted \subseteq Key /\ sync.synced \subseteq Key
    BY DEF IngestInv, JobTyped, SyncCall
  <1>3. SUFFICES \A k \in counted' \union sync'.synced :
                    k \in counted \union sync.synced \/ (k \in Key /\ Stored(k))
    BY <1>1, <1>2 DEF CountedIsStored
  <1>4. CASE JobStarts \/ JobStep
    BY <1>4, JobOnlySteps, ImportEntryMoves, EntryDoneMoves DEF JobOnly
  <1>5. CASE SyncSearchToCatalog \/ SyncItemToCatalog \/ MarketRefuses
    BY <1>5, SyncStarts DEF importVars
  <1>6. CASE SyncNext
    BY <1>6, SyncNextMoves DEF importVars
  <1>7. CASE SyncDone
    BY <1>7, SyncDoneMoves DEF importVars
  <1>8. CASE UNCHANGED <<counted, sync>>
    BY <1>8
  <1>9. ASSUME NEW p \in Proc, CallStep(p) \/ CallFails(p) PROVE UNCHANGED <<counted, sync>>
    BY <1>9 DEF CallStep, CallFails
  <1>10. ASSUME NEW p \in Request, Serve(p) \/ RequestAnswered(p) PROVE UNCHANGED <<counted, sync>>
    BY <1>10 DEF Serve, RequestAnswered, importVars
  <1>11. Market \/ UNCHANGED vars => UNCHANGED <<counted, sync>>
    BY DEF Market, MarketChanges, vars, importVars
  <1> QED
    BY <1>4, <1>5, <1>6, <1>7, <1>8, <1>9, <1>10, <1>11 DEF Next

(* What an import counts and a sync reports is stored, whatever fails and
   whoever else writes: a call is answered "ok" after its commit only. *)
THEOREM CountedCorrect == Spec => []CountedIsStored
  <1>1. Init => CountedIsStored
    BY DEF Init, ImportInit, NoSync, CountedIsStored
  <1> QED
    BY <1>1, StoredStep, BaseCorrect, PTL DEF Spec

-----------------------------------------------------------------------------
(* The job translates to the language it was asked for, and before it starts it
   has translated nothing. *)
LocalInv ==
    /\ call[Import].langs \in {{}, job.langs}
    /\ job.pc = "none" => localized = {}
    /\ LocalizedStays

\* A commit without translations leaves them; any other change of a row does too.
LEMMA LangsStep ==
  ASSUME IngestInv, NEW p \in Proc, ItemsStep(p), Localize(p), NEW k \in localized'
  PROVE  \/ k \in localized /\ k \in Key /\ items'[k].langs = items[k].langs
         \/ p = Import /\ items'[k].langs = call[p].langs /\ call[p].langs # {}
  <1>1. localized \subseteq Key /\ items \in [Key -> ItemRow]
    BY DEF IngestInv, JobTyped, CallsInv, ItemsTyped
  <1>2. CASE items' = items
    BY <1>1, <1>2 DEF Localize
  <1>3. CASE call[p].pc = "commit" /\ items' = [items EXCEPT ![call[p].key] = RowOf(p)]
    <2> DEFINE row == RowOf(p)
    <2>1. call[p].key \in Key /\ row.ver = items[call[p].key].ver + 1
          /\ items[call[p].key].ver \in Nat
      BY <1>1, <1>3, CommitRow DEF IngestInv, CallsInv, ItemRow
    <2>2. row.langs = IF call[p].langs = {} THEN items[call[p].key].langs ELSE call[p].langs
      BY DEF RowOf
    <2>3. items' = [items EXCEPT ![call[p].key] = row]
      BY <1>3
    <2> HIDE DEF row
    <2>4. items'[call[p].key] = row /\ \A j \in Key \ {call[p].key} : items'[j] = items[j]
      BY <1>1, <2>1, <2>3
    <2>5. items' # items
      BY <2>1, <2>4
    <2>6. CASE call[p].langs = {}
      BY <1>1, <2>1, <2>2, <2>4, <2>6 DEF Localize
    <2>7. CASE call[p].langs # {} /\ p = Import
      BY <1>1, <1>3, <2>1, <2>2, <2>4, <2>5, <2>7 DEF Localize
    <2>8. CASE call[p].langs # {} /\ p # Import
      BY <1>1, <1>3, <2>1, <2>4, <2>5, <2>8 DEF Localize
    <2> QED
      BY <2>6, <2>7, <2>8
  <1>4. CASE /\ call[p].pc = "row" /\ call[p].op = "delete" /\ call[p].key \in Key
             /\ items' = Deactivated(call[p].key)
    <2>1. k \in localized /\ k \in Key
      BY <1>1, <1>4 DEF Localize
    <2>2. items'[k].langs = items[k].langs
      BY <1>1, <1>4, <2>1 DEF Deactivated, ItemRow
    <2> QED
      BY <2>1, <2>2
  <1> QED
    BY <1>2, <1>3, <1>4 DEF ItemsStep

LEMMA LocalStep == IngestInv /\ LocalInv /\ [Next]_vars => LocalInv'
  <1> SUFFICES ASSUME IngestInv, LocalInv, [Next]_vars PROVE LocalInv'
    OBVIOUS
  <1> USE Processes DEF LocalInv, LocalizedStays
  <1>1. CallsInv /\ OwnInv /\ JobTyped
    BY DEF IngestInv
  <1>2. ASSUME NEW p \in Request, Serve(p) \/ RequestAnswered(p) PROVE LocalInv'
    <2>1. Moved(p) /\ items' = items
      <3>1. CASE Serve(p)
        BY <1>1, <3>1, ServeMoves DEF Serve
      <3>2. CASE RequestAnswered(p)
        BY <1>1, <3>2, AnsweredMoves DEF RequestAnswered, CallsInv
      <3> QED
        BY <1>2, <3>1, <3>2
    <2>2. call'[Import] = call[Import]
      BY <1>1, <2>1, MovedKeeps
    <2>3. job' = job /\ localized' = localized
      BY <1>2 DEF Serve, RequestAnswered, importVars
    <2> QED
      BY <2>1, <2>2, <2>3
  <1>3. ASSUME NEW p \in Proc, CallStep(p) \/ CallFails(p) PROVE LocalInv'
    <2>1. Moved(p) /\ SameCall(p) /\ ItemsStep(p) /\ Localize(p) /\ job' = job
      BY <1>1, <1>3, StepMoves DEF CallStep, CallFails, CallsInv
    <2>2. call'[Import].langs = call[Import].langs
      BY <1>1, <2>1, MovedKeeps DEF SameCall
    <2>3. \A k \in localized' : items'[k].langs = job.langs
      BY <2>1, LangsStep
    <2>4. job.pc = "none" => localized' = {}
      <3>1. job.pc = "none" => call[Import].op = "none"
        BY <1>1 DEF OwnInv
      <3>2. call[Import].op = "none" => call[Import].pc # "commit"
        BY <1>1 DEF CallsInv, CallInv
      <3> QED
        BY <2>1, <3>1, <3>2 DEF Localize
    <2> QED
      BY <2>1, <2>2, <2>3, <2>4
  <1>4. CASE JobStarts \/ JobStep
    <2>1. CASE JobOnly
      <3>1. call[Import].langs = {}
        BY <1>1, <2>1 DEF JobOnly, OwnInv, CallsInv, CallInv
      <3> QED
        BY <2>1, <3>1 DEF JobOnly
    <2>2. CASE ImportEntry
      BY <1>1, <2>2, ImportEntryMoves
    <2>3. CASE EntryDone
      <3>1. call'[Import].langs = {}
        BY <1>1, <2>3, EntryDoneMoves DEF CallsInv, ItemsTyped, NoCall
      <3> QED
        BY <1>1, <2>3, <3>1, EntryDoneMoves
    <2> QED
      BY <1>4, <2>1, <2>2, <2>3, JobOnlySteps
  <1>5. CASE SyncNext
    <2>1. call'[Import] = call[Import]
      BY <1>1, <1>5, SyncNextMoves, MovedKeeps
    <2> QED
      BY <1>5, <2>1, SyncNextMoves DEF importVars
  <1>6. CASE SyncDone
    <2>1. call'[Import] = call[Import]
      BY <1>1, <1>6, SyncDoneMoves, MovedKeeps
    <2> QED
      BY <1>6, <2>1, SyncDoneMoves DEF importVars
  <1>7. CASE UNCHANGED <<items, call, job, localized>>
    BY <1>7
  <1>8. CASE SyncSearchToCatalog \/ SyncItemToCatalog \/ MarketRefuses
    BY <1>7, <1>8, SyncStarts DEF itemVars, importVars
  <1>9. CASE Market \/ UNCHANGED vars
    BY <1>7, <1>9 DEF Market, MarketChanges, vars, itemVars, importVars
  <1> QED
    BY <1>2, <1>3, <1>4, <1>5, <1>6, <1>8, <1>9 DEF Next

(* Translations of an import are lost only to a call that brings its own. *)
THEOREM LocalizedCorrect == Spec => []LocalizedStays
  <1>1. Init => LocalInv
    BY Processes DEF Init, ImportInit, ItemsInit, NoCall, LocalInv, LocalizedStays
  <1>2. LocalInv => LocalizedStays
    BY DEF LocalInv
  <1> QED
    BY <1>1, <1>2, LocalStep, BaseCorrect, PTL DEF Spec

-----------------------------------------------------------------------------
\* Calls with a connection.
Holders == {p \in Proc : Holds(p) = 1}

PoolInv == idle + Pinned + Cardinality(Holders) = MaxConns

LEMMA HoldersFinite == IsFiniteSet(Holders) /\ Cardinality(Holders) \in Nat
  BY CatalogAssumption, FS_Subset, FS_CardinalityType DEF Holders

\* What one call takes from the pool, or gives back, is its own.
LEMMA MovedHolds ==
  ASSUME CallsInv, NEW p \in Proc, Moved(p)
  PROVE  idle' + Cardinality(Holders') = idle + Cardinality(Holders)
  <1>1. \A q \in Proc \ {p} : Holds(q)' = Holds(q)
    BY MovedKeeps DEF Holds
  <1>2. Holds(p) \in {0, 1} /\ Holds(p)' \in {0, 1}
    BY DEF Holds
  <1>3. idle \in Nat /\ idle' \in Nat /\ Balanced(p)
    BY DEF CallsInv, ItemsTyped, Moved
  <1>4. IsFiniteSet(Holders) /\ Cardinality(Holders) \in Nat
    BY HoldersFinite
  <1>5. CASE Holds(p) = 0 /\ Holds(p)' = 0
    <2>1. Holders' = Holders
      BY <1>1, <1>5 DEF Holders
    <2> QED
      BY <1>3, <1>4, <1>5, <2>1 DEF Balanced
  <1>6. CASE Holds(p) = 1 /\ Holds(p)' = 1
    <2>1. Holders' = Holders
      BY <1>1, <1>6 DEF Holders
    <2> QED
      BY <1>3, <1>4, <1>6, <2>1 DEF Balanced
  <1>7. CASE Holds(p) = 0 /\ Holds(p)' = 1
    <2>1. Holders' = Holders \union {p} /\ p \notin Holders
      BY <1>1, <1>7 DEF Holders
    <2>2. Cardinality(Holders') = Cardinality(Holders) + 1
      BY <1>4, <2>1, FS_AddElement
    <2> QED
      BY <1>3, <1>4, <1>7, <2>2 DEF Balanced
  <1>8. CASE Holds(p) = 1 /\ Holds(p)' = 0
    <2>1. Holders' = Holders \ {p} /\ p \in Holders
      BY <1>1, <1>8 DEF Holders
    <2>2. Cardinality(Holders') = Cardinality(Holders) - 1
      BY <1>4, <2>1, FS_RemoveElement
    <2> QED
      BY <1>3, <1>4, <1>8, <2>2 DEF Balanced
  <1> QED
    BY <1>2, <1>5, <1>6, <1>7, <1>8

LEMMA PoolStep == IngestInv /\ PoolInv /\ [Next]_vars => PoolInv'
  <1> SUFFICES ASSUME IngestInv, PoolInv, [Next]_vars PROVE PoolInv'
    OBVIOUS
  <1> USE Processes
  <1>1. CallsInv /\ Pinned \in Nat /\ idle \in Nat /\ idle' \in Nat /\ Pinned' \in Nat
    BY BaseStep DEF IngestInv, CallsInv, ItemsTyped, Pinned
  <1>2. Cardinality(Holders) \in Nat
    BY HoldersFinite
  <1>3. ASSUME NEW p \in Proc, Moved(p), Pinned' = Pinned PROVE PoolInv'
    <2>1. idle' + Cardinality(Holders') = idle + Cardinality(Holders)
      BY <1>1, <1>3, MovedHolds
    <2>2. Cardinality(Holders') \in Nat
      BY CatalogAssumption, FS_Subset, FS_CardinalityType DEF Holders
    <2> QED
      BY <1>1, <1>2, <1>3, <2>1, <2>2 DEF PoolInv
  <1>4. ASSUME NEW p \in Request, Serve(p) \/ RequestAnswered(p) PROVE PoolInv'
    <2>1. CASE Serve(p)
      BY <1>1, <1>3, <2>1, ServeMoves DEF Serve, importVars, Pinned
    <2>2. CASE RequestAnswered(p)
      BY <1>1, <1>3, <2>2, AnsweredMoves DEF RequestAnswered, CallsInv, importVars, Pinned
    <2> QED
      BY <1>4, <2>1, <2>2
  <1>5. ASSUME NEW p \in Proc, CallStep(p) \/ CallFails(p) PROVE PoolInv'
    BY <1>1, <1>3, <1>5, StepMoves DEF CallStep, CallFails, CallsInv, Pinned
  <1>6. CASE JobStarts \/ JobStep
    <2>1. CASE JobOnly
      <3>1. Holders' = Holders
        BY <2>1 DEF JobOnly, Holders, Holds
      <3>2. idle' + Pinned' = idle + Pinned
        BY <1>6, <2>1, IdleStays
      <3> QED
        BY <1>1, <1>2, <3>1, <3>2 DEF PoolInv
    <2>2. CASE ImportEntry
      BY <1>3, <2>2, ImportEntryMoves DEF Pinned, JobPC
    <2>3. CASE EntryDone
      BY <1>3, <2>3, EntryDoneMoves DEF Pinned, JobPC
    <2> QED
      BY <1>6, <2>1, <2>2, <2>3, JobOnlySteps
  <1>7. CASE SyncNext
    BY <1>3, <1>7, SyncNextMoves DEF importVars, Pinned
  <1>8. CASE SyncDone
    BY <1>3, <1>8, SyncDoneMoves DEF importVars, Pinned
  <1>9. CASE UNCHANGED <<itemVars, job>>
    <2>1. Holders' = Holders /\ Pinned' = Pinned /\ idle' = idle
      BY <1>9 DEF itemVars, Holders, Holds, Pinned
    <2> QED
      BY <2>1 DEF PoolInv
  <1>10. CASE SyncSearchToCatalog \/ SyncItemToCatalog \/ MarketRefuses
    BY <1>9, <1>10, SyncStarts DEF importVars
  <1>11. CASE Market \/ UNCHANGED vars
    BY <1>9, <1>11 DEF Market, MarketChanges, vars, importVars
  <1> QED
    BY <1>4, <1>5, <1>6, <1>7, <1>8, <1>10, <1>11 DEF Next

LEMMA PoolStarts == Init => PoolInv
  <1> SUFFICES ASSUME Init PROVE PoolInv
    OBVIOUS
  <1>1. Holders = {}
    BY DEF Init, ImportInit, ItemsInit, Holders, Holds, NoCall
  <1>2. Pinned = 0 /\ idle = MaxConns
    BY DEF Init, ImportInit, NoJob, Pinned
  <1> QED
    BY <1>1, <1>2, FS_EmptySet, CatalogAssumption DEF PoolInv

(* Every connection of the pool is accounted for: idle, with the lock of the
   job, or with a call that gives it back however it ends. *)
THEOREM IngestTypeCorrect == Spec => []TypeOK
  <1>1. IngestInv /\ PoolInv => TypeOK
    BY DEF IngestInv, CallsInv, ItemsTyped, JobTyped, PoolInv, Holders, TypeOK
  <1> QED
    BY <1>1, PoolStarts, PoolStep, BaseCorrect, PTL DEF Spec

-----------------------------------------------------------------------------
(* What the call of p needs for its next step: a connection, or the end of a
   transaction that has its row or its slug.  This is the guard of Step(p). *)
CanStep(p) ==
    LET c == call[p] IN
    \/ c.pc = "begin" /\ c.op # "list" /\ idle > 0
    \/ c.pc = "row" /\ c.op \in {"create", "upsert", "update", "delete"} /\ ~Blocked(p)
    \/ c.pc \in {"langs", "commit"}
    \/ c.pc \in {"readRow", "readLangs"} /\ idle > 0
    \/ c.pc = "next" /\ (c.left = {} \/ idle > 0)

LEMMA StepNeeds == ASSUME NEW p \in Proc, Step(p) PROVE CanStep(p)
  BY DEF Step, Begin, InsertRow, UpsertRow, UpdateRow, DeactivateRow, Statement,
         WriteTranslations, Commit, ReadRow, ReadTranslations, NextRow, RowsDone, CanStep

(* No write waits for a connection while it has one, and none waits for a
   transaction that waits: whatever keeps every call from its next step, one of
   them is a listing.  The job keeps a connection of its own, so that one pool
   has to have another. *)
THEOREM OnlyListingsStick ==
  ASSUME MaxConns > 1
  PROVE  Spec => [](/\ Busy # {}
                    /\ \A p \in Busy : ~CanStep(p)
                    => \E p \in Busy : call[p].pc = "next")
  <1> DEFINE Stuck == Busy # {} /\ \A p \in Busy : ~CanStep(p)
             Listing == \E p \in Busy : call[p].pc = "next"
  <1>1. IngestInv /\ PoolInv /\ Stuck => Listing
    <2> SUFFICES ASSUME IngestInv, PoolInv, Stuck, ~Listing PROVE FALSE
      OBVIOUS
    <2>1. ItemsTyped /\ \A p \in Proc : CallInv(p) /\ call[p].pc \in PC
      BY DEF IngestInv, CallsInv, ItemsTyped, Call
    <2>2. \A p \in Proc : call[p].pc \notin {"langs", "commit"}
      BY DEF Busy, CanStep
    <2>3. \A p \in Proc : ~Blocked(p)
      BY <2>2 DEF Blocked
    <2>4. \A p \in Proc : call[p].pc # "row"
      BY <2>1, <2>3 DEF Busy, CanStep, CallInv
    <2>5. \A p \in Proc : Holds(p) = 0
      BY <2>2, <2>4 DEF Holds, Busy
    <2>6. \A p \in Busy : call[p].pc \in {"begin", "readRow", "readLangs"}
      BY <2>1, <2>2, <2>4 DEF Busy, PC
    <2>7. ~(idle > 0)
      BY <2>1, <2>6 DEF Busy, CanStep, CallInv
    <2>8. Cardinality(Holders) = 0
      <3>1. Holders = {}
        BY <2>5 DEF Holders
      <3> QED
        BY <3>1, FS_EmptySet
    <2>9. idle = 0 /\ Pinned \in {0, 1}
      BY <2>1, <2>7 DEF ItemsTyped, Pinned
    <2> QED
      BY <2>8, <2>9, CatalogAssumption DEF PoolInv
  <1>2. Spec => []PoolInv
    BY PoolStarts, PoolStep, BaseCorrect, PTL DEF Spec
  <1> QED
    BY <1>1, <1>2, BaseCorrect, PTL

-----------------------------------------------------------------------------
\* The places of the entries worth importing among the first n of the catalogue.
Goods(n) == {i \in 1..n : remote[i] # Junk}

\* The items these entries become.
Taken(n) == {remote[i] : i \in Goods(n)}

\* How far the source has listed the catalogue, and how far the importer has gone through it.
Listed == IF job.game = "tarkov" THEN job.offset ELSE IF job.last THEN Len(remote) ELSE 0
Place == Listed - Len(job.page)

\* An import takes no more than this, and has announced no less.
Most == IF job.limit > 0 THEN Least(job.limit, Cardinality(Wanted)) ELSE Cardinality(Wanted)

(* The page is what comes next in the catalogue after the entries done with,
   of which those worth it, and no others, have been counted.  The source says
   a page is the last one at the end of the catalogue only. *)
Scan ==
    /\ Len(job.page) <= Listed /\ Listed <= Len(remote)
    /\ \A i \in 1..Len(job.page) : job.page[i] = remote[Place + i]
    /\ job.processed = Cardinality(Goods(Place))
    /\ counted = Taken(Place)
    /\ job.limit > 0 => job.processed <= job.limit
    /\ job.last => Listed = Len(remote)
    /\ job.pc \in {"none", "lock", "mark", "hint"} => Listed = 0
    /\ job.pc \in {"none", "lock", "mark", "hint", "fetch"} => job.page = <<>> /\ ~job.last
    /\ job.pc \in {"fetch", "upsert"} => ~LimitReached
    /\ job.pc = "upsert" => Head(job.page) # Junk
    /\ job.pc \in {"end", "completed"} => LimitReached \/ Place = Len(remote)
    /\ job.pc \in {"fetch", "entry", "upsert", "end", "completed"} => Most <= job.total

ScanInv == edits = 0 => Scan

\* What is being upserted is the entry at the head of the page.
Carried == job.pc = "upsert" => call[Import].key = Head(job.page)

LEMMA ScanTyped ==
  ASSUME JobTyped
  PROVE  /\ job.offset \in Nat /\ job.processed \in Nat /\ job.limit \in Nat /\ job.total \in Nat
         /\ job.last \in BOOLEAN /\ job.game \in Game /\ job \in Job
         /\ Len(job.page) \in Nat /\ Len(remote) \in Nat
         /\ Listed \in Nat /\ Place \in Int
  BY RemoteTyped DEF JobTyped, Job, Game, Listed, Place

LEMMA GoodsCount ==
  ASSUME JobTyped
  PROVE  /\ \A n \in 0..Len(remote) :
                /\ Cardinality(Goods(n)) \in Nat
                /\ Cardinality(Goods(n)) <= Cardinality(Wanted)
         /\ Cardinality(Goods(0)) = 0
         /\ Wanted = Goods(Len(remote))
         /\ Cardinality(Wanted) \in 0..Len(remote)
  <1>1. Len(remote) \in Nat /\ DOMAIN remote = 1..Len(remote)
    BY RemoteTyped
  <1>2. Wanted = Goods(Len(remote)) /\ Wanted \subseteq 1..Len(remote)
    BY <1>1 DEF Wanted, Goods
  <1>3. IsFiniteSet(1..Len(remote)) /\ Cardinality(1..Len(remote)) = Len(remote)
    <2>1. \A n \in Nat : IsFiniteSet(1..n) /\ Cardinality(1..n) = n
      BY FS_Interval
    <2> QED
      BY <1>1, <2>1
  <1>4. /\ IsFiniteSet(Wanted) /\ Cardinality(Wanted) \in Nat
        /\ Cardinality(Wanted) <= Len(remote)
    BY <1>2, <1>3, FS_Subset, FS_CardinalityType
  <1>5. ASSUME NEW n \in 0..Len(remote)
        PROVE  Cardinality(Goods(n)) \in Nat /\ Cardinality(Goods(n)) <= Cardinality(Wanted)
    <2>1. Goods(n) \subseteq Wanted
      BY <1>1, <1>2 DEF Goods
    <2> QED
      BY <1>4, <2>1, FS_Subset, FS_CardinalityType
  <1>6. Cardinality(Goods(0)) = 0
    <2>1. Goods(0) = {}
      BY DEF Goods
    <2> QED
      BY <2>1, FS_EmptySet
  <1> QED
    BY <1>1, <1>2, <1>4, <1>5, <1>6

LEMMA GoodsNext ==
  ASSUME JobTyped, NEW n \in Nat
  PROVE  Cardinality(Goods(n + 1)) = Cardinality(Goods(n)) + (IF remote[n + 1] # Junk THEN 1 ELSE 0)
  <1>1. IsFiniteSet(Goods(n)) /\ Cardinality(Goods(n)) \in Nat
    <2>1. IsFiniteSet(1..n) /\ Goods(n) \subseteq 1..n
      BY FS_Interval DEF Goods
    <2> QED
      BY <2>1, FS_Subset, FS_CardinalityType
  <1>2. CASE remote[n + 1] # Junk
    <2>1. Goods(n + 1) = Goods(n) \union {n + 1} /\ n + 1 \notin Goods(n)
      BY <1>2 DEF Goods
    <2> QED
      BY <1>1, <1>2, <2>1, FS_AddElement
  <1>3. CASE remote[n + 1] = Junk
    <2>1. Goods(n + 1) = Goods(n)
      BY <1>3 DEF Goods
    <2> QED
      BY <1>1, <1>3, <2>1
  <1> QED
    BY <1>2, <1>3

LEMMA TakenFirst == Taken(0) = {}
  BY DEF Taken, Goods

LEMMA TakenNext ==
  ASSUME NEW n \in Nat
  PROVE  Taken(n + 1) = IF remote[n + 1] # Junk THEN Taken(n) \union {remote[n + 1]} ELSE Taken(n)
  <1>1. CASE remote[n + 1] # Junk
    <2>1. Goods(n + 1) = Goods(n) \union {n + 1}
      BY <1>1 DEF Goods
    <2> QED
      BY <1>1, <2>1 DEF Taken
  <1>2. CASE remote[n + 1] = Junk
    <2>1. Goods(n + 1) = Goods(n)
      BY <1>2 DEF Goods
    <2> QED
      BY <1>2, <2>1 DEF Taken
  <1> QED
    BY <1>1, <1>2

\* An entry leaves the head of the page: the importer goes one place further.
LEMMA TailScanned ==
  ASSUME JobTyped, Scan, job.page # <<>>
  PROVE  /\ Place \in Nat /\ Place + 1 <= Len(remote)
         /\ Head(job.page) = remote[Place + 1]
         /\ Tail(job.page) \in Seq(Key \union {Junk})
         /\ Len(Tail(job.page)) = Len(job.page) - 1
         /\ \A i \in 1..Len(Tail(job.page)) : Tail(job.page)[i] = remote[Place + 1 + i]
         /\ Cardinality(Goods(Place + 1)) =
                job.processed + (IF Head(job.page) # Junk THEN 1 ELSE 0)
         /\ Taken(Place + 1) =
                IF Head(job.page) # Junk THEN counted \union {Head(job.page)} ELSE counted
  <1> DEFINE page == job.page
  <1>1. page \in Seq(Key \union {Junk}) /\ page # <<>> /\ Len(page) \in Nat
    BY ScanTyped, RemoteTyped
  <1>2. Len(page) > 0 /\ Head(page) = page[1]
    BY <1>1
  <1>3. Tail(page) \in Seq(Key \union {Junk}) /\ Len(Tail(page)) = Len(page) - 1
    BY <1>1
  <1>4. \A i \in 1..Len(Tail(page)) : Tail(page)[i] = page[i + 1]
    BY <1>1, <1>3
  <1>5. Place \in Nat /\ Place + 1 <= Len(remote)
    BY <1>1, <1>2, ScanTyped DEF Scan, Place
  <1>6. \A i \in 1..Len(page) : page[i] = remote[Place + i]
    BY DEF Scan
  <1>7. Head(page) = remote[Place + 1]
    BY <1>1, <1>2, <1>6
  <1>8. \A i \in 1..Len(Tail(page)) : Tail(page)[i] = remote[Place + 1 + i]
    <2> SUFFICES ASSUME NEW i \in 1..Len(Tail(page)) PROVE Tail(page)[i] = remote[Place + 1 + i]
      OBVIOUS
    <2>1. i + 1 \in 1..Len(page) /\ Place + (i + 1) = Place + 1 + i
      BY <1>1, <1>3, <1>5
    <2> QED
      BY <1>4, <1>6, <2>1
  <1>9. Cardinality(Goods(Place + 1)) = job.processed + (IF Head(page) # Junk THEN 1 ELSE 0)
    BY <1>5, <1>7, GoodsNext DEF Scan
  <1>10. Taken(Place + 1) = IF Head(page) # Junk THEN counted \union {Head(page)} ELSE counted
    BY <1>5, <1>7, TakenNext DEF Scan
  <1> QED
    BY <1>3, <1>5, <1>7, <1>8, <1>9, <1>10

\* Every source announces at least what an import may take.
LEMMA HintScanned ==
  ASSUME JobTyped, Scan, TotalHint
  PROVE  Scan'
  <1>1. PICK n \in CASE job.game = "tarkov" -> {TarkovTotal}
              [] job.game = "warframe" -> {WarframeTotal}
              [] job.game = "eve" -> EveTotals :
           job' = [job EXCEPT !.pc = "fetch", !.total = n]
    BY DEF TotalHint
  <1>2. /\ job.limit \in Nat /\ Len(remote) \in Nat /\ job.game \in Game /\ job \in Job
        /\ Cardinality(Wanted) \in 0..Len(remote) /\ Cardinality(Goods(0)) = 0
    BY ScanTyped, GoodsCount
  <1>3. Most <= n
    <2>1. Most <= TarkovTotal /\ Most <= WarframeTotal
      BY <1>2 DEF Most, TarkovTotal, WarframeTotal, Least
    <2>2. \A m \in EveTotals : Most <= m
      BY <1>2 DEF Most, EveTotals, Least
    <2> QED
      BY <1>1, <1>2, <2>1, <2>2 DEF Game
  <1>4. /\ job'.pc = "fetch" /\ job'.total = n /\ job'.page = job.page /\ job'.last = job.last
        /\ job'.offset = job.offset /\ job'.processed = job.processed
        /\ job'.limit = job.limit /\ job'.game = job.game
    BY <1>1, <1>2 DEF Job
  <1>5. remote' = remote /\ job.pc = "hint"
    BY DEF TotalHint
  <1>6. job.page = <<>> /\ ~job.last /\ Listed = 0 /\ Place = 0
    BY <1>5 DEF Scan, Place
  <1>7. Listed' = 0 /\ Place' = 0 /\ Most' = Most /\ Goods(0)' = Goods(0)
    BY <1>4, <1>5, <1>6 DEF Listed, Place, Most, Wanted, Goods
  <1>8. job.processed = 0
    BY <1>2, <1>6 DEF Scan
  <1>9. ~LimitReached'
    BY <1>2, <1>4, <1>8 DEF LimitReached
  <1>10. Cardinality(Goods(Place))' = 0
    BY <1>2, <1>5, <1>7 DEF Goods
  <1>11. counted' = Taken(Place)'
    <2>1. counted = Taken(0) /\ counted' = counted
      BY <1>6 DEF Scan, TotalHint
    <2>2. Taken(Place)' = Taken(0)
      BY <1>5, <1>7 DEF Taken, Goods
    <2> QED
      BY <2>1, <2>2
  <1> QED
    BY <1>2, <1>3, <1>4, <1>5, <1>6, <1>7, <1>8, <1>9, <1>10, <1>11 DEF Scan

\* The first entry of the page is passed over, or stored and counted.
LEMMA EntryScanned ==
  ASSUME JobTyped, Scan, job.page # <<>>, remote' = remote, job' \in Job,
         job'.pc = "entry", job.pc \in {"entry", "upsert"}, ~LimitReached,
         job'.game = job.game, job'.limit = job.limit, job'.total = job.total,
         job'.offset = job.offset, job'.last = job.last, job'.page = Tail(job.page),
         job'.processed = job.processed + (IF Head(job.page) # Junk THEN 1 ELSE 0),
         counted' = IF Head(job.page) # Junk THEN counted \union {Head(job.page)} ELSE counted
  PROVE  Scan'
  <1>1. /\ job.processed \in Nat /\ job.limit \in Nat /\ Len(job.page) \in Nat
        /\ Len(remote) \in Nat /\ Listed \in Nat
    BY ScanTyped
  <1>2. Listed' = Listed /\ Most' = Most
    BY DEF Listed, Most, Wanted
  <1>3. Len(job'.page) = Len(job.page) - 1
    BY TailScanned
  <1>4. Place' = Place + 1 /\ Place \in Nat
    BY <1>1, <1>2, <1>3, TailScanned DEF Place
  <1>5. Len(job'.page) <= Listed' /\ Listed' <= Len(remote')
    BY <1>1, <1>2, <1>3 DEF Scan
  <1>6. \A i \in 1..Len(job'.page) : job'.page[i] = remote'[Place' + i]
    BY <1>4, TailScanned
  <1>7. Goods(Place)' = Goods(Place + 1)
    BY <1>4 DEF Goods
  <1>8. job'.processed = Cardinality(Goods(Place)')
    BY <1>7, TailScanned
  <1>9. job'.limit > 0 => job'.processed <= job'.limit
    BY <1>1 DEF LimitReached
  <1>10. job'.last => Listed' = Len(remote')
    BY <1>2 DEF Scan
  <1>11. Most' <= job'.total
    BY <1>2 DEF Scan
  <1>12. counted' = Taken(Place)'
    <2>1. Taken(Place)' = Taken(Place + 1)
      BY <1>4, <1>7 DEF Taken
    <2> QED
      BY <2>1, TailScanned
  <1> QED
    BY <1>5, <1>6, <1>8, <1>9, <1>10, <1>11, <1>12 DEF Scan

\* A source that pages lists what comes next, and the page is the last one at the end.
LEMMA PageScanned ==
  ASSUME JobTyped, Scan, TarkovFetch
  PROVE  Scan'
  <1> DEFINE batch == IF job.limit > 0 THEN Least(PageSize, job.limit - job.processed) ELSE PageSize
             until == Least(Len(remote), job.offset + batch)
             page == SubSeq(remote, job.offset + 1, until)
             offset == job.offset + Len(page)
             last == Len(page) < batch
             pc == IF page = <<>> THEN "end" ELSE "entry"
  <1>1. job' = [job EXCEPT !.page = page, !.offset = offset, !.last = last, !.pc = pc]
    BY DEF TarkovFetch, JobTyped, Job
  <1>2. /\ job.offset \in Nat /\ job.processed \in Nat /\ job.limit \in Nat /\ PageSize \in Nat \ {0}
        /\ Len(remote) \in Nat /\ remote \in Seq(Key \union {Junk}) /\ job \in Job
    BY ScanTyped, RemoteTyped, ImportAssumption
  <1>3. /\ job.pc = "fetch" /\ job.game = "tarkov" /\ remote' = remote
        /\ job.page = <<>> /\ ~LimitReached /\ Most <= job.total
    BY DEF TarkovFetch, Scan
  <1>4. Listed = job.offset /\ Place = job.offset /\ job.offset <= Len(remote)
    BY <1>2, <1>3 DEF Listed, Place, Scan
  <1>5. batch \in Nat /\ batch >= 1
    BY <1>2, <1>3 DEF Least, LimitReached
  <1> HIDE DEF batch
  <1>6. /\ until \in Nat /\ job.offset <= until /\ until <= Len(remote)
        /\ until = Len(remote) \/ until = job.offset + batch
    BY <1>2, <1>4, <1>5 DEF Least
  <1> HIDE DEF until
  <1>7. /\ Len(page) = until - job.offset
        /\ \A i \in 1..Len(page) : page[i] = remote[job.offset + i]
    <2>1. job.offset + 1 \in Int /\ until \in Int
          /\ \A i \in (job.offset + 1)..until : remote[i] \in Key \union {Junk}
      BY <1>2, <1>6
    <2>2. Len(page) = IF job.offset + 1 <= until THEN until - (job.offset + 1) + 1 ELSE 0
      BY <2>1, SubSeqProperties
    <2>3. \A i \in 1..Len(page) : page[i] = remote[(job.offset + 1) + i - 1]
      BY <2>1, <2>2, SubSeqProperties
    <2>4. \A i \in 1..Len(page) : (job.offset + 1) + i - 1 = job.offset + i
      BY <1>2, <1>6, <2>2
    <2> QED
      BY <1>2, <1>6, <2>2, <2>3, <2>4
  <1> HIDE DEF page
  <1>8. page = <<>> => Len(page) = 0
    OBVIOUS
  <1>9. offset = until /\ Len(page) \in Nat
    BY <1>2, <1>6, <1>7
  <1>10. last => until = Len(remote)
    BY <1>2, <1>5, <1>6, <1>7
  <1>11. page = <<>> => until = Len(remote)
    BY <1>2, <1>5, <1>6, <1>7, <1>8
  <1>12. pc \in {"entry", "end"} /\ (pc = "end" => page = <<>>)
    OBVIOUS
  <1> HIDE DEF offset, last, pc
  <1>13. /\ job'.pc = pc /\ job'.page = page /\ job'.offset = until /\ job'.last = last
         /\ job'.game = "tarkov" /\ job'.limit = job.limit /\ job'.total = job.total
         /\ job'.processed = job.processed
    BY <1>1, <1>2, <1>3, <1>9 DEF Job
  <1>14. Listed' = until /\ Place' = job.offset /\ Most' = Most
    <2>1. Listed' = until
      BY <1>13 DEF Listed
    <2>2. Place' = job.offset
      <3>1. Len(job'.page) = until - job.offset
        BY <1>7, <1>13
      <3>2. Place' = until - (until - job.offset)
        BY <2>1, <3>1 DEF Place
      <3> QED
        BY <1>2, <1>6, <3>2
    <2>3. Most' = Most
      BY <1>3, <1>13 DEF Most, Wanted
    <2> QED
      BY <2>1, <2>2, <2>3
  <1>15. Goods(Place)' = Goods(Place)
    BY <1>3, <1>4, <1>14 DEF Goods
  <1>16. job'.processed = Cardinality(Goods(Place)') /\ (job'.limit > 0 => job'.processed <= job'.limit)
    BY <1>13, <1>15 DEF Scan
  <1>17. Len(job'.page) <= Listed' /\ Listed' <= Len(remote')
    BY <1>2, <1>3, <1>6, <1>7, <1>13, <1>14
  <1>18. \A i \in 1..Len(job'.page) : job'.page[i] = remote'[Place' + i]
    BY <1>3, <1>7, <1>13, <1>14
  <1>19. job'.last => Listed' = Len(remote')
    BY <1>3, <1>10, <1>13, <1>14
  <1>20. job'.pc = "end" => Place' = Len(remote')
    BY <1>2, <1>3, <1>6, <1>7, <1>8, <1>11, <1>12, <1>13, <1>14
  <1>21. Most' <= job'.total
    BY <1>3, <1>13, <1>14
  <1>22. counted' = Taken(Place)'
    BY <1>3, <1>15 DEF Scan, Taken, TarkovFetch
  <1> QED
    BY <1>12, <1>13, <1>16, <1>17, <1>18, <1>19, <1>20, <1>21, <1>22 DEF Scan

\* A source that does not page lists the whole catalogue, once.
LEMMA AllScanned ==
  ASSUME JobTyped, Scan, FetchAll
  PROVE  Scan'
  <1>1. /\ job \in Job /\ Len(remote) \in Nat /\ Cardinality(Goods(0)) = 0
        /\ job.limit \in Nat
    BY ScanTyped, GoodsCount
  <1>2. /\ job.pc = "fetch" /\ job.game # "tarkov" /\ remote' = remote
        /\ job.page = <<>> /\ ~job.last
    BY DEF FetchAll, Scan
  <1>3. /\ job'.pc = "entry" /\ job'.page = remote /\ job'.last = TRUE /\ job'.game = job.game
        /\ job'.limit = job.limit /\ job'.total = job.total /\ job'.processed = job.processed
    BY <1>1 DEF FetchAll, Job
  <1>4. Place = 0 /\ job.processed = 0 /\ counted = {}
    <2>1. Listed = 0 /\ Place = 0
      BY <1>2 DEF Listed, Place
    <2> QED
      BY <1>1, <2>1, TakenFirst DEF Scan
  <1>5. Listed' = Len(remote) /\ Place' = 0 /\ Most' = Most
    BY <1>1, <1>2, <1>3 DEF Listed, Place, Most, Wanted
  <1>6. Cardinality(Goods(Place)') = 0
    <2>1. Goods(Place)' = Goods(0)
      BY <1>2, <1>5 DEF Goods
    <2> QED
      BY <1>1, <2>1
  <1>7. Most' <= job'.total
    BY <1>2, <1>3, <1>5 DEF Scan
  <1>8. counted' = {} /\ Taken(Place)' = {}
    BY <1>4, <1>5 DEF FetchAll, Taken, Goods
  <1> QED
    BY <1>1, <1>2, <1>3, <1>4, <1>5, <1>6, <1>7, <1>8 DEF Scan

\* The steps that change nothing but where the job is.
LEMMA MoveScanned ==
  ASSUME JobTyped, Scan, NEW pc \in JobPC, JobTo(pc), remote' = remote, counted' = counted,
         \/ pc = "abort" \/ pc = "failed"
         \/ job.pc = "lock" /\ pc = "mark"
         \/ job.pc = "mark" /\ pc = "hint"
         \/ PageDone
         \/ job.pc = "entry" /\ pc = "upsert" /\ NextEntry(TRUE)
         \/ job.pc = "end" /\ pc = "completed"
  PROVE  Scan'
  <1>1. job \in Job /\ Listed \in Nat /\ Len(job.page) \in Nat
    BY ScanTyped
  <1>2. /\ job'.pc = pc /\ job'.page = job.page /\ job'.last = job.last
        /\ job'.offset = job.offset /\ job'.processed = job.processed
        /\ job'.limit = job.limit /\ job'.game = job.game /\ job'.total = job.total
    BY <1>1 DEF JobTo, Job
  <1>3. Listed' = Listed /\ Place' = Place /\ Most' = Most /\ (LimitReached' <=> LimitReached)
        /\ Goods(Place)' = Goods(Place) /\ Taken(Place)' = Taken(Place)
    BY <1>2 DEF Listed, Place, Most, Wanted, LimitReached, Goods, Taken
  <1>4. CASE PageDone
    <2>1. /\ job.pc = "entry" /\ (job.page = <<>> \/ LimitReached)
          /\ job'.pc = IF job.last \/ LimitReached THEN "end" ELSE "fetch"
      BY <1>1, <1>4 DEF PageDone, JobTo, Job
    <2>2. job.page = <<>> => Place = Listed
      BY <1>1 DEF Place
    <2> QED
      BY <1>2, <1>3, <2>1, <2>2 DEF Scan
  <1>5. CASE job.pc = "entry" /\ pc = "upsert" /\ NextEntry(TRUE)
    <2>1. Head(job.page) # Junk /\ ~LimitReached
      BY <1>5 DEF NextEntry
    <2> QED
      BY <1>2, <1>3, <1>5, <2>1 DEF Scan
  <1>6. CASE pc = "abort" \/ pc = "failed"
    BY <1>2, <1>3, <1>6 DEF Scan
  <1>7. CASE (job.pc = "lock" /\ pc = "mark") \/ (job.pc = "mark" /\ pc = "hint")
    BY <1>2, <1>3, <1>7 DEF Scan
  <1>8. CASE job.pc = "end" /\ pc = "completed"
    BY <1>2, <1>3, <1>8 DEF Scan
  <1> QED
    BY <1>4, <1>5, <1>6, <1>7, <1>8

\* A job is registered, with nothing listed.
LEMMA StartScanned ==
  ASSUME JobTyped, Scan, NEW r \in Imports, StartCatalogImport(r)
  PROVE  Scan'
  <1>1. /\ job' = [NoJob EXCEPT !.pc = "lock", !.game = r.game, !.langs = r.langs, !.limit = r.limit]
        /\ remote' = remote
    BY DEF StartCatalogImport
  <1>2. /\ job'.pc = "lock" /\ job'.page = <<>> /\ ~job'.last /\ job'.offset = 0
        /\ job'.processed = 0 /\ job'.limit = r.limit
    BY <1>1 DEF NoJob
  <1>3. r.limit \in Nat /\ Len(remote) \in Nat /\ Cardinality(Goods(0)) = 0
    BY ImportAssumption, GoodsCount, ScanTyped
  <1>4. Listed' = 0 /\ Place' = 0
    BY <1>2 DEF Listed, Place
  <1>5. Cardinality(Goods(Place)') = 0
    <2>1. Goods(Place)' = Goods(0)
      BY <1>1, <1>4 DEF Goods
    <2> QED
      BY <1>3, <2>1
  <1>6. counted = {}
    <2>1. Listed = 0
      BY DEF StartCatalogImport, Scan
    <2>2. Len(job.page) = 0
      BY ScanTyped DEF StartCatalogImport, Scan
    <2>3. Place = 0
      BY <2>1, <2>2 DEF Place
    <2> QED
      BY <2>3, TakenFirst DEF Scan
  <1>7. counted' = {} /\ Taken(Place)' = {}
    BY <1>4, <1>6 DEF StartCatalogImport, Taken, Goods
  <1> QED
    BY <1>1, <1>2, <1>3, <1>4, <1>5, <1>7 DEF Scan

LEMMA JobScanned ==
  ASSUME JobTyped, Scan, Carried, job' \in Job, JobStarts \/ JobStep
  PROVE  Scan'
  <1>1. job \in Job
    BY DEF JobTyped
  <1>2. CASE JobStarts
    BY <1>2, StartScanned DEF JobStarts
  <1>3. CASE TotalHint
    BY <1>3, HintScanned
  <1>4. CASE TarkovFetch
    BY <1>4, PageScanned
  <1>5. CASE FetchAll
    BY <1>5, AllScanned
  <1>6. CASE LockRefused \/ MarketFails
    BY <1>6, MoveScanned DEF LockRefused, MarketFails, JobPC
  <1>7. CASE TakeImportLock \/ MarkImportStarted
    BY <1>7, MoveScanned DEF TakeImportLock, MarkImportStarted, JobPC
  <1>8. CASE PageDone
    <2> DEFINE pc == IF job.last \/ LimitReached THEN "end" ELSE "fetch"
    <2>1. JobTo(pc) /\ pc \in JobPC /\ remote' = remote /\ counted' = counted
      BY <1>8 DEF PageDone, JobPC
    <2> HIDE DEF pc
    <2> QED
      BY <1>8, <2>1, MoveScanned
  <1>9. CASE ImportEntry
    BY <1>9, MoveScanned DEF ImportEntry, NextEntry, JobPC
  <1>10. CASE JobEnds
    BY <1>10, MoveScanned DEF JobEnds, JobPC
  <1>11. CASE SkipEntry
    <2>1. /\ job.pc = "entry" /\ job.page # <<>> /\ ~LimitReached /\ Head(job.page) = Junk
          /\ remote' = remote /\ counted' = counted /\ job' = [job EXCEPT !.page = Tail(@)]
      BY <1>11 DEF SkipEntry, NextEntry
    <2>2. /\ job'.pc = "entry" /\ job'.page = Tail(job.page) /\ job'.last = job.last
          /\ job'.offset = job.offset /\ job'.processed = job.processed + 0
          /\ job'.limit = job.limit /\ job'.game = job.game /\ job'.total = job.total
      BY <1>1, <2>1 DEF Job
    <2> QED
      BY <2>1, <2>2, EntryScanned
  <1>12. CASE EntryDone
    <2>1. CASE call[Import].res # "ok"
      BY <1>12, <2>1, MoveScanned DEF EntryDone, JobPC
    <2>2. CASE call[Import].res = "ok"
      <3>1. /\ job.pc = "upsert" /\ job.page # <<>> /\ ~LimitReached /\ Head(job.page) # Junk
            /\ remote' = remote /\ counted' = counted \union {Head(job.page)}
            /\ job' = [job EXCEPT !.pc = "entry", !.processed = @ + 1, !.page = Tail(@)]
        BY <1>12, <2>2 DEF EntryDone, Scan, JobTyped, Carried
      <3>2. /\ job'.pc = "entry" /\ job'.page = Tail(job.page) /\ job'.last = job.last
            /\ job'.offset = job.offset /\ job'.processed = job.processed + 1
            /\ job'.limit = job.limit /\ job'.game = job.game /\ job'.total = job.total
        BY <1>1, <3>1 DEF Job
      <3> QED
        BY <3>1, <3>2, EntryScanned
    <2> QED
      BY <2>1, <2>2
  <1> QED
    BY <1>2, <1>3, <1>4, <1>5, <1>6, <1>7, <1>8, <1>9, <1>10, <1>11, <1>12 DEF JobStep, ImportStep

\* The call of an import remains the call for its entry until it is answered.
LEMMA CarriedStep == IngestInv /\ Carried /\ [Next]_vars => Carried'
  <1> SUFFICES ASSUME IngestInv, Carried, [Next]_vars, job'.pc = "upsert"
               PROVE  call'[Import].key = Head(job'.page)
    BY DEF Carried
  <1> USE Processes
  <1>1. CallsInv /\ job \in Job
    BY DEF IngestInv, JobTyped
  <1>2. CASE JobStarts \/ JobStep
    <2>1. ImportEntry
      BY <1>2, JobOnlySteps, EntryDoneMoves DEF JobOnly
    <2>2. PICK L \in Translated : UpsertItem(Import, Head(job.page), Head(job.page), L)
      BY <2>1 DEF ImportEntry
    <2>3. job'.page = job.page
      BY <1>1, <2>1 DEF ImportEntry, JobTo, Job
    <2>4. call'[Import].key = Head(job.page)
      BY <1>1, <2>2 DEF UpsertItem, Ask, NoCall, CallsInv, ItemsTyped
    <2> QED
      BY <2>3, <2>4
  <1>3. CASE job' = job /\ call'[Import].key = call[Import].key
    BY <1>3 DEF Carried
  <1>4. ASSUME NEW p \in Proc, CallStep(p) \/ CallFails(p)
        PROVE  job' = job /\ call'[Import].key = call[Import].key
    <2>1. Moved(p) /\ SameCall(p)
      BY <1>1, <1>4, StepMoves DEF CallStep, CallFails, CallsInv
    <2>2. \A q \in Proc \ {p} : call'[q] = call[q]
      BY <1>1, <2>1, MovedKeeps
    <2> QED
      BY <1>4, <2>1, <2>2 DEF SameCall, CallStep, CallFails
  <1>5. ASSUME NEW p \in Request, Serve(p) \/ RequestAnswered(p)
        PROVE  job' = job /\ call'[Import].key = call[Import].key
    <2>1. Moved(p)
      BY <1>1, <1>5, ServeMoves, AnsweredMoves DEF Serve, RequestAnswered, CallsInv
    <2>2. \A q \in Proc \ {p} : call'[q] = call[q]
      BY <1>1, <2>1, MovedKeeps
    <2> QED
      BY <1>5, <2>2 DEF Serve, RequestAnswered, importVars
  <1>6. CASE SyncNext \/ SyncDone
    <2>1. Moved(Sync) /\ job' = job
      BY <1>6, SyncNextMoves, SyncDoneMoves DEF importVars
    <2>2. \A q \in Proc \ {Sync} : call'[q] = call[q]
      BY <1>1, <2>1, MovedKeeps
    <2> QED
      BY <1>3, <2>1, <2>2
  <1>7. CASE SyncSearchToCatalog \/ SyncItemToCatalog \/ MarketRefuses
    BY <1>3, <1>7, SyncStarts DEF importVars, itemVars
  <1>8. CASE Market \/ UNCHANGED vars
    BY <1>3, <1>8 DEF Market, MarketChanges, vars, importVars, itemVars
  <1> QED
    BY <1>2, <1>3, <1>4, <1>5, <1>6, <1>7, <1>8 DEF Next

LEMMA ScanStep == IngestInv /\ ScanInv /\ Carried /\ [Next]_vars => ScanInv'
  <1> SUFFICES ASSUME IngestInv, ScanInv, Carried, [Next]_vars PROVE ScanInv'
    OBVIOUS
  <1>1. JobTyped /\ JobTyped'
    BY BaseStep DEF IngestInv
  <1>2. CASE JobStarts \/ JobStep
    <2>1. edits' = edits
      BY <1>2, JobOnlySteps, ImportEntryMoves, EntryDoneMoves DEF JobOnly
    <2> QED
      BY <1>1, <1>2, <2>1, JobScanned DEF ScanInv, JobTyped
  <1>3. CASE UNCHANGED <<remote, edits, job, counted>>
    BY <1>3 DEF ScanInv, Scan, Listed, Place, Most, Wanted, Goods, Taken, LimitReached
  <1>4. CASE Market
    <2>1. edits' # 0
      BY <1>1, <1>4 DEF Market, MarketChanges, JobTyped
    <2> QED
      BY <2>1 DEF ScanInv
  <1>5. ASSUME NEW p \in Proc, CallStep(p) \/ CallFails(p)
        PROVE  UNCHANGED <<remote, edits, job, counted>>
    BY <1>5 DEF CallStep, CallFails
  <1>6. ASSUME NEW p \in Request, Serve(p) \/ RequestAnswered(p)
        PROVE  UNCHANGED <<remote, edits, job, counted>>
    BY <1>6 DEF Serve, RequestAnswered, importVars
  <1>7. CASE SyncSearchToCatalog \/ SyncItemToCatalog \/ MarketRefuses
    BY <1>3, <1>7, SyncStarts DEF importVars
  <1>8. CASE SyncNext \/ SyncDone \/ UNCHANGED vars
    BY <1>3, <1>8, SyncNextMoves, SyncDoneMoves DEF importVars, vars
  <1> QED
    BY <1>2, <1>3, <1>4, <1>5, <1>6, <1>7, <1>8 DEF Next

(* While the market does not change, what an import has counted are the first
   entries worth it, each of them once, at the end up to its limit or the last,
   over however many pages; and its progress never goes beyond the total.  Pages
   neither overlap nor leave entries out, because the offset counts the entries
   listed. *)
THEOREM ImportCorrect == Spec => []ImportIsComplete
  <1>1. Init => ScanInv
    <2> SUFFICES ASSUME Init PROVE Scan
      BY DEF ScanInv
    <2>1. job = NoJob /\ JobTyped
      BY IngestInit DEF Init, ImportInit, IngestInv
    <2>2. Listed = 0 /\ Place = 0
      BY <2>1 DEF NoJob, Listed, Place
    <2>3. Len(remote) \in Nat /\ Cardinality(Goods(0)) = 0
      BY <2>1, ScanTyped, GoodsCount
    <2>4. counted = Taken(Place)
      BY <2>2, TakenFirst DEF Init, ImportInit
    <2> QED
      BY <2>1, <2>2, <2>3, <2>4 DEF Scan, NoJob
  <1>2. IngestInv /\ ScanInv => ImportIsComplete
    <2> SUFFICES ASSUME IngestInv, Scan PROVE ImportIsComplete
      BY DEF ScanInv, ImportIsComplete
    <2>1. JobTyped
      BY DEF IngestInv
    <2>2. /\ job.processed \in Nat /\ job.limit \in Nat /\ job.total \in Nat
          /\ Cardinality(Wanted) \in Nat /\ Len(remote) \in Nat
          /\ Wanted = Goods(Len(remote))
      BY <2>1, ScanTyped, GoodsCount
    <2>3. job.processed <= Cardinality(Wanted) /\ (job.limit > 0 => job.processed <= job.limit)
      <3>1. Place \in 0..Len(remote)
        BY <2>1, ScanTyped DEF Scan, Place
      <3> QED
        BY <2>1, <3>1, GoodsCount DEF Scan
    <2>4. job.pc = "completed" => LimitReached \/ job.processed = Cardinality(Wanted)
      BY <2>2 DEF Scan
    <2>5. job.pc \in {"entry", "upsert", "end", "completed"} => Most <= job.total
      BY DEF Scan
    <2>6. job.processed <= Most
      BY <2>2, <2>3 DEF Most, Least
    <2>7. job.pc = "completed" => job.processed = Most
      BY <2>2, <2>3, <2>4 DEF LimitReached, Most, Least
    <2>8. Most \in Nat
      BY <2>2 DEF Most, Least
    <2>9. /\ Goods(Place) \in SUBSET Wanted
          /\ \A i \in Goods(Place), j \in Wanted : j < i => j \in Goods(Place)
          /\ counted = {remote[i] : i \in Goods(Place)}
          /\ job.processed = Cardinality(Goods(Place))
      <3>1. Place \in 0..Len(remote)
        BY <2>1, ScanTyped DEF Scan, Place
      <3>2. \A i \in Wanted : i \in 1..Len(remote)
        BY <2>2 DEF Goods
      <3> QED
        BY <2>2, <3>1, <3>2 DEF Scan, Taken, Goods
    <2> QED
      BY <2>2, <2>5, <2>6, <2>7, <2>8, <2>9 DEF ImportIsComplete, Most
  <1>3. Init => Carried
    BY DEF Init, ImportInit, NoJob, Carried
  <1> QED
    BY <1>1, <1>2, <1>3, ScanStep, CarriedStep, BaseCorrect, PTL DEF Spec

-----------------------------------------------------------------------------
(* The store.  A call that has written its row keeps what its statement found
   until it commits: the row and the slug are nobody else's, and no two calls
   that are about to commit want the same of either. *)
Writing(p) == call[p].pc \in {"langs", "commit"}

Room(p) == (call[p].op = "create" => ~Stored(call[p].key)) /\ ~SlugTaken(p)

Apart(p, q) == call[p].key # call[q].key /\ NewSlug(p) # NewSlug(q)

CallShape(p) ==
    LET c == call[p] IN
    /\ c.pc = "answered" => c.res # "none"
    /\ c.op = "delete" => c.slug = NoSlug /\ c.langs = {} /\ c.active = "off"
    /\ c.pc = "readRow" /\ c.op # "get" => Stored(c.key)

WritersInv ==
    /\ \A p \in Proc : Writing(p) => Room(p)
    /\ \A p, q \in Proc : p # q /\ Writing(p) /\ Writing(q) => Apart(p, q)

SlugsApart ==
    \A k1, k2 \in Key : k1 # k2 /\ Stored(k1) /\ Stored(k2) => items[k1].slug # items[k2].slug

StoreInv == (\A p \in Proc : CallShape(p)) /\ WritersInv /\ SlugsApart

-----------------------------------------------------------------------------
(* What a step of a call may be: the request stays what it was, and the call
   goes on, is answered without a change of the items, or changes one of them. *)
SameRequest(p) ==
    /\ call'[p].op = call[p].op /\ call'[p].key = call[p].key /\ call'[p].slug = call[p].slug
    /\ call'[p].langs = call[p].langs /\ call'[p].active = call[p].active
    /\ \A q \in Proc \ {p} : call'[q] = call[q]

GoesOn(p) ==
    /\ items' = items
    /\ \/ call[p].pc \in {"begin", "next"} /\ call'[p].pc \in {"row", "next"}
       \/ /\ call[p].pc = "row" /\ call'[p].pc \in {"langs", "commit"}
          /\ call[p].op \in {"create", "upsert", "update"} /\ ~Blocked(p) /\ Room(p)
       \/ call[p].pc = "langs" /\ call'[p].pc = "commit"
       \/ call[p].pc = "readRow" /\ call'[p].pc = "readLangs"

GetsAnswer(p) ==
    /\ items' = items /\ call'[p].pc = "answered"
    /\ \/ call'[p].res = "error"
       \/ /\ call'[p].res = "conflict" /\ call[p].pc = "row"
          /\ \/ call[p].op = "create" /\ Stored(call[p].key)
             \/ call[p].op \in {"create", "update"} /\ SlugTaken(p)
       \/ /\ call'[p].res = "notfound" /\ ~Stored(call[p].key)
          /\ \/ call[p].pc = "row" /\ call[p].op \in {"update", "delete"}
             \/ call[p].pc = "readRow"
       \/ call'[p].res = "ok" /\ (call[p].pc = "readLangs" \/ call[p].op = "list")

Commits(p) ==
    /\ call[p].pc = "commit" /\ items' = [items EXCEPT ![call[p].key] = RowOf(p)]
    /\ \/ call'[p].pc = "readRow"
       \/ call'[p].pc = "answered" /\ call'[p].res = "error"

Deactivates(p) ==
    /\ call[p].pc = "row" /\ call[p].op = "delete" /\ Stored(call[p].key)
    /\ items' = Deactivated(call[p].key)
    /\ call'[p].pc = "answered" /\ call'[p].res \in {"ok", "error"}

LEMMA ToSame ==
  ASSUME ItemsTyped, NEW p \in Proc, NEW pc, To(p, pc)
  PROVE  SameRequest(p) /\ call'[p].pc = pc
  BY DEF To, ItemsTyped, Call, SameRequest

LEMMA EndsSame ==
  ASSUME ItemsTyped, NEW p \in Proc, NEW res, Ends(p, res) \/ EndsReleasing(p, res)
  PROVE  SameRequest(p) /\ call'[p].pc = "answered" /\ call'[p].res = res
  BY DEF EndsReleasing, Ends, ItemsTyped, Call, SameRequest

LEMMA StepKinds ==
  ASSUME ItemsTyped, NEW p \in Proc, CallInv(p), Step(p) \/ Fail(p)
  PROVE  /\ SameRequest(p) /\ call[p].pc \notin {"idle", "answered"}
         /\ GoesOn(p) \/ GetsAnswer(p) \/ Commits(p) \/ Deactivates(p)
  <1> DEFINE Goal == /\ SameRequest(p) /\ call[p].pc \notin {"idle", "answered"}
                     /\ GoesOn(p) \/ GetsAnswer(p) \/ Commits(p) \/ Deactivates(p)
  <1>1. CASE Begin(p)
    BY <1>1, ToSame DEF Begin, GoesOn
  <1>2. ASSUME RowWritten(p), call[p].pc = "row", ~Blocked(p), Room(p),
               call[p].op \in {"create", "upsert", "update"}
        PROVE  Goal
    <2>1. PICK pc \in {"langs", "commit"} : To(p, pc) /\ items' = items
      BY <1>2 DEF RowWritten
    <2> QED
      BY <1>2, <2>1, ToSame DEF GoesOn
  <1>3. CASE InsertRow(p)
    <2>1. CASE Stored(call[p].key) \/ SlugTaken(p)
      BY <1>3, <2>1, EndsSame DEF InsertRow, Statement, GetsAnswer
    <2>2. CASE ~(Stored(call[p].key) \/ SlugTaken(p))
      BY <1>2, <1>3, <2>2 DEF InsertRow, Statement, Room
    <2> QED
      BY <2>1, <2>2
  <1>4. CASE UpsertRow(p)
    <2>1. CASE SlugTaken(p)
      BY <1>4, <2>1, EndsSame DEF UpsertRow, Statement, GetsAnswer
    <2>2. CASE ~SlugTaken(p)
      BY <1>2, <1>4, <2>2 DEF UpsertRow, Statement, Room
    <2> QED
      BY <2>1, <2>2
  <1>5. CASE UpdateRow(p)
    <2>1. CASE ~Stored(call[p].key)
      BY <1>5, <2>1, EndsSame DEF UpdateRow, Statement, GetsAnswer
    <2>2. CASE Stored(call[p].key) /\ SlugTaken(p)
      BY <1>5, <2>2, EndsSame DEF UpdateRow, Statement, GetsAnswer
    <2>3. CASE Stored(call[p].key) /\ ~SlugTaken(p)
      BY <1>2, <1>5, <2>3 DEF UpdateRow, Statement, Room
    <2> QED
      BY <2>1, <2>2, <2>3
  <1>6. CASE DeactivateRow(p)
    <2>1. CASE Stored(call[p].key)
      BY <1>6, <2>1, EndsSame DEF DeactivateRow, Statement, Deactivates
    <2>2. CASE ~Stored(call[p].key)
      BY <1>6, <2>2, EndsSame DEF DeactivateRow, Statement, GetsAnswer
    <2> QED
      BY <2>1, <2>2
  <1>7. CASE WriteTranslations(p)
    BY <1>7, ToSame DEF WriteTranslations, GoesOn
  <1>8. CASE Commit(p)
    <2>1. SameRequest(p) /\ call'[p].pc = "readRow"
      BY <1>8 DEF Commit, ItemsTyped, Call, SameRequest
    <2> QED
      BY <1>8, <2>1 DEF Commit, Apply, Commits
  <1>9. CASE ReadRow(p)
    <2>1. CASE ~Stored(call[p].key)
      BY <1>9, <2>1, EndsSame DEF ReadRow, GetsAnswer
    <2>2. CASE Stored(call[p].key)
      <3>1. SameRequest(p) /\ call'[p].pc = "readLangs"
        BY <1>9, <2>2 DEF ReadRow, ItemsTyped, Call, SameRequest
      <3> QED
        BY <1>9, <3>1 DEF ReadRow, GoesOn
    <2> QED
      BY <2>1, <2>2
  <1>10. CASE ReadTranslations(p)
    <2>1. SameRequest(p) /\ call'[p].pc = "answered" /\ call'[p].res = "ok"
      BY <1>10 DEF ReadTranslations, ItemsTyped, Call, SameRequest
    <2> QED
      BY <1>10, <2>1 DEF ReadTranslations, GetsAnswer
  <1>11. CASE NextRow(p)
    <2>1. SameRequest(p) /\ call'[p].pc = "next"
      BY <1>11 DEF NextRow, ItemsTyped, Call, SameRequest
    <2> QED
      BY <1>11, <2>1 DEF NextRow, GoesOn
  <1>12. CASE RowsDone(p)
    BY <1>12, EndsSame DEF RowsDone, CallInv, GetsAnswer
  <1>13. CASE Fail(p)
    <2>1. SameRequest(p) /\ call'[p].pc = "answered" /\ call'[p].res = "error"
      BY <1>13, EndsSame DEF Fail
    <2> QED
      BY <1>13, <2>1 DEF Fail, Apply, Statement, GetsAnswer, Commits, Deactivates
  <1> QED
    BY <1>1, <1>3, <1>4, <1>5, <1>6, <1>7, <1>8, <1>9, <1>10, <1>11, <1>12, <1>13 DEF Step

(* A step of the system is a step of one call, or begins or ends one, or leaves
   the items and the calls alone. *)
Begins(p, c) ==
    /\ call[p].pc = "idle" /\ call' = [call EXCEPT ![p] = c] /\ items' = items
    /\ \/ NewCall(c)
       \/ /\ c \in Call /\ c.op = "list" /\ c.pc = "next" /\ c.res = "none"

LEMMA SystemKinds ==
  ASSUME IngestInv, [Next]_vars
  PROVE  \/ items' = items /\ call' = call
         \/ \E p \in Proc : Step(p) \/ Fail(p)
         \/ \E p \in Proc : Answered(p)
         \/ \E p \in Proc, c \in Call : Begins(p, c)
  <1> USE Processes
  <1> DEFINE New(p) == \E c \in Call : Begins(p, c)
  <1>1. ASSUME NEW p \in Proc, NEW c, NewCall(c), Ask(p, c) PROVE New(p)
    BY <1>1 DEF Begins, NewCall, Ask
  <1>2. ASSUME NEW p \in Proc, NEW found \in SUBSET Key, OpenRows(p, found) PROVE New(p)
    <2> DEFINE c == [NoCall EXCEPT !.op = "list", !.pc = "next", !.left = found]
    <2>1. c \in Call /\ c.op = "list" /\ c.pc = "next" /\ c.res = "none"
      BY DEF NoCall, Call, Op, PC, Result, Activity, NoSlug
    <2> QED
      BY <1>2, <2>1 DEF OpenRows, Begins
  <1>3. ASSUME NEW p \in Proc, NEW k \in Key, NEW L \in SUBSET Lang, UpsertItem(p, k, k, L)
        PROVE  New(p)
    BY <1>1, <1>3, UpsertAsks
  <1>4. ASSUME NEW p \in Request, Serve(p) PROVE p \in Proc /\ New(p)
    BY <1>1, <1>2, <1>4, RequestAsks, IngestAssumption DEF Serve
  <1>5. ASSUME NEW p \in Request, RequestAnswered(p) PROVE p \in Proc /\ Answered(p)
    BY <1>5, IngestAssumption DEF RequestAnswered
  <1>6. ASSUME NEW p \in Proc, CallStep(p) \/ CallFails(p) PROVE Step(p) \/ Fail(p)
    BY <1>6 DEF CallStep, CallFails
  <1>7. CASE JobStarts \/ JobStep
    <2>1. CASE ImportEntry
      <3>1. Head(job.page) \in Key
        BY <2>1, RemoteTyped DEF ImportEntry, NextEntry, IngestInv
      <3>2. PICK L \in Translated : UpsertItem(Import, Head(job.page), Head(job.page), L)
        BY <2>1 DEF ImportEntry
      <3>3. L \in SUBSET Lang
        BY DEF Translated, IngestInv, JobTyped, Job
      <3> QED
        BY <1>3, <3>1, <3>2, <3>3
    <2>2. CASE EntryDone
      BY <2>2 DEF EntryDone
    <2> QED
      BY <1>7, <2>1, <2>2, JobOnlySteps DEF JobOnly
  <1>8. CASE Market \/ UNCHANGED vars
    BY <1>8 DEF Market, MarketChanges, vars, itemVars
  <1>9. CASE SyncSearchToCatalog \/ SyncItemToCatalog \/ MarketRefuses
    BY <1>9, SyncStarts DEF itemVars
  <1>10. CASE SyncNext
    <2>1. sync.left \in Seq(Key) /\ sync.left # <<>>
      BY <1>10 DEF SyncNext, IngestInv, JobTyped, SyncCall
    <2>2. Head(sync.left) \in Key
      BY <2>1
    <2> QED
      BY <1>3, <1>10, <2>2 DEF SyncNext
  <1>11. CASE SyncDone
    BY <1>11 DEF SyncDone
  <1> QED
    BY <1>4, <1>5, <1>6, <1>7, <1>8, <1>9, <1>10, <1>11 DEF Next

-----------------------------------------------------------------------------
(* What a step of call p leaves to the other writers: their rows, the slugs
   they want, and the place of those slugs. *)
LEMMA CommitsRow ==
  ASSUME CallsInv, NEW p \in Proc, Commits(p)
  PROVE  /\ call[p].key \in Key /\ Writing(p) /\ items'[call[p].key].slug = NewSlug(p)
         /\ items'[call[p].key].slug # NoSlug
         /\ \A k \in Key \ {call[p].key} : items'[k] = items[k]
  <1> DEFINE row == RowOf(p)
  <1>1. /\ call[p].key \in Key /\ row.slug # NoSlug /\ row.slug = NewSlug(p)
        /\ items \in [Key -> ItemRow]
    BY CommitRow DEF Commits, CallsInv, ItemsTyped, RowOf
  <1>2. items' = [items EXCEPT ![call[p].key] = row]
    BY DEF Commits
  <1> HIDE DEF row
  <1> QED
    BY <1>1, <1>2 DEF Commits, Writing

LEMMA DeactivatesRow ==
  ASSUME CallsInv, NEW p \in Proc, Deactivates(p)
  PROVE  \A k \in Key : items'[k].slug = items[k].slug
  BY DEF Deactivates, Deactivated, CallsInv, ItemsTyped, ItemRow

LEMMA WriterKeys ==
  ASSUME CallsInv, NEW p \in Proc, Writing(p)
  PROVE  call[p].key \in Key
  BY DEF Writing, CallsInv, CallInv

\* A writer whose row and slug no other takes keeps its room.
LEMMA RoomStays ==
  ASSUME NEW q \in Proc, Room(q), call[q].key \in Key,
         call'[q].op = call[q].op, call'[q].key = call[q].key, call'[q].slug = call[q].slug,
         items'[call[q].key].slug = items[call[q].key].slug,
         \A k \in Key \ {call[q].key} :
             items'[k].slug = items[k].slug \/ items'[k].slug # NewSlug(q)
  PROVE  Room(q)' /\ NewSlug(q)' = NewSlug(q)
  <1>1. NewSlug(q)' = NewSlug(q)
    BY DEF NewSlug
  <1>2. ~SlugTaken(q)'
    BY <1>1 DEF Room, SlugTaken, Stored
  <1> QED
    BY <1>1, <1>2 DEF Room, Stored

LEMMA WritersStep ==
  ASSUME CallsInv, StoreInv, NEW p \in Proc, SameRequest(p),
         GoesOn(p) \/ GetsAnswer(p) \/ Commits(p) \/ Deactivates(p)
  PROVE  WritersInv'
  <1> DEFINE Keeps(q) == Room(q)' /\ NewSlug(q)' = NewSlug(q)
  <1>1. ASSUME NEW q \in Proc PROVE call'[q].op = call[q].op /\ call'[q].key = call[q].key
                                    /\ call'[q].slug = call[q].slug
    BY DEF SameRequest
  <1>2. ASSUME NEW q \in Proc, Writing(q)', ~Writing(q)
        PROVE  /\ q = p /\ items' = items /\ ~Blocked(p) /\ Room(p)
               /\ call[p].op \in {"create", "upsert", "update"} /\ call[p].key \in Key
    <2>1. q = p
      BY <1>2 DEF Writing, SameRequest
    <2>2. call'[p].pc \in {"langs", "commit"} /\ call[p].pc \notin {"langs", "commit"}
      BY <1>2, <2>1 DEF Writing
    <2>3. GoesOn(p) /\ call[p].pc = "row"
      BY <2>2 DEF GoesOn, GetsAnswer, Commits, Deactivates
    <2> QED
      BY <2>1, <2>2, <2>3 DEF GoesOn, CallsInv, CallInv
  <1>3. ASSUME NEW q \in Proc, Writing(q)' PROVE Keeps(q) /\ call[q].key \in Key
    <2>1. CASE ~Writing(q)
      BY <1>1, <1>2, <1>3, <2>1, RoomStays
    <2>2. CASE Writing(q)
      <3>1. Room(q) /\ call[q].key \in Key
        BY <2>2, WriterKeys DEF StoreInv, WritersInv
      <3>2. CASE items' = items
        BY <1>1, <3>1, <3>2, RoomStays
      <3>3. CASE Deactivates(p)
        BY <1>1, <3>1, <3>3, RoomStays, DeactivatesRow
      <3>4. CASE Commits(p)
        <4>1. q # p
          BY <1>3, <3>4 DEF Commits, Writing
        <4>2. Apart(p, q)
          BY <2>2, <3>4, <4>1, CommitsRow DEF StoreInv, WritersInv
        <4> QED
          BY <1>1, <3>1, <3>4, <4>2, RoomStays, CommitsRow DEF Apart
      <3> QED
        BY <3>2, <3>3, <3>4 DEF GoesOn, GetsAnswer
    <2> QED
      BY <2>1, <2>2
  <1>4. ASSUME NEW q \in Proc, NEW r \in Proc, q # r, Writing(q)', Writing(r)'
        PROVE  Apart(q, r)
    <2>1. CASE Writing(q) /\ Writing(r)
      BY <1>4, <2>1 DEF StoreInv, WritersInv
    <2>2. CASE ~Writing(q)
      BY <1>2, <1>4, <2>2 DEF Blocked, Writing, Apart
    <2>3. CASE ~Writing(r)
      BY <1>2, <1>4, <2>3 DEF Blocked, Writing, Apart
    <2> QED
      BY <2>1, <2>2, <2>3
  <1>5. ASSUME NEW q \in Proc, NEW r \in Proc, q # r, Writing(q)', Writing(r)'
        PROVE  Apart(q, r)'
    <2>1. Apart(q, r) /\ Keeps(q) /\ Keeps(r)
      BY <1>3, <1>4, <1>5
    <2> HIDE DEF Keeps
    <2>2. NewSlug(q)' = NewSlug(q) /\ NewSlug(r)' = NewSlug(r)
      BY <2>1 DEF Keeps
    <2> QED
      BY <1>1, <2>1, <2>2 DEF Apart
  <1> QED
    BY <1>3, <1>5 DEF WritersInv

LEMMA SlugsStep ==
  ASSUME CallsInv, StoreInv, NEW p \in Proc,
         GoesOn(p) \/ GetsAnswer(p) \/ Commits(p) \/ Deactivates(p)
  PROVE  SlugsApart'
  <1> USE DEF SlugsApart, StoreInv, Stored
  <1>1. CASE items' = items
    BY <1>1
  <1>2. CASE Deactivates(p)
    BY <1>2, DeactivatesRow
  <1>3. CASE Commits(p)
    <2>1. ~SlugTaken(p)
      BY <1>3, CommitsRow DEF WritersInv, Room
    <2> QED
      BY <1>3, <2>1, CommitsRow DEF SlugTaken
  <1> QED
    BY <1>1, <1>2, <1>3 DEF GoesOn, GetsAnswer

LEMMA ShapesStep ==
  ASSUME CallsInv, ItemsGrow, StoreInv, NEW p \in Proc, SameRequest(p),
         GoesOn(p) \/ GetsAnswer(p) \/ Commits(p) \/ Deactivates(p)
  PROVE  \A q \in Proc : CallShape(q)'
  <1>1. ASSUME NEW q \in Proc \ {p} PROVE CallShape(q)'
    <2>1. CallShape(q) /\ call'[q] = call[q] /\ CallInv(q)
      BY DEF StoreInv, SameRequest, CallsInv
    <2>2. call[q].pc = "readRow" => call[q].key \in Key
      BY <2>1 DEF CallInv, Answering
    <2> QED
      BY <2>1, <2>2 DEF CallShape, ItemsGrow, Stored
  <1>2. CallShape(p)'
    <2>1. CallShape(p)
      BY DEF StoreInv
    <2>2. call'[p].pc = "readRow" => Commits(p)
      BY DEF GoesOn, GetsAnswer, Deactivates
    <2>3. call'[p].pc = "readRow" => Stored(call[p].key)'
      BY <2>2, CommitsRow DEF SameRequest, Stored
    <2>4. call'[p].pc = "answered" => call'[p].res # "none"
      BY DEF GoesOn, GetsAnswer, Commits, Deactivates
    <2> QED
      BY <2>1, <2>3, <2>4 DEF CallShape, SameRequest, Stored
  <1> QED
    BY <1>1, <1>2

\* A call that begins or ends is no writer.
LEMMA OthersKeepStore ==
  ASSUME StoreInv, CallsInv, items' = items, NEW p \in Proc, NEW c \in Call,
         call' = [call EXCEPT ![p] = c], c.pc \notin {"langs", "commit", "answered"},
         c.op = "delete" => c.slug = NoSlug /\ c.langs = {} /\ c.active = "off",
         c.pc = "readRow" => c.op = "get"
  PROVE  StoreInv'
  <1>1. call'[p] = c /\ \A q \in Proc \ {p} : call'[q] = call[q]
    BY DEF CallsInv, ItemsTyped
  <1>2. ASSUME NEW q \in Proc PROVE CallShape(q)'
    BY <1>1 DEF CallShape, StoreInv, Stored
  <1>3. ASSUME NEW q \in Proc, Writing(q)'
        PROVE  q # p /\ Writing(q) /\ NewSlug(q)' = NewSlug(q) /\ Room(q)'
    <2>1. q # p /\ Writing(q) /\ call'[q] = call[q]
      BY <1>1, <1>3 DEF Writing
    <2> QED
      BY <2>1, WriterKeys, RoomStays DEF StoreInv, WritersInv
  <1>4. WritersInv'
    <2>1. ASSUME NEW q \in Proc, NEW r \in Proc, q # r, Writing(q)', Writing(r)'
          PROVE  Apart(q, r)'
      <3>1. Apart(q, r)
        BY <1>3, <2>1 DEF StoreInv, WritersInv
      <3> QED
        BY <1>1, <1>3, <2>1, <3>1 DEF Apart
    <2> QED
      BY <1>3, <2>1 DEF WritersInv
  <1>5. SlugsApart'
    BY DEF StoreInv, SlugsApart, Stored
  <1> QED
    BY <1>2, <1>4, <1>5 DEF StoreInv

LEMMA StoreStep == IngestInv /\ StoreInv /\ [Next]_vars => StoreInv'
  <1> SUFFICES ASSUME IngestInv, StoreInv, [Next]_vars PROVE StoreInv'
    OBVIOUS
  <1>1. CallsInv /\ ItemsGrow
    BY BaseStep DEF IngestInv
  <1>2. ASSUME NEW p \in Proc, Step(p) \/ Fail(p) PROVE StoreInv'
    <2>1. /\ SameRequest(p)
          /\ GoesOn(p) \/ GetsAnswer(p) \/ Commits(p) \/ Deactivates(p)
      BY <1>1, <1>2, StepKinds DEF CallsInv
    <2> QED
      BY <1>1, <2>1, WritersStep, SlugsStep, ShapesStep DEF StoreInv
  <1>3. ASSUME NEW p \in Proc, Answered(p) PROVE StoreInv'
    <2>1. NoCall \in Call /\ NoCall.pc = "idle" /\ NoCall.op = "none"
      BY DEF NoCall, Call, Op, PC, Result, Activity, NoSlug
    <2> QED
      BY <1>1, <1>3, <2>1, OthersKeepStore DEF Answered
  <1>4. ASSUME NEW p \in Proc, NEW c \in Call, Begins(p, c) PROVE StoreInv'
    BY <1>1, <1>4, OthersKeepStore DEF Begins, NewCall
  <1>5. CASE items' = items /\ call' = call
    BY <1>5 DEF StoreInv, WritersInv, SlugsApart, CallShape, Writing, Room, SlugTaken, Apart,
                NewSlug, Stored
  <1> QED
    BY <1>2, <1>3, <1>4, <1>5, SystemKinds

LEMMA StoreStart == Init => StoreInv
  BY DEF Init, ImportInit, ItemsInit, NoCall, Absent, StoreInv, WritersInv, SlugsApart, CallShape,
         Writing, Stored

LEMMA StoreCorrect == Spec => [](IngestInv /\ StoreInv)
  BY IngestInit, BaseStep, StoreStart, StoreStep, PTL DEF Spec

-----------------------------------------------------------------------------
(* What ItemStore sees of the items and of a call. *)
LEMMA SeenOfItem ==
  ASSUME NEW k \in Key
  PROVE  /\ ItemsSeen[k].slug = items[k].slug /\ ItemsSeen[k].active = items[k].active
         /\ ItemsSeen[k].langs = items[k].langs /\ (Store!Stored(k) <=> Stored(k))
  BY DEF ItemsSeen, Store!Stored, Store!NoSlug, Stored, NoSlug

LEMMA SeenOfCall ==
  ASSUME NEW p \in Proc
  PROVE  /\ CallsSeen[p] = Seen(call[p])
         /\ CallsSeen[p].op = call[p].op /\ CallsSeen[p].key = call[p].key
         /\ CallsSeen[p].slug = call[p].slug /\ CallsSeen[p].langs = call[p].langs
         /\ CallsSeen[p].active = call[p].active /\ CallsSeen[p].stage = StageOf(call[p])
  BY DEF CallsSeen, Seen

\* The stages, place by place.
LEMMA Stages ==
  ASSUME CallsInv, NEW p \in Proc
  PROVE  /\ call[p].pc = "idle" => StageOf(call[p]) = "none"
         /\ call[p].pc = "answered" => StageOf(call[p]) = call[p].res
         /\ call[p].pc \in {"begin", "row", "langs", "commit", "next"} => StageOf(call[p]) = "asked"
         /\ call[p].pc \in {"readRow", "readLangs"} =>
               StageOf(call[p]) = IF call[p].op = "get" THEN "asked" ELSE "done"
         /\ call[p].pc \in PC
  BY DEF StageOf, CallsInv, ItemsTyped, Call, PC

LEMMA SameSeen == items' = items => ItemsSeen' = ItemsSeen
  BY DEF ItemsSeen

\* A step of a call moves its stage, and no other call.
LEMMA StageMoves ==
  ASSUME NEW p \in Proc, SameRequest(p), NEW stage, StageOf(call[p])' = stage
  PROVE  Store!Goes(p, stage)
  <1>1. CallsSeen' = [q \in Proc |-> IF q = p THEN [Seen(call[p]) EXCEPT !.stage = stage]
                                     ELSE Seen(call[q])]
    <2>1. \A q \in Proc \ {p} : Seen(call[q])' = Seen(call[q])
      BY DEF SameRequest, Seen, StageOf
    <2>2. Seen(call[p])' = [Seen(call[p]) EXCEPT !.stage = stage]
      BY DEF SameRequest, Seen
    <2> QED
      BY <2>1, <2>2 DEF CallsSeen
  <1>2. CallsSeen = [q \in Proc |-> Seen(call[q])]
    BY DEF CallsSeen
  <1> QED
    BY <1>1, <1>2 DEF Store!Goes

\* What the store writes, in terms of the item and the call.
LEMMA WrittenFields ==
  ASSUME NEW p \in Proc, call[p].key \in Key
  PROVE  LET c == call[p]
             old == items[c.key]
         IN  Store!Written(CallsSeen[p]) =
                 [slug |-> IF c.slug = NoSlug THEN old.slug ELSE c.slug,
                  active |-> c.active = "on" \/ (c.active = "keep" /\ old.active),
                  langs |-> IF c.langs = {} THEN old.langs ELSE c.langs]
  <1> DEFINE c == CallsSeen[p]
             old == ItemsSeen[c.key]
  <1>1. /\ c.key = call[p].key /\ c.slug = call[p].slug /\ c.langs = call[p].langs
        /\ c.active = call[p].active
    BY SeenOfCall
  <1>2. /\ old.slug = items[call[p].key].slug /\ old.active = items[call[p].key].active
        /\ old.langs = items[call[p].key].langs
    BY <1>1, SeenOfItem
  <1>3. Store!Written(c) = [slug |-> IF c.slug = NoSlug THEN old.slug ELSE c.slug,
                            active |-> c.active = "on" \/ (c.active = "keep" /\ old.active),
                            langs |-> IF c.langs = {} THEN old.langs ELSE c.langs]
    BY DEF Store!Written, Store!NoSlug, NoSlug
  <1> HIDE DEF c, old
  <1> QED
    BY <1>1, <1>2, <1>3 DEF c

\* The slug a call wants is taken for the store when it is for the statement.
LEMMA SameTaken ==
  ASSUME CallsInv, NEW p \in Proc, call[p].key \in Key
  PROVE  /\ Store!Written(CallsSeen[p]).slug = NewSlug(p)
         /\ Store!Taken(CallsSeen[p]) <=> SlugTaken(p)
  <1>1. Store!Written(CallsSeen[p]).slug = NewSlug(p)
    <2> DEFINE w == Store!Written(CallsSeen[p])
               old == items[call[p].key]
               active == call[p].active = "on" \/ (call[p].active = "keep" /\ old.active)
               langs == IF call[p].langs = {} THEN old.langs ELSE call[p].langs
    <2>1. w = [slug |-> NewSlug(p), active |-> active, langs |-> langs]
      BY WrittenFields DEF NewSlug
    <2> HIDE DEF w, active, langs
    <2>2. w.slug = NewSlug(p)
      BY <2>1
    <2> QED
      BY <2>2 DEF w
  <1>2. \A k \in Key : ItemsSeen[k].slug = items[k].slug /\ (Store!Stored(k) <=> Stored(k))
    BY SeenOfItem
  <1> QED
    BY <1>1, <1>2, SeenOfCall DEF Store!Taken, SlugTaken

\* What a commit and a deactivation make of the item is what the store has written.
LEMMA CommitsWritten ==
  ASSUME CallsInv, NEW p \in Proc, Commits(p)
  PROVE  ItemsSeen' = [ItemsSeen EXCEPT ![call[p].key] = Store!Written(CallsSeen[p])]
  <1> DEFINE row == RowOf(p)
             k == call[p].key
  <1>1. k \in Key /\ items \in [Key -> ItemRow]
    BY CommitsRow DEF CallsInv, ItemsTyped
  <1>2. Store!Written(CallsSeen[p]) = [slug |-> row.slug, active |-> row.active, langs |-> row.langs]
    BY <1>1, WrittenFields DEF RowOf, NewSlug
  <1>3. items' = [items EXCEPT ![k] = row]
    BY DEF Commits
  <1> HIDE DEF row, k
  <1>4. \A j \in Key : items'[j] = IF j = k THEN row ELSE items[j]
    BY <1>1, <1>3
  <1> QED
    BY <1>1, <1>2, <1>4 DEF ItemsSeen, k

LEMMA DeactivatesWritten ==
  ASSUME CallsInv, StoreInv, NEW p \in Proc, Deactivates(p), call[p].key \in Key
  PROVE  ItemsSeen' = [ItemsSeen EXCEPT ![call[p].key] = Store!Written(CallsSeen[p])]
  <1> DEFINE k == call[p].key
  <1>1. call[p].slug = NoSlug /\ call[p].langs = {} /\ call[p].active = "off"
    BY DEF StoreInv, CallShape, Deactivates
  <1>2. Store!Written(CallsSeen[p]) = [slug |-> items[k].slug, active |-> FALSE, langs |-> items[k].langs]
    BY <1>1, WrittenFields
  <1>3. \A j \in Key : /\ items'[j].slug = items[j].slug /\ items'[j].langs = items[j].langs
                       /\ items'[j].active = IF j = k THEN FALSE ELSE items[j].active
    BY DEF Deactivates, Deactivated, CallsInv, ItemsTyped, ItemRow
  <1> HIDE DEF k
  <1>4. \A j \in Key : [slug |-> items[j].slug, active |-> items[j].active,
                        langs |-> items[j].langs]' =
                           IF j = k THEN Store!Written(CallsSeen[p]) ELSE ItemsSeen[j]
    BY <1>2, <1>3 DEF ItemsSeen
  <1> QED
    BY <1>4 DEF ItemsSeen, k

LEMMA StepRefines ==
  ASSUME IngestInv, StoreInv, NEW p \in Proc, Step(p) \/ Fail(p), CallsInv'
  PROVE  Store!Serve(p) \/ (ItemsSeen' = ItemsSeen /\ CallsSeen' = CallsSeen)
  <1> DEFINE c == CallsSeen[p]
  <1>1. CallsInv /\ CallInv(p) /\ CallShape(p)
    BY DEF IngestInv, CallsInv, StoreInv
  <1>2. /\ SameRequest(p) /\ call[p].pc \notin {"idle", "answered"}
        /\ GoesOn(p) \/ GetsAnswer(p) \/ Commits(p) \/ Deactivates(p)
    BY <1>1, StepKinds DEF CallsInv
  <1>3. /\ c.op = call[p].op /\ c.key = call[p].key /\ c.stage = StageOf(call[p])
        /\ StageOf(call[p]) \in {"asked", "done"}
    BY <1>1, <1>2, SeenOfCall, Stages DEF PC
  <1>4. call[p].op # "list" => call[p].key \in Key
    BY <1>1, <1>2 DEF CallInv
  <1>5. CASE GoesOn(p)
    <2>1. StageOf(call[p])' = StageOf(call[p])
      <3>1. call'[p].op = call[p].op
        BY <1>2 DEF SameRequest
      <3> QED
        BY <1>5, <3>1 DEF GoesOn, StageOf
    <2>2. Store!Goes(p, c.stage)
      BY <1>2, <1>3, <2>1, StageMoves
    <2>3. CallsSeen \in [Proc -> {CallsSeen[q] : q \in Proc}] /\ CallsSeen[p] = Seen(call[p])
      BY DEF CallsSeen
    <2>4. CallsSeen' = CallsSeen
      BY <2>2, <2>3 DEF Store!Goes, Seen
    <2> QED
      BY <1>5, <2>4, SameSeen DEF GoesOn
  <1>6. CASE GetsAnswer(p)
    <2>1. Store!Goes(p, call'[p].res) /\ ItemsSeen' = ItemsSeen
      BY <1>2, <1>6, StageMoves, SameSeen DEF GetsAnswer, StageOf
    <2>2. CASE call'[p].res = "error"
      BY <1>3, <2>1, <2>2 DEF Store!Serve, Store!Fails
    <2>3. CASE /\ call'[p].res = "conflict" /\ call[p].pc = "row"
               /\ \/ call[p].op = "create" /\ Stored(call[p].key)
                  \/ call[p].op \in {"create", "update"} /\ SlugTaken(p)
      <3>1. c.stage = "asked" /\ call[p].key \in Key
        BY <1>1, <1>3, <1>4, <2>3, Stages
      <3>2. (Store!Stored(c.key) <=> Stored(call[p].key)) /\ (Store!Taken(c) <=> SlugTaken(p))
        BY <1>1, <1>3, <3>1, SeenOfItem, SameTaken
      <3> QED
        BY <1>3, <2>1, <2>3, <3>1, <3>2 DEF Store!Serve, Store!Conflict
    <2>4. CASE /\ call'[p].res = "notfound" /\ ~Stored(call[p].key)
               /\ \/ call[p].pc = "row" /\ call[p].op \in {"update", "delete"}
                  \/ call[p].pc = "readRow"
      <3>1. call[p].op \in {"update", "delete", "get"} /\ c.stage = "asked"
        BY <1>1, <1>3, <2>4, Stages DEF CallShape
      <3>2. Store!Stored(c.key) <=> Stored(call[p].key)
        BY <1>3, <1>4, <3>1, SeenOfItem
      <3> QED
        BY <1>3, <2>1, <2>4, <3>1, <3>2 DEF Store!Serve, Store!NotFound
    <2>5. CASE call'[p].res = "ok" /\ call[p].pc = "readLangs"
      <3>1. call[p].op \in Answering /\ Stored(call[p].key) /\ call[p].key \in Key
        BY <1>1, <2>5 DEF CallInv, Answering
      <3>2. CASE call[p].op = "get"
        <4>1. c.stage = "asked" /\ Store!Stored(c.key)
          BY <1>1, <1>3, <2>5, <3>1, <3>2, Stages, SeenOfItem
        <4> QED
          BY <1>3, <2>1, <2>5, <3>2, <4>1 DEF Store!Serve, Store!ReadAnswered, Store!Read
      <3>3. CASE call[p].op # "get"
        <4>1. c.stage = "done"
          BY <1>1, <1>3, <2>5, <3>3, Stages
        <4> QED
          BY <2>1, <2>5, <4>1 DEF Store!Serve, Store!Confirm
      <3> QED
        BY <3>2, <3>3
    <2>6. CASE call'[p].res = "ok" /\ call[p].op = "list"
      <3>1. c.stage = "asked"
        BY <1>1, <1>2, <1>3, <2>6, Stages DEF CallInv, Answering, PC
      <3> QED
        BY <1>3, <2>1, <2>6, <3>1 DEF Store!Serve, Store!ReadAnswered, Store!Read
    <2> QED
      BY <1>6, <2>2, <2>3, <2>4, <2>5, <2>6 DEF GetsAnswer
  <1>7. CASE Commits(p)
    <2>1. /\ call[p].key \in Key /\ Room(p) /\ c.stage = "asked"
          /\ call[p].op \in {"create", "upsert"} \/ (call[p].op = "update" /\ Stored(call[p].key))
      BY <1>1, <1>3, <1>7, CommitsRow, Stages DEF StoreInv, WritersInv, CallInv, Writing, Commits
    <2>2. Store!Possible(c)
      BY <1>1, <1>3, <2>1, SeenOfItem, SameTaken DEF Store!Possible, Room
    <2>3. ItemsSeen' = [ItemsSeen EXCEPT ![c.key] = Store!Written(c)]
      BY <1>1, <1>3, <1>7, CommitsWritten
    <2>4. \E stage \in {"done", "ok", "error"} : Store!Goes(p, stage)
      <3>1. StageOf(call[p])' \in {"done", "error"}
        BY <1>2, <1>7, <2>1 DEF Commits, SameRequest, StageOf
      <3> QED
        BY <1>2, <3>1, StageMoves
    <2> QED
      BY <1>3, <2>1, <2>2, <2>3, <2>4 DEF Store!Serve, Store!TakesEffect, Store!Write
  <1>8. CASE Deactivates(p)
    <2>1. /\ call[p].key \in Key /\ c.stage = "asked" /\ call[p].op = "delete"
          /\ Stored(call[p].key) /\ call[p].slug = NoSlug
      BY <1>1, <1>3, <1>8, Stages DEF Deactivates, CallInv, CallShape
    <2>2. ~SlugTaken(p)
      BY <2>1 DEF StoreInv, SlugsApart, SlugTaken, NewSlug
    <2>3. Store!Possible(c)
      BY <1>1, <1>3, <2>1, <2>2, SeenOfItem, SameTaken DEF Store!Possible
    <2>4. ItemsSeen' = [ItemsSeen EXCEPT ![c.key] = Store!Written(c)]
      BY <1>1, <1>3, <1>8, <2>1, DeactivatesWritten
    <2>5. \E stage \in {"done", "ok", "error"} : Store!Goes(p, stage)
      <3>1. StageOf(call[p])' \in {"ok", "error"}
        BY <1>8 DEF Deactivates, StageOf
      <3> QED
        BY <1>2, <3>1, StageMoves
    <2> QED
      BY <1>3, <2>1, <2>3, <2>4, <2>5 DEF Store!Serve, Store!TakesEffect, Store!Write
  <1> QED
    BY <1>2, <1>5, <1>6, <1>7, <1>8

\* Beginning and ending a call are steps of the store as well.
LEMMA BeginsRefines ==
  ASSUME CallsInv, NEW p \in Proc, NEW d \in Call, Begins(p, d)
  PROVE  Store!Ask(p) /\ ItemsSeen' = ItemsSeen
  <1>1. StageOf(d) = "asked" /\ d.op # "none" /\ CallsSeen[p].stage = "none"
    BY SeenOfCall DEF Begins, NewCall, StageOf, Answering
  <1>2. CallsSeen' = [q \in Proc |-> IF q = p THEN Seen(d) ELSE Seen(call[q])]
    BY DEF Begins, CallsSeen, CallsInv, ItemsTyped
  <1>3. Seen(d) \in Store!Call /\ Seen(d).op # "none" /\ Seen(d).stage = "asked"
    BY <1>1 DEF Seen, Store!Call, Store!Write, Store!Read, Store!Answer, Store!NoSlug, NoSlug,
                Call, Op, Activity
  <1>4. CallsSeen'[p] = Seen(d) /\ CallsSeen' = [CallsSeen EXCEPT ![p] = Seen(d)]
    BY <1>2 DEF CallsSeen
  <1> QED
    BY <1>1, <1>3, <1>4, SameSeen DEF Store!Ask, Begins

LEMMA AnsweredRefines ==
  ASSUME CallsInv, StoreInv, NEW p \in Proc, Answered(p)
  PROVE  Store!Release(p)
  <1>1. CallsSeen[p].stage \in Store!Answer
    BY SeenOfCall DEF Answered, StageOf, StoreInv, CallShape, CallsInv, ItemsTyped, Call, Result,
                      Store!Answer
  <1>2. Seen(NoCall) = Store!NoCall
    BY DEF Seen, NoCall, StageOf, Store!NoCall, Store!NoSlug, NoSlug
  <1>3. CallsSeen' = [q \in Proc |-> IF q = p THEN Seen(NoCall) ELSE Seen(call[q])]
    BY DEF Answered, CallsSeen, CallsInv, ItemsTyped
  <1>4. CallsSeen' = [CallsSeen EXCEPT ![p] = Store!NoCall]
    BY <1>2, <1>3 DEF CallsSeen
  <1> QED
    BY <1>1, <1>4, SameSeen DEF Store!Release, Answered

LEMMA RefinesStep == IngestInv /\ StoreInv /\ [Next]_vars => [Store!Next]_(Store!vars)
  <1> SUFFICES ASSUME IngestInv, StoreInv, [Next]_vars
               PROVE  \/ \E p \in Proc : Store!Serve(p)
                      \/ ItemsSeen' = ItemsSeen /\ CallsSeen' = CallsSeen
    BY DEF Store!Next, Store!vars
  <1>1. CallsInv /\ CallsInv'
    BY BaseStep DEF IngestInv
  <1>2. ASSUME NEW p \in Proc, Step(p) \/ Fail(p)
        PROVE  Store!Serve(p) \/ (ItemsSeen' = ItemsSeen /\ CallsSeen' = CallsSeen)
    BY <1>1, <1>2, StepRefines
  <1>3. ASSUME NEW p \in Proc, Answered(p) PROVE Store!Serve(p)
    BY <1>1, <1>3, AnsweredRefines DEF Store!Serve
  <1>4. ASSUME NEW p \in Proc, NEW d \in Call, Begins(p, d) PROVE Store!Serve(p)
    BY <1>1, <1>4, BeginsRefines DEF Store!Serve
  <1>5. CASE items' = items /\ call' = call
    BY <1>5, SameSeen DEF CallsSeen, Seen, StageOf
  <1> QED
    BY <1>2, <1>3, <1>4, <1>5, SystemKinds

LEMMA RefinesStart == Init => Store!Init
  BY DEF Init, ImportInit, ItemsInit, Absent, NoCall, NoSlug, ItemsSeen, CallsSeen, Seen, StageOf,
         Store!Init, Store!Absent, Store!NoCall, Store!NoSlug

(* Requests, imports and syncs of any number, over any pool and cut off
   anywhere, leave the catalogue the store that ItemStore promises: every write
   has its one moment, every refusal its reason. *)
THEOREM CatalogImplementsStore == Spec => ImplementsStore
  BY StoreCorrect, RefinesStart, RefinesStep, PTL DEF Spec, ImplementsStore, Store!Spec

=============================================================================
