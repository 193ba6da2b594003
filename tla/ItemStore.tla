------------------------------- MODULE ItemStore -------------------------------
(***************************************************************************)
(* What catalog-service promises about the items, whatever its calls do in *)
(* between: a write happens at one moment between its request and its      *)
(* answer, wholly or not at all, and only where it may.  An answer without *)
(* error means that it has happened, a refusal that it has not and what    *)
(* stood in its way; an error means nothing.  What a read returns is left  *)
(* open.                                                                   *)
(***************************************************************************)
EXTENDS Naturals

CONSTANTS
    Key,         \* items, and slugs: numbers from 1
    Lang,        \* languages of translations
    Proc         \* callers, each with one call at a time

VARIABLES
    store,       \* the items
    calls        \* the call of each caller, and how far it is

vars == <<store, calls>>

NoSlug == 0
Item == [slug : Key \union {NoSlug}, active : BOOLEAN, langs : SUBSET Lang]
Absent == [slug |-> NoSlug, active |-> FALSE, langs |-> {}]
Stored(k) == store[k].slug # NoSlug

Write == {"create", "upsert", "update", "delete"}
Read == {"get", "list"}
Answer == {"ok", "conflict", "notfound", "error"}

\* An empty slug, no languages and "keep" leave what is there.
Call == [op : Write \union Read \union {"none"}, key : Key \union {0},
         slug : Key \union {NoSlug}, langs : SUBSET Lang, active : {"on", "off", "keep"},
         stage : {"none", "asked", "done"} \union Answer]

NoCall == [op |-> "none", key |-> 0, slug |-> NoSlug, langs |-> {}, active |-> "keep",
           stage |-> "none"]

\* The item once call c has written it.
Written(c) ==
    LET old == store[c.key]
    IN  [slug |-> IF c.slug = NoSlug THEN old.slug ELSE c.slug,
         active |-> c.active = "on" \/ (c.active = "keep" /\ old.active),
         langs |-> IF c.langs = {} THEN old.langs ELSE c.langs]

\* Another item has the slug.
Taken(c) == \E k \in Key \ {c.key} : Stored(k) /\ store[k].slug = Written(c).slug

Possible(c) ==
    /\ c.op = "create" => ~Stored(c.key)
    /\ c.op \in {"update", "delete"} => Stored(c.key)
    /\ ~Taken(c)

Goes(p, stage) == calls' = [calls EXCEPT ![p].stage = stage]

-----------------------------------------------------------------------------
\* Any call, said of the state it leads to: TLC need not enumerate them.
Ask(p) ==
    /\ calls[p].stage = "none"
    /\ LET c == calls'[p]
       IN  /\ c \in Call /\ c.op # "none" /\ c.stage = "asked"
           /\ calls' = [calls EXCEPT ![p] = c]
    /\ UNCHANGED store

(* The one moment of a write.  Its answer may be on the way already, or lost. *)
TakesEffect(p) ==
    LET c == calls[p]
    IN  /\ c.stage = "asked" /\ c.op \in Write /\ Possible(c)
        /\ store' = [store EXCEPT ![c.key] = Written(c)]
        /\ \E stage \in {"done", "ok", "error"} : Goes(p, stage)

Confirm(p) == calls[p].stage = "done" /\ Goes(p, "ok") /\ UNCHANGED store

\* Only what is true at that moment refuses a call.
Conflict(p) ==
    LET c == calls[p]
    IN  /\ c.stage = "asked"
        /\ \/ c.op = "create" /\ Stored(c.key)
           \/ c.op \in {"create", "update"} /\ Taken(c)
        /\ Goes(p, "conflict") /\ UNCHANGED store

NotFound(p) ==
    /\ calls[p].stage = "asked" /\ calls[p].op \in {"update", "delete", "get"}
    /\ ~Stored(calls[p].key)
    /\ Goes(p, "notfound") /\ UNCHANGED store

ReadAnswered(p) ==
    /\ calls[p].stage = "asked" /\ calls[p].op \in Read
    /\ calls[p].op = "get" => Stored(calls[p].key)
    /\ Goes(p, "ok") /\ UNCHANGED store

Fails(p) == calls[p].stage \in {"asked", "done"} /\ Goes(p, "error") /\ UNCHANGED store

Release(p) ==
    /\ calls[p].stage \in Answer
    /\ calls' = [calls EXCEPT ![p] = NoCall] /\ UNCHANGED store

Serve(p) ==
    \/ Ask(p) \/ TakesEffect(p) \/ Confirm(p) \/ Conflict(p) \/ NotFound(p)
    \/ ReadAnswered(p) \/ Fails(p) \/ Release(p)

Init == store = [k \in Key |-> Absent] /\ calls = [p \in Proc |-> NoCall]

Next == \E p \in Proc : Serve(p)

Spec == Init /\ [][Next]_vars

=============================================================================
