---------------------------- MODULE MCCatalogIngest ---------------------------
(***************************************************************************)
(* Two items, one request at a time beside an import job and a sync, and a *)
(* pool of two connections, of which the job's lock keeps one.             *)
(***************************************************************************)
EXTENDS CatalogIngest

CONSTANTS r1, job1, sync1, de, junk

MCProc == {r1, job1, sync1}

\* Two pages of two.
MCRemotes == {<<1, junk, 2>>, <<junk, 2>>}

MCImports ==
    {[game |-> "tarkov", langs |-> {de}, limit |-> 2],
     [game |-> "warframe", langs |-> {de}, limit |-> 1],
     [game |-> "tarkov", langs |-> {}, limit |-> 0],
     [game |-> "eve", langs |-> {}, limit |-> 0]}

MCUpdates == [slug : {NoSlug, 1}, langs : {{de}}, active : {"off"}]

MCSyncItems == {<<2, 1>>}

=============================================================================
