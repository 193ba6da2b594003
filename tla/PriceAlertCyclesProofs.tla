------------------------ MODULE PriceAlertCyclesProofs ------------------------
(***************************************************************************)
(* Theorems about what the cycles of PriceAlerts mail, for any users,      *)
(* rows, prices and replicas, any clock and any number of edits and        *)
(* failures: how often a change or a digest is mailed again, and in which  *)
(* order prices are told.                                                  *)
(***************************************************************************)
EXTENDS PriceAlertsProofs

-----------------------------------------------------------------------------
(* What a step does to a run. *)
Beside(r) == \A s \in Runner \ {r} : run'[s] = run[s]

AtWork(r) == run[r].pc \notin {"idle", "start"}

Blank(l) == (\A w \in Watch : l.pend[w] = NoPrice) /\ l.left = {} /\ l.due = {}

LEMMA Went ==
  ASSUME AlertInv, NEW r \in Runner, NEW l, Goto(r, l)
  PROVE  run'[r] = l /\ Beside(r)
  BY DEF Goto, AlertInv, Typed, Beside

LEMMA WentIdle ==
  ASSUME AlertInv, NEW r \in Runner, Goto(r, Idle)
  PROVE  Beside(r) /\ run'[r].pc = "idle" /\ Blank(run'[r])
  <1>1. run'[r] = Idle /\ Beside(r)
    BY Went
  <1> QED
    BY <1>1 DEF Idle, Blank

LEMMA ServedEffect ==
  ASSUME AlertInv, NEW r \in Runner, NEW u, Served(r, u)
  PROVE  /\ Beside(r)
         /\ run'[r].pc = "scan" /\ run'[r].left = {} /\ run'[r].due = run[r].due \ {u}
         /\ run'[r].mode = run[r].mode /\ run'[r].at = run[r].at
         /\ run'[r].locked = run[r].locked
         /\ \A w \in Watch : run'[r].pend[w] = IF Owner[w] = u THEN NoPrice ELSE run[r].pend[w]
  <1> DEFINE pend == [w \in Watch |-> IF Owner[w] = u THEN NoPrice ELSE run[r].pend[w]]
             due == run[r].due \ {u}
             l == [run[r] EXCEPT !.pc = "scan", !.user = NoUser, !.left = {},
                                 !.due = due, !.pend = pend]
  <1>1. run[r] \in Run
    BY RunOf DEF AlertInv
  <1>2. Goto(r, l)
    BY <1>1 DEF Served, Run
  <1> HIDE DEF pend, due
  <1>3. /\ l.pc = "scan" /\ l.left = {} /\ l.due = due /\ l.pend = pend
        /\ l.mode = run[r].mode /\ l.at = run[r].at /\ l.locked = run[r].locked
    BY <1>1 DEF Run
  <1> HIDE DEF l
  <1>4. run'[r] = l /\ Beside(r)
    BY <1>2, Went
  <1> QED
    BY <1>3, <1>4 DEF pend, due

LEMMA ListedEffect ==
  ASSUME AlertInv, NEW r \in Runner, NEW changed \in BOOLEAN, Listed(r, changed),
         run[r].todo # {}
  PROVE  /\ Beside(r)
         /\ run'[r].pc = "scan" /\ run'[r].left = run[r].left
         /\ run'[r].mode = run[r].mode /\ run'[r].at = run[r].at
         /\ run'[r].locked = run[r].locked
         /\ \A u \in run'[r].due : u \in run[r].due \/ (/\ run[r].mode[u] = "daily_digest"
                                                       /\ DigestDue(r, u))
         /\ \A w \in Watch : \/ run'[r].pend[w] = run[r].pend[w]
                             \/ /\ w = First(run[r].todo) /\ changed
                                /\ run'[r].pend[w] = run[r].seen
  <1> DEFINE w == First(run[r].todo)
             u == Owner[w]
             isDue == run[r].mode[u] = "daily_digest" /\ DigestDue(r, u)
             mailed == changed /\ (run[r].mode[u] = "immediate" \/ isDue)
             todo == run[r].todo \ {w}
             due == IF isDue THEN run[r].due \union {u} ELSE run[r].due
             pend == [run[r].pend EXCEPT ![w] = IF mailed THEN run[r].seen ELSE @]
             l == [run[r] EXCEPT !.pc = "scan", !.todo = todo, !.seen = NoPrice,
                                 !.due = due, !.pend = pend]
  <1>1. run[r] \in Run
    BY RunOf DEF AlertInv
  <1>2. Goto(r, l)
    BY <1>1 DEF Listed, Run
  <1>3. w \in Watch
    BY FirstIn, RunOf DEF AlertInv
  <1> HIDE DEF w
  <1>4. \A x \in due : x \in run[r].due \/ (run[r].mode[x] = "daily_digest" /\ DigestDue(r, x))
    OBVIOUS
  <1>5. \A v \in Watch : pend[v] = run[r].pend[v] \/ (v = w /\ changed /\ pend[v] = run[r].seen)
    <2> HIDE DEF isDue
    <2> QED
      BY <1>3, RunOf DEF AlertInv
  <1> HIDE DEF pend, due, todo
  <1>6. /\ l.pc = "scan" /\ l.left = run[r].left /\ l.due = due /\ l.pend = pend
        /\ l.mode = run[r].mode /\ l.at = run[r].at /\ l.locked = run[r].locked
    BY <1>1 DEF Run
  <1> HIDE DEF l
  <1>7. run'[r] = l /\ Beside(r)
    BY <1>2, Went
  <1> QED
    BY <1>4, <1>5, <1>6, <1>7 DEF w

\* A dispatch begins to store what it has found for user u.
LEMMA StoringEffect ==
  ASSUME AlertInv, NEW r \in Runner, NEW u,
         \/ Goto(r, [run[r] EXCEPT !.pc = "store", !.user = u, !.left = PendingOf(r, u)])
         \/ /\ Goto(r, [run[r] EXCEPT !.pc = "store", !.left = PendingOf(r, u)])
            /\ run[r].user = u
  PROVE  /\ Beside(r)
         /\ run'[r].pc = "store" /\ run'[r].user = u /\ run'[r].left = PendingOf(r, u)
         /\ run'[r].pend = run[r].pend /\ run'[r].due = run[r].due
         /\ run'[r].mode = run[r].mode /\ run'[r].at = run[r].at
         /\ run'[r].locked = run[r].locked
  <1>1. run[r] \in Run
    BY RunOf DEF AlertInv
  <1> DEFINE left == PendingOf(r, u)
  <1> HIDE DEF left
  <1>2. ASSUME NEW l, Goto(r, l), l.pc = "store", l.user = u, l.left = left,
               l.pend = run[r].pend, l.due = run[r].due, l.mode = run[r].mode,
               l.at = run[r].at, l.locked = run[r].locked
        PROVE  /\ Beside(r)
               /\ run'[r].pc = "store" /\ run'[r].user = u /\ run'[r].left = left
               /\ run'[r].pend = run[r].pend /\ run'[r].due = run[r].due
               /\ run'[r].mode = run[r].mode /\ run'[r].at = run[r].at
               /\ run'[r].locked = run[r].locked
    BY <1>2, Went
  <1>3. CASE Goto(r, [run[r] EXCEPT !.pc = "store", !.user = u, !.left = left])
    <2> DEFINE l == [run[r] EXCEPT !.pc = "store", !.user = u, !.left = left]
    <2>1. /\ l.pc = "store" /\ l.user = u /\ l.left = left
          /\ l.pend = run[r].pend /\ l.due = run[r].due
          /\ l.mode = run[r].mode /\ l.at = run[r].at /\ l.locked = run[r].locked
      BY <1>1 DEF Run
    <2>2. Goto(r, l)
      BY <1>3
    <2> HIDE DEF l
    <2> QED
      BY <1>2, <2>1, <2>2 DEF left
  <1>4. CASE Goto(r, [run[r] EXCEPT !.pc = "store", !.left = left]) /\ run[r].user = u
    <2> DEFINE l == [run[r] EXCEPT !.pc = "store", !.left = left]
    <2>1. /\ l.pc = "store" /\ l.user = u /\ l.left = left
          /\ l.pend = run[r].pend /\ l.due = run[r].due
          /\ l.mode = run[r].mode /\ l.at = run[r].at /\ l.locked = run[r].locked
      BY <1>1, <1>4 DEF Run
    <2>2. Goto(r, l)
      BY <1>4
    <2> HIDE DEF l
    <2> QED
      BY <1>2, <2>1, <2>2 DEF left
  <1> QED
    BY <1>3, <1>4 DEF left

\* A state has been stored.
LEMMA StoredEffect ==
  ASSUME AlertInv, NEW r \in Runner, NEW w,
         Goto(r, [run[r] EXCEPT !.left = run[r].left \ {w}])
  PROVE  /\ Beside(r)
         /\ run'[r].left = run[r].left \ {w}
         /\ run'[r].pc = run[r].pc /\ run'[r].user = run[r].user
         /\ run'[r].pend = run[r].pend /\ run'[r].due = run[r].due
         /\ run'[r].mode = run[r].mode /\ run'[r].at = run[r].at
         /\ run'[r].locked = run[r].locked
  <1> DEFINE left == run[r].left \ {w}
             l == [run[r] EXCEPT !.left = left]
  <1>1. run[r] \in Run
    BY RunOf DEF AlertInv
  <1> HIDE DEF left
  <1>2. /\ l.left = left /\ l.pc = run[r].pc /\ l.user = run[r].user
        /\ l.pend = run[r].pend /\ l.due = run[r].due
        /\ l.mode = run[r].mode /\ l.at = run[r].at /\ l.locked = run[r].locked
    BY <1>1 DEF Run
  <1>3. Goto(r, l)
    BY DEF left
  <1> HIDE DEF l
  <1>4. run'[r] = l /\ Beside(r)
    BY <1>3, Went
  <1> QED
    BY <1>2, <1>4 DEF left

(* The steps between two dispatches that take nothing away. *)
LEMMA ScanEffect ==
  ASSUME AlertInv, NEW r \in Runner,
         \/ Start(r) \/ GetItem(r) \/ ReadPrice(r) \/ SkipItem(r)
         \/ \E u \in User : Contact(r, u)
  PROVE  /\ Beside(r)
         /\ run'[r].pc \in {"scan", "price", "compare", "send"}
         /\ run'[r].pend = run[r].pend /\ run'[r].due = run[r].due
         /\ run'[r].left = run[r].left /\ run'[r].at = run[r].at
         /\ run[r].pc \in {"start", "scan", "price"}
         /\ run[r].pc # "start" => /\ run'[r].mode = run[r].mode
                                   /\ run'[r].locked = run[r].locked
         /\ Start(r) => run'[r].locked = (r \in Sched)
         /\ \A u \in User : Contact(r, u) => run'[r].pc = "send" /\ run'[r].user = u
         /\ run'[r].pc = "send" => \E u \in User : Contact(r, u)
  <1>1. run[r] \in Run
    BY RunOf DEF AlertInv
  <1>2. CASE Start(r)
    <2> DEFINE mode == [u \in User |-> IF r \in Sched /\ \E w \in Subscribed : Owner[w] = u
                                       THEN pref[u].mode ELSE "immediate"]
               todo == Subscribed
               locked == r \in Sched
               l == [run[r] EXCEPT !.pc = "scan", !.locked = locked, !.todo = todo,
                                   !.mode = mode]
    <2>1. Goto(r, l) /\ run[r].pc = "start"
      BY <1>2 DEF Start, ListSubscriptions
    <2> HIDE DEF mode, todo, locked
    <2>2. /\ l.pc = "scan" /\ l.pend = run[r].pend /\ l.due = run[r].due
          /\ l.left = run[r].left /\ l.at = run[r].at /\ l.locked = locked
      BY <1>1 DEF Run
    <2> HIDE DEF l
    <2>3. run'[r] = l /\ Beside(r)
      BY <2>1, Went
    <2>4. \A u \in User : ~Contact(r, u)
      BY <2>1 DEF Contact, Turn
    <2> QED
      BY <2>1, <2>2, <2>3, <2>4 DEF locked
  <1>3. ASSUME NEW l, Goto(r, l), run[r].pc \in {"scan", "price"}, ~Start(r),
               run[r].pc = "scan" => run[r].todo # {},
               l.pc \in {"scan", "price", "compare"}, l.pend = run[r].pend,
               l.due = run[r].due, l.left = run[r].left, l.at = run[r].at,
               l.mode = run[r].mode, l.locked = run[r].locked
        PROVE  /\ Beside(r)
               /\ run'[r].pc \in {"scan", "price", "compare"}
               /\ run'[r].pend = run[r].pend /\ run'[r].due = run[r].due
               /\ run'[r].left = run[r].left /\ run'[r].at = run[r].at
               /\ run[r].pc \in {"scan", "price"}
               /\ run'[r].mode = run[r].mode /\ run'[r].locked = run[r].locked
               /\ ~Start(r) /\ \A u \in User : ~Contact(r, u)
    <2>1. run'[r] = l /\ Beside(r)
      BY <1>3, Went
    <2> QED
      BY <1>3, <2>1 DEF Contact, Turn
  <1>4. CASE ReadPrice(r)
    <2> DEFINE seen == prices[First(run[r].todo)]
               l == [run[r] EXCEPT !.pc = "compare", !.seen = seen]
    <2>1. Goto(r, l) /\ run[r].pc = "price" /\ ~Start(r)
      BY <1>4 DEF ReadPrice, Start
    <2> HIDE DEF seen
    <2>2. /\ l.pc = "compare" /\ l.pend = run[r].pend /\ l.due = run[r].due
          /\ l.left = run[r].left /\ l.at = run[r].at /\ l.mode = run[r].mode
          /\ l.locked = run[r].locked
      BY <1>1 DEF Run
    <2> HIDE DEF l
    <2> QED
      BY <1>3, <2>1, <2>2
  <1>5. CASE GetItem(r) /\ active[First(run[r].todo)]
    <2> DEFINE l == [run[r] EXCEPT !.pc = "price"]
    <2>1. Goto(r, l) /\ run[r].pc = "scan" /\ run[r].todo # {} /\ ~Start(r)
      BY <1>5 DEF GetItem, Scanning, Start
    <2>2. /\ l.pc = "price" /\ l.pend = run[r].pend /\ l.due = run[r].due
          /\ l.left = run[r].left /\ l.at = run[r].at /\ l.mode = run[r].mode
          /\ l.locked = run[r].locked
      BY <1>1 DEF Run
    <2> HIDE DEF l
    <2> QED
      BY <1>3, <2>1, <2>2
  <1>6. CASE SkipItem(r) \/ (GetItem(r) /\ ~active[First(run[r].todo)])
    <2> DEFINE todo == run[r].todo \ {First(run[r].todo)}
               l == [run[r] EXCEPT !.pc = "scan", !.todo = todo]
    <2>1. /\ Goto(r, l) /\ run[r].pc \in {"scan", "price"} /\ ~Start(r)
          /\ run[r].pc = "scan" => run[r].todo # {}
      BY <1>1, <1>6 DEF SkipItem, GetItem, Skipped, Scanning, Start, Run
    <2> HIDE DEF todo
    <2>2. /\ l.pc = "scan" /\ l.pend = run[r].pend /\ l.due = run[r].due
          /\ l.left = run[r].left /\ l.at = run[r].at /\ l.mode = run[r].mode
          /\ l.locked = run[r].locked
      BY <1>1 DEF Run
    <2> HIDE DEF l
    <2> QED
      BY <1>3, <2>1, <2>2
  <1>7. ASSUME NEW u \in User, Contact(r, u)
        PROVE  /\ Beside(r)
               /\ run'[r].pc = "send" /\ run'[r].user = u
               /\ run'[r].pend = run[r].pend /\ run'[r].due = run[r].due
               /\ run'[r].left = run[r].left /\ run'[r].at = run[r].at
               /\ run[r].pc = "scan" /\ run'[r].mode = run[r].mode
               /\ run'[r].locked = run[r].locked /\ ~Start(r)
    <2> DEFINE l == [run[r] EXCEPT !.pc = "send", !.user = u]
    <2>1. Goto(r, l) /\ run[r].pc = "scan" /\ ~Start(r)
      BY <1>7 DEF Contact, Turn, Start
    <2>2. /\ l.pc = "send" /\ l.user = u /\ l.pend = run[r].pend /\ l.due = run[r].due
          /\ l.left = run[r].left /\ l.at = run[r].at /\ l.mode = run[r].mode
          /\ l.locked = run[r].locked
      BY <1>1 DEF Run
    <2> HIDE DEF l
    <2>3. run'[r] = l /\ Beside(r)
      BY <2>1, Went
    <2> QED
      BY <2>1, <2>2, <2>3
  <1> QED
    BY <1>2, <1>4, <1>5, <1>6, <1>7

LEMMA FireEffect ==
  ASSUME AlertInv, NEW r \in Runner, Fire(r)
  PROVE  /\ Beside(r) /\ Blank(run'[r])
         /\ run[r].pc = "idle" /\ run'[r].pc = "start" /\ run'[r].at = now
  <1> DEFINE l == [Idle EXCEPT !.pc = "start", !.at = now]
  <1>1. run'[r] = l /\ Beside(r)
    BY Went DEF Fire
  <1> QED
    BY <1>1 DEF Fire, Idle, Blank

(* What Compare lists is a change of a state that is there. *)
LEMMA CompareEffect ==
  ASSUME AlertInv, NEW r \in Runner, Compare(r)
  PROVE  /\ Beside(r)
         /\ run'[r].pc \in {"scan", "baseline"} /\ run'[r].left = run[r].left
         /\ run'[r].pc = "baseline" => told[First(run'[r].todo)] = NoPrice
         /\ run[r].pc = "compare"
         /\ run'[r].mode = run[r].mode /\ run'[r].at = run[r].at
         /\ run'[r].locked = run[r].locked
         /\ \A u \in run'[r].due : u \in run[r].due \/ (/\ run[r].mode[u] = "daily_digest"
                                                       /\ DigestDue(r, u))
         /\ \A w \in Watch : \/ run'[r].pend[w] = run[r].pend[w]
                             \/ /\ run'[r].pend[w] # NoPrice /\ told[w] # NoPrice
                                /\ Changed(run'[r].pend[w], told[w])
  <1> DEFINE w == First(run[r].todo)
             p == run[r].seen
  <1>1. run[r].pc = "compare" /\ run[r].todo # {} /\ run[r] \in Run
    BY RunOf DEF Compare, AlertInv, Sound
  <1>2. CASE p # NoPrice /\ told[w] = NoPrice
    <2> DEFINE l == [run[r] EXCEPT !.pc = "baseline"]
    <2>1. Goto(r, l)
      BY <1>2 DEF Compare
    <2>2. /\ l.pc = "baseline" /\ l.left = run[r].left /\ l.todo = run[r].todo
          /\ l.pend = run[r].pend /\ l.due = run[r].due /\ l.at = run[r].at
          /\ l.mode = run[r].mode /\ l.locked = run[r].locked
      BY <1>1 DEF Run
    <2> HIDE DEF l
    <2>3. run'[r] = l /\ Beside(r)
      BY <2>1, Went
    <2> QED
      BY <1>1, <1>2, <2>2, <2>3
  <1>3. CASE ~(p # NoPrice /\ told[w] = NoPrice)
    <2> DEFINE changed == p # NoPrice /\ Changed(p, told[w])
    <2>1. Listed(r, changed) /\ changed \in BOOLEAN
      BY <1>3 DEF Compare
    <2>2. changed => p # NoPrice /\ told[w] # NoPrice /\ Changed(p, told[w])
      BY <1>3
    <2> HIDE DEF changed
    <2> QED
      BY <1>1, <2>1, <2>2, ListedEffect
  <1> QED
    BY <1>2, <1>3

-----------------------------------------------------------------------------
(* A run that is not at work holds nothing, a row that is not there has no
   state, and only finitely many rows have been deleted. *)
Gone == {w \in Watch : row[w] = "gone"}

RestInv ==
    /\ \A w \in Watch : ~Exists(w) => told[w] = NoPrice
    /\ \A r \in Runner : ~AtWork(r) => Blank(run[r])
    /\ IsFiniteSet(Gone)

LEMMA IdleBlank == Blank(Idle)
  BY DEF Idle, Blank

\* A step of run r.
LEMMA RestOfRun ==
  ASSUME AlertInv, RestInv, NEW r \in Runner, Beside(r), AtWork(r)' \/ Blank(run'[r]),
         row' = row,
         \A w \in Watch : told'[w] = told[w] \/ Exists(w)
  PROVE  RestInv'
  <1>1. \A s \in Runner : ~AtWork(s)' => Blank(run'[s])
    BY DEF RestInv, Beside, AtWork
  <1>2. \A s \in Runner : (~AtWork(s) => Blank(run[s]))'
    BY <1>1
  <1>3. \A w \in Watch : ~Exists(w)' => told'[w] = NoPrice
    BY DEF RestInv, Exists
  <1>4. Gone' = Gone
    BY DEF Gone
  <1> QED
    BY <1>2, <1>3, <1>4 DEF RestInv

LEMMA StoreSteps ==
  ASSUME AlertInv, NEW r \in Runner, Store(r)
  PROVE  \E w \in run[r].left :
            /\ w \in Watch /\ Owner[w] = run[r].user /\ run[r].pend[w] \in Price
            /\ \/ /\ Exists(w)
                  /\ told' = [told EXCEPT ![w] = run[r].pend[w]]
                  /\ Goto(r, [run[r] EXCEPT !.left = run[r].left \ {w}])
               \/ /\ ~Exists(w)
                  /\ Served(r, run[r].user) /\ told' = told
  <1> DEFINE w == First(run[r].left)
  <1>1. run[r].left \in SUBSET Watch /\ run[r].left # {} /\ run[r] \in Run
    BY RunOf DEF Store, AlertInv
  <1>2. w \in run[r].left /\ w \in Watch
    BY <1>1, FirstIn
  <1>3. Owner[w] = run[r].user /\ run[r].pend[w] \in Price
    <2>1. Owner[w] = run[r].user /\ run[r].pend[w] # NoPrice
      BY <1>2 DEF AlertInv, Sound
    <2> QED
      BY <1>2, <2>1, RunOf DEF AlertInv
  <1>4. \/ /\ Exists(w)
           /\ told' = [told EXCEPT ![w] = run[r].pend[w]]
           /\ Goto(r, [run[r] EXCEPT !.left = run[r].left \ {w}])
        \/ /\ ~Exists(w)
           /\ Served(r, run[r].user) /\ told' = told
    BY <1>1 DEF Store, Run
  <1> HIDE DEF w
  <1> QED
    BY <1>2, <1>3, <1>4

LEMMA BaselineSteps ==
  ASSUME AlertInv, NEW r \in Runner, Baseline(r)
  PROVE  LET w == First(run[r].todo)
         IN  /\ run[r].pc = "baseline" /\ run[r].todo # {} /\ w \in Watch
             /\ run[r].seen \in Price
             /\ \/ /\ Exists(w) /\ told' = [told EXCEPT ![w] = run[r].seen]
                   /\ Listed(r, FALSE)
                \/ Goto(r, Idle) /\ told' = told
  <1>1. run[r].pc = "baseline" /\ run[r].todo # {} /\ run[r].seen # NoPrice
    BY DEF Baseline, AlertInv, Sound
  <1>2. First(run[r].todo) \in Watch /\ run[r].seen \in Price
    BY <1>1, FirstIn, RunOf DEF AlertInv
  <1> QED
    BY <1>1, <1>2 DEF Baseline

LEMMA RestRunStep ==
  ASSUME AlertInv, RestInv, NEW r \in Runner, Fire(r) \/ Proceed(r) \/ Fail(r)
  PROVE  RestInv'
  <1>1. CASE Fire(r)
    BY <1>1, FireEffect, RestOfRun DEF Fire, environment, tables
  <1>2. CASE \/ Start(r) \/ GetItem(r) \/ ReadPrice(r) \/ SkipItem(r)
             \/ (\E u \in User : Contact(r, u))
    <2>1. Beside(r) /\ AtWork(r)'
      BY <1>2, ScanEffect DEF AtWork
    <2>2. UNCHANGED <<row, told>>
      BY <1>2 DEF Start, GetItem, ReadPrice, SkipItem, Contact, environment, tables
    <2> QED
      BY <2>1, <2>2, RestOfRun
  <1>3. CASE LockBusy(r) \/ Finish(r) \/ Abort(r)
    <2>1. Goto(r, Idle) /\ UNCHANGED <<row, told>>
      BY <1>3 DEF LockBusy, Finish, Abort, environment, tables
    <2> QED
      BY <2>1, WentIdle, RestOfRun
  <1>4. CASE Compare(r)
    <2>1. Beside(r) /\ AtWork(r)'
      BY <1>4, CompareEffect DEF AtWork
    <2> QED
      BY <1>4, <2>1, RestOfRun DEF Compare, environment, tables
  <1>5. CASE Baseline(r)
    <2> DEFINE w == First(run[r].todo)
    <2>1. /\ run[r].todo # {} /\ w \in Watch
          /\ \/ /\ Exists(w) /\ told' = [told EXCEPT ![w] = run[r].seen]
                /\ Listed(r, FALSE)
             \/ Goto(r, Idle) /\ told' = told
      BY <1>5, BaselineSteps
    <2>2. Beside(r) /\ (AtWork(r)' \/ Blank(run'[r]))
      BY <2>1, ListedEffect, WentIdle DEF AtWork
    <2>3. row' = row /\ \A v \in Watch : told'[v] = told[v] \/ Exists(v)
      <3> HIDE DEF w
      <3> QED
        BY <1>5, <2>1 DEF Baseline, environment, AlertInv, Typed
    <2> QED
      BY <2>2, <2>3, RestOfRun
  <1>6. ASSUME NEW u \in User, NoContact(r, u) PROVE RestInv'
    <2>1. Beside(r) /\ AtWork(r)'
      BY <1>6, StoringEffect DEF NoContact, AtWork
    <2> QED
      BY <1>6, <2>1, RestOfRun DEF NoContact, environment, tables
  <1>7. ASSUME NEW u, Served(r, u), UNCHANGED <<row, told>> PROVE RestInv'
    <2>1. Beside(r) /\ AtWork(r)'
      BY <1>7, ServedEffect DEF AtWork
    <2> QED
      BY <1>7, <2>1, RestOfRun
  <1>8. CASE Send(r)
    <2>1. Beside(r) /\ AtWork(r)'
      BY <1>8, StoringEffect DEF Send, AtWork
    <2> QED
      BY <1>8, <2>1, RestOfRun DEF Send, environment, tables
  <1>9. CASE Store(r)
    <2>1. PICK w \in Watch :
             \/ /\ Exists(w)
                /\ told' = [told EXCEPT ![w] = run[r].pend[w]]
                /\ Goto(r, [run[r] EXCEPT !.left = run[r].left \ {w}])
             \/ /\ ~Exists(w)
                /\ Served(r, run[r].user) /\ told' = told
      BY <1>9, StoreSteps
    <2>2. row' = row /\ run[r].pc = "store"
      BY <1>9 DEF Store, environment
    <2>3. Beside(r) /\ AtWork(r)'
      BY <2>1, <2>2, StoredEffect, ServedEffect DEF AtWork
    <2>4. \A v \in Watch : told'[v] = told[v] \/ Exists(v)
      BY <2>1 DEF AlertInv, Typed
    <2> QED
      BY <2>2, <2>3, <2>4, RestOfRun
  <1>10. CASE SendFails(r) \/ StoreFails(r) \/ EndDispatch(r)
    <2>1. Served(r, run[r].user) /\ UNCHANGED <<row, told>>
      BY <1>10 DEF SendFails, StoreFails, EndDispatch, environment, tables
    <2> QED
      BY <1>7, <2>1
  <1>11. ASSUME NEW u \in User, EmptyDigest(r, u) PROVE RestInv'
    BY <1>7, <1>11 DEF EmptyDigest, environment
  <1> QED
    BY <1>1, <1>2, <1>3, <1>4, <1>5, <1>6, <1>8, <1>9, <1>10, <1>11 DEF Proceed, Fail

LEMMA RestOutside ==
  ASSUME AlertInv, RestInv, Edit \/ (\E w \in Watch, v \in Value : CollectPrice(w, v)) \/ Tick
  PROVE  RestInv'
  <1>1. ASSUME run' = run PROVE \A r \in Runner : (~AtWork(r) => Blank(run[r]))'
    BY <1>1 DEF RestInv, AtWork
  <1>2. ASSUME run' = run, UNCHANGED <<row, told>> PROVE RestInv'
    <2>1. Gone' = Gone /\ \A w \in Watch : (~Exists(w) => told[w] = NoPrice)'
      BY <1>2 DEF Gone, RestInv, Exists
    <2> QED
      BY <1>1, <1>2, <2>1 DEF RestInv
  <1>3. ASSUME NEW w \in Watch, AddWatchlistItem(w) \/ UpdateWatchlistItemNotification(w)
        PROVE  RestInv'
    <2>1. /\ run' = run /\ told' = told
          /\ row' \in [Watch -> {"new", "on", "off", "gone"}]
          /\ \A v \in Watch : (v # w => row'[v] = row[v])
          /\ row[w] # "gone" /\ row'[w] \in {"on", "off"}
      BY <1>3
      DEF AddWatchlistItem, UpdateWatchlistItemNotification, AlertInv, Typed, tables, Exists
    <2>2. Gone' = Gone /\ \A v \in Watch : (~Exists(v) => told[v] = NoPrice)'
      BY <2>1 DEF Gone, RestInv, Exists
    <2> QED
      BY <1>1, <2>1, <2>2 DEF RestInv
  <1>4. ASSUME NEW w \in Watch, DeleteWatchlistItem(w) PROVE RestInv'
    <2>1. /\ run' = run /\ told' = [told EXCEPT ![w] = NoPrice]
          /\ row' = [row EXCEPT ![w] = "gone"]
      BY <1>4 DEF DeleteWatchlistItem
    <2>2. Gone' = Gone \union {w}
      BY <2>1 DEF Gone, AlertInv, Typed
    <2>3. IsFiniteSet(Gone)'
      BY <2>2, FS_AddElement DEF RestInv
    <2>4. \A v \in Watch : (~Exists(v) => told[v] = NoPrice)'
      BY <2>1 DEF RestInv, Exists, AlertInv, Typed
    <2> QED
      BY <1>1, <2>1, <2>3, <2>4 DEF RestInv
  <1>5. CASE \/ \E u \in User, enabled \in BOOLEAN, mode \in Mode :
                   UpsertPreferences(u, enabled, mode)
             \/ \E u \in User : VerifyAddress(u)
             \/ \E w \in Watch : SetItemActive(w)
             \/ \E w \in Watch, v \in Value : CollectPrice(w, v)
             \/ Tick
    <2>1. run' = run /\ UNCHANGED <<row, told>>
      BY <1>5 DEF SetItemActive, UpsertPreferences, VerifyAddress, CollectPrice, Tick, tables
    <2> QED
      BY <1>2, <2>1
  <1> QED
    BY <1>3, <1>4, <1>5 DEF Edit

(* A run that loses its lock goes on with all it has. *)
LEMMA LossEffect ==
  ASSUME AlertInv, NEW r \in Runner, LoseSession(r)
  PROVE  /\ \A s \in Runner :
               /\ run'[s].pc = run[s].pc /\ run'[s].at = run[s].at
               /\ run'[s].mode = run[s].mode /\ run'[s].pend = run[s].pend
               /\ run'[s].due = run[s].due /\ run'[s].user = run[s].user
               /\ run'[s].left = run[s].left
         /\ losses \in Nat /\ losses' = losses + 1
         /\ UNCHANGED <<row, told, digestDay, now, faults, repeats, digests>>
  <1> DEFINE l == [run[r] EXCEPT !.locked = FALSE]
  <1>1. run[r] \in Run /\ losses \in Nat
    BY RunOf DEF AlertInv, Typed
  <1>2. /\ l.pc = run[r].pc /\ l.at = run[r].at /\ l.mode = run[r].mode
        /\ l.pend = run[r].pend /\ l.due = run[r].due /\ l.user = run[r].user
        /\ l.left = run[r].left
    BY <1>1 DEF Run
  <1>3. Goto(r, l)
    BY DEF LoseSession
  <1> HIDE DEF l
  <1>4. run'[r] = l /\ Beside(r)
    BY <1>3, Went
  <1> QED
    BY <1>1, <1>2, <1>4 DEF Beside, LoseSession, tables, history

LEMMA RestLoss ==
  ASSUME AlertInv, RestInv, NEW r \in Runner, LoseSession(r)
  PROVE  RestInv'
  <1>1. \A s \in Runner : (~AtWork(s) => Blank(run[s]))'
    BY LossEffect DEF RestInv, AtWork, Blank
  <1>2. Gone' = Gone /\ \A w \in Watch : (~Exists(w) => told[w] = NoPrice)'
    BY LossEffect DEF RestInv, Gone, Exists
  <1> QED
    BY <1>1, <1>2 DEF RestInv

LEMMA RestStep == AlertInv /\ RestInv /\ [Next]_vars => RestInv'
  <1> SUFFICES ASSUME AlertInv, RestInv, [Next]_vars PROVE RestInv'
    OBVIOUS
  <1>1. CASE UNCHANGED vars
    BY <1>1 DEF vars, RestInv, Exists, Gone, AtWork, Blank
  <1> QED
    BY <1>1, RestRunStep, RestOutside, RestLoss DEF Next

LEMMA RestInit == Init => RestInv
  <1> SUFFICES ASSUME Init PROVE RestInv
    OBVIOUS
  <1>1. Gone = {}
    BY DEF Init, Gone
  <1> QED
    BY <1>1, IdleBlank, FS_EmptySet DEF Init, RestInv

-----------------------------------------------------------------------------
(* Kinds of steps of a run: it collects changes; it lets some or all of them
   go; it begins to store those of one user. *)
Storing(r, w) == run[r].pc = "store" /\ run[r].user = Owner[w]

Collects(r) ==
    /\ Beside(r)
    /\ run[r].pc # "store" /\ run'[r].pc # "store"
    /\ run[r].left = {} /\ run'[r].left = {}
    /\ \A w \in Watch : \/ run'[r].pend[w] = run[r].pend[w]
                        \/ /\ run'[r].pend[w] # NoPrice /\ told[w] # NoPrice
                           /\ Changed(run'[r].pend[w], told[w])

Clears(r) ==
    /\ Beside(r)
    /\ run'[r].pc # "store" /\ run'[r].left = {}
    /\ \A w \in Watch : \/ run'[r].pend[w] = NoPrice
                        \/ run'[r].pend[w] = run[r].pend[w] /\ ~Storing(r, w)

BeginsToStore(r) ==
    /\ Beside(r)
    /\ run[r].pc # "store" /\ run'[r].pc = "store"
    /\ run'[r].user \in User
    /\ run[r].left = {} /\ run'[r].left = PendingOf(r, run'[r].user)
    /\ run'[r].pend = run[r].pend

LEMMA NothingLeft ==
  ASSUME AlertInv, NEW r \in Runner, run[r].pc # "store" PROVE run[r].left = {}
  BY DEF AlertInv, Sound

LEMMA CollectingSteps ==
  ASSUME AlertInv, RestInv, NEW r \in Runner,
         \/ Fire(r) \/ Start(r) \/ GetItem(r) \/ ReadPrice(r) \/ SkipItem(r) \/ Compare(r)
         \/ \E u \in User : Contact(r, u)
  PROVE  Collects(r) /\ UNCHANGED <<row, told, reachable, history>> /\ faults' >= faults
  <1>1. Collects(r)
    <2>1. CASE Fire(r)
      <3>1. run[r].pc = "idle" /\ Blank(run[r])
        BY <2>1, FireEffect DEF RestInv, AtWork
      <3> QED
        BY <2>1, <3>1, FireEffect DEF Collects, Blank
    <2>2. CASE Compare(r)
      <3>1. run[r].pc = "compare" /\ run[r].left = {}
        BY <2>2, NothingLeft DEF Compare
      <3> QED
        BY <2>2, <3>1, CompareEffect DEF Collects
    <2>3. CASE \/ Start(r) \/ GetItem(r) \/ ReadPrice(r) \/ SkipItem(r)
               \/ \E u \in User : Contact(r, u)
      <3>1. run[r].pc # "store" /\ run[r].left = {}
        BY <2>3, ScanEffect, NothingLeft
      <3> QED
        BY <2>3, <3>1, ScanEffect DEF Collects
    <2> QED
      BY <2>1, <2>2, <2>3
  <1>2. faults' = faults \/ Fault
    BY DEF Fire, Start, GetItem, ReadPrice, SkipItem, Compare, Contact
  <1>3. faults' >= faults
    BY <1>2 DEF Fault, AlertInv, Typed
  <1>4. UNCHANGED <<row, told, reachable, history>>
    BY DEF Fire, Start, GetItem, ReadPrice, SkipItem, Compare, Contact, environment, tables
  <1> QED
    BY <1>1, <1>3, <1>4

LEMMA IdleClears ==
  ASSUME AlertInv, NEW r \in Runner, Goto(r, Idle) PROVE Clears(r) /\ ~AtWork(r)'
  BY WentIdle DEF Clears, Blank, AtWork

LEMMA ServedClears ==
  ASSUME AlertInv, NEW r \in Runner, NEW u, Served(r, u),
         run[r].pc # "store" \/ run[r].user = u
  PROVE  Clears(r) /\ run'[r].pc = "scan"
  BY ServedEffect DEF Clears, Storing

-----------------------------------------------------------------------------
(* As long as no run has lost its lock, whoever is at work holds it: two cycles
   are never at work at once, and one that is about to store a baseline or to
   mail still may. *)
Apart ==
    /\ \A r, s \in Runner : AtWork(r) /\ AtWork(s) => r = s
    /\ \A s \in Sched : AtWork(s) => run[s].locked

LEMMA RunBeside ==
  ASSUME AlertInv, NEW r \in Runner, Fire(r) \/ Proceed(r) \/ Fail(r)
  PROVE  Beside(r) /\ losses' = losses
  <1>1. Kept(r)
    BY ScanKept, CompareKept, BaselineKept, ContactKept, SendKept, StoreKept
    DEF Proceed, Fail
  <1>2. PICK l : run' = [run EXCEPT ![r] = l]
    BY <1>1 DEF Kept, Moved
  <1> QED
    BY <1>1, <1>2 DEF Beside, AlertInv, Typed, Kept, environment

(* No run has lost its lock if none has after the step. *)
LEMMA NothingLost ==
  ASSUME AlertInv, [Next]_vars, losses' = 0
  PROVE  losses = 0 /\ \A r \in Runner : ~LoseSession(r)
  <1>1. ASSUME NEW r \in Runner, LoseSession(r) PROVE FALSE
    BY <1>1, LossEffect
  <1>2. CASE UNCHANGED vars \/ Edit \/ (\E w \in Watch, v \in Value : CollectPrice(w, v)) \/ Tick
    BY <1>1, <1>2
    DEF vars, Edit, AddWatchlistItem, UpdateWatchlistItemNotification, DeleteWatchlistItem,
        SetItemActive, UpsertPreferences, VerifyAddress, CollectPrice, Tick
  <1>3. ASSUME NEW r \in Runner, Fire(r) \/ Proceed(r) \/ Fail(r) PROVE losses = 0
    BY <1>3, RunBeside
  <1> QED
    BY <1>1, <1>2, <1>3 DEF Next

\* A run at work keeps its lock to the end.
LEMMA LockKept ==
  ASSUME AlertInv, NEW r \in Runner, AtWork(r), Proceed(r) \/ Fail(r)
  PROVE  AtWork(r)' => run'[r].locked = run[r].locked
  <1>1. CASE LockBusy(r) \/ Finish(r) \/ Abort(r)
    <2>1. ~AtWork(r)'
      BY <1>1, WentIdle DEF LockBusy, Finish, Abort, AtWork
    <2> QED
      BY <2>1
  <1>2. CASE \/ Start(r) \/ GetItem(r) \/ ReadPrice(r) \/ SkipItem(r)
             \/ (\E u \in User : Contact(r, u))
    BY <1>2, ScanEffect DEF AtWork
  <1>3. CASE Compare(r)
    BY <1>3, CompareEffect
  <1>4. CASE Baseline(r)
    <2>1. run[r].todo # {} /\ (Listed(r, FALSE) \/ Goto(r, Idle))
      BY <1>4 DEF Baseline, AlertInv, Sound
    <2> QED
      BY <2>1, ListedEffect, WentIdle DEF AtWork
  <1>5. CASE Send(r) \/ \E u \in User : NoContact(r, u)
    BY <1>5, StoringEffect DEF Send, NoContact
  <1>6. CASE SendFails(r) \/ StoreFails(r) \/ EndDispatch(r) \/ \E u \in User : EmptyDigest(r, u)
    <2>1. \E u : Served(r, u)
      BY <1>6 DEF SendFails, StoreFails, EndDispatch, EmptyDigest
    <2> QED
      BY <2>1, ServedEffect
  <1>7. CASE Store(r)
    <2>1. PICK w \in Watch : \/ Goto(r, [run[r] EXCEPT !.left = run[r].left \ {w}])
                             \/ Served(r, run[r].user)
      BY <1>7, FirstIn, RunOf DEF Store, AlertInv, Run
    <2> QED
      BY <2>1, StoredEffect, ServedEffect
  <1> QED
    BY <1>1, <1>2, <1>3, <1>4, <1>5, <1>6, <1>7 DEF Proceed, Fail

LEMMA ApartRunStep ==
  ASSUME Manual = {}, AlertInv, Apart, NEW r \in Runner, Beside(r),
         AtWork(r)' => run'[r].locked /\ (AtWork(r) \/ LockFree(r))
  PROVE  Apart'
  <1>1. \A s \in Runner \ {r} : AtWork(s)' = AtWork(s) /\ run'[s].locked = run[s].locked
    BY DEF Beside, AtWork
  <1>2. LockFree(r) => \A s \in Runner \ {r} : ~AtWork(s)
    BY DEF LockFree, Apart, Runner
  <1>3. \A s \in Sched : AtWork(s)' => run'[s].locked
    BY <1>1 DEF Apart, Runner
  <1>4. \A s, t \in Runner : AtWork(s)' /\ AtWork(t)' => s = t
    BY <1>1, <1>2 DEF Apart
  <1> QED
    BY <1>3, <1>4 DEF Apart

LEMMA ApartStep ==
  ASSUME Manual = {}, AlertInv, Apart, [Next]_vars, \A r \in Runner : ~LoseSession(r)
  PROVE  Apart'
  <1>1. ASSUME run' = run PROVE Apart'
    BY <1>1 DEF Apart, AtWork
  <1>2. CASE UNCHANGED vars \/ Edit \/ (\E w \in Watch, v \in Value : CollectPrice(w, v)) \/ Tick
    <2>1. run' = run
      BY <1>2
      DEF vars, Edit, AddWatchlistItem, UpdateWatchlistItemNotification, DeleteWatchlistItem,
          SetItemActive, UpsertPreferences, VerifyAddress, CollectPrice, Tick
    <2> QED
      BY <1>1, <2>1
  <1>3. ASSUME NEW r \in Runner, Fire(r) \/ Proceed(r) \/ Fail(r) PROVE Apart'
    <2>1. Beside(r) /\ r \in Sched
      BY <1>3, RunBeside DEF Runner
    <2>2. CASE Fire(r) \/ LockBusy(r)
      <3>1. ~AtWork(r)'
        BY <2>2, FireEffect, WentIdle DEF LockBusy, AtWork
      <3> QED
        BY <2>1, <3>1, ApartRunStep
    <2>3. CASE Abort(r)
      <3>1. ~AtWork(r)'
        BY <2>3, WentIdle DEF Abort, AtWork
      <3> QED
        BY <2>1, <3>1, ApartRunStep
    <2>4. CASE Start(r)
      <3>1. LockFree(r) /\ run'[r].locked
        BY <2>1, <2>4, ScanEffect DEF Start
      <3> QED
        BY <2>1, <3>1, ApartRunStep
    <2>5. CASE AtWork(r) /\ ~Fire(r)
      <3>1. AtWork(r)' => run'[r].locked
        BY <1>3, <2>1, <2>5, LockKept DEF Apart
      <3> QED
        BY <2>1, <2>5, <3>1, ApartRunStep
    <2>6. Fire(r) \/ LockBusy(r) \/ Abort(r) \/ Start(r) \/ AtWork(r)
      BY <1>3
      DEF Proceed, Fail, AtWork, GetItem, ReadPrice, Scanning, Compare, Baseline, Contact,
          NoContact, EmptyDigest, Turn, Send, Store, EndDispatch, Finish, SkipItem, SendFails,
          StoreFails
    <2> QED
      BY <2>2, <2>3, <2>4, <2>5, <2>6
  <1> QED
    BY <1>2, <1>3 DEF Next

\* While one is at work the others hold nothing.
LEMMA OthersBlank ==
  ASSUME RestInv, Apart, NEW r \in Runner, AtWork(r), NEW s \in Runner \ {r}
  PROVE  Blank(run[s]) /\ run[s].pc \in {"idle", "start"}
  BY DEF RestInv, Apart, AtWork

(* A change found is newer than what was told, or differs from it; it is told
   once its state is stored, and only then. *)
Ahead(r, w) ==
    LET p == run[r].pend[w]
    IN  p # NoPrice =>
          /\ told[w] # NoPrice => p.on >= told[w].on
          /\ (Storing(r, w) /\ w \notin run[r].left) \/ p # told[w]
          /\ row[w] # "gone" => told[w] # NoPrice

Ready(r) ==
    /\ run[r].pc = "baseline" => told[First(run[r].todo)] = NoPrice
    /\ run[r].pc = "send" => reachable[run[r].user]

Mailable(w) ==
    /\ row[w] # "gone" /\ told[w] = NoPrice => lastMail[w] = NoPrice
    /\ lastMail[w] # NoPrice => reachable[Owner[w]]

CycleInv ==
    /\ Apart
    /\ \A r \in Runner : Ready(r) /\ \A w \in Watch : Ahead(r, w)
    /\ \A w \in Watch : Mailable(w)

LEMMA CycleOfRun ==
  ASSUME AlertInv, RestInv, CycleInv, Apart', NEW r \in Runner, Beside(r),
         AtWork(r) \/ UNCHANGED <<told, row, reachable>>,
         Ready(r)', \A w \in Watch : Ahead(r, w)',
         \A w \in Watch : Mailable(w)'
  PROVE  CycleInv'
  <1>1. ASSUME NEW s \in Runner \ {r} PROVE Ready(s)' /\ \A w \in Watch : Ahead(s, w)'
    <2>1. run'[s] = run[s]
      BY DEF Beside
    <2>2. CASE AtWork(r)
      <3>1. Blank(run[s]) /\ run[s].pc \in {"idle", "start"}
        BY <2>2, OthersBlank DEF CycleInv
      <3> QED
        BY <2>1, <3>1 DEF Blank, Ready, Ahead
    <2>3. CASE UNCHANGED <<told, row, reachable>>
      BY <2>1, <2>3 DEF CycleInv, Ready, Ahead, Storing
    <2> QED
      BY <2>2, <2>3
  <1>2. \A s \in Runner : Ready(s)' /\ \A w \in Watch : Ahead(s, w)'
    BY <1>1
  <1> QED
    BY <1>2 DEF CycleInv

LEMMA MailableStays ==
  ASSUME CycleInv, UNCHANGED <<row, told, reachable, lastMail>>, NEW w \in Watch
  PROVE  Mailable(w)'
  BY DEF CycleInv, Mailable

LEMMA CycleCollects ==
  ASSUME AlertInv, RestInv, CycleInv, Apart', NEW r \in Runner,
         \/ Fire(r) \/ Start(r) \/ GetItem(r) \/ ReadPrice(r) \/ SkipItem(r) \/ Compare(r)
         \/ \E u \in User : Contact(r, u)
  PROVE  CycleInv'
  <1>1. Collects(r) /\ UNCHANGED <<row, told, reachable, history>>
    BY CollectingSteps
  <1>2. ASSUME NEW w \in Watch PROVE Ahead(r, w)'
    <2>1. run'[r].pend[w] = run[r].pend[w] => Ahead(r, w)'
      BY <1>1 DEF CycleInv, Ahead, Collects, Storing
    <2>2. ASSUME run'[r].pend[w] # NoPrice, told[w] # NoPrice, Changed(run'[r].pend[w], told[w])
          PROVE  Ahead(r, w)'
      <3>1. run'[r].pend[w].on >= told[w].on /\ run'[r].pend[w] # told[w]
        <4>1. AlertInv'
          BY AlertStep DEF Next, Proceed, Fail
        <4>2. run'[r].pend[w] \in Price
          BY <2>2, <4>1 DEF AlertInv, Typed, Run
        <4>3. told[w] \in Price
          BY <2>2 DEF AlertInv, Typed
        <4> QED
          BY <2>2, <4>2, <4>3 DEF Changed, Price
      <3> QED
        BY <1>1, <2>2, <3>1 DEF Ahead
    <2> QED
      BY <1>1, <2>1, <2>2 DEF Collects
  <1>3. Ready(r)'
    <2>1. CASE Fire(r)
      BY <2>1, FireEffect DEF Ready
    <2>2. CASE Compare(r)
      BY <1>1, <2>2, CompareEffect DEF Ready
    <2>3. CASE \/ Start(r) \/ GetItem(r) \/ ReadPrice(r) \/ SkipItem(r)
               \/ \E u \in User : Contact(r, u)
      <3>1. run'[r].pc = "send" => reachable[run'[r].user]
        BY <2>3, ScanEffect DEF Contact
      <3> QED
        BY <1>1, <2>3, <3>1, ScanEffect DEF Ready
    <2> QED
      BY <2>1, <2>2, <2>3
  <1> QED
    BY <1>1, <1>2, <1>3, CycleOfRun, MailableStays DEF Collects, history

\* The tables stay, and so do the mails, or the one that went out was of changes.
LEMMA CycleClears ==
  ASSUME AlertInv, RestInv, CycleInv, Apart', NEW r \in Runner,
         Clears(r), run'[r].pc \in {"idle", "scan"}, UNCHANGED <<row, told, reachable>>,
         \A w \in Watch : \/ lastMail'[w] = lastMail[w]
                          \/ /\ run[r].pend[w] # NoPrice /\ reachable[Owner[w]]
                             /\ lastMail'[w] = run[r].pend[w]
  PROVE  CycleInv'
  <1>1. \A w \in Watch : Ahead(r, w)'
    BY DEF CycleInv, Ahead, Clears, Storing
  <1>2. \A w \in Watch : Mailable(w)'
    BY DEF CycleInv, Ahead, Mailable
  <1>3. Ready(r)'
    BY DEF Ready
  <1> QED
    BY <1>1, <1>2, <1>3, CycleOfRun DEF Clears

LEMMA CycleBeginsToStore ==
  ASSUME AlertInv, RestInv, CycleInv, Apart', NEW r \in Runner,
         BeginsToStore(r), UNCHANGED <<row, told, reachable>>,
         \A w \in Watch : \/ lastMail'[w] = lastMail[w]
                          \/ /\ run[r].pend[w] # NoPrice /\ reachable[Owner[w]]
                             /\ lastMail'[w] = run[r].pend[w]
  PROVE  CycleInv'
  <1>1. \A w \in Watch : Ahead(r, w)'
    BY DEF CycleInv, Ahead, BeginsToStore, Storing
  <1>2. \A w \in Watch : Mailable(w)'
    BY DEF CycleInv, Ahead, Mailable
  <1>3. Ready(r)'
    BY DEF BeginsToStore, Ready
  <1> QED
    BY <1>1, <1>2, <1>3, CycleOfRun DEF BeginsToStore

LEMMA CycleStores ==
  ASSUME AlertInv, RestInv, CycleInv, Apart', NEW r \in Runner, NEW w \in run[r].left,
         Owner[w] = run[r].user, run[r].pend[w] \in Price, run[r].pc = "store",
         Exists(w), told' = [told EXCEPT ![w] = run[r].pend[w]],
         Goto(r, [run[r] EXCEPT !.left = run[r].left \ {w}]),
         UNCHANGED <<row, reachable, lastMail>>
  PROVE  CycleInv'
  <1>1. /\ Beside(r) /\ AtWork(r)
        /\ run'[r].left = run[r].left \ {w} /\ run'[r].pc = "store"
        /\ run'[r].user = run[r].user /\ run'[r].pend = run[r].pend
    BY StoredEffect DEF AtWork
  <1>2. w \in Watch /\ run[r].pend[w] # NoPrice
    BY RunOf, AlertAssumption DEF AlertInv, Price
  <1>3. told' [w] = run[r].pend[w] /\ \A v \in Watch \ {w} : told'[v] = told[v]
    BY <1>2 DEF AlertInv, Typed
  <1>4. ASSUME NEW v \in Watch PROVE Ahead(r, v)'
    <2>1. CASE v = w
      BY <1>1, <1>2, <1>3, <2>1 DEF Ahead, Storing, Price
    <2>2. CASE v # w
      BY <1>1, <1>3, <2>2 DEF CycleInv, Ahead, Storing
    <2> QED
      BY <2>1, <2>2
  <1>5. \A v \in Watch : Mailable(v)'
    BY <1>2, <1>3 DEF CycleInv, Mailable
  <1>6. Ready(r)'
    BY <1>1 DEF Ready
  <1> QED
    BY <1>1, <1>4, <1>5, <1>6, CycleOfRun

LEMMA CycleBaseline ==
  ASSUME AlertInv, RestInv, CycleInv, Apart', NEW r \in Runner, run[r].pc = "baseline",
         run[r].todo # {}, Exists(First(run[r].todo)), run[r].seen \in Price,
         told' = [told EXCEPT ![First(run[r].todo)] = run[r].seen], Listed(r, FALSE),
         UNCHANGED <<row, reachable, lastMail>>
  PROVE  CycleInv'
  <1> DEFINE w == First(run[r].todo)
             p == run[r].seen
  <1>1. w \in Watch /\ told[w] = NoPrice /\ row[w] # "gone" /\ p # NoPrice
    <2>1. w \in Watch
      BY FirstIn, RunOf DEF AlertInv
    <2>2. told[w] = NoPrice
      BY DEF CycleInv, Ready
    <2>3. p # NoPrice
      BY AlertAssumption DEF Price
    <2> QED
      BY <2>1, <2>2, <2>3 DEF Exists
  <1>2. /\ Beside(r) /\ AtWork(r) /\ run'[r].pc = "scan"
        /\ \A v \in Watch : run'[r].pend[v] = run[r].pend[v]
    BY ListedEffect DEF AtWork
  <1>3. told'[w] = p /\ \A v \in Watch \ {w} : told'[v] = told[v]
    BY <1>1 DEF AlertInv, Typed
  <1> HIDE DEF w, p
  <1>4. run[r].pend[w] = NoPrice
    BY <1>1 DEF CycleInv, Ahead
  <1>5. ASSUME NEW v \in Watch PROVE Ahead(r, v)'
    BY <1>1, <1>2, <1>3, <1>4 DEF CycleInv, Ahead, Storing
  <1>6. \A v \in Watch : Mailable(v)'
    BY <1>1, <1>3 DEF CycleInv, Mailable
  <1>7. Ready(r)'
    BY <1>2 DEF Ready
  <1> QED
    BY <1>2, <1>5, <1>6, <1>7, CycleOfRun

\* Whoever is mailed has changes pending, and an address.
LEMMA DeliveredEffect ==
  ASSUME AlertInv, NEW r \in Runner, Delivered(r), NEW w \in Watch
  PROVE  \/ /\ w \in PendingOf(r, run[r].user)
            /\ run[r].pend[w] # NoPrice /\ Owner[w] = run[r].user
            /\ lastMail'[w] = run[r].pend[w]
            /\ repeats'[w] = IF lastMail[w] = run[r].pend[w] THEN repeats[w] + 1 ELSE repeats[w]
         \/ /\ w \notin PendingOf(r, run[r].user)
            /\ lastMail'[w] = lastMail[w] /\ repeats'[w] = repeats[w]
  BY DEF Delivered, PendingOf

LEMMA SendSteps ==
  ASSUME AlertInv, NEW r \in Runner, Send(r) \/ (\E u \in User : NoContact(r, u))
  PROVE  /\ BeginsToStore(r) /\ UNCHANGED <<row, told, reachable>>
         /\ Send(r) => run'[r].user = run[r].user
         /\ \A u \in User : NoContact(r, u) => run'[r].user = u
  <1>1. run[r].pc # "store" /\ run[r].left = {}
    BY NothingLeft DEF Send, NoContact, Turn
  <1>2. CASE Send(r)
    <2>1. /\ Beside(r)
          /\ run'[r].pc = "store" /\ run'[r].user = run[r].user
          /\ run'[r].left = PendingOf(r, run[r].user) /\ run'[r].pend = run[r].pend
      BY <1>2, StoringEffect DEF Send
    <2>2. run[r].user \in User
      BY <1>2 DEF Send, AlertInv, Sound
    <2>3. \A u \in User : ~NoContact(r, u)
      BY <1>2 DEF Send, NoContact, Turn
    <2> QED
      BY <1>1, <1>2, <2>1, <2>2, <2>3 DEF BeginsToStore, Send, environment, tables
  <1>3. ASSUME NEW u \in User, NoContact(r, u)
        PROVE  /\ BeginsToStore(r) /\ UNCHANGED <<row, told, reachable>>
               /\ run'[r].user = u /\ ~Send(r)
    <2>1. /\ Beside(r)
          /\ run'[r].pc = "store" /\ run'[r].user = u
          /\ run'[r].left = PendingOf(r, u) /\ run'[r].pend = run[r].pend
      BY <1>3, StoringEffect DEF NoContact
    <2> QED
      BY <1>1, <1>3, <2>1 DEF BeginsToStore, NoContact, Turn, Send, environment, tables
  <1> QED
    BY <1>2, <1>3

LEMMA CycleRunStep ==
  ASSUME AlertInv, RestInv, CycleInv, Apart', NEW r \in Runner, Fire(r) \/ Proceed(r) \/ Fail(r)
  PROVE  CycleInv'
  <1>1. CASE LockBusy(r) \/ Finish(r) \/ Abort(r)
    <2>1. Goto(r, Idle) /\ UNCHANGED <<row, told, reachable, lastMail>>
      BY <1>1 DEF LockBusy, Finish, Abort, environment, tables, history
    <2> QED
      BY <2>1, IdleClears, WentIdle, CycleClears
  <1>2. CASE Baseline(r)
    <2> DEFINE w == First(run[r].todo)
    <2>1. /\ run[r].pc = "baseline" /\ run[r].todo # {} /\ run[r].seen \in Price
          /\ \/ /\ Exists(w) /\ told' = [told EXCEPT ![w] = run[r].seen]
                /\ Listed(r, FALSE)
             \/ Goto(r, Idle) /\ told' = told
      BY <1>2, BaselineSteps
    <2>2. UNCHANGED <<row, reachable, lastMail>>
      BY <1>2 DEF Baseline, environment
    <2> QED
      BY <2>1, <2>2, CycleBaseline, IdleClears, WentIdle, CycleClears
  <1>3. ASSUME NEW u \in User, NoContact(r, u) PROVE CycleInv'
    BY <1>3, SendSteps, CycleBeginsToStore DEF NoContact
  <1>4. CASE Send(r)
    <2>1. reachable[run[r].user]
      BY <1>4 DEF CycleInv, Ready, Send
    <2>2. \A w \in Watch : \/ lastMail'[w] = lastMail[w]
                           \/ /\ run[r].pend[w] # NoPrice /\ reachable[Owner[w]]
                              /\ lastMail'[w] = run[r].pend[w]
      BY <1>4, <2>1, DeliveredEffect DEF Send
    <2> QED
      BY <1>4, <2>2, SendSteps, CycleBeginsToStore
  <1>5. CASE SendFails(r)
    <2>1. Clears(r) /\ run'[r].pc = "scan" /\ UNCHANGED <<row, told, reachable>>
      BY <1>5, ServedClears DEF SendFails, environment, tables
    <2>2. reachable[run[r].user]
      BY <1>5 DEF CycleInv, Ready, SendFails
    <2>3. \A w \in Watch : \/ lastMail'[w] = lastMail[w]
                           \/ /\ run[r].pend[w] # NoPrice /\ reachable[Owner[w]]
                              /\ lastMail'[w] = run[r].pend[w]
      BY <1>5, <2>2, DeliveredEffect DEF SendFails, history
    <2> QED
      BY <2>1, <2>3, CycleClears
  <1>6. CASE Store(r)
    <2>1. PICK w \in run[r].left :
             /\ w \in Watch /\ Owner[w] = run[r].user /\ run[r].pend[w] \in Price
             /\ \/ /\ Exists(w)
                   /\ told' = [told EXCEPT ![w] = run[r].pend[w]]
                   /\ Goto(r, [run[r] EXCEPT !.left = run[r].left \ {w}])
                \/ /\ ~Exists(w)
                   /\ Served(r, run[r].user) /\ told' = told
      BY <1>6, StoreSteps
    <2>2. run[r].pc = "store" /\ UNCHANGED <<row, reachable, lastMail>>
      BY <1>6 DEF Store, environment, history
    <2> QED
      BY <2>1, <2>2, CycleStores, ServedClears, CycleClears
  <1>7. ASSUME NEW u \in User, EmptyDigest(r, u) PROVE CycleInv'
    <2>1. UNCHANGED <<row, told, reachable, lastMail>>
      BY <1>7 DEF EmptyDigest, environment, history
    <2>2. Clears(r) /\ run'[r].pc = "scan"
      BY <1>7, ServedClears DEF EmptyDigest, Turn
    <2> QED
      BY <2>1, <2>2, CycleClears
  <1>8. CASE StoreFails(r) \/ EndDispatch(r)
    <2>1. UNCHANGED <<row, told, reachable, lastMail>>
      BY <1>8 DEF StoreFails, EndDispatch, environment, tables, history
    <2>2. Clears(r) /\ run'[r].pc = "scan"
      BY <1>8, ServedClears DEF StoreFails, EndDispatch
    <2> QED
      BY <2>1, <2>2, CycleClears
  <1> QED
    BY <1>1, <1>2, <1>3, <1>4, <1>5, <1>6, <1>7, <1>8, CycleCollects DEF Proceed, Fail

LEMMA CycleOutside ==
  ASSUME AlertInv, RestInv, CycleInv,
         Edit \/ (\E w \in Watch, v \in Value : CollectPrice(w, v)) \/ Tick
  PROVE  CycleInv'
  <1>1. run' = run /\ lastMail' = lastMail /\ UNCHANGED history
    BY DEF Edit, AddWatchlistItem, UpdateWatchlistItemNotification, DeleteWatchlistItem,
           SetItemActive, UpsertPreferences, VerifyAddress, CollectPrice, Tick, history
  <1>2. Apart'
    BY <1>1 DEF CycleInv, Apart, AtWork
  <1>3. ASSUME NEW w \in Watch, DeleteWatchlistItem(w) PROVE CycleInv'
    <2>1. /\ told' = [told EXCEPT ![w] = NoPrice] /\ row' = [row EXCEPT ![w] = "gone"]
          /\ reachable' = reachable
      BY <1>3 DEF DeleteWatchlistItem
    <2>2. /\ told'[w] = NoPrice /\ row'[w] = "gone"
          /\ \A v \in Watch \ {w} : told'[v] = told[v] /\ row'[v] = row[v]
      BY <2>1 DEF AlertInv, Typed
    <2>3. \A r \in Runner, v \in Watch : Ahead(r, v)'
      BY <1>1, <2>2 DEF CycleInv, Ahead, Storing
    <2>4. \A v \in Watch : Mailable(v)'
      BY <1>1, <2>1, <2>2 DEF CycleInv, Mailable
    <2>5. ASSUME NEW r \in Runner PROVE Ready(r)'
      <3>1. run[r].pc = "baseline" => First(run[r].todo) \in Watch
        BY FirstIn, RunOf DEF AlertInv, Sound
      <3> QED
        BY <1>1, <2>1, <2>2, <3>1 DEF CycleInv, Ready
    <2> QED
      BY <1>2, <2>3, <2>4, <2>5 DEF CycleInv
  <1>4. CASE ~\E w \in Watch : DeleteWatchlistItem(w)
    <2>1. /\ told' = told
          /\ \A u \in User : reachable[u] => reachable'[u]
          /\ \A w \in Watch : row'[w] # "gone" => row[w] # "gone"
          /\ \A w \in Watch : row[w] # "gone" => row'[w] # "gone"
      BY <1>4
      DEF Edit, AddWatchlistItem, UpdateWatchlistItemNotification, SetItemActive,
          UpsertPreferences, VerifyAddress, CollectPrice, Tick, tables, AlertInv, Typed, Exists
    <2>2. \A r \in Runner, v \in Watch : Ahead(r, v)'
      BY <1>1, <2>1 DEF CycleInv, Ahead, Storing
    <2>3. \A v \in Watch : Owner[v] \in User
      BY AlertAssumption
    <2>4. \A v \in Watch : Mailable(v)'
      BY <1>1, <2>1, <2>3 DEF CycleInv, Mailable
    <2>5. ASSUME NEW r \in Runner PROVE Ready(r)'
      <3>1. run[r].pc = "send" => run[r].user \in User
        BY DEF AlertInv, Sound
      <3> QED
        BY <1>1, <2>1, <3>1 DEF CycleInv, Ready
    <2> QED
      BY <1>2, <2>2, <2>4, <2>5 DEF CycleInv
  <1> QED
    BY <1>3, <1>4

LEMMA CycleStep ==
  ASSUME Manual = {}, AlertInv, RestInv, losses = 0 => CycleInv, [Next]_vars, losses' = 0
  PROVE  CycleInv'
  <1>1. CycleInv /\ \A r \in Runner : ~LoseSession(r)
    BY NothingLost
  <1>2. Apart'
    BY <1>1, ApartStep DEF CycleInv
  <1>3. CASE UNCHANGED vars
    BY <1>1, <1>3 DEF vars, CycleInv, Apart, AtWork, Ready, Ahead, Storing, Mailable
  <1> QED
    BY <1>1, <1>2, <1>3, CycleRunStep, CycleOutside DEF Next

LEMMA CycleInit == Init => CycleInv
  <1> SUFFICES ASSUME Init PROVE CycleInv
    OBVIOUS
  <1>1. \A r \in Runner : run[r].pc = "idle" /\ \A w \in Watch : run[r].pend[w] = NoPrice
    BY IdleBlank DEF Init, Idle, Blank
  <1>2. Apart
    BY <1>1 DEF Apart, AtWork, Runner
  <1> QED
    BY <1>1, <1>2 DEF Init, CycleInv, Ready, Ahead, Mailable

LEMMA CyclesCorrect ==
  ASSUME Manual = {} PROVE Spec => [](AlertInv /\ RestInv /\ (losses = 0 => CycleInv))
  <1>1. Init => AlertInv /\ RestInv /\ (losses = 0 => CycleInv)
    BY AlertInit, RestInit, CycleInit
  <1>2. AlertInv /\ RestInv /\ (losses = 0 => CycleInv) /\ [Next]_vars
           => (AlertInv /\ RestInv /\ (losses = 0 => CycleInv))'
    BY AlertStep, RestStep, CycleStep
  <1> QED
    BY <1>1, <1>2, PTL DEF Spec

(* While cycles are the only runs, and as long as none of them has lost its
   lock, what a user was told of an item never goes back to an older day: a
   cycle stores no price older than the one stored, and nobody stores another
   between its comparison and its statement. *)
THEOREM ToldForward == ASSUME Manual = {} PROVE Spec => ToldNeverGoesBack
  <1> DEFINE Forward == \A w \in Watch :
                           losses = 0 /\ told[w] # NoPrice /\ told'[w] # NoPrice
                              => told'[w].on >= told[w].on
  <1>1. AlertInv /\ RestInv /\ (losses = 0 => CycleInv) /\ [Next]_vars => [Forward]_vars
    <2> SUFFICES ASSUME AlertInv, RestInv, losses = 0, CycleInv, Next PROVE Forward
      OBVIOUS
    <2>1. ASSUME \A w \in Watch : told'[w] \in {told[w], NoPrice} PROVE Forward
      <3>1. \A w \in Watch : told[w] # NoPrice => told[w].on \in Nat
        BY DEF AlertInv, Typed, Price
      <3> QED
        BY <2>1, <3>1
    <2>2. ASSUME NEW r \in Runner, Store(r) PROVE Forward
      <3>1. PICK w \in run[r].left :
               /\ w \in Watch /\ run[r].pend[w] \in Price
               /\ told' = [told EXCEPT ![w] = run[r].pend[w]] \/ told' = told
        BY <2>2, StoreSteps
      <3>2. run[r].pend[w] # NoPrice /\ run[r].pend[w].on \in Nat
        BY <3>1, AlertAssumption DEF Price
      <3>3. told[w] # NoPrice => run[r].pend[w].on >= told[w].on
        BY <3>1, <3>2 DEF CycleInv, Ahead
      <3>4. \A v \in Watch : told[v] # NoPrice => told[v].on \in Nat
        BY DEF AlertInv, Typed, Price
      <3> QED
        BY <3>1, <3>3, <3>4 DEF AlertInv, Typed
    <2>3. ASSUME NEW r \in Runner, Baseline(r) PROVE Forward
      <3> DEFINE w == First(run[r].todo)
      <3>1. /\ w \in Watch /\ run[r].pc = "baseline"
            /\ told' = [told EXCEPT ![w] = run[r].seen] \/ told' = told
        BY <2>3, BaselineSteps
      <3>2. told[w] = NoPrice
        BY <3>1 DEF CycleInv, Ready
      <3> HIDE DEF w
      <3>3. \A v \in Watch : told[v] # NoPrice => told[v].on \in Nat
        BY DEF AlertInv, Typed, Price
      <3> QED
        BY <3>1, <3>2, <3>3 DEF AlertInv, Typed
    <2>4. ASSUME NEW r \in Runner, Fire(r) \/ Proceed(r) \/ Fail(r), ~Store(r), ~Baseline(r)
          PROVE  Forward
      <3>1. told' = told
        BY <2>4
        DEF Proceed, Fail, Fire, Start, LockBusy, GetItem, ReadPrice, Compare, Contact, NoContact,
            EmptyDigest, Send, EndDispatch, Finish, SkipItem, SendFails, StoreFails, Abort, tables
      <3> QED
        BY <2>1, <3>1
    <2>5. CASE Edit \/ (\E w \in Watch, v \in Value : CollectPrice(w, v)) \/ Tick
      <3>1. told' = told \/ \E w \in Watch : told' = [told EXCEPT ![w] = NoPrice]
        BY <2>5
        DEF Edit, AddWatchlistItem, UpdateWatchlistItemNotification, DeleteWatchlistItem,
            SetItemActive, UpsertPreferences, VerifyAddress, CollectPrice, Tick, tables
      <3>2. \A w \in Watch : told'[w] \in {told[w], NoPrice}
        BY <3>1 DEF AlertInv, Typed
      <3> QED
        BY <2>1, <3>2
    <2>6. ASSUME NEW r \in Runner, LoseSession(r) PROVE Forward
      BY <2>1, <2>6, LossEffect
    <2> QED
      BY <2>2, <2>3, <2>4, <2>5, <2>6 DEF Next
  <1> QED
    BY <1>1, CyclesCorrect, PTL DEF Spec, ToldNeverGoesBack

-----------------------------------------------------------------------------
(* What a mail has said of an item is settled when it is stored as told, or is
   about to be; of a deleted row, when no run waits to say it again.  What is
   not settled may be said once more, and each time a failure pays for it, or a
   deleted row that took the rest of its dispatch with it. *)
Settled(w) ==
    IF \E r \in Runner : w \in run[r].left
    THEN \E r \in Runner : w \in run[r].left /\ run[r].pend[w] = lastMail[w]
    ELSE told[w] = lastMail[w]

Awaited(w) == \E r \in Runner : run[r].pend[w] = lastMail[w] /\ ~Storing(r, w)

AtRisk(w) ==
    /\ lastMail[w] # NoPrice
    /\ IF row[w] = "gone" THEN Awaited(w) ELSE ~Settled(w)

Dropped == {w \in Watch : row[w] = "gone" /\ \A r \in Runner : run[r].pend[w] = NoPrice}

DebtInv ==
    \A w \in Watch : repeats[w] + (IF AtRisk(w) THEN 1 ELSE 0) <= faults + Cardinality(Dropped)

LEMMA DroppedFinite ==
  ASSUME RestInv
  PROVE  /\ IsFiniteSet(Dropped) /\ Cardinality(Dropped) \in Nat
         /\ Cardinality(Dropped) <= Cardinality(Gone) /\ Cardinality(Gone) \in Nat
  <1>1. IsFiniteSet(Gone) /\ Dropped \subseteq Gone
    BY DEF RestInv, Gone, Dropped
  <1> QED
    BY <1>1, FS_Subset, FS_CardinalityType

LEMMA DroppedStaysFinite == ASSUME RestInv' PROVE IsFiniteSet(Dropped')
  <1>1. IsFiniteSet(Gone') /\ Dropped' \subseteq Gone'
    BY DEF RestInv, Gone, Dropped
  <1> QED
    BY <1>1, FS_Subset

\* Nothing new is at risk, or what was is said again, or a failure is counted.
LEMMA DebtKept ==
  ASSUME AlertInv, AlertInv', RestInv, RestInv', DebtInv, Dropped \subseteq Dropped',
         faults' = faults \/ Fault,
         \A w \in Watch :
            \/ repeats'[w] = repeats[w] /\ (AtRisk(w)' => AtRisk(w))
            \/ repeats'[w] \in {repeats[w], repeats[w] + 1} /\ ~AtRisk(w)'
               /\ (repeats'[w] # repeats[w] => AtRisk(w))
            \/ repeats'[w] \in {repeats[w], repeats[w] + 1} /\ Fault
               /\ (repeats'[w] # repeats[w] => AtRisk(w))
  PROVE  DebtInv'
  <1>1. /\ Cardinality(Dropped) \in Nat /\ Cardinality(Dropped') \in Nat
        /\ Cardinality(Dropped) <= Cardinality(Dropped')
    <2>1. IsFiniteSet(Dropped) /\ IsFiniteSet(Dropped')
      BY DroppedFinite, DroppedStaysFinite
    <2> QED
      BY <2>1, FS_Subset, FS_CardinalityType
  <1>2. faults \in Nat /\ faults' \in Nat /\ (Fault => faults' = faults + 1)
    BY DEF AlertInv, Typed, Fault
  <1>3. ASSUME NEW w \in Watch
        PROVE  repeats'[w] + (IF AtRisk(w)' THEN 1 ELSE 0) <= faults' + Cardinality(Dropped')
    <2>1. repeats[w] \in Nat /\ repeats'[w] \in Nat
      BY DEF AlertInv, Typed
    <2>2. repeats[w] + (IF AtRisk(w) THEN 1 ELSE 0) <= faults + Cardinality(Dropped)
      BY DEF DebtInv
    <2> QED
      BY <1>1, <1>2, <2>1, <2>2
  <1> QED
    BY <1>3 DEF DebtInv

\* A deleted row ends a dispatch: what is at risk now, it pays for.
LEMMA DebtDropped ==
  ASSUME AlertInv, AlertInv', RestInv, RestInv', DebtInv, Dropped \subseteq Dropped',
         NEW d \in Dropped', d \notin Dropped, UNCHANGED <<faults, repeats>>
  PROVE  DebtInv'
  <1>1. /\ Cardinality(Dropped) \in Nat /\ Cardinality(Dropped') \in Nat
        /\ Cardinality(Dropped) + 1 <= Cardinality(Dropped')
    <2>1. IsFiniteSet(Dropped) /\ IsFiniteSet(Dropped')
      BY DroppedFinite, DroppedStaysFinite
    <2>2. Dropped # Dropped'
      OBVIOUS
    <2> QED
      BY <2>1, <2>2, FS_Subset, FS_CardinalityType
  <1>2. faults \in Nat
    BY DEF AlertInv, Typed
  <1>3. ASSUME NEW w \in Watch
        PROVE  repeats'[w] + (IF AtRisk(w)' THEN 1 ELSE 0) <= faults' + Cardinality(Dropped')
    <2>1. repeats[w] \in Nat
      BY DEF AlertInv, Typed
    <2>2. repeats[w] + (IF AtRisk(w) THEN 1 ELSE 0) <= faults + Cardinality(Dropped)
      BY DEF DebtInv
    <2> QED
      BY <1>1, <1>2, <2>1, <2>2
  <1> QED
    BY <1>3 DEF DebtInv

LEMMA DroppedCollects ==
  ASSUME RestInv, NEW r \in Runner, Collects(r), UNCHANGED row
  PROVE  Dropped \subseteq Dropped'
  <1>1. ASSUME NEW w \in Dropped PROVE \A s \in Runner : run'[s].pend[w] = NoPrice
    <2>1. told[w] = NoPrice /\ w \in Watch /\ \A s \in Runner : run[s].pend[w] = NoPrice
      BY DEF Dropped, RestInv, Exists
    <2> QED
      BY <2>1 DEF Collects, Beside
  <1> QED
    BY <1>1 DEF Dropped

LEMMA DroppedClears ==
  ASSUME NEW r \in Runner, UNCHANGED row, Beside(r),
         \A w \in Watch : run'[r].pend[w] \in {run[r].pend[w], NoPrice}
  PROVE  Dropped \subseteq Dropped'
  BY DEF Dropped, Beside

LEMMA RiskCollects ==
  ASSUME AlertInv, RestInv, CycleInv, NEW r \in Runner, Collects(r),
         UNCHANGED <<row, lastMail>>, NEW w \in Watch, told'[w] = told[w]
  PROVE  AtRisk(w)' => AtRisk(w)
  <1>1. \A s \in Runner : run'[s].left = run[s].left
    BY DEF Collects, Beside
  <1>2. CASE row[w] = "gone"
    <2>1. told[w] = NoPrice
      BY <1>2 DEF RestInv, Exists
    <2>2. \A s \in Runner : run'[s].pend[w] = run[s].pend[w] /\ (Storing(s, w)' <=> Storing(s, w))
      BY <2>1 DEF Collects, Beside, Storing
    <2> QED
      BY <1>2, <2>2 DEF AtRisk, Awaited
  <1>3. CASE row[w] # "gone"
    <2>1. \A s \in Runner : w \in run[s].left => run'[s].pend[w] = run[s].pend[w]
      BY DEF Collects, Beside
    <2> QED
      BY <1>1, <1>3, <2>1 DEF AtRisk, Settled
  <1> QED
    BY <1>2, <1>3

\* With nothing left to store, letting changes go puts nothing at risk.
LEMMA RiskClears ==
  ASSUME NEW r \in Runner, Clears(r), run[r].left = {},
         UNCHANGED <<row, told, lastMail>>, NEW w \in Watch
  PROVE  AtRisk(w)' => AtRisk(w)
  <1>1. \A s \in Runner : run'[s].left = run[s].left
    BY DEF Clears, Beside
  <1>2. CASE row[w] = "gone"
    <2>1. ASSUME NEW s \in Runner, run'[s].pend[w] = lastMail[w], ~Storing(s, w)',
                 lastMail[w] # NoPrice
          PROVE  run[s].pend[w] = lastMail[w] /\ ~Storing(s, w)
      BY <2>1 DEF Clears, Beside, Storing
    <2> QED
      BY <1>2, <2>1 DEF AtRisk, Awaited
  <1>3. CASE row[w] # "gone"
    <2>1. \A s \in Runner : w \in run[s].left => run'[s].pend[w] = run[s].pend[w]
      BY DEF Clears, Beside
    <2> QED
      BY <1>1, <1>3, <2>1 DEF AtRisk, Settled
  <1> QED
    BY <1>2, <1>3

\* What its run has found of an item and not begun to store is at risk if a mail has said it.
LEMMA RiskPending ==
  ASSUME AlertInv, RestInv, CycleInv, NEW r \in Runner, AtWork(r), run[r].pc # "store",
         NEW w \in Watch, run[r].pend[w] # NoPrice, run[r].pend[w] = lastMail[w]
  PROVE  AtRisk(w)
  <1>1. ~Storing(r, w)
    BY DEF Storing
  <1>2. CASE row[w] = "gone"
    BY <1>1, <1>2 DEF AtRisk, Awaited
  <1>3. CASE row[w] # "gone"
    <2>1. told[w] # lastMail[w]
      BY <1>1 DEF CycleInv, Ahead
    <2>2. \A s \in Runner : run[s].left = {}
      BY NothingLeft, OthersBlank DEF CycleInv, Blank
    <2> QED
      BY <1>3, <2>1, <2>2 DEF AtRisk, Settled
  <1> QED
    BY <1>2, <1>3

\* What a run begins to store is settled if it is what a mail has said last.
LEMMA RiskBeginsToStore ==
  ASSUME AlertInv, RestInv, CycleInv, NEW r \in Runner, AtWork(r), BeginsToStore(r),
         UNCHANGED <<row, told>>, NEW w \in Watch
  PROVE  /\ w \notin PendingOf(r, run'[r].user) /\ lastMail'[w] = lastMail[w]
               => (AtRisk(w)' => AtRisk(w))
         /\ w \in PendingOf(r, run'[r].user)
               /\ (lastMail'[w] = run[r].pend[w] \/ lastMail'[w] = NoPrice) => ~AtRisk(w)'
  <1>1. \A s \in Runner : run[s].left = {}
    BY OthersBlank DEF CycleInv, Blank, BeginsToStore
  <1>2. \A s \in Runner \ {r} : run'[s] = run[s] /\ run'[s].left = {} /\ run'[s].pend[w] = NoPrice
    BY OthersBlank DEF CycleInv, Blank, BeginsToStore, Beside
  <1>3. /\ run'[r].left = PendingOf(r, run'[r].user) /\ run'[r].pend = run[r].pend
        /\ run'[r].pc = "store" /\ run[r].pc # "store"
    BY DEF BeginsToStore
  <1>4. ASSUME w \notin PendingOf(r, run'[r].user), lastMail'[w] = lastMail[w], AtRisk(w)'
        PROVE  AtRisk(w)
    <2>1. CASE row[w] = "gone"
      <3>1. PICK s \in Runner : run'[s].pend[w] = lastMail[w] /\ ~Storing(s, w)'
        BY <1>4, <2>1 DEF AtRisk, Awaited
      <3>2. lastMail[w] # NoPrice
        BY <1>4 DEF AtRisk
      <3>3. s = r
        BY <1>2, <3>1, <3>2
      <3>4. run[r].pend[w] = lastMail[w] /\ ~Storing(r, w)
        BY <1>3, <3>1, <3>3 DEF Storing
      <3> QED
        BY <2>1, <3>2, <3>4 DEF AtRisk, Awaited
    <2>2. CASE row[w] # "gone"
      <3>1. \A s \in Runner : w \notin run'[s].left
        BY <1>2, <1>3, <1>4
      <3>2. lastMail[w] # NoPrice /\ told[w] # lastMail[w]
        BY <1>4, <2>2, <3>1 DEF AtRisk, Settled
      <3> QED
        BY <1>1, <2>2, <3>2 DEF AtRisk, Settled
    <2> QED
      BY <2>1, <2>2
  <1>5. ASSUME w \in PendingOf(r, run'[r].user), AtRisk(w)',
               lastMail'[w] = run[r].pend[w] \/ lastMail'[w] = NoPrice
        PROVE  FALSE
    <2>1. lastMail'[w] = run[r].pend[w] /\ lastMail'[w] # NoPrice
      BY <1>5 DEF AtRisk
    <2>2. Owner[w] = run'[r].user /\ w \in run'[r].left
      BY <1>3, <1>5 DEF PendingOf
    <2>3. CASE row[w] = "gone"
      <3>1. PICK s \in Runner : run'[s].pend[w] = lastMail'[w] /\ ~Storing(s, w)'
        BY <1>5, <2>3 DEF AtRisk, Awaited
      <3>2. s = r
        BY <1>2, <2>1, <3>1
      <3> QED
        BY <1>3, <2>2, <3>1, <3>2 DEF Storing
    <2>4. CASE row[w] # "gone"
      BY <1>3, <1>5, <2>1, <2>2, <2>4 DEF AtRisk, Settled
    <2> QED
      BY <2>3, <2>4
  <1> QED
    BY <1>4, <1>5

LEMMA DebtStores ==
  ASSUME AlertInv, AlertInv', RestInv, RestInv', CycleInv, DebtInv, NEW r \in Runner, Store(r)
  PROVE  DebtInv'
  <1>1. PICK w \in run[r].left :
           /\ w \in Watch /\ Owner[w] = run[r].user /\ run[r].pend[w] \in Price
           /\ \/ /\ Exists(w)
                 /\ told' = [told EXCEPT ![w] = run[r].pend[w]]
                 /\ Goto(r, [run[r] EXCEPT !.left = run[r].left \ {w}])
              \/ /\ ~Exists(w)
                 /\ Served(r, run[r].user) /\ told' = told
    BY StoreSteps
  <1>2. /\ run[r].pc = "store" /\ AtWork(r)
        /\ UNCHANGED <<row, faults, lastMail, repeats>>
    BY DEF Store, AtWork, environment, history
  <1>3. \A s \in Runner \ {r} : run[s].left = {} /\ \A v \in Watch : run[s].pend[v] = NoPrice
    BY <1>2, OthersBlank DEF CycleInv, Blank
  <1>4. run[r].pend[w] # NoPrice
    BY <1>1, AlertAssumption DEF Price
  <1>5. CASE Exists(w)
    <2>1. /\ Beside(r)
          /\ run'[r].left = run[r].left \ {w} /\ run'[r].pc = "store"
          /\ run'[r].user = run[r].user /\ run'[r].pend = run[r].pend
      BY <1>1, <1>2, <1>5, StoredEffect
    <2>2. told'[w] = run[r].pend[w] /\ \A v \in Watch \ {w} : told'[v] = told[v]
      BY <1>1, <1>5 DEF AlertInv, Typed
    <2>3. \A s \in Runner : run'[s].pend = run[s].pend
      BY <2>1 DEF Beside
    <2>4. \A s \in Runner, v \in Watch : Storing(s, v)' <=> Storing(s, v)
      BY <1>2, <2>1 DEF Beside, Storing
    <2>5. \A s \in Runner, v \in Watch \ {w} : v \in run'[s].left <=> v \in run[s].left
      BY <2>1 DEF Beside
    <2>6. \A s \in Runner : w \notin run'[s].left
      BY <1>3, <2>1 DEF Beside
    <2>7. ASSUME NEW v \in Watch, AtRisk(v)' PROVE AtRisk(v)
      <3>1. CASE row[v] = "gone"
        BY <1>2, <2>3, <2>4, <2>7, <3>1 DEF AtRisk, Awaited
      <3>2. CASE row[v] # "gone" /\ v # w
        BY <1>2, <2>2, <2>3, <2>5, <2>7, <3>2 DEF AtRisk, Settled
      <3>3. CASE v = w
        <4>1. row[w] # "gone"
          BY <1>5 DEF Exists
        <4>2. run[r].pend[w] # lastMail[w] /\ lastMail[w] # NoPrice
          BY <1>2, <2>2, <2>6, <2>7, <3>3, <4>1 DEF AtRisk, Settled
        <4>3. ~Settled(w)
          BY <1>1, <1>3, <4>2 DEF Settled
        <4> QED
          BY <3>3, <4>1, <4>2, <4>3 DEF AtRisk
      <3> QED
        BY <3>1, <3>2, <3>3
    <2>8. Dropped \subseteq Dropped'
      BY <1>2, <2>3 DEF Dropped
    <2> QED
      BY <1>2, <2>7, <2>8, DebtKept
  <1>6. CASE ~Exists(w)
    <2>1. Served(r, run[r].user) /\ told' = told
      BY <1>1, <1>6
    <2>2. row[w] = "gone"
      <3>1. told[w] = NoPrice
        BY <1>1, <1>6 DEF RestInv
      <3> QED
        BY <1>1, <1>4, <3>1 DEF CycleInv, Ahead
    <2>3. /\ Beside(r)
          /\ \A v \in Watch : run'[r].pend[v] = IF Owner[v] = run[r].user THEN NoPrice
                                                 ELSE run[r].pend[v]
      BY <2>1, ServedEffect
    <2>4. \A s \in Runner : run'[s].pend[w] = NoPrice
      BY <1>1, <1>3, <2>3 DEF Beside
    <2>5. w \in Dropped' /\ w \notin Dropped
      BY <1>1, <1>2, <1>4, <2>2, <2>4 DEF Dropped
    <2>6. Dropped \subseteq Dropped'
      BY <1>2, <2>3, DroppedClears
    <2> QED
      BY <1>2, <2>5, <2>6, DebtDropped
  <1> QED
    BY <1>5, <1>6

LEMMA ClearsDropped ==
  ASSUME NEW r \in Runner, Clears(r), UNCHANGED row PROVE Dropped \subseteq Dropped'
  BY DroppedClears DEF Clears

LEMMA DebtRunStep ==
  ASSUME AlertInv, AlertInv', RestInv, RestInv', CycleInv, DebtInv, NEW r \in Runner,
         Fire(r) \/ Proceed(r) \/ Fail(r)
  PROVE  DebtInv'
  <1>1. CASE \/ Fire(r) \/ Start(r) \/ GetItem(r) \/ ReadPrice(r) \/ SkipItem(r) \/ Compare(r)
             \/ \E u \in User : Contact(r, u)
    <2>1. Collects(r) /\ UNCHANGED <<row, told, lastMail, repeats>>
      BY <1>1, CollectingSteps DEF history
    <2>2. faults' = faults \/ Fault
      BY <1>1 DEF Fire, Start, GetItem, ReadPrice, SkipItem, Compare, Contact
    <2>3. \A w \in Watch : repeats'[w] = repeats[w] /\ (AtRisk(w)' => AtRisk(w))
      BY <2>1, RiskCollects
    <2> QED
      BY <2>1, <2>2, <2>3, DroppedCollects, DebtKept
  <1>2. ASSUME Clears(r), run[r].left = {},
               UNCHANGED <<row, told, lastMail, repeats, faults>>
        PROVE  DebtInv'
    <2>1. \A w \in Watch : AtRisk(w)' => AtRisk(w)
      BY <1>2, RiskClears
    <2> QED
      BY <1>2, <2>1, ClearsDropped, DebtKept
  <1>3. ASSUME Clears(r), Fault, UNCHANGED <<row, repeats>> PROVE DebtInv'
    BY <1>3, ClearsDropped, DebtKept
  <1>4. CASE LockBusy(r) \/ Finish(r)
    <2>1. Goto(r, Idle) /\ run[r].pc # "store" /\ UNCHANGED <<row, told, lastMail, repeats, faults>>
      BY <1>4 DEF LockBusy, Finish, environment, tables, history
    <2> QED
      BY <1>2, <2>1, IdleClears, NothingLeft
  <1>5. CASE Abort(r)
    <2>1. Goto(r, Idle) /\ Fault /\ UNCHANGED <<row, repeats>>
      BY <1>5 DEF Abort, environment, history
    <2> QED
      BY <1>3, <2>1, IdleClears
  <1>6. CASE Baseline(r)
    <2>1. PICK b \in Watch :
          /\ b = First(run[r].todo) /\ run[r].pc = "baseline" /\ run[r].todo # {}
          /\ \/ /\ Exists(b) /\ told' = [told EXCEPT ![b] = run[r].seen]
                /\ Listed(r, FALSE)
             \/ Goto(r, Idle) /\ told' = told
      BY <1>6, BaselineSteps
    <2>2. UNCHANGED <<row, lastMail, repeats, faults>> /\ run[r].left = {}
      BY <1>6, <2>1, NothingLeft DEF Baseline, environment
    <2>3. CASE Exists(b) /\ told' = [told EXCEPT ![b] = run[r].seen] /\ Listed(r, FALSE)
      <3>1. told[b] = NoPrice /\ row[b] # "gone"
        BY <2>1, <2>3 DEF CycleInv, Ready, Exists
      <3>2. lastMail[b] = NoPrice
        BY <2>1, <3>1 DEF CycleInv, Mailable
      <3>3. Collects(r)
        BY <2>1, <2>2, <2>3, ListedEffect DEF Collects
      <3>4. \A w \in Watch : w # b => told'[w] = told[w]
        BY <2>3 DEF AlertInv, Typed
      <3>5. ~AtRisk(b)'
        BY <2>2, <3>2 DEF AtRisk
      <3>6. \A w \in Watch : AtRisk(w)' => AtRisk(w)
        BY <2>2, <3>3, <3>4, <3>5, RiskCollects
      <3> QED
        BY <2>2, <3>3, <3>6, DroppedCollects, DebtKept
    <2>4. CASE Goto(r, Idle) /\ told' = told
      BY <1>2, <2>2, <2>4, IdleClears
    <2> QED
      BY <2>1, <2>3, <2>4
  <1>7. ASSUME NEW u \in User, NoContact(r, u) PROVE DebtInv'
    <2>1. BeginsToStore(r) /\ UNCHANGED <<row, told, lastMail, repeats>> /\ run'[r].user = u
      BY <1>7, SendSteps DEF NoContact
    <2>2. AtWork(r) /\ (faults' = faults \/ Fault)
      BY <1>7 DEF NoContact, Turn, AtWork
    <2>3. Dropped \subseteq Dropped'
      BY <2>1, DroppedClears DEF BeginsToStore
    <2>4. CASE Fault
      BY <2>1, <2>2, <2>3, <2>4, DebtKept
    <2>5. CASE ~reachable[u]
      <3>1. \A w \in PendingOf(r, u) : lastMail[w] = NoPrice
        BY <2>5 DEF PendingOf, CycleInv, Mailable
      <3>2. \A w \in Watch : AtRisk(w)' => AtRisk(w)
        BY <2>1, <2>2, <3>1, RiskBeginsToStore
      <3> QED
        BY <2>1, <2>2, <2>3, <3>2, DebtKept
    <2> QED
      BY <1>7, <2>4, <2>5 DEF NoContact
  <1>8. CASE Send(r)
    <2>1. BeginsToStore(r) /\ UNCHANGED <<row, told, faults>> /\ run'[r].user = run[r].user
      BY <1>8, SendSteps DEF Send
    <2>2. AtWork(r) /\ run[r].pc # "store"
      BY <1>8 DEF Send, AtWork
    <2>3. Dropped \subseteq Dropped'
      BY <2>1, DroppedClears DEF BeginsToStore
    <2>4. ASSUME NEW w \in Watch
          PROVE  \/ repeats'[w] = repeats[w] /\ (AtRisk(w)' => AtRisk(w))
                 \/ repeats'[w] \in {repeats[w], repeats[w] + 1} /\ ~AtRisk(w)'
                    /\ (repeats'[w] # repeats[w] => AtRisk(w))
      <3>1. CASE w \in PendingOf(r, run[r].user)
        <4>1. /\ run[r].pend[w] # NoPrice /\ lastMail'[w] = run[r].pend[w]
              /\ repeats'[w] = IF lastMail[w] = run[r].pend[w] THEN repeats[w] + 1 ELSE repeats[w]
          BY <1>8, <3>1, DeliveredEffect DEF Send
        <4>2. ~AtRisk(w)'
          BY <2>1, <2>2, <3>1, <4>1, RiskBeginsToStore
        <4>3. lastMail[w] = run[r].pend[w] => AtRisk(w)
          BY <2>2, <4>1, RiskPending
        <4> QED
          BY <4>1, <4>2, <4>3
      <3>2. CASE w \notin PendingOf(r, run[r].user)
        <4>1. lastMail'[w] = lastMail[w] /\ repeats'[w] = repeats[w]
          BY <1>8, <3>2, DeliveredEffect DEF Send
        <4> QED
          BY <2>1, <2>2, <3>2, <4>1, RiskBeginsToStore
      <3> QED
        BY <3>1, <3>2
    <2> QED
      BY <2>1, <2>3, <2>4, DebtKept
  <1>9. CASE SendFails(r)
    <2>1. Clears(r) /\ Fault /\ row' = row
      BY <1>9, ServedClears DEF SendFails, environment
    <2>2. CASE UNCHANGED history
      BY <1>3, <2>1, <2>2 DEF history
    <2>3. CASE Delivered(r)
      <3>1. AtWork(r) /\ run[r].pc # "store"
        BY <1>9 DEF SendFails, AtWork
      <3>2. ASSUME NEW w \in Watch
            PROVE  /\ repeats'[w] \in {repeats[w], repeats[w] + 1}
                   /\ repeats'[w] # repeats[w] => AtRisk(w)
        <4>1. CASE repeats'[w] = repeats[w]
          BY <4>1
        <4>2. CASE repeats'[w] # repeats[w]
          <5>1. /\ run[r].pend[w] # NoPrice /\ lastMail[w] = run[r].pend[w]
                /\ repeats'[w] = repeats[w] + 1
            BY <2>3, <4>2, DeliveredEffect
          <5> QED
            BY <3>1, <5>1, RiskPending
        <4> QED
          BY <4>1, <4>2
      <3> QED
        BY <2>1, <3>2, ClearsDropped, DebtKept
    <2> QED
      BY <1>9, <2>2, <2>3 DEF SendFails
  <1>10. CASE StoreFails(r)
    <2>1. Clears(r) /\ Fault /\ UNCHANGED <<row, repeats>>
      BY <1>10, ServedClears DEF StoreFails, environment, history
    <2> QED
      BY <1>3, <2>1
  <1>11. CASE EndDispatch(r)
    <2>1. Clears(r) /\ run[r].left = {} /\ UNCHANGED <<row, told, lastMail, repeats, faults>>
      BY <1>11, ServedClears DEF EndDispatch, environment, history
    <2> QED
      BY <1>2, <2>1
  <1>12. ASSUME NEW u \in User, EmptyDigest(r, u) PROVE DebtInv'
    <2>1. Clears(r) /\ run[r].left = {} /\ UNCHANGED <<row, told, lastMail, repeats, faults>>
      BY <1>12, ServedClears, NothingLeft DEF EmptyDigest, Turn, environment, history
    <2> QED
      BY <1>2, <2>1
  <1> QED
    BY <1>1, <1>4, <1>5, <1>6, <1>7, <1>8, <1>9, <1>10, <1>11, <1>12, DebtStores
    DEF Proceed, Fail

LEMMA DebtOutside ==
  ASSUME AlertInv, AlertInv', RestInv, RestInv', CycleInv, DebtInv,
         Edit \/ (\E w \in Watch, v \in Value : CollectPrice(w, v)) \/ Tick
  PROVE  DebtInv'
  <1>1. run' = run /\ UNCHANGED <<lastMail, repeats, faults>>
    BY DEF Edit, AddWatchlistItem, UpdateWatchlistItemNotification, DeleteWatchlistItem,
           SetItemActive, UpsertPreferences, VerifyAddress, CollectPrice, Tick, history
  <1>2. ASSUME NEW w \in Watch, DeleteWatchlistItem(w) PROVE DebtInv'
    <2>1. /\ told' = [told EXCEPT ![w] = NoPrice] /\ row' = [row EXCEPT ![w] = "gone"]
          /\ Exists(w)
      BY <1>2 DEF DeleteWatchlistItem
    <2>2. /\ row'[w] = "gone" /\ row[w] # "gone"
          /\ \A v \in Watch \ {w} : told'[v] = told[v] /\ row'[v] = row[v]
      BY <2>1 DEF AlertInv, Typed, Exists
    <2>3. Dropped \subseteq Dropped'
      BY <1>1, <2>2 DEF Dropped
    <2>4. \A v \in Watch \ {w} : AtRisk(v)' => AtRisk(v)
      BY <1>1, <2>2 DEF AtRisk, Awaited, Settled, Storing
    <2>5. ASSUME AtRisk(w)', Settled(w) PROVE FALSE
      <3>1. PICK r \in Runner : run[r].pend[w] = lastMail[w] /\ ~Storing(r, w)
        BY <1>1, <2>2, <2>5 DEF AtRisk, Awaited, Storing
      <3>2. run[r].pend[w] # NoPrice
        BY <1>1, <2>5, <3>1 DEF AtRisk
      <3>3. told[w] # lastMail[w]
        BY <3>1, <3>2 DEF CycleInv, Ahead
      <3>4. PICK s \in Runner : w \in run[s].left
        BY <2>5, <3>3 DEF Settled
      <3>5. AtWork(r) /\ AtWork(s)
        BY <3>2, <3>4 DEF RestInv, Blank
      <3>6. s = r
        BY <3>5 DEF CycleInv, Apart
      <3>7. Storing(r, w)
        BY <3>4, <3>6 DEF AlertInv, Sound, Storing
      <3> QED
        BY <3>1, <3>7
    <2>6. AtRisk(w)' => AtRisk(w)
      BY <1>1, <2>2, <2>5 DEF AtRisk
    <2> QED
      BY <1>1, <2>3, <2>4, <2>6, DebtKept
  <1>3. CASE ~\E w \in Watch : DeleteWatchlistItem(w)
    <2>1. told' = told /\ \A w \in Watch : row'[w] = "gone" <=> row[w] = "gone"
      BY <1>3
      DEF Edit, AddWatchlistItem, UpdateWatchlistItemNotification, SetItemActive,
          UpsertPreferences, VerifyAddress, CollectPrice, Tick, tables, AlertInv, Typed, Exists
    <2>2. Dropped' = Dropped
      BY <1>1, <2>1 DEF Dropped
    <2>3. \A w \in Watch : AtRisk(w)' => AtRisk(w)
      BY <1>1, <2>1 DEF AtRisk, Awaited, Settled, Storing
    <2> QED
      BY <1>1, <2>2, <2>3, DebtKept
  <1> QED
    BY <1>2, <1>3

LEMMA DebtStep ==
  ASSUME AlertInv, AlertInv', RestInv, RestInv', losses = 0 => CycleInv /\ DebtInv,
         [Next]_vars, losses' = 0
  PROVE  DebtInv'
  <1>1. CycleInv /\ DebtInv /\ \A r \in Runner : ~LoseSession(r)
    BY NothingLost
  <1>2. CASE UNCHANGED vars
    BY <1>1, <1>2 DEF vars, DebtInv, AtRisk, Awaited, Settled, Storing, Dropped
  <1> QED
    BY <1>1, <1>2, DebtRunStep, DebtOutside DEF Next

(* While cycles are the only runs, and as long as none of them has lost its
   lock, no mail says again of an item what the one before said, but once for
   each failure and each row deleted under a dispatch, whatever interleaves. *)
THEOREM RepeatsPaidFor == ASSUME Manual = {} PROVE Spec => []RepeatsNeedFaults
  <1>1. Init => DebtInv
    <2> SUFFICES ASSUME Init PROVE DebtInv
      OBVIOUS
    <2>1. Cardinality(Dropped) \in Nat
      BY RestInit, DroppedFinite
    <2> QED
      BY <2>1 DEF Init, DebtInv, AtRisk
  <1>2. AlertInv /\ RestInv /\ (losses = 0 => CycleInv) /\ (losses = 0 => DebtInv)
           /\ [Next]_vars => (losses = 0 => DebtInv)'
    BY AlertStep, RestStep, DebtStep
  <1>3. AlertInv /\ RestInv /\ (losses = 0 => DebtInv) => RepeatsNeedFaults
    <2> SUFFICES ASSUME AlertInv, RestInv, DebtInv, NEW w \in Watch
                 PROVE  repeats[w] <= faults + Cardinality(Gone)
      BY DEF RepeatsNeedFaults, Gone
    <2>1. repeats[w] \in Nat /\ faults \in Nat
      BY DEF AlertInv, Typed
    <2>2. repeats[w] + (IF AtRisk(w) THEN 1 ELSE 0) <= faults + Cardinality(Dropped)
      BY DEF DebtInv
    <2> QED
      BY <2>1, <2>2, DroppedFinite
  <1> QED
    BY <1>1, <1>2, <1>3, CyclesCorrect, PTL DEF Spec

-----------------------------------------------------------------------------
(* Digests, with one replica and any manual runs beside it.  The day of a cycle
   is never before the day last processed, a digest is due only if that day is
   before, and manual runs leave digests alone. *)
LEMMA DaysPass == \A t \in Nat : Day(t + 1) >= Day(t)
  <1> SUFFICES ASSUME NEW t \in Nat PROVE Day(t + 1) >= Day(t)
    OBVIOUS
  <1>1. DayLength \in Nat \ {0}
    BY AlertAssumption
  <1> QED
    BY <1>1, Z3 DEF Day

AtOnce(l) == l.due = {} /\ \A u \in User : l.mode[u] = "immediate"

Dated(s) ==
    /\ \A m \in Manual : AtOnce(run[m])
    /\ run[s].pc # "idle" => Day(run[s].at) <= Day(now)
    /\ \A u \in User : digestDay[u] # NoDay =>
          /\ digestDay[u] <= Day(now)
          /\ run[s].pc # "idle" => digestDay[u] <= Day(run[s].at)
    /\ \A u \in run[s].due :
          /\ run[s].mode[u] = "daily_digest"
          /\ digestDay[u] # NoDay => digestDay[u] < Day(run[s].at)
    /\ run[s].pc \in {"send", "store"} =>
          run[s].user \in run[s].due \/ run[s].mode[run[s].user] # "daily_digest"
    /\ \A w \in Watch : run[s].pend[w] # NoPrice => row[w] # "new"

\* A manual run mails at once, and marks no digest.
LEMMA ManualStep ==
  ASSUME AlertInv, RestInv, NEW m \in Manual, AtOnce(run[m]),
         Fire(m) \/ Proceed(m) \/ Fail(m)
  PROVE  Beside(m) /\ AtOnce(run'[m]) /\ digestDay' = digestDay
  <1>1. m \in Runner /\ m \notin Sched
    BY AlertAssumption DEF Runner
  <1>2. AtOnce(Idle)
    BY DEF AtOnce, Idle
  <1>3. ASSUME run'[m].mode = run[m].mode, run'[m].due \subseteq run[m].due
        PROVE  AtOnce(run'[m])
    BY <1>3 DEF AtOnce
  <1>4. CASE Fire(m)
    <2>1. run'[m] = [Idle EXCEPT !.pc = "start", !.at = now] /\ Beside(m)
      BY <1>1, <1>4, Went DEF Fire
    <2> QED
      BY <1>4, <2>1 DEF AtOnce, Idle, Fire, tables
  <1>5. CASE Start(m)
    <2> DEFINE mode == [u \in User |-> IF m \in Sched /\ \E w \in Subscribed : Owner[w] = u
                                       THEN pref[u].mode ELSE "immediate"]
               todo == Subscribed
               locked == m \in Sched
               l == [run[m] EXCEPT !.pc = "scan", !.locked = locked, !.todo = todo,
                                   !.mode = mode]
    <2>1. Goto(m, l)
      BY <1>5 DEF Start, ListSubscriptions
    <2>2. \A u \in User : mode[u] = "immediate"
      BY <1>1
    <2> HIDE DEF mode, todo, locked
    <2>3. l.due = run[m].due /\ l.mode = mode
      BY <1>1, RunOf DEF AlertInv, Run
    <2> HIDE DEF l
    <2>4. run'[m] = l /\ Beside(m)
      BY <1>1, <2>1, Went
    <2> QED
      BY <1>5, <2>2, <2>3, <2>4 DEF AtOnce, Start, tables
  <1>6. CASE GetItem(m) \/ ReadPrice(m) \/ SkipItem(m) \/ \E u \in User : Contact(m, u)
    <2>1. run[m].pc \in {"scan", "price"}
      BY <1>6 DEF GetItem, ReadPrice, SkipItem, Contact, Scanning, Turn
    <2>2. /\ Beside(m) /\ run'[m].mode = run[m].mode /\ run'[m].due = run[m].due
      BY <1>1, <1>6, <2>1, ScanEffect
    <2> QED
      BY <1>3, <1>6, <2>2 DEF GetItem, ReadPrice, SkipItem, Contact, tables
  <1>7. CASE LockBusy(m) \/ Finish(m) \/ Abort(m)
    <2>1. run'[m] = Idle /\ Beside(m)
      BY <1>1, <1>7, Went DEF LockBusy, Finish, Abort
    <2> QED
      BY <1>2, <1>7, <2>1 DEF LockBusy, Finish, Abort, tables
  <1>8. CASE Compare(m)
    <2>1. /\ Beside(m) /\ run'[m].mode = run[m].mode
          /\ \A u \in run'[m].due : u \in run[m].due \/ run[m].mode[u] = "daily_digest"
      BY <1>1, <1>8, CompareEffect
    <2>2. AlertInv'
      BY <1>1, AlertStep DEF Next
    <2>3. run'[m].due \in SUBSET User
      BY <1>1, <2>2 DEF AlertInv, Typed, Run
    <2>4. run'[m].due \subseteq run[m].due
      BY <2>1, <2>3 DEF AtOnce
    <2> QED
      BY <1>3, <1>8, <2>1, <2>4 DEF Compare, tables
  <1>9. CASE Baseline(m)
    <2>1. /\ run[m].todo # {}
          /\ \/ Listed(m, FALSE)
             \/ Goto(m, Idle)
      BY <1>1, <1>9, BaselineSteps
    <2>2. digestDay' = digestDay
      BY <1>9 DEF Baseline
    <2>3. CASE Listed(m, FALSE)
      <3>1. /\ Beside(m) /\ run'[m].mode = run[m].mode
            /\ \A u \in run'[m].due : u \in run[m].due \/ run[m].mode[u] = "daily_digest"
        BY <1>1, <2>1, <2>3, ListedEffect
      <3>2. AlertInv'
        BY <1>1, AlertStep DEF Next
      <3>3. run'[m].due \in SUBSET User
        BY <1>1, <3>2 DEF AlertInv, Typed, Run
      <3>4. run'[m].due \subseteq run[m].due
        BY <3>1, <3>3 DEF AtOnce
      <3> QED
        BY <1>3, <2>2, <3>1, <3>4
    <2>4. CASE Goto(m, Idle)
      BY <1>1, <1>2, <2>2, <2>4, Went
    <2> QED
      BY <2>1, <2>3, <2>4
  <1>10. CASE Send(m) \/ \E u \in User : NoContact(m, u)
    <2>1. /\ Beside(m) /\ run'[m].mode = run[m].mode /\ run'[m].due = run[m].due
      BY <1>1, <1>10, StoringEffect DEF Send, NoContact
    <2> QED
      BY <1>3, <1>10, <2>1 DEF Send, NoContact, tables
  <1>11. CASE SendFails(m) \/ StoreFails(m)
    <2>1. Served(m, run[m].user) /\ digestDay' = digestDay
      BY <1>11 DEF SendFails, StoreFails, tables
    <2> QED
      BY <1>1, <1>3, <2>1, ServedEffect
  <1>12. CASE Store(m)
    <2>1. PICK w \in Watch : \/ Goto(m, [run[m] EXCEPT !.left = run[m].left \ {w}])
                             \/ Served(m, run[m].user)
      BY <1>1, <1>12, StoreSteps
    <2>2. Beside(m) /\ run'[m].mode = run[m].mode /\ run'[m].due \subseteq run[m].due
      BY <1>1, <2>1, StoredEffect, ServedEffect
    <2> QED
      BY <1>3, <1>12, <2>2 DEF Store
  <1>13. CASE EndDispatch(m)
    <2>1. run[m].user \in User
      BY <1>1, <1>13 DEF EndDispatch, AlertInv, Sound
    <2>2. Served(m, run[m].user) /\ digestDay' = digestDay
      BY <1>13, <2>1 DEF EndDispatch, AtOnce
    <2> QED
      BY <1>1, <1>3, <2>2, ServedEffect
  <1>14. ASSUME NEW u \in User, EmptyDigest(m, u) PROVE FALSE
    BY <1>14 DEF EmptyDigest, Turn, Immediate, AtOnce
  <1> QED
    BY <1>4, <1>5, <1>6, <1>7, <1>8, <1>9, <1>10, <1>11, <1>12, <1>13, <1>14
    DEF Proceed, Fail

\* A step of the cycle of s that goes on with the day and the modes it has.
LEMMA DatedGoesOn ==
  ASSUME AlertInv, NEW s \in Sched, Dated(s), Beside(s), UNCHANGED <<row, now>>,
         run[s].pc # "idle", run'[s].at = run[s].at, run'[s].mode = run[s].mode,
         run'[s].due \subseteq User,
         \A u \in run'[s].due : /\ u \in run[s].due \/ (/\ run[s].mode[u] = "daily_digest"
                                                       /\ DigestDue(s, u))
                                /\ digestDay'[u] = digestDay[u],
         \A u \in User : digestDay'[u] \in {digestDay[u], Day(run[s].at)},
         run'[s].pc \in {"send", "store"} =>
            run'[s].user \in run'[s].due \/ run'[s].mode[run'[s].user] # "daily_digest",
         \A w \in Watch : run'[s].pend[w] \in {run[s].pend[w], NoPrice} \/ told[w] # NoPrice,
         \A w \in Watch : told[w] # NoPrice => row[w] # "new"
  PROVE  Dated(s)'
  <1>1. s \in Runner /\ s \notin Manual
    BY AlertAssumption DEF Runner
  <1>2. \A m \in Manual : AtOnce(run'[m])
    <2>1. \A m \in Manual : run'[m] = run[m]
      BY <1>1 DEF Beside, Runner
    <2> QED
      BY <2>1 DEF Dated
  <1>3. Day(run[s].at) <= Day(now) /\ Day(run[s].at) \in Nat /\ Day(now) \in Nat
    BY <1>1, RunOf, DayTyped DEF Dated, AlertInv, Typed
  <1>4. Day(run[s].at)' = Day(run[s].at) /\ Day(now)' = Day(now)
    BY DEF Day
  <1>5. \A u \in User : digestDay'[u] # NoDay =>
           digestDay'[u] <= Day(now) /\ digestDay'[u] <= Day(run[s].at)
    BY <1>3 DEF Dated
  <1>6. ASSUME NEW u \in run'[s].due
        PROVE  /\ run[s].mode[u] = "daily_digest"
               /\ digestDay'[u] # NoDay => digestDay'[u] < Day(run[s].at)
    <2>1. CASE u \in run[s].due
      BY <1>6, <2>1 DEF Dated
    <2>2. CASE run[s].mode[u] = "daily_digest" /\ DigestDue(s, u)
      <3>1. u \in User /\ digestDay'[u] = digestDay[u]
        BY <1>6
      <3>2. digestDay[u] # NoDay => digestDay[u] \in Nat /\ digestDay[u] <= Day(run[s].at)
        BY <3>1 DEF Dated, AlertInv, Typed
      <3> QED
        BY <1>3, <2>2, <3>1, <3>2 DEF DigestDue
    <2> QED
      BY <1>6, <2>1, <2>2
  <1>7. \A w \in Watch : run'[s].pend[w] # NoPrice => row'[w] # "new"
    BY DEF Dated
  <1> QED
    BY <1>2, <1>3, <1>4, <1>5, <1>6, <1>7 DEF Dated, Day

LEMMA DatedIdle ==
  ASSUME AlertInv, NEW s \in Sched, Dated(s), Goto(s, Idle), UNCHANGED <<row, now, digestDay>>
  PROVE  Dated(s)'
  <1>1. s \in Runner /\ s \notin Manual
    BY AlertAssumption DEF Runner
  <1>2. Beside(s) /\ run'[s].pc = "idle" /\ Blank(run'[s])
    BY <1>1, WentIdle
  <1>3. \A m \in Manual : run'[m] = run[m]
    BY <1>1, <1>2 DEF Beside, Runner
  <1>4. Day(now)' = Day(now)
    BY DEF Day
  <1> QED
    BY <1>2, <1>3, <1>4 DEF Dated, Blank

LEMMA DatedFire ==
  ASSUME AlertInv, NEW s \in Sched, Dated(s), Fire(s)
  PROVE  Dated(s)'
  <1>1. s \in Runner /\ s \notin Manual
    BY AlertAssumption DEF Runner
  <1>2. /\ Beside(s) /\ Blank(run'[s]) /\ run'[s].pc = "start" /\ run'[s].at = now
        /\ UNCHANGED <<row, now, digestDay>>
    BY <1>1, FireEffect DEF Fire, environment, tables
  <1>3. \A m \in Manual : run'[m] = run[m]
    BY <1>1, <1>2 DEF Beside, Runner
  <1>4. Day(now)' = Day(now) /\ Day(run[s].at)' = Day(now) /\ Day(now) \in Nat
    BY <1>2, DayTyped DEF Day, AlertInv, Typed
  <1> QED
    BY <1>2, <1>3, <1>4 DEF Dated, Blank

LEMMA DatedRunStep ==
  ASSUME AlertInv, RestInv, NEW s \in Sched, Dated(s), Fire(s) \/ Proceed(s) \/ Fail(s)
  PROVE  Dated(s)'
  <1>1. s \in Runner
    BY DEF Runner
  <1>2. AlertInv'
    BY <1>1, AlertStep DEF Next
  <1>3. run'[s].due \in SUBSET User /\ run[s].due \in SUBSET User
    BY <1>1, <1>2 DEF AlertInv, Typed, Run
  <1>4. \A w \in Watch : told[w] # NoPrice => row[w] # "new"
    BY DEF RestInv, Exists
  <1>5. ASSUME UNCHANGED <<row, now, digestDay>>, Beside(s), run[s].pc # "idle",
               run'[s].at = run[s].at, run'[s].mode = run[s].mode,
               \A u \in run'[s].due : u \in run[s].due \/ (/\ run[s].mode[u] = "daily_digest"
                                                          /\ DigestDue(s, u)),
               run'[s].pc \in {"send", "store"} =>
                  run'[s].user \in run'[s].due \/ run'[s].mode[run'[s].user] # "daily_digest",
               \A w \in Watch : run'[s].pend[w] \in {run[s].pend[w], NoPrice} \/ told[w] # NoPrice
        PROVE  Dated(s)'
    BY <1>3, <1>4, <1>5, DatedGoesOn
  <1>6. CASE Start(s)
    <2>1. run[s].pc = "start" /\ UNCHANGED <<row, now, digestDay>>
      BY <1>6 DEF Start, environment, tables
    <2>2. /\ Beside(s) /\ run'[s].pc # "idle" /\ run'[s].pend = run[s].pend
          /\ run'[s].due = run[s].due /\ run'[s].at = run[s].at
      BY <1>1, <1>6, ScanEffect
    <2>3. run'[s].due = {} /\ \A w \in Watch : run'[s].pend[w] = NoPrice
      BY <1>1, <2>1, <2>2 DEF RestInv, AtWork, Blank
    <2>4. run'[s].pc \notin {"send", "store"}
      BY <1>1, <1>6, <2>1, ScanEffect DEF Contact, Turn
    <2>5. \A m \in Manual : run'[m] = run[m]
      BY <2>2, AlertAssumption DEF Beside, Runner
    <2>6. Day(now)' = Day(now) /\ Day(run[s].at)' = Day(run[s].at)
      BY <2>1, <2>2 DEF Day
    <2> QED
      BY <2>1, <2>2, <2>3, <2>4, <2>5, <2>6 DEF Dated
  <1>7. ASSUME NEW u \in User, Turn(s, u)
        PROVE  u \in run[s].due \/ run[s].mode[u] # "daily_digest"
    BY <1>7 DEF Turn, Immediate
  <1>8. CASE GetItem(s) \/ ReadPrice(s) \/ SkipItem(s) \/ \E u \in User : Contact(s, u)
    <2>1. run[s].pc \in {"scan", "price"} /\ UNCHANGED <<row, now, digestDay>>
      BY <1>8 DEF GetItem, ReadPrice, SkipItem, Contact, Scanning, Turn, environment, tables
    <2>2. /\ Beside(s) /\ run'[s].pend = run[s].pend /\ run'[s].due = run[s].due
          /\ run'[s].at = run[s].at /\ run'[s].mode = run[s].mode
          /\ run'[s].pc \in {"scan", "price", "compare", "send"}
      BY <1>1, <1>8, <2>1, ScanEffect
    <2>3. run'[s].pc = "send" =>
             run'[s].user \in run'[s].due \/ run'[s].mode[run'[s].user] # "daily_digest"
      <3>1. run'[s].pc = "send" => \E u \in User : Contact(s, u) /\ run'[s].user = u
        BY <1>1, <1>8, ScanEffect
      <3> QED
        BY <1>7, <2>2, <3>1 DEF Contact
    <2> QED
      BY <1>5, <2>1, <2>2, <2>3
  <1>9. CASE LockBusy(s) \/ Finish(s) \/ Abort(s)
    BY <1>9, DatedIdle DEF LockBusy, Finish, Abort, environment, tables
  <1>10. CASE Compare(s)
    <2>1. UNCHANGED <<row, now, digestDay>>
      BY <1>10 DEF Compare, environment, tables
    <2>2. /\ Beside(s) /\ run[s].pc # "idle" /\ run'[s].pc \notin {"send", "store"}
          /\ run'[s].at = run[s].at /\ run'[s].mode = run[s].mode
          /\ \A u \in run'[s].due : u \in run[s].due \/ (/\ run[s].mode[u] = "daily_digest"
                                                        /\ DigestDue(s, u))
          /\ \A w \in Watch : run'[s].pend[w] \in {run[s].pend[w], NoPrice} \/ told[w] # NoPrice
      BY <1>1, <1>10, CompareEffect
    <2> QED
      BY <1>5, <2>1, <2>2
  <1>11. CASE Baseline(s)
    <2>1. /\ run[s].pc = "baseline" /\ run[s].todo # {}
          /\ Listed(s, FALSE) \/ Goto(s, Idle)
      BY <1>1, <1>11, BaselineSteps
    <2>2. UNCHANGED <<row, now, digestDay>>
      BY <1>11 DEF Baseline, environment
    <2>3. CASE Listed(s, FALSE)
      <3>1. /\ Beside(s) /\ run'[s].pc = "scan"
            /\ run'[s].at = run[s].at /\ run'[s].mode = run[s].mode
            /\ \A u \in run'[s].due : u \in run[s].due \/ (/\ run[s].mode[u] = "daily_digest"
                                                          /\ DigestDue(s, u))
            /\ \A w \in Watch : run'[s].pend[w] = run[s].pend[w]
        BY <1>1, <2>1, <2>3, ListedEffect
      <3> QED
        BY <1>5, <2>1, <2>2, <3>1
    <2> QED
      BY <2>1, <2>2, <2>3, DatedIdle
  <1>12. CASE Send(s) \/ \E u \in User : NoContact(s, u)
    <2>1. UNCHANGED <<row, now, digestDay>> /\ run[s].pc # "idle"
      BY <1>12 DEF Send, NoContact, Turn, environment, tables
    <2>2. PICK u \in User :
             /\ u \in run[s].due \/ run[s].mode[u] # "daily_digest"
             /\ run'[s].user = u
             /\ Beside(s) /\ run'[s].pc = "store" /\ run'[s].pend = run[s].pend
             /\ run'[s].due = run[s].due
             /\ run'[s].at = run[s].at /\ run'[s].mode = run[s].mode
      <3>1. CASE Send(s)
        <4>1. run[s].user \in User /\ run[s].pc = "send"
          BY <1>1, <3>1 DEF Send, AlertInv, Sound
        <4>2. run[s].user \in run[s].due \/ run[s].mode[run[s].user] # "daily_digest"
          BY <4>1 DEF Dated
        <4> QED
          BY <1>1, <3>1, <4>1, <4>2, StoringEffect DEF Send
      <3>2. ASSUME NEW u \in User, NoContact(s, u)
            PROVE  /\ u \in run[s].due \/ run[s].mode[u] # "daily_digest"
                   /\ run'[s].user = u
                   /\ Beside(s) /\ run'[s].pc = "store" /\ run'[s].pend = run[s].pend
                   /\ run'[s].due = run[s].due
                   /\ run'[s].at = run[s].at /\ run'[s].mode = run[s].mode
        BY <1>1, <1>7, <3>2, StoringEffect DEF NoContact
      <3> QED
        BY <1>12, <3>1, <3>2
    <2> QED
      BY <1>5, <2>1, <2>2
  <1>13. CASE SendFails(s) \/ StoreFails(s)
    <2>1. /\ Served(s, run[s].user) /\ UNCHANGED <<row, now, digestDay>> /\ run[s].pc # "idle"
      BY <1>13 DEF SendFails, StoreFails, environment, tables
    <2> QED
      BY <1>1, <1>5, <2>1, ServedEffect
  <1>14. CASE Store(s)
    <2>1. PICK w \in Watch : \/ Goto(s, [run[s] EXCEPT !.left = run[s].left \ {w}])
                             \/ Served(s, run[s].user)
      BY <1>1, <1>14, StoreSteps
    <2>2. run[s].pc = "store" /\ UNCHANGED <<row, now, digestDay>>
      BY <1>14 DEF Store, environment
    <2>3. run[s].user \in run[s].due \/ run[s].mode[run[s].user] # "daily_digest"
      BY <2>2 DEF Dated
    <2>4. CASE Goto(s, [run[s] EXCEPT !.left = run[s].left \ {w}])
      <3>1. /\ Beside(s) /\ run'[s].user = run[s].user /\ run'[s].pend = run[s].pend
            /\ run'[s].due = run[s].due /\ run'[s].mode = run[s].mode
            /\ run'[s].at = run[s].at
        BY <1>1, <2>4, StoredEffect
      <3> QED
        BY <1>5, <2>2, <2>3, <3>1
    <2>5. CASE Served(s, run[s].user)
      BY <1>1, <1>5, <2>2, <2>5, ServedEffect
    <2> QED
      BY <2>1, <2>4, <2>5
  <1>15. ASSUME NEW u \in User, Served(s, u), UNCHANGED <<row, now>>, run[s].pc # "idle",
                digestDay' = digestDay \/ digestDay' = [digestDay EXCEPT ![u] = Day(run[s].at)]
         PROVE  Dated(s)'
    <2>1. \A v \in User : /\ digestDay'[v] \in {digestDay[v], Day(run[s].at)}
                          /\ v # u => digestDay'[v] = digestDay[v]
      BY <1>15 DEF AlertInv, Typed
    <2>2. /\ Beside(s) /\ run'[s].pc = "scan" /\ run'[s].due = run[s].due \ {u}
          /\ run'[s].mode = run[s].mode /\ run'[s].at = run[s].at
          /\ \A w \in Watch : run'[s].pend[w] \in {run[s].pend[w], NoPrice}
      BY <1>1, <1>15, ServedEffect
    <2>3. \A v \in run'[s].due : v \in run[s].due /\ digestDay'[v] = digestDay[v]
      BY <1>3, <2>1, <2>2
    <2> QED
      BY <1>3, <1>4, <1>15, <2>1, <2>2, <2>3, DatedGoesOn
  <1>16. CASE EndDispatch(s)
    <2>1. run[s].user \in User
      BY <1>1, <1>16 DEF EndDispatch, AlertInv, Sound
    <2> QED
      BY <1>15, <1>16, <2>1 DEF EndDispatch, environment
  <1>17. ASSUME NEW u \in User, EmptyDigest(s, u) PROVE Dated(s)'
    BY <1>15, <1>17 DEF EmptyDigest, Turn, environment
  <1> QED
    BY <1>6, <1>8, <1>9, <1>10, <1>11, <1>12, <1>13, <1>14, <1>16, <1>17, DatedFire
    DEF Proceed, Fail

LEMMA DatedBeside ==
  ASSUME AlertInv, RestInv, NEW s \in Sched, Dated(s), NEW m \in Manual,
         Fire(m) \/ Proceed(m) \/ Fail(m)
  PROVE  Dated(s)' /\ run'[s] = run[s] /\ UNCHANGED <<row, now, digestDay>>
  <1>1. /\ Beside(m) /\ AtOnce(run'[m]) /\ digestDay' = digestDay
    BY ManualStep DEF Dated
  <1>2. s # m /\ s \in Runner /\ m \in Runner
    BY AlertAssumption DEF Runner
  <1>3. run'[s] = run[s] /\ \A n \in Manual : AtOnce(run'[n])
    BY <1>1, <1>2 DEF Beside, Runner, Dated
  <1>4. UNCHANGED <<row, now>>
    BY <1>2, ScanKept, CompareKept, BaselineKept, ContactKept, SendKept, StoreKept
    DEF Proceed, Fail, Kept, environment
  <1>5. Day(now)' = Day(now) /\ Day(run[s].at)' = Day(run[s].at)
    BY <1>3, <1>4 DEF Day
  <1> QED
    BY <1>1, <1>3, <1>4, <1>5 DEF Dated

LEMMA DatedOutside ==
  ASSUME AlertInv, NEW s \in Sched, Dated(s),
         Edit \/ (\E w \in Watch, v \in Value : CollectPrice(w, v)) \/ Tick
  PROVE  Dated(s)'
  <1>1. run' = run /\ digestDay' = digestDay
    BY DEF Edit, AddWatchlistItem, UpdateWatchlistItemNotification, DeleteWatchlistItem,
           SetItemActive, UpsertPreferences, VerifyAddress, CollectPrice, Tick, tables
  <1>2. \A w \in Watch : row[w] # "new" => row'[w] # "new"
    BY DEF Edit, AddWatchlistItem, UpdateWatchlistItemNotification, DeleteWatchlistItem,
           SetItemActive, UpsertPreferences, VerifyAddress, CollectPrice, Tick, AlertInv, Typed
  <1>3. now' = now \/ now' = now + 1
    BY DEF Edit, AddWatchlistItem, UpdateWatchlistItemNotification, DeleteWatchlistItem,
           SetItemActive, UpsertPreferences, VerifyAddress, CollectPrice, Tick
  <1>4. Day(now) <= Day(now)' /\ Day(now) \in Nat /\ Day(now)' \in Nat
    <2>1. Day(now)' = Day(now')
      BY DEF Day
    <2> QED
      BY <1>3, <2>1, DaysPass, DayTyped DEF AlertInv, Typed
  <1>5. Day(run[s].at)' = Day(run[s].at) /\ Day(run[s].at) \in Nat
    BY <1>1, RunOf, DayTyped DEF Day, AlertInv, Runner
  <1>6. \A u \in User : digestDay[u] # NoDay => digestDay[u] \in Nat
    BY DEF AlertInv, Typed
  <1> QED
    BY <1>1, <1>2, <1>4, <1>5, <1>6 DEF Dated

-----------------------------------------------------------------------------
(* The digests of a user and day are numbered from 0.  All but one of them have
   a failure to pay for them, or a deleted row that ended the dispatch before
   the day was marked; the one, if the day is marked or about to be. *)
Mailed(d) == {x \in digests : x[1] = d}

Numbered ==
    /\ digests \in SUBSET ((User \X Nat) \X Nat)
    /\ IsFiniteSet(digests)
    /\ \A x \in digests : x[2] < Cardinality(Mailed(x[1]))

Closed(s, u, day) ==
    \/ digestDay[u] # NoDay /\ digestDay[u] >= day
    \/ /\ run[s].pc = "store" /\ run[s].user = u
       /\ run[s].mode[u] = "daily_digest" /\ Day(run[s].at) = day

Cut(s) == {w \in Watch : row[w] = "gone" /\ run[s].pend[w] = NoPrice}

DigestInv(s) ==
    /\ Numbered
    /\ \A u \in User, day \in Nat :
          Cardinality(Mailed(<<u, day>>))
             <= faults + Cardinality(Cut(s)) + (IF Closed(s, u, day) THEN 1 ELSE 0)

LEMMA MailedFinite ==
  ASSUME Numbered, NEW d
  PROVE  IsFiniteSet(Mailed(d)) /\ Cardinality(Mailed(d)) \in Nat
  <1>1. Mailed(d) \subseteq digests
    BY DEF Mailed
  <1> QED
    BY <1>1, FS_Subset, FS_CardinalityType DEF Numbered

LEMMA MailedOnce ==
  ASSUME Numbered, NEW d \in User \X Nat,
         digests' = digests \union {<<d, Cardinality(Mailed(d))>>}
  PROVE  /\ Numbered'
         /\ Cardinality(Mailed(d)') = Cardinality(Mailed(d)) + 1
         /\ \A e : e # d => Mailed(e)' = Mailed(e)
  <1> DEFINE n == Cardinality(Mailed(d))
             x == <<d, n>>
  <1>1. n \in Nat /\ IsFiniteSet(Mailed(d))
    BY MailedFinite
  <1>2. x \notin Mailed(d)
    BY <1>1 DEF Mailed, Numbered
  <1> HIDE DEF n
  <1>3. Mailed(d)' = Mailed(d) \union {x}
    BY DEF Mailed, n
  <1>4. Cardinality(Mailed(d)') = Cardinality(Mailed(d)) + 1
    BY <1>1, <1>2, <1>3, FS_AddElement
  <1>5. \A e : e # d => Mailed(e)' = Mailed(e)
    BY DEF Mailed
  <1>6. digests' \in SUBSET ((User \X Nat) \X Nat) /\ IsFiniteSet(digests')
    <2>1. digests' = digests \union {x}
      BY DEF n
    <2>2. x \in (User \X Nat) \X Nat
      BY <1>1
    <2>3. IsFiniteSet(digests)
      BY DEF Numbered
    <2> HIDE DEF x
    <2>4. IsFiniteSet(digests')
      BY <2>1, <2>3, FS_AddElement
    <2> QED
      BY <2>1, <2>2, <2>4 DEF Numbered
  <1>7. ASSUME NEW y \in digests' PROVE y[2] < Cardinality(Mailed(y[1])')
    <2>1. CASE y[1] = d
      <3>1. y = x \/ y \in digests
        BY DEF n
      <3>2. y \in digests => y[2] \in Nat /\ y[2] < n
        BY <2>1 DEF Numbered, n
      <3> QED
        BY <1>1, <1>4, <2>1, <3>1, <3>2 DEF n
    <2>2. CASE y[1] # d
      <3>1. y \in digests
        BY <2>2
      <3> QED
        BY <1>5, <2>2, <3>1 DEF Numbered
    <2> QED
      BY <2>1, <2>2
  <1>8. \A y \in digests' : y[2] < Cardinality(Mailed(y[1]))'
    <2>1. ASSUME NEW y \in digests' PROVE Mailed(y[1])' = {z \in digests' : z[1] = y[1]}
      BY DEF Mailed
    <2> QED
      BY <1>7 DEF Mailed
  <1> QED
    BY <1>4, <1>5, <1>6, <1>8 DEF Numbered

LEMMA CutFinite ==
  ASSUME RestInv, NEW s
  PROVE  /\ IsFiniteSet(Cut(s)) /\ Cardinality(Cut(s)) \in Nat
         /\ Cardinality(Cut(s)) <= Cardinality(Gone) /\ Cardinality(Gone) \in Nat
  <1>1. IsFiniteSet(Gone) /\ Cut(s) \subseteq Gone
    BY DEF RestInv, Gone, Cut
  <1> QED
    BY <1>1, FS_Subset, FS_CardinalityType

LEMMA CutStaysFinite == ASSUME RestInv', NEW s PROVE IsFiniteSet(Cut(s)')
  <1>1. IsFiniteSet(Gone') /\ Cut(s)' \subseteq Gone'
    BY DEF RestInv, Gone, Cut
  <1> QED
    BY <1>1, FS_Subset

LEMMA PendEffect ==
  ASSUME AlertInv, RestInv, NEW r \in Runner, Fire(r) \/ Proceed(r) \/ Fail(r)
  PROVE  /\ \A w \in Watch : run'[r].pend[w] \in {run[r].pend[w], NoPrice} \/ told[w] # NoPrice
         /\ row' = row /\ (faults' = faults \/ Fault)
  <1>1. CASE \/ Fire(r) \/ Start(r) \/ GetItem(r) \/ ReadPrice(r) \/ SkipItem(r) \/ Compare(r)
             \/ \E u \in User : Contact(r, u)
    <2>1. faults' = faults \/ Fault
      BY <1>1 DEF Fire, Start, GetItem, ReadPrice, SkipItem, Compare, Contact
    <2> QED
      BY <1>1, <2>1, CollectingSteps DEF Collects
  <1>2. CASE LockBusy(r) \/ Finish(r) \/ Abort(r)
    <2>1. Goto(r, Idle) /\ row' = row /\ (faults' = faults \/ Fault)
      BY <1>2 DEF LockBusy, Finish, Abort, environment
    <2> QED
      BY <2>1, WentIdle DEF Blank
  <1>3. CASE Baseline(r)
    <2>1. run[r].todo # {} /\ (Listed(r, FALSE) \/ Goto(r, Idle))
      BY <1>3, BaselineSteps
    <2> QED
      BY <1>3, <2>1, ListedEffect, WentIdle DEF Blank, Baseline, environment
  <1>4. CASE Send(r) \/ \E u \in User : NoContact(r, u)
    <2>1. row' = row /\ (faults' = faults \/ Fault)
      BY <1>4 DEF Send, NoContact, environment
    <2> QED
      BY <1>4, <2>1, SendSteps DEF BeginsToStore
  <1>5. CASE SendFails(r) \/ StoreFails(r) \/ EndDispatch(r) \/ \E u \in User : EmptyDigest(r, u)
    <2>1. row' = row /\ (faults' = faults \/ Fault) /\ \E u : Served(r, u)
      BY <1>5 DEF SendFails, StoreFails, EndDispatch, EmptyDigest, environment
    <2> QED
      BY <2>1, ServedEffect
  <1>6. CASE Store(r)
    <2>1. PICK w \in Watch : \/ Goto(r, [run[r] EXCEPT !.left = run[r].left \ {w}])
                             \/ Served(r, run[r].user)
      BY <1>6, StoreSteps
    <2>2. row' = row /\ faults' = faults
      BY <1>6 DEF Store, environment
    <2> QED
      BY <2>1, <2>2, StoredEffect, ServedEffect
  <1> QED
    BY <1>1, <1>2, <1>3, <1>4, <1>5, <1>6 DEF Proceed, Fail

LEMMA CutGrows ==
  ASSUME RestInv, NEW s, row' = row,
         \A w \in Watch : run'[s].pend[w] \in {run[s].pend[w], NoPrice} \/ told[w] # NoPrice
  PROVE  Cut(s) \subseteq Cut(s)'
  BY DEF Cut, RestInv, Exists

\* No digest more, or the one a day may have, or one that a failure pays for.
LEMMA DigestKept ==
  ASSUME AlertInv, AlertInv', RestInv, RestInv', NEW s \in Sched, DigestInv(s), Numbered',
         Cut(s) \subseteq Cut(s)', faults' = faults \/ Fault,
         \A u \in User, day \in Nat :
            LET n == Cardinality(Mailed(<<u, day>>))
                m == Cardinality(Mailed(<<u, day>>)')
            IN  \/ m = n /\ (Closed(s, u, day) => Closed(s, u, day)')
                \/ m = n /\ Fault
                \/ m = n + 1 /\ Fault /\ (Closed(s, u, day) => Closed(s, u, day)')
                \/ m = n + 1 /\ ~Closed(s, u, day) /\ Closed(s, u, day)'
  PROVE  DigestInv(s)'
  <1>1. /\ Cardinality(Cut(s)) \in Nat /\ Cardinality(Cut(s)') \in Nat
        /\ Cardinality(Cut(s)) <= Cardinality(Cut(s)')
    <2>1. IsFiniteSet(Cut(s)) /\ IsFiniteSet(Cut(s)')
      BY CutFinite, CutStaysFinite
    <2> QED
      BY <2>1, FS_Subset, FS_CardinalityType
  <1>2. faults \in Nat /\ faults' \in Nat /\ (Fault => faults' = faults + 1)
    BY DEF AlertInv, Typed, Fault
  <1>3. ASSUME NEW u \in User, NEW day \in Nat
        PROVE  Cardinality(Mailed(<<u, day>>)')
                  <= faults' + Cardinality(Cut(s)') + (IF Closed(s, u, day)' THEN 1 ELSE 0)
    <2> DEFINE n == Cardinality(Mailed(<<u, day>>))
               m == Cardinality(Mailed(<<u, day>>)')
    <2>1. n \in Nat
      BY MailedFinite DEF DigestInv
    <2>2. n <= faults + Cardinality(Cut(s)) + (IF Closed(s, u, day) THEN 1 ELSE 0)
      BY DEF DigestInv
    <2>3. \/ m = n /\ (Closed(s, u, day) => Closed(s, u, day)')
          \/ m = n /\ Fault
          \/ m = n + 1 /\ Fault /\ (Closed(s, u, day) => Closed(s, u, day)')
          \/ m = n + 1 /\ ~Closed(s, u, day) /\ Closed(s, u, day)'
      OBVIOUS
    <2> HIDE DEF n, m
    <2>4. m <= faults' + Cardinality(Cut(s)') + (IF Closed(s, u, day)' THEN 1 ELSE 0)
      BY <1>1, <1>2, <2>1, <2>2, <2>3
    <2> QED
      BY <2>4 DEF m
  <1> QED
    BY <1>3 DEF DigestInv

LEMMA DigestCut ==
  ASSUME AlertInv, RestInv, RestInv', NEW s \in Sched, DigestInv(s),
         Cut(s) \subseteq Cut(s)', NEW w \in Cut(s)', w \notin Cut(s),
         UNCHANGED <<digests, faults>>
  PROVE  DigestInv(s)'
  <1>1. /\ Cardinality(Cut(s)) \in Nat /\ Cardinality(Cut(s)') \in Nat
        /\ Cardinality(Cut(s)) + 1 <= Cardinality(Cut(s)')
    <2>1. IsFiniteSet(Cut(s)) /\ IsFiniteSet(Cut(s)')
      BY CutFinite, CutStaysFinite
    <2>2. Cut(s) # Cut(s)'
      OBVIOUS
    <2> QED
      BY <2>1, <2>2, FS_Subset, FS_CardinalityType
  <1>2. Numbered' /\ \A d : Mailed(d)' = Mailed(d)
    BY DEF DigestInv, Numbered, Mailed
  <1>3. ASSUME NEW u \in User, NEW day \in Nat
        PROVE  Cardinality(Mailed(<<u, day>>))
                  <= faults + Cardinality(Cut(s)') + (IF Closed(s, u, day)' THEN 1 ELSE 0)
    <2> DEFINE n == Cardinality(Mailed(<<u, day>>))
    <2>1. n \in Nat /\ faults \in Nat
      BY MailedFinite DEF DigestInv, AlertInv, Typed
    <2>2. n <= faults + Cardinality(Cut(s)) + (IF Closed(s, u, day) THEN 1 ELSE 0)
      BY DEF DigestInv
    <2> HIDE DEF n
    <2>3. n <= faults + Cardinality(Cut(s)') + (IF Closed(s, u, day)' THEN 1 ELSE 0)
      BY <1>1, <2>1, <2>2
    <2> QED
      BY <2>3 DEF n
  <1> QED
    BY <1>2, <1>3 DEF DigestInv

\* No mail of a digest, and what is marked or stored stays so.
LEMMA SameDigests ==
  ASSUME Numbered, digests' = digests
  PROVE  Numbered' /\ \A d : Mailed(d)' = Mailed(d)
  BY DEF Numbered, Mailed

LEMMA DigestQuiet ==
  ASSUME AlertInv, AlertInv', RestInv, RestInv', NEW s \in Sched, DigestInv(s),
         digests' = digests, Cut(s) \subseteq Cut(s)',
         \/ Fault
         \/ /\ faults' = faults
            /\ \A u \in User, day \in Nat : Closed(s, u, day) => Closed(s, u, day)'
  PROVE  DigestInv(s)'
  <1>1. Numbered' /\ \A d : Mailed(d)' = Mailed(d)
    BY SameDigests DEF DigestInv
  <1>2. faults' = faults \/ Fault
    OBVIOUS
  <1>3. \A u \in User, day \in Nat :
           /\ Cardinality(Mailed(<<u, day>>)') = Cardinality(Mailed(<<u, day>>))
           /\ Fault \/ (Closed(s, u, day) => Closed(s, u, day)')
    BY <1>1
  <1> QED
    BY <1>1, <1>2, <1>3, DigestKept

\* A mail of run s: one digest at most, of the day of its cycle.
LEMMA DigestDelivered ==
  ASSUME AlertInv, Numbered, NEW s \in Runner, Delivered(s), run[s].user \in User
  PROVE  LET d == <<run[s].user, Day(run[s].at)>>
         IN  /\ Numbered'
             /\ d \in User \X Nat
             /\ \/ digests' = digests
                \/ /\ run[s].mode[run[s].user] = "daily_digest"
                   /\ Cardinality({x \in digests' : x[1] = d}) = Cardinality(Mailed(d)) + 1
                   /\ \A e : e # d => Mailed(e)' = Mailed(e)
  <1>1. PICK d \in User \X Nat : d = <<run[s].user, Day(run[s].at)>>
    BY RunOf, DayTyped DEF AlertInv
  <1>2. CASE run[s].mode[run[s].user] = "daily_digest"
    <2>1. digests' = digests \union {<<d, Cardinality(Mailed(d))>>}
      BY <1>1, <1>2 DEF Delivered, Mailed
    <2>2. /\ Numbered'
          /\ Cardinality(Mailed(d)') = Cardinality(Mailed(d)) + 1
          /\ \A e : e # d => Mailed(e)' = Mailed(e)
      BY <2>1, MailedOnce
    <2>3. Mailed(d)' = {x \in digests' : x[1] = d}
      BY DEF Mailed
    <2> QED
      BY <1>1, <1>2, <2>2, <2>3
  <1>3. CASE run[s].mode[run[s].user] # "daily_digest"
    <2>1. digests' = digests
      BY <1>3 DEF Delivered
    <2> QED
      BY <1>1, <2>1, SameDigests
  <1> QED
    BY <1>2, <1>3

LEMMA DigestSends ==
  ASSUME AlertInv, AlertInv', RestInv, RestInv', NEW s \in Sched, Dated(s), DigestInv(s),
         Send(s) \/ SendFails(s)
  PROVE  DigestInv(s)'
  <1>1. s \in Runner /\ run[s].pc = "send" /\ run[s].user \in User
    BY DEF Runner, Send, SendFails, AlertInv, Sound
  <1>2. /\ Cut(s) \subseteq Cut(s)' /\ (faults' = faults \/ Fault) /\ digestDay' = digestDay
    <2>1. digestDay' = digestDay
      BY DEF Send, SendFails, tables
    <2> QED
      BY <1>1, <2>1, PendEffect, CutGrows DEF Proceed, Fail
  <1>3. \A u \in User, day \in Nat : Closed(s, u, day) => Closed(s, u, day)'
    BY <1>1, <1>2 DEF Closed
  <1>4. CASE digests' = digests
    <2>1. Send(s) => faults' = faults
      BY DEF Send
    <2>2. SendFails(s) => Fault
      BY DEF SendFails
    <2> QED
      BY <1>2, <1>3, <1>4, <2>1, <2>2, DigestQuiet
  <1>5. CASE digests' # digests
    <2>1. Delivered(s)
      BY <1>5 DEF Send, SendFails, history
    <2>2. PICK d \in User \X Nat : d = <<run[s].user, Day(run[s].at)>>
      BY <1>1, RunOf, DayTyped DEF AlertInv
    <2>3. /\ Numbered' /\ run[s].mode[run[s].user] = "daily_digest"
          /\ Cardinality(Mailed(d)') = Cardinality(Mailed(d)) + 1
          /\ \A e : e # d => Mailed(e)' = Mailed(e)
      <3>1. Mailed(d)' = {x \in digests' : x[1] = d}
        BY DEF Mailed
      <3> QED
        BY <1>1, <1>5, <2>1, <2>2, <3>1, DigestDelivered DEF DigestInv
    <2>4. ASSUME Send(s)
          PROVE  ~Closed(s, run[s].user, Day(run[s].at))
                 /\ \A u \in User, day \in Nat :
                       <<u, day>> = d => ~Closed(s, u, day) /\ Closed(s, u, day)'
      <3>1. run[s].user \in run[s].due
        BY <1>1, <2>3 DEF Dated
      <3>2. digestDay[run[s].user] # NoDay => digestDay[run[s].user] < Day(run[s].at)
        BY <3>1 DEF Dated
      <3>3. digestDay[run[s].user] # NoDay => digestDay[run[s].user] \in Nat
        BY <1>1 DEF AlertInv, Typed
      <3>4. Day(run[s].at) \in Nat
        BY <2>2
      <3>5. ~Closed(s, run[s].user, Day(run[s].at))
        BY <1>1, <3>2, <3>3, <3>4 DEF Closed
      <3>6. /\ run'[s].pc = "store" /\ run'[s].user = run[s].user
            /\ run'[s].mode = run[s].mode /\ run'[s].at = run[s].at
        BY <1>1, <2>4, StoringEffect DEF Send
      <3>7. \A u \in User, day \in Nat :
               <<u, day>> = d => u = run[s].user /\ day = Day(run[s].at)
        BY <2>2
      <3>8. Day(run[s].at)' = Day(run[s].at)
        BY <3>6 DEF Day
      <3> QED
        BY <2>3, <3>5, <3>6, <3>7, <3>8 DEF Closed
    <2>5. ASSUME NEW u \in User, NEW day \in Nat
          PROVE  LET n == Cardinality(Mailed(<<u, day>>))
                     m == Cardinality(Mailed(<<u, day>>)')
                 IN  \/ m = n /\ (Closed(s, u, day) => Closed(s, u, day)')
                     \/ m = n /\ Fault
                     \/ m = n + 1 /\ Fault /\ (Closed(s, u, day) => Closed(s, u, day)')
                     \/ m = n + 1 /\ ~Closed(s, u, day) /\ Closed(s, u, day)'
      <3>1. CASE <<u, day>> = d
        <4>1. SendFails(s) => Fault
          BY DEF SendFails
        <4> QED
          BY <1>3, <2>3, <2>4, <3>1, <4>1
      <3>2. CASE <<u, day>> # d
        <4>1. Mailed(<<u, day>>)' = Mailed(<<u, day>>)
          BY <2>3, <3>2
        <4> QED
          BY <1>3, <4>1
      <3> QED
        BY <3>1, <3>2
    <2> QED
      BY <1>2, <2>3, <2>5, DigestKept
  <1> QED
    BY <1>4, <1>5

LEMMA DigestStores ==
  ASSUME AlertInv, AlertInv', RestInv, RestInv', NEW s \in Sched, Dated(s), DigestInv(s), Store(s)
  PROVE  DigestInv(s)'
  <1>1. s \in Runner
    BY DEF Runner
  <1>2. PICK w \in run[s].left :
           /\ w \in Watch /\ Owner[w] = run[s].user /\ run[s].pend[w] \in Price
           /\ \/ /\ Exists(w)
                 /\ Goto(s, [run[s] EXCEPT !.left = run[s].left \ {w}])
              \/ /\ ~Exists(w)
                 /\ Served(s, run[s].user)
    BY <1>1, StoreSteps
  <1>3. UNCHANGED <<row, faults, digests, digestDay>>
    BY DEF Store, environment, history
  <1>4. Cut(s) \subseteq Cut(s)'
    BY <1>1, PendEffect, CutGrows DEF Proceed
  <1>5. CASE Exists(w)
    <2>1. /\ run'[s].pc = run[s].pc /\ run'[s].user = run[s].user
          /\ run'[s].mode = run[s].mode /\ run'[s].at = run[s].at
      BY <1>1, <1>2, <1>5, StoredEffect
    <2>2. Day(run[s].at)' = Day(run[s].at)
      BY <2>1 DEF Day
    <2>3. \A u \in User, day \in Nat : Closed(s, u, day) => Closed(s, u, day)'
      BY <1>3, <2>1, <2>2 DEF Closed
    <2> QED
      BY <1>3, <1>4, <2>3, DigestQuiet
  <1>6. CASE ~Exists(w)
    <2>1. run[s].pend[w] # NoPrice
      BY <1>2, AlertAssumption DEF Price
    <2>2. row[w] = "gone"
      BY <1>2, <1>6, <2>1 DEF Dated, Exists, AlertInv, Typed
    <2>3. run'[s].pend[w] = NoPrice
      BY <1>1, <1>2, <1>6, ServedEffect
    <2>4. w \in Cut(s)' /\ w \notin Cut(s)
      BY <1>2, <1>3, <2>1, <2>2, <2>3 DEF Cut
    <2> QED
      BY <1>3, <1>4, <2>4, DigestCut
  <1> QED
    BY <1>5, <1>6

LEMMA DigestRunStep ==
  ASSUME AlertInv, AlertInv', RestInv, RestInv', NEW s \in Sched, Dated(s), DigestInv(s),
         Fire(s) \/ Proceed(s) \/ Fail(s)
  PROVE  DigestInv(s)'
  <1>1. s \in Runner
    BY DEF Runner
  <1>2. Cut(s) \subseteq Cut(s)' /\ (faults' = faults \/ Fault)
    BY <1>1, PendEffect, CutGrows
  <1>3. ASSUME digests' = digests, digestDay' = digestDay, run[s].pc # "store" \/ Fault
        PROVE  DigestInv(s)'
    <2>1. run[s].pc # "store" =>
             \A u \in User, day \in Nat : Closed(s, u, day) => Closed(s, u, day)'
      BY <1>3 DEF Closed
    <2> QED
      BY <1>2, <1>3, <2>1, DigestQuiet
  <1>4. CASE \/ Fire(s) \/ Start(s) \/ LockBusy(s) \/ GetItem(s) \/ ReadPrice(s) \/ SkipItem(s)
             \/ Compare(s) \/ Baseline(s) \/ Finish(s) \/ \E u \in User : Contact(s, u) \/ NoContact(s, u)
    <2>1. run[s].pc # "store" /\ digests' = digests /\ digestDay' = digestDay
      BY <1>4
      DEF Fire, Start, LockBusy, GetItem, ReadPrice, SkipItem, Scanning, Compare, Baseline, Finish,
          Contact, NoContact, Turn, tables, history
    <2> QED
      BY <1>3, <2>1
  <1>5. CASE StoreFails(s) \/ Abort(s)
    <2>1. Fault /\ digests' = digests /\ digestDay' = digestDay
      BY <1>5 DEF StoreFails, Abort, tables, history
    <2> QED
      BY <1>3, <2>1
  <1>6. ASSUME NEW u \in User, digestDay' = [digestDay EXCEPT ![u] = Day(run[s].at)],
               digests' = digests, faults' = faults, run[s].pc # "idle",
               run[s].pc = "store" => run[s].user = u
        PROVE  DigestInv(s)'
    <2>1. digestDay'[u] = Day(run[s].at) /\ \A v \in User \ {u} : digestDay'[v] = digestDay[v]
      BY <1>6 DEF AlertInv, Typed
    <2>2. Day(run[s].at) \in Nat /\ Day(run[s].at) # NoDay
      BY <1>1, RunOf, DayTyped, AlertAssumption DEF AlertInv
    <2>3. digestDay[u] # NoDay => digestDay[u] \in Nat /\ digestDay[u] <= Day(run[s].at)
      BY <1>6 DEF Dated, AlertInv, Typed
    <2>4. \A v \in User, day \in Nat : Closed(s, v, day) => Closed(s, v, day)'
      BY <1>6, <2>1, <2>2, <2>3 DEF Closed
    <2> QED
      BY <1>2, <1>6, <2>4, DigestQuiet
  <1>7. ASSUME NEW u \in User, EmptyDigest(s, u) PROVE DigestInv(s)'
    BY <1>6, <1>7 DEF EmptyDigest, Turn, history
  <1>8. CASE EndDispatch(s)
    <2>1. /\ run[s].pc = "store" /\ run[s].user \in User
          /\ digests' = digests /\ faults' = faults
      BY <1>1, <1>8 DEF EndDispatch, AlertInv, Sound, history
    <2>2. CASE run[s].mode[run[s].user] = "daily_digest"
      BY <1>6, <1>8, <2>1, <2>2 DEF EndDispatch
    <2>3. CASE run[s].mode[run[s].user] # "daily_digest"
      <3>1. digestDay' = digestDay
        BY <1>8, <2>3 DEF EndDispatch
      <3>2. \A v \in User, day \in Nat : Closed(s, v, day) => Closed(s, v, day)'
        BY <2>3, <3>1 DEF Closed
      <3> QED
        BY <1>2, <2>1, <3>2, DigestQuiet
    <2> QED
      BY <2>2, <2>3
  <1> QED
    BY <1>4, <1>5, <1>7, <1>8, DigestSends, DigestStores DEF Proceed, Fail

LEMMA DigestBeside ==
  ASSUME AlertInv, AlertInv', RestInv, RestInv', NEW s \in Sched, Dated(s), DigestInv(s),
         NEW m \in Manual, Fire(m) \/ Proceed(m) \/ Fail(m)
  PROVE  DigestInv(s)'
  <1>1. run'[s] = run[s] /\ UNCHANGED <<row, now, digestDay>>
    BY DatedBeside
  <1>2. m \in Runner
    BY DEF Runner
  <1>3. digests' = digests
    <2>1. CASE Send(m) \/ SendFails(m)
      <3>1. run[m].user \in User
        BY <1>2, <2>1 DEF Send, SendFails, AlertInv, Sound
      <3>2. run[m].mode[run[m].user] = "immediate"
        BY <3>1 DEF Dated, AtOnce
      <3> QED
        BY <2>1, <3>2 DEF Send, SendFails, Delivered, history
    <2>2. CASE ~Send(m) /\ ~SendFails(m)
      BY <2>2
      DEF Proceed, Fail, Fire, Start, LockBusy, GetItem, ReadPrice, SkipItem, Compare,
          Baseline, Finish, Contact, NoContact, EmptyDigest, Store, StoreFails, EndDispatch, Abort, history
    <2> QED
      BY <2>1, <2>2
  <1>4. faults' = faults \/ Fault
    BY <1>2, PendEffect
  <1>5. Cut(s)' = Cut(s)
    BY <1>1 DEF Cut
  <1>6. Day(run[s].at)' = Day(run[s].at)
    BY <1>1 DEF Day
  <1>7. \A u \in User, day \in Nat : Closed(s, u, day) => Closed(s, u, day)'
    BY <1>1, <1>6 DEF Closed
  <1> QED
    BY <1>3, <1>4, <1>5, <1>7, DigestQuiet

LEMMA DigestOutside ==
  ASSUME AlertInv, AlertInv', RestInv, RestInv', NEW s \in Sched, DigestInv(s),
         Edit \/ (\E w \in Watch, v \in Value : CollectPrice(w, v)) \/ Tick
  PROVE  DigestInv(s)'
  <1>1. run' = run /\ UNCHANGED <<digests, digestDay, faults>>
    BY DEF Edit, AddWatchlistItem, UpdateWatchlistItemNotification, DeleteWatchlistItem,
           SetItemActive, UpsertPreferences, VerifyAddress, CollectPrice, Tick, tables, history
  <1>2. \A w \in Watch : row[w] = "gone" => row'[w] = "gone"
    BY DEF Edit, AddWatchlistItem, UpdateWatchlistItemNotification, DeleteWatchlistItem,
           SetItemActive, UpsertPreferences, VerifyAddress, CollectPrice, Tick, AlertInv, Typed,
           Exists
  <1>3. Cut(s) \subseteq Cut(s)'
    BY <1>1, <1>2 DEF Cut
  <1>4. Day(run[s].at)' = Day(run[s].at)
    BY <1>1 DEF Day
  <1>5. \A u \in User, day \in Nat : Closed(s, u, day) => Closed(s, u, day)'
    BY <1>1, <1>4 DEF Closed
  <1> QED
    BY <1>1, <1>3, <1>5, DigestQuiet

\* What a cycle does about digests does not depend on its lock.
LEMMA DigestLoss ==
  ASSUME AlertInv, AlertInv', RestInv, RestInv', NEW s \in Sched, Dated(s), DigestInv(s),
         NEW r \in Runner, LoseSession(r)
  PROVE  Dated(s)' /\ DigestInv(s)'
  <1>1. /\ s \in Runner /\ Manual \subseteq Runner
        /\ \A t \in Runner :
              /\ run'[t].pc = run[t].pc /\ run'[t].at = run[t].at
              /\ run'[t].mode = run[t].mode /\ run'[t].pend = run[t].pend
              /\ run'[t].due = run[t].due /\ run'[t].user = run[t].user
        /\ UNCHANGED <<row, digestDay, now, faults, digests>>
    BY LossEffect DEF Runner
  <1>2. Day(run[s].at)' = Day(run[s].at) /\ Day(now)' = Day(now)
    BY <1>1 DEF Day
  <1>3. \A m \in Manual : AtOnce(run'[m])
    BY <1>1 DEF Dated, AtOnce
  <1>4. Dated(s)'
    BY <1>1, <1>2, <1>3 DEF Dated
  <1>5. Cut(s)' = Cut(s)
    BY <1>1 DEF Cut
  <1>6. \A u \in User, day \in Nat : Closed(s, u, day) => Closed(s, u, day)'
    BY <1>1, <1>2 DEF Closed
  <1> QED
    BY <1>1, <1>4, <1>5, <1>6, DigestQuiet

LEMMA DigestStep ==
  ASSUME NEW s, Sched = {s}, AlertInv, AlertInv', RestInv, RestInv', Dated(s), DigestInv(s),
         [Next]_vars
  PROVE  Dated(s)' /\ DigestInv(s)'
  <1>1. s \in Sched
    OBVIOUS
  <1>2. CASE UNCHANGED vars
    <2>1. Dated(s)'
      BY <1>2 DEF vars, Dated, AtOnce, Day
    <2>2. /\ run' = run /\ UNCHANGED <<digests, digestDay, faults, row>>
      BY <1>2 DEF vars
    <2>3. Cut(s)' = Cut(s)
      BY <2>2 DEF Cut
    <2>4. Day(run[s].at)' = Day(run[s].at)
      BY <2>2 DEF Day
    <2>5. \A u \in User, day \in Nat : Closed(s, u, day) => Closed(s, u, day)'
      BY <2>2, <2>4 DEF Closed
    <2> QED
      BY <1>1, <2>1, <2>2, <2>3, <2>5, DigestQuiet
  <1>3. CASE Fire(s) \/ Proceed(s) \/ Fail(s)
    BY <1>1, <1>3, DatedRunStep, DigestRunStep
  <1>4. ASSUME NEW m \in Manual, Fire(m) \/ Proceed(m) \/ Fail(m)
        PROVE  Dated(s)' /\ DigestInv(s)'
    BY <1>1, <1>4, DatedBeside, DigestBeside
  <1>5. CASE Edit \/ (\E w \in Watch, v \in Value : CollectPrice(w, v)) \/ Tick
    BY <1>1, <1>5, DatedOutside, DigestOutside
  <1>6. ASSUME NEW r \in Runner, LoseSession(r) PROVE Dated(s)' /\ DigestInv(s)'
    BY <1>1, <1>6, DigestLoss
  <1> QED
    BY <1>2, <1>3, <1>4, <1>5, <1>6 DEF Next, Runner

LEMMA DigestInit == ASSUME NEW s \in Sched PROVE Init => Dated(s) /\ DigestInv(s)
  <1> SUFFICES ASSUME Init PROVE Dated(s) /\ DigestInv(s)
    OBVIOUS
  <1>1. AtOnce(Idle) /\ Blank(Idle) /\ Idle.pc = "idle"
    BY DEF AtOnce, Blank, Idle
  <1>2. s \in Runner /\ \A r \in Runner : run[r] = Idle
    BY DEF Init, Runner
  <1>3. Dated(s)
    BY <1>1, <1>2 DEF Init, Dated, Runner, Blank
  <1>4. Numbered /\ \A d : Mailed(d) = {}
    BY FS_EmptySet DEF Init, Numbered, Mailed
  <1>5. Cardinality(Cut(s)) \in Nat /\ Cardinality({}) = 0
    BY RestInit, CutFinite, FS_EmptySet
  <1>6. ASSUME NEW u \in User, NEW day \in Nat
        PROVE  Cardinality(Mailed(<<u, day>>))
                  <= faults + Cardinality(Cut(s)) + (IF Closed(s, u, day) THEN 1 ELSE 0)
    <2>1. Cardinality(Mailed(<<u, day>>)) = 0 /\ faults = 0
      BY <1>4, <1>5 DEF Init
    <2> QED
      BY <1>5, <2>1
  <1> QED
    BY <1>3, <1>4, <1>6 DEF DigestInv

(* With one replica and any number of manual runs beside it, a user gets one
   digest a day, and one more at most for each failure or deletion: whatever
   changes of mode, of prices or of the watchlist come in between. *)
THEOREM DigestsPaidFor == ASSUME NEW s, Sched = {s} PROVE Spec => []OneDigestADay
  <1> DEFINE Inv == AlertInv /\ RestInv /\ Dated(s) /\ DigestInv(s)
  <1>1. Init => Inv
    BY AlertInit, RestInit, DigestInit
  <1>2. Inv /\ [Next]_vars => Inv'
    BY AlertStep, RestStep, DigestStep
  <1>3. Inv => OneDigestADay
    <2> SUFFICES ASSUME Inv, NEW x \in digests PROVE x[2] <= faults + Cardinality(Gone)
      BY DEF OneDigestADay, Gone
    <2>1. PICK u \in User, day \in Nat, k \in Nat : x = <<<<u, day>>, k>>
      BY DEF DigestInv, Numbered
    <2>2. k < Cardinality(Mailed(<<u, day>>))
      BY <2>1 DEF DigestInv, Numbered
    <2>3. Cardinality(Mailed(<<u, day>>))
             <= faults + Cardinality(Cut(s)) + (IF Closed(s, u, day) THEN 1 ELSE 0)
      BY DEF DigestInv
    <2>4. Cardinality(Mailed(<<u, day>>)) \in Nat /\ faults \in Nat
      BY MailedFinite DEF DigestInv, AlertInv, Typed
    <2> QED
      BY <2>1, <2>2, <2>3, <2>4, CutFinite
  <1> QED
    BY <1>1, <1>2, <1>3, PTL DEF Spec

=============================================================================
