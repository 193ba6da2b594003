--------------------------- MODULE PriceAlertsProofs ---------------------------
(***************************************************************************)
(* Theorems of PriceAlerts for any users, rows, prices, schedulers and     *)
(* manual runs, any clock, and any number of edits, failures and lost    *)
(* locks.                                                                  *)
(***************************************************************************)
EXTENDS PriceAlerts, FiniteSetTheorems, TLAPS

-----------------------------------------------------------------------------
\* The rows are listed in an order: a set of ids has a least one.
LEMMA LeastExists ==
  ASSUME NEW S \in SUBSET Nat, S # {}
  PROVE  \E w \in S : \A v \in S : w <= v
  <1> DEFINE Below(w) == {v \in Nat : v < w}
             Initials == {Below(w) : w \in S}
  <1>1. ASSUME NEW w \in S PROVE Below(w) \in FiniteSubsetsOf(Nat)
    <2>1. IsFiniteSet(0..w)
      BY FS_Interval
    <2>2. Below(w) \subseteq 0..w
      OBVIOUS
    <2> QED
      BY <2>1, <2>2, FS_Subset DEF FiniteSubsetsOf
  <1>2. Initials \subseteq FiniteSubsetsOf(Nat) /\ Initials # {}
    BY <1>1
  <1>3. \E B \in Initials : \A C \in Initials : <<C, B>> \notin StrictSubsetOrdering(Nat)
    <2> HIDE DEF Initials
    <2> QED
      BY <1>2, FS_StrictSubsetOrderingWellFounded, WFMin
  <1>4. PICK w \in S : \A v \in S : <<Below(v), Below(w)>> \notin StrictSubsetOrdering(Nat)
    BY <1>3
  <1>5. ASSUME NEW v \in S, v < w PROVE FALSE
    <2>1. Below(v) \subseteq Below(w) /\ v \in Below(w) /\ v \notin Below(v)
      BY <1>5
    <2>2. Below(v) \in SUBSET Nat /\ Below(w) \in SUBSET Nat
      OBVIOUS
    <2> HIDE DEF Below
    <2>3. <<Below(v), Below(w)>> \in StrictSubsetOrdering(Nat)
      BY <2>1, <2>2 DEF StrictSubsetOrdering
    <2> QED
      BY <1>4, <2>3
  <1> QED
    BY <1>5

LEMMA FirstIn == ASSUME NEW S \in SUBSET Watch, S # {} PROVE First(S) \in S
  <1>1. \E w \in S : \A v \in S : w <= v
    BY AlertAssumption, LeastExists
  <1> QED
    BY <1>1 DEF First

-----------------------------------------------------------------------------
(* What a run at a step has: in a dispatch, a user; while states are stored,
   changes of that user that are excused. *)
Sound(l, exc) ==
    /\ l.pc \in {"price", "compare", "baseline"} => l.todo # {}
    /\ l.pc = "baseline" => l.seen # NoPrice
    /\ l.pc \in {"send", "store"} => l.user \in User
    /\ l.pc # "store" => l.left = {}
    /\ \A w \in l.left : Owner[w] = l.user /\ l.pend[w] # NoPrice /\ l.pend[w] \in exc[w]

Typed ==
    /\ prices \in [Watch -> Price \union {NoPrice}]
    /\ active \in [Watch -> BOOLEAN]
    /\ row \in [Watch -> {"new", "on", "off", "gone"}]
    /\ pref \in [User -> [enabled: BOOLEAN, mode: Mode]]
    /\ reachable \in [User -> BOOLEAN]
    /\ told \in [Watch -> Price \union {NoPrice}]
    /\ digestDay \in [User -> Nat \union {NoDay}]
    /\ run \in [Runner -> Run]
    /\ now \in Nat /\ edits \in Nat /\ faults \in Nat /\ losses \in Nat
    /\ repeats \in [Watch -> Nat]
    /\ excused \in [Watch -> SUBSET (Price \union {NoPrice})]

AlertInv ==
    /\ Typed
    /\ \A r \in Runner : Sound(run[r], excused)
    /\ ToldIsBacked

\* A run moves to a sound state, and what was excused stays so.
Moved(r) ==
    /\ \E l \in Run : run' = [run EXCEPT ![r] = l] /\ Sound(l, excused')
    /\ \A w \in Watch : excused[w] \subseteq excused'[w]

LEMMA DayTyped == \A t \in Nat : Day(t) \in Nat
  BY AlertAssumption DEF Day

LEMMA IdleSound == Idle \in Run /\ \A exc : Sound(Idle, exc)
  <1>1. NoUser \in User \union {NoUser}
    OBVIOUS
  <1> QED
    BY DEF Idle, Run, PC, Mode, Sound

LEMMA RunOf ==
  ASSUME Typed, NEW r \in Runner
  PROVE  /\ run[r] \in Run /\ run[r].at \in Nat /\ run[r].todo \in SUBSET Watch
         /\ run[r].pend \in [Watch -> Price \union {NoPrice}]
         /\ run[r].seen \in Price \union {NoPrice} /\ run[r].mode \in [User -> Mode]
         /\ run[r].due \in SUBSET User /\ run[r].left \in SUBSET Watch
  BY DEF Typed, Run

(* Every run but r is as sound as before. *)
LEMMA MovedKeeps ==
  ASSUME AlertInv, NEW r \in Runner, Moved(r)
  PROVE  run' \in [Runner -> Run] /\ \A s \in Runner : Sound(run[s], excused)'
  <1>1. PICK l \in Run : run' = [run EXCEPT ![r] = l] /\ Sound(l, excused')
    BY DEF Moved
  <1>2. run' \in [Runner -> Run] /\ run'[r] = l /\ \A s \in Runner \ {r} : run'[s] = run[s]
    BY <1>1 DEF AlertInv, Typed
  <1>3. ASSUME NEW s \in Runner \ {r} PROVE Sound(run'[s], excused')
    <2>1. Sound(run[s], excused) /\ run[s].left \in SUBSET Watch
      BY RunOf DEF AlertInv
    <2> QED
      BY <1>2, <2>1 DEF Sound, Moved
  <1> QED
    BY <1>1, <1>2, <1>3

LEMMA IdleMoves ==
  ASSUME AlertInv, NEW r \in Runner, Goto(r, Idle),
         \A w \in Watch : excused[w] \subseteq excused'[w]
  PROVE  Moved(r)
  BY IdleSound DEF Goto, Moved

\* The pass over a user ends.
LEMMA ServedMoves ==
  ASSUME AlertInv, NEW r \in Runner, NEW u, Served(r, u),
         \A w \in Watch : excused[w] \subseteq excused'[w]
  PROVE  Moved(r)
  <1> DEFINE pend == [w \in Watch |-> IF Owner[w] = u THEN NoPrice ELSE run[r].pend[w]]
             due == run[r].due \ {u}
             l == [run[r] EXCEPT !.pc = "scan", !.user = NoUser, !.left = {},
                                 !.due = due, !.pend = pend]
  <1>1. run[r] \in Run /\ pend \in [Watch -> Price \union {NoPrice}] /\ due \in SUBSET User
    BY RunOf DEF AlertInv
  <1>2. run' = [run EXCEPT ![r] = l]
    BY <1>1 DEF Served, Goto, Run
  <1> HIDE DEF pend, due
  <1>3. l \in Run /\ l.pc = "scan" /\ l.left = {}
    BY <1>1 DEF Run, PC
  <1> HIDE DEF l
  <1>4. Sound(l, excused')
    BY <1>3 DEF Sound
  <1> QED
    BY <1>2, <1>3, <1>4 DEF Moved

\* A row is done with.
LEMMA ListedMoves ==
  ASSUME AlertInv, NEW r \in Runner, NEW changed \in BOOLEAN, Listed(r, changed),
         run[r].pc \in {"compare", "baseline"},
         \A w \in Watch : excused[w] \subseteq excused'[w]
  PROVE  Moved(r)
  <1> DEFINE w == First(run[r].todo)
             u == Owner[w]
             isDue == run[r].mode[u] = "daily_digest" /\ DigestDue(r, u)
             mailed == changed /\ (run[r].mode[u] = "immediate" \/ isDue)
             todo == run[r].todo \ {w}
             due == IF isDue THEN run[r].due \union {u} ELSE run[r].due
             pend == [run[r].pend EXCEPT ![w] = IF mailed THEN run[r].seen ELSE @]
             l == [run[r] EXCEPT !.pc = "scan", !.todo = todo, !.seen = NoPrice,
                                 !.due = due, !.pend = pend]
  <1>1. run[r] \in Run /\ Sound(run[r], excused) /\ run[r].todo # {}
    BY RunOf DEF AlertInv, Sound
  <1>2. w \in Watch /\ u \in User
    BY <1>1, FirstIn, RunOf, AlertAssumption DEF AlertInv
  <1>3. run' = [run EXCEPT ![r] = l]
    BY <1>1 DEF Listed, Goto, Run
  <1> HIDE DEF isDue, mailed, w, u
  <1>4. /\ todo \in SUBSET Watch /\ due \in SUBSET User
        /\ pend \in [Watch -> Price \union {NoPrice}]
    BY <1>2, RunOf DEF AlertInv
  <1> HIDE DEF todo, due, pend
  <1>5. l \in Run /\ l.pc = "scan" /\ l.left = run[r].left
    BY <1>1, <1>4 DEF Run, PC
  <1> HIDE DEF l
  <1>6. l.left = {}
    BY <1>1, <1>5 DEF Sound
  <1>7. Sound(l, excused')
    BY <1>5, <1>6 DEF Sound
  <1> QED
    BY <1>3, <1>5, <1>7 DEF Moved

-----------------------------------------------------------------------------
\* What a step of run r leaves behind.
Kept(r) ==
    /\ Moved(r)
    /\ told' \in [Watch -> Price \union {NoPrice}]
    /\ digestDay' \in [User -> Nat \union {NoDay}]
    /\ faults' \in Nat /\ repeats' \in [Watch -> Nat]
    /\ excused' \in [Watch -> SUBSET (Price \union {NoPrice})]
    /\ ToldIsBacked'
    /\ UNCHANGED environment

\* It changes neither the tables nor the history.
LEMMA QuietKept ==
  ASSUME AlertInv, NEW r \in Runner, Moved(r), UNCHANGED <<environment, tables, history>>,
         faults' = faults \/ Fault
  PROVE  Kept(r)
  BY DEF Kept, AlertInv, Typed, tables, history, Fault, ToldIsBacked

LEMMA SameExcused ==
  ASSUME UNCHANGED history PROVE \A w \in Watch : excused[w] \subseteq excused'[w]
  BY DEF history

LEMMA ScanKept ==
  ASSUME AlertInv, NEW r \in Runner,
         \/ Fire(r) \/ Start(r) \/ LockBusy(r) \/ GetItem(r) \/ ReadPrice(r) \/ SkipItem(r)
         \/ Finish(r) \/ Abort(r)
  PROVE  Kept(r)
  <1> DEFINE Becomes(l) == l \in Run /\ Sound(l, excused) /\ Goto(r, l)
  <1>1. ASSUME NEW l, Becomes(l), UNCHANGED <<environment, tables, history>>,
               faults' = faults \/ Fault
        PROVE  Kept(r)
    <2>1. excused' = excused
      BY <1>1 DEF history
    <2>2. Moved(r)
      BY <1>1, <2>1 DEF Moved, Goto
    <2> QED
      BY <1>1, <2>2, QuietKept
  <1>2. CASE Fire(r)
    <2>1. Idle \in Run /\ now \in Nat
      BY IdleSound DEF AlertInv, Typed
    <2>2. Becomes([Idle EXCEPT !.pc = "start", !.at = now])
      BY <1>2, <2>1 DEF Fire, Run, PC, Sound, Idle
    <2> QED
      BY <1>1, <1>2, <2>2 DEF Fire
  <1>3. CASE Start(r)
    <2> DEFINE mode == [u \in User |-> IF r \in Sched /\ \E w \in Subscribed : Owner[w] = u
                                       THEN pref[u].mode ELSE "immediate"]
               todo == Subscribed
               locked == r \in Sched
               l == [run[r] EXCEPT !.pc = "scan", !.locked = locked, !.todo = todo,
                                   !.mode = mode]
    <2>1. mode \in [User -> Mode] /\ todo \in SUBSET Watch /\ locked \in BOOLEAN
      BY DEF AlertInv, Typed, Subscribed, Mode
    <2>2. Goto(r, l) /\ run[r].pc = "start"
      BY <1>3 DEF Start, ListSubscriptions
    <2> HIDE DEF mode, todo, locked
    <2>3. l \in Run /\ l.pc = "scan" /\ l.left = run[r].left
      BY <2>1, RunOf DEF AlertInv, Run, PC
    <2> HIDE DEF l
    <2>4. Becomes(l)
      BY <2>2, <2>3 DEF AlertInv, Sound
    <2> QED
      BY <1>1, <1>3, <2>4 DEF Start
  <1>4. CASE LockBusy(r) \/ Finish(r) \/ Abort(r)
    <2>1. Becomes(Idle)
      BY <1>4, IdleSound DEF LockBusy, Finish, Abort
    <2> QED
      BY <1>1, <1>4, <2>1 DEF LockBusy, Finish, Abort
  <1>5. CASE ReadPrice(r)
    <2> DEFINE seen == prices[First(run[r].todo)]
               l == [run[r] EXCEPT !.pc = "compare", !.seen = seen]
    <2>1. run[r].pc = "price" /\ run[r].todo # {} /\ Goto(r, l)
      BY <1>5 DEF ReadPrice, AlertInv, Sound
    <2>2. seen \in Price \union {NoPrice}
      BY <2>1, FirstIn, RunOf DEF AlertInv, Typed
    <2> HIDE DEF seen
    <2>3. l \in Run /\ l.pc = "compare" /\ l.left = run[r].left /\ l.todo = run[r].todo
      BY <2>2, RunOf DEF AlertInv, Run, PC
    <2> HIDE DEF l
    <2>4. Becomes(l)
      BY <2>1, <2>3 DEF AlertInv, Sound
    <2> QED
      BY <1>1, <1>5, <2>4 DEF ReadPrice
  <1>6. ASSUME Skipped(r), run[r].pc \in {"scan", "price"},
               UNCHANGED <<environment, tables, history>>, faults' = faults \/ Fault
        PROVE  Kept(r)
    <2> DEFINE todo == run[r].todo \ {First(run[r].todo)}
               l == [run[r] EXCEPT !.pc = "scan", !.todo = todo]
    <2>1. Goto(r, l)
      BY <1>6, RunOf DEF Skipped, AlertInv, Run
    <2>2. todo \in SUBSET Watch
      BY RunOf DEF AlertInv
    <2> HIDE DEF todo
    <2>3. l \in Run /\ l.pc = "scan" /\ l.left = run[r].left
      BY <2>2, RunOf DEF AlertInv, Run, PC
    <2> HIDE DEF l
    <2>4. Becomes(l)
      BY <1>6, <2>1, <2>3 DEF AlertInv, Sound
    <2> QED
      BY <1>1, <1>6, <2>4
  <1>7. CASE SkipItem(r)
    BY <1>6, <1>7 DEF SkipItem, Scanning
  <1>8. CASE GetItem(r)
    <2>1. run[r].pc = "scan" /\ run[r].todo # {}
      BY <1>8 DEF GetItem, Scanning
    <2>2. CASE active[First(run[r].todo)]
      <3> DEFINE l == [run[r] EXCEPT !.pc = "price"]
      <3>1. Goto(r, l)
        BY <1>8, <2>2 DEF GetItem
      <3>2. l \in Run /\ l.pc = "price" /\ l.left = run[r].left /\ l.todo = run[r].todo
        BY RunOf DEF AlertInv, Run, PC
      <3> HIDE DEF l
      <3>3. Becomes(l)
        BY <2>1, <3>1, <3>2 DEF AlertInv, Sound
      <3> QED
        BY <1>1, <1>8, <3>3 DEF GetItem
    <2>3. CASE ~active[First(run[r].todo)]
      BY <1>6, <1>8, <2>1, <2>3 DEF GetItem
    <2> QED
      BY <2>2, <2>3
  <1> QED
    BY <1>2, <1>3, <1>4, <1>5, <1>7, <1>8

LEMMA CompareKept ==
  ASSUME AlertInv, NEW r \in Runner, Compare(r)
  PROVE  Kept(r)
  <1> DEFINE w == First(run[r].todo)
             p == run[r].seen
  <1>1. CASE p # NoPrice /\ told[w] = NoPrice
    <2> DEFINE l == [run[r] EXCEPT !.pc = "baseline"]
    <2>1. run[r].pc = "compare" /\ Goto(r, l) /\ excused' = excused
      BY <1>1 DEF Compare, history
    <2>2. /\ l \in Run /\ l.pc = "baseline" /\ l.left = run[r].left
          /\ l.todo = run[r].todo /\ l.seen = p
      BY RunOf DEF AlertInv, Run, PC
    <2> HIDE DEF l
    <2>3. Sound(l, excused)
      BY <1>1, <2>1, <2>2 DEF AlertInv, Sound
    <2>4. Moved(r)
      BY <2>1, <2>2, <2>3 DEF Moved, Goto
    <2> QED
      BY <2>4, QuietKept DEF Compare
  <1>2. CASE ~(p # NoPrice /\ told[w] = NoPrice)
    <2>1. Listed(r, p # NoPrice /\ Changed(p, told[w]))
      BY <1>2 DEF Compare
    <2>2. (p # NoPrice /\ Changed(p, told[w])) \in BOOLEAN
      OBVIOUS
    <2>3. Moved(r)
      BY <2>1, <2>2, ListedMoves, SameExcused DEF Compare
    <2> QED
      BY <2>3, QuietKept DEF Compare
  <1> QED
    BY <1>1, <1>2

LEMMA BaselineKept ==
  ASSUME AlertInv, NEW r \in Runner, Baseline(r)
  PROVE  Kept(r)
  <1> DEFINE w == First(run[r].todo)
             p == run[r].seen
  <1>1. /\ w \in Watch /\ p \in Price /\ run[r].pc = "baseline"
    <2>1. run[r].pc = "baseline" /\ run[r].todo # {} /\ p # NoPrice
      BY DEF Baseline, AlertInv, Sound
    <2> QED
      BY <2>1, FirstIn, RunOf DEF AlertInv
  <1>2. UNCHANGED <<environment, digestDay, faults, repeats>>
    BY DEF Baseline
  <1> HIDE DEF w, p
  <1>3. CASE Exists(w)
    <2>1. /\ told' = [told EXCEPT ![w] = p]
          /\ excused' = [excused EXCEPT ![w] = @ \union {p}]
          /\ Listed(r, FALSE)
      BY <1>3 DEF Baseline, w, p
    <2>2. \A x \in Watch : excused[x] \subseteq excused'[x]
      BY <1>1, <2>1 DEF AlertInv, Typed
    <2>3. Moved(r)
      BY <1>1, <2>1, <2>2, ListedMoves
    <2>4. ToldIsBacked'
      BY <1>1, <2>1 DEF AlertInv, Typed, ToldIsBacked
    <2>5. /\ told' \in [Watch -> Price \union {NoPrice}]
          /\ excused' \in [Watch -> SUBSET (Price \union {NoPrice})]
      BY <1>1, <2>1 DEF AlertInv, Typed
    <2> QED
      BY <1>2, <2>3, <2>4, <2>5 DEF Kept, AlertInv, Typed
  <1>4. CASE ~Exists(w)
    <2>1. Goto(r, Idle) /\ UNCHANGED <<told, excused>>
      BY <1>4 DEF Baseline, w
    <2>2. Moved(r)
      BY <2>1, IdleMoves
    <2> QED
      BY <1>2, <2>1, <2>2 DEF Kept, AlertInv, Typed, ToldIsBacked
  <1> QED
    BY <1>3, <1>4

-----------------------------------------------------------------------------
LEMMA ExcuseKeeps ==
  ASSUME AlertInv, NEW r \in Runner, NEW W \in SUBSET Watch, Excuse(r, W)
  PROVE  /\ excused' \in [Watch -> SUBSET (Price \union {NoPrice})]
         /\ \A w \in Watch : excused[w] \subseteq excused'[w]
         /\ \A w \in W : run[r].pend[w] \in excused'[w]
         /\ told' = told => ToldIsBacked'
  <1>1. /\ run[r].pend \in [Watch -> Price \union {NoPrice}]
        /\ excused \in [Watch -> SUBSET (Price \union {NoPrice})]
    BY RunOf DEF AlertInv, Typed
  <1>2. \A w \in Watch : excused'[w] = IF w \in W THEN excused[w] \union {run[r].pend[w]}
                                                 ELSE excused[w]
    BY DEF Excuse
  <1> QED
    BY <1>1, <1>2 DEF Excuse, AlertInv, ToldIsBacked

\* The states of the changes are stored next.
LEMMA StoreNext ==
  ASSUME AlertInv, NEW r \in Runner, NEW u \in User,
         Goto(r, [run[r] EXCEPT !.pc = "store", !.user = u, !.left = PendingOf(r, u)]),
         Excuse(r, PendingOf(r, u))
  PROVE  Moved(r)
  <1> DEFINE left == PendingOf(r, u)
             l == [run[r] EXCEPT !.pc = "store", !.user = u, !.left = left]
  <1>1. /\ left \in SUBSET Watch
        /\ \A w \in left : Owner[w] = u /\ run[r].pend[w] # NoPrice
    BY DEF PendingOf
  <1>2. /\ \A w \in Watch : excused[w] \subseteq excused'[w]
        /\ \A w \in left : run[r].pend[w] \in excused'[w]
    BY <1>1, ExcuseKeeps
  <1>3. run' = [run EXCEPT ![r] = l]
    BY DEF Goto
  <1> HIDE DEF left
  <1>4. /\ l \in Run /\ l.pc = "store" /\ l.user = u /\ l.left = left
        /\ l.pend = run[r].pend
    BY <1>1, RunOf DEF AlertInv, Run, PC
  <1> HIDE DEF l
  <1>5. Sound(l, excused')
    BY <1>1, <1>2, <1>4 DEF Sound
  <1> QED
    BY <1>2, <1>3, <1>4, <1>5 DEF Moved

LEMMA ContactKept ==
  ASSUME AlertInv, NEW r \in Runner, NEW u \in User,
         Contact(r, u) \/ NoContact(r, u) \/ EmptyDigest(r, u)
  PROVE  Kept(r)
  <1>1. CASE Contact(r, u)
    <2> DEFINE l == [run[r] EXCEPT !.pc = "send", !.user = u]
    <2>1. run[r].pc = "scan" /\ run' = [run EXCEPT ![r] = l] /\ excused' = excused
      BY <1>1 DEF Contact, Turn, Goto, history
    <2>2. l \in Run /\ l.pc = "send" /\ l.user = u /\ l.left = run[r].left
      BY RunOf DEF AlertInv, Run, PC
    <2> HIDE DEF l
    <2>3. Moved(r)
      BY <2>1, <2>2 DEF Moved, Sound, AlertInv
    <2> QED
      BY <1>1, <2>3, QuietKept DEF Contact
  <1>2. CASE NoContact(r, u)
    <2>1. PendingOf(r, u) \in SUBSET Watch
      BY DEF PendingOf
    <2>2. Moved(r)
      BY <1>2, StoreNext DEF NoContact
    <2>3. excused' \in [Watch -> SUBSET (Price \union {NoPrice})] /\ ToldIsBacked'
      BY <1>2, <2>1, ExcuseKeeps DEF NoContact, tables
    <2> QED
      BY <1>2, <2>2, <2>3 DEF NoContact, Kept, AlertInv, Typed, tables, Fault
  <1>3. CASE EmptyDigest(r, u)
    <2>1. Moved(r)
      BY <1>3, ServedMoves, SameExcused DEF EmptyDigest
    <2>2. digestDay' \in [User -> Nat \union {NoDay}]
      BY <1>3, RunOf, DayTyped DEF EmptyDigest, AlertInv, Typed
    <2> QED
      BY <1>3, <2>1, <2>2 DEF EmptyDigest, Kept, AlertInv, Typed, history, ToldIsBacked
  <1> QED
    BY <1>1, <1>2, <1>3

LEMMA DeliveredKeeps ==
  ASSUME AlertInv, NEW r \in Runner, Delivered(r)
  PROVE  /\ repeats' \in [Watch -> Nat]
         /\ Excuse(r, PendingOf(r, run[r].user))
         /\ PendingOf(r, run[r].user) \in SUBSET Watch
  BY DEF Delivered, PendingOf, AlertInv, Typed

LEMMA SendKept ==
  ASSUME AlertInv, NEW r \in Runner, Send(r) \/ SendFails(r)
  PROVE  Kept(r)
  <1>1. run[r].user \in User /\ run[r].pc = "send"
    BY DEF Send, SendFails, AlertInv, Sound
  <1>2. CASE Send(r)
    <2>1. Excuse(r, PendingOf(r, run[r].user)) /\ repeats' \in [Watch -> Nat]
          /\ PendingOf(r, run[r].user) \in SUBSET Watch
      BY <1>2, DeliveredKeeps DEF Send
    <2>2. Goto(r, [run[r] EXCEPT !.pc = "store", !.user = run[r].user,
                                 !.left = PendingOf(r, run[r].user)])
      <3>1. run[r] = [run[r] EXCEPT !.user = run[r].user]
        BY RunOf DEF AlertInv, Run
      <3> QED
        BY <1>2, <3>1, RunOf DEF Send, Goto, AlertInv, Run
    <2>3. Moved(r)
      BY <1>1, <2>1, <2>2, StoreNext
    <2>4. excused' \in [Watch -> SUBSET (Price \union {NoPrice})] /\ ToldIsBacked'
      BY <1>2, <2>1, ExcuseKeeps DEF Send, tables
    <2> QED
      BY <1>2, <2>1, <2>3, <2>4 DEF Send, Kept, AlertInv, Typed, tables
  <1>3. CASE SendFails(r)
    <2>1. CASE Delivered(r)
      <3>1. Excuse(r, PendingOf(r, run[r].user)) /\ repeats' \in [Watch -> Nat]
            /\ PendingOf(r, run[r].user) \in SUBSET Watch
        BY <2>1, DeliveredKeeps
      <3>2. /\ excused' \in [Watch -> SUBSET (Price \union {NoPrice})] /\ ToldIsBacked'
            /\ \A w \in Watch : excused[w] \subseteq excused'[w]
        BY <1>3, <3>1, ExcuseKeeps DEF SendFails, tables
      <3>3. Moved(r)
        BY <1>3, <3>2, ServedMoves DEF SendFails
      <3> QED
        BY <1>3, <3>1, <3>2, <3>3 DEF SendFails, Kept, AlertInv, Typed, tables, Fault
    <2>2. CASE UNCHANGED history
      <3>1. Moved(r)
        BY <1>3, <2>2, ServedMoves, SameExcused DEF SendFails
      <3> QED
        BY <1>3, <2>2, <3>1, QuietKept DEF SendFails
    <2> QED
      BY <1>3, <2>1, <2>2 DEF SendFails
  <1> QED
    BY <1>2, <1>3

LEMMA StoreKept ==
  ASSUME AlertInv, NEW r \in Runner, Store(r) \/ StoreFails(r) \/ EndDispatch(r)
  PROVE  Kept(r)
  <1>1. CASE Store(r)
    <2> DEFINE w == First(run[r].left)
               p == run[r].pend[w]
               left == run[r].left \ {w}
               l == [run[r] EXCEPT !.left = left]
    <2>1. /\ w \in run[r].left /\ w \in Watch /\ run[r].pc = "store"
          /\ left \in SUBSET Watch
      BY <1>1, FirstIn, RunOf DEF Store, AlertInv
    <2>2. p \in Price /\ p \in excused[w]
      BY <2>1, RunOf DEF AlertInv, Sound
    <2>3. UNCHANGED <<environment, digestDay, faults, history>>
      BY <1>1 DEF Store
    <2>4. CASE Exists(w)
      <3>1. told' = [told EXCEPT ![w] = p] /\ run' = [run EXCEPT ![r] = l]
        BY <1>1, <2>4, RunOf DEF Store, Goto, AlertInv, Run
      <3> HIDE DEF w, p, left
      <3>2. /\ l \in Run /\ l.pc = "store" /\ l.user = run[r].user /\ l.pend = run[r].pend
            /\ l.left = left
        BY <2>1, RunOf DEF AlertInv, Run
      <3> HIDE DEF l
      <3>3. left \subseteq run[r].left
        BY DEF left
      <3>4. Sound(l, excused)
        BY <2>1, <3>2, <3>3 DEF Sound, AlertInv
      <3>5. Moved(r)
        BY <2>3, <3>1, <3>2, <3>4 DEF Moved, history
      <3>6. told' \in [Watch -> Price \union {NoPrice}] /\ ToldIsBacked'
        BY <2>1, <2>2, <2>3, <3>1 DEF AlertInv, Typed, ToldIsBacked, history
      <3> QED
        BY <2>3, <3>5, <3>6 DEF Kept, AlertInv, Typed, history
    <2>5. CASE ~Exists(w)
      <3>1. Served(r, run[r].user) /\ told' = told
        BY <1>1, <2>5 DEF Store
      <3>2. Moved(r)
        BY <2>3, <3>1, ServedMoves, SameExcused
      <3> QED
        BY <2>3, <3>1, <3>2 DEF Kept, AlertInv, Typed, history, ToldIsBacked
    <2> QED
      BY <2>4, <2>5
  <1>2. CASE StoreFails(r)
    <2>1. Moved(r)
      BY <1>2, ServedMoves, SameExcused DEF StoreFails
    <2> QED
      BY <1>2, <2>1, QuietKept DEF StoreFails
  <1>3. CASE EndDispatch(r)
    <2>1. Moved(r)
      BY <1>3, ServedMoves, SameExcused DEF EndDispatch
    <2>2. digestDay' \in [User -> Nat \union {NoDay}]
      BY <1>3, RunOf, DayTyped DEF EndDispatch, AlertInv, Typed
    <2> QED
      BY <1>3, <2>1, <2>2 DEF EndDispatch, Kept, AlertInv, Typed, history, ToldIsBacked
  <1> QED
    BY <1>1, <1>2, <1>3

-----------------------------------------------------------------------------
\* Users and prices change what the runs read, and take states away with a row.
LEMMA OutsideKept ==
  ASSUME AlertInv, Edit \/ (\E w \in Watch, v \in Value : CollectPrice(w, v)) \/ Tick
  PROVE  AlertInv'
  <1> USE DEF AlertInv, Typed, Edited
  <1>1. ASSUME run' = run, excused' = excused PROVE \A r \in Runner : Sound(run[r], excused)'
    BY <1>1
  <1>2. CASE Tick
    BY <1>1, <1>2 DEF Tick, tables, history, ToldIsBacked
  <1>3. ASSUME NEW w \in Watch, NEW v \in Value, CollectPrice(w, v) PROVE AlertInv'
    <2>1. [on |-> Day(now), value |-> v] \in Price
      BY DayTyped DEF Price
    <2> QED
      BY <1>1, <1>3, <2>1 DEF CollectPrice, tables, history, ToldIsBacked
  <1>4. ASSUME NEW w \in Watch,
               AddWatchlistItem(w) \/ UpdateWatchlistItemNotification(w)
        PROVE  AlertInv'
    <2>1. row' \in [Watch -> {"new", "on", "off", "gone"}]
      BY <1>4 DEF AddWatchlistItem, UpdateWatchlistItemNotification
    <2> QED
      BY <1>1, <1>4, <2>1
      DEF AddWatchlistItem, UpdateWatchlistItemNotification, tables, history, ToldIsBacked
  <1>5. ASSUME NEW w \in Watch, DeleteWatchlistItem(w) PROVE AlertInv'
    <2>1. /\ row' \in [Watch -> {"new", "on", "off", "gone"}]
          /\ told' \in [Watch -> Price \union {NoPrice}]
      BY <1>5 DEF DeleteWatchlistItem
    <2>2. ToldIsBacked'
      BY <1>5 DEF DeleteWatchlistItem, history, ToldIsBacked
    <2> QED
      BY <1>1, <1>5, <2>1, <2>2 DEF DeleteWatchlistItem, history
  <1>6. ASSUME NEW u \in User, NEW enabled \in BOOLEAN, NEW mode \in Mode,
               UpsertPreferences(u, enabled, mode)
        PROVE  AlertInv'
    BY <1>1, <1>6 DEF UpsertPreferences, tables, history, ToldIsBacked
  <1>7. ASSUME NEW u \in User, VerifyAddress(u) PROVE AlertInv'
    BY <1>1, <1>7 DEF VerifyAddress, tables, history, ToldIsBacked
  <1>8. ASSUME NEW w \in Watch, SetItemActive(w) PROVE AlertInv'
    <2>1. active' \in [Watch -> BOOLEAN]
      BY <1>8 DEF SetItemActive
    <2> QED
      BY <1>1, <1>8, <2>1 DEF SetItemActive, tables, history, ToldIsBacked
  <1> QED
    BY <1>2, <1>3, <1>4, <1>5, <1>6, <1>7, <1>8 DEF Edit

\* A run that loses its lock goes on as before.
LEMMA LossKeeps ==
  ASSUME AlertInv, NEW r \in Runner, LoseSession(r)
  PROVE  AlertInv'
  <1> DEFINE l == [run[r] EXCEPT !.locked = FALSE]
  <1>1. run' = [run EXCEPT ![r] = l] /\ losses' = losses + 1
    BY DEF LoseSession, Goto
  <1>2. UNCHANGED <<prices, active, row, pref, reachable, told, digestDay, now, edits, faults,
                    repeats, excused>>
    BY DEF LoseSession, tables, history
  <1>3. /\ l \in Run /\ l.pc = run[r].pc /\ l.todo = run[r].todo /\ l.seen = run[r].seen
        /\ l.user = run[r].user /\ l.left = run[r].left /\ l.pend = run[r].pend
    BY RunOf DEF AlertInv, Run
  <1> HIDE DEF l
  <1>4. Sound(l, excused')
    BY <1>2, <1>3 DEF AlertInv, Sound
  <1>5. Moved(r)
    BY <1>1, <1>2, <1>3, <1>4 DEF Moved
  <1>6. run' \in [Runner -> Run] /\ \A s \in Runner : Sound(run[s], excused)'
    BY <1>5, MovedKeeps
  <1>7. ToldIsBacked'
    BY <1>2 DEF AlertInv, ToldIsBacked
  <1> QED
    BY <1>1, <1>2, <1>6, <1>7 DEF AlertInv, Typed

LEMMA AlertStep == AlertInv /\ [Next]_vars => AlertInv'
  <1> SUFFICES ASSUME AlertInv, [Next]_vars PROVE AlertInv'
    OBVIOUS
  <1>1. ASSUME NEW r \in Runner, Kept(r) PROVE AlertInv'
    <2>1. run' \in [Runner -> Run] /\ \A s \in Runner : Sound(run[s], excused)'
      BY <1>1, MovedKeeps DEF Kept
    <2> QED
      BY <1>1, <2>1 DEF Kept, AlertInv, Typed, environment
  <1>2. ASSUME NEW r \in Runner, Fire(r) \/ Proceed(r) \/ Fail(r) PROVE AlertInv'
    BY <1>1, <1>2, ScanKept, CompareKept, BaselineKept, ContactKept, SendKept, StoreKept
    DEF Proceed, Fail
  <1>3. CASE UNCHANGED vars
    BY <1>3 DEF vars, AlertInv, Typed, ToldIsBacked
  <1> QED
    BY <1>2, <1>3, OutsideKept, LossKeeps DEF Next

LEMMA AlertInit == Init => AlertInv
  <1> SUFFICES ASSUME Init PROVE AlertInv
    OBVIOUS
  <1>1. Typed
    BY IdleSound, AlertAssumption DEF Init, Typed
  <1>2. \A r \in Runner : Sound(run[r], excused)
    BY IdleSound DEF Init
  <1>3. ToldIsBacked
    BY DEF Init, ToldIsBacked
  <1> QED
    BY <1>1, <1>2, <1>3 DEF AlertInv

LEMMA AlertsCorrect == Spec => []AlertInv
  BY AlertInit, AlertStep, PTL DEF Spec

(* The tables and the runs keep their types; in a dispatch a run has its user,
   and what it stores is part of what it has found for that user. *)
THEOREM AlertTypeCorrect == Spec => []TypeOK
  <1>1. AlertInv => TypeOK
    <2> SUFFICES ASSUME AlertInv PROVE TypeOK
      OBVIOUS
    <2>1. \A r \in Runner : run[r].left \subseteq PendingOf(r, run[r].user)
      BY RunOf DEF AlertInv, Sound, PendingOf
    <2> QED
      BY <2>1 DEF AlertInv, Typed, Sound, TypeOK
  <1> QED
    BY <1>1, AlertsCorrect, PTL

(* No change is lost silently, with any number of cycles and manual runs on the
   same rows, locks lost or not, and whatever fails: a state stored as told is of
   a price that was mailed, was the first one, or could not be mailed. *)
THEOREM ToldCorrect == Spec => []ToldIsBacked
  <1>1. AlertInv => ToldIsBacked
    BY DEF AlertInv
  <1> QED
    BY <1>1, AlertsCorrect, PTL

=============================================================================
