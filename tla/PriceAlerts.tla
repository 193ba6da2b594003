------------------------------ MODULE PriceAlerts ------------------------------
(***************************************************************************)
(* Price alerts of user-asset-service: cycles of the scheduler (RunCycle)  *)
(* and manual runs of admins (SendManualPriceAlerts) compare the latest    *)
(* price of every watched item with what its user was last told, mail the  *)
(* differences and store what was told.                                    *)
(*                                                                         *)
(* A run is a process; its reads and writes are statements or calls of     *)
(* their own, between which users edit their watchlist and preferences,    *)
(* catalog-service collects prices and another run may work on the same    *)
(* rows.  Cycles exclude each other by the lock of SchedulerLock, as long  *)
(* as its session lasts: a run that loses it goes on beside the next one.  *)
(* A manual run takes no lock.                                             *)
(*                                                                         *)
(* One item has one series of prices here (source and game mode), of which *)
(* only the latest entry matters to the control flow.                      *)
(***************************************************************************)
EXTENDS Naturals, FiniteSets

CONSTANTS
    User,
    Watch,        \* ids of watchlist_items, in the order the runs list them
    Owner,        \* the user of each
    Sched,        \* one scheduler per replica
    Manual,       \* concurrent requests of admins
    Value,        \* prices
    DayLength,    \* clock steps in a day
    DigestSlot,   \* the step of the day of notification_time
    MaxTime,      \* bound on the clock
    MaxEdits,     \* bound on what users change
    MaxFaults,    \* bound on failing calls, failing statements and runs cut off
    MaxLosses,    \* bound on lost lock sessions
    NoPrice, NoDay, NoUser

Runner == Sched \union Manual
Mode == {"immediate", "daily_digest"}

ASSUME AlertAssumption ==
    /\ Watch \subseteq Nat
    /\ Owner \in [Watch -> User]
    /\ Sched \intersect Manual = {}
    /\ DayLength \in Nat \ {0} /\ DigestSlot \in Nat
    /\ {MaxTime, MaxEdits, MaxFaults, MaxLosses} \subseteq Nat
    /\ NoUser \notin User
    /\ NoDay \notin Nat
    /\ NoPrice \notin [on: Nat, value: Value]

VARIABLES
    prices,      \* latest price_history entry of each watched item
    active,      \* items.is_active of each watched item
    row,         \* watchlist_items: the life of each row
    pref,        \* user_preferences, or the defaults where there is no row
    reachable,   \* auth-service knows a verified address
    told,        \* watchlist_notification_state
    digestDay,   \* user_notification_dispatch_state.last_digest_processed_on
    run,         \* the local state of each run
    now, edits, faults, losses,
    \* history, read by the properties only
    excused,     \* prices whose owner was mailed them, or need not have been
    lastMail,    \* the price of each item in the latest change mail
    repeats,     \* how often a mail said again of an item what the one before had said
    digests      \* <<user, day>> of each digest mailed, and which one of that day

vars == <<prices, active, row, pref, reachable, told, digestDay, run, now, edits, faults,
          losses, excused, lastMail, repeats, digests>>
tables == <<told, digestDay>>
environment == <<prices, active, row, pref, reachable, now, edits, losses>>
history == <<excused, lastMail, repeats, digests>>

Price == [on: Nat, value: Value]
Day(t) == t \div DayLength
Slot(t) == t % DayLength

PC == {"idle", "start", "scan", "price", "compare", "baseline", "send", "store"}

\* locked: the session that holds the advisory lock for the run is alive.
Run == [pc: PC, locked: BOOLEAN, at: Nat, mode: [User -> Mode], todo: SUBSET Watch,
        seen: Price \union {NoPrice}, pend: [Watch -> Price \union {NoPrice}],
        due: SUBSET User, user: User \union {NoUser}, left: SUBSET Watch]

Idle == [pc |-> "idle", locked |-> FALSE, at |-> 0,
         mode |-> [u \in User |-> "immediate"], todo |-> {}, seen |-> NoPrice,
         pend |-> [w \in Watch |-> NoPrice],
         due |-> {}, user |-> NoUser, left |-> {}]

Goto(r, l) == run' = [run EXCEPT ![r] = l]

First(S) == CHOOSE w \in S : \A v \in S : w <= v

Exists(w) == row[w] \in {"on", "off"}

Fault == faults < MaxFaults /\ faults' = faults + 1

Edited == edits < MaxEdits /\ edits' = edits + 1

-----------------------------------------------------------------------------
(* Starting a run. *)

\* The ticker fires, or an admin asks; either way the time is taken here.
Fire(r) ==
    /\ run[r].pc = "idle"
    /\ Goto(r, [Idle EXCEPT !.pc = "start", !.at = now])
    /\ UNCHANGED <<environment, tables, faults, history>>

\* pg_try_advisory_lock: no living session of another run holds the lock.
LockFree(r) == \A s \in Sched \ {r} : ~run[s].locked

(* ListNotificationSubscriptions: the rows to look at, with the mode of their
   user.  A manual run treats everybody as immediate. *)
Subscribed == {w \in Watch : row[w] = "on" /\ pref[Owner[w]].enabled}

ListSubscriptions(r) ==
    Goto(r, [run[r] EXCEPT
        !.pc = "scan",
        !.locked = r \in Sched,
        !.todo = Subscribed,
        !.mode = [u \in User |->
                     IF r \in Sched /\ \E w \in Subscribed : Owner[w] = u
                     THEN pref[u].mode ELSE "immediate"]])

(* Slip: the lock is not taken. *)
StartUnlocked(r) ==
    /\ run[r].pc = "start"
    /\ ListSubscriptions(r)
    /\ UNCHANGED <<environment, tables, faults, history>>

Start(r) ==
    /\ run[r].pc = "start"
    /\ r \in Sched => LockFree(r)
    /\ ListSubscriptions(r)
    /\ UNCHANGED <<environment, tables, faults, history>>

LockBusy(r) ==
    /\ run[r].pc = "start"
    /\ r \in Sched /\ ~LockFree(r)
    /\ Goto(r, Idle)
    /\ UNCHANGED <<environment, tables, faults, history>>

(* The session of the lock breaks.  Nothing tells the run, whose statements go
   over other connections. *)
LoseSession(r) ==
    /\ run[r].locked
    /\ losses < MaxLosses
    /\ losses' = losses + 1
    /\ Goto(r, [run[r] EXCEPT !.locked = FALSE])
    /\ UNCHANGED <<prices, active, row, pref, reachable, tables, now, edits, faults, history>>

-----------------------------------------------------------------------------
(* The loop over the subscriptions. *)
Scanning(r) == run[r].pc = "scan" /\ run[r].todo # {}

(* The run is done with the item it was at, and stores nothing for it. *)
Skipped(r) == Goto(r, [run[r] EXCEPT !.pc = "scan", !.todo = @ \ {First(@)}])

(* GetItem: an item that is not active is skipped, cycle after cycle. *)
GetItem(r) ==
    /\ Scanning(r)
    /\ IF active[First(run[r].todo)]
       THEN Goto(r, [run[r] EXCEPT !.pc = "price"])
       ELSE Skipped(r)
    /\ UNCHANGED <<environment, tables, faults, history>>

(* GetPriceHistory *)
ReadPrice(r) ==
    /\ run[r].pc = "price"
    /\ Goto(r, [run[r] EXCEPT !.pc = "compare", !.seen = prices[First(run[r].todo)]])
    /\ UNCHANGED <<environment, tables, faults, history>>

\* Either call to catalog-service fails.
SkipItem(r) ==
    /\ Scanning(r) \/ run[r].pc = "price"
    /\ Fault
    /\ Skipped(r)
    /\ UNCHANGED <<environment, tables, history>>

(* Slip: the day the digest was last processed is not looked at. *)
DigestDueAgain(r, u) == Slot(run[r].at) >= DigestSlot

(* shouldProcessDigest *)
DigestDue(r, u) == Slot(run[r].at) >= DigestSlot /\ digestDay[u] # Day(run[r].at)

(* Slip: a new price on the day last told is overlooked. *)
ChangedByDay(p, t) == p.on > t.on

(* detectPriceAlertChanges, for a latest price p and a stored state t. *)
Changed(p, t) == p.on > t.on \/ (p.on = t.on /\ p.value # t.value)

(* The row is done with: its change goes to the pending mail of its user, for
   a digest only if one is due. *)
Listed(r, changed) ==
    LET w == First(run[r].todo)
        u == Owner[w]
        due == run[r].mode[u] = "daily_digest" /\ DigestDue(r, u)
        mailed == changed /\ (run[r].mode[u] = "immediate" \/ due)
    IN  Goto(r, [run[r] EXCEPT
            !.pc = "scan", !.todo = @ \ {w}, !.seen = NoPrice,
            !.due = IF due THEN @ \union {u} ELSE @,
            !.pend[w] = IF mailed THEN run[r].seen ELSE @])

(* Slip: an item without any price yet gets a baseline. *)
CompareAnyPrice(r) ==
    /\ run[r].pc = "compare"
    /\ IF told[First(run[r].todo)] = NoPrice
       THEN Goto(r, [run[r] EXCEPT !.pc = "baseline"])
       ELSE Listed(r, FALSE)
    /\ UNCHANGED <<environment, tables, faults, history>>

(* ListWatchlistNotificationStates, then shouldProcessDigest. *)
Compare(r) ==
    /\ run[r].pc = "compare"
    /\ LET w == First(run[r].todo)
           p == run[r].seen
       IN  IF p # NoPrice /\ told[w] = NoPrice
           THEN Goto(r, [run[r] EXCEPT !.pc = "baseline"])
           ELSE Listed(r, p # NoPrice /\ Changed(p, told[w]))
    /\ UNCHANGED <<environment, tables, faults, history>>

(* The first price seen is stored and not mailed.  The state refers to its
   watchlist row: when that was deleted meanwhile, the statement fails and the
   run ends with it. *)
Baseline(r) ==
    /\ run[r].pc = "baseline"
    /\ LET w == First(run[r].todo)
       IN  IF Exists(w)
           THEN /\ told' = [told EXCEPT ![w] = run[r].seen]
                /\ excused' = [excused EXCEPT ![w] = @ \union {run[r].seen}]
                /\ Listed(r, FALSE)
           ELSE /\ Goto(r, Idle)
                /\ UNCHANGED <<told, excused>>
    /\ UNCHANGED <<environment, digestDay, faults, lastMail, repeats, digests>>

-----------------------------------------------------------------------------
(* Dispatch: the immediate users, then the users whose digest is due. *)
PendingOf(r, u) == {w \in Watch : Owner[w] = u /\ run[r].pend[w] # NoPrice}

Immediate(r) == {u \in User : run[r].mode[u] = "immediate" /\ PendingOf(r, u) # {}}

Turn(r, u) ==
    /\ run[r].pc = "scan" /\ run[r].todo = {}
    /\ u \in Immediate(r) \/ (Immediate(r) = {} /\ u \in run[r].due)

\* The pass over user u is over.
Served(r, u) ==
    Goto(r, [run[r] EXCEPT
        !.pc = "scan", !.user = NoUser, !.left = {}, !.due = @ \ {u},
        !.pend = [w \in Watch |-> IF Owner[w] = u THEN NoPrice ELSE @[w]]])

Excuse(r, W) == excused' = [w \in Watch |-> IF w \in W THEN excused[w] \union {run[r].pend[w]}
                                                       ELSE excused[w]]

(* GetUserContact *)
Contact(r, u) ==
    /\ Turn(r, u)
    /\ PendingOf(r, u) # {}
    /\ reachable[u]
    /\ Goto(r, [run[r] EXCEPT !.pc = "send", !.user = u])
    /\ UNCHANGED <<environment, tables, faults, history>>

(* Nobody to mail, or auth-service does not answer: the states advance as if
   the user had been told. *)
NoContact(r, u) ==
    /\ Turn(r, u)
    /\ PendingOf(r, u) # {}
    /\ (~reachable[u] /\ UNCHANGED faults) \/ Fault
    /\ Excuse(r, PendingOf(r, u))
    /\ Goto(r, [run[r] EXCEPT !.pc = "store", !.user = u, !.left = PendingOf(r, u)])
    /\ UNCHANGED <<environment, tables, lastMail, repeats, digests>>

(* A due digest without changes is only marked processed. *)
EmptyDigest(r, u) ==
    /\ Turn(r, u)
    /\ PendingOf(r, u) = {}
    /\ digestDay' = [digestDay EXCEPT ![u] = Day(run[r].at)]
    /\ Served(r, u)
    /\ UNCHANGED <<environment, told, faults, history>>

(* What a delivered mail means to the history. *)
Delivered(r) ==
    LET u == run[r].user
        W == PendingOf(r, u)
        d == <<u, Day(run[r].at)>>
    IN  /\ Excuse(r, W)
        /\ lastMail' = [w \in Watch |-> IF w \in W THEN run[r].pend[w] ELSE lastMail[w]]
        /\ repeats' = [w \in Watch |-> IF w \in W /\ lastMail[w] = run[r].pend[w]
                                       THEN repeats[w] + 1 ELSE repeats[w]]
        /\ digests' = IF run[r].mode[u] = "daily_digest"
                      THEN digests \union {<<d, Cardinality({x \in digests : x[1] = d})>>}
                      ELSE digests

Send(r) ==
    /\ run[r].pc = "send"
    /\ Delivered(r)
    /\ Goto(r, [run[r] EXCEPT !.pc = "store", !.left = PendingOf(r, run[r].user)])
    /\ UNCHANGED <<environment, tables, faults>>

(* Slip: an error of the mail call is logged and the states advance. *)
SendFailsSilently(r) ==
    /\ run[r].pc = "send"
    /\ Fault
    /\ Delivered(r) \/ UNCHANGED history
    /\ Goto(r, [run[r] EXCEPT !.pc = "store", !.left = PendingOf(r, run[r].user)])
    /\ UNCHANGED <<environment, tables>>

(* The call fails or times out; the mail may have gone out all the same.  The
   cycle goes on with the next user. *)
SendFails(r) ==
    /\ run[r].pc = "send"
    /\ Fault
    /\ Delivered(r) \/ UNCHANGED history
    /\ Served(r, run[r].user)
    /\ UNCHANGED <<environment, tables>>

(* Slip: one state is stored for the whole mail. *)
StoreOne(r) ==
    /\ run[r].pc = "store" /\ run[r].left # {}
    /\ LET w == First(run[r].left)
       IN  IF Exists(w)
           THEN /\ told' = [told EXCEPT ![w] = run[r].pend[w]]
                /\ Goto(r, [run[r] EXCEPT !.left = {}])
           ELSE /\ Served(r, run[r].user)
                /\ UNCHANGED told
    /\ UNCHANGED <<environment, digestDay, faults, history>>

(* UpsertWatchlistNotificationState, row by row and whatever is stored there;
   a row deleted meanwhile ends the pass over the user. *)
Store(r) ==
    /\ run[r].pc = "store" /\ run[r].left # {}
    /\ LET w == First(run[r].left)
       IN  IF Exists(w)
           THEN /\ told' = [told EXCEPT ![w] = run[r].pend[w]]
                /\ Goto(r, [run[r] EXCEPT !.left = @ \ {w}])
           ELSE /\ Served(r, run[r].user)
                /\ UNCHANGED told
    /\ UNCHANGED <<environment, digestDay, faults, history>>

\* A state or the digest mark cannot be written; the cycle goes on.
StoreFails(r) ==
    /\ run[r].pc = "store"
    /\ run[r].left # {} \/ run[r].mode[run[r].user] = "daily_digest"
    /\ Fault
    /\ Served(r, run[r].user)
    /\ UNCHANGED <<environment, tables, history>>

EndDispatch(r) ==
    /\ run[r].pc = "store" /\ run[r].left = {}
    /\ digestDay' = IF run[r].mode[run[r].user] = "daily_digest"
                    THEN [digestDay EXCEPT ![run[r].user] = Day(run[r].at)]
                    ELSE digestDay
    /\ Served(r, run[r].user)
    /\ UNCHANGED <<environment, told, faults, history>>

Finish(r) ==
    /\ run[r].pc = "scan" /\ run[r].todo = {} /\ run[r].due = {} /\ Immediate(r) = {}
    /\ Goto(r, Idle)
    /\ UNCHANGED <<environment, tables, faults, history>>

\* A statement outside a dispatch fails, the cycle times out, the process dies.
Abort(r) ==
    /\ run[r].pc # "idle"
    /\ Fault
    /\ Goto(r, Idle)
    /\ UNCHANGED <<environment, tables, history>>

-----------------------------------------------------------------------------
(* Users and the rest of the system. *)
AddWatchlistItem(w) ==
    /\ Edited
    /\ row[w] = "new"
    /\ row' = [row EXCEPT ![w] = "on"]
    /\ UNCHANGED <<prices, active, pref, reachable, tables, run, now, faults, losses, history>>

UpdateWatchlistItemNotification(w) ==
    /\ Edited
    /\ Exists(w)
    /\ row' = [row EXCEPT ![w] = IF @ = "on" THEN "off" ELSE "on"]
    /\ UNCHANGED <<prices, active, pref, reachable, tables, run, now, faults, losses, history>>

(* The notification states go with the row (ON DELETE CASCADE). *)
DeleteWatchlistItem(w) ==
    /\ Edited
    /\ Exists(w)
    /\ row' = [row EXCEPT ![w] = "gone"]
    /\ told' = [told EXCEPT ![w] = NoPrice]
    /\ UNCHANGED <<prices, active, pref, reachable, digestDay, run, now, faults, losses, history>>

UpsertPreferences(u, enabled, mode) ==
    /\ Edited
    /\ pref' = [pref EXCEPT ![u] = [enabled |-> enabled, mode |-> mode]]
    /\ UNCHANGED <<prices, active, row, reachable, tables, run, now, faults, losses, history>>

\* auth-service: the user verifies the address.
VerifyAddress(u) ==
    /\ Edited
    /\ reachable' = [reachable EXCEPT ![u] = TRUE]
    /\ UNCHANGED <<prices, active, row, pref, tables, run, now, faults, losses, history>>

\* catalog-service: an item is deactivated, or an import brings it back.
SetItemActive(w) ==
    /\ Edited
    /\ active' = [active EXCEPT ![w] = ~@]
    /\ UNCHANGED <<prices, row, pref, reachable, tables, run, now, faults, losses, history>>

\* catalog-service: one entry a day, overwritten by later collections that day.
CollectPrice(w, v) ==
    /\ prices' = [prices EXCEPT ![w] = [on |-> Day(now), value |-> v]]
    /\ UNCHANGED <<active, row, pref, reachable, tables, run, now, edits, faults, losses,
                   history>>

Tick ==
    /\ now < MaxTime
    /\ now' = now + 1
    /\ UNCHANGED <<prices, active, row, pref, reachable, tables, run, edits, faults, losses,
                   history>>

Init ==
    /\ prices = [w \in Watch |-> NoPrice]
    /\ active \in [Watch -> BOOLEAN]
    /\ row \in [Watch -> {"new", "on"}]
    /\ pref \in [User -> [enabled: BOOLEAN, mode: Mode]]
    /\ reachable \in [User -> BOOLEAN]
    /\ told = [w \in Watch |-> NoPrice]
    /\ digestDay = [u \in User |-> NoDay]
    /\ run = [r \in Runner |-> Idle]
    /\ now = 0
    /\ edits = 0
    /\ faults = 0
    /\ losses = 0
    /\ excused = [w \in Watch |-> {}]
    /\ lastMail = [w \in Watch |-> NoPrice]
    /\ repeats = [w \in Watch |-> 0]
    /\ digests = {}

\* What a run does by itself, without anything failing.
Proceed(r) ==
    \/ Start(r) \/ LockBusy(r)
    \/ GetItem(r) \/ ReadPrice(r) \/ Compare(r) \/ Baseline(r)
    \/ \E u \in User : Contact(r, u) \/ NoContact(r, u) \/ EmptyDigest(r, u)
    \/ Send(r) \/ Store(r) \/ EndDispatch(r) \/ Finish(r)

Fail(r) == SkipItem(r) \/ SendFails(r) \/ StoreFails(r) \/ Abort(r)

Edit ==
    \/ \E w \in Watch : \/ AddWatchlistItem(w)
                        \/ UpdateWatchlistItemNotification(w)
                        \/ DeleteWatchlistItem(w)
                        \/ SetItemActive(w)
    \/ \E u \in User, enabled \in BOOLEAN, mode \in Mode : UpsertPreferences(u, enabled, mode)
    \/ \E u \in User : VerifyAddress(u)

Next ==
    \/ \E r \in Runner : Fire(r) \/ Proceed(r) \/ Fail(r) \/ LoseSession(r)
    \/ Edit
    \/ \E w \in Watch, v \in Value : CollectPrice(w, v)
    \/ Tick

Spec == Init /\ [][Next]_vars

(* Tickers keep firing and runs go on; nothing is assumed of users, admins
   or prices, and failures are finite in number. *)
Fairness ==
    /\ \A r \in Runner : WF_vars(Proceed(r))
    /\ \A s \in Sched : WF_vars(Fire(s))

-----------------------------------------------------------------------------
(* Every variable has its type; a run at a step has what the step needs. *)
TypeOK ==
    /\ prices \in [Watch -> Price \union {NoPrice}]
    /\ active \in [Watch -> BOOLEAN]
    /\ row \in [Watch -> {"new", "on", "off", "gone"}]
    /\ pref \in [User -> [enabled: BOOLEAN, mode: Mode]]
    /\ reachable \in [User -> BOOLEAN]
    /\ told \in [Watch -> Price \union {NoPrice}]
    /\ digestDay \in [User -> Nat \union {NoDay}]
    /\ run \in [Runner -> Run]
    /\ {now, edits, faults, losses} \subseteq Nat
    /\ repeats \in [Watch -> Nat]
    /\ \A r \in Runner :
          /\ run[r].pc \in {"price", "compare", "baseline"} => run[r].todo # {}
          /\ run[r].pc = "baseline" => run[r].seen # NoPrice
          /\ run[r].pc \in {"send", "store"} => run[r].user \in User
          /\ run[r].left \subseteq PendingOf(r, run[r].user)

(* A price is stored as told only if its user was mailed that very price, or
   it was the first one seen, or the user could not be mailed when it was its
   turn.  A failing mail call, a run cut off and runs that interleave lose no
   change: it is found again. *)
ToldIsBacked == \A w \in Watch : told[w] # NoPrice => told[w] \in excused[w]

(* As long as no run has lost its lock, no mail says again what the one before
   said of an item, except after a failure, or after the user deleted another
   row of that mail under its dispatch: at most one mail for each of them.
   Cycles exclude each other for this; a manual run beside one voids it, and so
   do two cycles at once. *)
RepeatsNeedFaults ==
    losses = 0 =>
        \A w \in Watch : repeats[w] <= faults + Cardinality({v \in Watch : row[v] = "gone"})

(* What was told never goes back to an older day, as long as no run has lost
   its lock: then another cycle starts beside it, and whichever read the price
   first may store it last. *)
ToldNeverGoesBack ==
    [][\A w \in Watch :
          losses = 0 /\ told[w] # NoPrice /\ told'[w] # NoPrice => told'[w].on >= told[w].on]_vars

(* A user gets one digest a day, and one more at most for each failure or
   deletion: manual runs, changes of mode, changes of price or not.  This is
   about one replica, whose ticker never overlaps itself, lock or not. *)
OneDigestADay ==
    \A x \in digests : x[2] <= faults + Cardinality({w \in Watch : row[w] = "gone"})

(* A user of immediate alerts whose active item has a price is told it, or the
   price has moved on, the item is no longer active or the user no longer asks:
   whatever failed before, for this user or for another one of the cycle. *)
Alertable(w) ==
    /\ row[w] = "on" /\ active[w]
    /\ pref[Owner[w]] = [enabled |-> TRUE, mode |-> "immediate"]

EveryPriceIsTold ==
    \A w \in Watch : \A p \in [on: 0..Day(MaxTime), value: Value] :
        (prices[w] = p /\ Alertable(w)) ~> (told[w] = p \/ prices[w] # p \/ ~Alertable(w))

=============================================================================
