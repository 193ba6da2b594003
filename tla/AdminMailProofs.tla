---------------------------- MODULE AdminMailProofs ----------------------------
(***************************************************************************)
(* Theorems of AdminMail for any users, items and attempts, any number of  *)
(* changes, and any cut of the calls to notification-service.              *)
(***************************************************************************)
EXTENDS AdminMail, NotificationOutboxProofs, FiniteSetTheorems

(* The types of the attempt's own variables; a message to one user names one. *)
Typed ==
    /\ verified \subseteq User /\ changes \in Nat
    /\ attempt \in [Attempt -> AttemptState]
    /\ wanted \in [Attempt -> SUBSET User] /\ listed \in [Attempt -> SUBSET User]
    /\ \A a \in Attempt : At(a, "asked", {"single"}) => attempt[a].target \in User

LEMMA TypedInit == Init => Typed
  BY EverybodyAssumption DEF Init, Typed, NoAttempt, AttemptState, Kind, At

(* One more mail sent, or one more user skipped. *)
LEMMA Counted ==
  ASSUME NEW s \in AttemptState, NEW u
  PROVE  /\ [s EXCEPT !.pending = @ \ {u}, !.skipped = @ + 1] \in AttemptState
         /\ [s EXCEPT !.pending = @ \ {u}, !.current = Everybody, !.skipped = @ + 1] \in AttemptState
         /\ [s EXCEPT !.pending = @ \ {u}, !.current = Everybody, !.sent = @ + 1] \in AttemptState
  <1> DEFINE sent == s.sent + 1
             skipped == s.skipped + 1
  <1>1. sent \in Nat /\ skipped \in Nat
    BY DEF AttemptState
  <1>2. /\ [s EXCEPT !.pending = @ \ {u}, !.skipped = skipped] \in AttemptState
        /\ [s EXCEPT !.pending = @ \ {u}, !.current = Everybody, !.skipped = skipped] \in AttemptState
        /\ [s EXCEPT !.pending = @ \ {u}, !.current = Everybody, !.sent = sent] \in AttemptState
    <2> HIDE DEF sent, skipped
    <2> QED
      BY <1>1 DEF AttemptState
  <1> QED
    BY <1>2

(* A step of an attempt changes nothing of the others, and keeps the types. *)
LEMMA AttemptTyped ==
  ASSUME Typed, NEW a \in Attempt,
         \/ AttemptStep(a)
         \/ \E kind \in Kind, target \in User \union {Everybody} : Ask(a, kind, target)
  PROVE  /\ Typed'
         /\ \A b \in Attempt \ {a} : /\ attempt'[b] = attempt[b]
                                     /\ wanted'[b] = wanted[b] /\ listed'[b] = listed[b]
         /\ UNCHANGED <<verified, changes, assetVars>>
  <1> DEFINE After(s) ==
             /\ attempt' = [attempt EXCEPT ![a] = s] /\ s \in AttemptState
             /\ s.pc = "asked" => s.kind # "single" \/ s.target \in User
             /\ wanted' \in [Attempt -> SUBSET User] /\ listed' \in [Attempt -> SUBSET User]
             /\ \A b \in Attempt \ {a} : wanted'[b] = wanted[b] /\ listed'[b] = listed[b]
             /\ UNCHANGED <<verified, changes, assetVars>>
  <1> SUFFICES \E s : After(s)
    BY DEF Typed, At
  <1> USE DEF Typed, Becomes, Fails, At, AttemptState
  <1>1. ASSUME NEW kind \in Kind, NEW target \in User \union {Everybody}, Ask(a, kind, target)
        PROVE  \E s : After(s)
    <2> DEFINE s == [NoAttempt EXCEPT !.pc = "asked", !.kind = kind, !.target = target]
    <2>1. After(s)
      BY <1>1 DEF Ask, NoAttempt, Kind
    <2> QED
      BY <2>1
  <1>2. CASE SendAdminMessage(a)
    <2>1. After([attempt[a] EXCEPT !.pc = "mail", !.pending = {attempt[a].target}])
      BY <1>2 DEF SendAdminMessage
    <2> QED
      BY <2>1
  <1>3. CASE ListUserContacts(a)
    <2>1. After([attempt[a] EXCEPT !.pc = "mail", !.pending = verified])
      BY <1>3 DEF ListUserContacts
    <2> QED
      BY <2>1
  <1>4. CASE ListNotificationSubscriptions(a)
    <2> DEFINE rows == {w \in WatchRow : attempt[a].target \in {Everybody, w[1]}}
               todo == {w \in rows : Listed(w)}
               users == {w[1] : w \in {v \in rows : Wants(v)}}
    <2>1. users \in SUBSET User /\ todo \in SUBSET WatchRow
      BY DEF WatchRow
    <2>2. /\ wanted' = [wanted EXCEPT ![a] = users]
          /\ attempt' = [attempt EXCEPT ![a] = [attempt[a] EXCEPT !.pc = "scan", !.todo = todo]]
      BY <1>4 DEF ListNotificationSubscriptions
    <2> HIDE DEF users, todo
    <2>3. [attempt[a] EXCEPT !.pc = "scan", !.todo = todo] \in AttemptState
      BY <2>1
    <2>4. UNCHANGED <<verified, changes, assetVars, listed>>
      BY <1>4 DEF ListNotificationSubscriptions
    <2>5. After([attempt[a] EXCEPT !.pc = "scan", !.todo = todo])
      BY <2>1, <2>2, <2>3, <2>4
    <2> QED
      BY <2>5
  <1>5. CASE \/ ListFails(a) \/ ContactFails(a) \/ AdminGone(a)
             \/ MailFails(a) /\ attempt[a].kind # "snapshot"
    <2>1. After([attempt[a] EXCEPT !.pc = "failed"])
      BY <1>5 DEF ListFails, ContactFails, AdminGone, MailFails
    <2> QED
      BY <2>1
  <1>6. ASSUME NEW w \in WatchRow, CheckItem(a, w) PROVE \E s : After(s)
    <2>1. PICK found \in BOOLEAN :
            Becomes(a, [attempt[a] EXCEPT
              !.todo = @ \ {w},
              !.pending = IF found THEN @ \union {w[1]} ELSE @])
      BY <1>6 DEF CheckItem
    <2> DEFINE todo == attempt[a].todo \ {w}
               pending == IF found THEN attempt[a].pending \union {w[1]} ELSE attempt[a].pending
               s == [attempt[a] EXCEPT !.todo = todo, !.pending = pending]
    <2>2. todo \in SUBSET WatchRow /\ pending \in SUBSET User
      BY DEF WatchRow
    <2>3. attempt' = [attempt EXCEPT ![a] = s] /\ attempt[a].pc = "scan"
      BY <1>6, <2>1 DEF CheckItem
    <2> HIDE DEF todo, pending
    <2>4. s \in AttemptState /\ s.pc = attempt[a].pc
      BY <2>2
    <2>5. After(s)
      <3> HIDE DEF s
      <3> QED
        BY <1>6, <2>3, <2>4 DEF CheckItem
    <2> QED
      BY <2>5
  <1>7. CASE Dispatch(a)
    <2>1. After([attempt[a] EXCEPT !.pc = "mail"])
      BY <1>7 DEF Dispatch
    <2> QED
      BY <2>1
  <1>8. ASSUME NEW u \in User, MailTo(a, u) PROVE \E s : After(s)
    <2>1. After([attempt[a] EXCEPT !.current = u])
      BY <1>8 DEF MailTo, Turn
    <2> QED
      BY <2>1
  <1>9. ASSUME NEW u \in User, NoContact(a, u) PROVE \E s : After(s)
    <2> DEFINE s == [attempt[a] EXCEPT !.pending = @ \ {u}, !.skipped = @ + 1]
    <2>1. s \in AttemptState /\ s.pc = "mail"
      BY <1>9, Counted DEF NoContact, Turn
    <2>2. After(s)
      BY <1>9, <2>1 DEF NoContact
    <2> QED
      BY <2>2
  <1>10. CASE MailSent(a)
    <2> DEFINE s == [attempt[a] EXCEPT
                       !.pending = @ \ {attempt[a].current}, !.current = Everybody, !.sent = @ + 1]
    <2>1. s \in AttemptState /\ s.pc = "mail"
      BY <1>10, Counted DEF MailSent, Answered
    <2>2. After(s)
      BY <1>10, <2>1 DEF MailSent
    <2> QED
      BY <2>2
  <1>11. CASE MailFails(a) /\ attempt[a].kind = "snapshot"
    <2> DEFINE s == [attempt[a] EXCEPT
                       !.pending = @ \ {attempt[a].current}, !.current = Everybody, !.skipped = @ + 1]
    <2>1. s \in AttemptState /\ s.pc = "mail"
      BY <1>11, Counted DEF MailFails, Answered
    <2>2. After(s)
      BY <1>11, <2>1 DEF MailFails
    <2> QED
      BY <2>2
  <1>12. CASE Report(a)
    <2>1. After([attempt[a] EXCEPT !.pc = "reported"])
      BY <1>12 DEF Report
    <2> QED
      BY <2>1
  <1> QED
    BY <1>1, <1>2, <1>3, <1>4, <1>5, <1>6, <1>7, <1>8, <1>9, <1>10, <1>11, <1>12 DEF AttemptStep

-----------------------------------------------------------------------------
(* A save that switches notifications off stays, and no GetPreferences is about
   to write over it, unless it met one under way. *)
AssetsInv ==
    /\ AssetsTypeOK
    /\ \A u \in User : choice[u] = "off" /\ u \notin raced => prefs[u] = "off" /\ u \notin reading

LEMMA AssetsStart == AssetsInit => AssetsInv
  BY DEF AssetsInit, AssetsInv, AssetsTypeOK, Setting

LEMMA AssetsStep == AssetsInv /\ [Change \/ Look]_assetVars => AssetsInv'
  <1> SUFFICES ASSUME AssetsInv, [Change \/ Look]_assetVars PROVE AssetsInv'
    OBVIOUS
  <1> USE DEF AssetsInv, AssetsTypeOK, Setting
  <1>1. ASSUME NEW u \in User, NEW enabled \in {"on", "off"}, UpdatePreferences(u, enabled)
        PROVE  AssetsInv'
    BY <1>1 DEF UpdatePreferences
  <1>2. ASSUME NEW w \in WatchRow, NEW enabled \in {"on", "off"},
               \/ AddWatchlistItem(w) \/ DeleteWatchlistItem(w)
               \/ UpdateWatchlistItemNotification(w, enabled)
        PROVE  AssetsInv'
    BY <1>2 DEF AddWatchlistItem, DeleteWatchlistItem, UpdateWatchlistItemNotification
  <1>3. ASSUME NEW u \in User, GetPreferences(u) PROVE AssetsInv'
    BY <1>3 DEF GetPreferences
  <1>4. ASSUME NEW u \in User, InsertDefaults(u) PROVE AssetsInv'
    BY <1>4 DEF InsertDefaults
  <1>5. CASE UNCHANGED assetVars
    BY <1>5 DEF assetVars
  <1> QED
    BY <1>1, <1>2, <1>3, <1>4, <1>5 DEF Change, Look

(* What is listed is wanted. *)
LEMMA ListedIsWanted == ASSUME AssetsInv, NEW w \in WatchRow, Listed(w) PROVE Wants(w)
  BY DEF AssetsInv, AssetsTypeOK, Listed, Wants, WatchRow

-----------------------------------------------------------------------------
(* The users an attempt has mailed and has an answer of. *)
Tried(a) == {u \in User : stage[<<a, u>>] # "none"} \ {attempt[a].current}

SentTo(a) == {u \in Tried(a) : told[<<a, u>>] = "ok"}

(* The mail under way is of a pending user, every other was answered, and its
   user is not pending any more; nothing goes out before the list is there. *)
CallsInv(a) ==
    /\ ~Free(a) => /\ attempt[a].current \in attempt[a].pending
                   /\ stage[<<a, attempt[a].current>>] # "none"
    /\ \A u \in Tried(a) : u \notin attempt[a].pending /\ told[<<a, u>>] # "no"
    /\ attempt[a].pc \in {"none", "asked", "scan"} => Free(a) /\ Tried(a) = {}
    /\ attempt[a].pc \in {"none", "asked"} => attempt[a].pending = {} /\ attempt[a].todo = {}
    /\ attempt[a].pc = "scan" => attempt[a].kind = "snapshot"
    /\ attempt[a].pc = "reported" => Free(a) /\ attempt[a].pending = {}

(* A snapshot concerns nobody but those who wanted it when it was listed. *)
WantedInv(a) ==
    attempt[a].kind = "snapshot" /\ attempt[a].pc # "asked" =>
        /\ attempt[a].pending \subseteq wanted[a]
        /\ \A w \in attempt[a].todo : w[1] \in wanted[a]
        /\ Tried(a) \subseteq wanted[a]

(* A message to everybody goes on only while every mail was accepted. *)
BroadcastInv(a) ==
    attempt[a].kind = "broadcast" =>
        /\ \A u \in Tried(a) : told[<<a, u>>] = "ok"
        /\ attempt[a].pc \in {"mail", "reported"} => listed[a] = attempt[a].pending \union Tried(a)

(* The counters of the report. *)
CountInv(a) ==
    /\ IsFiniteSet(Tried(a))
    /\ Cardinality(SentTo(a)) = attempt[a].sent
    /\ Cardinality(Tried(a)) <= attempt[a].sent + attempt[a].skipped

AttemptInv(a) == CallsInv(a) /\ WantedInv(a) /\ BroadcastInv(a) /\ CountInv(a)

LEMMA AttemptStart == ASSUME Init, NEW a \in Attempt PROVE AttemptInv(a)
  <1>1. Tried(a) = {} /\ SentTo(a) = {}
    BY MailAssumption DEF Init, OutboxInit, Tried, SentTo
  <1>2. attempt[a] = NoAttempt
    BY DEF Init
  <1> QED
    BY <1>1, <1>2, FS_EmptySet
    DEF AttemptInv, CallsInv, WantedInv, BroadcastInv, CountInv, NoAttempt, Free

(* What an attempt knows stays true while calls proceed, other attempts work,
   and when it fails itself. *)
LEMMA AttemptKept ==
  ASSUME Typed, NEW a \in Attempt, AttemptInv(a),
         attempt'[a] \in {attempt[a], [attempt[a] EXCEPT !.pc = "failed"]},
         wanted'[a] = wanted[a], listed'[a] = listed[a],
         \A u \in User : /\ stage'[<<a, u>>] = "none" <=> stage[<<a, u>>] = "none"
                         /\ told[<<a, u>>] # "no" => told'[<<a, u>>] = told[<<a, u>>]
  PROVE  AttemptInv(a)'
  <1> USE DEF Typed, AttemptState
  <1>1. \/ attempt'[a].pc = attempt[a].pc
        \/ attempt'[a].pc = "failed"
    OBVIOUS
  <1>2. /\ attempt'[a].kind = attempt[a].kind /\ attempt'[a].pending = attempt[a].pending
        /\ attempt'[a].todo = attempt[a].todo /\ attempt'[a].current = attempt[a].current
        /\ attempt'[a].sent = attempt[a].sent /\ attempt'[a].skipped = attempt[a].skipped
    OBVIOUS
  <1>3. Tried(a)' = Tried(a)
    BY <1>2 DEF Tried
  <1>4. \A u \in Tried(a) : told'[<<a, u>>] = told[<<a, u>>]
    BY DEF AttemptInv, CallsInv, Tried
  <1>5. SentTo(a)' = SentTo(a)
    BY <1>3, <1>4 DEF SentTo
  <1>6. Free(a)' = Free(a)
    BY <1>2 DEF Free
  <1>7. ~Free(a) => (stage'[<<a, attempt[a].current>>] # "none")
    BY DEF Free, AttemptInv, CallsInv
  <1>8. CallsInv(a)'
    BY <1>1, <1>2, <1>3, <1>4, <1>6, <1>7 DEF AttemptInv, CallsInv
  <1>9. WantedInv(a)' /\ BroadcastInv(a)' /\ CountInv(a)'
    BY <1>1, <1>2, <1>3, <1>4, <1>5 DEF AttemptInv, CallsInv, WantedInv, BroadcastInv, CountInv
  <1> QED
    BY <1>8, <1>9 DEF AttemptInv

-----------------------------------------------------------------------------
(* A call makes no mail posted or unposted but its own, and no answer changes. *)
LEMMA CallsKeep ==
  ASSUME OutboxTypeOK, NEW m \in Mail, Serve(m) \/ GiveUp(m) \/ CutOff(m), NEW n \in Mail
  PROVE  /\ stage'[n] = "none" <=> stage[n] = "none"
         /\ told[n] # "no" => told'[n] = told[n]
  <1> USE DEF OutboxTypeOK, To, Ends, Serving
  <1>1. CASE CreateOutboxRecord(m) \/ RecordFails(m) \/ SendEmail(m) \/ ProviderTakes(m)
    BY <1>1 DEF CreateOutboxRecord, RecordFails, SendEmail, ProviderTakes
  <1>2. CASE ProviderAnswers(m) \/ ProviderErrors(m) \/ MarkSent(m) \/ MarkFailed(m)
    BY <1>2 DEF ProviderAnswers, ProviderErrors, MarkSent, MarkFailed
  <1>3. CASE MarkFails(m) \/ AnswerQueued(m) \/ GiveUp(m) \/ CutOff(m)
    BY <1>3 DEF MarkFails, AnswerQueued, GiveUp, CutOff
  <1> QED
    BY <1>1, <1>2, <1>3 DEF Serve

(* Of notification-service an attempt sees its own calls only: every step of
   AdminMail is a step of the outbox, or leaves it alone. *)
LEMMA OutboxMoves == Typed /\ [Next]_vars => [OutboxNext]_outboxVars
  <1> SUFFICES ASSUME Typed, Next PROVE OutboxNext \/ UNCHANGED outboxVars
    BY DEF vars
  <1>1. ASSUME NEW a \in Attempt, NEW u \in User, MailTo(a, u) PROVE OutboxNext
    BY <1>1, MailAssumption DEF MailTo, OutboxNext
  <1>2. ASSUME NEW a \in Attempt, AdminGone(a) PROVE OutboxNext \/ UNCHANGED outboxVars
    <2>1. CASE ~Free(a)
      <3>1. <<a, attempt[a].current>> \in Mail
        BY <2>1, MailAssumption DEF Free, Typed, AttemptState
      <3> QED
        BY <1>2, <3>1 DEF AdminGone, OutboxNext
    <2>2. CASE Free(a)
      BY <1>2, <2>2 DEF AdminGone
    <2> QED
      BY <2>1, <2>2
  <1>3. ASSUME NEW a \in Attempt, AttemptStep(a), ~AdminGone(a), \A u \in User : ~MailTo(a, u)
        PROVE  UNCHANGED outboxVars
    BY <1>3 DEF AttemptStep, SendAdminMessage, ListUserContacts, ListNotificationSubscriptions,
                ListFails, CheckItem, Dispatch, NoContact, ContactFails, MailSent, MailFails, Report
  <1>4. CASE Notify
    BY <1>4 DEF Notify, OutboxNext
  <1>5. CASE Users \/ Settings
    BY <1>5 DEF Users, Settings
  <1>6. ASSUME NEW a \in Attempt, NEW kind \in Kind, NEW target \in User \union {Everybody},
               Ask(a, kind, target)
        PROVE  UNCHANGED outboxVars
    BY <1>6 DEF Ask
  <1> QED
    BY <1>1, <1>2, <1>3, <1>4, <1>5, <1>6 DEF Next

-----------------------------------------------------------------------------
(* A step that begins or ends no mail. *)
LEMMA Unsent ==
  ASSUME NEW a \in Attempt, UNCHANGED outboxVars, attempt'[a].current = attempt[a].current
  PROVE  /\ Tried(a)' = Tried(a) /\ SentTo(a)' = SentTo(a) /\ Free(a)' = Free(a)
         /\ stage' = stage /\ told' = told
  BY DEF Tried, SentTo, Free, outboxVars

LEMMA AskKeeps ==
  ASSUME Typed, NEW a \in Attempt, AttemptInv(a),
         NEW kind \in Kind, NEW target \in User \union {Everybody}, Ask(a, kind, target)
  PROVE  AttemptInv(a)'
  <1> DEFINE s == attempt'[a]
  <1>1. /\ s.pc = "asked" /\ s.pending = {} /\ s.todo = {} /\ s.current = Everybody
        /\ s.sent = 0 /\ s.skipped = 0 /\ attempt[a].pc = "none"
    BY DEF Ask, Becomes, NoAttempt, Typed
  <1>2. Tried(a) = {} /\ SentTo(a) = {} /\ attempt[a].current = Everybody
    BY <1>1 DEF AttemptInv, CallsInv, SentTo, Free
  <1>3. Tried(a)' = {} /\ SentTo(a)' = {} /\ Free(a)'
    BY <1>1, <1>2, Unsent DEF Ask, Free
  <1> QED
    BY <1>1, <1>3, FS_EmptySet DEF AttemptInv, CallsInv, WantedInv, BroadcastInv, CountInv

(* The list is read. *)
LEMMA ListKeeps ==
  ASSUME Typed, AssetsInv, NEW a \in Attempt, AttemptInv(a),
         \/ SendAdminMessage(a) \/ ListUserContacts(a) \/ ListNotificationSubscriptions(a)
  PROVE  AttemptInv(a)'
  <1> USE DEF Typed, AttemptState, Becomes, At
  <1>1. /\ attempt[a].pc = "asked" /\ Tried(a) = {} /\ Free(a)
        /\ attempt[a].pending = {} /\ attempt[a].todo = {}
    BY DEF AttemptInv, CallsInv, SendAdminMessage, ListUserContacts, ListNotificationSubscriptions
  <1>2. /\ attempt'[a].current = attempt[a].current /\ attempt'[a].sent = attempt[a].sent
        /\ attempt'[a].skipped = attempt[a].skipped /\ attempt'[a].kind = attempt[a].kind
    <2>1. CASE SendAdminMessage(a)
      BY <2>1 DEF SendAdminMessage
    <2>2. CASE ListUserContacts(a)
      BY <2>2 DEF ListUserContacts
    <2>3. CASE ListNotificationSubscriptions(a)
      <3> DEFINE todo == {w \in {v \in WatchRow : attempt[a].target \in {Everybody, v[1]}} : Listed(w)}
      <3>1. attempt' = [attempt EXCEPT ![a] = [attempt[a] EXCEPT !.pc = "scan", !.todo = todo]]
        BY <2>3 DEF ListNotificationSubscriptions
      <3> QED
        BY <3>1
    <2> QED
      BY <2>1, <2>2, <2>3
  <1>3. Tried(a)' = {} /\ SentTo(a)' = SentTo(a) /\ Free(a)' /\ Tried(a)' = Tried(a)
    BY <1>1, <1>2, Unsent DEF SendAdminMessage, ListUserContacts, ListNotificationSubscriptions
  <1>4. CountInv(a)'
    BY <1>2, <1>3 DEF AttemptInv, CountInv
  <1>5. CASE SendAdminMessage(a)
    <2>1. attempt[a].kind = "single" /\ attempt'[a].pc = "mail"
      BY <1>5 DEF SendAdminMessage
    <2> QED
      BY <1>2, <1>3, <1>4, <2>1 DEF AttemptInv, CallsInv, WantedInv, BroadcastInv
  <1>6. CASE ListUserContacts(a)
    <2>1. /\ attempt[a].kind = "broadcast" /\ attempt'[a].pc = "mail"
          /\ attempt'[a].pending = verified /\ listed'[a] = verified
      BY <1>6 DEF ListUserContacts
    <2> QED
      BY <1>2, <1>3, <1>4, <2>1 DEF AttemptInv, CallsInv, WantedInv, BroadcastInv
  <1>7. CASE ListNotificationSubscriptions(a)
    <2> DEFINE rows == {w \in WatchRow : attempt[a].target \in {Everybody, w[1]}}
    <2>1. /\ attempt[a].kind = "snapshot" /\ attempt'[a].pc = "scan"
          /\ attempt'[a].pending = {} /\ attempt'[a].todo = {w \in rows : Listed(w)}
          /\ wanted'[a] = {w[1] : w \in {v \in rows : Wants(v)}}
      BY <1>1, <1>7 DEF ListNotificationSubscriptions
    <2>2. \A w \in attempt'[a].todo : w[1] \in wanted'[a]
      BY <2>1, ListedIsWanted
    <2> QED
      BY <1>2, <1>3, <1>4, <2>1, <2>2 DEF AttemptInv, CallsInv, WantedInv, BroadcastInv
  <1> QED
    BY <1>5, <1>6, <1>7

(* The rows are gone through, a user is left out, or the report is made. *)
LEMMA ScanKeeps ==
  ASSUME Typed, NEW a \in Attempt, AttemptInv(a),
         \/ \E w \in WatchRow : CheckItem(a, w)
         \/ Dispatch(a) \/ Report(a) \/ \E u \in User : NoContact(a, u)
  PROVE  AttemptInv(a)'
  <1> USE DEF Typed, AttemptState, Becomes, At
  <1>1. ASSUME NEW w \in WatchRow, CheckItem(a, w) PROVE AttemptInv(a)'
    <2>1. /\ attempt'[a].current = attempt[a].current /\ attempt'[a].sent = attempt[a].sent
          /\ attempt'[a].skipped = attempt[a].skipped /\ attempt'[a].kind = attempt[a].kind
          /\ attempt[a].pc = "scan" /\ attempt'[a].pc = "scan" /\ w \in attempt[a].todo
      BY <1>1 DEF CheckItem
    <2>2. /\ attempt'[a].todo \subseteq attempt[a].todo
          /\ attempt'[a].pending \subseteq attempt[a].pending \union {w[1]}
      <3>1. PICK found \in BOOLEAN :
              attempt' = [attempt EXCEPT ![a] = [attempt[a] EXCEPT
                !.todo = @ \ {w},
                !.pending = IF found THEN @ \union {w[1]} ELSE @]]
        BY <1>1 DEF CheckItem
      <3> QED
        BY <3>1
    <2>3. Tried(a)' = Tried(a) /\ SentTo(a)' = SentTo(a) /\ Free(a)' = Free(a) /\ wanted' = wanted
      BY <1>1, <2>1, Unsent DEF CheckItem
    <2> QED
      BY <2>1, <2>2, <2>3 DEF AttemptInv, CallsInv, WantedInv, BroadcastInv, CountInv
  <1>2. CASE Dispatch(a) \/ Report(a)
    <2>1. /\ attempt'[a].current = attempt[a].current /\ attempt'[a].sent = attempt[a].sent
          /\ attempt'[a].skipped = attempt[a].skipped /\ attempt'[a].kind = attempt[a].kind
          /\ attempt'[a].todo = attempt[a].todo /\ attempt'[a].pending = attempt[a].pending
          /\ \/ attempt[a].pc = "scan" /\ attempt'[a].pc = "mail"
             \/ /\ attempt[a].pc = "mail" /\ attempt'[a].pc = "reported"
                /\ Free(a) /\ attempt[a].pending = {}
      BY <1>2 DEF Dispatch, Report
    <2>2. /\ Tried(a)' = Tried(a) /\ SentTo(a)' = SentTo(a) /\ Free(a)' = Free(a)
          /\ stage' = stage /\ told' = told /\ wanted' = wanted /\ listed' = listed
      BY <1>2, <2>1, Unsent DEF Dispatch, Report
    <2> QED
      BY <2>1, <2>2 DEF AttemptInv, CallsInv, WantedInv, BroadcastInv, CountInv
  <1>3. ASSUME NEW u \in User, NoContact(a, u) PROVE AttemptInv(a)'
    <2>1. /\ attempt'[a].current = attempt[a].current /\ attempt'[a].sent = attempt[a].sent
          /\ attempt'[a].kind = attempt[a].kind /\ attempt'[a].pc = attempt[a].pc
          /\ attempt'[a].todo = attempt[a].todo /\ attempt'[a].pending \subseteq attempt[a].pending
          /\ Free(a) /\ attempt[a].pc = "mail" /\ attempt[a].kind # "broadcast"
      BY <1>3 DEF NoContact, Turn
    <2>2. attempt'[a].skipped = attempt[a].skipped + 1
      BY <1>3 DEF NoContact
    <2>3. /\ Tried(a)' = Tried(a) /\ SentTo(a)' = SentTo(a) /\ Free(a)' = Free(a)
          /\ told' = told /\ wanted' = wanted
      BY <1>3, <2>1, Unsent DEF NoContact
    <2>4. CountInv(a)'
      BY <2>1, <2>2, <2>3, FS_CardinalityType DEF AttemptInv, CountInv
    <2> QED
      BY <2>1, <2>3, <2>4 DEF AttemptInv, CallsInv, WantedInv, BroadcastInv
  <1> QED
    BY <1>1, <1>2, <1>3

(* A mail goes out to a user who is pending, and so was not mailed before. *)
LEMMA MailKeeps ==
  ASSUME Typed, OutboxTypeOK, NEW a \in Attempt, NEW u \in User, AttemptInv(a), MailTo(a, u)
  PROVE  AttemptInv(a)'
  <1> USE DEF Typed, AttemptState, Becomes, At
  <1>1. /\ attempt'[a].pc = "mail" /\ attempt'[a].current = u /\ attempt'[a].sent = attempt[a].sent
        /\ attempt'[a].skipped = attempt[a].skipped /\ attempt'[a].kind = attempt[a].kind
        /\ attempt'[a].pending = attempt[a].pending /\ attempt'[a].todo = attempt[a].todo
        /\ attempt[a].pc = "mail" /\ attempt[a].current = Everybody /\ u \in attempt[a].pending
    BY DEF MailTo, Turn, Free
  <1>2. <<a, u>> \in Mail /\ \A v \in User : <<a, v>> \in Mail
    BY MailAssumption
  <1>3. /\ told' = told /\ wanted' = wanted /\ listed' = listed /\ stage'[<<a, u>>] # "none"
        /\ \A v \in User \ {u} : stage'[<<a, v>>] = stage[<<a, v>>]
    BY <1>2 DEF MailTo, Post, To, OutboxTypeOK
  <1>4. u \notin Tried(a)
    BY <1>1 DEF AttemptInv, CallsInv
  <1>5. Tried(a)' = Tried(a)
    BY <1>1, <1>3, <1>4, EverybodyAssumption DEF Tried
  <1>6. SentTo(a)' = SentTo(a)
    BY <1>3, <1>5 DEF SentTo
  <1> QED
    BY <1>1, <1>3, <1>5, <1>6 DEF AttemptInv, CallsInv, WantedInv, BroadcastInv, CountInv

(* The answer to the mail under way is counted. *)
LEMMA AnswerKeeps ==
  ASSUME Typed, NEW a \in Attempt, AttemptInv(a),
         MailSent(a) \/ (MailFails(a) /\ attempt[a].kind = "snapshot")
  PROVE  AttemptInv(a)'
  <1> DEFINE u == attempt[a].current
  <1> USE DEF Typed, AttemptState, Becomes, At
  <1>1. /\ attempt'[a].pc = "mail" /\ attempt'[a].current = Everybody
        /\ attempt'[a].kind = attempt[a].kind /\ attempt'[a].todo = attempt[a].todo
        /\ attempt'[a].pending = attempt[a].pending \ {u}
        /\ attempt[a].pc = "mail" /\ told[<<a, u>>] # "no"
    <2>1. CASE MailSent(a)
      <3>1. /\ attempt[a].pc = "mail" /\ told[<<a, u>>] # "no"
            /\ attempt' = [attempt EXCEPT ![a] = [attempt[a] EXCEPT
                  !.pending = @ \ {u}, !.current = Everybody, !.sent = @ + 1]]
        BY <2>1 DEF MailSent, Answered
      <3> QED
        BY <3>1
    <2>2. CASE MailFails(a) /\ attempt[a].kind = "snapshot"
      <3>1. /\ attempt[a].pc = "mail" /\ told[<<a, u>>] # "no"
            /\ attempt' = [attempt EXCEPT ![a] = [attempt[a] EXCEPT
                  !.pending = @ \ {u}, !.current = Everybody, !.skipped = @ + 1]]
        BY <2>2 DEF MailFails, Answered
      <3> QED
        BY <3>1
    <2> QED
      BY <2>1, <2>2
  <1>2. u \in User /\ u \in attempt[a].pending /\ stage[<<a, u>>] # "none"
    BY DEF MailSent, MailFails, Answered, Free, AttemptInv, CallsInv
  <1>3. stage' = stage /\ told' = told /\ wanted' = wanted /\ listed' = listed
    BY DEF MailSent, MailFails, outboxVars
  <1>4. Tried(a)' = Tried(a) \union {u} /\ u \notin Tried(a)
    BY <1>1, <1>2, <1>3, EverybodyAssumption DEF Tried
  <1>5. /\ IsFiniteSet(Tried(a)) /\ IsFiniteSet(SentTo(a))
        /\ Cardinality(Tried(a)) \in Nat /\ Cardinality(SentTo(a)) \in Nat
    <2>1. SentTo(a) \in SUBSET Tried(a) /\ IsFiniteSet(Tried(a))
      BY DEF SentTo, AttemptInv, CountInv
    <2> QED
      BY <2>1, FS_Subset, FS_CardinalityType
  <1>6. /\ IsFiniteSet(Tried(a)')
        /\ Cardinality(Tried(a)') = Cardinality(Tried(a)) + 1
    <2>1. /\ IsFiniteSet(Tried(a) \union {u})
          /\ Cardinality(Tried(a) \union {u}) = Cardinality(Tried(a)) + 1
      BY <1>4, <1>5, FS_AddElement
    <2> QED
      BY <1>4, <2>1
  <1>7. CASE MailSent(a)
    <2>1. /\ told[<<a, u>>] = "ok" /\ attempt'[a].skipped = attempt[a].skipped
          /\ attempt'[a].sent = attempt[a].sent + 1
      BY <1>7 DEF MailSent
    <2>2. SentTo(a)' = SentTo(a) \union {u} /\ u \notin SentTo(a)
      BY <1>3, <1>4, <2>1 DEF SentTo
    <2>3. Cardinality(SentTo(a)') = Cardinality(SentTo(a)) + 1
      BY <1>5, <2>2, FS_AddElement
    <2>4. CountInv(a)'
      BY <1>5, <1>6, <2>1, <2>3 DEF AttemptInv, CountInv
    <2> QED
      BY <1>1, <1>2, <1>3, <1>4, <2>1, <2>4
      DEF AttemptInv, CallsInv, WantedInv, BroadcastInv, Free
  <1>8. CASE MailFails(a) /\ attempt[a].kind = "snapshot"
    <2>1. /\ told[<<a, u>>] = "error" /\ attempt'[a].sent = attempt[a].sent
          /\ attempt'[a].skipped = attempt[a].skipped + 1
      <3>1. told[<<a, u>>] = "error"
        BY <1>8 DEF MailFails
      <3>2. attempt' = [attempt EXCEPT ![a] = [attempt[a] EXCEPT
                !.pending = @ \ {u}, !.current = Everybody, !.skipped = @ + 1]]
        BY <1>8 DEF MailFails
      <3> QED
        BY <3>1, <3>2
    <2>2. SentTo(a)' = SentTo(a)
      BY <1>3, <1>4, <2>1 DEF SentTo
    <2>3. CountInv(a)'
      BY <1>5, <1>6, <2>1, <2>2 DEF AttemptInv, CountInv
    <2> QED
      BY <1>1, <1>2, <1>3, <1>4, <1>8, <2>3
      DEF AttemptInv, CallsInv, WantedInv, BroadcastInv, Free
  <1> QED
    BY <1>7, <1>8

(* The attempt fails; what it sent stays sent. *)
LEMMA FailureKeeps ==
  ASSUME Typed, OutboxTypeOK, NEW a \in Attempt, AttemptInv(a),
         \/ ListFails(a) \/ ContactFails(a) \/ AdminGone(a)
         \/ MailFails(a) /\ attempt[a].kind # "snapshot"
  PROVE  /\ AttemptInv(a)'
         /\ \A n \in Mail : /\ stage'[n] = "none" <=> stage[n] = "none"
                            /\ told[n] # "no" => told'[n] = told[n]
  <1>1. /\ attempt'[a] = [attempt[a] EXCEPT !.pc = "failed"]
        /\ wanted' = wanted /\ listed' = listed
    BY DEF Typed, ListFails, ContactFails, AdminGone, MailFails, Fails, Becomes
  <1>2. ASSUME NEW n \in Mail
        PROVE  /\ stage'[n] = "none" <=> stage[n] = "none"
               /\ told[n] # "no" => told'[n] = told[n]
    <2>1. CASE UNCHANGED outboxVars
      BY <2>1 DEF outboxVars
    <2>2. CASE ~UNCHANGED outboxVars
      <3>1. ~Free(a) /\ GiveUp(<<a, attempt[a].current>>)
        BY <2>2 DEF ListFails, ContactFails, AdminGone, MailFails
      <3>2. <<a, attempt[a].current>> \in Mail
        BY <3>1, MailAssumption DEF Free, Typed, AttemptState
      <3> QED
        BY <3>1, <3>2, CallsKeep
    <2> QED
      BY <2>1, <2>2
  <1> QED
    BY <1>1, <1>2, AttemptKept, MailAssumption

-----------------------------------------------------------------------------
MailInv ==
    /\ Typed /\ AssetsInv /\ OutboxInv
    /\ \A a \in Attempt : AttemptInv(a)

LEMMA MailStart == Init => MailInv
  BY TypedInit, AssetsStart, OutboxStart, AttemptStart DEF Init, MailInv

(* Of the others an attempt's step touches nothing they rely on. *)
LEMMA OthersKeep ==
  ASSUME MailInv, NEW a \in Attempt, NEW b \in Attempt \ {a},
         \/ AttemptStep(a)
         \/ \E kind \in Kind, target \in User \union {Everybody} : Ask(a, kind, target)
  PROVE  AttemptInv(b)'
  <1>1. attempt'[b] = attempt[b] /\ wanted'[b] = wanted[b] /\ listed'[b] = listed[b]
    BY AttemptTyped DEF MailInv
  <1>2. ASSUME NEW u \in User
        PROVE  /\ stage'[<<b, u>>] = "none" <=> stage[<<b, u>>] = "none"
               /\ told[<<b, u>>] # "no" => told'[<<b, u>>] = told[<<b, u>>]
    <2>1. <<b, u>> \in Mail
      BY MailAssumption
    <2>2. CASE UNCHANGED outboxVars
      BY <2>2 DEF outboxVars
    <2>3. ASSUME NEW v \in User, MailTo(a, v)
          PROVE  stage'[<<b, u>>] = stage[<<b, u>>] /\ told' = told
      BY <2>1, <2>3 DEF MailTo, Post, To, MailInv, OutboxInv, OutboxTypeOK
    <2>4. CASE AdminGone(a)
      BY <2>1, <2>4, FailureKeeps DEF MailInv, OutboxInv
    <2>5. CASE ~AdminGone(a) /\ \A v \in User : ~MailTo(a, v)
      BY <2>2, <2>5
      DEF AttemptStep, Ask, SendAdminMessage, ListUserContacts, ListNotificationSubscriptions,
          ListFails, CheckItem, Dispatch, NoContact, ContactFails, MailSent, MailFails, Report
    <2> QED
      BY <2>3, <2>4, <2>5
  <1> QED
    BY <1>1, <1>2, AttemptKept DEF MailInv

LEMMA MailStep == MailInv /\ [Next]_vars => MailInv'
  <1> SUFFICES ASSUME MailInv, [Next]_vars PROVE MailInv'
    OBVIOUS
  <1>1. OutboxInv'
    BY OutboxMoves, OutboxStep DEF MailInv
  <1>2. ASSUME NEW a \in Attempt, AttemptStep(a) PROVE MailInv'
    <2>1. Typed' /\ UNCHANGED assetVars
      BY <1>2, AttemptTyped DEF MailInv
    <2>2. AssetsInv'
      BY <2>1, AssetsStep DEF MailInv
    <2>3. AttemptInv(a)'
      <3> USE DEF MailInv, OutboxInv
      <3>1. CASE SendAdminMessage(a) \/ ListUserContacts(a) \/ ListNotificationSubscriptions(a)
        BY <3>1, ListKeeps
      <3>2. CASE \/ \E w \in WatchRow : CheckItem(a, w)
                 \/ Dispatch(a) \/ Report(a) \/ \E u \in User : NoContact(a, u)
        BY <3>2, ScanKeeps
      <3>3. ASSUME NEW u \in User, MailTo(a, u) PROVE AttemptInv(a)'
        BY <3>3, MailKeeps
      <3>4. CASE MailSent(a) \/ (MailFails(a) /\ attempt[a].kind = "snapshot")
        BY <3>4, AnswerKeeps
      <3>5. CASE \/ ListFails(a) \/ ContactFails(a) \/ AdminGone(a)
                 \/ MailFails(a) /\ attempt[a].kind # "snapshot"
        BY <3>5, FailureKeeps
      <3> QED
        BY <1>2, <3>1, <3>2, <3>3, <3>4, <3>5 DEF AttemptStep
    <2> QED
      BY <1>1, <1>2, <2>1, <2>2, <2>3, OthersKeep DEF MailInv
  <1>3. ASSUME NEW a \in Attempt, NEW kind \in Kind, NEW target \in User \union {Everybody},
               Ask(a, kind, target)
        PROVE  MailInv'
    <2>1. Typed' /\ UNCHANGED assetVars
      BY <1>3, AttemptTyped DEF MailInv
    <2>2. AssetsInv'
      BY <2>1, AssetsStep DEF MailInv
    <2>3. AttemptInv(a)'
      BY <1>3, AskKeeps DEF MailInv
    <2> QED
      BY <1>1, <1>3, <2>1, <2>2, <2>3, OthersKeep DEF MailInv
  <1>4. CASE Notify \/ Users \/ Settings \/ UNCHANGED vars
    <2>1. UNCHANGED adminVars /\ Typed'
      BY <1>4 DEF Notify, Users, Settings, vars, adminVars, MailInv, Typed, At
    <2>2. AssetsInv'
      BY <1>4, AssetsStep DEF Notify, Users, Settings, vars, MailInv, assetVars
    <2>3. ASSUME NEW n \in Mail
          PROVE  /\ stage'[n] = "none" <=> stage[n] = "none"
                 /\ told[n] # "no" => told'[n] = told[n]
      <3>1. CASE Notify
        BY <3>1, CallsKeep DEF Notify, MailInv, OutboxInv
      <3>2. CASE Users \/ Settings \/ UNCHANGED vars
        BY <3>2 DEF Users, Settings, vars, outboxVars
      <3> QED
        BY <1>4, <3>1, <3>2
    <2>4. ASSUME NEW a \in Attempt PROVE AttemptInv(a)'
      BY <2>1, <2>3, AttemptKept, MailAssumption DEF MailInv, adminVars
    <2> QED
      BY <1>1, <2>1, <2>2, <2>4 DEF MailInv
  <1> QED
    BY <1>2, <1>3, <1>4 DEF Next

LEMMA MailCorrect == Spec => []MailInv
  BY MailStart, MailStep, PTL DEF Spec

-----------------------------------------------------------------------------
(* Every variable has its type, and no report leaves a mail under way. *)
THEOREM MailTypeCorrect == Spec => []TypeOK
  <1>1. MailInv => TypeOK
    BY DEF MailInv, TypeOK, Typed, AssetsInv, OutboxInv, AttemptInv, CallsInv
  <1> QED
    BY <1>1, MailCorrect, PTL

(* The outbox says nothing false of a mail of an admin, whatever is cut off. *)
THEOREM OutboxRowsCorrect == Spec => []RowsAreTrue
  <1>1. MailInv => RowsAreTrue
    BY KnownIsTrue DEF MailInv
  <1> QED
    BY <1>1, MailCorrect, PTL

(* A row that stays queued is of a call that was cut off. *)
THEOREM QueuedRowsCorrect == Spec => []QueuedRowsWereCut
  <1>1. MailInv => QueuedRowsWereCut
    BY KnownIsTrue DEF MailInv
  <1> QED
    BY <1>1, MailCorrect, PTL

(* The calls of the attempts keep what MailCall promises. *)
THEOREM MailImplementsCall == Spec => ImplementsMailCall
  <1>1. Init => OutboxInit
    BY DEF Init
  <1>2. MailInv /\ [Next]_vars => [OutboxNext]_outboxVars
    BY OutboxMoves DEF MailInv
  <1> QED
    BY <1>1, <1>2, MailCorrect, OutboxImplementsCall, PTL DEF Spec, OutboxSpec

(* Nobody who switched notifications off gets a snapshot. *)
THEOREM SnapshotsCorrect == Spec => []SnapshotsAreWanted
  <1>1. MailInv => SnapshotsAreWanted
    <2> SUFFICES ASSUME MailInv, NEW a \in Attempt, NEW u \in User,
                        attempt[a].kind = "snapshot", stage[<<a, u>>] # "none"
                 PROVE  u \in wanted[a]
      BY DEF SnapshotsAreWanted
    <2>1. u \in Tried(a) \/ (~Free(a) /\ u = attempt[a].current)
      BY EverybodyAssumption DEF Tried, Free
    <2>2. AttemptInv(a) /\ attempt[a].pc # "asked"
      BY <2>1 DEF MailInv, AttemptInv, CallsInv
    <2> QED
      BY <2>1, <2>2 DEF AttemptInv, CallsInv, WantedInv
  <1> QED
    BY <1>1, MailCorrect, PTL

(* Of a message to everybody there is at most one mail that may go out without
   user-asset-service being told that it was taken. *)
THEOREM UnknownCorrect == Spec => []OneUnknownMail
  <1>1. MailInv => OneUnknownMail
    <2> SUFFICES ASSUME MailInv, NEW a \in Attempt, NEW u \in User,
                        attempt[a].kind = "broadcast", Unknown(<<a, u>>)
                 PROVE  u = attempt[a].current
      BY DEF OneUnknownMail
    <2>1. stage[<<a, u>>] # "none"
      BY MailAssumption DEF MailInv, OutboxInv, StageInv, Unknown
    <2> QED
      BY <2>1 DEF MailInv, AttemptInv, BroadcastInv, Tried, Unknown
  <1> QED
    BY <1>1, MailCorrect, PTL

(* What is reported to the admin is true of the provider. *)
THEOREM ReportsCorrect == Spec => []ReportsAreTrue
  <1>1. ASSUME MailInv, NEW a \in Attempt, attempt[a].pc = "reported"
        PROVE  /\ attempt[a].sent <= Cardinality(HandedOf(a))
               /\ Cardinality(HandedOf(a)) <= attempt[a].sent + attempt[a].skipped
               /\ attempt[a].kind = "broadcast" => HandedOf(a) = listed[a]
    <2>1. /\ attempt[a].current = Everybody /\ attempt[a].pending = {}
          /\ attempt[a].sent \in Nat /\ attempt[a].skipped \in Nat
      BY <1>1 DEF MailInv, AttemptInv, CallsInv, Free, Typed, AttemptState
    <2>2. SentTo(a) \subseteq HandedOf(a) /\ HandedOf(a) \subseteq Tried(a)
      BY <1>1, <2>1, MailAssumption, EverybodyAssumption
      DEF MailInv, OutboxInv, StageInv, KnownInv, SentTo, Tried, HandedOf, Handed
    <2>3. IsFiniteSet(Tried(a)) /\ IsFiniteSet(HandedOf(a))
      BY <1>1, <2>2, FS_Subset DEF MailInv, AttemptInv, CountInv
    <2>4. /\ Cardinality(SentTo(a)) <= Cardinality(HandedOf(a))
          /\ Cardinality(HandedOf(a)) <= Cardinality(Tried(a))
      BY <2>2, <2>3, FS_Subset
    <2>5. /\ Cardinality(SentTo(a)) = attempt[a].sent
          /\ Cardinality(Tried(a)) <= attempt[a].sent + attempt[a].skipped
          /\ Cardinality(HandedOf(a)) \in Nat /\ Cardinality(Tried(a)) \in Nat
      BY <1>1, <2>3, FS_CardinalityType DEF MailInv, AttemptInv, CountInv
    <2>6. attempt[a].kind = "broadcast" => HandedOf(a) = listed[a]
      BY <1>1, <2>1, <2>2 DEF MailInv, AttemptInv, BroadcastInv, SentTo
    <2> QED
      BY <2>1, <2>4, <2>5, <2>6
  <1>2. MailInv => ReportsAreTrue
    BY <1>1 DEF ReportsAreTrue
  <1> QED
    BY <1>2, MailCorrect, PTL

=============================================================================
