------------------------------- MODULE AdminMail ------------------------------
(***************************************************************************)
(* Mails that admins send through user-asset-service: a forced snapshot of *)
(* watched prices (sendForcedSnapshot), and a message to one user or to    *)
(* everybody (SendAdminMessage), both in internal/service/price_alert.go.  *)
(*                                                                         *)
(* An attempt is one request of an admin.  It reads the tables of          *)
(* UserAssets, asks auth-service for addresses and calls                   *)
(* notification-service once for every mail; meanwhile users change their  *)
(* settings, other admins make attempts, and the admin may go away.        *)
(***************************************************************************)
EXTENDS UserAssets, NotificationOutbox, Naturals, FiniteSets

CONSTANTS
    Attempt,     \* requests of admins; asking again is another attempt
    MaxChanges,  \* bound on what users change
    Everybody    \* no target user

ASSUME MailAssumption == Mail = Attempt \X User

ASSUME EverybodyAssumption == Everybody \notin User

VARIABLES
    verified,    \* auth-service: users with a verified address
    attempt,     \* the local state of each
    changes,
    \* history, read by the properties only
    wanted,      \* users who asked for what a snapshot found listed
    listed       \* users a broadcast has set out to mail

adminVars == <<attempt, wanted, listed>>
vars == <<assetVars, outboxVars, adminVars, verified, changes>>

Kind == {"snapshot", "single", "broadcast"}

(* pc: "asked" before the first read, "scan" while the catalog is asked for the
   listed rows, "mail" while mails are sent, then "reported" or "failed". *)
AttemptState ==
    [pc: {"none", "asked", "scan", "mail", "reported", "failed"}, kind: Kind,
     target: User \union {Everybody}, todo: SUBSET WatchRow, pending: SUBSET User,
     current: User \union {Everybody}, sent: Nat, skipped: Nat]

NoAttempt == [pc |-> "none", kind |-> "single", target |-> Everybody, todo |-> {},
              pending |-> {}, current |-> Everybody, sent |-> 0, skipped |-> 0]

At(a, pc, kinds) == attempt[a].pc = pc /\ attempt[a].kind \in kinds

Becomes(a, s) == attempt' = [attempt EXCEPT ![a] = s]

Fails(a) == Becomes(a, [attempt[a] EXCEPT !.pc = "failed"])

\* Mail goes out to nobody for the moment.
Free(a) == attempt[a].current = Everybody

-----------------------------------------------------------------------------
Ask(a, kind, target) ==
    /\ attempt[a].pc = "none"
    /\ (kind = "single") => target # Everybody
    /\ (kind = "broadcast") => target = Everybody
    /\ Becomes(a, [NoAttempt EXCEPT !.pc = "asked", !.kind = kind, !.target = target])
    /\ UNCHANGED <<assetVars, outboxVars, verified, changes, wanted, listed>>

\* A message to one user needs no list.
SendAdminMessage(a) ==
    /\ At(a, "asked", {"single"})
    /\ Becomes(a, [attempt[a] EXCEPT !.pc = "mail", !.pending = {attempt[a].target}])
    /\ UNCHANGED <<assetVars, outboxVars, verified, changes, wanted, listed>>

\* ListUserContacts of auth-service, verified addresses only.
ListUserContacts(a) ==
    /\ At(a, "asked", {"broadcast"})
    /\ Becomes(a, [attempt[a] EXCEPT !.pc = "mail", !.pending = verified])
    /\ listed' = [listed EXCEPT ![a] = verified]
    /\ UNCHANGED <<assetVars, outboxVars, verified, changes, wanted>>

ListNotificationSubscriptions(a) ==
    /\ At(a, "asked", {"snapshot"})
    /\ LET rows == {w \in WatchRow : attempt[a].target \in {Everybody, w[1]}}
       IN  /\ Becomes(a, [attempt[a] EXCEPT !.pc = "scan", !.todo = {w \in rows : Listed(w)}])
           /\ wanted' = [wanted EXCEPT ![a] = {w[1] : w \in {v \in rows : Wants(v)}}]
    /\ UNCHANGED <<assetVars, outboxVars, verified, changes, listed>>

\* The list cannot be read, here or in auth-service.
ListFails(a) ==
    /\ At(a, "asked", {"snapshot", "broadcast"})
    /\ Fails(a)
    /\ UNCHANGED <<assetVars, outboxVars, verified, changes, wanted, listed>>

(* The item of a row is active, and has a price or the marker that it has none:
   it goes to the mail of its user.  In any other case the row is left out. *)
CheckItem(a, w) ==
    /\ At(a, "scan", Kind) /\ w \in attempt[a].todo
    /\ \E found \in BOOLEAN :
          Becomes(a, [attempt[a] EXCEPT
              !.todo = @ \ {w},
              !.pending = IF found THEN @ \union {w[1]} ELSE @])
    /\ UNCHANGED <<assetVars, outboxVars, verified, changes, wanted, listed>>

Dispatch(a) ==
    /\ At(a, "scan", Kind) /\ attempt[a].todo = {}
    /\ Becomes(a, [attempt[a] EXCEPT !.pc = "mail"])
    /\ UNCHANGED <<assetVars, outboxVars, verified, changes, wanted, listed>>

-----------------------------------------------------------------------------
Turn(a, u) == At(a, "mail", Kind) /\ Free(a) /\ u \in attempt[a].pending

(* The mail to u goes out; except for a broadcast, GetUserContact has just
   named a verified address. *)
MailTo(a, u) ==
    /\ Turn(a, u)
    /\ At(a, "mail", {"snapshot", "single"}) => u \in verified
    /\ Becomes(a, [attempt[a] EXCEPT !.current = u])
    /\ Post(<<a, u>>)
    /\ UNCHANGED <<assetVars, verified, changes, wanted, listed>>

\* No verified address, or for a snapshot no answer: nobody is mailed, and that is no error.
NoContact(a, u) ==
    /\ Turn(a, u)
    /\ \/ At(a, "mail", {"single"}) /\ u \notin verified
       \/ At(a, "mail", {"snapshot"})
    /\ Becomes(a, [attempt[a] EXCEPT !.pending = @ \ {u}, !.skipped = @ + 1])
    /\ UNCHANGED <<assetVars, outboxVars, verified, changes, wanted, listed>>

ContactFails(a) ==
    /\ At(a, "mail", {"single"}) /\ Free(a) /\ attempt[a].pending # {}
    /\ Fails(a)
    /\ UNCHANGED <<assetVars, outboxVars, verified, changes, wanted, listed>>

Answered(a) == At(a, "mail", Kind) /\ ~Free(a) /\ told[<<a, attempt[a].current>>] # "no"

(* Slip: the mail counts as sent once it has been tried. *)
TriedIsSent(a) ==
    /\ Answered(a)
    /\ Becomes(a, [attempt[a] EXCEPT
           !.pending = @ \ {attempt[a].current}, !.current = Everybody, !.sent = @ + 1])
    /\ UNCHANGED <<assetVars, outboxVars, verified, changes, wanted, listed>>

MailSent(a) ==
    /\ Answered(a) /\ told[<<a, attempt[a].current>>] = "ok"
    /\ Becomes(a, [attempt[a] EXCEPT
           !.pending = @ \ {attempt[a].current}, !.current = Everybody, !.sent = @ + 1])
    /\ UNCHANGED <<assetVars, outboxVars, verified, changes, wanted, listed>>

(* Slip: a broadcast goes on after a mail that failed. *)
GoesOnAfterFailure(a) ==
    /\ Answered(a) /\ told[<<a, attempt[a].current>>] = "error"
    /\ Becomes(a, [attempt[a] EXCEPT
           !.pending = @ \ {attempt[a].current}, !.current = Everybody, !.skipped = @ + 1])
    /\ UNCHANGED <<assetVars, outboxVars, verified, changes, wanted, listed>>

(* An error ends a message, to one user or to everybody; a snapshot goes on
   with the remaining users. *)
MailFails(a) ==
    /\ Answered(a) /\ told[<<a, attempt[a].current>>] = "error"
    /\ IF attempt[a].kind = "snapshot"
       THEN Becomes(a, [attempt[a] EXCEPT
                !.pending = @ \ {attempt[a].current}, !.current = Everybody, !.skipped = @ + 1])
       ELSE Fails(a)
    /\ UNCHANGED <<assetVars, outboxVars, verified, changes, wanted, listed>>

(* Slip: the report does not wait for the last mail. *)
ReportEarly(a) ==
    /\ At(a, "mail", Kind) /\ Free(a)
    /\ Becomes(a, [attempt[a] EXCEPT !.pc = "reported"])
    /\ UNCHANGED <<assetVars, outboxVars, verified, changes, wanted, listed>>

Report(a) ==
    /\ At(a, "mail", Kind) /\ Free(a) /\ attempt[a].pending = {}
    /\ Becomes(a, [attempt[a] EXCEPT !.pc = "reported"])
    /\ UNCHANGED <<assetVars, outboxVars, verified, changes, wanted, listed>>

(* The admin goes away, or the service dies: the call under way is given up,
   and every later one fails at once. *)
AdminGone(a) ==
    /\ attempt[a].pc \in {"asked", "scan", "mail"}
    /\ Fails(a)
    /\ IF ~Free(a) /\ told[<<a, attempt[a].current>>] = "no"
       THEN GiveUp(<<a, attempt[a].current>>)
       ELSE UNCHANGED outboxVars
    /\ UNCHANGED <<assetVars, verified, changes, wanted, listed>>

-----------------------------------------------------------------------------
\* notification-service at work, and the client's own timeout.
Notify ==
    /\ \E m \in Mail : Serve(m) \/ GiveUp(m) \/ CutOff(m)
    /\ UNCHANGED <<assetVars, adminVars, verified, changes>>

Users ==
    /\ changes < MaxChanges /\ changes' = changes + 1
    /\ \/ Change /\ UNCHANGED verified
       \/ \E u \in User : verified' = verified \union {u} /\ UNCHANGED assetVars
    /\ UNCHANGED <<outboxVars, adminVars>>

Settings ==
    /\ Look
    /\ UNCHANGED <<outboxVars, adminVars, verified, changes>>

AttemptStep(a) ==
    \/ SendAdminMessage(a) \/ ListUserContacts(a) \/ ListNotificationSubscriptions(a)
    \/ ListFails(a) \/ \E w \in WatchRow : CheckItem(a, w)
    \/ Dispatch(a) \/ \E u \in User : MailTo(a, u) \/ NoContact(a, u)
    \/ ContactFails(a) \/ MailSent(a) \/ MailFails(a) \/ Report(a) \/ AdminGone(a)

Init ==
    /\ AssetsInit /\ OutboxInit
    /\ verified \in SUBSET User
    /\ attempt = [a \in Attempt |-> NoAttempt]
    /\ changes = 0
    /\ wanted = [a \in Attempt |-> {}]
    /\ listed = [a \in Attempt |-> {}]

Next ==
    \/ \E a \in Attempt, kind \in Kind, target \in User \union {Everybody} : Ask(a, kind, target)
    \/ \E a \in Attempt : AttemptStep(a)
    \/ Notify \/ Users \/ Settings

Spec == Init /\ [][Next]_vars

-----------------------------------------------------------------------------
(* Every variable has its type; the mail under way is one that was posted and
   is still pending, and nothing is pending once a report is out. *)
TypeOK ==
    /\ AssetsTypeOK /\ OutboxTypeOK
    /\ verified \subseteq User /\ changes \in Nat
    /\ attempt \in [Attempt -> AttemptState]
    /\ wanted \in [Attempt -> SUBSET User] /\ listed \in [Attempt -> SUBSET User]
    /\ \A a \in Attempt :
          /\ attempt[a].pc = "reported" => Free(a) /\ attempt[a].pending = {}
          /\ ~Free(a) => /\ attempt[a].current \in attempt[a].pending
                         /\ stage[<<a, attempt[a].current>>] # "none"

(* No snapshot goes to a user who, when the rows were listed, had none with
   notifications on or had last saved that no notifications are wanted: unless
   that save was lost to a GetPreferences of the same user. *)
SnapshotsAreWanted ==
    \A a \in Attempt, u \in User :
        attempt[a].kind = "snapshot" /\ stage[<<a, u>>] # "none" => u \in wanted[a]

\* The provider has been asked to deliver the mail, and user-asset-service was not told "ok".
Unknown(m) == provider[m] # "none" /\ told[m] # "ok"

(* Of the mails of a message to everybody that the provider was asked to deliver,
   user-asset-service has been told that they were taken, of all but one: the
   first error stops the rest, at whatever point the call was cut off.  This is
   what the service knows; an admin who gets the error gets no counts with it,
   knows of none of the mails, and mails them again by asking again. *)
OneUnknownMail ==
    \A a \in Attempt, u, v \in User :
        attempt[a].kind = "broadcast" /\ Unknown(<<a, u>>) /\ Unknown(<<a, v>>) => u = v

(* A report that reaches the admin is true: so many mails were handed over as
   it says were sent, and for a snapshot one more at most for every user it
   says was skipped; a message to everybody reached everybody listed. *)
HandedOf(a) == {u \in User : <<a, u>> \in Handed}

ReportsAreTrue ==
    \A a \in Attempt :
        attempt[a].pc = "reported" =>
            /\ attempt[a].sent <= Cardinality(HandedOf(a))
            /\ Cardinality(HandedOf(a)) <= attempt[a].sent + attempt[a].skipped
            /\ attempt[a].kind = "broadcast" => HandedOf(a) = listed[a]

=============================================================================
