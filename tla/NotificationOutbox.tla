--------------------------- MODULE NotificationOutbox -------------------------
(***************************************************************************)
(* notification-service: a request to send a mail is recorded in           *)
(* notification_outbox, handed to the provider, and marked 'sent' or       *)
(* 'failed' (internal/service/email.go, internal/repository/postgres.go,   *)
(* internal/service/provider/resend.go).                                   *)
(*                                                                         *)
(* Nothing reads the outbox: a row tells an operator what became of a      *)
(* mail.  The request runs in the context of its caller, who gives up      *)
(* after 10 seconds where the provider may take 15: then, as after a       *)
(* crash, the mark may never be written, and the mail may go out all the   *)
(* same.                                                                   *)
(***************************************************************************)
CONSTANT Mail        \* requests to send a mail, each made once

VARIABLES
    stage,           \* how far SendEmail has come
    row,             \* status of the outbox row, or "none"
    provider,        \* what the provider knows of the mail
    told,            \* what the caller knows
    cut              \* history: cut off by the caller or a crash, or a write not confirmed

outboxVars == <<stage, row, provider, told, cut>>

Stage == {"none", "received", "recorded", "waiting", "accepted", "rejected", "done", "ended"}
Row == {"none", "queued", "sent", "failed"}
Provider == {"none", "asked", "took"}
Told == {"no", "ok", "error"}

Handed == {m \in Mail : provider[m] = "took"}

To(m, s) == stage' = [stage EXCEPT ![m] = s]

Serving(m) == stage[m] \notin {"none", "ended"}

\* SendEmail returns and the handler answers, whether the caller still waits or not.
Ends(m, answer) ==
    /\ To(m, "ended")
    /\ told' = [told EXCEPT ![m] = IF @ = "no" THEN answer ELSE @]

-----------------------------------------------------------------------------
\* The client posts to /send-email; a request without to, subject or body is not modelled.
Post(m) ==
    /\ stage[m] = "none"
    /\ To(m, "received")
    /\ UNCHANGED <<row, provider, told, cut>>

CreateOutboxRecord(m) ==
    /\ stage[m] = "received"
    /\ To(m, "recorded")
    /\ row' = [row EXCEPT ![m] = "queued"]
    /\ UNCHANGED <<provider, told, cut>>

\* The insert fails, or only its answer is lost.
RecordFails(m) ==
    /\ stage[m] = "received"
    /\ Ends(m, "error")
    /\ \/ UNCHANGED <<row, cut>>
       \/ row' = [row EXCEPT ![m] = "queued"] /\ cut' = cut \union {m}
    /\ UNCHANGED provider

(* Slip: the mail is handed over before it is recorded. *)
SendUnrecorded(m) ==
    /\ stage[m] \in {"received", "recorded"}
    /\ To(m, "waiting")
    /\ provider' = [provider EXCEPT ![m] = "asked"]
    /\ UNCHANGED <<row, told, cut>>

\* The request to the provider goes out, with a timeout of 15 seconds.
SendEmail(m) ==
    /\ stage[m] = "recorded"
    /\ To(m, "waiting")
    /\ provider' = [provider EXCEPT ![m] = "asked"]
    /\ UNCHANGED <<row, told, cut>>

\* The provider takes the mail, in its own time.
ProviderTakes(m) ==
    /\ provider[m] = "asked"
    /\ provider' = [provider EXCEPT ![m] = "took"]
    /\ UNCHANGED <<stage, row, told, cut>>

(* Slip: any answer of the provider counts as taken. *)
ProviderAnswersAnything(m) ==
    /\ stage[m] = "waiting"
    /\ To(m, "accepted")
    /\ UNCHANGED <<row, provider, told, cut>>

\* An answer with an id.
ProviderAnswers(m) ==
    /\ stage[m] = "waiting" /\ provider[m] = "took"
    /\ To(m, "accepted")
    /\ UNCHANGED <<row, provider, told, cut>>

\* Refused, timed out, or answered without an id: whatever the provider does with it.
ProviderErrors(m) ==
    /\ stage[m] = "waiting"
    /\ To(m, "rejected")
    /\ UNCHANGED <<row, provider, told, cut>>

Verdict(m) == IF stage[m] = "accepted" THEN "sent" ELSE "failed"

MarkSent(m) ==
    /\ stage[m] = "accepted"
    /\ To(m, "done")
    /\ row' = [row EXCEPT ![m] = Verdict(m)]
    /\ UNCHANGED <<provider, told, cut>>

(* Slip: the error of the provider is returned without a mark. *)
ErrorUnmarked(m) ==
    /\ stage[m] = "rejected"
    /\ Ends(m, "error")
    /\ UNCHANGED <<row, provider, cut>>

MarkFailed(m) ==
    /\ stage[m] = "rejected"
    /\ Ends(m, "error")
    /\ row' = [row EXCEPT ![m] = Verdict(m)]
    /\ UNCHANGED <<provider, cut>>

\* The mark is not written, or only its answer is lost: an error is answered either way.
MarkFails(m) ==
    /\ stage[m] \in {"accepted", "rejected"}
    /\ Ends(m, "error")
    /\ row' = row \/ row' = [row EXCEPT ![m] = Verdict(m)]
    /\ cut' = cut \union {m}
    /\ UNCHANGED provider

\* 202 with status "queued".
AnswerQueued(m) ==
    /\ stage[m] = "done"
    /\ Ends(m, "ok")
    /\ UNCHANGED <<row, provider, cut>>

\* The client gives up after 10 seconds, or with its own caller; the service notices later.
GiveUp(m) ==
    /\ Serving(m) /\ told[m] = "no"
    /\ told' = [told EXCEPT ![m] = "error"]
    /\ UNCHANGED <<stage, row, provider, cut>>

(* The service notices, or dies: the context ends, and with it every statement
   that is still to come. *)
CutOff(m) ==
    /\ Serving(m)
    /\ Ends(m, "error")
    /\ cut' = cut \union {m}
    /\ UNCHANGED <<row, provider>>

Serve(m) ==
    \/ CreateOutboxRecord(m) \/ RecordFails(m) \/ SendEmail(m) \/ ProviderTakes(m)
    \/ ProviderAnswers(m) \/ ProviderErrors(m) \/ MarkSent(m) \/ MarkFailed(m)
    \/ MarkFails(m) \/ AnswerQueued(m)

OutboxInit ==
    /\ stage = [m \in Mail |-> "none"]
    /\ row = [m \in Mail |-> "none"]
    /\ provider = [m \in Mail |-> "none"]
    /\ told = [m \in Mail |-> "no"]
    /\ cut = {}

OutboxNext == \E m \in Mail : Post(m) \/ Serve(m) \/ GiveUp(m) \/ CutOff(m)

OutboxSpec == OutboxInit /\ [][OutboxNext]_outboxVars

-----------------------------------------------------------------------------
(* Every variable has its type. *)
OutboxTypeOK ==
    /\ stage \in [Mail -> Stage] /\ row \in [Mail -> Row]
    /\ provider \in [Mail -> Provider] /\ told \in [Mail -> Told]
    /\ cut \subseteq Mail

(* Whatever is cut off: no mail leaves without a row; a row that says 'sent' is
   of a mail the provider has taken; and a caller that hears of no error has
   such a row. *)
RowsAreTrue ==
    \A m \in Mail :
        /\ provider[m] # "none" => row[m] # "none"
        /\ row[m] = "sent" => m \in Handed
        /\ told[m] = "ok" => row[m] = "sent"

(* A row stays 'queued' after the call only when somebody cut the call off or
   a write was not confirmed. *)
QueuedRowsWereCut ==
    \A m \in Mail : stage[m] = "ended" /\ row[m] = "queued" => m \in cut

Call == INSTANCE MailCall WITH handed <- Handed

(* The call keeps what MailCall promises its callers. *)
ImplementsMailCall == Call!Spec

=============================================================================
