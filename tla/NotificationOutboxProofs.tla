------------------------ MODULE NotificationOutboxProofs -----------------------
(***************************************************************************)
(* Theorems of NotificationOutbox for any set of mails: what the rows say  *)
(* is true, and a call keeps what MailCall promises.                       *)
(***************************************************************************)
EXTENDS NotificationOutbox, TLAPS

(* What is known of a mail at every stage of its call. *)
StageInv(m) ==
    /\ stage[m] \in {"none", "received"} => row[m] = "none" /\ provider[m] = "none"
    /\ stage[m] = "recorded" => row[m] = "queued" /\ provider[m] = "none"
    /\ stage[m] \in {"waiting", "rejected"} => row[m] = "queued"
    /\ stage[m] = "waiting" => provider[m] # "none"
    /\ stage[m] = "accepted" => row[m] = "queued" /\ provider[m] = "took"
    /\ stage[m] = "done" => row[m] = "sent"
    /\ stage[m] = "ended" /\ row[m] = "queued" => m \in cut

(* What the outbox, the provider and the caller know of each other. *)
KnownInv(m) ==
    /\ provider[m] # "none" => row[m] # "none"
    /\ row[m] = "sent" => provider[m] = "took"
    /\ told[m] = "ok" => row[m] = "sent" /\ stage[m] = "ended"

OutboxInv == OutboxTypeOK /\ \A m \in Mail : StageInv(m) /\ KnownInv(m)

LEMMA OutboxStart == OutboxInit => OutboxInv
  BY DEF OutboxInit, OutboxInv, OutboxTypeOK, StageInv, KnownInv, Stage, Row, Provider, Told

(* A step of one mail's call keeps the types and concerns no other mail. *)
LEMMA OneMail ==
  ASSUME OutboxTypeOK, NEW m \in Mail, Post(m) \/ Serve(m) \/ GiveUp(m) \/ CutOff(m)
  PROVE  /\ OutboxTypeOK'
         /\ \A n \in Mail \ {m} : /\ stage'[n] = stage[n] /\ row'[n] = row[n]
                                  /\ provider'[n] = provider[n] /\ told'[n] = told[n]
                                  /\ n \in cut => n \in cut'
  <1> USE DEF OutboxTypeOK, To, Ends, Verdict, Stage, Row, Provider, Told
  <1>1. CASE Post(m)
    BY <1>1 DEF Post
  <1>2. CASE CreateOutboxRecord(m) \/ RecordFails(m)
    BY <1>2 DEF CreateOutboxRecord, RecordFails
  <1>3. CASE SendEmail(m) \/ ProviderTakes(m) \/ ProviderAnswers(m) \/ ProviderErrors(m)
    BY <1>3 DEF SendEmail, ProviderTakes, ProviderAnswers, ProviderErrors
  <1>4. CASE MarkSent(m) \/ MarkFailed(m)
    BY <1>4 DEF MarkSent, MarkFailed
  <1>5. CASE MarkFails(m)
    BY <1>5 DEF MarkFails
  <1>6. CASE AnswerQueued(m) \/ GiveUp(m) \/ CutOff(m)
    BY <1>6 DEF AnswerQueued, GiveUp, CutOff
  <1> QED
    BY <1>1, <1>2, <1>3, <1>4, <1>5, <1>6 DEF Serve

(* The call itself keeps what is known of its mail. *)
LEMMA OwnMail ==
  ASSUME OutboxInv, NEW m \in Mail, Post(m) \/ Serve(m) \/ GiveUp(m) \/ CutOff(m)
  PROVE  StageInv(m)' /\ KnownInv(m)'
  <1> USE DEF OutboxInv, OutboxTypeOK, StageInv, KnownInv, To, Ends, Verdict
  <1>1. CASE Post(m)
    BY <1>1 DEF Post
  <1>2. CASE CreateOutboxRecord(m)
    BY <1>2 DEF CreateOutboxRecord
  <1>3. CASE RecordFails(m)
    BY <1>3 DEF RecordFails
  <1>4. CASE SendEmail(m)
    BY <1>4 DEF SendEmail
  <1>5. CASE ProviderTakes(m)
    BY <1>5 DEF ProviderTakes
  <1>6. CASE ProviderAnswers(m) \/ ProviderErrors(m)
    BY <1>6 DEF ProviderAnswers, ProviderErrors
  <1>7. CASE MarkSent(m)
    BY <1>7 DEF MarkSent
  <1>8. CASE MarkFailed(m)
    BY <1>8 DEF MarkFailed
  <1>9. CASE MarkFails(m)
    BY <1>9 DEF MarkFails
  <1>10. CASE AnswerQueued(m)
    BY <1>10 DEF AnswerQueued
  <1>11. CASE GiveUp(m)
    BY <1>11 DEF GiveUp, Serving
  <1>12. CASE CutOff(m)
    BY <1>12 DEF CutOff, Serving
  <1> QED
    BY <1>1, <1>2, <1>3, <1>4, <1>5, <1>6, <1>7, <1>8, <1>9, <1>10, <1>11, <1>12 DEF Serve

LEMMA OutboxStep == OutboxInv /\ [OutboxNext]_outboxVars => OutboxInv'
  <1> SUFFICES ASSUME OutboxInv, [OutboxNext]_outboxVars PROVE OutboxInv'
    OBVIOUS
  <1>1. ASSUME NEW m \in Mail, Post(m) \/ Serve(m) \/ GiveUp(m) \/ CutOff(m)
        PROVE  OutboxInv'
    <2>1. OutboxTypeOK'
      BY <1>1, OneMail DEF OutboxInv
    <2>2. StageInv(m)' /\ KnownInv(m)'
      BY <1>1, OwnMail
    <2>3. ASSUME NEW n \in Mail \ {m} PROVE StageInv(n)' /\ KnownInv(n)'
      BY <1>1, OneMail DEF OutboxInv, StageInv, KnownInv
    <2> QED
      BY <2>1, <2>2, <2>3 DEF OutboxInv
  <1>2. CASE UNCHANGED outboxVars
    BY <1>2 DEF outboxVars, OutboxInv, OutboxTypeOK, StageInv, KnownInv
  <1> QED
    BY <1>1, <1>2 DEF OutboxNext

LEMMA OutboxCorrect == OutboxSpec => []OutboxInv
  BY OutboxStart, OutboxStep, PTL DEF OutboxSpec

LEMMA KnownIsTrue == OutboxInv => RowsAreTrue /\ QueuedRowsWereCut
  BY DEF OutboxInv, StageInv, KnownInv, RowsAreTrue, QueuedRowsWereCut, Handed

-----------------------------------------------------------------------------
(* Every step of the call is a step of MailCall, or changes neither what the
   provider has nor what the caller knows. *)
LEMMA CallStep == OutboxInv /\ [OutboxNext]_outboxVars => [Call!Next]_(Call!vars)
  <1> SUFFICES ASSUME OutboxInv, [OutboxNext]_outboxVars
               PROVE  \/ \E m \in Mail : Call!HandOver(m) \/ Call!TellOk(m) \/ Call!TellError(m)
                      \/ Handed' = Handed /\ told' = told
    BY DEF Call!Next, Call!vars
  <1> USE DEF OutboxInv, OutboxTypeOK, Handed
  <1>1. ASSUME NEW m \in Mail, Post(m) PROVE Handed' = Handed /\ told' = told
    BY <1>1 DEF Post
  <1>2. ASSUME NEW m \in Mail, CreateOutboxRecord(m) \/ MarkSent(m)
        PROVE  Handed' = Handed /\ told' = told
    BY <1>2 DEF CreateOutboxRecord, MarkSent
  <1>3. ASSUME NEW m \in Mail, SendEmail(m) PROVE Handed' = Handed /\ told' = told
    BY <1>3 DEF SendEmail, StageInv
  <1>4. ASSUME NEW m \in Mail, ProviderTakes(m) PROVE Call!HandOver(m)
    BY <1>4 DEF ProviderTakes, Call!HandOver
  <1>5. ASSUME NEW m \in Mail, ProviderAnswers(m) \/ ProviderErrors(m)
        PROVE  Handed' = Handed /\ told' = told
    BY <1>5 DEF ProviderAnswers, ProviderErrors
  <1>6. ASSUME NEW m \in Mail, RecordFails(m) \/ MarkFailed(m) \/ MarkFails(m) \/ CutOff(m)
        PROVE  Call!TellError(m) \/ (Handed' = Handed /\ told' = told)
    BY <1>6 DEF RecordFails, MarkFailed, MarkFails, CutOff, Ends, Call!TellError
  <1>7. ASSUME NEW m \in Mail, AnswerQueued(m)
        PROVE  Call!TellOk(m) \/ (Handed' = Handed /\ told' = told)
    BY <1>7 DEF AnswerQueued, Ends, StageInv, KnownInv, Call!TellOk
  <1>8. ASSUME NEW m \in Mail, GiveUp(m) PROVE Call!TellError(m)
    BY <1>8 DEF GiveUp, Call!TellError
  <1>9. CASE UNCHANGED outboxVars
    BY <1>9 DEF outboxVars
  <1> QED
    BY <1>1, <1>2, <1>3, <1>4, <1>5, <1>6, <1>7, <1>8, <1>9 DEF OutboxNext, Serve

LEMMA CallStart == OutboxInit => Call!Init
  BY DEF OutboxInit, Call!Init, Handed

(* notification-service, whatever is lost or cut off, keeps its promise: a
   caller who hears of no error has handed the mail over. *)
THEOREM OutboxImplementsCall == OutboxSpec => ImplementsMailCall
  BY OutboxCorrect, CallStart, CallStep, PTL DEF OutboxSpec, ImplementsMailCall, Call!Spec

=============================================================================
