--------------------------- MODULE Notifications ---------------------------
(***************************************************************************)
(* From the outbox to the manager's mailbox:                               *)
(*   services/notification-worker: outbox.py, sqs.py, delivery_store.py,    *)
(*   worker.py, email.py; packages/persistence/.../outbox_repository.py.    *)
(*                                                                         *)
(* The loops that take unpublished events to publish_event and queue        *)
(* messages to handle are not part of the repository (main.py only waits    *)
(* for a signal); they, SQS and SES are modelled from how the code uses     *)
(* them.  Message environments always match, so handle's check passes.      *)
(***************************************************************************)
EXTENDS Naturals, FiniteSets

CONSTANTS AlertEvent,      \* risk_alert.notification_requested events
          UncertainEvent,  \* manager.uncertain_reassignment events
          Worker,          \* consumers of the queue
          MaxAttempts,     \* SqsPublisher's max_attempts (3)
          MaxReceives,     \* the queue's maxReceiveCount (5)
          MaxCopies,       \* bound: messages ever queued for one event
          MaxFailures,     \* bound: SES calls that raise
          MaxCrashes,      \* bound: publishers and workers that die
          AmbiguousSend    \* whether a SES call that raises may have sent

ASSUME NotificationAssumption ==
    /\ AlertEvent \cap UncertainEvent = {}
    /\ {MaxAttempts, MaxReceives, MaxCopies} \subseteq Nat \ {0}
    /\ MaxFailures \in Nat /\ MaxCrashes \in Nat
    /\ AmbiguousSend \in BOOLEAN

\* An event is named by its consumer_key, unique in the outbox.
OutboxEvent == AlertEvent \cup UncertainEvent
Message == OutboxEvent \X (1..MaxCopies)

VARIABLES published,   \* events with published_at set
          publishing,  \* publishing[e]: tries of the running publish_event, or Off
          copies,      \* copies[e]: messages SQS ever accepted for e
          queue,       \* messages in the queue, being handled or not
          receives,    \* receives[m]: how often m has been received
          dlq,         \* messages moved to the dead-letter queue
          delivery,    \* delivery[e]: NotificationDelivery.state, or "none"
          handling,    \* handling[w]: where worker w is, and with which message
          emails,      \* emails[e]: emails SES sent for e
          raised,      \* history: events for which sending has raised
          skipped,     \* history: events of a message acknowledged while another was sent
          failures, crashes

nvars == <<published, publishing, copies, queue, receives, dlq, delivery, handling,
           emails, raised, skipped, failures, crashes>>

Off == MaxAttempts + 1   \* no publish_event is running
Acked == 0               \* send_message has returned, the transaction is open

Idle == <<"idle", <<>> >>

NInit ==
    /\ published = {}
    /\ publishing = [e \in OutboxEvent |-> Off]
    /\ copies = [e \in OutboxEvent |-> 0]
    /\ queue = {} /\ dlq = {}
    /\ receives = [m \in Message |-> 0]
    /\ delivery = [e \in OutboxEvent |-> "none"]
    /\ handling = [w \in Worker |-> Idle]
    /\ emails = [e \in OutboxEvent |-> 0]
    /\ raised = {} /\ skipped = {}
    /\ failures = 0 /\ crashes = 0

inbox == <<receives, dlq, delivery, handling, emails, raised, skipped, failures>>

----------------------------------------------------------------------------
(* OutboxPublisher.publish_event and SqsPublisher.publish                    *)

StartPublish(e) ==
    /\ e \notin published
    /\ publishing[e] = Off
    /\ publishing' = [publishing EXCEPT ![e] = 1]
    /\ UNCHANGED <<published, copies, queue, inbox, crashes>>

Enqueue(e) ==
    /\ copies[e] < MaxCopies
    /\ copies' = [copies EXCEPT ![e] = @ + 1]
    /\ queue' = queue \cup {<<e, copies'[e]>>}

\* send_message returns.
SendMessage(e) ==
    /\ publishing[e] \in 1..MaxAttempts
    /\ Enqueue(e)
    /\ publishing' = [publishing EXCEPT ![e] = Acked]
    /\ UNCHANGED <<published, inbox, crashes>>

NextTry_Swallowed(n) == Acked

\* send_message raises, the message accepted or not: try again, and after the
\* last try record the failed attempt and give up.
NextTry(n) == n + 1

SendMessageRaises(e) ==
    /\ publishing[e] \in 1..MaxAttempts
    /\ Enqueue(e) \/ UNCHANGED <<copies, queue>>
    /\ publishing' = [publishing EXCEPT ![e] = NextTry(@)]
    /\ UNCHANGED <<published, inbox, crashes>>

\* record_attempt and mark_published, one transaction.
MarkPublished(e) ==
    /\ publishing[e] = Acked
    /\ published' = published \cup {e}
    /\ publishing' = [publishing EXCEPT ![e] = Off]
    /\ UNCHANGED <<copies, queue, inbox, crashes>>

PublisherDies(e) ==
    /\ publishing[e] # Off
    /\ crashes < MaxCrashes
    /\ crashes' = crashes + 1
    /\ publishing' = [publishing EXCEPT ![e] = Off]
    /\ UNCHANGED <<published, copies, queue, inbox>>

----------------------------------------------------------------------------
(* SQS and NotificationWorker.handle                                         *)

outgoing == <<published, publishing, copies>>

\* A message is received while nobody holds it or once its visibility timeout
\* has passed, which nothing keeps from passing during handle.
Receive(w, m) ==
    /\ handling[w] = Idle
    /\ m \in queue
    /\ receives[m] < MaxReceives
    /\ receives' = [receives EXCEPT ![m] = @ + 1]
    /\ handling' = [handling EXCEPT ![w] = <<"claim", m>>]
    /\ UNCHANGED <<outgoing, queue, dlq, delivery, emails, raised, skipped, failures, crashes>>

\* The redrive policy.
Redrive(m) ==
    /\ m \in queue
    /\ receives[m] = MaxReceives
    /\ \A w \in Worker : handling[w][2] # m
    /\ queue' = queue \ {m}
    /\ dlq' = dlq \cup {m}
    /\ UNCHANGED <<outgoing, receives, delivery, handling, emails, raised, skipped, failures,
                   crashes>>

Claimable_Always(s) == TRUE

Claimable_OnlyNew(s) == s = "none"

\* DatabaseDeliveryStore.claim, the lookup: a row that is there is left as it
\* is, and is claimable unless it is sending, sent or failed.
Claimable(s) == s \notin {"sending", "sent", "failed"}

Claim(w) ==
    LET m == handling[w][2]
        s == delivery[m[1]]
    IN  /\ handling[w][1] = "claim"
        /\ handling' = [handling EXCEPT ![w] =
              <<IF s = "none" THEN "insert" ELSE IF Claimable(s) THEN "send" ELSE "delete", m>>]
        /\ skipped' = IF s = "sending" /\ ~Claimable(s) THEN skipped \cup {m[1]} ELSE skipped
        /\ UNCHANGED <<outgoing, queue, receives, dlq, delivery, emails, raised, failures,
                       crashes>>

\* claim, the insert.  uq_delivery_env_consumer refuses a row inserted since the
\* lookup: handle raises and the message stays.
InsertDelivery(w) ==
    LET m == handling[w][2]
        e == m[1]
    IN  /\ handling[w][1] = "insert"
        /\ \/ /\ delivery[e] = "none"
              /\ delivery' = [delivery EXCEPT ![e] = "sending"]
              /\ handling' = [handling EXCEPT ![w] = <<"send", m>>]
           \/ /\ delivery[e] # "none"
              /\ handling' = [handling EXCEPT ![w] = Idle]
              /\ UNCHANGED delivery
        /\ UNCHANGED <<outgoing, queue, receives, dlq, emails, raised, skipped, failures, crashes>>

\* for_alert reads payload["alert_id"]; send calls SES.
Send(w) ==
    LET m == handling[w][2]
        e == m[1]
    IN  /\ handling[w][1] = "send"
        /\ e \in AlertEvent
        /\ emails' = [emails EXCEPT ![e] = @ + 1]
        /\ handling' = [handling EXCEPT ![w] = <<"sent", m>>]
        /\ UNCHANGED <<outgoing, queue, receives, dlq, delivery, raised, skipped, failures,
                       crashes>>

SendRaises(w) ==
    LET m == handling[w][2]
        e == m[1]
    IN  /\ handling[w][1] = "send"
        /\ \/ /\ e \in UncertainEvent      \* the payload has no alert_id: KeyError
              /\ UNCHANGED <<emails, failures>>
           \/ /\ e \in AlertEvent
              /\ failures < MaxFailures
              /\ failures' = failures + 1
              /\ \/ UNCHANGED emails
                 \/ AmbiguousSend /\ emails' = [emails EXCEPT ![e] = @ + 1]
        /\ raised' = raised \cup {e}
        /\ handling' = [handling EXCEPT ![w] = <<"raised", m>>]
        /\ UNCHANGED <<outgoing, queue, receives, dlq, delivery, skipped, crashes>>

\* mark: by consumer_key alone, whatever the row says now.
MarkSent(w) ==
    LET m == handling[w][2]
    IN  /\ handling[w][1] = "sent"
        /\ delivery' = [delivery EXCEPT ![m[1]] = "sent"]
        /\ handling' = [handling EXCEPT ![w] = <<"delete", m>>]
        /\ UNCHANGED <<outgoing, queue, receives, dlq, emails, raised, skipped, failures, crashes>>

\* handle returns False: the message stays for another receive.
MarkRetrying(w) ==
    LET m == handling[w][2]
    IN  /\ handling[w][1] = "raised"
        /\ delivery' = [delivery EXCEPT ![m[1]] = "retrying"]
        /\ handling' = [handling EXCEPT ![w] = Idle]
        /\ UNCHANGED <<outgoing, queue, receives, dlq, emails, raised, skipped, failures, crashes>>

\* handle returned True: the consumer deletes the message.
DeleteMessage(w) ==
    /\ handling[w][1] = "delete"
    /\ queue' = queue \ {handling[w][2]}
    /\ handling' = [handling EXCEPT ![w] = Idle]
    /\ UNCHANGED <<outgoing, receives, dlq, delivery, emails, raised, skipped, failures, crashes>>

WorkerDies(w) ==
    /\ handling[w] # Idle
    /\ crashes < MaxCrashes
    /\ crashes' = crashes + 1
    /\ handling' = [handling EXCEPT ![w] = Idle]
    /\ UNCHANGED <<outgoing, queue, receives, dlq, delivery, emails, raised, skipped, failures>>

----------------------------------------------------------------------------

Publish(e) == StartPublish(e) \/ SendMessage(e) \/ SendMessageRaises(e)
                \/ MarkPublished(e)

Handle(w) == Claim(w) \/ InsertDelivery(w) \/ Send(w) \/ SendRaises(w) \/ MarkSent(w) \/ MarkRetrying(w)
                \/ DeleteMessage(w)

\* The steps for some of the events.
NStep(events) ==
    \/ \E e \in events : Publish(e) \/ PublisherDies(e)
    \/ \E w \in Worker : Handle(w) \/ WorkerDies(w) \/ \E m \in queue : Receive(w, m)
    \/ \E m \in queue : Redrive(m)

NNext == NStep(OutboxEvent)

NSpec == NInit /\ [][NNext]_nvars

\* What was begun goes on: the consumers' loops keep receiving, SQS does not refuse the
\* same event for ever, and its redrive policy is applied.
DeliveryFairness ==
    /\ \A e \in OutboxEvent :
          SF_nvars(SendMessage(e)) /\ WF_nvars(MarkPublished(e)) /\ WF_nvars(SendMessageRaises(e))
    /\ \A w \in Worker :
          WF_nvars(Handle(w)) /\ WF_nvars(\E m \in queue : Receive(w, m))
    /\ \A m \in Message : WF_nvars(Redrive(m))

\* And the publishers' loop keeps beginning.
NFairness == DeliveryFairness /\ \A e \in OutboxEvent : WF_nvars(StartPublish(e))

NFairSpec == NSpec /\ NFairness

----------------------------------------------------------------------------
(* Properties                                                               *)

\* Every variable has the type of its column, counter or process.
NTypeOK ==
    /\ published \subseteq OutboxEvent
    /\ publishing \in [OutboxEvent -> 0..Off]
    /\ copies \in [OutboxEvent -> 0..MaxCopies]
    /\ queue \subseteq Message /\ dlq \subseteq Message
    /\ receives \in [Message -> 0..MaxReceives]
    /\ delivery \in [OutboxEvent -> {"none", "sending", "sent", "retrying"}]
    /\ handling \in [Worker -> ({"claim", "insert", "send", "sent", "raised", "delete"} \X Message)
                                  \cup {Idle}]
    /\ emails \in [OutboxEvent -> Nat]
    /\ raised \subseteq OutboxEvent
    /\ failures \in 0..MaxFailures
    /\ crashes \in 0..MaxCrashes

\* No event is lost on the way to the queue: one marked published has been
\* accepted by SQS, whatever attempts failed and publishers died before.
PublishedIsQueued == \A e \in published : copies[e] > 0

\* Redelivered and duplicated messages cause no second email as long as no
\* attempt to send has raised, however many workers race for them.
DuplicatesSendOnce ==
    \A e \in OutboxEvent : e \notin raised => emails[e] <= 1

\* The delivery record does not claim an email that was never sent.
SentIsTrue == \A e \in OutboxEvent : delivery[e] = "sent" => emails[e] > 0

\* What the publisher (mark_published) and the worker (mark) record of an event has
\* happened: no published event was lost on its way to the queue and no sent delivery
\* is without its email, whatever raises, dies or is delivered twice in between.
StatesAreTrue == PublishedIsQueued /\ SentIsTrue

\* Every alert event that is published is emailed in the end or is in the dead-letter
\* queue, whatever publishers and workers die, whatever is sent twice and however often
\* SES raises, with one exception: a worker that receives a message while its delivery
\* is being sent, or was when another worker died, acknowledges it and sends nothing.
AlertIsEmailed ==
    \A e \in AlertEvent :
        (publishing[e] # Off) ~> \/ emails[e] > 0 \/ e \in skipped
                                 \/ \E m \in dlq : m[1] = e

----------------------------------------------------------------------------
(* Statements of the documentation that the code does not meet.              *)

\* docs/spec.md: the worker sends the email, and "a DLQ captures exhausted
\* deliveries".  A published event whose messages are gone from the queue was
\* emailed, is being worked on, or is in the dead-letter queue.
NothingVanishes ==
    \A e \in AlertEvent :
        (/\ e \in published
         /\ \A n \in 1..MaxCopies : <<e, n>> \notin queue \cup dlq
         /\ \A w \in Worker : handling[w] # Idle => handling[w][2][1] # e)
        => emails[e] > 0

\* docs/spec.md: "Mark uncertain, notify manager/operator, and reconcile".
UncertainIsEmailed == \A e \in UncertainEvent : <>(emails[e] > 0)

=============================================================================
