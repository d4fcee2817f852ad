-------------------------- MODULE NotificationsProofs --------------------------
(***************************************************************************)
(* What holds of the notifications for any number of events, workers, copies,   *)
(* attempts, failures and crashes.                                             *)
(***************************************************************************)
EXTENDS Notifications, TLAPS

At(w, place, e) == handling[w][1] = place /\ handling[w][2][1] = e

\* A publisher that goes on to mark its event has sent it.
AckedIsQueued == \A e \in OutboxEvent : publishing[e] = Acked => copies[e] > 0

\* A worker that goes on to mark its delivery sent has sent it.
MarkedIsSent == \A w \in Worker : \A e \in OutboxEvent : At(w, "sent", e) => emails[e] > 0

\* Until sending has raised, whoever inserted the delivery is the only one to send.
OneSender ==
    \A e \in OutboxEvent : e \notin raised =>
        /\ delivery[e] # "retrying"
        /\ emails[e] <= 1
        /\ delivery[e] = "none" => emails[e] = 0
        /\ \A w \in Worker :
              /\ ~At(w, "raised", e)
              /\ At(w, "send", e) => delivery[e] # "none" /\ emails[e] = 0
              /\ \A v \in Worker : At(v, "send", e) /\ At(w, "send", e) => v = w

\* The inductive invariant.
NInv == /\ NTypeOK /\ PublishedIsQueued /\ AckedIsQueued
        /\ SentIsTrue /\ MarkedIsSent /\ OneSender

----------------------------------------------------------------------------

\* Places and messages of a worker that is not idle.
LEMMA Holding ==
    ASSUME NTypeOK, NEW w \in Worker, handling[w] # Idle
    PROVE  /\ handling[w][2] \in Message
           /\ handling[w][2][1] \in OutboxEvent
           /\ handling[w][1] \in {"claim", "insert", "send", "sent", "raised", "delete"}
<1>1. handling[w] \in {"claim", "insert", "send", "sent", "raised", "delete"} \X Message
    BY DEF NTypeOK
<1>2. handling[w][2] \in Message
    BY <1>1
<1>3. handling[w][2][1] \in OutboxEvent
    BY <1>2 DEF Message
<1> QED BY <1>1, <1>2, <1>3

\* A worker at a place of handle is not idle.
LEMMA Busy ==
    ASSUME NEW w \in Worker,
           handling[w][1] \in {"claim", "insert", "send", "sent", "raised", "delete"}
    PROVE  handling[w] # Idle
BY DEF Idle

LEMMA NInitInv == NInit => NInv
<1> SUFFICES ASSUME NInit PROVE NInv
    OBVIOUS
<1>1. NTypeOK
    BY NotificationAssumption DEF NInit, NTypeOK, Off
<1>2. PublishedIsQueued /\ AckedIsQueued /\ SentIsTrue
    BY NotificationAssumption DEF NInit, PublishedIsQueued, AckedIsQueued, SentIsTrue, Off, Acked
<1>3. MarkedIsSent /\ OneSender
    BY DEF NInit, MarkedIsSent, OneSender, At, Idle
<1> QED BY <1>1, <1>2, <1>3 DEF NInv

----------------------------------------------------------------------------
(* The publisher's steps leave the deliveries alone.                         *)

LEMMA PublishPreserves ==
    ASSUME NInv, NEW e \in OutboxEvent, Publish(e) \/ PublisherDies(e)
    PROVE  NInv'
<1> USE NotificationAssumption DEF NInv
<1>1. UNCHANGED inbox
    BY DEF Publish, StartPublish, SendMessage, SendMessageRaises, MarkPublished, PublisherDies,
       inbox
<1>2. SentIsTrue' /\ MarkedIsSent' /\ OneSender'
    BY <1>1 DEF inbox, SentIsTrue, MarkedIsSent, OneSender, At
<1>3. /\ copies' \in [OutboxEvent -> 0..MaxCopies] /\ queue' \subseteq Message
      /\ \A d \in OutboxEvent : copies'[d] >= copies[d]
  <2>1. CASE Enqueue(e)
    <3>1. copies[e] + 1 \in 1..MaxCopies
        BY <2>1 DEF Enqueue, NTypeOK
    <3>2. copies' = [copies EXCEPT ![e] = copies[e] + 1]
        BY <2>1 DEF Enqueue
    <3>3. queue' = queue \cup {<<e, copies[e] + 1>>}
        BY <2>1, <3>2 DEF Enqueue, NTypeOK
    <3> QED BY <3>1, <3>2, <3>3 DEF NTypeOK, Message
  <2>2. CASE UNCHANGED <<copies, queue>>
      BY <2>2 DEF NTypeOK
  <2> QED BY <2>1, <2>2 DEF Publish, StartPublish, SendMessage, SendMessageRaises,
             MarkPublished, PublisherDies
<1>4. /\ publishing' \in [OutboxEvent -> 0..Off]
      /\ published' \subseteq OutboxEvent
      /\ crashes' \in 0..MaxCrashes
    BY DEF Publish, StartPublish, SendMessage, SendMessageRaises, MarkPublished, PublisherDies,
       NTypeOK, Off, Acked, NextTry
<1>5. NTypeOK'
    BY <1>1, <1>3, <1>4 DEF NTypeOK, inbox
<1>6. AckedIsQueued'
  <2>1. CASE SendMessage(e)
    <3>1. copies'[e] > 0
        BY <2>1 DEF SendMessage, Enqueue, NTypeOK
    <3>2. \A d \in OutboxEvent : d # e => publishing'[d] = publishing[d]
        BY <2>1 DEF SendMessage, NTypeOK
    <3> QED BY <3>1, <3>2, <1>3 DEF AckedIsQueued, NTypeOK
  <2>2. CASE ~SendMessage(e)
    <3>1. \A d \in OutboxEvent : publishing'[d] = Acked => publishing[d] = Acked
        BY <2>2 DEF Publish, StartPublish, SendMessageRaises, MarkPublished, PublisherDies,
           NTypeOK, Off, Acked, NextTry
    <3> QED BY <3>1, <1>3 DEF AckedIsQueued, NTypeOK
  <2> QED BY <2>1, <2>2
<1>7. PublishedIsQueued'
  <2>1. \A d \in published' : d \in published \/ publishing[d] = Acked
      BY DEF Publish, StartPublish, SendMessage, SendMessageRaises, MarkPublished, PublisherDies
  <2>2. \A d \in published' : d \in OutboxEvent /\ copies[d] > 0
      BY <2>1, <1>4 DEF PublishedIsQueued, AckedIsQueued
  <2> QED BY <2>2, <1>3 DEF PublishedIsQueued, NTypeOK
<1> QED BY <1>2, <1>5, <1>6, <1>7

----------------------------------------------------------------------------
(* The queue's steps leave deliveries and emails alone.                      *)

\* What a step that changes no delivery and no email, and takes no worker to a place
\* from which it sends or has sent, preserves.
LEMMA QuietStep ==
    ASSUME NInv, NTypeOK', UNCHANGED <<outgoing, delivery, emails, raised>>,
           \A w \in Worker : \/ handling'[w] = handling[w]
                             \/ handling'[w][1] \notin {"send", "sent", "raised"}
    PROVE  NInv'
<1> USE DEF NInv
<1>1. \A w \in Worker, e \in OutboxEvent, place \in {"send", "sent", "raised"} :
         At(w, place, e)' => At(w, place, e)
    BY DEF At
<1>2. PublishedIsQueued' /\ AckedIsQueued' /\ SentIsTrue'
    BY DEF outgoing, PublishedIsQueued, AckedIsQueued, SentIsTrue
<1>3. MarkedIsSent'
    BY <1>1 DEF MarkedIsSent
<1>4. OneSender'
    BY <1>1 DEF OneSender
<1> QED BY <1>2, <1>3, <1>4

LEMMA QueuePreserves ==
    ASSUME NInv, NEW m \in queue,
           Redrive(m) \/ \E w \in Worker : Receive(w, m)
    PROVE  NInv'
<1> USE NotificationAssumption DEF NInv
<1>1. m \in Message
    BY DEF NTypeOK
<1>2. CASE Redrive(m)
  <2>1. NTypeOK'
      BY <1>1, <1>2 DEF Redrive, NTypeOK, outgoing
  <2> QED BY <1>2, <2>1, QuietStep DEF Redrive
<1>3. ASSUME NEW w \in Worker, Receive(w, m) PROVE NInv'
  <2>1. NTypeOK'
    <3>1. handling' \in [Worker -> ({"claim", "insert", "send", "sent", "raised", "delete"}
                                       \X Message) \cup {Idle}]
        BY <1>1, <1>3 DEF Receive, NTypeOK
    <3>2. receives' \in [Message -> 0..MaxReceives]
        BY <1>1, <1>3 DEF Receive, NTypeOK
    <3> QED BY <1>3, <3>1, <3>2 DEF Receive, NTypeOK, outgoing
  <2>2. \A v \in Worker : \/ handling'[v] = handling[v]
                          \/ handling'[v][1] \notin {"send", "sent", "raised"}
      BY <1>3 DEF Receive, NTypeOK
  <2> QED BY <1>3, <2>1, <2>2, QuietStep DEF Receive
<1> QED BY <1>2, <1>3

----------------------------------------------------------------------------
(* The worker's steps.                                                       *)

LEMMA WorkerTypes ==
    ASSUME NInv, NEW w \in Worker, Handle(w) \/ WorkerDies(w)
    PROVE  NTypeOK'
<1> USE NotificationAssumption DEF NInv
<1>1. handling[w] # Idle
    BY Busy DEF Handle, WorkerDies, Claim, InsertDelivery, Send, SendRaises, MarkSent,
       MarkRetrying, DeleteMessage
<1>2. handling[w][2] \in Message /\ handling[w][2][1] \in OutboxEvent
    BY <1>1, Holding
<1>3. handling' \in [Worker -> ({"claim", "insert", "send", "sent", "raised", "delete"}
                                   \X Message) \cup {Idle}]
    BY <1>2 DEF Handle, WorkerDies, Claim, InsertDelivery, Send, SendRaises, MarkSent,
       MarkRetrying, DeleteMessage, NTypeOK
<1>4. delivery' \in [OutboxEvent -> {"none", "sending", "sent", "retrying"}]
    BY <1>2 DEF Handle, WorkerDies, Claim, InsertDelivery, Send, SendRaises, MarkSent,
       MarkRetrying, DeleteMessage, NTypeOK
<1>5. emails' \in [OutboxEvent -> Nat] /\ raised' \subseteq OutboxEvent
    BY <1>2 DEF Handle, WorkerDies, Claim, InsertDelivery, Send, SendRaises, MarkSent,
       MarkRetrying, DeleteMessage, NTypeOK
<1>6. failures' \in 0..MaxFailures /\ crashes' \in 0..MaxCrashes
    BY DEF Handle, WorkerDies, Claim, InsertDelivery, Send, SendRaises, MarkSent,
       MarkRetrying, DeleteMessage, NTypeOK
<1>7. UNCHANGED <<outgoing, receives, dlq>> /\ queue' \subseteq queue
    BY DEF Handle, WorkerDies, Claim, InsertDelivery, Send, SendRaises, MarkSent,
       MarkRetrying, DeleteMessage
<1> QED BY <1>3, <1>4, <1>5, <1>6, <1>7 DEF NTypeOK, outgoing

\* An email sent stays sent, and an attempt that raised stays on record.
LEMMA WorkerKeeps ==
    ASSUME NInv, NEW w \in Worker, Handle(w) \/ WorkerDies(w)
    PROVE  /\ \A e \in OutboxEvent : emails'[e] >= emails[e]
           /\ raised \subseteq raised'
           /\ UNCHANGED outgoing
           /\ \A v \in Worker : v # w => handling'[v] = handling[v]
<1>1. \A e \in OutboxEvent : emails'[e] >= emails[e]
    BY DEF Handle, WorkerDies, Claim, InsertDelivery, Send, SendRaises, MarkSent,
       MarkRetrying, DeleteMessage, NInv, NTypeOK
<1> QED BY <1>1 DEF Handle, WorkerDies, Claim, InsertDelivery, Send, SendRaises, MarkSent,
       MarkRetrying, DeleteMessage, NInv, NTypeOK

LEMMA WorkerSendsTruly ==
    ASSUME NInv, NEW w \in Worker, Handle(w) \/ WorkerDies(w)
    PROVE  SentIsTrue' /\ MarkedIsSent'
<1> USE DEF NInv
<1>1. /\ \A e \in OutboxEvent : emails'[e] >= emails[e]
      /\ \A v \in Worker : v # w => handling'[v] = handling[v]
    BY WorkerKeeps
<1>2. emails \in [OutboxEvent -> Nat] /\ emails' \in [OutboxEvent -> Nat]
    BY WorkerTypes DEF NTypeOK
<1>3. handling[w] # Idle
    BY Busy DEF Handle, WorkerDies, Claim, InsertDelivery, Send, SendRaises, MarkSent,
       MarkRetrying, DeleteMessage
<1>4. handling[w][2][1] \in OutboxEvent
    BY <1>3, Holding
<1>5. SentIsTrue'
  <2> SUFFICES ASSUME NEW e \in OutboxEvent, delivery'[e] = "sent"
               PROVE  delivery[e] = "sent" \/ At(w, "sent", e)
      BY <1>1, <1>2 DEF SentIsTrue, MarkedIsSent
  <2> QED BY <1>4 DEF Handle, WorkerDies, Claim, InsertDelivery, Send, SendRaises, MarkSent,
             MarkRetrying, DeleteMessage, NTypeOK, At
<1>6. MarkedIsSent'
  <2> SUFFICES ASSUME NEW e \in OutboxEvent, At(w, "sent", e)'
               PROVE  emails'[e] > 0
      BY <1>1, <1>2 DEF MarkedIsSent, At
  <2>1. Send(w) /\ e = handling[w][2][1]
      BY DEF Handle, WorkerDies, Claim, InsertDelivery, Send, SendRaises, MarkSent,
         MarkRetrying, DeleteMessage, NTypeOK, At, Idle
  <2> QED BY <2>1, <1>2 DEF Send
<1> QED BY <1>5, <1>6

\* One conjunct of OneSender for the worker that steps; the others stand still.
LEMMA WorkerSendsOnce ==
    ASSUME NInv, NEW w \in Worker, Handle(w) \/ WorkerDies(w)
    PROVE  OneSender'
<1> USE DEF NInv
<1>1. /\ raised \subseteq raised'
      /\ \A v \in Worker : v # w => handling'[v] = handling[v]
    BY WorkerKeeps
<1>2. handling[w] # Idle
    BY Busy DEF Handle, WorkerDies, Claim, InsertDelivery, Send, SendRaises, MarkSent,
       MarkRetrying, DeleteMessage
<1>3. handling[w][2][1] \in OutboxEvent
    BY <1>2, Holding
<1> SUFFICES ASSUME NEW e \in OutboxEvent, e \notin raised'
             PROVE  /\ delivery'[e] # "retrying"
                    /\ emails'[e] <= 1
                    /\ delivery'[e] = "none" => emails'[e] = 0
                    /\ \A v \in Worker :
                          /\ ~At(v, "raised", e)'
                          /\ At(v, "send", e)' => delivery'[e] # "none" /\ emails'[e] = 0
                          /\ \A u \in Worker : At(u, "send", e)' /\ At(v, "send", e)' => u = v
    BY DEF OneSender
<1> DEFINE Before == /\ delivery[e] # "retrying"
                     /\ emails[e] <= 1
                     /\ delivery[e] = "none" => emails[e] = 0
                     /\ \A v \in Worker :
                           /\ ~At(v, "raised", e)
                           /\ At(v, "send", e) => delivery[e] # "none" /\ emails[e] = 0
                           /\ \A u \in Worker : At(u, "send", e) /\ At(v, "send", e) => u = v
<1>4. Before
    BY <1>1 DEF OneSender
<1>5. CASE handling[w][2][1] # e
  <2>1. delivery'[e] = delivery[e] /\ emails'[e] = emails[e]
      BY <1>3, <1>5 DEF Handle, WorkerDies, Claim, InsertDelivery, Send, SendRaises, MarkSent,
         MarkRetrying, DeleteMessage, NTypeOK
  <2>2. \A v \in Worker, place \in {"send", "raised"} : At(v, place, e)' => At(v, place, e)
    <3>1. \A place \in {"send", "raised"} : ~At(w, place, e)'
        BY <1>5 DEF Handle, WorkerDies, Claim, InsertDelivery, Send, SendRaises, MarkSent,
           MarkRetrying, DeleteMessage, NTypeOK, At, Idle
    <3> QED BY <3>1, <1>1 DEF At
  <2> QED BY <1>4, <2>1, <2>2
<1>6. CASE handling[w][2][1] = e
  <2>1. CASE Claim(w)
    <3>1. UNCHANGED <<delivery, emails>> /\ delivery[e] # "retrying"
        BY <1>4, <2>1 DEF Claim
    <3>2. handling'[w][1] \in {"insert", "delete"}
        BY <1>4, <1>6, <2>1 DEF Claim, Claimable, NTypeOK
    <3>3. \A v \in Worker, place \in {"send", "raised"} : At(v, place, e)' => At(v, place, e)
        BY <3>2, <1>1 DEF At
    <3> QED BY <1>4, <3>1, <3>3
  <2>2. CASE InsertDelivery(w)
    <3>1. CASE delivery[e] = "none"
      <4>1. delivery'[e] = "sending" /\ UNCHANGED emails /\ emails[e] = 0
          BY <1>4, <1>6, <2>2, <3>1 DEF InsertDelivery, NTypeOK
      <4>2. \A v \in Worker : v # w => ~At(v, "send", e)' /\ ~At(v, "raised", e)'
          BY <1>1, <1>4, <3>1 DEF At
      <4>3. ~At(w, "raised", e)'
          BY <1>6, <2>2, <3>1 DEF InsertDelivery, NTypeOK, At
      <4> QED BY <1>4, <4>1, <4>2, <4>3
    <3>2. CASE delivery[e] # "none"
      <4>1. UNCHANGED <<delivery, emails>> /\ handling'[w] = Idle
          BY <1>6, <2>2, <3>2 DEF InsertDelivery, NTypeOK
      <4>2. \A v \in Worker, place \in {"send", "raised"} : At(v, place, e)' => At(v, place, e)
          BY <4>1, <1>1 DEF At, Idle
      <4> QED BY <1>4, <4>1, <4>2
    <3> QED BY <3>1, <3>2
  <2>3. CASE Send(w)
    <3>1. emails'[e] = 1 /\ UNCHANGED delivery /\ delivery[e] # "none"
        BY <1>3, <1>4, <1>6, <2>3 DEF Send, NTypeOK, At
    <3>2. \A v \in Worker : ~At(v, "send", e)' /\ ~At(v, "raised", e)'
      <4>1. handling'[w][1] = "sent"
          BY <2>3 DEF Send, NTypeOK
      <4> QED BY <4>1, <1>1, <1>4, <1>6, <2>3 DEF Send, At
    <3> QED BY <1>4, <3>1, <3>2
  <2>4. CASE SendRaises(w) \/ MarkRetrying(w)
      BY <1>4, <1>6, <2>4 DEF SendRaises, MarkRetrying, At
  <2>5. CASE MarkSent(w)
    <3>1. delivery'[e] = "sent" /\ UNCHANGED emails
        BY <1>3, <1>6, <2>5 DEF MarkSent, NTypeOK
    <3>2. \A v \in Worker, place \in {"send", "raised"} : At(v, place, e)' => At(v, place, e)
      <4>1. handling'[w][1] = "delete"
          BY <2>5 DEF MarkSent, NTypeOK
      <4> QED BY <4>1, <1>1 DEF At
    <3> QED BY <1>4, <3>1, <3>2
  <2>6. CASE DeleteMessage(w) \/ WorkerDies(w)
    <3>1. UNCHANGED <<delivery, emails>> /\ handling'[w] = Idle
        BY <2>6 DEF DeleteMessage, WorkerDies, NTypeOK
    <3>2. \A v \in Worker, place \in {"send", "raised"} : At(v, place, e)' => At(v, place, e)
        BY <3>1, <1>1 DEF At, Idle
    <3> QED BY <1>4, <3>1, <3>2
  <2> QED BY <2>1, <2>2, <2>3, <2>4, <2>5, <2>6 DEF Handle
<1> QED BY <1>5, <1>6

LEMMA WorkerPreserves ==
    ASSUME NInv, NEW w \in Worker, Handle(w) \/ WorkerDies(w)
    PROVE  NInv'
<1>1. PublishedIsQueued' /\ AckedIsQueued'
    BY WorkerKeeps DEF NInv, outgoing, PublishedIsQueued, AckedIsQueued
<1> QED BY <1>1, WorkerTypes, WorkerSendsTruly, WorkerSendsOnce DEF NInv

----------------------------------------------------------------------------

\* Publishers and workers that race, die and are retried keep the invariant.
THEOREM NotificationsInvariant == NSpec => []NInv
<1>1. NInv /\ [NNext]_nvars => NInv'
  <2> SUFFICES ASSUME NInv, [NNext]_nvars PROVE NInv'
      OBVIOUS
  <2>1. ASSUME NEW e \in OutboxEvent, Publish(e) \/ PublisherDies(e) PROVE NInv'
      BY <2>1, PublishPreserves
  <2>2. ASSUME NEW w \in Worker, Handle(w) \/ WorkerDies(w) PROVE NInv'
      BY <2>2, WorkerPreserves
  <2>3. ASSUME NEW m \in queue, Redrive(m) \/ \E w \in Worker : Receive(w, m) PROVE NInv'
      BY <2>3, QueuePreserves
  <2>4. CASE UNCHANGED nvars
      BY <2>4, QuietStep DEF nvars, outgoing, NInv, NTypeOK
  <2> QED BY <2>1, <2>2, <2>3, <2>4 DEF NNext, NStep
<1> QED BY <1>1, NInitInv, PTL DEF NSpec

\* Every variable keeps its type.
THEOREM NotificationsTypeCorrect == NSpec => []NTypeOK
<1>1. NInv => NTypeOK
    BY DEF NInv
<1> QED BY <1>1, NotificationsInvariant, PTL

\* What the outbox says is published was queued, and what the delivery record says
\* is sent was emailed.
THEOREM StatesAreAlwaysTrue == NSpec => []StatesAreTrue
<1>1. NInv => StatesAreTrue
    BY DEF NInv, StatesAreTrue
<1> QED BY <1>1, NotificationsInvariant, PTL

\* Until sending an event has raised, it is emailed at most once, however many workers
\* race for however many copies of its message.
THEOREM DuplicatesAlwaysSendOnce == NSpec => []DuplicatesSendOnce
<1>1. NInv => DuplicatesSendOnce
    BY DEF NInv, OneSender, DuplicatesSendOnce
<1> QED BY <1>1, NotificationsInvariant, PTL

=============================================================================
