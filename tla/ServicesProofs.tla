---------------------------- MODULE ServicesProofs ----------------------------
(***************************************************************************)
(* What holds of the web client, of access to the API and its rate limiter, of   *)
(* a conversation with the assistant, of the model adapter and of the reads of   *)
(* Jira, for any number of projects, clients, requests, questions, replies,       *)
(* issues and timeouts.  No two of these parts share a variable.                 *)
(***************************************************************************)
EXTENDS ChatClient, AccessControl, RateLimiter, ChatWorkflow, Explanation, JiraReads,
        FiniteSetTheorems, FunctionTheorems, SequenceTheorems, TLAPS

----------------------------------------------------------------------------
(* The chat of the web client.                                               *)

Phases == {"asking", "reading", "waiting", "aborted", "cut off", "done"}

ChatRecord == [project : ChatProjects, took : Nat, phase : Phases, retries : Nat]

\* How many chats there are; they are numbered in the order they were sent.
Sent == Cardinality(DOMAIN chats)

\* The page's variables have their types: the controller and the stored contexts are of
\* chats that were sent.
ClientTypeOK ==
    /\ Sent \in Nat /\ chats \in [1 .. Sent -> ChatRecord]
    /\ selected \in ChatProjects
    /\ controller \in 0 .. Sent
    /\ contexts \in [ChatProjects -> 0 .. Sent]

\* Only the last chat sent runs, and it is about the selected project.
LastChatRuns ==
    \A c \in DOMAIN chats :
        Running(c) => c = controller /\ c = Sent /\ chats[c].project = selected

\* A chat took along the context of an earlier one.
ContextsAreEarlier == \A c \in DOMAIN chats : chats[c].took < c

\* The inductive invariant.
ClientInv == ClientTypeOK /\ LastChatRuns /\ ContextsAreEarlier /\ ContextsKeepProjectsApart

----------------------------------------------------------------------------

\* The chats that are left when n were sent.
LEMMA SentChats ==
    ASSUME NEW n \in Nat, NEW f, DOMAIN f = 1 .. n
    PROVE  Cardinality(DOMAIN f) = n
<1>1. Cardinality(1 .. n) = n
    BY FS_Interval
<1> QED BY <1>1

\* The context a chat took along is of a chat that was sent.
LEMMA SomeSent ==
    ASSUME ClientInv, NEW c \in 1 .. Sent, chats[c].took # None
    PROVE  chats[c].took \in 1 .. Sent
<1>1. chats[c] \in ChatRecord /\ c \in DOMAIN chats /\ Sent \in Nat
    BY DEF ClientInv, ClientTypeOK
<1>2. chats[c].took \in Nat /\ chats[c].took < c
    BY <1>1 DEF ChatRecord, ClientInv, ContextsAreEarlier
<1> QED BY <1>1, <1>2 DEF None

\* A fresh page satisfies the invariant.
LEMMA ClientInitInv == ClientInit => ClientInv
<1> SUFFICES ASSUME ClientInit PROVE ClientInv
    OBVIOUS
<1>1. chats = <<>> /\ DOMAIN chats = 1 .. 0
    BY DEF ClientInit
<1>2. Sent = 0
    BY <1>1, SentChats DEF Sent
<1>3. ClientTypeOK
    BY <1>1, <1>2 DEF ClientInit, ClientTypeOK, None
<1> QED BY <1>1, <1>3 DEF ClientInit, ClientInv, LastChatRuns, ContextsAreEarlier,
                          ContextsKeepProjectsApart

\* The signal ends the chat in progress, and changes nothing else of any chat.
LEMMA AbortStops ==
    ASSUME ClientInv
    PROVE  /\ Abort \in [1 .. Sent -> ChatRecord]
           /\ \A c \in 1 .. Sent :
                 /\ Abort[c].phase \notin {"asking", "reading", "waiting"}
                 /\ Abort[c].project = chats[c].project /\ Abort[c].took = chats[c].took
<1> SUFFICES ASSUME NEW c \in 1 .. Sent
             PROVE  /\ Abort[c] \in ChatRecord
                    /\ Abort[c].phase \notin {"asking", "reading", "waiting"}
                    /\ Abort[c].project = chats[c].project /\ Abort[c].took = chats[c].took
    BY DEF ClientInv, ClientTypeOK, Abort
<1>1. chats[c] \in ChatRecord /\ c \in DOMAIN chats
    BY DEF ClientInv, ClientTypeOK
<1>2. CASE Running(c)
  <2> DEFINE p == IF chats[c].phase = "reading" THEN "cut off" ELSE "aborted"
  <2>1. Abort[c] = [chats[c] EXCEPT !.phase = p]
      BY <1>1, <1>2 DEF Abort, ClientInv, LastChatRuns
  <2>2. p \in Phases /\ p \notin {"asking", "reading", "waiting"}
      BY DEF Phases
  <2> HIDE DEF p
  <2> QED BY <1>1, <2>1, <2>2 DEF ChatRecord
<1>3. CASE ~Running(c)
    BY <1>1, <1>3 DEF Abort, Running
<1> QED BY <1>2, <1>3

----------------------------------------------------------------------------
(* Steps after which no chat runs, and steps of one chat.                     *)

\* Cancel, SwitchProject and ClearChat: the chats are aborted, and at most a context is
\* removed.
LEMMA AbortPreserves ==
    ASSUME ClientInv, chats' = Abort, controller' = None, selected' \in ChatProjects,
           contexts' \in [ChatProjects -> 0 .. Sent],
           \A p \in ChatProjects : contexts'[p] \in {contexts[p], None}
    PROVE  ClientInv'
<1>1. DOMAIN chats' = 1 .. Sent /\ Sent \in Nat /\ DOMAIN chats = 1 .. Sent
    BY AbortStops DEF ClientInv, ClientTypeOK
<1>2. Sent' = Sent
    BY <1>1 DEF Sent
<1>3. ClientTypeOK'
    BY <1>1, <1>2, AbortStops DEF ClientTypeOK, None
<1>4. LastChatRuns'
    BY <1>1, AbortStops DEF LastChatRuns, Running
<1>5. ContextsAreEarlier'
    BY <1>1, AbortStops DEF ClientInv, ContextsAreEarlier
<1>6. ContextsKeepProjectsApart'
  <2>1. \A c \in 1 .. Sent : chats[c].took # None => chats[c].took \in 1 .. Sent
      BY <1>1, SomeSent
  <2>2. \A p \in ChatProjects : contexts[p] # None => contexts[p] \in 1 .. Sent
      BY DEF ClientInv, ClientTypeOK, None
  <2> QED BY <1>1, <2>1, <2>2, AbortStops DEF ClientInv, ContextsKeepProjectsApart
<1> QED BY <1>3, <1>4, <1>5, <1>6 DEF ClientInv

\* One chat moves on, without a change of its project: only one that runs goes on to run,
\* and only one that runs becomes a context, that of the selected project.
LEMMA ChatPreserves ==
    ASSUME ClientInv, NEW c \in DOMAIN chats, NEW chat \in ChatRecord,
           chats' = [chats EXCEPT ![c] = chat],
           chat.project = chats[c].project, chat.took = chats[c].took,
           chat.phase \in {"asking", "reading", "waiting"} => Running(c) /\ UNCHANGED controller,
           controller' \in {controller, None}, controller = c \/ UNCHANGED controller,
           UNCHANGED selected,
           \/ UNCHANGED contexts
           \/ Running(c) /\ contexts' = [contexts EXCEPT ![selected] = c]
    PROVE  ClientInv'
<1>1. /\ DOMAIN chats' = 1 .. Sent /\ Sent \in Nat /\ DOMAIN chats = 1 .. Sent
      /\ chats' \in [1 .. Sent -> ChatRecord] /\ chats \in [1 .. Sent -> ChatRecord]
      /\ chats'[c] = chat /\ \A d \in 1 .. Sent : d # c => chats'[d] = chats[d]
    BY DEF ClientInv, ClientTypeOK
<1>2. Sent' = Sent
    BY <1>1 DEF Sent
<1>3. ClientTypeOK'
    BY <1>1, <1>2 DEF ClientInv, ClientTypeOK, None
<1>4. LastChatRuns'
    BY <1>1, <1>2 DEF ClientInv, LastChatRuns, Running
<1>5. ContextsAreEarlier'
    BY <1>1 DEF ClientInv, ContextsAreEarlier
<1>6. \A d \in 1 .. Sent :
         chats'[d].project = chats[d].project /\ chats'[d].took = chats[d].took
    BY <1>1
<1>7. ContextsKeepProjectsApart'
  <2>1. \A d \in 1 .. Sent :
           chats[d].took # None => chats[d].took \in 1 .. Sent
      BY <1>1 DEF ClientInv, ContextsAreEarlier, ChatRecord, None
  <2>2. \A p \in ChatProjects :
           contexts'[p] # None => contexts'[p] \in 1 .. Sent
                                  /\ chats[contexts'[p]].project = p
      BY <1>1 DEF ClientInv, ClientTypeOK, LastChatRuns, ContextsKeepProjectsApart, None
  <2> QED BY <1>1, <1>6, <2>1, <2>2 DEF ClientInv, ContextsKeepProjectsApart
<1> QED BY <1>3, <1>4, <1>5, <1>7 DEF ClientInv

----------------------------------------------------------------------------
(* The steps.                                                                *)

\* The new chat runs, and no other.
LEMMA SendChatPreserves == ASSUME ClientInv, SendChat PROVE ClientInv'
<1> DEFINE c == Sent + 1
           chat == [project |-> selected, took |-> contexts[selected],
                    phase |-> "asking", retries |-> 0]
<1>1. Sent \in Nat /\ DOMAIN chats = 1 .. Sent /\ selected \in ChatProjects
    BY DEF ClientInv, ClientTypeOK
<1>2. chat \in ChatRecord /\ contexts[selected] \in 0 .. Sent
  <2>1. contexts[selected] \in 0 .. Sent
      BY <1>1 DEF ClientInv, ClientTypeOK
  <2>2. contexts[selected] \in Nat
      BY <1>1, <2>1
  <2> QED BY <1>1, <2>1, <2>2 DEF ChatRecord, Phases
<1>3. /\ chats' = [d \in 1 .. c |-> IF d < c THEN Abort[d] ELSE chat]
      /\ controller' = c /\ UNCHANGED <<selected, contexts>>
    BY DEF SendChat, Sent
<1>4. chat.project = selected /\ chat.took = contexts[selected]
    OBVIOUS
<1> HIDE DEF chat
<1>5. /\ DOMAIN chats' = 1 .. c /\ chats'[c] = chat
      /\ \A d \in 1 .. c : d # c => d \in 1 .. Sent /\ chats'[d] = Abort[d]
    BY <1>1, <1>3
<1>6. Sent' = c
    BY <1>1, <1>5, SentChats DEF Sent
<1>7. \A d \in 1 .. Sent :
         /\ chats'[d] \in ChatRecord
         /\ chats'[d].phase \notin {"asking", "reading", "waiting"}
         /\ chats'[d].project = chats[d].project /\ chats'[d].took = chats[d].took
    BY <1>1, <1>5, AbortStops
<1>8. ClientTypeOK'
  <2>1. chats' \in [1 .. c -> ChatRecord]
      BY <1>2, <1>3, <1>5, <1>7
  <2>2. controller' \in 0 .. c /\ contexts' \in [ChatProjects -> 0 .. c]
      BY <1>1, <1>3 DEF ClientInv, ClientTypeOK
  <2> QED BY <1>1, <1>3, <1>6, <2>1, <2>2 DEF ClientTypeOK
<1>9. LastChatRuns'
    BY <1>1, <1>3, <1>4, <1>5, <1>6, <1>7 DEF LastChatRuns, Running
<1>10. ContextsAreEarlier'
  <2>1. chat.took < c
      BY <1>1, <1>2, <1>4
  <2>2. \A d \in 1 .. Sent : chats[d].took < d
      BY <1>1 DEF ClientInv, ContextsAreEarlier
  <2> QED BY <1>1, <1>5, <1>7, <2>1, <2>2 DEF ContextsAreEarlier
<1>11. ContextsKeepProjectsApart'
  <2>1. \A p \in ChatProjects :
           contexts[p] # None => contexts[p] \in 1 .. Sent /\ chats[contexts[p]].project = p
      BY DEF ClientInv, ClientTypeOK, ContextsKeepProjectsApart, None
  <2>2. \A d \in 1 .. Sent :
           chats[d].took # None =>
               chats[d].took \in 1 .. Sent /\ chats[chats[d].took].project = chats[d].project
      BY <1>1 DEF ClientInv, ClientTypeOK, ChatRecord, ContextsAreEarlier,
                  ContextsKeepProjectsApart, None
  <2>3. \A p \in ChatProjects :
           contexts'[p] # None => chats'[contexts'[p]].project = p
      BY <1>3, <1>7, <2>1
  <2>4. \A d \in 1 .. Sent :
           chats'[d].took # None => chats'[chats'[d].took].project = chats'[d].project
      BY <1>7, <2>2
  <2>5. chat.took # None => chats'[chat.took].project = chat.project
      BY <1>1, <1>4, <1>7, <2>1
  <2> QED BY <1>1, <1>5, <2>3, <2>4, <2>5 DEF ContextsKeepProjectsApart
<1> QED BY <1>8, <1>9, <1>10, <1>11 DEF ClientInv

\* A chat that receives something, retries or unwinds.
LEMMA ReceivePreserves ==
    ASSUME ClientInv, NEW c \in DOMAIN chats, NEW hasContext \in BOOLEAN,
           \/ ReceiveAnswer(c, hasContext) \/ ReceiveHeaders(c) \/ ReceiveError(c)
           \/ ReceiveRetryable(c) \/ Retry(c) \/ Unwind(c)
    PROVE  ClientInv'
<1>1. chats[c] \in ChatRecord /\ chats \in [1 .. Sent -> ChatRecord]
    BY DEF ClientInv, ClientTypeOK
<1>2. \A p \in Phases : /\ [chats[c] EXCEPT !.phase = p] \in ChatRecord
                        /\ [chats[c] EXCEPT !.phase = p].phase = p
                        /\ [chats[c] EXCEPT !.phase = p].project = chats[c].project
                        /\ [chats[c] EXCEPT !.phase = p].took = chats[c].took
    BY <1>1 DEF ChatRecord
<1>3. CASE ReceiveAnswer(c, hasContext) \/ ReceiveError(c) \/ Unwind(c)
  <2> DEFINE chat == [chats[c] EXCEPT !.phase = "done"]
  <2>1. /\ chat \in ChatRecord /\ chat.phase = "done"
        /\ chat.project = chats[c].project /\ chat.took = chats[c].took
      BY <1>2 DEF Phases
  <2>2. chats' = [chats EXCEPT ![c] = chat] /\ UNCHANGED selected
      BY <1>3 DEF ReceiveAnswer, ReceiveError, Unwind
  <2>3. /\ controller' \in {controller, None}
        /\ controller = c \/ UNCHANGED controller
      BY <1>3 DEF ReceiveAnswer, ReceiveError, Unwind, Release
  <2>4. \/ UNCHANGED contexts
        \/ Running(c) /\ contexts' = [contexts EXCEPT ![selected] = c]
      BY <1>3 DEF ReceiveAnswer, ReceiveError, Unwind, Running
  <2> HIDE DEF chat
  <2> QED BY <2>1, <2>2, <2>3, <2>4, ChatPreserves
<1>4. CASE ReceiveHeaders(c)
  <2> DEFINE chat == [chats[c] EXCEPT !.phase = "reading"]
  <2>1. /\ chat \in ChatRecord /\ chat.phase = "reading"
        /\ chat.project = chats[c].project /\ chat.took = chats[c].took
      BY <1>2 DEF Phases
  <2>2. /\ chats' = [chats EXCEPT ![c] = chat] /\ Running(c)
        /\ UNCHANGED <<selected, controller, contexts>>
      BY <1>4 DEF ReceiveHeaders
  <2> HIDE DEF chat
  <2> QED BY <2>1, <2>2, ChatPreserves
<1>5. CASE ReceiveRetryable(c)
  <2> DEFINE n == IF chats[c].retries < MaxRetries THEN chats[c].retries + 1 ELSE chats[c].retries
             chat == [chats[c] EXCEPT !.phase = "waiting", !.retries = n]
  <2>1. n \in Nat
      BY <1>1 DEF ChatRecord
  <2>2. /\ chats' = [chats EXCEPT ![c] = chat] /\ Running(c)
        /\ UNCHANGED <<selected, controller, contexts>>
      BY <1>1, <1>5 DEF ReceiveRetryable, Running
  <2> HIDE DEF n
  <2>3. /\ chat \in ChatRecord /\ chat.phase = "waiting"
        /\ chat.project = chats[c].project /\ chat.took = chats[c].took
      BY <1>1, <2>1 DEF ChatRecord, Phases
  <2> HIDE DEF chat
  <2> QED BY <2>2, <2>3, ChatPreserves
<1>6. CASE Retry(c)
  <2> DEFINE chat == [chats[c] EXCEPT !.phase = "asking", !.project = selected]
  <2>1. Running(c) /\ chats[c].project = selected
      BY <1>6 DEF Retry, Running, ClientInv, LastChatRuns
  <2>2. /\ chats' = [chats EXCEPT ![c] = chat]
        /\ UNCHANGED <<selected, controller, contexts>>
      BY <1>1, <1>6 DEF Retry
  <2>3. /\ chat \in ChatRecord /\ chat.phase = "asking"
        /\ chat.project = chats[c].project /\ chat.took = chats[c].took
      BY <1>1, <2>1 DEF ChatRecord, Phases
  <2> HIDE DEF chat
  <2> QED BY <2>1, <2>2, <2>3, ChatPreserves
<1> QED BY <1>3, <1>4, <1>5, <1>6

\* Cancelling, switching the project and clearing the chat.
LEMMA LeavePreserves ==
    ASSUME ClientInv, NEW p \in ChatProjects, Cancel \/ ClearChat \/ SwitchProject(p)
    PROVE  ClientInv'
<1>1. contexts \in [ChatProjects -> 0 .. Sent] /\ 0 \in 0 .. Sent /\ selected \in ChatProjects
    BY DEF ClientInv, ClientTypeOK
<1>2. chats' = Abort /\ controller' = None /\ selected' \in ChatProjects
    BY <1>1 DEF Cancel, ClearChat, SwitchProject
<1>3. \/ UNCHANGED contexts
      \/ contexts' = [contexts EXCEPT ![selected] = None]
    BY DEF Cancel, ClearChat, SwitchProject
<1>4. /\ contexts' \in [ChatProjects -> 0 .. Sent]
      /\ \A q \in ChatProjects : contexts'[q] \in {contexts[q], None}
    BY <1>1, <1>3 DEF None
<1> QED BY <1>2, <1>4, AbortPreserves

\* So does the page after any step.
LEMMA ClientNextInv == ClientInv /\ [ClientNext]_chatVars => ClientInv'
<1> SUFFICES ASSUME ClientInv, [ClientNext]_chatVars PROVE ClientInv'
    OBVIOUS
<1>1. CASE SendChat
    BY <1>1, SendChatPreserves
<1>2. CASE Cancel \/ ClearChat \/ \E p \in ChatProjects : SwitchProject(p)
    BY <1>2, LeavePreserves DEF ClientInv, ClientTypeOK
<1>3. CASE \E c \in DOMAIN chats :
              \/ \E hasContext \in BOOLEAN : ReceiveAnswer(c, hasContext)
              \/ ReceiveHeaders(c) \/ ReceiveError(c) \/ ReceiveRetryable(c)
              \/ Retry(c) \/ Unwind(c)
    BY <1>3, ReceivePreserves
<1>4. CASE UNCHANGED chatVars
    BY <1>4 DEF chatVars, ClientInv, ClientTypeOK, Sent, LastChatRuns, Running,
                ContextsAreEarlier, ContextsKeepProjectsApart
<1> QED BY <1>1, <1>2, <1>3, <1>4 DEF ClientNext

\* Every reachable state of the page satisfies the inductive invariant.
THEOREM ClientInvariant == ClientSpec => []ClientInv
<1> QED BY ClientInitInv, ClientNextInv, PTL DEF ClientSpec

\* No conversation refers to tasks of another project, and the chat that runs can be
\* cancelled, however questions, retries, answers and switches alternate.
THEOREM ChatsAreUnderControl == ClientSpec => []ChatIsUnderControl
<1>1. ClientInv => ChatIsUnderControl
    BY DEF ClientInv, ChatIsUnderControl, LastChatRuns, RunningChatIsCancellable
<1> QED BY <1>1, ClientInvariant, PTL

\* The stored context of a project only moves to a newer chat, or is removed.
THEOREM ContextsAlwaysMoveForward == ClientSpec => ContextsMoveForward
<1> DEFINE Forward ==
        \A p \in ChatProjects :
            contexts'[p] # contexts[p] => contexts'[p] = None \/ contexts'[p] > contexts[p]
<1>1. ClientInv /\ [ClientNext]_chatVars => [Forward]_chatVars
  <2> SUFFICES ASSUME ClientInv, ClientNext PROVE Forward
      BY DEF chatVars
  <2>1. \/ UNCHANGED contexts
        \/ contexts' = [contexts EXCEPT ![selected] = None]
        \/ \E c \in DOMAIN chats :
              Running(c) /\ contexts' = [contexts EXCEPT ![selected] = c]
      BY DEF ClientNext, SendChat, Cancel, ClearChat, SwitchProject, ReceiveAnswer,
             ReceiveHeaders, ReceiveError, ReceiveRetryable, Retry, Unwind, Running
  <2>2. \A c \in DOMAIN chats : Running(c) => c = Sent
      BY DEF ClientInv, LastChatRuns
  <2> QED BY <2>1, <2>2 DEF ClientInv, ClientTypeOK
<1> QED BY <1>1, ClientInvariant, PTL DEF ClientSpec, ContextsMoveForward

----------------------------------------------------------------------------
(* Ages of past events.                                                      *)

\* The ages that reach the limit are the first ones: the oldest.
LEMMA OldestGo ==
    ASSUME NEW ages \in Seq(Nat), NEW limit \in Nat, OldestFirst(ages)
    PROVE  LET gone == Cardinality({n \in DOMAIN ages : ages[n] + 1 >= limit})
           IN  /\ gone \in 0 .. Len(ages)
               /\ \A n \in 1 .. Len(ages) : n <= gone <=> ages[n] + 1 >= limit
<1> DEFINE L == Len(ages)
           old == {n \in 1 .. L : ages[n] + 1 >= limit}
           gone == Cardinality(old)
<1>1. /\ L \in Nat /\ DOMAIN ages = 1 .. L
      /\ \A n \in 1 .. L : ages[n] \in Nat
    OBVIOUS
<1> HIDE DEF L
<1>2. IsFiniteSet(1 .. L) /\ Cardinality(1 .. L) = L
    BY <1>1, FS_Interval
<1>3. IsFiniteSet(old) /\ gone \in Nat /\ gone <= L
    BY <1>2, FS_Subset, FS_CardinalityType
<1> HIDE DEF gone
<1>4. \A n \in old : \A m \in 1 .. n : m \in old
    BY <1>1 DEF OldestFirst
<1>5. \A n \in old : n <= gone
  <2> SUFFICES ASSUME NEW n \in old PROVE n <= gone
      OBVIOUS
  <2>1. n \in Nat /\ 1 .. n \subseteq old
      BY <1>1, <1>4
  <2>2. Cardinality(1 .. n) = n \/ n = 0
      BY <2>1, FS_Interval
  <2>3. Cardinality(1 .. n) <= gone
      BY <1>3, <2>1, FS_Subset DEF gone
  <2> QED BY <1>1, <1>3, <2>1, <2>2, <2>3
<1>6. old \subseteq 1 .. gone
    BY <1>1, <1>3, <1>5
<1>7. IsFiniteSet(1 .. gone) /\ Cardinality(1 .. gone) = gone
    BY <1>3, FS_Interval
<1>8. old = 1 .. gone
    BY <1>6, <1>7, FS_Subset DEF gone
<1>9. gone = Cardinality({n \in DOMAIN ages : ages[n] + 1 >= limit})
    BY <1>1 DEF gone
<1>10. gone \in 0 .. Len(ages)
    BY <1>1, <1>3 DEF L
<1>11. \A n \in 1 .. L : n <= gone <=> n \in old
    BY <1>1, <1>3, <1>8
<1>12. \A n \in 1 .. Len(ages) : n <= gone <=> ages[n] + 1 >= limit
    BY <1>11 DEF L
<1> HIDE DEF old
<1> QED BY <1>9, <1>10, <1>12

\* What a tick leaves: later ages, each one more, and none of them at the limit.
LEMMA AgedAges ==
    ASSUME NEW ages \in Seq(Nat), NEW limit \in Nat, OldestFirst(ages)
    PROVE  /\ Aged(ages, limit) \in Seq(Nat)
           /\ OldestFirst(Aged(ages, limit))
           /\ \E gone \in 0 .. Len(ages) :
                 /\ Len(Aged(ages, limit)) = Len(ages) - gone
                 /\ \A n \in 1 .. Len(ages) - gone :
                       /\ Aged(ages, limit)[n] = ages[n + gone] + 1
                       /\ Aged(ages, limit)[n] < limit
                 /\ \A n \in 1 .. gone : ages[n] + 1 >= limit
<1> DEFINE L == Len(ages)
           older == [n \in DOMAIN ages |-> ages[n] + 1]
           gone == Cardinality({n \in DOMAIN ages : ages[n] + 1 >= limit})
           left == SubSeq(older, gone + 1, L)
<1>1. /\ gone \in 0 .. L
      /\ \A n \in 1 .. L : n <= gone <=> ages[n] + 1 >= limit
    BY OldestGo
<1>2. /\ L \in Nat /\ DOMAIN ages = 1 .. L
      /\ \A n \in 1 .. L : ages[n] \in Nat
    OBVIOUS
<1>3. {n \in DOMAIN ages : older[n] >= limit} = {n \in DOMAIN ages : ages[n] + 1 >= limit}
    OBVIOUS
<1>4. Aged(ages, limit) = left
    BY <1>3 DEF Aged
<1>5. \A n \in 1 .. L : older[n] = ages[n] + 1 /\ older[n] \in Nat
    BY <1>2
<1> HIDE DEF gone, L, older
<1>6. \A n \in (gone + 1) .. L : older[n] \in Nat
    BY <1>1, <1>2, <1>5
<1>7. /\ left \in Seq(Nat)
      /\ Len(left) = IF gone + 1 <= L THEN L - (gone + 1) + 1 ELSE 0
      /\ \A n \in 1 .. L - (gone + 1) + 1 : left[n] = older[gone + 1 + n - 1]
    BY <1>1, <1>2, <1>6, SubSeqProperties
<1> HIDE DEF left
<1>8. Len(left) = L - gone
    BY <1>1, <1>2, <1>7
<1>9. \A n \in 1 .. L - gone : left[n] = older[n + gone]
    BY <1>1, <1>2, <1>7
<1>10. \A n \in 1 .. L - gone : left[n] = ages[n + gone] + 1 /\ left[n] < limit
  <2> SUFFICES ASSUME NEW n \in 1 .. L - gone
               PROVE  left[n] = ages[n + gone] + 1 /\ left[n] < limit
      OBVIOUS
  <2>1. n + gone \in 1 .. L /\ ~(n + gone <= gone)
      BY <1>1, <1>2
  <2>2. ages[n + gone] \in Nat /\ ~(ages[n + gone] + 1 >= limit)
      BY <1>1, <1>2, <2>1
  <2> QED BY <1>5, <1>9, <2>1, <2>2
<1>11. DOMAIN left = 1 .. L - gone
    BY <1>7, <1>8, LenProperties
<1>12. OldestFirst(left)
  <2> SUFFICES ASSUME NEW m \in 1 .. L - gone, NEW n \in 1 .. L - gone, m <= n
               PROVE  left[m] >= left[n]
      BY <1>11 DEF OldestFirst
  <2>1. m + gone \in 1 .. L /\ n + gone \in 1 .. L /\ m + gone <= n + gone
      BY <1>1, <1>2
  <2>2. ages[m + gone] >= ages[n + gone]
      BY <1>2, <2>1 DEF OldestFirst
  <2> QED BY <1>2, <1>10, <2>1, <2>2
<1>13. \A n \in 1 .. gone : ages[n] + 1 >= limit
    BY <1>1, <1>2
<1> QED BY <1>1, <1>4, <1>7, <1>8, <1>10, <1>12, <1>13 DEF L

\* An event that has just happened is the newest.
LEMMA NewestIsLast ==
    ASSUME NEW ages \in Seq(Nat), OldestFirst(ages)
    PROVE  /\ Append(ages, 0) \in Seq(Nat)
           /\ OldestFirst(Append(ages, 0))
           /\ Len(Append(ages, 0)) = Len(ages) + 1
           /\ \A n \in 1 .. Len(ages) : Append(ages, 0)[n] = ages[n]
           /\ Append(ages, 0)[Len(ages) + 1] = 0
<1> DEFINE longer == Append(ages, 0)
           L == Len(ages)
<1>1. /\ L \in Nat /\ DOMAIN ages = 1 .. L
      /\ \A n \in 1 .. L : ages[n] \in Nat
    OBVIOUS
<1>2. /\ longer \in Seq(Nat) /\ Len(longer) = L + 1
      /\ \A n \in 1 .. L : longer[n] = ages[n]
      /\ longer[L + 1] = 0
    BY AppendProperties
<1> HIDE DEF longer
<1>3. DOMAIN longer = 1 .. L + 1
    BY <1>2, LenProperties
<1> HIDE DEF L
<1>4. OldestFirst(longer)
  <2> SUFFICES ASSUME NEW m \in 1 .. L + 1, NEW n \in 1 .. L + 1, m <= n
               PROVE  longer[m] >= longer[n]
      BY <1>3 DEF OldestFirst
  <2>1. CASE n = L + 1
    <3>1. longer[m] \in Nat
        BY <1>1, <1>2
    <3> QED BY <1>2, <2>1, <3>1
  <2>2. CASE n \in 1 .. L /\ m \in 1 .. L
      BY <1>1, <1>2, <2>2 DEF OldestFirst
  <2> QED BY <1>1, <2>1, <2>2
<1> QED BY <1>2, <1>4 DEF longer, L

----------------------------------------------------------------------------
(* The rate limiter.                                                         *)

Window == [age : 0 .. WindowTicks, count : 0 .. Allowed]

\* The windows and the history have their types.
LimiterTypeOK ==
    /\ DOMAIN windows \subseteq Clients
    /\ windows \in [DOMAIN windows -> Window]
    /\ admitted \in [Clients -> Seq(Nat)]
    /\ \A c \in Clients : OldestFirst(admitted[c])

Young(ws, c) == c \in DOMAIN ws /\ ws[c].age < WindowTicks

\* The requests of a window are the last ones admitted; those before it are at most as
\* many as a window has.
InWindow(w, ages) ==
    /\ w.count <= Len(ages) /\ Len(ages) <= w.count + Allowed
    /\ \A n \in 1 .. Len(ages) : Len(ages) < n + w.count <=> ages[n] <= w.age

\* When no window of a client is open, its last one is over: nothing was admitted since.
NoWindow(ages) ==
    /\ Len(ages) <= Allowed
    /\ \A n \in 1 .. Len(ages) : ages[n] > 0

WindowsCount ==
    \A c \in Clients : IF Young(windows, c) THEN InWindow(windows[c], admitted[c])
                       ELSE NoWindow(admitted[c])

\* The inductive invariant.
LimiterInv == LimiterTypeOK /\ WindowsCount

\* No requests.
LEMMA LimiterInvInit == LimiterInit => LimiterInv
<1> SUFFICES ASSUME LimiterInit PROVE LimiterInv
    OBVIOUS
<1>1. DOMAIN windows = {} /\ windows = [c \in {} |-> {}]
      /\ admitted = [c \in Clients |-> <<>>]
    BY DEF LimiterInit
<1>2. <<>> \in Seq(Nat) /\ Len(<<>>) = 0 /\ OldestFirst(<<>>)
    BY DEF OldestFirst
<1>3. LimiterTypeOK
    BY <1>1, <1>2 DEF LimiterTypeOK
<1>4. NoWindow(<<>>)
    BY <1>2, RateLimiterAssumption DEF NoWindow
<1> QED BY <1>1, <1>3, <1>4 DEF LimiterInv, WindowsCount, Young

\* Removing old windows takes away none that counts.
LEMMA TidyingKeepsYoung ==
    ASSUME NEW ws
    PROVE  /\ DOMAIN Tidied(ws) \subseteq DOMAIN ws
           /\ Tidied(ws) = [c \in DOMAIN Tidied(ws) |-> ws[c]] \/ Tidied(ws) = ws
           /\ \A c \in DOMAIN Tidied(ws) : Tidied(ws)[c] = ws[c]
           /\ \A c : Young(Tidied(ws), c) <=> Young(ws, c)
           /\ \A c : WindowOf(Tidied(ws), c) = WindowOf(ws, c)
<1>1. CASE Tidied(ws) = ws
    BY <1>1
<1>2. CASE Tidied(ws) = Younger(ws)
    BY <1>2 DEF Younger, Young, WindowOf
<1> QED BY <1>1, <1>2 DEF Tidied

\* The window a request falls in, with what was admitted in it.
LEMMA WindowOfClient ==
    ASSUME LimiterInv, NEW c \in Clients
    PROVE  /\ WindowOf(windows, c) \in Window
           /\ WindowOf(windows, c).age < WindowTicks
           /\ InWindow(WindowOf(windows, c), admitted[c])
<1>1. Len(admitted[c]) \in Nat /\ \A n \in 1 .. Len(admitted[c]) : admitted[c][n] \in Nat
    BY DEF LimiterInv, LimiterTypeOK
<1>2. CASE Young(windows, c)
    BY <1>2 DEF LimiterInv, LimiterTypeOK, WindowsCount, WindowOf, Young
<1>3. CASE ~Young(windows, c)
  <2>1. WindowOf(windows, c) = [age |-> 0, count |-> 0]
      BY <1>3 DEF WindowOf, Young
  <2>2. NoWindow(admitted[c])
      BY <1>3 DEF LimiterInv, WindowsCount
  <2>3. PICK w : w = [age |-> 0, count |-> 0]
      OBVIOUS
  <2>4. w.age = 0 /\ w.count = 0 /\ w \in Window
      BY <2>3, RateLimiterAssumption DEF Window
  <2>5. \A n \in 1 .. Len(admitted[c]) :
           ~(Len(admitted[c]) < n + w.count) /\ ~(admitted[c][n] <= w.age)
      BY <1>1, <2>2, <2>4 DEF NoWindow
  <2>6. w.count <= Len(admitted[c]) /\ Len(admitted[c]) <= w.count + Allowed
      BY <1>1, <2>2, <2>4, RateLimiterAssumption DEF NoWindow
  <2>7. InWindow(w, admitted[c])
      BY <2>5, <2>6 DEF InWindow
  <2> QED BY <2>1, <2>3, <2>4, <2>7, RateLimiterAssumption
<1> QED BY <1>2, <1>3

\* A request is admitted.
LEMMA AllowInv ==
    ASSUME LimiterInv, NEW c \in Clients, allow(c)
    PROVE  LimiterInv'
<1>1. PICK ws : ws = Tidied(windows)
    OBVIOUS
<1>2. PICK w : w = WindowOf(windows, c)
    OBVIOUS
<1>3. /\ DOMAIN ws \subseteq DOMAIN windows
      /\ \A d \in DOMAIN ws : ws[d] = windows[d]
      /\ \A d : Young(ws, d) <=> Young(windows, d)
      /\ WindowOf(ws, c) = w
    BY <1>1, <1>2, TidyingKeepsYoung
<1>4. w \in Window /\ w.age < WindowTicks /\ InWindow(w, admitted[c])
    BY <1>2, WindowOfClient
<1>5. /\ w.count < Allowed
      /\ windows' = [d \in DOMAIN ws \cup {c} |->
                        IF d = c THEN [w EXCEPT !.count = @ + 1] ELSE ws[d]]
      /\ admitted' = [admitted EXCEPT ![c] = Append(@, 0)]
    BY <1>1, <1>3 DEF allow
<1>6. PICK new : new = [w EXCEPT !.count = @ + 1]
    OBVIOUS
<1>7. new \in Window /\ new.age = w.age /\ new.count = w.count + 1
    BY <1>4, <1>5, <1>6, RateLimiterAssumption DEF Window
<1>8. PICK ages \in Seq(Nat) : ages = admitted[c]
    BY DEF LimiterInv, LimiterTypeOK
<1>9. PICK longer : longer = Append(ages, 0)
    OBVIOUS
<1>10. /\ longer \in Seq(Nat) /\ OldestFirst(longer)
       /\ Len(longer) = Len(ages) + 1
       /\ \A n \in 1 .. Len(ages) : longer[n] = ages[n]
       /\ longer[Len(ages) + 1] = 0
    BY <1>8, <1>9, NewestIsLast DEF LimiterInv, LimiterTypeOK
<1>11. /\ admitted' \in [Clients -> Seq(Nat)]
       /\ admitted'[c] = longer
       /\ \A d \in Clients \ {c} : admitted'[d] = admitted[d]
    BY <1>5, <1>8, <1>9, <1>10 DEF LimiterInv, LimiterTypeOK
<1>12. /\ DOMAIN windows' = DOMAIN ws \cup {c}
       /\ windows'[c] = new
       /\ \A d \in DOMAIN ws \ {c} : windows'[d] = ws[d]
       /\ windows' = [d \in DOMAIN windows' |-> windows'[d]]
    BY <1>5, <1>6
<1>13. LimiterTypeOK'
  <2>1. DOMAIN windows' \subseteq Clients
      BY <1>3, <1>12 DEF LimiterInv, LimiterTypeOK
  <2>2. \A d \in DOMAIN windows' : windows'[d] \in Window
      BY <1>3, <1>7, <1>12 DEF LimiterInv, LimiterTypeOK
  <2>3. \A d \in Clients : OldestFirst(admitted'[d])
      BY <1>10, <1>11 DEF LimiterInv, LimiterTypeOK
  <2> QED BY <1>11, <1>12, <2>1, <2>2, <2>3 DEF LimiterTypeOK
<1>14. InWindow(new, longer)
  <2>1. Len(ages) \in Nat /\ w.count \in Nat /\ w.age \in Nat
        /\ \A n \in 1 .. Len(ages) : ages[n] \in Nat
      BY <1>4, RateLimiterAssumption DEF Window
  <2>2. /\ w.count <= Len(ages) /\ Len(ages) <= w.count + Allowed
        /\ \A n \in 1 .. Len(ages) : Len(ages) < n + w.count <=> ages[n] <= w.age
      BY <1>4, <1>8 DEF InWindow
  <2>3. new.count <= Len(longer) /\ Len(longer) <= new.count + Allowed
      BY <1>7, <1>10, <2>1, <2>2, RateLimiterAssumption
  <2> SUFFICES ASSUME NEW n \in 1 .. Len(longer)
               PROVE  Len(longer) < n + new.count <=> longer[n] <= new.age
      BY <2>3 DEF InWindow
  <2>4. CASE n = Len(ages) + 1
      BY <1>7, <1>10, <2>1, <2>4
  <2>5. CASE n \in 1 .. Len(ages)
    <3>1. longer[n] = ages[n]
        BY <1>10, <2>5
    <3>2. Len(longer) < n + new.count <=> Len(ages) < n + w.count
        BY <1>7, <1>10, <2>1
    <3> QED BY <1>7, <2>2, <2>5, <3>1, <3>2
  <2> QED BY <1>10, <2>1, <2>4, <2>5
<1>15. WindowsCount'
  <2> SUFFICES ASSUME NEW d \in Clients
               PROVE  IF Young(windows', d) THEN InWindow(windows'[d], admitted'[d])
                      ELSE NoWindow(admitted'[d])
      BY DEF WindowsCount, Young
  <2>1. CASE d = c
    <3>1. Young(windows', c)
        BY <1>4, <1>7, <1>12 DEF Young
    <3> QED BY <1>11, <1>12, <1>14, <2>1, <3>1
  <2>2. CASE d # c
    <3>1. Young(windows', d) <=> Young(windows, d)
        BY <1>3, <1>12, <2>2 DEF Young
    <3>2. Young(windows, d) => windows'[d] = windows[d]
        BY <1>3, <1>12, <2>2 DEF Young
    <3> QED BY <1>11, <2>2, <3>1, <3>2 DEF LimiterInv, WindowsCount
  <2> QED BY <2>1, <2>2
<1> QED BY <1>13, <1>15 DEF LimiterInv

\* A request is refused.
LEMMA LimitInv ==
    ASSUME LimiterInv, NEW c \in Clients, Limit(c)
    PROVE  LimiterInv'
<1>1. windows' = Tidied(windows) /\ admitted' = admitted
    BY DEF Limit
<1>2. /\ DOMAIN windows' \subseteq DOMAIN windows
      /\ windows' = [d \in DOMAIN windows' |-> windows[d]] \/ windows' = windows
      /\ \A d \in DOMAIN windows' : windows'[d] = windows[d]
      /\ \A d : Young(windows', d) <=> Young(windows, d)
    BY <1>1, TidyingKeepsYoung
<1>3. LimiterTypeOK'
    BY <1>1, <1>2 DEF LimiterInv, LimiterTypeOK
<1>4. WindowsCount'
    BY <1>1, <1>2 DEF LimiterInv, WindowsCount, Young
<1> QED BY <1>3, <1>4 DEF LimiterInv

\* A tick over the windows and the history of one client.
LEMMA SecondPasses ==
    ASSUME NEW w \in Window, w.age < WindowTicks, NEW ages \in Seq(Nat), OldestFirst(ages),
           InWindow(w, ages), NEW later, later = Aged(ages, WindowTicks),
           NEW older \in Window, older.age = w.age + 1, older.count = w.count
    PROVE  IF older.age < WindowTicks THEN InWindow(older, later) ELSE NoWindow(later)
<1> DEFINE L == Len(ages)
<1>1. /\ L \in Nat /\ w.count \in Nat /\ w.age \in Nat /\ Allowed \in Nat
      /\ w.count <= Allowed /\ WindowTicks \in Nat
      /\ \A n \in 1 .. L : ages[n] \in Nat
    BY RateLimiterAssumption DEF Window
<1>2. /\ w.count <= L /\ L <= w.count + Allowed
      /\ \A n \in 1 .. L : L < n + w.count <=> ages[n] <= w.age
    BY DEF InWindow
<1>3. PICK gone \in 0 .. L :
         /\ Len(later) = L - gone
         /\ \A n \in 1 .. L - gone : later[n] = ages[n + gone] + 1 /\ later[n] < WindowTicks
         /\ \A n \in 1 .. gone : ages[n] + 1 >= WindowTicks
    BY RateLimiterAssumption, AgedAges
<1> HIDE DEF L
<1>4. \A n \in 1 .. L - gone : later[n] > 0
  <2> SUFFICES ASSUME NEW n \in 1 .. L - gone PROVE later[n] > 0
      OBVIOUS
  <2>1. n + gone \in 1 .. L
      BY <1>1
  <2>2. ages[n + gone] \in Nat
      BY <1>1, <2>1
  <2>3. later[n] = ages[n + gone] + 1
      BY <1>3
  <2> QED BY <2>2, <2>3
<1>5. CASE older.age < WindowTicks
  <2>1. \A n \in 1 .. gone : ~(ages[n] <= w.age)
      BY <1>1, <1>3, <1>5
  <2>2. gone + w.count <= L
    <3>1. CASE gone = 0
        BY <1>1, <1>2, <3>1
    <3>2. CASE gone > 0
      <4>1. gone \in 1 .. gone /\ gone \in 1 .. L
          BY <1>1, <3>2
      <4>2. ~(L < gone + w.count)
          BY <1>2, <2>1, <4>1
      <4> QED BY <1>1, <4>2
    <3> QED BY <3>1, <3>2
  <2>3. \A n \in 1 .. L - gone : L - gone < n + w.count <=> later[n] <= w.age + 1
    <3> SUFFICES ASSUME NEW n \in 1 .. L - gone
                 PROVE  L - gone < n + w.count <=> later[n] <= w.age + 1
        OBVIOUS
    <3>1. n + gone \in 1 .. L
        BY <1>1
    <3>2. L < (n + gone) + w.count <=> ages[n + gone] <= w.age
        BY <1>2, <3>1
    <3>3. later[n] = ages[n + gone] + 1
        BY <1>3
    <3>4. ages[n + gone] \in Nat
        BY <1>1, <3>1
    <3>5. L - gone < n + w.count <=> L < (n + gone) + w.count
        BY <1>1
    <3>6. later[n] <= w.age + 1 <=> ages[n + gone] <= w.age
        BY <1>1, <3>3, <3>4
    <3> QED BY <3>2, <3>5, <3>6
  <2> QED BY <1>1, <1>2, <1>3, <1>5, <2>2, <2>3 DEF InWindow
<1>6. CASE ~(older.age < WindowTicks)
  <2>1. L - gone <= w.count
    <3> SUFFICES ASSUME ~(L - gone <= w.count) PROVE FALSE
        OBVIOUS
    <3>1. gone + 1 \in 1 .. L /\ 1 \in 1 .. L - gone /\ 1 + gone = gone + 1
        BY <1>1
    <3>2. ~(L < (gone + 1) + w.count)
        BY <1>1
    <3>3. ~(ages[gone + 1] <= w.age) /\ ages[gone + 1] \in Nat
        BY <1>1, <1>2, <3>1, <3>2
    <3>4. later[1] = ages[gone + 1] + 1 /\ later[1] < WindowTicks
        BY <1>3, <3>1
    <3>5. later[1] > older.age
        BY <1>1, <3>3, <3>4
    <3>6. older.age \in Nat
        BY <1>1
    <3>7. later[1] \in Nat
        BY <3>3, <3>4
    <3> QED BY <1>1, <1>6, <3>4, <3>5, <3>6, <3>7
  <2>2. L - gone <= Allowed
      BY <1>1, <2>1
  <2> QED BY <1>3, <1>4, <1>6, <2>2 DEF NoWindow
<1> QED BY <1>5, <1>6

\* Nothing that is over comes back.
LEMMA NoWindowStays ==
    ASSUME NEW ages \in Seq(Nat), OldestFirst(ages), NoWindow(ages),
           NEW later, later = Aged(ages, WindowTicks)
    PROVE  NoWindow(later)
<1>1. PICK gone \in 0 .. Len(ages) :
         /\ Len(later) = Len(ages) - gone
         /\ \A n \in 1 .. Len(ages) - gone : later[n] = ages[n + gone] + 1
    BY RateLimiterAssumption, AgedAges
<1>2. Len(ages) \in Nat /\ Len(ages) <= Allowed /\ Allowed \in Nat
      /\ \A n \in 1 .. Len(ages) : ages[n] \in Nat
    BY RateLimiterAssumption DEF NoWindow
<1>3. ASSUME NEW n \in 1 .. Len(ages) - gone PROVE later[n] > 0
  <2>1. n + gone \in 1 .. Len(ages)
      BY <1>2
  <2> QED BY <1>1, <1>2, <2>1
<1> QED BY <1>1, <1>2, <1>3 DEF NoWindow

\* Time passes.
LEMMA SecondInv ==
    ASSUME LimiterInv, Second
    PROVE  LimiterInv'
<1>1. /\ DOMAIN windows' = DOMAIN windows
      /\ windows' = [c \in DOMAIN windows' |-> windows'[c]]
      /\ \A c \in DOMAIN windows : windows'[c] =
            [windows[c] EXCEPT !.age = IF @ < WindowTicks THEN @ + 1 ELSE @]
      /\ admitted' = [c \in Clients |-> Aged(admitted[c], WindowTicks)]
    BY DEF Second
<1>2. \A c \in DOMAIN windows :
         /\ windows'[c] \in Window /\ windows'[c].count = windows[c].count
         /\ windows'[c].age = IF windows[c].age < WindowTicks THEN windows[c].age + 1
                              ELSE windows[c].age
  <2> SUFFICES ASSUME NEW c \in DOMAIN windows
               PROVE  /\ windows'[c] \in Window /\ windows'[c].count = windows[c].count
                      /\ windows'[c].age = IF windows[c].age < WindowTicks
                                           THEN windows[c].age + 1 ELSE windows[c].age
      OBVIOUS
  <2>1. PICK w \in Window : w = windows[c]
      BY DEF LimiterInv, LimiterTypeOK
  <2>2. windows'[c] = [w EXCEPT !.age = IF w.age < WindowTicks THEN w.age + 1 ELSE w.age]
      BY <1>1, <2>1
  <2>3. WindowTicks \in Nat /\ w.age \in 0 .. WindowTicks
      BY RateLimiterAssumption DEF Window
  <2> QED BY <2>1, <2>2, <2>3 DEF Window
<1>3. \A c \in Clients : admitted[c] \in Seq(Nat) /\ OldestFirst(admitted[c])
                         /\ admitted'[c] = Aged(admitted[c], WindowTicks)
    BY <1>1 DEF LimiterInv, LimiterTypeOK
<1>4. \A c \in Clients : admitted'[c] \in Seq(Nat) /\ OldestFirst(admitted'[c])
    BY <1>3, AgedAges, RateLimiterAssumption
<1>5. LimiterTypeOK'
    BY <1>1, <1>2, <1>4 DEF LimiterInv, LimiterTypeOK
<1>6. WindowsCount'
  <2> SUFFICES ASSUME NEW c \in Clients
               PROVE  IF Young(windows', c) THEN InWindow(windows'[c], admitted'[c])
                      ELSE NoWindow(admitted'[c])
      BY DEF WindowsCount, Young
  <2>1. CASE Young(windows, c)
    <3>1. /\ c \in DOMAIN windows /\ windows[c] \in Window /\ windows[c].age < WindowTicks
          /\ InWindow(windows[c], admitted[c])
        BY <2>1 DEF Young, LimiterInv, LimiterTypeOK, WindowsCount
    <3>2. /\ windows'[c] \in Window /\ windows'[c].age = windows[c].age + 1
          /\ windows'[c].count = windows[c].count
        BY <1>2, <3>1
    <3>3. IF windows'[c].age < WindowTicks THEN InWindow(windows'[c], admitted'[c])
          ELSE NoWindow(admitted'[c])
        BY <1>3, <3>1, <3>2, SecondPasses
    <3> QED BY <1>1, <3>1, <3>3 DEF Young
  <2>2. CASE ~Young(windows, c)
    <3>1. ~Young(windows', c)
        BY <1>1, <1>2, <2>2 DEF Young
    <3>2. NoWindow(admitted[c])
        BY <2>2 DEF LimiterInv, WindowsCount
    <3> QED BY <1>3, <3>1, <3>2, NoWindowStays
  <2> QED BY <2>1, <2>2
<1> QED BY <1>5, <1>6 DEF LimiterInv

\* At most a window's requests are in a window, and at most two windows' in its length.
LEMMA LimiterInvLimits == LimiterInv => RequestsAreLimited
<1> SUFFICES ASSUME LimiterInv, NEW c \in Clients
             PROVE  /\ Len(admitted[c]) <= 2 * Allowed
                    /\ c \in DOMAIN windows =>
                          Cardinality({n \in DOMAIN admitted[c] :
                                          admitted[c][n] <= windows[c].age}) <= Allowed
    BY DEF RequestsAreLimited
<1> DEFINE ages == admitted[c]
           L == Len(ages)
           last == {n \in DOMAIN ages : ages[n] <= windows[c].age}
<1>1. /\ L \in Nat /\ DOMAIN ages = 1 .. L /\ Allowed \in Nat
    BY RateLimiterAssumption DEF LimiterInv, LimiterTypeOK
<1>2. IsFiniteSet(1 .. L) /\ Cardinality(1 .. L) = L
  <2> HIDE DEF L
  <2> QED BY <1>1, FS_Interval
<1>3. CASE Young(windows, c)
  <2>1. PICK w \in Window : w = windows[c] /\ InWindow(w, ages)
      BY <1>3 DEF LimiterInv, LimiterTypeOK, WindowsCount, Young
  <2>2. /\ w.count \in Nat /\ w.count <= Allowed
        /\ w.count <= L /\ L <= w.count + Allowed
        /\ \A n \in 1 .. L : L < n + w.count <=> ages[n] <= w.age
      BY <2>1, RateLimiterAssumption DEF Window, InWindow
  <2> HIDE DEF L, ages
  <2>3. last = (L - w.count + 1) .. L
    <3>1. \A n \in last : n \in 1 .. L /\ L < n + w.count
        BY <1>1, <2>1, <2>2
    <3>2. \A n \in (L - w.count + 1) .. L : n \in 1 .. L /\ L < n + w.count
        BY <1>1, <2>2
    <3>3. \A n \in (L - w.count + 1) .. L : n \in last
        BY <1>1, <2>1, <2>2, <3>2
    <3>4. \A n \in last : n \in (L - w.count + 1) .. L
        BY <1>1, <2>2, <3>1
    <3> QED BY <3>3, <3>4
  <2> HIDE DEF last
  <2>4. Cardinality(last) <= Allowed
    <3>1. L - w.count + 1 \in Int /\ L \in Int
        BY <1>1, <2>2
    <3>2. Cardinality(last) = IF L - w.count + 1 > L THEN 0 ELSE L - (L - w.count + 1) + 1
        BY <2>3, <3>1, FS_Interval
    <3> QED BY <1>1, <2>2, <3>2
  <2>5. L <= 2 * Allowed
      BY <1>1, <2>2
  <2> QED BY <2>4, <2>5 DEF L, ages, last
<1>4. CASE ~Young(windows, c)
  <2>1. L <= Allowed
      BY <1>4 DEF LimiterInv, WindowsCount, NoWindow
  <2>2. last \subseteq 1 .. L
      BY <1>1
  <2> HIDE DEF L, last, ages
  <2>3. Cardinality(last) <= L /\ Cardinality(last) \in Nat
      BY <1>2, <2>2, FS_Subset, FS_CardinalityType
  <2>4. Cardinality(last) <= Allowed /\ L <= 2 * Allowed
      BY <1>1, <2>1, <2>3
  <2> QED BY <2>4 DEF L, ages, last
<1> QED BY <1>3, <1>4

\* However requests, removals of old windows and time mix, for any number of clients and
\* any limits, a client gets at most its policy's requests in a window and twice as many
\* in any time of that length.
THEOREM RequestsAreAlwaysLimited == LimiterSpec => []RequestsAreLimited
<1>1. LimiterInv /\ [LimiterNext]_lvars => LimiterInv'
  <2> SUFFICES ASSUME LimiterInv, [LimiterNext]_lvars PROVE LimiterInv'
      OBVIOUS
  <2>1. CASE LimiterNext
      BY <2>1, SecondInv, AllowInv, LimitInv DEF LimiterNext
  <2>2. CASE UNCHANGED lvars
      BY <2>2 DEF lvars, LimiterInv, LimiterTypeOK, WindowsCount, Young
  <2> QED BY <2>1, <2>2
<1> QED BY <1>1, LimiterInvInit, LimiterInvLimits, PTL DEF LimiterSpec

----------------------------------------------------------------------------
(* Access to the API.                                                         *)

Keys == [revoked : BOOLEAN, scopes : SUBSET Projects, administrator : BOOLEAN]

\* The key, the cache entry and the history have their types.
AccessTypeOK ==
    /\ key \in Keys
    /\ cache \in [left : 0 .. CacheTicks, scopes : SUBSET Projects]
    /\ since \in [Projects -> Nat]
    /\ requests = [r \in Slots |-> requests[r]]

\* What is good now was never better.
GoodIsNow == \A p \in Projects : Good(key, p) => since[p] = 0

\* The keys a transaction has read were so when it read them.
ReadWasGood(read) ==
    /\ read.lag \in 0 .. MaxLag /\ read.project \in Projects
    /\ read.row \in Keys
    /\ \A p \in Projects : Good(read.row, p) => since[p] <= read.lag

ReadsAreRecent == \A r \in Slots : requests[r].phase = "read" => ReadWasGood(requests[r])

\* What the cache remembers was good a transaction before it was written.
CacheIsRecent ==
    cache.left > 0 =>
        \A p \in cache.scopes : since[p] + cache.left <= CacheTicks + MaxLag

\* The inductive invariant.
AccessInv == AccessTypeOK /\ GoodIsNow /\ ReadsAreRecent /\ CacheIsRecent /\ AccessIsRecent

\* No request, no entry.
LEMMA AccessInvInit == AccessInit => AccessInv
<1> SUFFICES ASSUME AccessInit PROVE AccessInv
    OBVIOUS
<1>1. key \in Keys /\ ~key.revoked
    BY DEF AccessInit, Keys
<1>2. AccessTypeOK
    BY <1>1, AccessAssumption DEF AccessInit, AccessTypeOK
<1>3. GoodIsNow
    BY DEF AccessInit, GoodIsNow, Good
<1>4. ReadsAreRecent /\ CacheIsRecent /\ AccessIsRecent
    BY DEF AccessInit, ReadsAreRecent, CacheIsRecent, AccessIsRecent, ReadySlot
<1> QED BY <1>2, <1>3, <1>4 DEF AccessInv

\* One request moves, and the cache and the keys stay.
LEMMA OneRequestMoves ==
    ASSUME AccessInv, NEW r \in Slots, NEW new,
           requests' = [requests EXCEPT ![r] = new],
           key' = key, since' = since,
           new.phase = "read" => ReadWasGood(new),
           new.phase = "done" =>
               /\ new.status = "let in" => new.stale <= MaxLag
               /\ new.status = "remembered" => new.stale <= CacheTicks + MaxLag
    PROVE  /\ requests' = [s \in Slots |-> requests'[s]]
           /\ ReadsAreRecent' /\ AccessIsRecent' /\ GoodIsNow'
<1>1. /\ requests'[r] = new
      /\ \A s \in Slots \ {r} : requests'[s] = requests[s]
      /\ requests' = [s \in Slots |-> requests'[s]]
    BY DEF AccessInv, AccessTypeOK
<1>2. ReadsAreRecent'
    BY <1>1 DEF AccessInv, ReadsAreRecent, ReadWasGood, Good
<1>3. AccessIsRecent'
  <2> SUFFICES ASSUME NEW s \in Slots, requests'[s].phase = "done"
               PROVE  /\ requests'[s].status = "let in" => requests'[s].stale <= MaxLag
                      /\ requests'[s].status = "remembered" =>
                            requests'[s].stale <= CacheTicks + MaxLag
      BY DEF AccessIsRecent
  <2> QED BY <1>1 DEF AccessInv, AccessIsRecent
<1>4. GoodIsNow'
    BY DEF AccessInv, GoodIsNow, Good
<1> QED BY <1>1, <1>2, <1>3, <1>4

\* A transaction reads the keys as they are.
LEMMA ReadKeysInv ==
    ASSUME AccessInv, NEW r \in Slots, NEW p \in Projects, NEW kind, ReadKeys(r, p, kind)
    PROVE  AccessInv'
<1>1. PICK new : new = [phase |-> "read", project |-> p, kind |-> kind,
                        row |-> key, lag |-> 0]
    OBVIOUS
<1>2. requests' = [requests EXCEPT ![r] = new]
      /\ key' = key /\ cache' = cache /\ since' = since
    BY <1>1 DEF ReadKeys
<1>3. ReadWasGood(new) /\ new.phase = "read"
    BY <1>1, AccessAssumption DEF AccessInv, AccessTypeOK, GoodIsNow, ReadWasGood
<1>4. /\ requests' = [s \in Slots |-> requests'[s]]
      /\ ReadsAreRecent' /\ AccessIsRecent' /\ GoodIsNow'
    BY <1>2, <1>3, OneRequestMoves
<1>5. AccessTypeOK' /\ CacheIsRecent'
    BY <1>2, <1>4 DEF AccessInv, AccessTypeOK, CacheIsRecent
<1> QED BY <1>4, <1>5 DEF AccessInv

\* A request is decided by the keys it has read, whatever they are now.
LEMMA AuthenticateInv ==
    ASSUME AccessInv, NEW r \in Slots, Authenticate(r)
    PROVE  AccessInv'
<1> DEFINE read == requests[r]
           passes == authenticate(read)
           status == IF passes THEN "let in" ELSE "refused"
<1>1. PICK new : new = [phase |-> "done", status |-> status,
                        stale |-> IF status = "refused" THEN 0 ELSE since[read.project]]
    OBVIOUS
<1>2. /\ requests' = [requests EXCEPT ![r] = new]
      /\ key' = key /\ since' = since
      /\ cache' = IF passes /\ read.kind # "administer"
                  THEN [left |-> CacheTicks, scopes |-> read.row.scopes] ELSE cache
    BY <1>1 DEF Authenticate, Decided
<1>3. ReadWasGood(read)
    BY DEF Authenticate, AccessInv, ReadsAreRecent
<1>4. passes => Good(read.row, read.project) /\ ~read.row.revoked
    BY DEF authenticate, Good
<1>5. new.phase = "done" /\ (new.status = "let in" <=> passes)
      /\ new.status # "remembered"
      /\ (passes => new.stale = since[read.project])
    BY <1>1
<1>6. since \in [Projects -> Nat] /\ CacheTicks \in Nat /\ MaxLag \in Nat
    BY AccessAssumption DEF AccessInv, AccessTypeOK
<1> HIDE DEF passes, read
<1>7. ASSUME passes PROVE new.stale <= MaxLag
  <2>1. PICK p \in Projects : p = read.project
      BY <1>3 DEF ReadWasGood
  <2>2. since[p] <= read.lag /\ read.lag \in 0 .. MaxLag
      BY <1>3, <1>4, <1>7, <2>1 DEF ReadWasGood
  <2>3. since[p] \in Nat /\ new.stale = since[p]
      BY <1>5, <1>6, <1>7, <2>1
  <2> QED BY <1>6, <2>2, <2>3
<1>8. /\ requests' = [s \in Slots |-> requests'[s]]
      /\ ReadsAreRecent' /\ AccessIsRecent' /\ GoodIsNow'
    BY <1>2, <1>5, <1>7, OneRequestMoves
<1>9. AccessTypeOK' /\ CacheIsRecent'
  <2>1. CASE cache' = cache
      BY <1>2, <1>8, <2>1 DEF AccessInv, AccessTypeOK, CacheIsRecent
  <2>2. CASE passes /\ cache' = [left |-> CacheTicks, scopes |-> read.row.scopes]
    <3>1. read.row.scopes \subseteq Projects
        BY <1>3 DEF ReadWasGood, Keys
    <3>2. cache'.left = CacheTicks /\ cache'.scopes = read.row.scopes
          /\ cache' \in [left : 0 .. CacheTicks, scopes : SUBSET Projects]
        BY <1>6, <2>2, <3>1
    <3>3. ASSUME NEW p \in read.row.scopes PROVE since[p] <= MaxLag /\ since[p] \in Nat
      <4>1. p \in Projects /\ Good(read.row, p)
          BY <1>4, <2>2, <3>1 DEF Good
      <4>2. since[p] <= read.lag /\ read.lag \in 0 .. MaxLag /\ since[p] \in Nat
          BY <1>3, <1>6, <4>1 DEF ReadWasGood
      <4> QED BY <1>6, <4>2
    <3>4. CacheIsRecent'
        BY <1>2, <1>6, <3>2, <3>3 DEF CacheIsRecent
    <3> QED BY <1>2, <1>8, <3>2, <3>4 DEF AccessInv, AccessTypeOK
  <2> QED BY <1>2, <2>1, <2>2
<1> QED BY <1>8, <1>9 DEF AccessInv

\* The database fails: the cache decides for a read.
LEMMA DatabaseFailsInv ==
    ASSUME AccessInv, NEW r \in Slots, NEW p \in Projects, NEW kind,
           DatabaseFails(r, p, kind)
    PROVE  AccessInv'
<1> DEFINE status == IF kind = "read" /\ CacheGood(p) THEN "remembered" ELSE "refused"
<1>1. PICK new : new = [phase |-> "done", status |-> status,
                        stale |-> IF status = "refused" THEN 0 ELSE since[p]]
    OBVIOUS
<1>2. /\ requests' = [requests EXCEPT ![r] = new]
      /\ key' = key /\ since' = since /\ cache' = cache
    BY <1>1 DEF DatabaseFails, Decided
<1>3. new.phase = "done" /\ new.status # "let in"
      /\ (new.status = "remembered" => CacheGood(p) /\ new.stale = since[p])
    BY <1>1
<1>4. CacheGood(p) => since[p] <= CacheTicks + MaxLag
  <2>1. CacheGood(p) => since[p] + cache.left <= CacheTicks + MaxLag /\ cache.left > 0
      BY DEF CacheGood, AccessInv, CacheIsRecent
  <2>2. since[p] \in Nat /\ cache.left \in Nat /\ CacheTicks + MaxLag \in Nat
      BY AccessAssumption DEF AccessInv, AccessTypeOK
  <2> QED BY <2>1, <2>2
<1>5. /\ requests' = [s \in Slots |-> requests'[s]]
      /\ ReadsAreRecent' /\ AccessIsRecent' /\ GoodIsNow'
    BY <1>2, <1>3, <1>4, OneRequestMoves
<1>6. AccessTypeOK' /\ CacheIsRecent'
    BY <1>2, <1>5 DEF AccessInv, AccessTypeOK, CacheIsRecent
<1> QED BY <1>5, <1>6 DEF AccessInv

\* The key only gets worse.
LEMMA KeyChangesInv == AccessInv /\ KeyChanges => AccessInv'
<1> SUFFICES ASSUME AccessInv, KeyChanges PROVE AccessInv'
    OBVIOUS
<1>1. cache' = cache /\ requests' = requests /\ since' = since
    BY DEF KeyChanges
<1>2. key' \in Keys /\ \A p \in Projects : Good(key', p) => Good(key, p)
  <2>1. key \in Keys
      BY DEF AccessInv, AccessTypeOK
  <2>2. CASE key' = [key EXCEPT !.revoked = TRUE]
      BY <2>1, <2>2 DEF Keys, Good
  <2>3. ASSUME NEW q \in key.scopes, key' = [key EXCEPT !.scopes = key.scopes \ {q}]
        PROVE  key' \in Keys /\ \A p \in Projects : Good(key', p) => Good(key, p)
      BY <2>1, <2>3 DEF Keys, Good
  <2> QED BY <2>2, <2>3 DEF KeyChanges
<1>3. ReadsAreRecent' /\ CacheIsRecent' /\ AccessIsRecent'
    BY <1>1 DEF AccessInv, ReadsAreRecent, ReadWasGood, CacheIsRecent, AccessIsRecent
<1>4. AccessTypeOK' /\ GoodIsNow'
    BY <1>1, <1>2 DEF AccessInv, AccessTypeOK, GoodIsNow
<1> QED BY <1>3, <1>4 DEF AccessInv

\* Time passes for the history, for the entry and for the transactions alike.
LEMMA AccessTickInv == AccessInv /\ AccessTick => AccessInv'
<1> SUFFICES ASSUME AccessInv, AccessTick PROVE AccessInv'
    OBVIOUS
<1>1. /\ key' = key
      /\ cache' = [cache EXCEPT !.left = IF @ > 0 THEN @ - 1 ELSE 0]
      /\ requests' = [r \in Slots |-> IF requests[r].phase = "read"
                                      THEN [requests[r] EXCEPT !.lag = @ + 1] ELSE requests[r]]
      /\ since' = [p \in Projects |-> IF Good(key, p) THEN 0
                                      ELSE IF since[p] > CacheTicks + MaxLag THEN since[p]
                                      ELSE since[p] + 1]
      /\ \A r \in Slots : requests[r].phase = "read" => requests[r].lag < MaxLag
    BY DEF AccessTick
<1>2. /\ CacheTicks \in Nat /\ MaxLag \in Nat /\ key \in Keys
      /\ cache \in [left : 0 .. CacheTicks, scopes : SUBSET Projects]
      /\ \A p \in Projects : since[p] \in Nat
    BY AccessAssumption DEF AccessInv, AccessTypeOK
<1>3. /\ since' \in [Projects -> Nat]
      /\ \A p \in Projects : since'[p] <= since[p] + 1
      /\ \A p \in Projects : Good(key', p) => since'[p] = 0
    BY <1>1, <1>2
<1>4. AccessTypeOK' /\ GoodIsNow'
    BY <1>1, <1>2, <1>3 DEF AccessTypeOK, GoodIsNow
<1>5. ReadsAreRecent'
  <2> SUFFICES ASSUME NEW r \in Slots, requests'[r].phase = "read"
               PROVE  ReadWasGood(requests[r])'
      BY DEF ReadsAreRecent
  <2>1. PICK old : old = requests[r]
      OBVIOUS
  <2>2. old.phase = "read" /\ requests'[r] = [old EXCEPT !.lag = @ + 1]
      BY <1>1, <2>1
  <2>3. ReadWasGood(old) /\ old.lag < MaxLag
      BY <1>1, <2>1, <2>2 DEF AccessInv, ReadsAreRecent
  <2>4. /\ requests'[r].row = old.row /\ requests'[r].project = old.project
        /\ requests'[r].lag = old.lag + 1
      BY <1>4, <2>2, <2>3 DEF ReadWasGood
  <2>5. \A p \in Projects : Good(old.row, p) => since'[p] <= old.lag + 1
      BY <1>2, <1>3, <2>3 DEF ReadWasGood
  <2> QED BY <1>2, <2>3, <2>4, <2>5 DEF ReadWasGood, Good
<1>6. CacheIsRecent'
  <2>1. cache'.scopes = cache.scopes
        /\ cache'.left = IF cache.left > 0 THEN cache.left - 1 ELSE 0
      BY <1>1, <1>2
  <2> SUFFICES ASSUME cache'.left > 0, NEW p \in cache.scopes
               PROVE  since'[p] + cache'.left <= CacheTicks + MaxLag
      BY <1>1, <2>1 DEF CacheIsRecent
  <2>2. cache.left \in Nat /\ cache.left > 0 /\ p \in Projects
      BY <1>2, <2>1
  <2>3. since[p] + cache.left <= CacheTicks + MaxLag
      BY <2>2 DEF AccessInv, CacheIsRecent
  <2>4. since'[p] \in Nat /\ since[p] \in Nat /\ since'[p] <= since[p] + 1
      BY <1>2, <1>3, <2>2
  <2> QED BY <1>2, <2>1, <2>2, <2>3, <2>4
<1>7. AccessIsRecent'
  <2> SUFFICES ASSUME NEW r \in Slots, requests'[r].phase = "done"
               PROVE  /\ requests'[r].status = "let in" => requests'[r].stale <= MaxLag
                      /\ requests'[r].status = "remembered" =>
                            requests'[r].stale <= CacheTicks + MaxLag
      BY DEF AccessIsRecent
  <2>1. requests'[r] = requests[r]
    <3>1. CASE requests[r].phase = "read"
      <4>1. requests'[r] = [requests[r] EXCEPT !.lag = @ + 1]
          BY <1>1, <3>1
      <4>2. requests'[r].phase = "read"
          BY <3>1, <4>1
      <4> QED BY <4>2
    <3>2. CASE requests[r].phase # "read"
        BY <1>1, <3>2
    <3> QED BY <3>1, <3>2
  <2> QED BY <2>1 DEF AccessInv, AccessIsRecent
<1> QED BY <1>4, <1>5, <1>6, <1>7 DEF AccessInv

\* For any projects, requests, life of the cache and length of transactions, whoever is
\* let in held a good key not longer ago than those allow.
THEOREM AccessIsAlwaysRecent == AccessSpec => []AccessIsRecent
<1>1. AccessInv /\ [AccessNext]_kvars => AccessInv'
  <2> SUFFICES ASSUME AccessInv, [AccessNext]_kvars PROVE AccessInv'
      OBVIOUS
  <2>1. ASSUME NEW r \in Slots, Authenticate(r) PROVE AccessInv'
      BY <2>1, AuthenticateInv
  <2>2. ASSUME NEW r \in Slots, NEW p \in Projects, NEW kind \in {"read", "write", "administer"},
               ReadKeys(r, p, kind) \/ DatabaseFails(r, p, kind)
        PROVE  AccessInv'
      BY <2>2, ReadKeysInv, DatabaseFailsInv
  <2>3. CASE UNCHANGED <<key, cache, requests, since>>
      BY <2>3 DEF AccessInv, AccessTypeOK, GoodIsNow, ReadsAreRecent, ReadWasGood,
                  CacheIsRecent, AccessIsRecent
  <2>4. CASE DatabaseGoesUpOrDown \/ UNCHANGED kvars
      BY <2>3, <2>4 DEF DatabaseGoesUpOrDown, kvars
  <2> QED BY <2>1, <2>2, <2>4, KeyChangesInv, AccessTickInv DEF AccessNext
<1>2. AccessInv => AccessIsRecent
    BY DEF AccessInv
<1> QED BY <1>1, <1>2, AccessInvInit, PTL DEF AccessSpec

----------------------------------------------------------------------------
(* A conversation with the assistant.                                         *)

Nodes == {"receive", "capability", "plan_evidence", "collect_evidence", "gather", "explain"}

\* A request in the graph has what Ask gave it.
IsRequest(r) ==
    r = [node |-> r.node, question |-> r.question, employee |-> r.employee,
         previous |-> r.previous, intent |-> r.intent, attempt |-> r.attempt,
         plan |-> r.plan, ambiguous |-> r.ambiguous, evidence |-> r.evidence,
         seen |-> r.seen, ranking |-> r.ranking, gathered |-> r.gathered, calls |-> r.calls]

\* Which nodes a wiring leads through, and what has been called before them.
OnItsWay(r) ==
    /\ r.node \in {"receive", "plan_evidence", "collect_evidence", "gather"} => r.calls = 0
    /\ r.node \in {"plan_evidence", "collect_evidence"} => wiring.project
    /\ r.node = "gather" => ~wiring.project
    /\ r.node = "explain" =>
          /\ r.calls \in Nat /\ r.calls <= wiring.limit
          /\ ~wiring.project /\ r.intent \in WritePreparation =>
                wiring.specialists # "unavailable" /\ r.gathered = {"missing"}

\* The plan and the evidence are those of the question and of the context it brought.
Planned(r) ==
    \E planned : r.plan = normalize_evidence_plan(r.question, planned, r.previous)

FollowsThePlan(r) ==
    /\ r.node # "explain" => r.evidence = NoRequest
    /\ r.node = "collect_evidence" => Planned(r)
    /\ r.evidence # NoRequest =>
          /\ Planned(r)
          /\ r.evidence = build_answer_evidence(r.question, r.seen, r.plan, r.previous)

InGraph(r) == r.node \in Nodes /\ IsRequest(r) /\ OnItsWay(r) /\ FollowsThePlan(r)
              /\ r.previous = context

\* What the caller's context says of the tasks the last answer had to name.
ContextOK == IF context.given THEN named # {} => context.issues = named ELSE named = {}

\* The inductive invariant.
WorkflowInv ==
    /\ wiring \in Wirings
    /\ request.node \in {"idle", "end"} \/ InGraph(request)
    /\ ContextOK

\* An active request.
LEMMA ActiveRequest ==
    ASSUME WorkflowInv, request.node \notin {"idle", "end"}
    PROVE  InGraph(request)
    BY DEF WorkflowInv

\* A request that goes to another node.
LEMMA RequestGoesOn ==
    ASSUME WorkflowInv, NEW r, InGraph(r), request' = r, UnchangedElse
    PROVE  WorkflowInv'
<1>1. InGraph(request)'
    BY DEF InGraph, IsRequest, OnItsWay, FollowsThePlan, Planned, UnchangedElse
<1> QED BY <1>1 DEF WorkflowInv, ContextOK, UnchangedElse

\* A request that ends in an error.
LEMMA RequestEnds ==
    ASSUME WorkflowInv, NEW status, End(status), UnchangedElse
    PROVE  WorkflowInv'
    BY DEF WorkflowInv, ContextOK, UnchangedElse, End

\* Ask.
LEMMA AskInv ==
    ASSUME WorkflowInv, NEW question, NEW employee, Ask(question, employee)
    PROVE  WorkflowInv'
<1>1. PICK r : r = [node |-> "receive", question |-> question, employee |-> employee,
                    previous |-> context, intent |-> "none", attempt |-> 0,
                    plan |-> NoRequest, ambiguous |-> {}, evidence |-> NoRequest,
                    seen |-> NoRequest, ranking |-> NoRequest, gathered |-> {}, calls |-> 0]
    OBVIOUS
<1>2. InGraph(r)
    BY <1>1 DEF InGraph, IsRequest, OnItsWay, FollowsThePlan, Nodes
<1>3. request' = r /\ UnchangedElse
    BY <1>1 DEF Ask
<1> QED BY <1>2, <1>3, RequestGoesOn

\* Classify.
LEMMA ClassifyInv == WorkflowInv /\ Classify => WorkflowInv'
<1> SUFFICES ASSUME WorkflowInv, Classify PROVE WorkflowInv'
    OBVIOUS
<1>1. request.node = "receive" /\ InGraph(request) /\ UnchangedElse
    BY ActiveRequest DEF Classify, At
<1>2. PICK i, n : /\ request' = [[request EXCEPT !.intent = i] EXCEPT !.node = n]
                  /\ n = IF wiring.project THEN "plan_evidence"
                         ELSE IF i = "unsupported" THEN "capability" ELSE "gather"
    BY DEF Classify, Continue
<1>3. PICK r : r = [[request EXCEPT !.intent = i] EXCEPT !.node = n]
    OBVIOUS
<1>4. /\ IsRequest(r) /\ r.node = n /\ r.calls = request.calls
      /\ r.evidence = request.evidence /\ r.previous = request.previous
    BY <1>1, <1>3 DEF InGraph, IsRequest
<1>5. InGraph(r)
    BY <1>1, <1>2, <1>4 DEF InGraph, OnItsWay, FollowsThePlan, Nodes
<1> QED BY <1>1, <1>2, <1>3, <1>5, RequestGoesOn

\* A plan, from the model or not.
LEMMA PlanReplyInv ==
    ASSUME WorkflowInv, NEW reply, PlanReply(reply)
    PROVE  WorkflowInv'
<1>1. request.node = "plan_evidence" /\ InGraph(request) /\ UnchangedElse
    BY ActiveRequest DEF PlanReply, At
<1>2. PICK planned, a :
         request' = [[request EXCEPT
                        !.plan = normalize_evidence_plan(request.question, planned,
                                                         request.previous),
                        !.ambiguous = a] EXCEPT !.node = "collect_evidence"]
    BY DEF PlanReply, Continue
<1>3. PICK p : p = normalize_evidence_plan(request.question, planned, request.previous)
    OBVIOUS
<1>4. PICK r : r = [[request EXCEPT !.plan = p, !.ambiguous = a]
                       EXCEPT !.node = "collect_evidence"]
    OBVIOUS
<1>5. /\ IsRequest(r) /\ r.node = "collect_evidence" /\ r.calls = request.calls
      /\ r.evidence = request.evidence /\ r.previous = request.previous
      /\ r.question = request.question /\ r.plan = p
    BY <1>1, <1>4 DEF InGraph, IsRequest
<1>6. Planned(r)
    BY <1>3, <1>5 DEF Planned
<1>7. InGraph(r)
    BY <1>1, <1>5, <1>6 DEF InGraph, OnItsWay, FollowsThePlan, Nodes
<1> QED BY <1>1, <1>2, <1>3, <1>4, <1>7, RequestGoesOn

\* The model does not answer in time.
LEMMA PlanTimesOutInv == WorkflowInv /\ PlanTimesOut => WorkflowInv'
<1> SUFFICES ASSUME WorkflowInv, PlanTimesOut PROVE WorkflowInv'
    OBVIOUS
<1>1. request.node = "plan_evidence" /\ InGraph(request) /\ UnchangedElse
    BY ActiveRequest DEF PlanTimesOut, At
<1>2. CASE End(503)
    BY <1>1, <1>2, RequestEnds
<1>3. CASE Continue("plan_evidence", [request EXCEPT !.attempt = NextPlanAttempt(@)])
  <2>1. PICK r : r = [[request EXCEPT !.attempt = NextPlanAttempt(request.attempt)]
                         EXCEPT !.node = "plan_evidence"]
      OBVIOUS
  <2>2. /\ IsRequest(r) /\ r.node = "plan_evidence" /\ r.calls = request.calls
        /\ r.evidence = request.evidence /\ r.previous = request.previous
      BY <1>1, <2>1 DEF InGraph, IsRequest
  <2>3. InGraph(r)
      BY <1>1, <2>2 DEF InGraph, OnItsWay, FollowsThePlan, Nodes
  <2> QED BY <1>1, <1>3, <2>1, <2>3, RequestGoesOn DEF Continue
<1> QED BY <1>2, <1>3 DEF PlanTimesOut

\* The project is read.
LEMMA CollectInv ==
    ASSUME WorkflowInv, NEW historyRead, CollectEvidence(historyRead)
    PROVE  WorkflowInv'
<1>1. request.node = "collect_evidence" /\ InGraph(request) /\ UnchangedElse
    BY ActiveRequest DEF CollectEvidence, At
<1>2. PICK e : e = build_answer_evidence(request.question, snapshot, request.plan,
                                         request.previous)
    OBVIOUS
<1>3. PICK k, g :
         request' = [[request EXCEPT !.evidence = e, !.seen = snapshot, !.ranking = k,
                                     !.gathered = g, !.calls = @ + 1]
                        EXCEPT !.node = "explain"]
    BY <1>2 DEF CollectEvidence, Continue
<1>4. PICK r : r = [[request EXCEPT !.evidence = e, !.seen = snapshot, !.ranking = k,
                                    !.gathered = g, !.calls = @ + 1]
                       EXCEPT !.node = "explain"]
    OBVIOUS
<1>5. /\ IsRequest(r) /\ r.node = "explain" /\ r.calls = request.calls + 1
      /\ r.evidence = e /\ r.seen = snapshot /\ r.previous = request.previous
      /\ r.question = request.question /\ r.plan = request.plan
    BY <1>1, <1>4 DEF InGraph, IsRequest
<1>6. r.calls \in Nat /\ r.calls <= wiring.limit /\ wiring.project
    BY <1>1, <1>5, WorkflowAssumption DEF WorkflowInv, InGraph, OnItsWay
<1>7. FollowsThePlan(r)
    BY <1>1, <1>2, <1>5 DEF InGraph, FollowsThePlan, Planned
<1>8. InGraph(r)
    BY <1>1, <1>5, <1>6, <1>7 DEF InGraph, OnItsWay, Nodes
<1> QED BY <1>1, <1>3, <1>4, <1>8, RequestGoesOn

\* What gathering without the project tool hands to the explanation.
LEMMA GatheredInv ==
    ASSUME WorkflowInv, At("gather"), NEW g, NEW n \in Nat, n <= wiring.limit,
           request.intent \in WritePreparation =>
               wiring.specialists # "unavailable" /\ g = {"missing"},
           Continue("explain", [request EXCEPT !.gathered = g, !.calls = @ + n]),
           UnchangedElse
    PROVE  WorkflowInv'
<1>1. request.node = "gather" /\ InGraph(request)
    BY ActiveRequest DEF At
<1>2. PICK r : r = [[request EXCEPT !.gathered = g, !.calls = @ + n]
                       EXCEPT !.node = "explain"]
    OBVIOUS
<1>3. /\ IsRequest(r) /\ r.node = "explain" /\ r.calls = request.calls + n
      /\ r.evidence = request.evidence /\ r.previous = request.previous
      /\ r.intent = request.intent /\ r.gathered = g
    BY <1>1, <1>2 DEF InGraph, IsRequest
<1>4. r.calls = n
    BY <1>1, <1>3 DEF InGraph, OnItsWay
<1>5. FollowsThePlan(r)
    BY <1>1, <1>3 DEF InGraph, FollowsThePlan
<1>6. InGraph(r)
    BY <1>1, <1>3, <1>4, <1>5 DEF InGraph, OnItsWay, Nodes
<1> QED BY <1>2, <1>6, RequestGoesOn DEF Continue

\* Gathering without the project tool.
LEMMA GatherInv ==
    ASSUME WorkflowInv, GatherWithoutTool \/ GatherHistory \/ Investigate
    PROVE  WorkflowInv'
<1>1. /\ At("gather") /\ UnchangedElse
      /\ wiring.limit \in Nat /\ wiring.limit >= 1
    BY WorkflowAssumption DEF WorkflowInv, GatherWithoutTool, GatherHistory, Investigate
<1>2. CASE GatherWithoutTool
  <2>1. request.intent \notin WritePreparation
      BY <1>2 DEF GatherWithoutTool, WritePreparation
  <2>2. PICK n \in {0, 1} :
           Continue("explain", [request EXCEPT !.gathered = {"missing"}, !.calls = @ + n])
      BY <1>2 DEF GatherWithoutTool, Missing
  <2>3. n \in Nat /\ n <= wiring.limit
      BY <1>1
  <2> QED BY <1>1, <2>1, <2>2, <2>3, GatheredInv
<1>3. CASE GatherHistory
  <2>1. request.intent \notin WritePreparation
      BY <1>3 DEF GatherHistory, WritePreparation
  <2>2. Continue("explain", [request EXCEPT !.gathered = {"risk", "dossier"}, !.calls = @ + 1])
      BY <1>3 DEF GatherHistory
  <2> QED BY <1>1, <2>1, <2>2, GatheredInv
<1>4. CASE Investigate
  <2>1. CASE SpecialistRefuses
      BY <1>1, <1>4, <2>1, RequestEnds DEF Investigate
  <2>2. CASE ~SpecialistRefuses
    <3>1. request.intent \in WritePreparation =>
             wiring.specialists # "unavailable" /\ ~CoreToolScores
        BY <2>2 DEF SpecialistRefuses, CoreToolScores, WritePreparation
    <3>2. CASE Missing(1)
        BY <1>1, <3>1, <3>2, GatheredInv DEF Missing
    <3>3. CASE /\ CoreToolScores
               /\ Continue("explain", [request EXCEPT !.gathered = {"risk"}, !.calls = @ + 1])
        BY <1>1, <3>1, <3>3, GatheredInv
    <3>4. CASE /\ CoreToolScores /\ DossierAllowed
               /\ Continue("explain", [request EXCEPT !.gathered = {"risk", "dossier"},
                                                      !.calls = @ + 2])
      <4>1. request.calls = 0
          BY <1>1, ActiveRequest DEF At, InGraph, OnItsWay
      <4>2. 2 <= wiring.limit
          BY <1>1, <3>4, <4>1 DEF DossierAllowed
      <4> QED BY <1>1, <3>1, <3>4, <4>2, GatheredInv
    <3>5. CASE End(500)
        BY <1>1, <3>5, RequestEnds
    <3> QED BY <1>4, <2>2, <3>2, <3>3, <3>4, <3>5 DEF Investigate
  <2> QED BY <2>1, <2>2
<1> QED BY <1>2, <1>3, <1>4

\* The answer, which hands the caller its context.
LEMMA ExplainInv == WorkflowInv /\ Explain => WorkflowInv'
<1> SUFFICES ASSUME WorkflowInv, Explain PROVE WorkflowInv'
    OBVIOUS
<1>1. request'.node = "end" /\ wiring' = wiring
    BY DEF Explain, End
<1>2. CASE UNCHANGED <<context, named>>
    BY <1>1, <1>2 DEF WorkflowInv, ContextOK
<1>3. CASE /\ context' = answer_context_from_evidence(request.evidence)
           /\ named' = request.evidence.required
  <2>1. ContextOK'
      BY <1>3 DEF answer_context_from_evidence, ContextOK
  <2> QED BY <1>1, <2>1 DEF WorkflowInv
<1> QED BY <1>2, <1>3 DEF Explain

\* Every step of the conversation and of the project.
LEMMA WorkflowInvNext == WorkflowInv /\ [WorkflowNext]_wvars => WorkflowInv'
<1> SUFFICES ASSUME WorkflowInv, [WorkflowNext]_wvars PROVE WorkflowInv'
    OBVIOUS
<1>1. ASSUME NEW question, NEW employee, Ask(question, employee) PROVE WorkflowInv'
    BY <1>1, AskInv
<1>2. CASE Step
  <2>1. CASE Capability \/ ExplainFails \/ DeadlinePasses
      BY <2>1, RequestEnds DEF Capability, ExplainFails, DeadlinePasses
  <2>2. ASSUME NEW status \in {500, 503}, ReadFails(status) PROVE WorkflowInv'
      BY <2>2, RequestEnds DEF ReadFails
  <2> QED BY <1>2, <2>1, <2>2, ClassifyInv, PlanReplyInv, PlanTimesOutInv, CollectInv,
             GatherInv, ExplainInv DEF Step, BoundedStep
<1>3. CASE ProjectChanges \/ UNCHANGED wvars
    BY <1>3 DEF ProjectChanges, wvars, WorkflowInv, ContextOK, InGraph, IsRequest, OnItsWay,
                FollowsThePlan, Planned
<1>4. CASE ForgetContext
    BY <1>4 DEF ForgetContext, NoContext, NoRequest, WorkflowInv, ContextOK
<1> QED BY <1>1, <1>2, <1>3, <1>4 DEF WorkflowNext

\* Nothing has been asked.
LEMMA WorkflowInvInit == WorkflowInit => WorkflowInv
    BY DEF WorkflowInit, WorkflowInv, ContextOK, NoContext, NoRequest

\* For any wiring, questions, plans and states of the project: the branches of the graph
\* share one limit of tool calls, and none prepares a write without its specialist.
THEOREM LimitsAreAlwaysKept == WorkflowSpec => []LimitsAreKept
<1>1. WorkflowInv => LimitsAreKept
    BY DEF WorkflowInv, InGraph, OnItsWay, LimitsAreKept, ToolCallsWithinLimit,
           WritePreparationNeedsSpecialist, At
<1> QED BY <1>1, WorkflowInvInit, WorkflowInvNext, PTL DEF WorkflowSpec

\* The plan for a follow-up has the tasks the question refers to.
LEMMA PlanHasPriorTasks ==
    ASSUME NEW question, NEW planned, NEW previous, RefersToPrior(question, previous)
    PROVE  previous.issues \subseteq normalize_evidence_plan(question, planned, previous).tasks
    BY DEF normalize_evidence_plan

\* With tasks in the plan, those of them that exist are what the answer must name.
LEMMA PlannedTasksAreRequired ==
    ASSUME NEW question, NEW snap, NEW plan, NEW previous,
           plan.tasks \cap DOMAIN snap.tasks # {}
    PROVE  build_answer_evidence(question, snap, plan, previous).required
              = plan.tasks \cap DOMAIN snap.tasks
<1>1. plan.tasks # {}
    OBVIOUS
<1>2. PICK asked : asked = TasksAsked(question, snap.tasks, plan, plan.tasks)
    OBVIOUS
<1>3. /\ asked.selected = plan.tasks \cap DOMAIN snap.tasks
      /\ asked.required = plan.tasks \cap DOMAIN snap.tasks
    BY <1>1, <1>2 DEF TasksAsked, Both
<1> DEFINE hinted == IF plan.exhaustive /\ HasPhrase(question, {"which employees"})
                     THEN {} ELSE plan.employees
           people == select_employees(question.names, hinted,
                                      plan.scope \in {"employee", "mixed"})
           evidence == build_answer_evidence(question, snap, plan, previous)
<1>4. evidence.required = asked.required
    BY <1>1, <1>2, <1>3 DEF build_answer_evidence
<1> QED BY <1>3, <1>4

\* Without, they are those asked for, of the employees the answer is about.
LEMMA AskedTasksAreRequired ==
    ASSUME NEW question, NEW snap, NEW plan, NEW previous,
           plan.tasks = {}, ~(previous.given /\ HasPhrase(question, PriorTasks)),
           NEW asked, asked = TasksAsked(question, snap.tasks, plan, {}),
           asked.required \subseteq asked.selected, asked.required # {},
           asked.selected \subseteq DOMAIN snap.tasks
    PROVE  LET evidence == build_answer_evidence(question, snap, plan, previous)
           IN  /\ evidence.required \subseteq asked.required
               /\ \A k \in asked.required :
                     snap.tasks[k].assignee \in evidence.employees => k \in evidence.required
<1> DEFINE hinted == IF plan.exhaustive /\ HasPhrase(question, {"which employees"})
                     THEN {} ELSE plan.employees
           people == select_employees(question.names, hinted,
                                      plan.scope \in {"employee", "mixed"})
           theirs == AssignedTo(snap.tasks, people)
           narrowed == [selected |-> asked.selected \cap theirs,
                        required |-> asked.required \cap theirs]
           chosen == IF people # {} /\ plan.scope = "task" THEN narrowed ELSE asked
           evidence == build_answer_evidence(question, snap, plan, previous)
<1>1. asked.selected # {}
    OBVIOUS
<1> HIDE DEF people
<1>2. /\ evidence.required = chosen.required
      /\ people # {} => evidence.employees = people
    BY <1>1 DEF build_answer_evidence, people
<1> HIDE DEF evidence
<1>3. CASE people # {} /\ plan.scope = "task"
  <2>1. evidence.required = asked.required \cap theirs /\ evidence.employees = people
      BY <1>2, <1>3
  <2> QED BY <2>1 DEF AssignedTo, evidence
<1>4. CASE ~(people # {} /\ plan.scope = "task")
    BY <1>2, <1>4 DEF evidence
<1> QED BY <1>3, <1>4

\* What the evidence of a request says.
LEMMA EvidenceOfRequest ==
    ASSUME WorkflowInv, Collected
    PROVE  /\ Planned(request) /\ request.previous = context
           /\ request.evidence = build_answer_evidence(request.question, request.seen,
                                                      request.plan, request.previous)
    BY DEF WorkflowInv, Collected, At, InGraph, FollowsThePlan

\* A follow-up names what it refers to.
LEMMA FollowUps == WorkflowInv => FollowUpKeepsItsTasks
<1> SUFFICES ASSUME WorkflowInv, Collected, AsksForPrior,
                    named \cap DOMAIN request.seen.tasks # {}
             PROVE  /\ named \cap DOMAIN request.seen.tasks \subseteq request.evidence.required
                    /\ request.plan.tasks \subseteq
                             request.previous.issues \cup request.question.keys =>
                          request.evidence.required \subseteq named \cup request.question.keys
    BY DEF FollowUpKeepsItsTasks
<1>1. /\ Planned(request) /\ request.previous = context
      /\ request.evidence = build_answer_evidence(request.question, request.seen,
                                                 request.plan, request.previous)
    BY EvidenceOfRequest
<1>2. request.previous.issues = named /\ RefersToPrior(request.question, request.previous)
    BY <1>1 DEF WorkflowInv, ContextOK, AsksForPrior, RefersToPrior
<1>3. named \subseteq request.plan.tasks
    BY <1>1, <1>2, PlanHasPriorTasks DEF Planned
<1>4. request.evidence.required = request.plan.tasks \cap DOMAIN request.seen.tasks
    BY <1>1, <1>3, PlannedTasksAreRequired
<1> QED BY <1>2, <1>3, <1>4

\* The tasks asked for are those asked about.
LEMMA RequiredTasks == WorkflowInv => RequiredTasksWereAsked
<1> SUFFICES ASSUME WorkflowInv, Collected, request.plan.tasks = {}, ~AsksForPrior,
                    AsksOneKind(request.question),
                    NEW some \in DOMAIN request.seen.tasks,
                    Asked(request.seen.tasks[some], request.question),
                    NEW k \in DOMAIN request.seen.tasks
             PROVE  /\ k \in request.evidence.required =>
                          Asked(request.seen.tasks[k], request.question)
                    /\ /\ Asked(request.seen.tasks[k], request.question)
                       /\ request.seen.tasks[k].assignee \in request.evidence.employees
                       => k \in request.evidence.required
    BY DEF RequiredTasksWereAsked
<1> DEFINE question == request.question
           tasks == request.seen.tasks
<1>1. PICK asked : asked = TasksAsked(question, tasks, request.plan, {})
    OBVIOUS
<1>2. /\ asked.required = {j \in DOMAIN tasks : Asked(tasks[j], question)}
      /\ asked.required \subseteq asked.selected /\ asked.selected \subseteq DOMAIN tasks
  <2>1. CASE HasPhrase(question, {"blocked"})
    <3>1. ~HasPhrase(question, {"overdue"})
        BY <2>1 DEF AsksOneKind
    <3>2. asked = Both({j \in DOMAIN tasks : tasks[j].blocked})
        BY <1>1, <2>1 DEF TasksAsked
    <3>3. \A j \in DOMAIN tasks : Asked(tasks[j], question) <=> tasks[j].blocked
        BY <2>1, <3>1 DEF Asked
    <3> QED BY <3>2, <3>3 DEF Both
  <2>2. CASE ~HasPhrase(question, {"blocked"})
    <3>1. /\ HasPhrase(question, {"overdue"}) /\ ~HasPhrase(question, {"missing estimate"})
          /\ ~HasPhrase(question, {"most likely"})
        BY <2>2 DEF AsksOneKind, HasPhrase
    <3>2. HasPhrase(question, {"deadline", "overdue", "due soon"})
        BY <3>1 DEF HasPhrase
    <3>3. asked = [selected |-> OpenDated(tasks),
                   required |-> {j \in OpenDated(tasks) : tasks[j].due = "overdue"}]
        BY <1>1, <2>2, <3>1, <3>2 DEF TasksAsked
    <3>4. \A j \in DOMAIN tasks :
             Asked(tasks[j], question) <=> j \in OpenDated(tasks) /\ tasks[j].due = "overdue"
        BY <2>2, <3>1 DEF Asked, OpenDated
    <3>5. OpenDated(tasks) \subseteq DOMAIN tasks
        BY DEF OpenDated
    <3> QED BY <3>3, <3>4, <3>5
  <2> QED BY <2>1, <2>2
<1>3. request.evidence = build_answer_evidence(question, request.seen, request.plan,
                                               request.previous)
    BY EvidenceOfRequest
<1>4. ~(request.previous.given /\ HasPhrase(question, PriorTasks))
    BY DEF AsksForPrior
<1>5. /\ request.evidence.required \subseteq asked.required
      /\ \A j \in asked.required :
            tasks[j].assignee \in request.evidence.employees => j \in request.evidence.required
    BY <1>1, <1>2, <1>3, <1>4, AskedTasksAreRequired
<1> QED BY <1>2, <1>5

\* The keys of the candidates, each a tuple of four integers.
Key(a) == a \in [1 .. 4 -> Int]

LEMMA KeysCompare ==
    ASSUME NEW a, NEW b, Key(a), Key(b)
    PROVE  LexLess(a, b) <=>
              \/ a[1] < b[1]
              \/ a[1] = b[1] /\ a[2] < b[2]
              \/ a[1] = b[1] /\ a[2] = b[2] /\ a[3] < b[3]
              \/ a[1] = b[1] /\ a[2] = b[2] /\ a[3] = b[3] /\ a[4] < b[4]
<1> DEFINE Decides(i) == a[i] < b[i] /\ \A j \in 1 .. i - 1 : a[j] = b[j]
<1>1. LexLess(a, b) <=> \E i \in 1 .. 4 : Decides(i)
    BY DEF LexLess, Key
<1>2. Decides(1) <=> a[1] < b[1]
    OBVIOUS
<1>3. Decides(2) <=> a[1] = b[1] /\ a[2] < b[2]
    OBVIOUS
<1>4. Decides(3) <=> a[1] = b[1] /\ a[2] = b[2] /\ a[3] < b[3]
    OBVIOUS
<1>5. Decides(4) <=> a[1] = b[1] /\ a[2] = b[2] /\ a[3] = b[3] /\ a[4] < b[4]
    OBVIOUS
<1> HIDE DEF Decides
<1>6. (\E i \in 1 .. 4 : Decides(i)) <=> Decides(1) \/ Decides(2) \/ Decides(3) \/ Decides(4)
    BY SMT
<1> QED BY <1>1, <1>2, <1>3, <1>4, <1>5, <1>6

\* Keys are ordered strictly, and different ones one way or the other.
LEMMA KeysAreStrict ==
    ASSUME NEW a, Key(a)
    PROVE  ~LexLess(a, a)
<1>1. \A i \in 1 .. 4 : a[i] \in Int
    BY DEF Key
<1> QED BY <1>1, KeysCompare

LEMMA KeysAreTransitive ==
    ASSUME NEW a, NEW b, NEW c, Key(a), Key(b), Key(c), LexLess(a, b), LexLess(b, c)
    PROVE  LexLess(a, c)
<1>1. /\ a[1] \in Int /\ a[2] \in Int /\ a[3] \in Int /\ a[4] \in Int
      /\ b[1] \in Int /\ b[2] \in Int /\ b[3] \in Int /\ b[4] \in Int
      /\ c[1] \in Int /\ c[2] \in Int /\ c[3] \in Int /\ c[4] \in Int
    BY DEF Key
<1> QED BY <1>1, KeysCompare

LEMMA KeysDiffer ==
    ASSUME NEW a, NEW b, Key(a), Key(b), a[4] # b[4]
    PROVE  LexLess(a, b) \/ LexLess(b, a)
<1>1. /\ a[1] \in Int /\ a[2] \in Int /\ a[3] \in Int /\ a[4] \in Int
      /\ b[1] \in Int /\ b[2] \in Int /\ b[3] \in Int /\ b[4] \in Int
    BY DEF Key
<1> QED BY <1>1, KeysCompare

\* A finite set with such keys can be put in order: each element has a place of its own,
\* the number of those before it.
LEMMA SetsAreSorted ==
    ASSUME NEW S, IsFiniteSet(S), NEW keyOf, \A e \in S : Key(keyOf[e]),
           \A e, f \in S : e # f => keyOf[e][4] # keyOf[f][4]
    PROVE  \E order \in [1 .. Cardinality(S) -> S] :
              \A i, j \in 1 .. Cardinality(S) :
                 i < j => LexLess(keyOf[order[i]], keyOf[order[j]])
<1> DEFINE N == Cardinality(S)
           earlier(e) == {f \in S : LexLess(keyOf[f], keyOf[e])}
           place == [e \in S |-> Cardinality(earlier(e)) + 1]
<1>1. N \in Nat
    BY FS_CardinalityType
<1>2. ASSUME NEW e \in S
      PROVE  IsFiniteSet(earlier(e)) /\ Cardinality(earlier(e)) \in Nat
             /\ Cardinality(earlier(e)) < N
  <2>1. earlier(e) \subseteq S /\ e \notin earlier(e)
      BY KeysAreStrict
  <2> HIDE DEF earlier
  <2>2. /\ IsFiniteSet(earlier(e)) /\ Cardinality(earlier(e)) <= N
        /\ (N = Cardinality(earlier(e)) => S = earlier(e))
      BY <2>1, FS_Subset
  <2>3. Cardinality(earlier(e)) \in Nat
      BY <2>2, FS_CardinalityType
  <2> HIDE DEF N
  <2> QED BY <1>1, <2>1, <2>2, <2>3
<1>3. ASSUME NEW e \in S, NEW f \in S, LexLess(keyOf[e], keyOf[f])
      PROVE  place[e] < place[f]
  <2>1. earlier(e) \subseteq earlier(f) /\ e \in earlier(f) /\ e \notin earlier(e)
      BY <1>3, KeysAreStrict, KeysAreTransitive
  <2>2. /\ IsFiniteSet(earlier(f)) /\ Cardinality(earlier(f)) \in Nat
        /\ Cardinality(earlier(e)) \in Nat
      BY <1>2
  <2>3. place[e] = Cardinality(earlier(e)) + 1 /\ place[f] = Cardinality(earlier(f)) + 1
      OBVIOUS
  <2> HIDE DEF earlier, place
  <2>4. /\ Cardinality(earlier(e)) <= Cardinality(earlier(f))
        /\ (Cardinality(earlier(f)) = Cardinality(earlier(e)) => earlier(f) = earlier(e))
      BY <2>1, <2>2, FS_Subset
  <2> QED BY <2>1, <2>2, <2>3, <2>4
<1>4. place \in [S -> 1 .. N]
  <2>1. ASSUME NEW e \in S PROVE Cardinality(earlier(e)) + 1 \in 1 .. N
    <3>1. Cardinality(earlier(e)) \in Nat /\ Cardinality(earlier(e)) < N
        BY <1>2
    <3> HIDE DEF N, earlier
    <3> QED BY <1>1, <3>1
  <2> HIDE DEF N, earlier
  <2> QED BY <2>1
<1>5. ASSUME NEW e \in S, NEW f \in S, place[e] = place[f] PROVE e = f
  <2>1. e # f => LexLess(keyOf[e], keyOf[f]) \/ LexLess(keyOf[f], keyOf[e])
      BY KeysDiffer
  <2>2. place[e] \in Int /\ place[f] \in Int
      BY <1>4
  <2> HIDE DEF place
  <2> QED BY <1>3, <1>5, <2>1, <2>2
<1> HIDE DEF place, earlier
<1>6. place \in Injection(S, 1 .. N)
    BY <1>4, <1>5, Fun_IsInj
<1>7. IsFiniteSet(1 .. N) /\ Cardinality(1 .. N) = N
  <2> HIDE DEF N
  <2> QED BY <1>1, FS_Interval
<1>8. place \in Surjection(S, 1 .. N)
    BY <1>6, <1>7, FS_Injection
<1>9. \A n \in 1 .. N : \E e \in S : place[e] = n
    BY <1>8 DEF Surjection
<1>10. PICK order : order = [n \in 1 .. N |-> CHOOSE e \in S : place[e] = n]
    OBVIOUS
<1>11. order \in [1 .. N -> S] /\ \A n \in 1 .. N : place[order[n]] = n
    BY <1>9, <1>10
<1>12. ASSUME NEW i \in 1 .. N, NEW j \in 1 .. N, i < j
       PROVE  LexLess(keyOf[order[i]], keyOf[order[j]])
  <2>1. order[i] \in S /\ order[j] \in S /\ place[order[i]] = i /\ place[order[j]] = j
      BY <1>11
  <2> HIDE DEF N
  <2>2. order[i] # order[j] /\ ~(j < i)
      BY <1>1, <1>12, <2>1
  <2>3. ~LexLess(keyOf[order[j]], keyOf[order[i]])
      BY <1>3, <2>1, <2>2
  <2> QED BY <2>1, <2>2, <2>3, KeysDiffer
<1> QED BY <1>11, <1>12

\* In such an order whoever can take the work comes first.
LEMMA SortedByKey ==
    ASSUME NEW S, IsFiniteSet(S), NEW keyOf, \A e \in S : Key(keyOf[e]),
           NEW order \in [1 .. Cardinality(S) -> S],
           \A i, j \in 1 .. Cardinality(S) : i < j => LexLess(keyOf[order[i]], keyOf[order[j]]),
           NEW e \in S
    PROVE  order[1] \in S /\ 1 \in 1 .. Cardinality(S) /\ keyOf[order[1]][1] <= keyOf[e][1]
<1> DEFINE N == Cardinality(S)
<1>1. N \in Nat
    BY FS_CardinalityType
<1>2. IsFiniteSet(1 .. N) /\ Cardinality(1 .. N) = N
  <2> HIDE DEF N
  <2> QED BY <1>1, FS_Interval
<1>3. ASSUME NEW i \in 1 .. N, NEW j \in 1 .. N, order[i] = order[j] PROVE i = j
  <2>1. ~LexLess(keyOf[order[i]], keyOf[order[j]]) /\ ~LexLess(keyOf[order[j]], keyOf[order[i]])
      BY <1>3, KeysAreStrict
  <2>2. ~(i < j) /\ ~(j < i)
      BY <2>1
  <2> HIDE DEF N
  <2> QED BY <1>1, <2>2
<1>4. order \in Injection(1 .. N, S)
    BY <1>3, Fun_IsInj
<1>5. order \in Surjection(1 .. N, S)
    BY <1>2, <1>4, FS_Injection
<1>6. PICK k \in 1 .. N : order[k] = e
    BY <1>5 DEF Surjection
<1>7. 1 \in 1 .. N /\ (k = 1 \/ 1 < k)
  <2> HIDE DEF N
  <2> QED BY <1>1
<1>8. keyOf[order[1]][1] \in Int /\ keyOf[e][1] \in Int
    BY <1>7 DEF Key
<1>9. 1 < k => keyOf[order[1]][1] <= keyOf[e][1]
  <2>1. 1 < k => LexLess(keyOf[order[1]], keyOf[e])
      BY <1>6, <1>7
  <2>2. Key(keyOf[order[1]]) /\ Key(keyOf[e])
      BY <1>7
  <2> QED BY <1>8, <2>1, <2>2, KeysCompare
<1> QED BY <1>6, <1>7, <1>8, <1>9

\* A state of the project has what the keys are made of.
StaffOK(snap) ==
    \A e \in Employees : /\ snap.staff[e].capacity \in Int /\ snap.staff[e].workload \in Int
                         /\ IsFiniteSet(snap.staff[e].skills)

\* The keys of a state's employees.
LEMMA SortKeysAreKeys ==
    ASSUME NEW snap, StaffOK(snap), NEW source, NEW e \in Employees
    PROVE  /\ Key(SortKey(snap, source, e))
           /\ SortKey(snap, source, e)[1] = IF Eligible(snap, source, e) THEN 0 ELSE 1
           /\ SortKey(snap, source, e)[4] \in DOMAIN EmployeeOrder
           /\ EmployeeOrder[SortKey(snap, source, e)[4]] = e
<1> DEFINE required == RequiredSkills(snap, source) \cap snap.staff[e].skills
           member == snap.staff[e]
<1>1. PICK first : first = IF Eligible(snap, source, e) THEN 0 ELSE 1
    OBVIOUS
<1>2. IsFiniteSet(required)
    BY FS_Subset DEF StaffOK
<1>3. PICK second : second = -Cardinality(required)
    OBVIOUS
<1>4. second \in Int
    BY <1>2, <1>3, FS_CardinalityType
<1>5. PICK third : third = IF HasCapacity(member) THEN -Headroom(member) ELSE 10000
    OBVIOUS
<1>6. third \in Int
    BY <1>5 DEF StaffOK, Headroom
<1>7. PICK fourth : fourth = CHOOSE i \in DOMAIN EmployeeOrder : EmployeeOrder[i] = e
    OBVIOUS
<1>8. fourth \in DOMAIN EmployeeOrder /\ EmployeeOrder[fourth] = e
    BY <1>7, EvidenceAssumption
<1>9. fourth \in Int /\ first \in Int
    BY <1>1, <1>8, EvidenceAssumption
<1>10. SortKey(snap, source, e) = <<first, second, third, fourth>>
    BY <1>1, <1>3, <1>5, <1>7 DEF SortKey
<1>11. PICK k : k = <<first, second, third, fourth>>
    OBVIOUS
<1> HIDE DEF required, member
<1>12. /\ k[1] = first /\ k[4] = fourth /\ k \in [1 .. 4 -> Int]
    BY <1>4, <1>6, <1>9, <1>11
<1> QED BY <1>1, <1>8, <1>10, <1>11, <1>12 DEF Key

\* The ranking proposes first one who can take the work, if anybody can.
LEMMA RankingIsSound ==
    ASSUME NEW snap, StaffOK(snap), NEW source,
           NEW e \in Employees \ {source}, Eligible(snap, source, e)
    PROVE  LET candidates == rank_reassignment_candidates(snap, source).candidates
           IN  candidates # <<>> /\ Eligible(snap, source, candidates[1])
<1> DEFINE others == Employees \ {source}
           N == Cardinality(others)
           candidates == rank_reassignment_candidates(snap, source).candidates
           Sorted(order) == \A i, j \in DOMAIN order :
                               i < j => ComesBefore(snap, source, order[i], order[j])
<1>1. PICK keyOf : keyOf = [f \in others |-> SortKey(snap, source, f)]
    OBVIOUS
<1>2. /\ \A f \in others : Key(keyOf[f])
      /\ \A f \in others : keyOf[f][1] = IF Eligible(snap, source, f) THEN 0 ELSE 1
      /\ \A f \in others : EmployeeOrder[keyOf[f][4]] = f
    BY <1>1, SortKeysAreKeys
<1>3. \A f, g \in others : f # g => keyOf[f][4] # keyOf[g][4]
    BY <1>2
<1>4. IsFiniteSet(others)
    BY EvidenceAssumption, FS_Subset
<1>5. candidates = CHOOSE order \in [1 .. N -> others] : Sorted(order)
    BY DEF rank_reassignment_candidates
<1> HIDE DEF candidates
<1>6. ASSUME NEW order \in [1 .. N -> others]
      PROVE  Sorted(order) <=> \A i, j \in 1 .. N :
                                  i < j => LexLess(keyOf[order[i]], keyOf[order[j]])
    BY <1>1 DEF ComesBefore
<1> HIDE DEF Sorted
<1>7. \E order \in [1 .. N -> others] :
         \A i, j \in 1 .. N : i < j => LexLess(keyOf[order[i]], keyOf[order[j]])
  <2> HIDE DEF others
  <2> QED BY <1>2, <1>3, <1>4, SetsAreSorted
<1>8. \E order \in [1 .. N -> others] : Sorted(order)
    BY <1>6, <1>7
<1>9. candidates \in [1 .. N -> others] /\ Sorted(candidates)
    BY <1>5, <1>8
<1>10. \A i, j \in 1 .. N : i < j => LexLess(keyOf[candidates[i]], keyOf[candidates[j]])
    BY <1>6, <1>9
<1>11. candidates[1] \in others /\ 1 \in 1 .. N /\ keyOf[candidates[1]][1] <= keyOf[e][1]
  <2> HIDE DEF others
  <2>1. e \in others
      BY DEF others
  <2> QED BY <1>2, <1>4, <1>9, <1>10, <2>1, SortedByKey
<1>12. keyOf[e][1] = 0
    BY <1>2
<1>13. Eligible(snap, source, candidates[1])
    BY <1>2, <1>11, <1>12
<1>14. candidates # <<>>
  <2>1. 1 \in DOMAIN candidates
      BY <1>9, <1>11
  <2>2. DOMAIN <<>> = {}
      OBVIOUS
  <2> QED BY <2>1, <2>2
<1> QED BY <1>13, <1>14 DEF candidates

\* The ranking of a request is that of the project its evidence shows, for the one
\* employee whose work could move.
RankingInv ==
    /\ snapshot \in Snapshots
    /\ Collected => /\ request.seen \in Snapshots
                    /\ request.ranking = {rank_reassignment_candidates(request.seen, e) :
                                             e \in RankingSource}

\* Only collect_evidence brings evidence to the explanation.
LEMMA RankingInvNext ==
    ASSUME WorkflowInv, RankingInv, [WorkflowNext]_wvars
    PROVE  RankingInv'
<1>1. snapshot' \in Snapshots
  <2>1. CASE snapshot' = snapshot
      BY <2>1 DEF RankingInv
  <2>2. CASE ProjectChanges
      BY <2>2 DEF ProjectChanges
  <2> QED BY <2>1, <2>2 DEF WorkflowNext, wvars, UnchangedElse, Ask, ForgetContext, Step, BoundedStep,
             Classify, Capability, PlanReply, PlanTimesOut, CollectEvidence, GatherWithoutTool,
             GatherHistory, Investigate, ReadFails, Explain, ExplainFails, DeadlinePasses
<1> SUFFICES ASSUME Collected'
             PROVE  /\ request'.seen \in Snapshots
                    /\ request'.ranking = {rank_reassignment_candidates(request'.seen, e) :
                                              e \in RankingSource'}
    BY <1>1 DEF RankingInv
<1>2. request'.node = "explain" /\ request'.evidence # NoRequest
    BY DEF Collected, At
<1>3. CASE request' = request
    BY <1>2, <1>3 DEF RankingInv, Collected, At, RankingSource
<1>4. ASSUME NEW historyRead, CollectEvidence(historyRead)
      PROVE  /\ request'.seen \in Snapshots
             /\ request'.ranking = {rank_reassignment_candidates(request'.seen, e) :
                                       e \in RankingSource'}
  <2>1. IsRequest(request)
      BY <1>4, ActiveRequest DEF CollectEvidence, At, InGraph
  <2>2. PICK k : k = {rank_reassignment_candidates(snapshot, e) : e \in RankingSource}
      OBVIOUS
  <2>3. PICK ev, g, c :
           request' = [[request EXCEPT !.evidence = ev, !.seen = snapshot, !.ranking = k,
                                       !.gathered = g, !.calls = c] EXCEPT !.node = "explain"]
      BY <1>4, <2>2 DEF CollectEvidence, Continue
  <2>4. /\ request'.seen = snapshot /\ request'.ranking = k
        /\ request'.employee = request.employee /\ request'.question = request.question
      BY <2>1, <2>3 DEF IsRequest
  <2>5. RankingSource' = RankingSource
      BY <2>4 DEF RankingSource
  <2> QED BY <2>2, <2>4, <2>5 DEF RankingInv
<1>5. CASE GatherWithoutTool \/ GatherHistory \/ Investigate
  <2>1. IsRequest(request) /\ request.evidence = NoRequest
      BY <1>5, ActiveRequest
         DEF GatherWithoutTool, GatherHistory, Investigate, At, InGraph, FollowsThePlan
  <2>2. ~End(500)
      BY <1>2 DEF End
  <2>3. \E g, n : Continue("explain", [request EXCEPT !.gathered = g, !.calls = @ + n])
    <3>1. CASE GatherWithoutTool
        BY <3>1 DEF GatherWithoutTool, Missing
    <3>2. CASE GatherHistory
        BY <3>2 DEF GatherHistory
    <3>3. CASE Investigate
        BY <2>2, <3>3 DEF Investigate, Missing
    <3> QED BY <1>5, <3>1, <3>2, <3>3
  <2>4. PICK g, n : request' = [[request EXCEPT !.gathered = g, !.calls = @ + n]
                                   EXCEPT !.node = "explain"]
      BY <2>3 DEF Continue
  <2>5. request'.evidence = NoRequest
      BY <2>1, <2>4 DEF IsRequest
  <2> QED BY <1>2, <2>5
<1>7. ~Classify
  <2> SUFFICES ASSUME Classify PROVE FALSE
      OBVIOUS
  <2>1. IsRequest(request)
      BY ActiveRequest DEF Classify, At, InGraph
  <2>2. PICK n, i : /\ request' = [[request EXCEPT !.intent = i] EXCEPT !.node = n]
                    /\ n \in {"plan_evidence", "capability", "gather"}
      BY DEF Classify, Continue
  <2>3. request'.node = n
      BY <2>1, <2>2 DEF IsRequest
  <2> QED BY <1>2, <2>2, <2>3
<1>8. ASSUME NEW reply, PlanReply(reply) PROVE FALSE
  <2>1. IsRequest(request)
      BY <1>8, ActiveRequest DEF PlanReply, At, InGraph
  <2>2. PICK p, a : request' = [[request EXCEPT !.plan = p, !.ambiguous = a]
                                   EXCEPT !.node = "collect_evidence"]
      BY <1>8 DEF PlanReply, Continue
  <2>3. request'.node = "collect_evidence"
      BY <2>1, <2>2 DEF IsRequest
  <2> QED BY <1>2, <2>3
<1>9. ~PlanTimesOut
  <2> SUFFICES ASSUME PlanTimesOut PROVE FALSE
      OBVIOUS
  <2>1. IsRequest(request)
      BY ActiveRequest DEF PlanTimesOut, At, InGraph
  <2>2. PICK n : n = NextPlanAttempt(request.attempt)
      OBVIOUS
  <2>3. \/ request' = [[request EXCEPT !.attempt = n] EXCEPT !.node = "plan_evidence"]
        \/ request' = [node |-> "end", status |-> 503]
      BY <2>2 DEF PlanTimesOut, Continue, End
  <2>4. CASE request' = [[request EXCEPT !.attempt = n] EXCEPT !.node = "plan_evidence"]
    <3>1. request'.node = "plan_evidence"
        BY <2>1, <2>4 DEF IsRequest
    <3> QED BY <1>2, <3>1
  <2>5. CASE request' = [node |-> "end", status |-> 503]
      BY <1>2, <2>5
  <2> QED BY <2>3, <2>4, <2>5
<1>10. ~(\E question, employee : Ask(question, employee))
    BY <1>2 DEF Ask
<1>11. ~(Capability \/ Explain \/ ExplainFails \/ DeadlinePasses \/ ForgetContext)
    BY <1>2 DEF Capability, Explain, ExplainFails, DeadlinePasses, ForgetContext, End, NoRequest
<1>12. ~(\E status : ReadFails(status))
    BY <1>2 DEF ReadFails, End
<1>13. CASE ProjectChanges \/ UNCHANGED wvars
    BY <1>3, <1>13 DEF ProjectChanges, wvars
<1> QED BY <1>4, <1>5, <1>7, <1>8, <1>9, <1>10, <1>11, <1>12, <1>13
       DEF WorkflowNext, Step, BoundedStep

\* A ranking of the one source puts an eligible candidate first.
LEMMA EligibleFirst == RankingInv => EligibleCandidateComesFirst
<1> SUFFICES ASSUME RankingInv, Collected, NEW ranking \in request.ranking,
                    NEW source \in RankingSource, NEW e \in Employees \ {source},
                    Eligible(request.seen, source, e)
             PROVE  /\ ranking.candidates # <<>>
                    /\ Eligible(request.seen, source, ranking.candidates[1])
    BY DEF EligibleCandidateComesFirst
<1>1. RankingSource = {source}
    BY DEF RankingSource
<1>2. ranking = rank_reassignment_candidates(request.seen, source)
    BY <1>1 DEF RankingInv
<1>3. StaffOK(request.seen)
    BY WorkflowAssumption DEF RankingInv, StaffOK
<1> QED BY <1>2, <1>3, RankingIsSound

\* For any employees, skills, workloads, questions, plans and states of the project, the
\* evidence an answer is built from is what the question is about: a follow-up names the
\* tasks it refers to, a question for one kind of tasks gets those, and whoever can take
\* the work is proposed first.
THEOREM AnswersAlwaysAddressTheQuestion == WorkflowSpec => []AnswersAddressTheQuestion
<1>1. WorkflowInit => RankingInv
    BY DEF WorkflowInit, RankingInv, Collected, At, NoRequest
<1>2. WorkflowInv /\ RankingInv => AnswersAddressTheQuestion
    BY FollowUps, RequiredTasks, EligibleFirst DEF AnswersAddressTheQuestion
<1> QED BY <1>1, <1>2, WorkflowInvInit, WorkflowInvNext, RankingInvNext, PTL DEF WorkflowSpec

----------------------------------------------------------------------------
(* The language model adapter.                                                *)

\* A call in the loop of explain has taken at most one text for each attempt; one in the
\* loop of the repair at most a round more, however often it asked in vain, and it goes on
\* only while another text keeps the bound.
Asking(c) ==
    /\ c = [phase |-> "ask", req |-> c.req, attempt |-> c.attempt, semantic |-> c.semantic,
            replies |-> c.replies]
    /\ c.attempt \in Nat /\ c.attempt < MaxInvocations
    /\ c.replies \in Nat /\ c.replies <= c.attempt

Repairing(c) ==
    /\ c = [phase |-> "repair", req |-> c.req, attempt |-> c.attempt, replies |-> c.replies]
    /\ c.attempt \in Nat /\ c.replies \in Nat
    /\ c.replies <= MaxInvocations + c.attempt /\ c.replies < 2 * MaxInvocations

Ended(c) == c.phase \in {"done", "raised"} /\ c.replies <= 2 * MaxInvocations

\* The inductive invariant.
CallInv ==
    /\ call = NoCall \/ Asking(call) \/ Repairing(call) \/ Ended(call)
    /\ SilentAnswersAreGrounded

\* It has what the property says.
LEMMA CallInvSound == CallInv => AnswersAreSound
<1> SUFFICES ASSUME CallInv, call.phase # "idle" PROVE call.replies <= 2 * MaxInvocations
    BY DEF CallInv, AnswersAreSound, RepliesAreBounded
<1>1. MaxInvocations \in Nat
    BY ExplanationAssumption
<1>2. call # NoCall
    BY DEF NoCall
<1>3. CASE Asking(call)
    BY <1>1, <1>3 DEF Asking
<1>4. CASE Repairing(call)
    BY <1>1, <1>4 DEF Repairing
<1>5. CASE Ended(call)
    BY <1>5 DEF Ended
<1> QED BY <1>2, <1>3, <1>4, <1>5 DEF CallInv

\* An end that answers nothing as the model's.
LEMMA EndsWithoutTheModel ==
    ASSUME NEW c, Ended(c), c.phase = "done" => c.source # "bedrock",
           call' = c, configuration' = configuration
    PROVE  CallInv'
<1>1. Ended(call)'
    BY DEF Ended
<1>2. SilentAnswersAreGrounded'
    BY DEF SilentAnswersAreGrounded, Answered
<1> QED BY <1>1, <1>2 DEF CallInv

\* A call goes on.
LEMMA GoesOn ==
    ASSUME NEW c, Asking(c) \/ Repairing(c), call' = c, configuration' = configuration
    PROVE  CallInv'
<1>1. c.phase # "done"
    BY DEF Asking, Repairing
<1>2. SilentAnswersAreGrounded'
    BY <1>1 DEF SilentAnswersAreGrounded, Answered
<1>3. Asking(call)' \/ Repairing(call)'
    BY DEF Asking, Repairing
<1> QED BY <1>2, <1>3 DEF CallInv

\* The fallback and an error end a call within its bound.
LEMMA FallbackEnds == \A req : Ended(Fallback(req)) /\ Fallback(req).source # "bedrock"
    BY ExplanationAssumption DEF Ended, Fallback

LEMMA RaisedEnds ==
    ASSUME NEW req, NEW n \in Nat, n <= 2 * MaxInvocations
    PROVE  Ended(Raised(req, n)) /\ Raised(req, n).phase # "done"
    BY DEF Ended, Raised

\* A call begins.
LEMMA StartExplainInv ==
    ASSUME CallInv, NEW req \in Served, StartExplain(req)
    PROVE  CallInv'
<1>1. configuration' = configuration
    BY DEF StartExplain
<1>2. CASE call' = Fallback(req)
    BY <1>1, <1>2, FallbackEnds, EndsWithoutTheModel
<1>3. CASE call' = Raised(req, 0)
  <2>1. 0 \in Nat /\ 0 <= 2 * MaxInvocations
      BY ExplanationAssumption
  <2> QED BY <1>1, <1>3, <2>1, RaisedEnds, EndsWithoutTheModel
<1>4. CASE call' = [phase |-> "ask", req |-> req, attempt |-> 0, semantic |-> FALSE,
                    replies |-> 0]
  <2>1. Asking([phase |-> "ask", req |-> req, attempt |-> 0, semantic |-> FALSE,
                replies |-> 0])
      BY ExplanationAssumption DEF Asking
  <2> QED BY <1>1, <1>4, <2>1, GoesOn
<1> QED BY <1>2, <1>3, <1>4 DEF StartExplain

\* An attempt that brings no answer, with or without a text.
LEMMA AfterAttemptInv ==
    ASSUME CallInv, call.phase = "ask", NEW semantic, NEW n \in {call.replies, call.replies + 1},
           call' = AfterAttempt(semantic, n), configuration' = configuration
    PROVE  CallInv'
<1>1. Asking(call)
    BY DEF CallInv, NoCall, Repairing, Ended
<1>2. PICK a \in Nat : a = call.attempt /\ a < MaxInvocations /\ call.replies <= a
    BY <1>1 DEF Asking
<1>3. NextAttempt(call.attempt) = a + 1
    BY <1>2 DEF NextAttempt
<1>4. n \in Nat /\ n <= a + 1 /\ MaxInvocations \in Nat
    BY <1>1, <1>2, ExplanationAssumption DEF Asking
<1>5. CASE a + 1 < MaxInvocations
  <2>1. PICK c : c = [call EXCEPT !.attempt = a + 1, !.semantic = semantic, !.replies = n]
      OBVIOUS
  <2>2. call' = c
      BY <1>3, <1>5, <2>1 DEF AfterAttempt
  <2>3. /\ c = [phase |-> "ask", req |-> c.req, attempt |-> c.attempt,
                semantic |-> c.semantic, replies |-> c.replies]
        /\ c.attempt = a + 1 /\ c.replies = n
      BY <1>1, <2>1 DEF Asking
  <2>4. Asking(c)
      BY <1>4, <1>5, <2>3 DEF Asking
  <2> QED BY <2>2, <2>4, GoesOn
<1>6. CASE ~(a + 1 < MaxInvocations)
  <2>1. n <= MaxInvocations /\ MaxInvocations < 2 * MaxInvocations
      BY <1>2, <1>4, ExplanationAssumption
  <2>2. CASE semantic \/ configuration.persistent_retry
    <3>1. PICK c : c = [phase |-> "repair", req |-> call.req, attempt |-> 0, replies |-> n]
        OBVIOUS
    <3>2. call' = c
        BY <1>3, <1>6, <2>2, <3>1 DEF AfterAttempt
    <3>3. Repairing(c)
        BY <1>4, <2>1, <3>1 DEF Repairing
    <3> QED BY <3>2, <3>3, GoesOn
  <2>3. CASE ~(semantic \/ configuration.persistent_retry)
    <3>1. call' = Fallback(call.req) \/ call' = Raised(call.req, n)
        BY <1>3, <1>6, <2>3 DEF AfterAttempt
    <3>2. n <= 2 * MaxInvocations
        BY <1>4, <2>1
    <3> QED BY <1>4, <3>1, <3>2, FallbackEnds, RaisedEnds, EndsWithoutTheModel
  <2> QED BY <2>2, <2>3
<1> QED BY <1>5, <1>6

\* What a grounded answer to a request may not have wrong.
Grounded(req, defects) ==
    /\ "unknown_issue" \notin defects
    /\ HasFocus(req) =>
          /\ req.exhaustive => Omission[req.focus] \notin defects
          /\ defects \cap {"false_dependency", "false_level", "false_capacity", "denial"} = {}
    /\ ~HasFocus(req) =>
          /\ defects \cap {"false_field", "comparison", "wrong_result"} = {}
          /\ req.listed => "omits_listed" \notin defects
          /\ req.follow_up => "omits_earlier" \notin defects

\* An answer that is grounded or says that it may not be.
LEMMA AcceptInv ==
    ASSUME NEW defects, NEW uncertain,
           call' = Respond("bedrock", defects, uncertain), configuration' = configuration,
           call.replies + 1 <= 2 * MaxInvocations,
           ~uncertain => Grounded(call.req, defects)
    PROVE  CallInv'
<1>1. /\ call'.phase = "done" /\ call'.req = call.req /\ call'.defects = defects
      /\ call'.uncertain = uncertain /\ call'.replies = call.replies + 1
    BY DEF Respond
<1>2. Ended(call)'
    BY <1>1 DEF Ended
<1>3. SilentAnswersAreGrounded'
    BY <1>1 DEF SilentAnswersAreGrounded, HasFocus, Grounded
<1> QED BY <1>2, <1>3 DEF CallInv

\* A reply of the model.
LEMMA ReplyInv ==
    ASSUME CallInv, NEW defects, Reply(defects)
    PROVE  CallInv'
<1>1. call.phase = "ask" /\ configuration' = configuration
    BY DEF Reply
<1>2. CASE defects \cap (SemanticValidators(call.req) \cup GroundingValidators(call.req)) = {}
  <2>1. call' = Respond("bedrock", defects, FALSE)
      BY <1>2 DEF Reply, Accept
  <2>2. "unknown_issue" \notin defects
      BY <1>2 DEF GroundingValidators, validate_jira_claims
  <2>3. HasFocus(call.req) =>
           /\ call.req.exhaustive => Omission[call.req.focus] \notin defects
           /\ defects \cap {"false_dependency", "false_level", "false_capacity", "denial"} = {}
      BY <1>2 DEF HasFocus, GroundingValidators, FocusedValidators, validate_universal_claims,
                  validate_insufficiency_claim, validate_focused_completeness
  <2>4. ~HasFocus(call.req) =>
           /\ defects \cap {"false_field", "comparison", "wrong_result"} = {}
           /\ call.req.listed => "omits_listed" \notin defects
           /\ call.req.follow_up => "omits_earlier" \notin defects
      BY <1>2 DEF SemanticValidators, GroundingValidators, validate_jira_claims,
                  validate_supported_workforce_claims, validate_exhaustive_answer
  <2>5. Grounded(call.req, defects)
      BY <2>2, <2>3, <2>4 DEF Grounded
  <2>6. Asking(call)
      BY <1>1 DEF CallInv, NoCall, Repairing, Ended
  <2>7. call.replies + 1 <= 2 * MaxInvocations
      BY <2>6, ExplanationAssumption DEF Asking
  <2> QED BY <1>1, <2>1, <2>5, <2>7, AcceptInv
<1>3. CASE ~(defects \cap (SemanticValidators(call.req) \cup GroundingValidators(call.req))
              = {})
    BY <1>1, <1>3, AfterAttemptInv DEF Reply
<1> QED BY <1>2, <1>3

\* What a call in repair is.
LEMMA RepairingCall == CallInv /\ call.phase = "repair" => Repairing(call)
    BY DEF CallInv, NoCall, Asking, Ended

\* The next attempt of a repair, after a text or after none.
LEMMA RepairGoesOn ==
    ASSUME CallInv, call.phase = "repair", configuration' = configuration, NEW a \in Nat,
           \/ call' = [call EXCEPT !.attempt = a]
           \/ /\ a = call.attempt + 1 /\ a < MaxInvocations
              /\ call' = [call EXCEPT !.attempt = a, !.replies = call.replies + 1],
           call.replies <= MaxInvocations + a
    PROVE  CallInv'
<1>1. Repairing(call) /\ MaxInvocations \in Nat
    BY RepairingCall, ExplanationAssumption
<1>2. CASE call' = [call EXCEPT !.attempt = a]
  <2>1. PICK c : c = [call EXCEPT !.attempt = a]
      OBVIOUS
  <2>2. /\ c = [phase |-> "repair", req |-> c.req, attempt |-> c.attempt, replies |-> c.replies]
        /\ c.attempt = a /\ c.replies = call.replies
      BY <1>1, <2>1 DEF Repairing
  <2>3. Repairing(c)
      BY <1>1, <2>2 DEF Repairing
  <2> QED BY <1>2, <2>1, <2>3, GoesOn
<1>3. CASE /\ a = call.attempt + 1 /\ a < MaxInvocations
           /\ call' = [call EXCEPT !.attempt = a, !.replies = call.replies + 1]
  <2>1. PICK c : c = [call EXCEPT !.attempt = a, !.replies = call.replies + 1]
      OBVIOUS
  <2>2. /\ c = [phase |-> "repair", req |-> c.req, attempt |-> c.attempt, replies |-> c.replies]
        /\ c.attempt = a /\ c.replies = call.replies + 1
      BY <1>1, <2>1 DEF Repairing
  <2>3. call.replies \in Nat /\ call.replies <= MaxInvocations + call.attempt
        /\ call.attempt \in Nat
      BY <1>1 DEF Repairing
  <2>4. call.replies + 1 <= MaxInvocations + a /\ call.replies + 1 < 2 * MaxInvocations
      BY <1>1, <1>3, <2>3
  <2>5. Repairing(c)
      BY <2>2, <2>3, <2>4 DEF Repairing
  <2> QED BY <1>3, <2>1, <2>5, GoesOn
<1> QED BY <1>2, <1>3

\* A reply of the model to a repair.
LEMMA RepairReplyInv ==
    ASSUME CallInv, NEW defects, RepairReply(defects)
    PROVE  CallInv'
<1>1. call.phase = "repair" /\ configuration' = configuration
    BY DEF RepairReply
<1>2. /\ call.attempt \in Nat /\ call.replies \in Nat /\ MaxInvocations \in Nat
      /\ call.replies <= MaxInvocations + call.attempt /\ call.replies + 1 <= 2 * MaxInvocations
    BY <1>1, RepairingCall, ExplanationAssumption DEF Repairing
<1>3. CASE defects \cap RepairValidators(call.req) = {}
  <2>1. call' = Respond("bedrock", defects, Uncertain(FALSE))
      BY <1>3 DEF RepairReply, Accept
  <2>2. ~Uncertain(FALSE) => HasFocus(call.req)
      BY DEF Uncertain
  <2>3. HasFocus(call.req) =>
           defects \cap (validate_focused_claims(call.req)
                            \cup validate_focused_completeness(call.req)
                            \cup validate_insufficiency_claim(call.req)
                            \cup validate_universal_claims(call.req)) = {}
      BY <1>3 DEF RepairValidators, FocusedValidators
  <2>4. HasFocus(call.req) => Grounded(call.req, defects)
      BY <2>3 DEF validate_focused_claims, validate_focused_completeness, HasFocus,
                  validate_insufficiency_claim, validate_universal_claims, Grounded
  <2> QED BY <1>1, <1>2, <2>1, <2>2, <2>4, AcceptInv
<1>4. CASE defects \cap RepairValidators(call.req) # {}
  <2>1. CASE NextAttempt(call.attempt) >= MaxInvocations
    <3>1. call' = Respond("bedrock", defects, Uncertain(TRUE)) /\ Uncertain(TRUE)
        BY <1>4, <2>1 DEF RepairReply, Accept, Uncertain
    <3> QED BY <1>1, <1>2, <3>1, AcceptInv
  <2>2. CASE ~(NextAttempt(call.attempt) >= MaxInvocations)
    <3>1. call' = [call EXCEPT !.attempt = call.attempt + 1, !.replies = call.replies + 1]
        BY <1>4, <2>2 DEF RepairReply, NextAttempt
    <3>2. /\ call.attempt + 1 \in Nat /\ call.attempt + 1 < MaxInvocations
          /\ call.replies <= MaxInvocations + (call.attempt + 1)
        BY <1>2, <2>2 DEF NextAttempt
    <3> QED BY <1>1, <3>1, <3>2, RepairGoesOn
  <2> QED BY <2>1, <2>2
<1> QED BY <1>3, <1>4

\* A repair that brings no text.
LEMMA RepairFailsInv == CallInv /\ RepairFails => CallInv'
<1> SUFFICES ASSUME CallInv, RepairFails PROVE CallInv'
    OBVIOUS
<1>1. call.phase = "repair" /\ configuration' = configuration
    BY DEF RepairFails
<1>2. /\ call.attempt \in Nat /\ call.replies \in Nat /\ MaxInvocations \in Nat
      /\ call.replies <= MaxInvocations + call.attempt /\ call.replies <= 2 * MaxInvocations
    BY <1>1, RepairingCall, ExplanationAssumption DEF Repairing
<1>3. CASE configuration.persistent_retry
  <2>1. PICK n : n = IF call.attempt + 1 > MaxInvocations THEN MaxInvocations
                     ELSE call.attempt + 1
      OBVIOUS
  <2>2. n \in Nat /\ call.replies <= MaxInvocations + n
      BY <1>2, <2>1
  <2>3. call' = [call EXCEPT !.attempt = n]
      BY <1>3, <2>1 DEF RepairFails, NextAttempt
  <2> QED BY <1>1, <2>2, <2>3, RepairGoesOn
<1>4. CASE ~configuration.persistent_retry /\ call.attempt + 1 < MaxInvocations
  <2>1. call' = [call EXCEPT !.attempt = call.attempt + 1]
      BY <1>4 DEF RepairFails, NextAttempt
  <2>2. call.attempt + 1 \in Nat /\ call.replies <= MaxInvocations + (call.attempt + 1)
      BY <1>2
  <2> QED BY <1>1, <2>1, <2>2, RepairGoesOn
<1>5. CASE ~configuration.persistent_retry /\ ~(call.attempt + 1 < MaxInvocations)
  <2>1. call' = Raised(call.req, call.replies)
      BY <1>5 DEF RepairFails, NextAttempt
  <2> QED BY <1>1, <1>2, <2>1, RaisedEnds, EndsWithoutTheModel
<1> QED BY <1>3, <1>4, <1>5

\* For any number of attempts, any requests and any replies, whatever is rejected,
\* malformed or timed out, with persistent retry or without: an answer that states no
\* uncertainty is grounded, and a call takes at most two rounds of texts from the model.
THEOREM AnswersAreAlwaysSound == ExplanationSpec => []AnswersAreSound
<1>1. ExplanationInit => CallInv
    BY DEF ExplanationInit, CallInv, NoCall, SilentAnswersAreGrounded, Answered
<1>2. CallInv /\ [ExplanationNext]_xvars => CallInv'
  <2> SUFFICES ASSUME CallInv, [ExplanationNext]_xvars PROVE CallInv'
      OBVIOUS
  <2>1. CASE \E req \in Served : StartExplain(req)
      BY <2>1, StartExplainInv
  <2>2. CASE \E defects \in Replies : Reply(defects) \/ RepairReply(defects)
      BY <2>2, ReplyInv, RepairReplyInv
  <2>3. CASE Malformed
      BY <2>3, AfterAttemptInv DEF Malformed
  <2>4. CASE TimesOut
      BY <2>4, AfterAttemptInv DEF TimesOut
  <2>5. CASE RepairFails
      BY <2>5, RepairFailsInv
  <2>6. CASE UNCHANGED <<call, configuration>>
      BY <2>6 DEF CallInv, Asking, Repairing, Ended, SilentAnswersAreGrounded, Answered,
                  HasFocus
  <2>7. CASE ResetElapses \/ UNCHANGED xvars
      BY <2>6, <2>7 DEF ResetElapses, xvars
  <2> QED BY <2>1, <2>2, <2>3, <2>4, <2>5, <2>7 DEF ExplanationNext
<1> QED BY <1>1, <1>2, CallInvSound, PTL DEF ExplanationSpec

----------------------------------------------------------------------------
(* The reads of Jira.                                                        *)

ReadRecord == [kind : ReadKinds \cup {"none"},
               outcome : {"none", "ok", "error", "timeout", "refused"}, attempt : Nat]

\* The variables of the client have their types, and the history is of the reset time.
ReadsTypeOK ==
    /\ reading \in ReadRecord
    /\ streak \in Nat
    /\ circuit \in {Closed} \cup 0 .. ResetTicks
    /\ timeouts \in Seq(Nat) /\ OldestFirst(timeouts)
    /\ \A n \in 1 .. Len(timeouts) : timeouts[n] < ResetTicks

\* While the circuit is closed the counter knows every timeout.
CounterKnows == circuit = Closed => Len(timeouts) <= streak /\ streak < CircuitThreshold

\* While it is open nothing is read, so no timeout is later than its opening.
NothingSinceOpening ==
    circuit # Closed =>
        /\ ~Reading
        /\ Len(timeouts) <= CircuitThreshold
        /\ \A n \in 1 .. Len(timeouts) : timeouts[n] >= circuit

\* The inductive invariant.
CircuitInv == ReadsTypeOK /\ CounterKnows /\ NothingSinceOpening

\* A client that has read nothing.
LEMMA CircuitInvInit == JiraReadsInit => CircuitInv
<1> SUFFICES ASSUME JiraReadsInit PROVE CircuitInv
    OBVIOUS
<1>1. <<>> \in Seq(Nat) /\ Len(<<>>) = 0 /\ OldestFirst(<<>>)
    BY DEF OldestFirst
<1>2. NoRead \in ReadRecord
    BY DEF NoRead, ReadRecord
<1> QED BY <1>1, <1>2, JiraReadsAssumption
        DEF JiraReadsInit, CircuitInv, ReadsTypeOK, CounterKnows, NothingSinceOpening, Closed

\* A read begins, or is refused while the circuit is open.
LEMMA StartReadInv ==
    ASSUME CircuitInv, NEW kind \in ReadKinds, StartRead(kind)
    PROVE  CircuitInv'
<1>1. timeouts' = timeouts /\ ~Reading
    BY DEF StartRead
<1>2. CASE CircuitBlocks
  <2>1. reading' = [kind |-> kind, outcome |-> "refused", attempt |-> 0]
        /\ streak' = streak /\ circuit' = circuit
      BY <1>2 DEF StartRead
  <2>2. reading' \in ReadRecord /\ ~Reading'
      BY <2>1 DEF ReadRecord, Reading
  <2> QED BY <1>1, <2>1, <2>2
          DEF CircuitInv, ReadsTypeOK, CounterKnows, NothingSinceOpening
<1>3. CASE ~CircuitBlocks
  <2>1. reading' = [kind |-> kind, outcome |-> "none", attempt |-> 0]
        /\ circuit' = Closed
        /\ streak' = IF circuit = Closed THEN streak ELSE 0
      BY <1>3 DEF StartRead
  <2>2. reading' \in ReadRecord
      BY <2>1 DEF ReadRecord
  <2>3. circuit # Closed => Len(timeouts) = 0
    <3> SUFFICES ASSUME circuit # Closed PROVE Len(timeouts) = 0
        OBVIOUS
    <3>1. circuit = ResetTicks
        BY <1>3, JiraReadsAssumption DEF CircuitBlocks, CircuitInv, ReadsTypeOK
    <3>2. \A n \in 1 .. Len(timeouts) :
             timeouts[n] \in Nat /\ timeouts[n] < ResetTicks /\ timeouts[n] >= ResetTicks
        BY <3>1 DEF CircuitInv, ReadsTypeOK, NothingSinceOpening
    <3>3. Len(timeouts) \in Nat /\ 1 \notin 1 .. Len(timeouts)
        BY <3>2, JiraReadsAssumption DEF CircuitInv, ReadsTypeOK
    <3> QED BY <3>3
  <2>4. CounterKnows'
      BY <1>1, <2>1, <2>3, JiraReadsAssumption DEF CircuitInv, CounterKnows
  <2>5. ReadsTypeOK'
      BY <1>1, <2>1, <2>2 DEF CircuitInv, ReadsTypeOK
  <2> QED BY <2>1, <2>4, <2>5 DEF CircuitInv, NothingSinceOpening
<1> QED BY <1>2, <1>3

\* What a read in progress is.
LEMMA ReadingClosed == CircuitInv /\ Reading => circuit = Closed
    BY DEF CircuitInv, NothingSinceOpening

\* A call times out: it is tried again, or the read ends and is counted.
LEMMA CallTimesOutInv == CircuitInv /\ CallTimesOut => CircuitInv'
<1> SUFFICES ASSUME CircuitInv, CallTimesOut PROVE CircuitInv'
    OBVIOUS
<1>1. circuit = Closed /\ Reading
    BY ReadingClosed DEF CallTimesOut
<1>2. CASE reading.attempt + 1 < MaxReadAttempts
  <2>1. reading' = [reading EXCEPT !.attempt = @ + 1]
        /\ streak' = streak /\ circuit' = circuit /\ timeouts' = timeouts
      BY <1>2 DEF CallTimesOut
  <2>2. reading \in ReadRecord /\ reading.attempt + 1 \in Nat
      BY DEF CircuitInv, ReadsTypeOK, ReadRecord
  <2>3. reading' \in ReadRecord
      BY <2>1, <2>2 DEF ReadRecord
  <2> QED BY <1>1, <2>1, <2>3
          DEF CircuitInv, ReadsTypeOK, CounterKnows, NothingSinceOpening
<1>3. CASE ~(reading.attempt + 1 < MaxReadAttempts)
  <2>1. /\ reading' = [reading EXCEPT !.outcome = "timeout"]
        /\ streak' = streak + 1
        /\ circuit' = IF streak + 1 >= CircuitThreshold THEN 0 ELSE circuit
        /\ timeouts' = Append(timeouts, 0)
      BY <1>3 DEF CallTimesOut, TripsCircuit
  <2>2. reading' \in ReadRecord /\ ~Reading'
      BY <2>1 DEF CircuitInv, ReadsTypeOK, ReadRecord, Reading
  <2>3. /\ timeouts' \in Seq(Nat) /\ OldestFirst(timeouts')
        /\ Len(timeouts') = Len(timeouts) + 1
        /\ \A n \in 1 .. Len(timeouts) : timeouts'[n] = timeouts[n]
        /\ timeouts'[Len(timeouts) + 1] = 0
      BY <2>1, NewestIsLast DEF CircuitInv, ReadsTypeOK
  <2>4. Len(timeouts) \in Nat /\ Len(timeouts') \in Nat
        /\ \A n \in 1 .. Len(timeouts') : timeouts'[n] \in Nat
      BY <2>3 DEF CircuitInv, ReadsTypeOK
  <2>5. ASSUME NEW n \in 1 .. Len(timeouts') PROVE timeouts'[n] < ResetTicks
    <3>1. n \in 1 .. Len(timeouts) \/ n = Len(timeouts) + 1
        BY <2>3, <2>4
    <3>2. CASE n \in 1 .. Len(timeouts)
        BY <2>3, <3>2 DEF CircuitInv, ReadsTypeOK
    <3>3. CASE n = Len(timeouts) + 1
        BY <2>3, <3>3, JiraReadsAssumption
    <3> QED BY <3>1, <3>2, <3>3
  <2>6. /\ streak \in Nat /\ Len(timeouts) <= streak /\ streak < CircuitThreshold
      BY <1>1 DEF CircuitInv, ReadsTypeOK, CounterKnows
  <2>7. ReadsTypeOK'
      BY <1>1, <2>1, <2>2, <2>3, <2>5, <2>6, JiraReadsAssumption DEF ReadsTypeOK
  <2>8. CASE streak + 1 >= CircuitThreshold
    <3>1. circuit' = 0
        BY <2>1, <2>8
    <3>2. Len(timeouts') <= CircuitThreshold
        BY <2>3, <2>4, <2>6, JiraReadsAssumption
    <3>3. \A n \in 1 .. Len(timeouts') : timeouts'[n] >= circuit'
        BY <2>4, <3>1
    <3> QED BY <2>2, <2>7, <3>1, <3>2, <3>3
            DEF CircuitInv, CounterKnows, NothingSinceOpening, Closed
  <2>9. CASE ~(streak + 1 >= CircuitThreshold)
    <3>1. circuit' = Closed /\ streak' < CircuitThreshold /\ Len(timeouts') <= streak'
        BY <1>1, <2>1, <2>3, <2>4, <2>6, <2>9, JiraReadsAssumption
    <3> QED BY <2>7, <3>1 DEF CircuitInv, CounterKnows, NothingSinceOpening
  <2> QED BY <2>8, <2>9
<1> QED BY <1>2, <1>3

\* The answer, an error, or a client made anew.
LEMMA ReadEndsInv == CircuitInv /\ (CallReplies \/ CallFails \/ NewClient) => CircuitInv'
<1> SUFFICES ASSUME CircuitInv, CallReplies \/ CallFails \/ NewClient PROVE CircuitInv'
    OBVIOUS
<1> DEFINE Uncounted == /\ reading' \in ReadRecord /\ ~Reading'
                        /\ streak' = streak /\ circuit' = circuit /\ timeouts' = timeouts
           Reset == /\ reading' \in ReadRecord /\ streak' = 0
                    /\ circuit' = Closed /\ timeouts' = <<>>
<1>1. Uncounted \/ Reset
  <2>1. reading \in ReadRecord
      BY DEF CircuitInv, ReadsTypeOK
  <2>2. ASSUME NEW outcome \in {"ok", "error"}, reading' = [reading EXCEPT !.outcome = outcome]
        PROVE  reading' \in ReadRecord /\ ~Reading'
    <3>1. reading'.outcome = outcome
        BY <2>1, <2>2 DEF ReadRecord
    <3>2. reading' \in ReadRecord
        BY <2>1, <2>2 DEF ReadRecord
    <3> QED BY <3>1, <3>2 DEF Reading
  <2>3. CASE CallReplies
    <3>1. circuit' = circuit /\ circuit = Closed
        BY <2>3, ReadingClosed DEF CallReplies
    <3> QED BY <2>2, <2>3, <3>1 DEF CallReplies
  <2>4. CASE CallFails
      BY <2>2, <2>4 DEF CallFails
  <2>5. CASE NewClient
      BY <2>5 DEF NewClient, NoRead, ReadRecord
  <2> QED BY <2>3, <2>4, <2>5
<1>2. <<>> \in Seq(Nat) /\ Len(<<>>) = 0 /\ OldestFirst(<<>>)
    BY DEF OldestFirst
<1>3. CASE Uncounted
    BY <1>3 DEF CircuitInv, ReadsTypeOK, CounterKnows, NothingSinceOpening
<1>4. CASE Reset
  <2>1. ReadsTypeOK' /\ NothingSinceOpening'
      BY <1>2, <1>4 DEF ReadsTypeOK, NothingSinceOpening
  <2>2. CounterKnows'
      BY <1>2, <1>4, JiraReadsAssumption DEF CounterKnows
  <2> QED BY <2>1, <2>2 DEF CircuitInv
<1> QED BY <1>1, <1>3, <1>4

\* Time passes: what happened before the circuit opened is always older than that.
LEMMA TickInv == CircuitInv /\ Tick => CircuitInv'
<1> SUFFICES ASSUME CircuitInv, Tick PROVE CircuitInv'
    OBVIOUS
<1>1. /\ circuit' = IF circuit \in {Closed, ResetTicks} THEN circuit ELSE circuit + 1
      /\ timeouts' = Aged(timeouts, ResetTicks)
      /\ reading' = reading /\ streak' = streak
    BY DEF Tick
<1> DEFINE L == Len(timeouts)
<1>2. /\ timeouts \in Seq(Nat) /\ OldestFirst(timeouts)
      /\ L \in Nat /\ \A n \in 1 .. L : timeouts[n] \in Nat
      /\ ResetTicks \in Nat /\ streak \in Nat /\ CircuitThreshold \in Nat
    BY JiraReadsAssumption DEF CircuitInv, ReadsTypeOK
<1>3. timeouts' \in Seq(Nat) /\ OldestFirst(timeouts')
    BY <1>1, <1>2, AgedAges
<1>4. PICK gone \in 0 .. L :
         /\ Len(timeouts') = L - gone
         /\ \A n \in 1 .. L - gone : /\ timeouts'[n] = timeouts[n + gone] + 1
                                     /\ timeouts'[n] < ResetTicks
    BY <1>1, <1>2, AgedAges
<1>5. circuit' \in {Closed} \cup 0 .. ResetTicks /\ (circuit' = Closed <=> circuit = Closed)
    BY <1>1, <1>2 DEF CircuitInv, ReadsTypeOK, Closed
<1>6. ReadsTypeOK'
    BY <1>1, <1>3, <1>4, <1>5 DEF CircuitInv, ReadsTypeOK
<1>7. CounterKnows'
  <2>1. circuit = Closed => L <= streak /\ streak < CircuitThreshold
      BY DEF CircuitInv, CounterKnows
  <2> HIDE DEF L
  <2> QED BY <1>1, <1>2, <1>4, <1>5, <2>1 DEF CounterKnows
<1>8. NothingSinceOpening'
  <2> SUFFICES ASSUME circuit # Closed PROVE NothingSinceOpening'
      BY <1>5 DEF NothingSinceOpening
  <2>1. /\ ~Reading /\ L <= CircuitThreshold /\ circuit \in 0 .. ResetTicks
        /\ \A n \in 1 .. L : timeouts[n] >= circuit
      BY DEF CircuitInv, NothingSinceOpening, ReadsTypeOK
  <2> HIDE DEF L
  <2>2. ~Reading' /\ Len(timeouts') <= CircuitThreshold
      BY <1>1, <1>2, <1>4, <2>1 DEF Reading
  <2>3. ASSUME NEW n \in 1 .. Len(timeouts') PROVE timeouts'[n] >= circuit'
    <3>1. n \in 1 .. L - gone /\ n + gone \in 1 .. L
        BY <1>2, <1>4
    <3>2. timeouts'[n] = timeouts[n + gone] + 1
        BY <1>4, <3>1
    <3>3. timeouts[n + gone] \in Nat /\ timeouts[n + gone] >= circuit
        BY <1>2, <2>1, <3>1
    <3>4. circuit \in Nat /\ (circuit' = circuit \/ circuit' = circuit + 1)
        BY <1>1, <1>2, <2>1
    <3> QED BY <3>2, <3>3, <3>4
  <2> QED BY <2>2, <2>3 DEF NothingSinceOpening
<1> QED BY <1>6, <1>7, <1>8 DEF CircuitInv

\* Whatever times out, fails, succeeds or is refused, for any thresholds and any reset
\* time, no client waits for more timed out reads than the circuit allows.
THEOREM TimeoutsAreAlwaysContained == JiraReadsSpec => []TimeoutsAreContained
<1>1. CircuitInv => TimeoutsAreContained
  <2> SUFFICES ASSUME CircuitInv PROVE Len(timeouts) <= CircuitThreshold
      BY DEF TimeoutsAreContained
  <2>1. Len(timeouts) \in Nat /\ streak \in Nat /\ CircuitThreshold \in Nat
      BY JiraReadsAssumption DEF CircuitInv, ReadsTypeOK
  <2>2. CASE circuit = Closed
      BY <2>1, <2>2 DEF CircuitInv, CounterKnows
  <2>3. CASE circuit # Closed
      BY <2>3 DEF CircuitInv, NothingSinceOpening
  <2> QED BY <2>2, <2>3
<1>2. CircuitInv /\ [JiraReadsNext]_jvars => CircuitInv'
  <2> SUFFICES ASSUME CircuitInv, [JiraReadsNext]_jvars PROVE CircuitInv'
      OBVIOUS
  <2>1. CASE Read
      BY <2>1, StartReadInv DEF Read
  <2>2. CASE CallReplies \/ CallFails \/ NewClient
      BY <2>2, ReadEndsInv
  <2>3. CASE CallTimesOut
      BY <2>3, CallTimesOutInv
  <2>4. CASE Tick
      BY <2>4, TickInv
  <2>5. CASE UNCHANGED <<reading, streak, circuit, timeouts>>
      BY <2>5 DEF CircuitInv, ReadsTypeOK, CounterKnows, NothingSinceOpening, Reading
  <2>6. CASE JiraGoesUpOrDown \/ Midnight \/ (\E i \in Issues : EditIssue(i))
      BY <2>5, <2>6 DEF JiraGoesUpOrDown, Midnight, EditIssue
  <2>7. CASE UNCHANGED jvars
      BY <2>5, <2>7 DEF jvars
  <2> QED BY <2>1, <2>2, <2>3, <2>4, <2>6, <2>7 DEF JiraReadsNext
<1> QED BY <1>1, <1>2, CircuitInvInit, PTL DEF JiraReadsSpec

\* The issues are what issues may be, and the days are the same or one apart.
ProjectOK ==
    /\ DOMAIN jira \subseteq Issues
    /\ \A i \in DOMAIN jira : jira[i] \in Contents[i]
    /\ utc \in Int /\ local \in Int /\ utc <= local

\* What the readers find differs only by their queries and days.
LEMMA ReadersFollowJira == ProjectOK => ReadersAgree
<1> SUFFICES ASSUME ProjectOK PROVE ReadersAgree
    OBVIOUS
<1>1. \A i \in DOMAIN jira : jira[i].due \in Int
    BY JiraReadsAssumption DEF ProjectOK
<1>2. /\ Found("dashboard") = DOMAIN jira
      /\ Found("dossier") = {i \in DOMAIN jira : jira[i].mine /\ ~CategoryDone(jira[i])}
      /\ Found("query") = {i \in DOMAIN jira : ~CategoryDone(jira[i])}
    BY DEF Found, Matches
<1> DEFINE both == DashboardTasks \cap Found("query")
<1>3. DossierTasks \subseteq both
    BY <1>2 DEF DossierTasks, DashboardTasks
<1>4. /\ Dossier.overdue = {i \in DossierTasks : OverdueOn(utc, jira[i])}
      /\ Dossier.soon = {i \in DossierTasks : SoonOn(utc, jira[i])}
      /\ Dossier.blocked = {i \in DossierTasks : DossierBlocked(jira[i])}
      /\ Dossier.missing = {i \in DossierTasks : ~Remaining(jira[i])}
    BY DEF Dossier
<1>5. /\ Dashboard.overdue = {i \in DashboardTasks : OverdueOn(local, jira[i])}
      /\ Dashboard.soon = {i \in DashboardTasks : SoonOn(local, jira[i])}
      /\ Dashboard.blocked = {i \in DashboardTasks : DashboardBlocked(jira[i])}
      /\ Dashboard.missing = {i \in DashboardTasks : ~Remaining(jira[i])}
    BY DEF Dashboard
<1>6. ASSUME NEW day
      PROVE  /\ TaskQuery(day).overdue = {i \in Found("query") : QueryOverdue(day, jira[i])}
             /\ TaskQuery(day).soon = {i \in Found("query") : QuerySoon(day, jira[i])}
             /\ TaskQuery(day).blocked = {i \in Found("query") : QueryBlocked(jira[i])}
             /\ TaskQuery(day).missing = {i \in Found("query") : jira[i].estimate # "native"}
    BY DEF TaskQuery
<1>7. Dossier.overdue \subseteq Dashboard.overdue
  <2> SUFFICES ASSUME NEW i \in DossierTasks, OverdueOn(utc, jira[i])
               PROVE  i \in DashboardTasks /\ OverdueOn(local, jira[i])
      BY <1>4, <1>5
  <2>1. jira[i].due \in Int
      BY <1>1, <1>2 DEF DossierTasks
  <2> QED BY <1>3, <2>1 DEF OverdueOn, ProjectOK, NoDue
<1>8. local = utc => /\ Dossier.overdue = Dashboard.overdue \cap DossierTasks
                     /\ Dossier.soon = Dashboard.soon \cap DossierTasks
    BY <1>3, <1>4, <1>5
<1>9. \A i \in Dashboard.blocked \cap DossierTasks :
         i \in Dossier.blocked \/ jira[i].blocker = "None"
    BY <1>4, <1>5 DEF DashboardBlocked, DossierBlocked
<1>10. ASSUME NEW day \in {utc, local}
       PROVE  /\ Dossier.overdue \subseteq TaskQuery(day).overdue
              /\ TaskQuery(day).overdue \cap both \subseteq Dashboard.overdue
              /\ day = utc => Dossier.soon = TaskQuery(day).soon \cap DossierTasks
              /\ day = local => Dashboard.soon \cap both = TaskQuery(day).soon \cap both
              /\ TaskQuery(day).blocked \cap both \subseteq Dashboard.blocked
              /\ \A i \in Dashboard.blocked \cap both :
                    i \in TaskQuery(day).blocked \/ jira[i].link = "is blocked by "
              /\ Dashboard.missing \cap both \subseteq TaskQuery(day).missing
  <2>1. /\ day \in Int /\ utc <= day /\ day <= local /\ utc \in Int /\ local \in Int
        /\ SoonDays \in Nat
      BY JiraReadsAssumption DEF ProjectOK
  <2>2. ASSUME NEW i \in DOMAIN jira
        PROVE  /\ OverdueOn(utc, jira[i]) => QueryOverdue(day, jira[i])
               /\ QueryOverdue(day, jira[i]) => OverdueOn(local, jira[i])
               /\ \A d \in {utc, local} : QuerySoon(d, jira[i]) <=> SoonOn(d, jira[i])
    <3>1. jira[i].due \in Int
        BY <1>1
    <3> QED BY <2>1, <3>1 DEF OverdueOn, QueryOverdue, SoonOn, QuerySoon, NoDue
  <2>3. /\ Found("query") \subseteq DOMAIN jira /\ DashboardTasks \subseteq DOMAIN jira
        /\ DossierTasks \subseteq Found("query") /\ both \subseteq Found("query")
      BY <1>2, <1>3 DEF DashboardTasks
  <2>4. /\ Dossier.overdue \subseteq TaskQuery(day).overdue
        /\ TaskQuery(day).overdue \cap both \subseteq Dashboard.overdue
      BY <1>3, <1>4, <1>5, <1>6, <2>2, <2>3
  <2>5. day = utc => Dossier.soon = TaskQuery(day).soon \cap DossierTasks
      BY <1>4, <1>6, <2>2, <2>3
  <2>6. day = local => Dashboard.soon \cap both = TaskQuery(day).soon \cap both
      BY <1>5, <1>6, <2>2, <2>3
  <2>7. /\ TaskQuery(day).blocked \cap both \subseteq Dashboard.blocked
        /\ \A i \in Dashboard.blocked \cap both :
              i \in TaskQuery(day).blocked \/ jira[i].link = "is blocked by "
      BY <1>5, <1>6 DEF QueryBlocked, DashboardBlocked
  <2>8. Dashboard.missing \cap both \subseteq TaskQuery(day).missing
      BY <1>5, <1>6 DEF Remaining
  <2> QED BY <2>4, <2>5, <2>6, <2>7, <2>8
<1>11. Dossier.missing = Dashboard.missing \cap DossierTasks
    BY <1>3, <1>4, <1>5
<1> QED BY <1>3, <1>7, <1>8, <1>9, <1>10, <1>11 DEF ReadersAgree

\* Whatever the issues become and whenever the days change, for any project, the
\* dashboard, the dossier and the task queries agree on it.
THEOREM ReadersAlwaysAgree == JiraReadsSpec => []ReadersAgree
<1>1. JiraReadsInit => ProjectOK
  <2> SUFFICES ASSUME JiraReadsInit PROVE ProjectOK
      OBVIOUS
  <2>1. CASE jira \in [{} -> {}]
      BY <2>1 DEF JiraReadsInit, ProjectOK
  <2>2. CASE jira = [i \in Issues |-> CHOOSE c \in Contents[i] : TRUE]
    <3>1. \A i \in Issues : (CHOOSE c \in Contents[i] : TRUE) \in Contents[i]
        BY JiraReadsAssumption
    <3> QED BY <2>2, <3>1 DEF JiraReadsInit, ProjectOK
  <2> QED BY <2>1, <2>2 DEF JiraReadsInit
<1>2. ProjectOK /\ [JiraReadsNext]_jvars => ProjectOK'
  <2> SUFFICES ASSUME ProjectOK, [JiraReadsNext]_jvars PROVE ProjectOK'
      OBVIOUS
  <2>1. CASE UNCHANGED <<jira, utc, local>>
      BY <2>1 DEF ProjectOK
  <2>2. CASE Midnight
      BY <2>2 DEF Midnight, ProjectOK
  <2>3. ASSUME NEW i \in Issues, EditIssue(i) PROVE ProjectOK'
    <3>1. PICK c \in Contents[i] :
             jira' = [j \in DOMAIN jira \cup {i} |-> IF j = i THEN c ELSE jira[j]]
        BY <2>3 DEF EditIssue
    <3>2. utc' = utc /\ local' = local
        BY <2>3 DEF EditIssue
    <3> QED BY <3>1, <3>2 DEF ProjectOK
  <2>4. CASE Read
      BY <2>1, <2>4 DEF Read, StartRead
  <2>5. CASE CallReplies \/ CallFails \/ CallTimesOut \/ NewClient \/ Tick \/ JiraGoesUpOrDown
      BY <2>1, <2>5 DEF CallReplies, CallFails, CallTimesOut, NewClient, Tick, JiraGoesUpOrDown
  <2>6. CASE UNCHANGED jvars
      BY <2>1, <2>6 DEF jvars
  <2> QED BY <2>2, <2>3, <2>4, <2>5, <2>6 DEF JiraReadsNext
<1> QED BY <1>1, <1>2, ReadersFollowJira, PTL DEF JiraReadsSpec

=============================================================================
