----------------------------- MODULE ChatClient -----------------------------
(***************************************************************************)
(* The chat of the web client: agent_api/web/static/chat.js.                   *)
(*                                                                         *)
(* The page keeps one abort controller; sending a question, switching the       *)
(* project, clearing the chat and cancelling all abort the chat in progress.     *)
(* The code runs to completion between two awaits: each action is what happens   *)
(* from one await to the next.  Storage is kept by project, and the key is        *)
(* computed when it is used, from the project selected then.                     *)
(***************************************************************************)
EXTENDS Naturals, FiniteSets

CONSTANTS ChatProjects,
          MaxChats,     \* bound: questions sent
          MaxRetries    \* bound: retries that are told apart

VARIABLES selected,  \* state.project
          controller,\* state.chatAbortController: the chat it belongs to, or None
          chats,     \* the chats sent, and how far each is
          contexts,  \* sessionStorage, contextKey(): the chat whose context it is
          messages   \* sessionStorage, historyKey(): the chats it tells of

chatVars == <<selected, controller, chats, contexts, messages>>

None == 0

\* A chat: the project it asks about, the context it took along, its phase and the
\* retries so far.  It waits for the response ("asking"), for the body of a response
\* ("reading") or for its next attempt ("waiting"), and after the signal for the
\* rejection of that wait ("aborted", "cut off" while reading).
ClientInit ==
    /\ selected \in ChatProjects
    /\ controller = None
    /\ chats = <<>>
    /\ contexts = [p \in ChatProjects |-> None]
    /\ messages = [p \in ChatProjects |-> {}]

Running(c) == c \in DOMAIN chats /\ chats[c].phase \in {"asking", "reading", "waiting"}

\* chats after the controller's signal: what it was waiting for rejects.
Abort_Nothing == chats

Abort ==
    [c \in DOMAIN chats |->
        IF c = controller /\ Running(c)
        THEN [chats[c] EXCEPT !.phase = IF @ = "reading" THEN "cut off" ELSE "aborted"]
        ELSE chats[c]]

\* sendChat up to its first await.
SendChat ==
    /\ Cardinality(DOMAIN chats) < MaxChats
    /\ LET c == Cardinality(DOMAIN chats) + 1 IN
       /\ chats' = [d \in 1 .. c |->
                      IF d < c THEN Abort[d]
                      ELSE [project |-> selected, took |-> contexts[selected],
                            phase |-> "asking", retries |-> 0]]
       /\ controller' = c
       /\ messages' = [messages EXCEPT ![selected] = @ \cup {c}]
    /\ UNCHANGED <<selected, contexts>>

\* The finally of sendChat.
Release(c) == controller' = IF controller = c THEN None ELSE controller

\* readJson: the response is there, its body is read next.
ReceiveHeaders(c) ==
    /\ Running(c) /\ chats[c].phase = "asking"
    /\ chats' = [chats EXCEPT ![c].phase = "reading"]
    /\ UNCHANGED <<selected, controller, contexts, messages>>

\* The answer, and its context if it has one.
ReceiveAnswer(c, hasContext) ==
    /\ chats[c].phase = "reading"
    /\ contexts' = IF hasContext THEN [contexts EXCEPT ![selected] = c] ELSE contexts
    /\ messages' = [messages EXCEPT ![selected] = @ \cup {c}]
    /\ chats' = [chats EXCEPT ![c].phase = "done"]
    /\ Release(c)
    /\ UNCHANGED selected

\* An error that is not retryable is told to the user.  Any failure of reading the
\* body is one, an abort too: readJson throws an error of its own for it.
ReceiveError(c) ==
    /\ chats[c].phase \in {"asking", "reading", "cut off"}
    /\ messages' = [messages EXCEPT ![selected] = @ \cup {c}]
    /\ chats' = [chats EXCEPT ![c].phase = "done"]
    /\ Release(c)
    /\ UNCHANGED <<selected, contexts>>

\* retryDelay.
ReceiveRetryable(c) ==
    /\ chats[c].phase = "reading"
    /\ chats' = [chats EXCEPT ![c].phase = "waiting",
                              ![c].retries = IF @ < MaxRetries THEN @ + 1 ELSE @]
    /\ UNCHANGED <<selected, controller, contexts, messages>>

\* The same question again with the context it took along, about the project selected
\* by now.
Retry(c) ==
    /\ chats[c].phase = "waiting"
    /\ chats' = [chats EXCEPT ![c].phase = "asking", ![c].project = selected]
    /\ UNCHANGED <<selected, controller, contexts, messages>>

\* The rejection reaches an aborted chat: it ends without a word.
Unwind(c) ==
    /\ chats[c].phase = "aborted"
    /\ chats' = [chats EXCEPT ![c].phase = "done"]
    /\ Release(c)
    /\ UNCHANGED <<selected, contexts, messages>>

\* cancelPendingChat, alone and as the first step of the two handlers below.
Cancel ==
    /\ controller # None
    /\ chats' = Abort
    /\ controller' = None
    /\ UNCHANGED <<selected, contexts, messages>>

SwitchProject(p) ==
    /\ p # selected
    /\ chats' = Abort
    /\ controller' = None
    /\ selected' = p
    /\ UNCHANGED <<contexts, messages>>

ClearChat ==
    /\ chats' = Abort
    /\ controller' = None
    /\ contexts' = [contexts EXCEPT ![selected] = None]
    /\ messages' = [messages EXCEPT ![selected] = {}]
    /\ UNCHANGED selected

ClientNext ==
    \/ SendChat \/ Cancel \/ ClearChat
    \/ \E p \in ChatProjects : SwitchProject(p)
    \/ \E c \in DOMAIN chats :
          \/ \E hasContext \in BOOLEAN : ReceiveAnswer(c, hasContext)
          \/ ReceiveHeaders(c) \/ ReceiveError(c) \/ ReceiveRetryable(c) \/ Retry(c) \/ Unwind(c)

ClientSpec == ClientInit /\ [][ClientNext]_chatVars

----------------------------------------------------------------------------
(* Properties.                                                              *)

\* The context stored under a project came from a question about that project, and so
\* did the one a chat took along: though the project a question is about and the key
\* under which its answer is stored are computed when they are used, no order of
\* answers, retries, cancellations and switches of the project makes a conversation
\* refer to tasks of another project.
ContextsKeepProjectsApart ==
    /\ \A p \in ChatProjects : contexts[p] # None => chats[contexts[p]].project = p
    /\ \A c \in DOMAIN chats :
          chats[c].took # None => chats[chats[c].took].project = chats[c].project

\* Nor does a message: the history of a project tells of chats of that project.
MessagesKeepProjectsApart ==
    \A p \in ChatProjects : \A c \in messages[p] : chats[c].project = p

\* An answer never arrives after that of a question asked later, nor after the
\* conversation was cleared: the context only moves to a newer chat or is removed.
ContextsMoveForward ==
    [][\A p \in ChatProjects :
          contexts'[p] # contexts[p] => contexts'[p] = None \/ contexts'[p] > contexts[p]]_chatVars

\* A chat that runs can be cancelled: the controller is its own, so a chat that ends
\* never takes away the one the next chat needs.
RunningChatIsCancellable == \A c \in DOMAIN chats : Running(c) => controller = c

\* However questions, retries, answers, Clear, Cancel and project switches alternate, no
\* chat that was left behind writes into the context of another project, and the one
\* that runs can be cancelled: the one controller of chat.js is always its own.
ChatIsUnderControl == ContextsKeepProjectsApart /\ RunningChatIsCancellable

=============================================================================
