--------------------------- MODULE CommentEvidence ---------------------------
(***************************************************************************)
(* What is kept of a Jira comment: domain/workforce_risk/comments,            *)
(* CommentEvidenceRepository in packages/persistence/.../repositories.py and  *)
(* the normalize_comment_evidence tool of the Workforce MCP server.           *)
(*                                                                         *)
(* A caller reads the comment, with the time it did, and passes that          *)
(* observation to the tool, at once or later, and again when a call failed or  *)
(* its answer was lost; other callers do the same.  The tool classifies the    *)
(* text, forgets it and appends a row, unless it finds one with the same       *)
(* fingerprint.  People go on editing the comment meanwhile.  Nothing marks    *)
(* the rows of a comment that was edited or deleted.                           *)
(***************************************************************************)
EXTENDS Naturals, Sequences, FiniteSets

CONSTANTS Author,    \* account ids of comment authors
          Employees, Managers, Reviewers, Automation,  \* the configured accounts
          Category,  \* comment categories
          Temporary, \* the category that may carry an availability window
          Texts,     \* what the comment may say
          Callers,   \* callers of the tool
          Day,       \* ticks in the 24 hours a comment counts as current
          LastTick   \* bound: the clock

\* A comment's text: its author, the categories it matches, whether it holds a
\* disqualifying term and whether it came with an availability window.
Comment == [author : Author, matches : SUBSET Category, disqualified : BOOLEAN,
            window : BOOLEAN]

ASSUME CommentAssumption ==
    IsFiniteSet(Category) /\ Day \in Nat /\ Texts \subseteq Comment

VARIABLES clock,
          comment,   \* the comment in Jira, with its update time
          versions,  \* history: what it has been, with the update times
          call,      \* call[k]: caller k's observation and how far its call is
          signals    \* the rows of CommentEvidence

cvars == <<clock, comment, versions, call, signals>>

NoCall == [phase |-> "idle"]

CommentInit ==
    /\ clock = 1
    /\ \E c \in Texts : comment = [text |-> c, updated |-> 1]
    /\ versions = {comment}
    /\ call = [k \in Callers |-> NoCall]
    /\ signals = <<>>

----------------------------------------------------------------------------
(* The classifier.                                                          *)

AuthorType(a) ==
    CASE a \in Employees -> "employee"
      [] a \in Managers \ Employees -> "manager"
      [] a \in Reviewers \ (Employees \cup Managers) -> "reviewer"
      [] a \in Automation \ (Employees \cup Managers \cup Reviewers) -> "automation"
      [] OTHER -> "unmapped"

\* classify: a mapped author, no disqualifier and exactly one category.
HasSignal(c) ==
    AuthorType(c.author) # "unmapped" /\ ~c.disqualified /\ Cardinality(c.matches) = 1

Freshness(o) == IF o.retrieved - o.updated <= Day THEN "current" ELSE "stale"

Signal_DatedWhenStored(o) ==
    [category |-> CHOOSE k \in o.text.matches : TRUE,
     authorType |-> AuthorType(o.text.author),
     window |-> o.text.window /\ Temporary \in o.text.matches,
     updated |-> o.updated, retrieved |-> clock, freshness |-> Freshness(o)]

\* from_signal: the window only of a temporary unavailability.  All of it goes into
\* the fingerprint, the retrieval time too: another retrieval is another row.
Signal(o) ==
    [category |-> CHOOSE k \in o.text.matches : TRUE,
     authorType |-> AuthorType(o.text.author),
     window |-> o.text.window /\ Temporary \in o.text.matches,
     updated |-> o.updated, retrieved |-> o.retrieved, freshness |-> Freshness(o)]

----------------------------------------------------------------------------

\* The caller has read the comment from Jira.
Retrieve(k) ==
    /\ call[k] = NoCall
    /\ call' = [call EXCEPT ![k] =
         [phase |-> "called", text |-> comment.text, updated |-> comment.updated,
          retrieved |-> clock]]
    /\ UNCHANGED <<clock, comment, versions, signals>>

Goes(k, phase) ==
    /\ call' = [call EXCEPT ![k].phase = phase]
    /\ UNCHANGED <<clock, comment, versions, signals>>

Ends(k) ==
    /\ call' = [call EXCEPT ![k] = NoCall]
    /\ UNCHANGED <<clock, comment, versions, signals>>

IsStored(g) == \E i \in DOMAIN signals : signals[i] = g

\* No signal, no row.
ClassifiesNothing(k) ==
    /\ call[k].phase = "called"
    /\ ~HasSignal(call[k].text)
    /\ Ends(k)

\* append: the lookup by fingerprint.
LooksUp(k) ==
    /\ call[k].phase = "called"
    /\ HasSignal(call[k].text)
    /\ Goes(k, IF IsStored(Signal(call[k])) THEN "stored" ELSE "absent")

\* uq_comment_evidence_observation.
Insertable(g) == ~IsStored(g)

\* append: the insert and the commit.  An insert of the same fingerprint waits for the
\* commit and then fails.
Inserts(k) ==
    /\ call[k].phase = "absent"
    /\ Insertable(Signal(call[k]))
    /\ signals' = Append(signals, Signal(call[k]))
    /\ call' = [call EXCEPT ![k].phase = "stored"]
    /\ UNCHANGED <<clock, comment, versions>>

\* A refused insert or another error: the transaction leaves nothing, and the caller
\* may call again.
CallFails(k) == call[k].phase = "absent" /\ Goes(k, "called")

\* The answer is lost: the caller calls again with the same observation.
CallRepeats(k) == call[k].phase = "stored" /\ Goes(k, "called")

\* The caller has its answer, or gives up.
CallEnds(k) == call[k].phase \in {"called", "stored"} /\ Ends(k)

EditComment ==
    \E c \in Texts :
        /\ comment.updated < clock
        /\ c.author = comment.text.author
        /\ comment' = [text |-> c, updated |-> clock]
        /\ versions' = versions \cup {comment'}
        /\ UNCHANGED <<clock, call, signals>>

ClockTicks ==
    /\ clock < LastTick
    /\ clock' = clock + 1
    /\ UNCHANGED <<comment, versions, call, signals>>

CommentNext ==
    \/ EditComment \/ ClockTicks
    \/ \E k \in Callers :
          \/ Retrieve(k) \/ ClassifiesNothing(k) \/ LooksUp(k) \/ Inserts(k)
          \/ CallFails(k) \/ CallRepeats(k) \/ CallEnds(k)

CommentSpec == CommentInit /\ [][CommentNext]_cvars

----------------------------------------------------------------------------
(* Properties.                                                              *)

\* Version v of the comment was what people read at time t.
StoodAt(v, t) ==
    v.updated <= t /\ \A w \in versions : w.updated > v.updated => t <= w.updated

\* What a row says of version v is what v said, by the tables of authors: its one
\* category, by a mapped author, undoubted, and current only if it was so when read.
Tells(g, v) ==
    /\ v.text.matches = {g.category} /\ ~v.text.disqualified
    /\ g.authorType = AuthorType(v.text.author) /\ g.authorType # "unmapped"
    /\ g.window => g.category = Temporary /\ v.text.window
    /\ g.freshness = "current" <=> g.retrieved <= v.updated + Day

\* Each row tells what the comment said when it was retrieved, also of a text that was
\* edited away before the tool was called or since: no row is claimed from one version
\* in the name of another, or from an author nobody knows.
RowsTellTheirVersion ==
    \A i \in DOMAIN signals : \E v \in versions :
        /\ v.updated = signals[i].updated
        /\ StoodAt(v, signals[i].retrieved)
        /\ Tells(signals[i], v)

\* In the order of their retrieval times the rows follow the edits of the comment,
\* whatever the order in which the calls that stored them ended.
RowsFollowEdits ==
    \A i, j \in DOMAIN signals :
        signals[i].retrieved < signals[j].retrieved =>
            signals[i].updated <= signals[j].updated

\* One observation is one row, however often and by however many callers it is stored
\* at the same time.
RowsAreUnique ==
    \A i, j \in DOMAIN signals : i # j => signals[i] # signals[j]

\* normalize_comment_evidence keeps a true history of the comment.
SignalsAreTrue == RowsTellTheirVersion /\ RowsFollowEdits /\ RowsAreUnique

=============================================================================
