------------------------------ MODULE Browser ------------------------------
(***************************************************************************)
(* One conversation in the dashboard: its tree of messages                 *)
(* (lib/branches.ts), its stream (hooks/use-conversation-streams.ts,       *)
(* lib/api.ts) and the handlers and effects of components/chat-shell.tsx   *)
(* that tie the two.  Every handler is one turn of the event loop; React   *)
(* runs the effects of a render before the next click.                     *)
(***************************************************************************)
EXTENDS Naturals, Sequences, SequencesExt

CONSTANTS
    MaxNodes,    \* bound on the messages of the conversation
    MaxRuns,     \* bound on the streams started
    NoValue

ASSUME BrowserAssumption == MaxNodes \in Nat /\ MaxRuns \in Nat

VARIABLES
    nodes,       \* the messages, by id: role, parent_id (0: a root), the run an
                 \* assistant message came from, and grounding_pending
    children,    \* the child ids of each message; of 0: root_children
    selected,    \* selected_child_id; of 0: selected_root_id; 0: none
    phase,       \* status.phase
    controller,  \* "none", "live" or "aborted"
    completion,  \* what the archive effect has to append
    patch,       \* the grounding patch not applied yet
    served,      \* the stream: "open", "pending" (answered, the judge at
                 \* work), "settled" (answered) or "failed"
    runs,        \* history: the question, the context and the retry flag of each run
    deleted

bvars == <<nodes, children, selected, phase, controller, completion, patch, served,
           runs, deleted>>

tree == <<nodes, children, selected>>

Ids == 1..Len(nodes)
Role(i) == nodes[i].role

BInit ==
    /\ nodes = <<>>
    /\ children = [i \in 0..MaxNodes |-> <<>>]
    /\ selected = [i \in 0..MaxNodes |-> 0]
    /\ phase = "idle" /\ controller = "none"
    /\ completion = NoValue /\ patch = NoValue
    /\ served = "settled" /\ runs = <<>> /\ deleted = FALSE

-----------------------------------------------------------------------------
(* The tree.                                                               *)

\* The messages of ns from the root down to i; ids grow away from the root.
ancestorsIn(ns, i) ==
    LET above[j \in 0..Len(ns)] ==
            IF j = 0 THEN {} ELSE {j} \cup above[ns[j].parent]
    IN above[i]

ancestors(i) == ancestorsIn(nodes, i)

\* The walk along the selection from the root comes by the messages that are
\* selected, and so are all above them.
activePathNodes == {i \in Ids : \A j \in ancestors(i) : selected[nodes[j].parent] = j}

activeLeaf == CHOOSE i \in activePathNodes \cup {0} :
                  \A j \in activePathNodes : j <= i

\* Mutant: the walk does not stop at the message that is replaced.
historyUpTo_all(i) == activePathNodes

historyUpTo(i) == {j \in activePathNodes : j < i}

\* The new message is the last child of p, and the selected one.
appendChildOf(p, n) ==
    /\ nodes' = Append(nodes, n)
    /\ children' = [children EXCEPT ![p] = Append(@, Len(nodes) + 1)]
    /\ selected' = [selected EXCEPT ![p] = Len(nodes) + 1]

\* The messages a fork's navigator offers for i.
siblingsOfNode(i) == Range(children[nodes[i].parent])

switchToSibling(i, s) == selected' = [selected EXCEPT ![nodes[i].parent] = s]

\* Every fork above i shows the way to i; the others keep their selection.
selectPathTo(i) ==
    LET chain == ancestors(i) IN
    selected' = [p \in 0..MaxNodes |->
        LET next == {j \in chain : nodes[j].parent = p} IN
        IF next = {} THEN selected[p] ELSE CHOOSE j \in next : TRUE]

\* The verdicts go into the answer of run r, if it is there.
updateAssistantGrounding(r) ==
    nodes' = [i \in Ids |-> IF nodes[i].run = r
                            THEN [nodes[i] EXCEPT !.pending = FALSE] ELSE nodes[i]]

makeUserNode(p) == [role |-> "user", parent |-> p, run |-> 0, pending |-> FALSE]

makeAssistantNode(c) ==
    [role |-> "assistant", parent |-> c.parent, run |-> c.run, pending |-> c.pending]

-----------------------------------------------------------------------------
(* The stream hook.                                                        *)

\* A conversation is in flight as long as its controller is registered.
Busy == controller # "none"

\* submit: silently refused while the conversation is in flight.
submit(question, history, retry) ==
    IF Busy
    THEN UNCHANGED <<phase, controller, completion, patch, served, runs>>
    ELSE /\ phase' = "running" /\ controller' = "live"
         /\ completion' = NoValue /\ patch' = NoValue
         /\ served' = "open"
         /\ runs' = Append(runs, [question |-> question, history |-> history, retry |-> retry])

Run == Len(runs)
Listening == controller = "live" /\ ~deleted

\* The answer event; with grounding pending in the deferred and incremental
\* modes.
AnswerEvent(pending) ==
    /\ Listening /\ served = "open"
    /\ completion' = [parent |-> runs[Run].question, run |-> Run, pending |-> pending]
    /\ phase' = "done"
    /\ served' = IF pending THEN "pending" ELSE "settled"
    /\ UNCHANGED <<nodes, children, selected, controller, patch, runs, deleted>>

\* grounding.partial and grounding.completed, the judge's last word.
GroundingEvent(last) ==
    /\ Listening /\ served = "pending"
    /\ patch' = Run
    /\ served' = IF last THEN "settled" ELSE served
    /\ UNCHANGED <<nodes, children, selected, phase, controller, completion, runs, deleted>>

\* The error event: before the answer, or after it (a commit that fails).
ErrorEvent ==
    /\ Listening /\ served # "failed"
    /\ phase' = "error" /\ served' = "failed"
    /\ UNCHANGED <<nodes, children, selected, controller, completion, patch, runs, deleted>>

\* The stream is read to its end.
StreamEnds ==
    /\ Listening /\ served \in {"settled", "failed"}
    /\ controller' = "none"
    /\ UNCHANGED <<nodes, children, selected, phase, completion, patch, served, runs, deleted>>

\* An HTTP error, a lost connection or an unreadable frame.
StreamRejects ==
    /\ Listening
    /\ phase' = "error" /\ controller' = "none" /\ served' = "failed"
    /\ UNCHANGED <<nodes, children, selected, completion, patch, runs, deleted>>

\* The abort of stop or of reset is caught: what was streamed so far is the
\* answer.  Of a deleted conversation nothing is left to append it to.
AbortCaught ==
    /\ controller = "aborted"
    /\ controller' = "none" /\ phase' = "done" /\ served' = "settled"
    /\ completion' = IF deleted THEN NoValue
                     ELSE [parent |-> runs[Run].question, run |-> Run, pending |-> FALSE]
    /\ UNCHANGED <<nodes, children, selected, patch, runs, deleted>>

clearCompletion == completion' = NoValue

\* The stream of a conversation is dropped, and aborted if it runs.
reset ==
    /\ phase' = "idle"
    /\ controller' = IF controller = "live" THEN "aborted" ELSE controller
    /\ UNCHANGED <<completion, patch, served, runs>>

-----------------------------------------------------------------------------
(* The effects of chat-shell.                                              *)

ArchiveEffect ==
    /\ completion # NoValue /\ ~deleted
    /\ appendChildOf(completion.parent, makeAssistantNode(completion))
    /\ clearCompletion
    /\ UNCHANGED <<phase, controller, patch, served, runs, deleted>>

\* The patch goes to the message of its run, once that is archived.
GroundingEffect ==
    /\ patch # NoValue /\ completion = NoValue /\ ~deleted
    /\ updateAssistantGrounding(patch)
    /\ patch' = NoValue
    /\ UNCHANGED <<children, selected, phase, controller, completion, served, runs, deleted>>

-----------------------------------------------------------------------------
(* The user.                                                               *)

\* The page is rendered and its effects are done.
Rendered == ~deleted /\ completion = NoValue /\ patch = NoValue

\* Room for a question, its answer, and the run between them.
Room == Len(nodes) + 2 <= MaxNodes /\ Len(runs) < MaxRuns

handleSubmit ==
    /\ Rendered /\ phase # "running" /\ Room
    /\ appendChildOf(activeLeaf, makeUserNode(activeLeaf))
    /\ submit(Len(nodes) + 1, activePathNodes, FALSE)
    /\ UNCHANGED deleted

\* A sibling of message i, which is on the path the page shows.
handleEditUserMessage(i) ==
    /\ Rendered /\ phase # "running" /\ Room
    /\ i \in activePathNodes /\ Role(i) = "user"
    /\ appendChildOf(nodes[i].parent, makeUserNode(nodes[i].parent))
    /\ submit(Len(nodes) + 1, historyUpTo(i), FALSE)
    /\ UNCHANGED deleted

handleRetryAssistant(i) ==
    /\ Rendered /\ phase # "running" /\ Room
    /\ i \in activePathNodes /\ Role(i) = "assistant"
    /\ submit(nodes[i].parent, historyUpTo(i), TRUE)
    /\ UNCHANGED <<nodes, children, selected, deleted>>

\* The navigator of a fork: s is a sibling of a message on the path.
handleSwitchBranch(i, s) ==
    /\ Rendered
    /\ i \in activePathNodes /\ s \in siblingsOfNode(i)
    /\ switchToSibling(i, s)
    /\ UNCHANGED <<nodes, children, phase, controller, completion, patch, served, runs, deleted>>

\* A match of the history search, on any branch.
handleSelectFromHistory(i) ==
    /\ Rendered /\ i \in Ids
    /\ selectPathTo(i)
    /\ UNCHANGED <<nodes, children, phase, controller, completion, patch, served, runs, deleted>>

\* The Stop button is there while the stream runs.
handleStop ==
    /\ Rendered /\ phase = "running" /\ controller = "live"
    /\ controller' = "aborted"
    /\ UNCHANGED <<nodes, children, selected, phase, completion, patch, served, runs, deleted>>

\* Refused while the stream runs.
confirmPendingDelete ==
    /\ Rendered /\ phase # "running"
    /\ deleted' = TRUE
    /\ nodes' = <<>>
    /\ children' = [i \in 0..MaxNodes |-> <<>>] /\ selected' = [i \in 0..MaxNodes |-> 0]
    /\ reset

BNext ==
    \/ handleSubmit \/ handleStop \/ confirmPendingDelete
    \/ \E i \in Ids :
          \/ handleEditUserMessage(i) \/ handleRetryAssistant(i)
          \/ handleSelectFromHistory(i)
          \/ \E s \in Ids : handleSwitchBranch(i, s)
    \/ \E b \in BOOLEAN : AnswerEvent(b) \/ GroundingEvent(b)
    \/ ErrorEvent \/ StreamEnds \/ StreamRejects \/ AbortCaught
    \/ ArchiveEffect \/ GroundingEffect

-----------------------------------------------------------------------------
BrowserTypeOK ==
    /\ nodes \in Seq([role : {"user", "assistant"}, parent : 0..MaxNodes,
                      run : 0..MaxRuns, pending : BOOLEAN])
    /\ Len(nodes) <= MaxNodes
    /\ selected \in [0..MaxNodes -> 0..MaxNodes]
    /\ phase \in {"idle", "running", "done", "error"}
    /\ controller \in {"none", "live", "aborted"}
    /\ Len(runs) <= MaxRuns

\* However the user edits, retries, switches branches or stops while answers
\* and verdicts arrive, an answer hangs under the question its run was asked,
\* no run leaves two answers, and what the model was told before the question
\* is the branch the answer is shown on (a retry also repeats the question).
AnswersTheirQuestion ==
    \A i \in Ids : Role(i) = "assistant" =>
        LET r == runs[nodes[i].run] IN
        /\ nodes[i].parent = r.question
        /\ \A j \in Ids : nodes[j].run = nodes[i].run => j = i
        /\ r.history = ancestors(r.question) \ (IF r.retry THEN {} ELSE {r.question})
=============================================================================
