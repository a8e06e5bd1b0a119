------------------------------ MODULE Gateway ------------------------------
(***************************************************************************)
(* The approval gateway of wolf-server: the ledger of action proposals     *)
(* (gateway/models.py), the HTTP handlers that decide and execute them     *)
(* (api/action_proposals.py over gateway/approval.py, gateway/execution.py *)
(* and gateway/reversal.py), the propose tools that queue them             *)
(* (gateway/proposals.py) and the sweep that reverses timed blocks         *)
(* (gateway/scheduler.py).                                                 *)
(*                                                                         *)
(* Every handler runs in one database transaction.  A handler reads the    *)
(* committed row without a lock, decides, and writes at its first flush:   *)
(* the flush takes the row lock and holds it until commit or rollback, and *)
(* nobody else sees the written columns before the commit.  The model      *)
(* keeps the committed rows in db, the row locks in lock, and what a       *)
(* handler has read or written but not committed in req.                   *)
(***************************************************************************)
EXTENDS Naturals, Sequences, FiniteSets

CONSTANTS
    Users,          \* people with an account
    Proposers,      \* users who ask for actions in chat
    Approvers,      \* users whose role has ACTION_APPROVE
    OrgOf,          \* user -> organization
    Forwards,       \* ids of forward proposals
    Classes,        \* action classes in use, a subset of ActionClasses
    Requests,       \* request handlers that can be in flight at once
    Sweepers,       \* processes that run the auto-reversal sweep
    Wolf,           \* WOLF_SYSTEM_ACTOR
    Null,           \* SQL NULL, and "nobody" in lock
    TTL,            \* proposal time to live
    Duration,       \* block_duration_seconds of a timed block
    SweepLimit,     \* most candidates one sweep selects
    MaxTime,        \* bound on the clock
    MaxAborts,      \* bound on rollbacks: crashes, transport and database failures
    MaxEdits,       \* bound on out-of-band edits of a row
    SerialDeciders  \* TRUE: no two requests decide one proposal at the same time

ActionClasses == {"active_response", "agent_action", "rule_tuning", "config_change"}

ASSUME GatewayAssumption ==
    /\ Approvers \subseteq Users /\ Proposers \subseteq Users
    /\ Classes \subseteq ActionClasses
    /\ TTL \in Nat \ {0} /\ Duration \in Nat \ {0} /\ SweepLimit \in Nat \ {0}
    /\ MaxTime \in Nat /\ MaxAborts \in Nat /\ MaxEdits \in Nat
    /\ SerialDeciders \in BOOLEAN
    /\ Wolf \notin Users /\ Null \notin Users \cup {Wolf}
    /\ Requests \cap Sweepers = {} /\ Null \notin Requests \cup Sweepers
    /\ Null \notin Forwards \cup (Forwards \X (Requests \cup Sweepers))
    /\ Forwards \cap (Forwards \X (Requests \cup Sweepers)) = {}

VARIABLES
    db,       \* committed rows of action_proposals
    lock,     \* row locks: the transaction that holds each row, or Null
    req,      \* request handlers: program counter and session state
    sweep,    \* sweepers: candidates left and the block claimed
    clock,    \* wall clock
    ran,      \* for each proposal, the bounded writes sent to Wazuh for it
    aborts, edits

vars == <<db, lock, req, sweep, clock, ran, aborts, edits>>

-----------------------------------------------------------------------------
(* The ledger.  A reversal's id is the block it reverses and the           *)
(* transaction that inserted it: a uuid nobody else can draw.              *)

Actors    == Requests \cup Sweepers
Reversals == Forwards \X Actors
Proposals == Forwards \cup Reversals

ProposalState == {"draft", "pending", "approved", "executing", "succeeded",
                  "failed", "rejected", "expired", "rolled_back"}

TERMINAL_STATES == {"succeeded", "failed", "rejected", "expired"}

\* Mutant: a failed proposal may be approved again.
ALLOWED_TRANSITIONS_retry ==
    { <<"pending", "approved">>, <<"pending", "rejected">>, <<"pending", "expired">>,
      <<"approved", "executing">>, <<"approved", "expired">>,
      <<"executing", "succeeded">>, <<"executing", "failed">>,
      <<"succeeded", "rolled_back">>, <<"failed", "approved">> }

ALLOWED_TRANSITIONS ==
    { <<"draft", "pending">>,
      <<"pending", "approved">>, <<"pending", "rejected">>, <<"pending", "expired">>,
      <<"approved", "executing">>, <<"approved", "expired">>,
      <<"executing", "succeeded">>, <<"executing", "failed">>,
      <<"succeeded", "rolled_back">> }

can_transition(current, target) == <<current, target>> \in ALLOWED_TRANSITIONS

NoTime == 0     \* NULL in a time column: every stamped time is positive

ActionProposal ==
    [ state    : ProposalState \cup {"absent"},
      class    : ActionClasses,
      org      : {OrgOf[u] : u \in Users} \cup {Null},
      by       : Users \cup {Wolf, Null},          \* requested_by
      approver : Users \cup {Wolf, Null},          \* approved_by
      reverses : Forwards \cup {Null},             \* reverses_proposal_id
      reversal : Reversals \cup {Null},            \* reversal_proposal_id
      expires  : Nat,                              \* expires_at
      due      : Nat,                              \* auto_unblock_at
      timed    : BOOLEAN,                          \* has a block_duration_seconds
      altered  : BOOLEAN ]                         \* substance no longer hashes to content_hash

AbsentRow ==
    [ state |-> "absent", class |-> "active_response", org |-> Null, by |-> Null,
      approver |-> Null, reverses |-> Null, reversal |-> Null, expires |-> NoTime,
      due |-> NoTime, timed |-> FALSE, altered |-> FALSE ]

Exists(p) == db[p].state # "absent"

\* A new row: pending, hashed over its substance, with its time to live.
create_proposal(class, org, by, reverses, timed) ==
    [ state |-> "pending", class |-> class, org |-> org, by |-> by,
      approver |-> Null, reverses |-> reverses, reversal |-> Null,
      expires |-> clock + TTL, due |-> NoTime, timed |-> timed, altered |-> FALSE ]

is_expired(p) == clock >= db[p].expires

is_reversal(p) == db[p].reverses # Null

stamp_auto_unblock_at(row, executed_at) ==
    IF row.timed THEN executed_at + Duration ELSE row.due

\* A forward action that succeeded and that nobody has asked to undo.
find_active_action(p, org) ==
    /\ db[p].state = "succeeded" /\ db[p].org = org
    /\ db[p].reverses = Null /\ db[p].reversal = Null

\* Mutant: the stamp is the block's own id.
create_reversal_proposal_ownId(b, actor, row) ==
    [db EXCEPT ![b].reversal = b, ![<<b, actor>>] = row]

\* Mutant: the block is not stamped.
create_reversal_proposal_unstamped(b, actor, row) ==
    [db EXCEPT ![<<b, actor>>] = row]

\* Insert the reversal row and stamp the block with its id, in one transaction.
create_reversal_proposal(b, actor, row) ==
    [db EXCEPT ![b].reversal = <<b, actor>>, ![<<b, actor>>] = row]

\* Mutant: the hash is not checked again before execution.
HashMatches_unchecked(r) == TRUE

\* What compute_content_hash of the loaded substance says against content_hash.
HashMatches(r) == ~req[r].altered

-----------------------------------------------------------------------------
(* Request handlers.  st is the state written in the session, orig the     *)
(* state of the reversed block as the session's identity map holds it, at  *)
(* the executed_at stamp.                                                  *)

IdleRequest ==
    [ pc |-> "idle", p |-> Null, user |-> Null, st |-> "absent",
      orig |-> "absent", at |-> NoTime, altered |-> FALSE ]

Session ==
    [ pc      : {"idle", "sign", "decline", "fresh", "perform", "commit", "undo", "stamped"},
      p       : Proposals \cup {Null},
      user    : Users \cup {Null},
      st      : ProposalState \cup {"absent"},
      orig    : ProposalState \cup {"absent"},
      at      : Nat,
      altered : BOOLEAN ]

Deciding(r, p) == req[r].p = p /\ req[r].pc \notin {"idle", "undo", "stamped"}

\* The caller's organization filters the row; nothing locks it.
load_proposal(r, u, p) ==
    /\ req[r].pc = "idle"
    /\ Exists(p) /\ db[p].org = OrgOf[u]
    /\ SerialDeciders => \A q \in Requests : ~Deciding(q, p)

Begin(r, u, p, pc, st) ==
    req' = [req EXCEPT ![r] =
              [ pc |-> pc, p |-> p, user |-> u, st |-> st, orig |-> "absent",
                at |-> NoTime, altered |-> db[p].altered ]]

\* Mutant: the end of a transaction leaves its locks behind.
EndTransaction_keepsLocks(r) ==
    /\ lock' = lock
    /\ req' = [req EXCEPT ![r] = IdleRequest]

\* Commit or rollback: every lock of the transaction goes, the handler returns.
EndTransaction(r) ==
    /\ lock' = [p \in Proposals |-> IF lock[p] = r THEN Null ELSE lock[p]]
    /\ req' = [req EXCEPT ![r] = IdleRequest]

Acquire(a, p) == lock[p] = Null /\ lock' = [lock EXCEPT ![p] = a]

\* Mutant: no separation of duties.
MayApprove_self(u, p) == u \in Approvers

MayApprove(u, p) == u \in Approvers /\ u # db[p].by

\* approve: the signature, while the time to live runs.
ApproveLoad(r, u, p) ==
    /\ load_proposal(r, u, p)
    /\ MayApprove(u, p) /\ ~is_expired(p)
    /\ can_transition(db[p].state, "approved")
    /\ Begin(r, u, p, "sign", "approved")
    /\ UNCHANGED <<db, lock, sweep, clock, ran, aborts, edits>>

\* approve: the time to live is over, so the row moves to expired instead.
ExpireLoad(r, u, p) ==
    /\ load_proposal(r, u, p)
    /\ MayApprove(u, p) /\ is_expired(p)
    /\ can_transition(db[p].state, "expired")
    /\ Begin(r, u, p, "decline", "expired")
    /\ UNCHANGED <<db, lock, sweep, clock, ran, aborts, edits>>

\* reject: an approver's decision, the requester's own included; no time to live.
RejectLoad(r, u, p) ==
    /\ load_proposal(r, u, p)
    /\ u \in Approvers
    /\ can_transition(db[p].state, "rejected")
    /\ Begin(r, u, p, "decline", "rejected")
    /\ UNCHANGED <<db, lock, sweep, clock, ran, aborts, edits>>

\* Flush and commit of expired or rejected; waits for the row.
DeclineCommit(r) ==
    LET p == req[r].p IN
    /\ req[r].pc = "decline" /\ lock[p] = Null
    /\ db' = [db EXCEPT ![p].state = req[r].st]
    /\ EndTransaction(r)
    /\ UNCHANGED <<sweep, clock, ran, aborts, edits>>

\* The flush of the approval: waits for the row, then holds it to the end.
ApproveFlush(r) ==
    /\ req[r].pc = "sign" /\ Acquire(r, req[r].p)
    /\ req' = [req EXCEPT ![r].pc = "fresh"]
    /\ UNCHANGED <<db, sweep, clock, ran, aborts, edits>>

\* Freshness of an active-response or snapshot reversal reads the ledger;
\* every other freshness check reads Wazuh.
ReadsLedger(p) == is_reversal(p) /\ db[p].class # "agent_action"

\* An active-response reversal records a directive; every other perform writes to Wazuh.
RecordOnly(p) == is_reversal(p) /\ db[p].class = "active_response"

\* Commit of the two columns approve writes; the rest of the row stays.
CommitState(r, st) ==
    db' = [db EXCEPT ![req[r].p].state = st, ![req[r].p].approver = req[r].user]

\* ContentHashMismatchError, or a WolfError out of the freshness read: the
\* handler commits what it flushed, the signature without an execution.
FreshnessRaises(r) ==
    /\ req[r].pc = "fresh"
    /\ HashMatches(r) => ~ReadsLedger(req[r].p)
    /\ CommitState(r, "approved")
    /\ EndTransaction(r)
    /\ UNCHANGED <<sweep, clock, ran, aborts, edits>>

\* The world moved, or the snapshot to restore is empty: approved -> expired,
\* committed, ProposalStaleError.
FreshnessStale(r) ==
    LET p == req[r].p IN
    /\ req[r].pc = "fresh" /\ HashMatches(r)
    /\ RecordOnly(p) => db[db[p].reverses].state = "rolled_back"
    /\ CommitState(r, "expired")
    /\ EndTransaction(r)
    /\ UNCHANGED <<sweep, clock, ran, aborts, edits>>

\* Still fresh: approved -> executing, flushed under the lock already held.
FreshnessOk(r) ==
    LET p == req[r].p IN
    /\ req[r].pc = "fresh" /\ HashMatches(r)
    /\ ReadsLedger(p) => db[db[p].reverses].state # "rolled_back"
    /\ req' = [req EXCEPT ![r].pc = "perform", ![r].st = "executing",
                 ![r].orig = IF ReadsLedger(p) THEN db[db[p].reverses].state ELSE @]
    /\ UNCHANGED <<db, lock, sweep, clock, ran, aborts, edits>>

\* perform and verify: the outcome lands in the session, the write in Wazuh.
\* A succeeded API reversal then loads its original (complete_api_reversal),
\* unless freshness already did.
Perform(r, outcome) ==
    LET p == req[r].p IN
    /\ req[r].pc = "perform"
    /\ RecordOnly(p) => outcome = "succeeded"
    /\ ran' = IF RecordOnly(p) THEN ran
              ELSE [ran EXCEPT ![p] = Append(@, [by |-> req[r].user,
                                                 altered |-> req[r].altered])]
    /\ req' = [req EXCEPT ![r].pc = "commit", ![r].st = outcome, ![r].at = clock,
                 ![r].orig = IF is_reversal(p) /\ @ = "absent"
                             THEN db[db[p].reverses].state ELSE @]
    /\ UNCHANGED <<db, lock, sweep, clock, aborts, edits>>

\* Mutant: a failed undo flips its original too.
RollsBack_anyOutcome(r) ==
    /\ is_reversal(req[r].p) /\ db[req[r].p].class # "active_response"
    /\ can_transition(req[r].orig, "rolled_back")

\* complete_api_reversal acts: the undo really ran and the original still succeeded.
RollsBack(r) ==
    /\ is_reversal(req[r].p) /\ db[req[r].p].class # "active_response"
    /\ req[r].st = "succeeded"
    /\ can_transition(req[r].orig, "rolled_back")

\* The final commit: the outcome, then the original's rolled_back (waiting for
\* its row) or the auto-reversal stamp of a timed block.
FinalCommit(r) ==
    LET p == req[r].p
        o == db[p].reverses
        executed == [db[p] EXCEPT !.state = req[r].st, !.approver = req[r].user,
                       !.due = IF req[r].st = "succeeded" /\ ~is_reversal(p)
                               THEN stamp_auto_unblock_at(db[p], req[r].at) ELSE @]
    IN
    /\ req[r].pc = "commit"
    /\ RollsBack(r) => lock[o] = Null
    /\ db' = IF RollsBack(r)
             THEN [db EXCEPT ![p] = executed, ![o].state = "rolled_back"]
             ELSE [db EXCEPT ![p] = executed]
    /\ EndTransaction(r)
    /\ UNCHANGED <<sweep, clock, ran, aborts, edits>>

-----------------------------------------------------------------------------
(* The propose tools, run inside a chat turn that commits at its end.      *)

\* Only a reversible active response carries a duration.
ProposeForward(u, p, class, timed) ==
    /\ ~Exists(p)
    /\ timed => class = "active_response"
    /\ db' = [db EXCEPT ![p] = create_proposal(class, OrgOf[u], u, Null, timed)]
    /\ UNCHANGED <<lock, req, sweep, clock, ran, aborts, edits>>

\* An undo recalls an active action of the caller's organization, unlocked, ...
UndoFind(r, u, b) ==
    /\ req[r].pc = "idle"
    /\ find_active_action(b, OrgOf[u])
    /\ Begin(r, u, b, "undo", "absent")
    /\ UNCHANGED <<db, lock, sweep, clock, ran, aborts, edits>>

\* ... checks the credential against Wazuh, then flushes the reversal and the stamp, ...
UndoStamp(r) ==
    /\ req[r].pc = "undo" /\ Acquire(r, req[r].p)
    /\ req' = [req EXCEPT ![r].pc = "stamped"]
    /\ UNCHANGED <<db, sweep, clock, ran, aborts, edits>>

\* ... and becomes visible when the chat turn commits.
UndoCommit(r) ==
    LET b == req[r].p IN
    /\ req[r].pc = "stamped"
    /\ db' = create_reversal_proposal(b, r,
                 create_proposal(db[b].class, db[b].org, req[r].user, b, FALSE))
    /\ EndTransaction(r)
    /\ UNCHANGED <<sweep, clock, ran, aborts, edits>>

\* A handler's transaction rolls back: the process or the database dies, the
\* Wazuh connection cannot be opened, or an exception that is no WolfError
\* leaves the handler.  What perform sent to Wazuh stays sent.
Abort(r) ==
    /\ req[r].pc # "idle" /\ aborts < MaxAborts
    /\ aborts' = aborts + 1
    /\ EndTransaction(r)
    /\ UNCHANGED <<db, sweep, clock, ran, edits>>

-----------------------------------------------------------------------------
(* The auto-reversal sweep.                                                *)

IdleSweep == [cands |-> {}, blk |-> Null, now |-> NoTime]

SweepState == [cands : SUBSET Proposals, blk : Proposals \cup {Null}, now : Nat]

\* Mutant: the window is not compared with the clock.
IsDue_early(p, now) ==
    db[p].state = "succeeded" /\ db[p].reversal = Null /\ db[p].due # NoTime

IsDue(p, now) ==
    /\ db[p].state = "succeeded" /\ db[p].reversal = Null
    /\ db[p].due # NoTime /\ db[p].due <= now

\* The SweepLimit earliest due blocks.
due_block_ids(cands, now) ==
    LET Due == {p \in Proposals : IsDue(p, now)} IN
    /\ cands \subseteq Due
    /\ \A p \in cands, q \in Due \ cands : db[p].due <= db[q].due
    /\ \/ cands = Due
       \/ Cardinality(cands) = SweepLimit
    /\ Cardinality(cands) <= SweepLimit

SweepSelect(s) ==
    /\ sweep[s].cands = {} /\ sweep[s].blk = Null
    /\ \E cands \in SUBSET {p \in Proposals : IsDue(p, clock)} \ {{}} :
          /\ due_block_ids(cands, clock)
          /\ sweep' = [sweep EXCEPT ![s] = [cands |-> cands, blk |-> Null, now |-> clock]]
    /\ UNCHANGED <<db, lock, req, clock, ran, aborts, edits>>

\* The sweep goes on with the candidates left, or is over.
SweepOn(cands, now) ==
    IF cands = {} THEN IdleSweep ELSE [cands |-> cands, blk |-> Null, now |-> now]

\* Mutant: a candidate is claimed without the second look.
CanClaim_blind(s, b) == lock[b] = Null

\* SELECT ... FOR UPDATE SKIP LOCKED with the conditions checked again.
CanClaim(s, b) == lock[b] = Null /\ IsDue(b, sweep[s].now)

claim_block(s, b) ==
    /\ sweep[s].blk = Null /\ b \in sweep[s].cands
    /\ CanClaim(s, b)
    /\ lock' = [lock EXCEPT ![b] = s]
    /\ sweep' = [sweep EXCEPT ![s].cands = @ \ {b}, ![s].blk = b]
    /\ UNCHANGED <<db, req, clock, ran, aborts, edits>>

SkipBlock(s, b) ==
    /\ sweep[s].blk = Null /\ b \in sweep[s].cands
    /\ ~CanClaim(s, b)
    /\ sweep' = [sweep EXCEPT ![s] = SweepOn(sweep[s].cands \ {b}, sweep[s].now)]
    /\ UNCHANGED <<db, lock, req, clock, ran, aborts, edits>>

\* Mutant: a failed auto-reversal keeps its row lock.
Unclaim_keepsLock(s) ==
    /\ lock' = lock
    /\ sweep' = [sweep EXCEPT ![s] = SweepOn(sweep[s].cands, sweep[s].now)]

Unclaim(s) ==
    /\ lock' = [p \in Proposals |-> IF lock[p] = s THEN Null ELSE lock[p]]
    /\ sweep' = [sweep EXCEPT ![s] = SweepOn(sweep[s].cands, sweep[s].now)]

\* Create, pre-approve and execute the reversal, then commit.  Its freshness
\* check re-reads the block the sweep has claimed, its perform is record-only.
auto_reverse(s) ==
    LET b == sweep[s].blk IN
    /\ b # Null
    /\ db' = create_reversal_proposal(b, s,
                 [create_proposal(db[b].class, db[b].org, Wolf, b, FALSE)
                    EXCEPT !.state = "succeeded", !.approver = Wolf])
    /\ Unclaim(s)
    /\ UNCHANGED <<req, clock, ran, aborts, edits>>

\* An exception in auto_reverse: rollback, and the next tick tries again.
AutoReverseFails(s) ==
    /\ sweep[s].blk # Null /\ aborts < MaxAborts
    /\ aborts' = aborts + 1
    /\ Unclaim(s)
    /\ UNCHANGED <<db, req, clock, ran, edits>>

-----------------------------------------------------------------------------
(* The environment.                                                        *)

Tick ==
    /\ clock < MaxTime
    /\ clock' = clock + 1
    /\ UNCHANGED <<db, lock, req, sweep, ran, aborts, edits>>

\* Somebody changes a row's substance in the database behind Wolf's back.
EditRow(p) ==
    /\ edits < MaxEdits /\ Exists(p) /\ lock[p] = Null
    /\ edits' = edits + 1
    /\ db' = [db EXCEPT ![p].altered = TRUE]
    /\ UNCHANGED <<lock, req, sweep, clock, ran, aborts>>

\* Nothing in flight: the server waits for the next request.
Waiting ==
    /\ \A r \in Requests : req[r].pc = "idle"
    /\ \A s \in Sweepers : sweep[s].cands = {} /\ sweep[s].blk = Null
    /\ UNCHANGED vars

Init ==
    /\ db = [p \in Proposals |-> AbsentRow]
    /\ lock = [p \in Proposals |-> Null]
    /\ req = [r \in Requests |-> IdleRequest]
    /\ sweep = [s \in Sweepers |-> IdleSweep]
    /\ ran = [p \in Proposals |-> <<>>]
    /\ clock = 0 /\ aborts = 0 /\ edits = 0

\* The steps a handler takes once it has begun.
HandlerStep(r) ==
    \/ DeclineCommit(r) \/ ApproveFlush(r)
    \/ FreshnessRaises(r) \/ FreshnessStale(r) \/ FreshnessOk(r)
    \/ \E outcome \in {"succeeded", "failed"} : Perform(r, outcome)
    \/ FinalCommit(r) \/ UndoStamp(r) \/ UndoCommit(r)

SweepStep(s) ==
    \/ SweepSelect(s)
    \/ \E b \in Proposals : claim_block(s, b) \/ SkipBlock(s, b)
    \/ auto_reverse(s)

Next ==
    \/ \E u \in Proposers, p \in Forwards, class \in Classes, timed \in BOOLEAN :
          ProposeForward(u, p, class, timed)
    \/ \E r \in Requests, u \in Users, p \in Proposals :
          ApproveLoad(r, u, p) \/ ExpireLoad(r, u, p) \/ RejectLoad(r, u, p)
    \/ \E r \in Requests, u \in Proposers, b \in Forwards : UndoFind(r, u, b)
    \/ \E r \in Requests : HandlerStep(r) \/ Abort(r)
    \/ \E s \in Sweepers : SweepStep(s) \/ AutoReverseFails(s)
    \/ \E p \in Proposals : EditRow(p)
    \/ Tick \/ Waiting

Spec == Init /\ [][Next]_vars

\* Handlers and sweepers that can move do: uvicorn drives every handler to its
\* end, the scheduler loop sweeps again and again, and time passes.
Fairness ==
    /\ \A r \in Requests : WF_vars(HandlerStep(r))
    /\ \A s \in Sweepers : WF_vars(SweepStep(s))
    /\ WF_vars(Tick)

FairSpec == Spec /\ Fairness

-----------------------------------------------------------------------------
(* Properties.                                                             *)

\* Types of the ledger columns, the sessions and the sweep.
TypeOK ==
    /\ db \in [Proposals -> ActionProposal]
    /\ lock \in [Proposals -> Actors \cup {Null}]
    /\ req \in [Requests -> Session]
    /\ sweep \in [Sweepers -> SweepState]
    /\ ran \in [Proposals -> Seq([by : Users, altered : BOOLEAN])]
    /\ clock \in Nat /\ aborts \in Nat /\ edits \in Nat

Independent(u, p) == u \in Approvers /\ u # db[p].by /\ OrgOf[u] = db[p].org

\* Separation of duties, end to end: every write sent to Wazuh was sent for
\* somebody of the proposal's organization who may approve and is not its
\* requester, and so is every human approver on the ledger; the only other
\* approver is the scheduler, and only of a reversal it requested itself.
FourEyes ==
    \A p \in Proposals :
        /\ \A i \in 1..Len(ran[p]) : Independent(ran[p][i].by, p)
        /\ db[p].approver \in Users => Independent(db[p].approver, p)
        /\ db[p].approver = Wolf => db[p].by = Wolf /\ is_reversal(p)

\* What reaches Wazuh is what was proposed: no row whose substance was changed
\* after its content hash was taken is ever performed.
PerformedAsProposed ==
    \A p \in Proposals : \A i \in 1..Len(ran[p]) : ~ran[p][i].altered

\* A block with a reversal on the ledger carries a stamp, and the stamp names a
\* reversal of that very block: what keeps the sweep and the undo tool away.
StampsMatchReversals ==
    \A p \in Proposals :
        /\ Exists(p) /\ is_reversal(p) => db[db[p].reverses].reversal # Null
        /\ db[p].reversal # Null =>
              Exists(db[p].reversal) /\ db[db[p].reversal].reverses = p

\* The sweep reverses a block at most once, however many sweepers run and
\* whatever the handlers do in between.
SweepReversesOnce ==
    \A p, q \in Reversals :
        db[p].by = Wolf /\ db[q].by = Wolf /\ db[p].reverses = db[q].reverses => p = q

\* The sweep reverses only a block that ran, and not before its window is over.
SweepWaitsForWindow ==
    \A p \in Reversals :
        db[p].by = Wolf => LET b == db[p].reverses IN
            ran[b] # <<>> /\ db[b].due # NoTime /\ db[b].due <= clock

\* "succeeded -> rolled_back is the only post-terminal transition": a committed
\* terminal state is never overwritten otherwise, rolled_back never, and that
\* one is taken in the step that records a reversal of it as succeeded, and
\* in no other (the record of a lifted block flips nothing).
TerminalIsFinal ==
    [][\A p \in Proposals :
        /\ db[p].state \in TERMINAL_STATES \cup {"rolled_back"} /\ db'[p].state # db[p].state =>
              db[p].state = "succeeded" /\ db'[p].state = "rolled_back"
        /\ db[p].state # "rolled_back" =>
              ( db'[p].state = "rolled_back" <=>
                  \E r \in Reversals :
                      /\ db'[r].reverses = p /\ db'[r].class # "active_response"
                      /\ db[r].state # "succeeded" /\ db'[r].state = "succeeded" )]_vars

\* Every timed block whose window ends is taken over by some reversal.
DueBlocksAreTaken ==
    \A b \in Forwards :
        (db[b].state = "succeeded" /\ db[b].due # NoTime /\ db[b].due <= MaxTime)
            ~> (db[b].reversal # Null)

\* No handler waits for ever on another's row lock.
HandlersReturn == \A r \in Requests : (req[r].pc # "idle") ~> (req[r].pc = "idle")

WindowOver(b) ==
    db[b].state = "succeeded" /\ db[b].due # NoTime /\ db[b].due <= clock

ReversalsOf(b) == {p \in Reversals : Exists(p) /\ db[p].reverses = b}

\* "periodically reverses any block whose window has expired": when its window
\* is over and every manual undo of it was declined, the block is still reversed.
DeclinedUndoKeepsTimer ==
    \A b \in Forwards :
        (/\ WindowOver(b) /\ ReversalsOf(b) # {}
         /\ \A p \in ReversalsOf(b) : db[p].state \in {"rejected", "expired"})
            ~> (\E p \in ReversalsOf(b) : db[p].state = "succeeded")

\* The gateway keeps the contract of ActionContract.
Contract == INSTANCE ActionContract
    WITH life <- [p \in Proposals |-> db[p].state],
         sent <- [p \in Proposals |-> Len(ran[p])]

\* Each transaction is one step of the contract: queued, sent, decided,
\* recorded or rolled back, each at most once.
KeepsContract == Contract!ContractSpec
=============================================================================
