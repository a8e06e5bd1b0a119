--------------------------- MODULE GatewayProofs ---------------------------
(* Theorems about Gateway, for every set of users, handlers and sweepers.   *)
EXTENDS Gateway, TLAPS

\* A row that is not there is the empty row, and nothing was performed for it.
\* A forward row reverses nothing; a reversal row reverses the block its id
\* names, which is there and stamped, and carries no window of its own.
RowInv ==
    \A p \in Proposals :
        /\ ~Exists(p) => db[p] = AbsentRow /\ ran[p] = <<>>
        /\ p \in Forwards => db[p].reverses = Null
        /\ p \in Reversals => ~db[p].timed /\ db[p].due = NoTime
        /\ p \in Reversals /\ Exists(p) =>
              db[p].reverses = p[1] /\ Exists(p[1]) /\ db[p[1]].reversal # Null

\* What a handler in flight has checked stays true of the row it loaded: the
\* columns its checks read are never written again.
SessionOK(r) ==
    /\ req[r].pc # "idle" =>
          req[r].p \in Proposals /\ req[r].user \in Users /\ Exists(req[r].p)
    /\ req[r].pc \in {"sign", "fresh", "perform", "commit"} =>
          Independent(req[r].user, req[r].p)
    /\ req[r].pc \in {"perform", "commit"} => ~req[r].altered
    /\ req[r].pc \in {"decline", "sign", "fresh", "perform", "commit"} =>
          req[r].st # "absent"
    /\ req[r].pc \in {"undo", "stamped"} =>
          req[r].p \in Forwards /\ ~Exists(<<req[r].p, r>>)

SessionInv == \A r \in Requests : SessionOK(r)

\* A sweeper looks at forward rows only, and a block it has claimed is locked
\* by it and has no reversal yet.
SweepOK(s) ==
    /\ sweep[s].cands \subseteq Forwards
    /\ sweep[s].blk # Null =>
          /\ sweep[s].blk \in Forwards /\ Exists(sweep[s].blk)
          /\ lock[sweep[s].blk] = s /\ db[sweep[s].blk].reversal = Null

SweepInv == \A s \in Sweepers : SweepOK(s)

\* A handler holds the row it has written until it commits.
LockOK(r) ==
    req[r].pc \in {"fresh", "perform", "commit", "stamped"} => lock[req[r].p] = r

LockInv == \A r \in Requests : LockOK(r)

LedgerInv ==
    RowInv /\ FourEyes /\ PerformedAsProposed /\ StampsMatchReversals /\ SweepReversesOnce

IndInv == TypeOK /\ LedgerInv /\ SessionInv /\ SweepInv /\ LockInv

\* The empty ledger, with nobody in flight, satisfies the invariant.
LEMMA InitIndInv == Init => IndInv
<1> SUFFICES ASSUME Init PROVE IndInv
    OBVIOUS
<1> USE GatewayAssumption DEF Init, AbsentRow, IdleRequest, IdleSweep, NoTime
<1>1. TypeOK
    BY DEF TypeOK, ActionProposal, Session, SweepState, ActionClasses, ProposalState, Proposals, Reversals, Actors
<1>2. RowInv
    BY DEF RowInv, Exists, Proposals, Reversals, Actors
<1>3. SessionInv /\ SweepInv /\ LockInv
    BY DEF SessionInv, SweepInv, LockInv, SessionOK, SweepOK, LockOK
<1>4. FourEyes /\ PerformedAsProposed /\ StampsMatchReversals /\ SweepReversesOnce
    BY DEF FourEyes, PerformedAsProposed, StampsMatchReversals, SweepReversesOnce, Exists, is_reversal, Proposals
<1> QED BY <1>1, <1>2, <1>3, <1>4 DEF IndInv, LedgerInv

\* create_proposal builds a well-typed row.
LEMMA RowTyped ==
    ASSUME NEW class \in ActionClasses, NEW org \in {OrgOf[u] : u \in Users} \cup {Null},
           NEW by \in Users \cup {Wolf, Null}, NEW reverses \in Forwards \cup {Null},
           NEW timed \in BOOLEAN, clock \in Nat
    PROVE  create_proposal(class, org, by, reverses, timed) \in ActionProposal
<1>1. clock + TTL \in Nat
    BY GatewayAssumption
<1> QED BY <1>1 DEF create_proposal, ActionProposal, ProposalState, NoTime

\* Writing one column of a row keeps it well-typed.
LEMMA RowFields ==
    ASSUME NEW row \in ActionProposal
    PROVE  /\ \A st \in ProposalState : [row EXCEPT !.state = st] \in ActionProposal
           /\ \A u \in Users \cup {Wolf, Null} : [row EXCEPT !.approver = u] \in ActionProposal
           /\ \A d \in Nat : [row EXCEPT !.due = d] \in ActionProposal
           /\ \A q \in Reversals : [row EXCEPT !.reversal = q] \in ActionProposal
           /\ [row EXCEPT !.altered = TRUE] \in ActionProposal
<1>1. \A st \in ProposalState : [row EXCEPT !.state = st] \in ActionProposal
    BY DEF ActionProposal
<1>2. \A u \in Users \cup {Wolf, Null} : [row EXCEPT !.approver = u] \in ActionProposal
    BY DEF ActionProposal
<1>3. \A d \in Nat : [row EXCEPT !.due = d] \in ActionProposal
    BY DEF ActionProposal
<1>4. \A q \in Reversals : [row EXCEPT !.reversal = q] \in ActionProposal
    BY DEF ActionProposal
<1>5. [row EXCEPT !.altered = TRUE] \in ActionProposal
    BY DEF ActionProposal
<1> QED BY <1>1, <1>2, <1>3, <1>4, <1>5

PC == {"idle", "sign", "decline", "fresh", "perform", "commit", "undo", "stamped"}

\* A handler that loads a row starts a well-typed session.
LEMMA BeginTyped ==
    ASSUME TypeOK, NEW r \in Requests, NEW u \in Users, NEW p \in Proposals,
           NEW pc \in PC, NEW st \in ProposalState \cup {"absent"}, Begin(r, u, p, pc, st)
    PROVE  req' \in [Requests -> Session]
<1>1. db[p].altered \in BOOLEAN
    BY DEF TypeOK, ActionProposal
<1>2. [pc |-> pc, p |-> p, user |-> u, st |-> st, orig |-> "absent",
       at |-> NoTime, altered |-> db[p].altered] \in Session
    BY <1>1 DEF Session, NoTime, PC
<1> QED BY <1>2 DEF Begin, TypeOK

\* The resting session and sweep are well-typed.
LEMMA IdleTyped == IdleRequest \in Session /\ IdleSweep \in SweepState
    BY DEF IdleRequest, Session, IdleSweep, SweepState, NoTime

\* The end of a transaction keeps the locks and the sessions typed.
LEMMA EndTyped ==
    ASSUME TypeOK, NEW r \in Requests, EndTransaction(r)
    PROVE  /\ lock' \in [Proposals -> Actors \cup {Null}]
           /\ req' \in [Requests -> Session]
    BY IdleTyped DEF EndTransaction, TypeOK

\* The end of an auto-reversal keeps the locks and the sweeps typed.
LEMMA UnclaimTyped ==
    ASSUME TypeOK, NEW s \in Sweepers, Unclaim(s)
    PROVE  /\ lock' \in [Proposals -> Actors \cup {Null}]
           /\ sweep' \in [Sweepers -> SweepState]
<1>1. sweep[s].cands \in SUBSET Proposals /\ sweep[s].now \in Nat
    BY DEF TypeOK, SweepState
<1>2. SweepOn(sweep[s].cands, sweep[s].now) \in SweepState
    BY <1>1, IdleTyped DEF SweepOn, SweepState
<1> QED BY <1>2 DEF Unclaim, TypeOK

\* Every action keeps the types, given what its session remembers.
LEMMA TypeStep == ASSUME IndInv, Next PROVE TypeOK'
<1> USE DEF IndInv
<1>1. ASSUME NEW u \in Proposers, NEW p \in Forwards, NEW class \in Classes, NEW timed \in BOOLEAN,
             ProposeForward(u, p, class, timed)
      PROVE TypeOK'
  <2>1. create_proposal(class, OrgOf[u], u, Null, timed) \in ActionProposal
      BY RowTyped, GatewayAssumption DEF TypeOK
  <2>2. p \in Proposals
      BY DEF Proposals
  <2> QED BY <1>1, <2>1, <2>2 DEF TypeOK, ProposeForward
<1>2. ASSUME NEW r \in Requests, NEW u \in Users, NEW p \in Proposals,
             ApproveLoad(r, u, p) \/ ExpireLoad(r, u, p) \/ RejectLoad(r, u, p)
      PROVE TypeOK'
  <2>1. req' \in [Requests -> Session]
      BY <1>2, BeginTyped DEF ApproveLoad, ExpireLoad, RejectLoad, PC, ProposalState
  <2> QED BY <1>2, <2>1 DEF TypeOK, ApproveLoad, ExpireLoad, RejectLoad
<1>3. ASSUME NEW r \in Requests, NEW u \in Proposers, NEW b \in Forwards, UndoFind(r, u, b)
      PROVE TypeOK'
  <2>1. req' \in [Requests -> Session]
      BY <1>3, BeginTyped, GatewayAssumption DEF UndoFind, PC, Proposals
  <2> QED BY <1>3, <2>1 DEF TypeOK, UndoFind
<1>4. ASSUME NEW r \in Requests, HandlerStep(r) PROVE TypeOK'
  <2> DEFINE p == req[r].p
  <2>0. req[r] \in Session /\ (req[r].pc # "idle" => p \in Proposals /\ req[r].user \in Users /\ db[p] \in ActionProposal)
      BY DEF TypeOK, SessionInv, SessionOK
  <2>1. CASE DeclineCommit(r)
    <3>1. p \in Proposals /\ db[p] \in ActionProposal /\ req[r].st \in ProposalState
        BY <2>0, <2>1 DEF DeclineCommit, Session, SessionInv, SessionOK
    <3>2. db' \in [Proposals -> ActionProposal]
        BY <2>1, <3>1, RowFields DEF DeclineCommit, TypeOK
    <3> QED BY <2>1, <3>2, EndTyped DEF DeclineCommit, TypeOK
  <2>2. CASE ApproveFlush(r) \/ UndoStamp(r)
    <3>1. p \in Proposals
        BY <2>0, <2>2 DEF ApproveFlush, UndoStamp
    <3>2. lock' \in [Proposals -> Actors \cup {Null}]
        BY <2>2, <3>1 DEF ApproveFlush, UndoStamp, Acquire, TypeOK, Actors
    <3>3. \A pc \in {"fresh", "stamped"} : [req[r] EXCEPT !.pc = pc] \in Session
        BY <2>0 DEF Session
    <3>4. req' \in [Requests -> Session]
        BY <2>2, <3>3 DEF ApproveFlush, UndoStamp, TypeOK
    <3> QED BY <2>2, <3>2, <3>4 DEF ApproveFlush, UndoStamp, TypeOK
  <2>3. CASE FreshnessRaises(r) \/ FreshnessStale(r)
    <3>1. p \in Proposals /\ db[p] \in ActionProposal /\ req[r].user \in Users
        BY <2>0, <2>3 DEF FreshnessRaises, FreshnessStale
    <3>2. \A st \in ProposalState : [[db[p] EXCEPT !.state = st] EXCEPT !.approver = req[r].user] \in ActionProposal
        BY <3>1, RowFields
    <3>3. db' \in [Proposals -> ActionProposal]
        BY <2>3, <3>1, <3>2 DEF FreshnessRaises, FreshnessStale, CommitState, TypeOK, ProposalState
    <3> QED BY <2>3, <3>3, EndTyped DEF FreshnessRaises, FreshnessStale, TypeOK
  <2>4. CASE FreshnessOk(r)
    <3>1. p \in Proposals /\ db[p] \in ActionProposal
        BY <2>0, <2>4 DEF FreshnessOk
    <3>2. ReadsLedger(p) => db[db[p].reverses].state \in ProposalState \cup {"absent"}
      <4>1. ReadsLedger(p) => db[p].reverses \in Proposals
          BY <3>1 DEF ReadsLedger, is_reversal, ActionProposal, Proposals
      <4> QED BY <4>1 DEF TypeOK, ActionProposal
    <3>3. \A o \in ProposalState \cup {"absent"} :
            [[[req[r] EXCEPT !.pc = "perform"] EXCEPT !.st = "executing"] EXCEPT !.orig = o] \in Session
        BY <2>0 DEF Session, ProposalState
    <3>4. req[r].orig \in ProposalState \cup {"absent"}
        BY <2>0 DEF Session
    <3>5. req' \in [Requests -> Session]
        BY <2>4, <3>2, <3>3, <3>4 DEF FreshnessOk, TypeOK
    <3> QED BY <2>4, <3>5 DEF FreshnessOk, TypeOK
  <2>5. ASSUME NEW outcome \in {"succeeded", "failed"}, Perform(r, outcome) PROVE TypeOK'
    <3>1. p \in Proposals /\ db[p] \in ActionProposal /\ req[r].user \in Users
        BY <2>0, <2>5 DEF Perform
    <3>2. is_reversal(p) => db[db[p].reverses].state \in ProposalState \cup {"absent"}
      <4>1. is_reversal(p) => db[p].reverses \in Proposals
          BY <3>1 DEF is_reversal, ActionProposal, Proposals
      <4> QED BY <4>1 DEF TypeOK, ActionProposal
    <3>3. \A o \in ProposalState \cup {"absent"} :
            [[[[req[r] EXCEPT !.pc = "commit"] EXCEPT !.st = outcome] EXCEPT !.at = clock]
                EXCEPT !.orig = o] \in Session
        BY <2>0 DEF Session, ProposalState, TypeOK
    <3>4. req[r].orig \in ProposalState \cup {"absent"} /\ req[r].altered \in BOOLEAN
        BY <2>0 DEF Session
    <3>5. req' \in [Requests -> Session]
        BY <2>5, <3>2, <3>3, <3>4 DEF Perform, TypeOK
    <3>6. ran' \in [Proposals -> Seq([by : Users, altered : BOOLEAN])]
      <4>1. [by |-> req[r].user, altered |-> req[r].altered] \in [by : Users, altered : BOOLEAN]
          BY <3>1, <3>4
      <4>2. ran[p] \in Seq([by : Users, altered : BOOLEAN])
          BY <3>1 DEF TypeOK
      <4>3. Append(ran[p], [by |-> req[r].user, altered |-> req[r].altered])
              \in Seq([by : Users, altered : BOOLEAN])
          BY <4>1, <4>2
      <4> QED BY <2>5, <3>1, <4>3 DEF Perform, TypeOK
    <3> QED BY <2>5, <3>5, <3>6 DEF Perform, TypeOK
  <2>6. CASE FinalCommit(r)
    <3> DEFINE o == db[p].reverses
               executed == [db[p] EXCEPT !.state = req[r].st, !.approver = req[r].user,
                              !.due = IF req[r].st = "succeeded" /\ ~is_reversal(p)
                                      THEN stamp_auto_unblock_at(db[p], req[r].at) ELSE @]
    <3>1. p \in Proposals /\ db[p] \in ActionProposal /\ req[r].user \in Users /\ req[r].st \in ProposalState
        BY <2>0, <2>6 DEF FinalCommit, Session, SessionInv, SessionOK
    <3>2. stamp_auto_unblock_at(db[p], req[r].at) \in Nat /\ db[p].due \in Nat
        BY <2>0, <3>1, GatewayAssumption DEF stamp_auto_unblock_at, Session, ActionProposal
    <3>3. executed \in ActionProposal
        BY <3>1, <3>2 DEF ActionProposal
    <3>4. RollsBack(r) => o \in Proposals
        BY <3>1 DEF RollsBack, is_reversal, ActionProposal, Proposals
    <3>5. \A q \in Proposals : [db[q] EXCEPT !.state = "rolled_back"] \in ActionProposal
        BY RowFields DEF TypeOK, ProposalState
    <3>6. [executed EXCEPT !.state = "rolled_back"] \in ActionProposal
        BY <3>3, RowFields DEF ProposalState
    <3>7. db' \in [Proposals -> ActionProposal]
        BY <2>6, <3>1, <3>3, <3>4, <3>5, <3>6 DEF FinalCommit, TypeOK
    <3> QED BY <2>6, <3>7, EndTyped DEF FinalCommit, TypeOK
  <2>7. CASE UndoCommit(r)
    <3>1. p \in Forwards /\ p \in Proposals /\ db[p] \in ActionProposal /\ req[r].user \in Users
        BY <2>0, <2>7 DEF UndoCommit, SessionInv, SessionOK
    <3>2. <<p, r>> \in Reversals /\ <<p, r>> \in Proposals
        BY <3>1 DEF Reversals, Proposals, Actors
    <3>3. create_proposal(db[p].class, db[p].org, req[r].user, p, FALSE) \in ActionProposal
        BY <3>1, RowTyped DEF ActionProposal, TypeOK
    <3>4. [db[p] EXCEPT !.reversal = <<p, r>>] \in ActionProposal
        BY <3>1, <3>2, RowFields
    <3>5. db' \in [Proposals -> ActionProposal]
        BY <2>7, <3>1, <3>2, <3>3, <3>4 DEF UndoCommit, create_reversal_proposal, TypeOK
    <3> QED BY <2>7, <3>5, EndTyped DEF UndoCommit, TypeOK
  <2> QED BY <1>4, <2>1, <2>2, <2>3, <2>4, <2>5, <2>6, <2>7 DEF HandlerStep
<1>5. ASSUME NEW r \in Requests, Abort(r) PROVE TypeOK'
  <2>1. aborts' \in Nat
      BY <1>5 DEF Abort, TypeOK
  <2> QED BY <1>5, <2>1, EndTyped DEF Abort, TypeOK
<1>6. ASSUME NEW s \in Sweepers, SweepStep(s) \/ AutoReverseFails(s) PROVE TypeOK'
  <2>0. sweep[s] \in SweepState
      BY DEF TypeOK
  <2>1. CASE SweepSelect(s)
    <3>1. PICK cands \in SUBSET Proposals :
             sweep' = [sweep EXCEPT ![s] = [cands |-> cands, blk |-> Null, now |-> clock]]
        BY <2>1 DEF SweepSelect
    <3>2. [cands |-> cands, blk |-> Null, now |-> clock] \in SweepState
        BY DEF SweepState, TypeOK
    <3> QED BY <2>1, <3>1, <3>2 DEF SweepSelect, TypeOK
  <2>2. ASSUME NEW b \in Proposals, claim_block(s, b) PROVE TypeOK'
    <3>1. [[sweep[s] EXCEPT !.cands = @ \ {b}] EXCEPT !.blk = b] \in SweepState
        BY <2>0 DEF SweepState
    <3> QED BY <2>2, <3>1 DEF claim_block, TypeOK, Actors
  <2>3. ASSUME NEW b \in Proposals, SkipBlock(s, b) PROVE TypeOK'
    <3>1. SweepOn(sweep[s].cands \ {b}, sweep[s].now) \in SweepState
        BY <2>0, IdleTyped DEF SweepOn, SweepState
    <3> QED BY <2>3, <3>1 DEF SkipBlock, TypeOK
  <2>4. CASE auto_reverse(s)
    <3> DEFINE b == sweep[s].blk
               row == create_proposal(db[b].class, db[b].org, Wolf, b, FALSE)
    <3>1. b \in Forwards /\ b \in Proposals /\ db[b] \in ActionProposal
        BY <2>4 DEF auto_reverse, SweepInv, SweepOK, TypeOK, Proposals
    <3>2. <<b, s>> \in Reversals /\ <<b, s>> \in Proposals
        BY <3>1 DEF Reversals, Proposals, Actors
    <3>3. row \in ActionProposal
        BY <3>1, RowTyped DEF ActionProposal, TypeOK
    <3>4. [[row EXCEPT !.state = "succeeded"] EXCEPT !.approver = Wolf] \in ActionProposal
        BY <3>3, RowFields DEF ProposalState
    <3>5. [db[b] EXCEPT !.reversal = <<b, s>>] \in ActionProposal
        BY <3>1, <3>2, RowFields
    <3>6. db' \in [Proposals -> ActionProposal]
        BY <2>4, <3>1, <3>2, <3>4, <3>5 DEF auto_reverse, create_reversal_proposal, TypeOK
    <3> QED BY <2>4, <3>6, UnclaimTyped DEF auto_reverse, TypeOK
  <2>5. CASE AutoReverseFails(s)
    <3>1. aborts' \in Nat
        BY <2>5 DEF AutoReverseFails, TypeOK
    <3> QED BY <2>5, <3>1, UnclaimTyped DEF AutoReverseFails, TypeOK
  <2> QED BY <1>6, <2>1, <2>2, <2>3, <2>4, <2>5 DEF SweepStep
<1>7. ASSUME NEW p \in Proposals, EditRow(p) PROVE TypeOK'
  <2>1. [db[p] EXCEPT !.altered = TRUE] \in ActionProposal
      BY RowFields DEF TypeOK
  <2>2. edits' \in Nat
      BY <1>7 DEF EditRow, TypeOK
  <2> QED BY <1>7, <2>1, <2>2 DEF EditRow, TypeOK
<1>8. CASE Tick
  <2>1. clock' \in Nat
      BY <1>8 DEF Tick, TypeOK
  <2> QED BY <1>8, <2>1 DEF Tick, TypeOK
<1>9. CASE Waiting
    BY <1>9 DEF Waiting, vars, TypeOK
<1> QED BY <1>1, <1>2, <1>3, <1>4, <1>5, <1>6, <1>7, <1>8, <1>9 DEF Next

-----------------------------------------------------------------------------
(* Steps that leave the ledger alone, and steps that only rewrite columns.  *)

\* A step that writes neither rows nor Wazuh keeps the ledger invariant.
LEMMA SameLedger ==
    ASSUME LedgerInv, db' = db, ran' = ran
    PROVE  LedgerInv'
<1>1. RowInv'
    BY DEF LedgerInv, RowInv, Exists
<1>2. FourEyes' /\ PerformedAsProposed'
    BY DEF LedgerInv, FourEyes, PerformedAsProposed, Independent, is_reversal
<1>3. StampsMatchReversals' /\ SweepReversesOnce'
    BY DEF LedgerInv, StampsMatchReversals, SweepReversesOnce, Exists, is_reversal
<1> QED BY <1>1, <1>2, <1>3 DEF LedgerInv

\* The columns that say what a row is, and the stamp, are not written; no row
\* appears or disappears.
RowsKept ==
    \A q \in Proposals :
        /\ db'[q].by = db[q].by /\ db'[q].org = db[q].org
        /\ db'[q].reverses = db[q].reverses /\ db'[q].reversal = db[q].reversal
        /\ db'[q].timed = db[q].timed
        /\ Exists(q)' <=> Exists(q)
        /\ ~Exists(q) => db'[q] = db[q]
        /\ q \in Reversals => db'[q].due = db[q].due

\* A human signature written by a step belongs to an independent approver.
SignedIndependently ==
    \A q \in Proposals :
        db'[q].approver = db[q].approver \/
            (db'[q].approver \in Users /\ Independent(db'[q].approver, q))

\* A commit that only moves states and adds independent signatures keeps it too.
LEMMA KeptLedger ==
    ASSUME LedgerInv, TypeOK, TypeOK', RowsKept, SignedIndependently, ran' = ran
    PROVE  LedgerInv'
<1>1. RowInv'
  <2> SUFFICES ASSUME NEW p \in Proposals
               PROVE (/\ ~Exists(p) => db[p] = AbsentRow /\ ran[p] = <<>>
                      /\ p \in Forwards => db[p].reverses = Null
                      /\ p \in Reversals => ~db[p].timed /\ db[p].due = NoTime
                      /\ p \in Reversals /\ Exists(p) =>
                           db[p].reverses = p[1] /\ Exists(p[1]) /\ db[p[1]].reversal # Null)'
      BY DEF RowInv
  <2>1. p \in Reversals => p[1] \in Proposals
      BY DEF Reversals, Proposals
  <2> QED BY <2>1 DEF LedgerInv, RowInv, RowsKept
<1>2. FourEyes'
  <2> SUFFICES ASSUME NEW p \in Proposals
               PROVE (/\ \A i \in 1..Len(ran[p]) : Independent(ran[p][i].by, p)
                      /\ db[p].approver \in Users => Independent(db[p].approver, p)
                      /\ db[p].approver = Wolf => db[p].by = Wolf /\ is_reversal(p))'
      BY DEF FourEyes
  <2>1. \A u : Independent(u, p)' <=> Independent(u, p)
      BY DEF Independent, RowsKept
  <2>2. is_reversal(p)' <=> is_reversal(p)
      BY DEF is_reversal, RowsKept
  <2>3. db'[p].by = db[p].by
      BY DEF RowsKept
  <2> QED BY <2>1, <2>2, <2>3, GatewayAssumption DEF LedgerInv, FourEyes, SignedIndependently
<1>3. PerformedAsProposed'
    BY DEF LedgerInv, PerformedAsProposed
<1>4. StampsMatchReversals'
  <2> SUFFICES ASSUME NEW p \in Proposals
               PROVE (/\ Exists(p) /\ is_reversal(p) => db[db[p].reverses].reversal # Null
                      /\ db[p].reversal # Null =>
                            Exists(db[p].reversal) /\ db[db[p].reversal].reverses = p)'
      BY DEF StampsMatchReversals
  <2>1. /\ db[p].reverses \in Proposals \cup {Null}
        /\ db[p].reversal \in Proposals \cup {Null}
      BY DEF TypeOK, ActionProposal, Proposals
  <2> QED BY <2>1 DEF LedgerInv, StampsMatchReversals, RowsKept, is_reversal
<1>5. SweepReversesOnce'
    BY DEF LedgerInv, SweepReversesOnce, RowsKept, Proposals
<1> QED BY <1>1, <1>2, <1>3, <1>4, <1>5 DEF LedgerInv

\* A new forward row: pending, unsigned, reversing nothing.
LEMMA InsertForward ==
    ASSUME LedgerInv, TypeOK, TypeOK', NEW p \in Forwards, ~Exists(p), NEW row \in ActionProposal,
           row.state # "absent", row.reverses = Null, row.reversal = Null,
           row.approver = Null, db' = [db EXCEPT ![p] = row], ran' = ran
    PROVE  LedgerInv'
<1>1. p \in Proposals /\ p \notin Reversals
    BY GatewayAssumption DEF Proposals, Reversals, Actors
<1>2. db'[p] = row /\ \A q \in Proposals \ {p} : db'[q] = db[q]
    BY <1>1 DEF TypeOK
<1>3. ran[p] = <<>> /\ db[p].reversal = Null
    BY <1>1 DEF LedgerInv, RowInv, AbsentRow
<1>4. \A q \in Proposals \ {p} : Exists(q)' <=> Exists(q)
    BY <1>2 DEF Exists
<1>5. Exists(p)'
    BY <1>2 DEF Exists
<1>6. RowInv'
  <2> SUFFICES ASSUME NEW q \in Proposals
               PROVE (/\ ~Exists(q) => db[q] = AbsentRow /\ ran[q] = <<>>
                      /\ q \in Forwards => db[q].reverses = Null
                      /\ q \in Reversals => ~db[q].timed /\ db[q].due = NoTime
                      /\ q \in Reversals /\ Exists(q) =>
                           db[q].reverses = q[1] /\ Exists(q[1]) /\ db[q[1]].reversal # Null)'
      BY DEF RowInv
  <2>1. CASE q = p
      BY <1>1, <1>2, <1>5, <2>1
  <2>2. CASE q # p
    <3>1. q \in Reversals => q[1] \in Proposals
        BY DEF Reversals, Proposals
    <3>2. q \in Reversals /\ Exists(q) => q[1] # p
        BY DEF LedgerInv, RowInv
    <3> QED BY <1>2, <1>4, <2>2, <3>1, <3>2 DEF LedgerInv, RowInv
  <2> QED BY <2>1, <2>2
<1>7. FourEyes'
  <2> SUFFICES ASSUME NEW q \in Proposals
               PROVE (/\ \A i \in 1..Len(ran[q]) : Independent(ran[q][i].by, q)
                      /\ db[q].approver \in Users => Independent(db[q].approver, q)
                      /\ db[q].approver = Wolf => db[q].by = Wolf /\ is_reversal(q))'
      BY DEF FourEyes
  <2>1. CASE q = p
    <3>1. 1..Len(ran[p]) = {}
        BY <1>3
    <3> QED BY <1>2, <2>1, <3>1, GatewayAssumption
  <2>2. CASE q # p
    <3>1. db'[q] = db[q]
        BY <1>2, <2>2
    <3> QED BY <3>1 DEF LedgerInv, FourEyes, Independent, is_reversal
  <2> QED BY <2>1, <2>2
<1>8. PerformedAsProposed'
    BY DEF LedgerInv, PerformedAsProposed
<1>9. StampsMatchReversals'
  <2> SUFFICES ASSUME NEW q \in Proposals
               PROVE (/\ Exists(q) /\ is_reversal(q) => db[db[q].reverses].reversal # Null
                      /\ db[q].reversal # Null =>
                            Exists(db[q].reversal) /\ db[db[q].reversal].reverses = q)'
      BY DEF StampsMatchReversals
  <2>1. CASE q = p
      BY <1>2, <2>1 DEF is_reversal
  <2>2. CASE q # p
    <3>1. db[q].reverses \in Proposals \cup {Null} /\ db[q].reversal \in Proposals \cup {Null}
        BY DEF TypeOK, ActionProposal, Proposals
    <3>2. db'[q] = db[q]
        BY <1>2, <2>2
    <3>3. Exists(q) /\ is_reversal(q) => db[q].reverses # p
        BY <1>3 DEF LedgerInv, StampsMatchReversals
    <3>4. db[q].reversal # Null => db[q].reversal # p
        BY DEF LedgerInv, StampsMatchReversals
    <3> QED BY <1>2, <1>4, <2>2, <3>1, <3>2, <3>3, <3>4 DEF LedgerInv, StampsMatchReversals, is_reversal
  <2> QED BY <2>1, <2>2
<1>10. SweepReversesOnce'
  <2>1. \A q \in Reversals : db'[q] = db[q]
      BY <1>1, <1>2 DEF Proposals
  <2> QED BY <2>1 DEF LedgerInv, SweepReversesOnce
<1> QED BY <1>6, <1>7, <1>8, <1>9, <1>10 DEF LedgerInv

\* A new reversal row and the stamp on its block.  When the scheduler inserts
\* it the block must be unstamped, or it would be reversed twice.
LEMMA InsertReversal ==
    ASSUME LedgerInv, TypeOK, TypeOK', NEW b \in Forwards, NEW a \in Actors,
           Exists(b), ~Exists(<<b, a>>), NEW row \in ActionProposal,
           row.state # "absent", row.reverses = b, row.reversal = Null,
           ~row.timed, row.due = NoTime,
           row.approver = Null \/ (row.approver = Wolf /\ row.by = Wolf),
           row.by = Wolf => db[b].reversal = Null,
           db' = create_reversal_proposal(b, a, row), ran' = ran
    PROVE  LedgerInv'
<1> DEFINE n == <<b, a>>
<1>1. /\ b \in Proposals /\ b \notin Reversals
      /\ n \in Proposals /\ n \in Reversals /\ n \notin Forwards /\ n # b /\ n # Null /\ n[1] = b
      /\ b # Null
    BY GatewayAssumption DEF Proposals, Reversals, Actors
<1>2. /\ db'[n] = row
      /\ db'[b] = [db[b] EXCEPT !.reversal = n]
      /\ \A q \in Proposals \ {b, n} : db'[q] = db[q]
    BY <1>1 DEF TypeOK, create_reversal_proposal
<1>3. /\ db'[b].state = db[b].state /\ db'[b].by = db[b].by /\ db'[b].org = db[b].org
      /\ db'[b].approver = db[b].approver /\ db'[b].reverses = db[b].reverses
      /\ db'[b].reversal = n
  <2>1. db[b] \in ActionProposal
      BY <1>1 DEF TypeOK
  <2> QED BY <1>2, <2>1 DEF ActionProposal
<1> HIDE DEF n
<1>4. ran[n] = <<>> /\ db[n].reversal = Null
    BY <1>1 DEF LedgerInv, RowInv, AbsentRow, n
<1>5. \A q \in Proposals \ {n} : Exists(q)' <=> Exists(q)
  <2> TAKE q \in Proposals \ {n}
  <2>1. CASE q = b
      BY <1>3, <2>1 DEF Exists
  <2>2. CASE q # b
    <3>1. db'[q] = db[q]
        BY <1>2, <2>2
    <3> QED BY <3>1 DEF Exists
  <2> QED BY <2>1, <2>2
<1>6. Exists(n)' /\ Exists(b)'
    BY <1>1, <1>2, <1>3 DEF Exists
<1>7. RowInv'
  <2> SUFFICES ASSUME NEW q \in Proposals
               PROVE (/\ ~Exists(q) => db[q] = AbsentRow /\ ran[q] = <<>>
                      /\ q \in Forwards => db[q].reverses = Null
                      /\ q \in Reversals => ~db[q].timed /\ db[q].due = NoTime
                      /\ q \in Reversals /\ Exists(q) =>
                           db[q].reverses = q[1] /\ Exists(q[1]) /\ db[q[1]].reversal # Null)'
      BY DEF RowInv
  <2>1. CASE q = n
      BY <1>1, <1>2, <1>3, <1>6, <2>1
  <2>2. CASE q = b
    <3>1. db[b].reverses = Null
        BY <1>1 DEF LedgerInv, RowInv
    <3> QED BY <1>1, <1>3, <1>6, <2>2, <3>1
  <2>3. CASE q # n /\ q # b
    <3>1. db'[q] = db[q] /\ (Exists(q)' <=> Exists(q))
        BY <1>2, <1>5, <2>3
    <3>2. q \in Reversals /\ Exists(q) =>
             Exists(q[1])' /\ db'[q[1]].reversal # Null
      <4> SUFFICES ASSUME q \in Reversals, Exists(q)
                   PROVE Exists(q[1])' /\ db'[q[1]].reversal # Null
          OBVIOUS
      <4>1. q[1] \in Proposals /\ q[1] \in Forwards /\ q[1] # n
          BY <1>1 DEF Reversals, Proposals
      <4>2. Exists(q[1]) /\ db[q[1]].reversal # Null
          BY DEF LedgerInv, RowInv
      <4> QED BY <1>1, <1>2, <1>3, <1>5, <1>6, <4>1, <4>2
    <3> QED BY <3>1, <3>2 DEF LedgerInv, RowInv
  <2> QED BY <2>1, <2>2, <2>3
<1>8. FourEyes'
  <2> SUFFICES ASSUME NEW q \in Proposals
               PROVE (/\ \A i \in 1..Len(ran[q]) : Independent(ran[q][i].by, q)
                      /\ db[q].approver \in Users => Independent(db[q].approver, q)
                      /\ db[q].approver = Wolf => db[q].by = Wolf /\ is_reversal(q))'
      BY DEF FourEyes
  <2>1. CASE q = n
    <3>1. 1..Len(ran[n]) = {}
        BY <1>4
    <3> QED BY <1>1, <1>2, <2>1, <3>1, GatewayAssumption DEF is_reversal
  <2>2. CASE q # n
    <3>1. /\ db'[q].by = db[q].by /\ db'[q].org = db[q].org
          /\ db'[q].approver = db[q].approver /\ db'[q].reverses = db[q].reverses
        BY <1>2, <1>3, <2>2
    <3> QED BY <3>1 DEF LedgerInv, FourEyes, Independent, is_reversal
  <2> QED BY <2>1, <2>2
<1>9. PerformedAsProposed'
    BY DEF LedgerInv, PerformedAsProposed
<1>10. StampsMatchReversals'
  <2> SUFFICES ASSUME NEW q \in Proposals
               PROVE (/\ Exists(q) /\ is_reversal(q) => db[db[q].reverses].reversal # Null
                      /\ db[q].reversal # Null =>
                            Exists(db[q].reversal) /\ db[db[q].reversal].reverses = q)'
      BY DEF StampsMatchReversals
  <2>1. CASE q = n
      BY <1>1, <1>2, <1>3, <2>1
  <2>2. CASE q = b
    <3>1. db[b].reverses = Null
        BY <1>1 DEF LedgerInv, RowInv
    <3> QED BY <1>2, <1>3, <1>6, <2>2, <3>1 DEF is_reversal
  <2>3. CASE q # n /\ q # b
    <3>1. db[q].reverses \in Forwards \cup {Null} /\ db[q].reversal \in Proposals \cup {Null}
        BY DEF TypeOK, ActionProposal, Proposals
    <3>2. db'[q] = db[q] /\ (Exists(q)' <=> Exists(q))
        BY <1>2, <1>5, <2>3
    <3>3. Exists(q) /\ is_reversal(q) => db'[db[q].reverses].reversal # Null
      <4> SUFFICES ASSUME Exists(q), is_reversal(q) PROVE db'[db[q].reverses].reversal # Null
          OBVIOUS
      <4>1. db[q].reverses \in Proposals /\ db[q].reverses # n
          BY <1>1, <3>1 DEF is_reversal, Proposals
      <4>2. db[db[q].reverses].reversal # Null
          BY DEF LedgerInv, StampsMatchReversals
      <4> QED BY <1>1, <1>2, <1>3, <4>1, <4>2
    <3>4. db[q].reversal # Null =>
             Exists(db[q].reversal)' /\ db'[db[q].reversal].reverses = q
      <4> SUFFICES ASSUME db[q].reversal # Null
                   PROVE Exists(db[q].reversal)' /\ db'[db[q].reversal].reverses = q
          OBVIOUS
      <4>1. PICK x \in Proposals : x = db[q].reversal
          BY <3>1
      <4>2. Exists(x) /\ db[x].reverses = q
          BY <4>1 DEF LedgerInv, StampsMatchReversals
      <4>3. x # n
          BY <4>2 DEF n
      <4>4. Exists(x)' /\ db'[x].reverses = q
          BY <1>2, <1>3, <1>5, <4>2, <4>3
      <4>5. db'[q].reversal = x
          BY <3>2, <4>1
      <4> QED BY <4>1, <4>4, <4>5 DEF Exists
    <3> QED BY <3>2, <3>3, <3>4 DEF is_reversal
  <2> QED BY <2>1, <2>2, <2>3
<1>11. SweepReversesOnce'
  <2> SUFFICES ASSUME NEW p \in Reversals, NEW q \in Reversals,
                      db'[p].by = Wolf, db'[q].by = Wolf, db'[p].reverses = db'[q].reverses
               PROVE p = q
      BY DEF SweepReversesOnce
  <2>1. \A x \in Reversals \ {n} : db'[x] = db[x]
      BY <1>1, <1>2 DEF Proposals
  <2>2. \A x \in Reversals \ {n} : db'[n].by = Wolf /\ db'[x].by = Wolf => db'[x].reverses # db'[n].reverses
    <3> SUFFICES ASSUME NEW x \in Reversals \ {n}, db'[n].by = Wolf, db'[x].by = Wolf
                 PROVE db'[x].reverses # db'[n].reverses
        OBVIOUS
    <3>1. db[b].reversal = Null /\ db[x].by = Wolf
        BY <1>2, <2>1
    <3>2. Exists(x)
        BY <3>1, GatewayAssumption DEF LedgerInv, RowInv, AbsentRow, Proposals
    <3>3. db[x].reverses = x[1] /\ db[x[1]].reversal # Null
        BY <3>2 DEF LedgerInv, RowInv, Proposals
    <3> QED BY <1>2, <2>1, <3>1, <3>3
  <2>3. CASE p # n /\ q # n
      BY <2>1, <2>3 DEF LedgerInv, SweepReversesOnce
  <2> QED BY <2>2, <2>3
<1> QED BY <1>7, <1>8, <1>9, <1>10, <1>11 DEF LedgerInv

\* A performed write leaves the ledger as it was; its entry in ran belongs to
\* an independent approver and to an unaltered row.
LEMMA PerformLedger ==
    ASSUME IndInv, NEW r \in Requests, NEW outcome, Perform(r, outcome)
    PROVE  LedgerInv'
<1> DEFINE p == req[r].p
           e == [by |-> req[r].user, altered |-> req[r].altered]
<1>1. p \in Proposals /\ Exists(p) /\ Independent(req[r].user, p) /\ ~req[r].altered
    BY DEF IndInv, SessionInv, SessionOK, Perform
<1>2. db' = db /\ \A q \in Proposals \ {p} : ran'[q] = ran[q]
    BY DEF Perform, IndInv, TypeOK
<1>3. \A q \in Proposals : ran'[q] = ran[q] \/ (q = p /\ ran'[q] = Append(ran[q], e))
    BY <1>1, <1>2 DEF Perform, IndInv, TypeOK
<1>4. \A q \in Proposals : \A i \in 1..Len(ran'[q]) :
          (i \in 1..Len(ran[q]) /\ ran'[q][i] = ran[q][i]) \/ (q = p /\ ran'[q][i] = e)
  <2> TAKE q \in Proposals
  <2>1. ran[q] \in Seq([by : Users, altered : BOOLEAN])
      BY DEF IndInv, TypeOK
  <2>2. e \in [by : Users, altered : BOOLEAN]
      BY <1>1, GatewayAssumption DEF IndInv, TypeOK, Session, Independent
  <2>3. CASE ran'[q] = ran[q]
      BY <2>3
  <2>4. CASE q = p /\ ran'[q] = Append(ran[q], e)
      BY <2>1, <2>2, <2>4
  <2> QED BY <1>3, <2>3, <2>4
<1>5. RowInv'
    BY <1>1, <1>2 DEF IndInv, LedgerInv, RowInv, Exists
<1>6. FourEyes'
  <2> SUFFICES ASSUME NEW q \in Proposals
               PROVE (/\ \A i \in 1..Len(ran[q]) : Independent(ran[q][i].by, q)
                      /\ db[q].approver \in Users => Independent(db[q].approver, q)
                      /\ db[q].approver = Wolf => db[q].by = Wolf /\ is_reversal(q))'
      BY DEF FourEyes
  <2>1. \A i \in 1..Len(ran'[q]) : Independent(ran'[q][i].by, q)
    <3> TAKE i \in 1..Len(ran'[q])
    <3>1. CASE i \in 1..Len(ran[q]) /\ ran'[q][i] = ran[q][i]
        BY <3>1 DEF IndInv, LedgerInv, FourEyes
    <3>2. CASE q = p /\ ran'[q][i] = e
        BY <1>1, <3>2
    <3> QED BY <1>4, <3>1, <3>2
  <2> QED BY <1>2, <2>1 DEF IndInv, LedgerInv, FourEyes, Independent, is_reversal
<1>7. PerformedAsProposed'
  <2> SUFFICES ASSUME NEW q \in Proposals, NEW i \in 1..Len(ran'[q])
               PROVE ~ran'[q][i].altered
      BY DEF PerformedAsProposed
  <2>1. CASE i \in 1..Len(ran[q]) /\ ran'[q][i] = ran[q][i]
      BY <2>1 DEF IndInv, LedgerInv, PerformedAsProposed
  <2>2. CASE q = p /\ ran'[q][i] = e
      BY <1>1, <2>2
  <2> QED BY <1>4, <2>1, <2>2
<1>8. StampsMatchReversals' /\ SweepReversesOnce'
    BY <1>2 DEF IndInv, LedgerInv, StampsMatchReversals, SweepReversesOnce, Exists, is_reversal
<1> QED BY <1>5, <1>6, <1>7, <1>8 DEF LedgerInv

\* The final commit writes state, approver and window of the decided row, and
\* the state of the original it rolls back.
LEMMA FinalCommitKeeps ==
    ASSUME IndInv, NEW r \in Requests, FinalCommit(r)
    PROVE  RowsKept /\ SignedIndependently
<1> DEFINE p == req[r].p
           o == db[p].reverses
           executed == [db[p] EXCEPT !.state = req[r].st, !.approver = req[r].user,
                          !.due = IF req[r].st = "succeeded" /\ ~is_reversal(p)
                                  THEN stamp_auto_unblock_at(db[p], req[r].at) ELSE @]
<1>1. /\ p \in Proposals /\ Exists(p) /\ Independent(req[r].user, p) /\ req[r].user \in Users
      /\ req[r].st \in ProposalState /\ req[r].st # "absent"
    BY DEF IndInv, SessionInv, SessionOK, FinalCommit, TypeOK, Session
<1>2. db \in [Proposals -> ActionProposal] /\ db[p] \in ActionProposal
    BY <1>1 DEF IndInv, TypeOK
<1>3. p \in Reversals => is_reversal(p)
  <2> SUFFICES ASSUME p \in Reversals PROVE is_reversal(p)
      OBVIOUS
  <2>1. db[p].reverses = p[1]
      BY <1>1 DEF IndInv, LedgerInv, RowInv
  <2>2. p[1] # Null
      BY GatewayAssumption DEF Reversals
  <2> QED BY <2>1, <2>2 DEF is_reversal
<1>4. /\ executed.by = db[p].by /\ executed.org = db[p].org /\ executed.reverses = db[p].reverses
      /\ executed.reversal = db[p].reversal /\ executed.timed = db[p].timed
      /\ executed.state # "absent" /\ executed.approver = req[r].user
      /\ is_reversal(p) => executed.due = db[p].due
    BY <1>1, <1>2 DEF ActionProposal
<1>5. RollsBack(r) => o \in Proposals /\ o # p /\ Exists(o)
  <2> SUFFICES ASSUME RollsBack(r) PROVE o \in Proposals /\ o # p /\ Exists(o)
      OBVIOUS
  <2>1. is_reversal(p) /\ p \in Reversals
      BY <1>1 DEF RollsBack, IndInv, LedgerInv, RowInv, is_reversal, Proposals
  <2>2. o = p[1] /\ Exists(p[1]) /\ p[1] \in Forwards
      BY <1>1, <2>1 DEF IndInv, LedgerInv, RowInv, Reversals
  <2>3. p \notin Forwards
      BY <2>1, GatewayAssumption DEF Reversals, Actors
  <2> QED BY <2>2, <2>3 DEF Proposals
<1> HIDE DEF executed
<1>6. CASE RollsBack(r)
  <2>1. /\ db'[p] = executed /\ db'[o] = [db[o] EXCEPT !.state = "rolled_back"]
        /\ \A q \in Proposals \ {p, o} : db'[q] = db[q]
      BY <1>1, <1>2, <1>5, <1>6 DEF FinalCommit, executed
  <2>2. db[o] \in ActionProposal
      BY <1>2, <1>5, <1>6
  <2>3. /\ db'[o].by = db[o].by /\ db'[o].org = db[o].org /\ db'[o].reverses = db[o].reverses
        /\ db'[o].reversal = db[o].reversal /\ db'[o].timed = db[o].timed
        /\ db'[o].state = "rolled_back" /\ db'[o].approver = db[o].approver
        /\ db'[o].due = db[o].due
      BY <2>1, <2>2 DEF ActionProposal
  <2>4. RowsKept
      BY <1>1, <1>3, <1>4, <1>5, <1>6, <2>1, <2>3, ZenonT(60) DEF RowsKept, Exists
  <2>5. SignedIndependently
      BY <1>1, <1>4, <2>1, <2>3 DEF SignedIndependently
  <2> QED BY <2>4, <2>5
<1>7. CASE ~RollsBack(r)
  <2>1. db'[p] = executed /\ \A q \in Proposals \ {p} : db'[q] = db[q]
      BY <1>1, <1>2, <1>7 DEF FinalCommit, executed
  <2>2. RowsKept
      BY <1>1, <1>3, <1>4, <2>1 DEF RowsKept, Exists
  <2>3. SignedIndependently
      BY <1>1, <1>4, <2>1 DEF SignedIndependently
  <2> QED BY <2>2, <2>3
<1> QED BY <1>6, <1>7

\* The commits that write the state, or the state and the signature, of one row.
LEMMA OneRowCommitKeeps ==
    ASSUME IndInv, NEW r \in Requests,
           DeclineCommit(r) \/ FreshnessRaises(r) \/ FreshnessStale(r)
    PROVE  RowsKept /\ SignedIndependently
<1> DEFINE p == req[r].p
<1>1. p \in Proposals /\ Exists(p) /\ req[r].user \in Users /\ db[p] \in ActionProposal
    BY DEF IndInv, SessionInv, SessionOK, DeclineCommit, FreshnessRaises, FreshnessStale, TypeOK
<1>2. CASE DeclineCommit(r)
  <2>1. req[r].st \in ProposalState /\ req[r].st # "absent"
      BY <1>2 DEF IndInv, SessionInv, SessionOK, DeclineCommit, TypeOK, Session
  <2>2. db'[p] = [db[p] EXCEPT !.state = req[r].st] /\ \A q \in Proposals \ {p} : db'[q] = db[q]
      BY <1>1, <1>2 DEF DeclineCommit, IndInv, TypeOK
  <2>3. /\ db'[p].by = db[p].by /\ db'[p].org = db[p].org /\ db'[p].reverses = db[p].reverses
        /\ db'[p].reversal = db[p].reversal /\ db'[p].timed = db[p].timed
        /\ db'[p].state = req[r].st /\ db'[p].approver = db[p].approver /\ db'[p].due = db[p].due
      BY <1>1, <2>2 DEF ActionProposal
  <2> QED BY <1>1, <2>1, <2>2, <2>3 DEF RowsKept, SignedIndependently, Exists
<1>3. CASE FreshnessRaises(r) \/ FreshnessStale(r)
  <2>1. Independent(req[r].user, p)
      BY <1>3 DEF IndInv, SessionInv, SessionOK, FreshnessRaises, FreshnessStale
  <2>2. PICK st \in {"approved", "expired"} : CommitState(r, st)
      BY <1>3 DEF FreshnessRaises, FreshnessStale
  <2>3. /\ db'[p] = [[db[p] EXCEPT !.state = st] EXCEPT !.approver = req[r].user]
        /\ \A q \in Proposals \ {p} : db'[q] = db[q]
      BY <1>1, <2>2 DEF CommitState, IndInv, TypeOK
  <2>4. /\ db'[p].by = db[p].by /\ db'[p].org = db[p].org /\ db'[p].reverses = db[p].reverses
        /\ db'[p].reversal = db[p].reversal /\ db'[p].timed = db[p].timed
        /\ db'[p].state = st /\ db'[p].approver = req[r].user /\ db'[p].due = db[p].due
      BY <1>1, <2>3 DEF ActionProposal
  <2>5. RowsKept
      BY <1>1, <2>3, <2>4 DEF RowsKept, Exists
  <2> QED BY <1>1, <2>1, <2>3, <2>4, <2>5 DEF SignedIndependently
<1> QED BY <1>2, <1>3

\* An edit of a row's substance writes none of the columns the ledger rests on.
LEMMA EditKeeps ==
    ASSUME IndInv, NEW p \in Proposals, EditRow(p)
    PROVE  RowsKept /\ SignedIndependently
<1>1. db[p] \in ActionProposal /\ Exists(p)
    BY DEF IndInv, TypeOK, EditRow
<1>2. db'[p] = [db[p] EXCEPT !.altered = TRUE] /\ \A q \in Proposals \ {p} : db'[q] = db[q]
    BY DEF EditRow, IndInv, TypeOK
<1>3. /\ db'[p].by = db[p].by /\ db'[p].org = db[p].org /\ db'[p].reverses = db[p].reverses
      /\ db'[p].reversal = db[p].reversal /\ db'[p].timed = db[p].timed
      /\ db'[p].state = db[p].state /\ db'[p].approver = db[p].approver /\ db'[p].due = db[p].due
    BY <1>1, <1>2 DEF ActionProposal
<1> QED BY <1>1, <1>2, <1>3 DEF RowsKept, SignedIndependently, Exists

-----------------------------------------------------------------------------
(* What one actor's transaction leaves to the others.                       *)

\* No row disappears or changes owner; only a's reversals and forward rows
\* appear; only a block a has locked is stamped.
LedgerFrame(a) ==
    \A q \in Proposals :
        /\ Exists(q) => Exists(q)' /\ db'[q].by = db[q].by /\ db'[q].org = db[q].org
        /\ Exists(q)' /\ ~Exists(q) => q \in Forwards \/ q[2] = a
        /\ db'[q].reversal = db[q].reversal \/ lock[q] = a

\* a takes only free locks and drops only its own; the others stand still.
ActorFrame(a) ==
    /\ \A q \in Proposals : lock[q] \notin {Null, a} => lock'[q] = lock[q]
    /\ \A x \in Requests \ {a} : req'[x] = req[x]
    /\ \A x \in Sweepers \ {a} : sweep'[x] = sweep[x]

\* Rewriting columns, or writing nothing, frames the ledger for everybody.
LEMMA KeptFrame == ASSUME NEW a, RowsKept \/ db' = db PROVE LedgerFrame(a)
    BY DEF RowsKept, LedgerFrame, Exists

\* Inserting a reversal frames the ledger when its block is locked.
LEMMA InsertFrame ==
    ASSUME TypeOK, NEW b \in Forwards, NEW a \in Actors, Exists(b), ~Exists(<<b, a>>),
           lock[b] = a, NEW row, row.reversal = Null, RowInv,
           db' = create_reversal_proposal(b, a, row)
    PROVE  LedgerFrame(a)
<1> DEFINE n == <<b, a>>
<1>1. b \in Proposals /\ n \in Proposals /\ n # b /\ n[2] = a
    BY GatewayAssumption DEF Proposals, Reversals, Actors
<1>2. /\ db'[n] = row
      /\ db'[b] = [db[b] EXCEPT !.reversal = n]
      /\ \A q \in Proposals \ {b, n} : db'[q] = db[q]
    BY <1>1 DEF TypeOK, create_reversal_proposal
<1>3. db'[b].state = db[b].state /\ db'[b].by = db[b].by /\ db'[b].org = db[b].org
  <2>1. db[b] \in ActionProposal
      BY <1>1 DEF TypeOK
  <2> QED BY <1>2, <2>1 DEF ActionProposal
<1>4. db[n].reversal = Null
    BY <1>1 DEF RowInv, AbsentRow
<1> HIDE DEF n
<1> SUFFICES ASSUME NEW q \in Proposals
             PROVE  /\ Exists(q) => Exists(q)' /\ db'[q].by = db[q].by /\ db'[q].org = db[q].org
                    /\ Exists(q)' /\ ~Exists(q) => q \in Forwards \/ q[2] = a
                    /\ db'[q].reversal = db[q].reversal \/ lock[q] = a
    BY DEF LedgerFrame
<1>5. CASE q = b
    BY <1>3, <1>5 DEF Exists
<1>6. CASE q = n
    BY <1>1, <1>2, <1>4, <1>6 DEF n
<1>7. CASE q # b /\ q # n
  <2>1. db'[q] = db[q]
      BY <1>2, <1>7
  <2> QED BY <2>1 DEF Exists
<1> QED BY <1>5, <1>6, <1>7

\* Everybody but the actor of a step keeps what they rely on.
LEMMA OthersKept ==
    ASSUME IndInv, NEW a, LedgerFrame(a), ActorFrame(a)
    PROVE  /\ \A x \in Requests \ {a} : SessionOK(x)' /\ LockOK(x)'
           /\ \A x \in Sweepers \ {a} : SweepOK(x)'
<1>1. ASSUME NEW x \in Requests \ {a} PROVE SessionOK(x)' /\ LockOK(x)'
  <2>1. req'[x] = req[x] /\ SessionOK(x) /\ LockOK(x)
      BY DEF ActorFrame, IndInv, SessionInv, LockInv
  <2>2. CASE req[x].pc = "idle"
      BY <2>1, <2>2 DEF SessionOK, LockOK
  <2>3. CASE req[x].pc # "idle"
    <3> DEFINE p == req[x].p
    <3>1. p \in Proposals /\ Exists(p) /\ req[x].user \in Users
        BY <2>1, <2>3 DEF SessionOK
    <3>2. Exists(p)' /\ db'[p].by = db[p].by /\ db'[p].org = db[p].org
        <4>1. PICK q \in Proposals : q = p
            BY <3>1
        <4>2. Exists(q)' /\ db'[q].by = db[q].by /\ db'[q].org = db[q].org
            BY <3>1, <4>1 DEF LedgerFrame
        <4> QED BY <2>1, <4>1, <4>2 DEF Exists
    <3>3. Independent(req[x].user, p) => Independent(req[x].user, p)'
        BY <2>1, <3>2 DEF Independent
    <3>4. p \in Forwards /\ ~Exists(<<p, x>>) => ~Exists(<<p, x>>)'
      <4> SUFFICES ASSUME p \in Forwards, ~Exists(<<p, x>>) PROVE ~Exists(<<p, x>>)'
          OBVIOUS
      <4>1. PICK q \in Reversals : q = <<p, x>>
          BY DEF Reversals, Actors
      <4>2. q \in Proposals /\ q \notin Forwards /\ q[2] = x /\ ~Exists(q)
          BY <4>1, GatewayAssumption DEF Proposals, Reversals, Actors
      <4>3. ~Exists(q)'
          BY <4>2 DEF LedgerFrame
      <4> QED BY <2>1, <4>1, <4>3 DEF Exists
    <3>5. lock[p] = x => lock'[p] = x
        BY <3>1, GatewayAssumption DEF ActorFrame
    <3>6. SessionOK(x)'
        BY <2>1, <3>1, <3>2, <3>3, <3>4 DEF SessionOK
    <3> QED BY <2>1, <3>5, <3>6 DEF LockOK
  <2> QED BY <2>2, <2>3
<1>2. ASSUME NEW x \in Sweepers \ {a} PROVE SweepOK(x)'
  <2>1. sweep'[x] = sweep[x] /\ SweepOK(x)
      BY DEF ActorFrame, IndInv, SweepInv
  <2>2. CASE sweep[x].blk = Null
      BY <2>1, <2>2 DEF SweepOK
  <2>3. CASE sweep[x].blk # Null
    <3>1. PICK b \in Forwards : b = sweep[x].blk
        BY <2>1, <2>3 DEF SweepOK
    <3>2. b \in Proposals /\ Exists(b) /\ lock[b] = x /\ db[b].reversal = Null
        BY <2>1, <2>3, <3>1 DEF SweepOK, Proposals
    <3>3. Exists(b)' /\ db'[b].reversal = Null
        BY <3>2 DEF LedgerFrame
    <3>4. lock'[b] = x
        BY <3>2, GatewayAssumption DEF ActorFrame
    <3> QED BY <2>1, <3>1, <3>3, <3>4 DEF SweepOK
  <2> QED BY <2>2, <2>3
<1> QED BY <1>1, <1>2

\* The end of a transaction: the handler is idle, its locks are free.
LEMMA EndFrame ==
    ASSUME TypeOK, NEW r \in Requests, EndTransaction(r), sweep' = sweep
    PROVE  ActorFrame(r) /\ SessionOK(r)' /\ LockOK(r)'
<1>1. req'[r].pc = "idle" /\ \A x \in Requests \ {r} : req'[x] = req[x]
    BY DEF EndTransaction, TypeOK, IdleRequest
<1>2. ActorFrame(r)
    BY <1>1 DEF ActorFrame, EndTransaction
<1> QED BY <1>1, <1>2 DEF SessionOK, LockOK

\* The end of an auto-reversal: the sweeper holds nothing.
LEMMA UnclaimFrame ==
    ASSUME TypeOK, NEW s \in Sweepers, SweepOK(s), Unclaim(s), req' = req
    PROVE  ActorFrame(s) /\ SweepOK(s)'
<1>1. sweep'[s] = SweepOn(sweep[s].cands, sweep[s].now) /\ \A x \in Sweepers \ {s} : sweep'[x] = sweep[x]
    BY DEF Unclaim, TypeOK
<1>2. sweep'[s].blk = Null /\ sweep'[s].cands = sweep[s].cands
    BY <1>1 DEF SweepOn, IdleSweep
<1>3. ActorFrame(s)
    BY <1>1 DEF ActorFrame, Unclaim
<1> QED BY <1>2, <1>3 DEF SweepOK

-----------------------------------------------------------------------------
(* The inductive step, action by action.                                    *)

\* What each action has to show, a being the handler or sweeper that takes it.
Preserves(a) ==
    /\ LedgerInv' /\ LedgerFrame(a) /\ ActorFrame(a)
    /\ a \in Requests => SessionOK(a)' /\ LockOK(a)'
    /\ a \in Sweepers => SweepOK(a)'

\* The actor's own obligations and the frame together give the invariant.
LEMMA PreservesInv == ASSUME IndInv, TypeOK', NEW a, Preserves(a) PROVE IndInv'
<1>1. SessionInv' /\ LockInv'
    BY OthersKept DEF Preserves, SessionInv, LockInv
<1>2. SweepInv'
    BY OthersKept DEF Preserves, SweepInv
<1> QED BY <1>1, <1>2 DEF Preserves, IndInv

\* A handler that ends its transaction without inserting a row.
LEMMA EndPreserves ==
    ASSUME IndInv, NEW r \in Requests, LedgerInv', RowsKept \/ db' = db,
           EndTransaction(r), sweep' = sweep
    PROVE  Preserves(r)
<1>1. r \notin Sweepers
    BY GatewayAssumption
<1> QED BY <1>1, EndFrame, KeptFrame DEF Preserves, IndInv

\* A handler that goes on: the ledger is untouched, it may take a free lock.
LEMMA GoesOnPreserves ==
    ASSUME IndInv, NEW r \in Requests, LedgerInv', db' = db, sweep' = sweep,
           \A q \in Proposals : lock[q] # Null => lock'[q] = lock[q],
           \A x \in Requests \ {r} : req'[x] = req[x],
           SessionOK(r)', LockOK(r)'
    PROVE  Preserves(r)
<1>1. r \notin Sweepers
    BY GatewayAssumption
<1>2. ActorFrame(r)
    BY DEF ActorFrame
<1> QED BY <1>1, <1>2, KeptFrame DEF Preserves

\* The checks of a loading handler are what SessionOK remembers.
LEMMA LoadPreserves ==
    ASSUME IndInv, NEW r \in Requests, NEW u \in Users, NEW p \in Proposals,
           ApproveLoad(r, u, p) \/ ExpireLoad(r, u, p) \/ RejectLoad(r, u, p)
    PROVE  Preserves(r)
<1>1. db' = db /\ lock' = lock /\ sweep' = sweep /\ ran' = ran
    BY DEF ApproveLoad, ExpireLoad, RejectLoad
<1>2. Exists(p) /\ db[p].org = OrgOf[u]
    BY DEF ApproveLoad, ExpireLoad, RejectLoad, load_proposal
<1>3. PICK pc, st : /\ Begin(r, u, p, pc, st) /\ pc \in {"sign", "decline"} /\ st # "absent"
                    /\ pc = "sign" => MayApprove(u, p)
    BY DEF ApproveLoad, ExpireLoad, RejectLoad
<1>4. /\ req'[r].pc = pc /\ req'[r].p = p /\ req'[r].user = u /\ req'[r].st = st
      /\ \A x \in Requests \ {r} : req'[x] = req[x]
    BY <1>3 DEF Begin, IndInv, TypeOK
<1>5. SessionOK(r)'
    BY <1>1, <1>2, <1>3, <1>4 DEF SessionOK, Independent, MayApprove, Exists
<1>6. LockOK(r)'
    BY <1>3, <1>4 DEF LockOK
<1>7. LedgerInv'
    BY <1>1, SameLedger DEF IndInv
<1> QED BY <1>1, <1>4, <1>5, <1>6, <1>7, GoesOnPreserves

\* An undo starts from an unstamped block, so its reversal is not there yet.
LEMMA UndoFindPreserves ==
    ASSUME IndInv, NEW r \in Requests, NEW u \in Proposers, NEW b \in Forwards, UndoFind(r, u, b)
    PROVE  Preserves(r)
<1>1. db' = db /\ lock' = lock /\ sweep' = sweep /\ ran' = ran /\ u \in Users
    BY GatewayAssumption DEF UndoFind
<1>2. /\ req'[r].pc = "undo" /\ req'[r].p = b /\ req'[r].user = u
      /\ \A x \in Requests \ {r} : req'[x] = req[x]
    BY DEF UndoFind, Begin, IndInv, TypeOK
<1>3. b \in Proposals /\ Exists(b) /\ db[b].reversal = Null
    BY DEF UndoFind, find_active_action, Exists, Proposals
<1>4. ~Exists(<<b, r>>)
  <2>1. <<b, r>> \in Proposals /\ <<b, r>> \in Reversals /\ <<b, r>>[1] = b
      BY DEF Proposals, Reversals, Actors
  <2> QED BY <1>3, <2>1 DEF IndInv, LedgerInv, RowInv
<1>5. SessionOK(r)' /\ LockOK(r)'
    BY <1>1, <1>2, <1>3, <1>4 DEF SessionOK, LockOK, Exists
<1>6. LedgerInv'
    BY <1>1, SameLedger DEF IndInv
<1> QED BY <1>1, <1>2, <1>5, <1>6, GoesOnPreserves

\* The steps of a handler in flight.
LEMMA HandlerPreserves ==
    ASSUME IndInv, TypeOK', NEW r \in Requests, HandlerStep(r)
    PROVE  Preserves(r)
<1> DEFINE p == req[r].p
<1>0. SessionOK(r) /\ LockOK(r) /\ req[r] \in Session
    BY DEF IndInv, SessionInv, LockInv, TypeOK
<1>1. CASE DeclineCommit(r) \/ FreshnessRaises(r) \/ FreshnessStale(r)
  <2>1. EndTransaction(r) /\ sweep' = sweep /\ ran' = ran
      BY <1>1 DEF DeclineCommit, FreshnessRaises, FreshnessStale
  <2>2. RowsKept /\ SignedIndependently
      BY <1>1, OneRowCommitKeeps
  <2>3. LedgerInv'
      BY <2>1, <2>2, KeptLedger DEF IndInv
  <2> QED BY <2>1, <2>2, <2>3, EndPreserves
<1>2. CASE FinalCommit(r)
  <2>1. EndTransaction(r) /\ sweep' = sweep /\ ran' = ran
      BY <1>2 DEF FinalCommit
  <2>2. RowsKept /\ SignedIndependently
      BY <1>2, FinalCommitKeeps
  <2>3. LedgerInv'
      BY <2>1, <2>2, KeptLedger DEF IndInv
  <2> QED BY <2>1, <2>2, <2>3, EndPreserves
<1>3. CASE ApproveFlush(r) \/ UndoStamp(r)
  <2>1. db' = db /\ sweep' = sweep /\ ran' = ran /\ Acquire(r, p)
      BY <1>3 DEF ApproveFlush, UndoStamp
  <2>2. PICK pc \in {"fresh", "stamped"} :
           /\ req' = [req EXCEPT ![r].pc = pc]
           /\ pc = "fresh" => req[r].pc = "sign"
           /\ pc = "stamped" => req[r].pc = "undo"
      BY <1>3 DEF ApproveFlush, UndoStamp
  <2>3. /\ req'[r].pc = pc /\ req'[r].p = p /\ req'[r].user = req[r].user
        /\ req'[r].st = req[r].st /\ req'[r].altered = req[r].altered
        /\ \A x \in Requests \ {r} : req'[x] = req[x]
      BY <1>0, <2>2 DEF IndInv, TypeOK, Session
  <2>4. p \in Proposals
      BY <1>0, <2>2 DEF SessionOK
  <2>5. lock'[p] = r /\ \A q \in Proposals : lock[q] # Null => lock'[q] = lock[q]
      BY <2>1, <2>4 DEF Acquire, IndInv, TypeOK
  <2>6. SessionOK(r)'
      BY <1>0, <2>1, <2>2, <2>3 DEF SessionOK, Independent, Exists
  <2>7. LockOK(r)'
      BY <2>3, <2>5 DEF LockOK
  <2>8. LedgerInv'
      BY <2>1, SameLedger DEF IndInv
  <2> QED BY <2>1, <2>3, <2>5, <2>6, <2>7, <2>8, GoesOnPreserves
<1>4. CASE FreshnessOk(r)
  <2>1. db' = db /\ sweep' = sweep /\ ran' = ran /\ lock' = lock /\ req[r].pc = "fresh"
      BY <1>4 DEF FreshnessOk
  <2>2. /\ req'[r].pc = "perform" /\ req'[r].p = p /\ req'[r].user = req[r].user
        /\ req'[r].st = "executing" /\ req'[r].altered = req[r].altered /\ ~req[r].altered
        /\ \A x \in Requests \ {r} : req'[x] = req[x]
      BY <1>0, <1>4, SMTT(30) DEF FreshnessOk, HashMatches, IndInv, TypeOK, Session
  <2>3. SessionOK(r)' /\ LockOK(r)'
      BY <1>0, <2>1, <2>2 DEF SessionOK, LockOK, Independent, Exists
  <2>4. LedgerInv'
      BY <2>1, SameLedger DEF IndInv
  <2> QED BY <2>1, <2>2, <2>3, <2>4, GoesOnPreserves
<1>5. ASSUME NEW outcome \in {"succeeded", "failed"}, Perform(r, outcome) PROVE Preserves(r)
  <2>1. db' = db /\ sweep' = sweep /\ lock' = lock /\ req[r].pc = "perform"
      BY <1>5 DEF Perform
  <2>2. /\ req'[r].pc = "commit" /\ req'[r].p = p /\ req'[r].user = req[r].user
        /\ req'[r].st = outcome /\ req'[r].altered = req[r].altered
        /\ \A x \in Requests \ {r} : req'[x] = req[x]
    <3>1. PICK o : req' = [req EXCEPT ![r].pc = "commit", ![r].st = outcome,
                                      ![r].at = clock, ![r].orig = o]
        BY <1>5 DEF Perform
    <3> QED BY <1>0, <3>1 DEF IndInv, TypeOK, Session
  <2>3. SessionOK(r)' /\ LockOK(r)'
      BY <1>0, <2>1, <2>2 DEF SessionOK, LockOK, Independent, Exists
  <2>4. LedgerInv'
      BY <1>5, PerformLedger
  <2> QED BY <2>1, <2>2, <2>3, <2>4, GoesOnPreserves
<1>6. CASE UndoCommit(r)
  <2> DEFINE row == create_proposal(db[p].class, db[p].org, req[r].user, p, FALSE)
  <2>1. EndTransaction(r) /\ sweep' = sweep /\ ran' = ran /\ db' = create_reversal_proposal(p, r, row)
      BY <1>6 DEF UndoCommit
  <2>2. p \in Forwards /\ p \in Proposals /\ Exists(p) /\ ~Exists(<<p, r>>) /\ lock[p] = r /\ req[r].user \in Users
      BY <1>0, <1>6 DEF UndoCommit, SessionOK, LockOK
  <2>3. row \in ActionProposal
    <3>1. db[p] \in ActionProposal
        BY <2>2 DEF IndInv, TypeOK
    <3> QED BY <2>2, <3>1, RowTyped DEF ActionProposal, IndInv, TypeOK
  <2>4. /\ row.state = "pending" /\ row.reverses = p /\ row.reversal = Null /\ ~row.timed
        /\ row.due = NoTime /\ row.approver = Null /\ row.by # Wolf
      BY <2>2, GatewayAssumption DEF create_proposal
  <2>5. r \in Actors /\ r \notin Sweepers
      BY GatewayAssumption DEF Actors
  <2> HIDE DEF row
  <2>6. LedgerInv'
      BY <2>1, <2>2, <2>3, <2>4, <2>5, InsertReversal DEF IndInv
  <2>7. LedgerFrame(r)
      BY <2>1, <2>2, <2>4, <2>5, InsertFrame DEF IndInv, LedgerInv
  <2> QED BY <2>1, <2>5, <2>6, <2>7, EndFrame DEF Preserves, IndInv
<1> QED BY <1>1, <1>2, <1>3, <1>4, <1>5, <1>6 DEF HandlerStep

\* The steps of a sweeper.
LEMMA SweepPreserves ==
    ASSUME IndInv, TypeOK', NEW s \in Sweepers, SweepStep(s) \/ AutoReverseFails(s)
    PROVE  Preserves(s)
<1>0. SweepOK(s) /\ s \notin Requests /\ s \in Actors /\ s # Null /\ sweep[s] \in SweepState
    BY GatewayAssumption DEF IndInv, SweepInv, Actors, TypeOK
<1>1. ASSUME NEW q \in Proposals, NEW now, IsDue(q, now)
      PROVE q \in Forwards /\ Exists(q) /\ db[q].reversal = Null
    BY <1>1 DEF IsDue, IndInv, LedgerInv, RowInv, Proposals, Exists
<1>2. CASE SweepSelect(s)
  <2>1. db' = db /\ ran' = ran /\ req' = req /\ lock' = lock
      BY <1>2 DEF SweepSelect
  <2>2. PICK cands \in SUBSET {q \in Proposals : IsDue(q, clock)} :
           sweep' = [sweep EXCEPT ![s] = [cands |-> cands, blk |-> Null, now |-> clock]]
      BY <1>2 DEF SweepSelect
  <2>3. sweep'[s].cands = cands /\ sweep'[s].blk = Null /\ \A x \in Sweepers \ {s} : sweep'[x] = sweep[x]
      BY <2>2 DEF IndInv, TypeOK
  <2>4. cands \subseteq Forwards
      BY <1>1
  <2>5. LedgerInv' /\ LedgerFrame(s)
      BY <2>1, SameLedger, KeptFrame DEF IndInv
  <2>6. ActorFrame(s)
      BY <2>1, <2>3 DEF ActorFrame
  <2> QED BY <1>0, <2>3, <2>4, <2>5, <2>6 DEF Preserves, SweepOK
<1>3. ASSUME NEW b \in Proposals, claim_block(s, b) PROVE Preserves(s)
  <2>1. db' = db /\ ran' = ran /\ req' = req /\ IsDue(b, sweep[s].now) /\ lock[b] = Null
      BY <1>3 DEF claim_block, CanClaim
  <2>2. /\ sweep'[s].cands = sweep[s].cands \ {b} /\ sweep'[s].blk = b
        /\ \A x \in Sweepers \ {s} : sweep'[x] = sweep[x]
      BY <1>0, <1>3 DEF claim_block, IndInv, TypeOK, SweepState
  <2>3. lock'[b] = s /\ \A q \in Proposals : lock[q] # Null => lock'[q] = lock[q]
      BY <1>3, <2>1 DEF claim_block, IndInv, TypeOK
  <2>4. b \in Forwards /\ Exists(b) /\ db[b].reversal = Null
      BY <1>1, <2>1
  <2>5. SweepOK(s)'
      BY <1>0, <2>1, <2>2, <2>3, <2>4 DEF SweepOK, Exists
  <2>6. LedgerInv' /\ LedgerFrame(s)
      BY <2>1, SameLedger, KeptFrame DEF IndInv
  <2>7. ActorFrame(s)
      BY <2>1, <2>2, <2>3 DEF ActorFrame
  <2> QED BY <1>0, <2>5, <2>6, <2>7 DEF Preserves
<1>4. ASSUME NEW b \in Proposals, SkipBlock(s, b) PROVE Preserves(s)
  <2>1. db' = db /\ ran' = ran /\ req' = req /\ lock' = lock
      BY <1>4 DEF SkipBlock
  <2>2. /\ sweep'[s] = SweepOn(sweep[s].cands \ {b}, sweep[s].now)
        /\ \A x \in Sweepers \ {s} : sweep'[x] = sweep[x]
      BY <1>4 DEF SkipBlock, IndInv, TypeOK
  <2>3. sweep'[s].blk = Null /\ sweep'[s].cands = sweep[s].cands \ {b}
      BY <2>2 DEF SweepOn, IdleSweep
  <2>4. LedgerInv' /\ LedgerFrame(s)
      BY <2>1, SameLedger, KeptFrame DEF IndInv
  <2>5. ActorFrame(s)
      BY <2>1, <2>2 DEF ActorFrame
  <2> QED BY <1>0, <2>3, <2>4, <2>5 DEF Preserves, SweepOK
<1>5. CASE auto_reverse(s)
  <2> DEFINE b == sweep[s].blk
             new == create_proposal(db[b].class, db[b].org, Wolf, b, FALSE)
             row == [new EXCEPT !.state = "succeeded", !.approver = Wolf]
  <2>1. Unclaim(s) /\ req' = req /\ ran' = ran /\ db' = create_reversal_proposal(b, s, row)
      BY <1>5 DEF auto_reverse
  <2>2. b \in Forwards /\ b \in Proposals /\ Exists(b) /\ lock[b] = s /\ db[b].reversal = Null
      BY <1>0, <1>5 DEF auto_reverse, SweepOK, Proposals
  <2>3. ~Exists(<<b, s>>)
    <3>1. <<b, s>> \in Proposals /\ <<b, s>> \in Reversals /\ <<b, s>>[1] = b
        BY <1>0, <2>2 DEF Proposals, Reversals
    <3> QED BY <2>2, <3>1 DEF IndInv, LedgerInv, RowInv
  <2>4. new \in ActionProposal
    <3>1. db[b] \in ActionProposal
        BY <2>2 DEF IndInv, TypeOK
    <3> QED BY <2>2, <3>1, RowTyped DEF ActionProposal, IndInv, TypeOK
  <2>5. row \in ActionProposal
      BY <2>4, RowFields DEF ProposalState
  <2>6. /\ row.state = "succeeded" /\ row.reverses = b /\ row.reversal = Null /\ ~row.timed
        /\ row.due = NoTime /\ row.approver = Wolf /\ row.by = Wolf
      BY DEF create_proposal
  <2> HIDE DEF row
  <2>7. LedgerInv'
      BY <1>0, <2>1, <2>2, <2>3, <2>5, <2>6, InsertReversal DEF IndInv
  <2>8. LedgerFrame(s)
      BY <1>0, <2>1, <2>2, <2>3, <2>6, InsertFrame DEF IndInv, LedgerInv
  <2> QED BY <1>0, <2>1, <2>7, <2>8, UnclaimFrame DEF Preserves, IndInv
<1>6. CASE AutoReverseFails(s)
  <2>1. Unclaim(s) /\ req' = req /\ ran' = ran /\ db' = db
      BY <1>6 DEF AutoReverseFails
  <2>2. LedgerInv' /\ LedgerFrame(s)
      BY <2>1, SameLedger, KeptFrame DEF IndInv
  <2> QED BY <1>0, <2>1, <2>2, UnclaimFrame DEF Preserves, IndInv
<1> QED BY <1>2, <1>3, <1>4, <1>5, <1>6 DEF SweepStep

\* The steps nobody in the server takes: a chat turn queues a forward row, an
\* edit behind Wolf's back, the clock, and rest.
LEMMA OutsidePreserves ==
    ASSUME IndInv, TypeOK',
           \/ \E u \in Proposers, p \in Forwards, class \in Classes, timed \in BOOLEAN :
                 ProposeForward(u, p, class, timed)
           \/ \E p \in Proposals : EditRow(p)
           \/ Tick \/ UNCHANGED vars
    PROVE  Preserves(Null)
<1>0. Null \notin Requests /\ Null \notin Sweepers
    BY GatewayAssumption
<1>1. lock' = lock /\ req' = req /\ sweep' = sweep /\ ran' = ran
    BY DEF ProposeForward, EditRow, Tick, vars
<1>2. ActorFrame(Null)
    BY <1>1 DEF ActorFrame
<1>3. ASSUME NEW u \in Proposers, NEW p \in Forwards, NEW class \in Classes, NEW timed \in BOOLEAN,
             ProposeForward(u, p, class, timed)
      PROVE LedgerInv' /\ LedgerFrame(Null)
  <2> DEFINE row == create_proposal(class, OrgOf[u], u, Null, timed)
  <2>1. ~Exists(p) /\ db' = [db EXCEPT ![p] = row] /\ p \in Proposals
      BY <1>3 DEF ProposeForward, Proposals
  <2>2. row \in ActionProposal
      BY RowTyped, GatewayAssumption DEF IndInv, TypeOK
  <2>3. row.state = "pending" /\ row.reverses = Null /\ row.reversal = Null /\ row.approver = Null
      BY DEF create_proposal
  <2> HIDE DEF row
  <2>4. LedgerInv'
      BY <1>1, <2>1, <2>2, <2>3, InsertForward DEF IndInv
  <2>5. db'[p] = row /\ \A q \in Proposals \ {p} : db'[q] = db[q]
      BY <2>1 DEF IndInv, TypeOK
  <2>6. db[p].reversal = Null
      BY <2>1 DEF IndInv, LedgerInv, RowInv, AbsentRow
  <2>7. LedgerFrame(Null)
      BY <2>1, <2>3, <2>5, <2>6 DEF LedgerFrame, Exists
  <2> QED BY <2>4, <2>7
<1>4. ASSUME NEW p \in Proposals, EditRow(p) PROVE LedgerInv' /\ LedgerFrame(Null)
  <2>1. RowsKept /\ SignedIndependently
      BY <1>4, EditKeeps
  <2> QED BY <1>1, <2>1, KeptLedger, KeptFrame DEF IndInv
<1>5. CASE Tick \/ UNCHANGED vars
  <2>1. db' = db
      BY <1>5 DEF Tick, vars
  <2> QED BY <1>0, <1>1, <1>2, <2>1, SameLedger, KeptFrame DEF IndInv, Preserves
<1> QED BY <1>0, <1>2, <1>3, <1>4, <1>5 DEF Preserves

\* The inductive invariant is inductive.
LEMMA InvStep == ASSUME IndInv, [Next]_vars PROVE IndInv'
<1>1. TypeOK'
  <2>1. CASE Next
      BY <2>1, TypeStep
  <2>2. CASE UNCHANGED vars
      BY <2>2 DEF vars, IndInv, TypeOK
  <2> QED BY <2>1, <2>2
<1>2. \E a : Preserves(a)
  <2>1. ASSUME NEW r \in Requests, Abort(r) PROVE Preserves(r)
    <3>1. db' = db /\ ran' = ran /\ sweep' = sweep /\ EndTransaction(r)
        BY <2>1 DEF Abort
    <3>2. LedgerInv'
        BY <3>1, SameLedger DEF IndInv
    <3> QED BY <3>1, <3>2, EndPreserves
  <2>2. CASE \E r \in Requests, u \in Users, p \in Proposals :
                ApproveLoad(r, u, p) \/ ExpireLoad(r, u, p) \/ RejectLoad(r, u, p)
      BY <2>2, LoadPreserves
  <2>3. CASE \E r \in Requests, u \in Proposers, b \in Forwards : UndoFind(r, u, b)
      BY <2>3, UndoFindPreserves
  <2>4. CASE \E r \in Requests : HandlerStep(r) \/ Abort(r)
      BY <1>1, <2>1, <2>4, HandlerPreserves
  <2>5. CASE \E s \in Sweepers : SweepStep(s) \/ AutoReverseFails(s)
      BY <1>1, <2>5, SweepPreserves
  <2>6. CASE \/ \E u \in Proposers, p \in Forwards, class \in Classes, timed \in BOOLEAN :
                   ProposeForward(u, p, class, timed)
             \/ \E p \in Proposals : EditRow(p)
             \/ Tick \/ UNCHANGED vars
      BY <1>1, <2>6, OutsidePreserves
  <2>7. Waiting => UNCHANGED vars
      BY DEF Waiting
  <2> QED BY <2>2, <2>3, <2>4, <2>5, <2>6, <2>7 DEF Next
<1> QED BY <1>1, <1>2, PreservesInv

\* The inductive invariant holds of every reachable state of the gateway.
LEMMA IndInvHolds == Spec => []IndInv
<1>1. Init => IndInv
    BY InitIndInv
<1>2. IndInv /\ [Next]_vars => IndInv'
    BY InvStep
<1> QED BY <1>1, <1>2, PTL DEF Spec

-----------------------------------------------------------------------------

\* Every column, lock, session and sweep keeps its type.
THEOREM TypeCorrect == Spec => []TypeOK
    BY IndInvHolds, PTL DEF IndInv

\* Separation of duties: whatever handlers, sweepers, crashes and edits do in
\* between, each write sent to Wazuh and each human signature on the ledger is
\* an independent approver's (approve_proposal, approval.py).
THEOREM SeparationOfDuties == Spec => []FourEyes
    BY IndInvHolds, PTL DEF IndInv, LedgerInv

\* Nothing whose substance changed after its hash was taken is performed
\* (execute_proposal's recompute, execution.py).
THEOREM ApprovedIsPerformed == Spec => []PerformedAsProposed
    BY IndInvHolds, PTL DEF IndInv, LedgerInv

\* A block with a reversal is stamped, and a stamp names a reversal of its own
\* block (create_reversal_proposal, proposals.py).
THEOREM StampsAreSound == Spec => []StampsMatchReversals
    BY IndInvHolds, PTL DEF IndInv, LedgerInv

\* Any number of sweepers reverse a block at most once (claim_block's row lock
\* and second look, scheduler.py).
THEOREM SweepersReverseOnce == Spec => []SweepReversesOnce
    BY IndInvHolds, PTL DEF IndInv, LedgerInv
=============================================================================
