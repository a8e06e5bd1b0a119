--------------------------- MODULE ContractProofs ---------------------------
(***************************************************************************)
(* What the gateway promises when one request at a time decides a          *)
(* proposal: its terminal states are final, the sweep waits for the        *)
(* window, and it implements ActionContract.                               *)
(***************************************************************************)
EXTENDS GatewayProofs

DecidePC == {"sign", "decline", "fresh", "perform", "commit"}

Ran(p) == db[p].state \in {"succeeded", "rolled_back"}

\* Only a block has a window, and it got the window when it ran.  A row with a
\* reversal, or with a window, has succeeded.
BlockInv ==
    \A p \in Proposals :
        /\ db[p].timed => db[p].class = "active_response"
        /\ db[p].due # NoTime => db[p].timed /\ Ran(p) /\ ran[p] # <<>>
        /\ p \in Reversals /\ Exists(p) => Ran(p[1])

\* A row is still undecided while a handler decides it; the handler that undoes
\* a row, or whose undo has read the row it reverses, saw it succeeded.
DeciderOK(r) ==
    /\ req[r].pc \in {"sign", "fresh", "perform", "commit"} => db[req[r].p].state = "pending"
    /\ req[r].pc = "decline" =>
          \/ db[req[r].p].state = "pending" /\ req[r].st \in {"rejected", "expired"}
          \/ db[req[r].p].state = "approved" /\ req[r].st = "expired"
    /\ req[r].pc \in {"undo", "stamped"} => Ran(req[r].p)
    /\ req[r].pc = "sign" => req[r].orig = "absent"
    /\ req[r].pc = "fresh" => req[r].orig = "absent"
    /\ req[r].pc = "perform" => req[r].orig \in {"absent", "succeeded"}
    /\ req[r].pc = "commit" =>
          /\ req[r].st \in {"succeeded", "failed"}
          /\ ~RecordOnly(req[r].p) => ran[req[r].p] # <<>>
          /\ is_reversal(req[r].p) =>
                /\ req[r].orig \in {"succeeded", "rolled_back"}
                /\ req[r].orig = "rolled_back" => db[db[req[r].p].reverses].state = "rolled_back"

\* No two handlers decide one row.
AloneInv ==
    \A r, x \in Requests :
        req[r].pc \in DecidePC /\ req[x].pc \in DecidePC /\ req[r].p = req[x].p => r = x

\* A claimed block is past its window on the sweeper's clock, which is not ahead.
ClaimOK(s) ==
    /\ sweep[s].now <= clock
    /\ sweep[s].blk # Null =>
          /\ db[sweep[s].blk].due # NoTime
          /\ db[sweep[s].blk].due <= sweep[s].now

SerialInv ==
    /\ BlockInv /\ AloneInv /\ SweepWaitsForWindow
    /\ \A r \in Requests : DeciderOK(r)
    /\ \A s \in Sweepers : ClaimOK(s)

\* Without lost transactions: nothing was sent for an undecided row, unless its
\* handler is about to commit, and one write was sent for one that ran.
SentOnce ==
    \A p \in Proposals :
        /\ Len(ran[p]) <= 1
        /\ db[p].state \in {"absent", "pending", "approved"} /\ ran[p] # <<>> =>
              \E r \in Requests : req[r].p = p /\ req[r].pc = "commit"

-----------------------------------------------------------------------------
(* What the steps do to the ledger.                                         *)

SameColumns(q) ==
    /\ db'[q].timed = db[q].timed /\ db'[q].class = db[q].class
    /\ db'[q].reverses = db[q].reverses /\ db'[q].by = db[q].by

SameRow(q) == SameColumns(q) /\ db'[q].state = db[q].state /\ db'[q].due = db[q].due

\* A step that moves no row and sends nothing.
Quiet == ran' = ran /\ \A q \in Proposals : SameRow(q)

\* A new row: pending, or the executed reversal of a block whose window is over.
Inserts(p, st) ==
    /\ p \in Proposals /\ ~Exists(p) /\ ran' = ran
    /\ \A q \in Proposals \ {p} : SameRow(q)
    /\ db'[p].state = st /\ db'[p].due = NoTime
    /\ db'[p].timed => db'[p].class = "active_response"
    /\ p \in Reversals => db'[p].reverses = p[1] /\ Ran(p[1])
    /\ \/ st = "pending" /\ db'[p].by # Wolf
       \/ /\ st = "succeeded" /\ p \in Reversals /\ db'[p].class = "active_response"
          /\ db[p[1]].due # NoTime /\ db[p[1]].due <= clock

\* perform of a handler that writes to Wazuh.
Sends(r) ==
    /\ req[r].pc = "perform" /\ req[r].p \in Proposals
    /\ \A q \in Proposals : SameRow(q) /\ (q # req[r].p => ran'[q] = ran[q])
    /\ Len(ran'[req[r].p]) = Len(ran[req[r].p]) + 1
    /\ ran'[req[r].p] # <<>>

\* A commit that leaves the row unexecuted.
Closes(r) ==
    /\ req[r].pc \in {"decline", "fresh"} /\ req[r].p \in Proposals /\ ran' = ran
    /\ \A q \in Proposals \ {req[r].p} : SameRow(q)
    /\ SameColumns(req[r].p) /\ db'[req[r].p].due = db[req[r].p].due
    /\ db[req[r].p].state \in {"pending", "approved"}
    /\ db'[req[r].p].state \in {"approved", "rejected", "expired"}
    /\ db[req[r].p].state = "approved" => db'[req[r].p].state = "expired"

\* The commit of an execution: the outcome, the window of a timed block, and
\* the original that an undo rolls back.
Records(r) ==
    /\ req[r].pc = "commit" /\ req[r].p \in Proposals /\ ran' = ran
    /\ SameColumns(req[r].p) /\ db'[req[r].p].state = req[r].st
    /\ \/ db'[req[r].p].due = db[req[r].p].due
       \/ db[req[r].p].timed /\ ~is_reversal(req[r].p) /\ req[r].st = "succeeded"
    /\ RollsBack(r) =>
          /\ db[req[r].p].reverses \in Proposals \ {req[r].p}
          /\ SameColumns(db[req[r].p].reverses)
          /\ db'[db[req[r].p].reverses].due = db[db[req[r].p].reverses].due
          /\ db'[db[req[r].p].reverses].state = "rolled_back"
    /\ \A q \in Proposals \ {req[r].p} :
          SameRow(q) \/ (RollsBack(r) /\ q = db[req[r].p].reverses)

\* Loads, flushes, checks, sweeps without a reversal, edits and the clock are quiet.
LEMMA QuietSteps ==
    ASSUME IndInv,
           \/ UNCHANGED <<db, ran>>
           \/ \E p \in Proposals : EditRow(p)
    PROVE  Quiet
<1>1. CASE UNCHANGED <<db, ran>>
    BY <1>1 DEF Quiet, SameRow, SameColumns
<1>2. ASSUME NEW p \in Proposals, EditRow(p) PROVE Quiet
  <2>1. db[p] \in ActionProposal /\ db \in [Proposals -> ActionProposal]
      BY DEF IndInv, TypeOK
  <2>2. db'[p] = [db[p] EXCEPT !.altered = TRUE] /\ \A q \in Proposals \ {p} : db'[q] = db[q]
      BY <1>2, <2>1 DEF EditRow
  <2>3. SameRow(p)
      BY <2>1, <2>2 DEF SameRow, SameColumns, ActionProposal
  <2> QED BY <1>2, <2>2, <2>3 DEF Quiet, SameRow, SameColumns, EditRow
<1> QED BY <1>1, <1>2

\* A declined, stale or unread row is closed.
LEMMA CloseSteps ==
    ASSUME IndInv, NEW r \in Requests, DeciderOK(r),
           DeclineCommit(r) \/ FreshnessRaises(r) \/ FreshnessStale(r)
    PROVE  Closes(r)
<1> DEFINE p == req[r].p
<1>1. p \in Proposals /\ db[p] \in ActionProposal /\ db \in [Proposals -> ActionProposal]
    BY DEF IndInv, SessionInv, SessionOK, DeclineCommit, FreshnessRaises, FreshnessStale, TypeOK
<1>2. CASE DeclineCommit(r)
  <2>1. db'[p] = [db[p] EXCEPT !.state = req[r].st] /\ \A q \in Proposals \ {p} : db'[q] = db[q]
      BY <1>1, <1>2 DEF DeclineCommit
  <2>2. SameColumns(p) /\ db'[p].due = db[p].due /\ db'[p].state = req[r].st
      BY <1>1, <2>1 DEF SameColumns, ActionProposal
  <2>3. ran' = ran /\ req[r].pc = "decline"
      BY <1>2 DEF DeclineCommit
  <2> QED BY <1>1, <2>1, <2>2, <2>3 DEF Closes, SameRow, SameColumns, DeciderOK
<1>3. CASE FreshnessRaises(r) \/ FreshnessStale(r)
  <2>1. PICK st \in {"approved", "expired"} : CommitState(r, st)
      BY <1>3 DEF FreshnessRaises, FreshnessStale
  <2>2. /\ db'[p] = [[db[p] EXCEPT !.state = st] EXCEPT !.approver = req[r].user]
        /\ \A q \in Proposals \ {p} : db'[q] = db[q]
      BY <1>1, <2>1 DEF CommitState
  <2>3. SameColumns(p) /\ db'[p].due = db[p].due /\ db'[p].state = st
      BY <1>1, <2>2 DEF SameColumns, ActionProposal
  <2>4. ran' = ran /\ req[r].pc = "fresh"
      BY <1>3 DEF FreshnessRaises, FreshnessStale
  <2> QED BY <1>1, <2>2, <2>3, <2>4 DEF Closes, SameRow, SameColumns, DeciderOK
<1> QED BY <1>2, <1>3

\* The final commit records the outcome.
LEMMA RecordSteps ==
    ASSUME IndInv, NEW r \in Requests, FinalCommit(r)
    PROVE  Records(r)
<1> DEFINE p == req[r].p
           o == db[p].reverses
           executed == [db[p] EXCEPT !.state = req[r].st, !.approver = req[r].user,
                          !.due = IF req[r].st = "succeeded" /\ ~is_reversal(p)
                                  THEN stamp_auto_unblock_at(db[p], req[r].at) ELSE @]
<1>1. p \in Proposals /\ Exists(p) /\ ran' = ran /\ req[r].pc = "commit"
    BY DEF IndInv, SessionInv, SessionOK, FinalCommit
<1>2. db \in [Proposals -> ActionProposal] /\ db[p] \in ActionProposal
    BY <1>1 DEF IndInv, TypeOK
<1>3. /\ executed.timed = db[p].timed /\ executed.class = db[p].class
      /\ executed.reverses = db[p].reverses /\ executed.by = db[p].by
      /\ executed.state = req[r].st
      /\ \/ executed.due = db[p].due
         \/ db[p].timed /\ ~is_reversal(p) /\ req[r].st = "succeeded"
    BY <1>2 DEF ActionProposal, stamp_auto_unblock_at
<1>4. RollsBack(r) => o \in Proposals /\ o # p
  <2> SUFFICES ASSUME RollsBack(r) PROVE o \in Proposals /\ o # p
      OBVIOUS
  <2>1. is_reversal(p) /\ p \in Reversals
      BY <1>1 DEF RollsBack, IndInv, LedgerInv, RowInv, is_reversal, Proposals
  <2>2. o = p[1] /\ p[1] \in Forwards
      BY <1>1, <2>1 DEF IndInv, LedgerInv, RowInv, Reversals
  <2>3. p \notin Forwards
      BY <2>1, GatewayAssumption DEF Reversals, Actors
  <2> QED BY <2>2, <2>3 DEF Proposals
<1> HIDE DEF executed
<1>5. CASE RollsBack(r)
  <2>1. /\ db'[p] = executed /\ db'[o] = [db[o] EXCEPT !.state = "rolled_back"]
        /\ \A q \in Proposals \ {p, o} : db'[q] = db[q]
      BY <1>1, <1>2, <1>4, <1>5 DEF FinalCommit, executed
  <2>2. db[o] \in ActionProposal
      BY <1>2, <1>4, <1>5
  <2>3. SameColumns(o) /\ db'[o].due = db[o].due /\ db'[o].state = "rolled_back"
      BY <2>1, <2>2 DEF ActionProposal, SameColumns
  <2>4. SameColumns(p) /\ db'[p].state = req[r].st
      BY <1>3, <2>1 DEF SameColumns
  <2>5. \A q \in Proposals \ {p, o} : SameRow(q)
      BY <2>1 DEF SameRow, SameColumns
  <2>6. \/ db'[p].due = db[p].due
        \/ db[p].timed /\ ~is_reversal(p) /\ req[r].st = "succeeded"
      BY <1>3, <2>1
  <2> QED BY <1>1, <1>4, <1>5, <2>3, <2>4, <2>5, <2>6 DEF Records
<1>6. CASE ~RollsBack(r)
  <2>1. db'[p] = executed /\ \A q \in Proposals \ {p} : db'[q] = db[q]
      BY <1>1, <1>2, <1>6 DEF FinalCommit, executed
  <2>2. \A q \in Proposals \ {p} : SameRow(q)
      BY <2>1 DEF SameRow, SameColumns
  <2>3. SameColumns(p) /\ db'[p].state = req[r].st
      BY <1>3, <2>1 DEF SameColumns
  <2>4. \/ db'[p].due = db[p].due
        \/ db[p].timed /\ ~is_reversal(p) /\ req[r].st = "succeeded"
      BY <1>3, <2>1
  <2> QED BY <1>1, <1>6, <2>2, <2>3, <2>4 DEF Records
<1> QED BY <1>5, <1>6

\* A perform sends one write, or records a directive and sends none.
LEMMA SendSteps ==
    ASSUME IndInv, NEW r \in Requests, NEW outcome, Perform(r, outcome)
    PROVE  IF RecordOnly(req[r].p) THEN Quiet ELSE Sends(r)
<1> DEFINE p == req[r].p
           e == [by |-> req[r].user, altered |-> req[r].altered]
<1>1. p \in Proposals /\ req[r].pc = "perform" /\ db' = db /\ req[r].user \in Users
    BY DEF IndInv, SessionInv, SessionOK, Perform
<1>2. \A q \in Proposals : SameRow(q)
    BY <1>1 DEF SameRow, SameColumns
<1>3. CASE RecordOnly(p)
    BY <1>2, <1>3 DEF Quiet, Perform
<1>4. CASE ~RecordOnly(p)
  <2>1. ran' = [ran EXCEPT ![p] = Append(@, e)]
      BY <1>4 DEF Perform
  <2>2. ran[p] \in Seq([by : Users, altered : BOOLEAN]) /\ e \in [by : Users, altered : BOOLEAN]
      BY <1>1 DEF IndInv, TypeOK, Session
  <2>3. ran'[p] = Append(ran[p], e) /\ \A q \in Proposals \ {p} : ran'[q] = ran[q]
      BY <1>1, <2>1 DEF IndInv, TypeOK
  <2> HIDE DEF e
  <2>4. Len(Append(ran[p], e)) = Len(ran[p]) + 1 /\ Append(ran[p], e) # <<>>
      BY <2>2
  <2> QED BY <1>1, <1>2, <1>4, <2>3, <2>4 DEF Sends
<1> QED BY <1>3, <1>4

\* A reversal row inserted with its stamp.
LEMMA InsertedReversal ==
    ASSUME IndInv, BlockInv, NEW b \in Forwards, NEW a \in Actors, NEW row,
           Exists(b), ~Exists(<<b, a>>), Ran(b), ran' = ran,
           db' = create_reversal_proposal(b, a, row),
           row.due = NoTime, ~row.timed, row.reverses = b,
           \/ row.state = "pending" /\ row.by # Wolf
           \/ /\ row.state = "succeeded" /\ row.class = "active_response"
              /\ db[b].due # NoTime /\ db[b].due <= clock
    PROVE  Inserts(<<b, a>>, row.state)
<1> DEFINE n == <<b, a>>
<1>1. b \in Proposals /\ n \in Proposals /\ n \in Reversals /\ n # b /\ n[1] = b
    BY GatewayAssumption DEF Proposals, Reversals, Actors
<1>2. /\ db'[n] = row
      /\ db'[b] = [db[b] EXCEPT !.reversal = n]
      /\ \A q \in Proposals \ {b, n} : db'[q] = db[q]
    BY <1>1 DEF IndInv, TypeOK, create_reversal_proposal
<1>3. SameRow(b)
  <2>1. db[b] \in ActionProposal
      BY <1>1 DEF IndInv, TypeOK
  <2> QED BY <1>2, <2>1 DEF ActionProposal, SameRow, SameColumns
<1> HIDE DEF n
<1>4. \A q \in Proposals \ {n} : SameRow(q)
    BY <1>2, <1>3 DEF SameRow, SameColumns
<1>5. ~Exists(n)
    BY DEF n
<1>6. Inserts(n, row.state)
    BY <1>1, <1>2, <1>4, <1>5 DEF Inserts
<1> QED BY <1>6 DEF n

\* A chat turn queues a forward row or an undo; the sweep records a reversal.
LEMMA InsertSteps ==
    ASSUME IndInv, SerialInv
    PROVE  /\ \A u \in Proposers, p \in Forwards, class \in Classes, timed \in BOOLEAN :
                 ProposeForward(u, p, class, timed) => Inserts(p, "pending")
           /\ \A r \in Requests : UndoCommit(r) => Inserts(<<req[r].p, r>>, "pending")
           /\ \A s \in Sweepers : auto_reverse(s) => Inserts(<<sweep[s].blk, s>>, "succeeded")
<1>1. ASSUME NEW u \in Proposers, NEW p \in Forwards, NEW class \in Classes, NEW timed \in BOOLEAN,
             ProposeForward(u, p, class, timed)
      PROVE Inserts(p, "pending")
  <2> DEFINE row == create_proposal(class, OrgOf[u], u, Null, timed)
  <2>1. p \in Proposals /\ p \notin Reversals /\ ~Exists(p) /\ ran' = ran /\ u # Wolf
      BY <1>1, GatewayAssumption DEF ProposeForward, Proposals, Reversals, Actors
  <2>2. db'[p] = row /\ \A q \in Proposals \ {p} : db'[q] = db[q]
      BY <1>1, <2>1 DEF ProposeForward, IndInv, TypeOK
  <2>3. /\ row.state = "pending" /\ row.due = NoTime /\ row.by = u
        /\ row.timed => row.class = "active_response"
      BY <1>1 DEF ProposeForward, create_proposal
  <2> QED BY <2>1, <2>2, <2>3 DEF Inserts, SameRow, SameColumns
<1>2. ASSUME NEW r \in Requests, UndoCommit(r) PROVE Inserts(<<req[r].p, r>>, "pending")
  <2> DEFINE b == req[r].p
             row == create_proposal(db[b].class, db[b].org, req[r].user, b, FALSE)
  <2>1. b \in Forwards /\ Exists(b) /\ ~Exists(<<b, r>>) /\ req[r].user \in Users /\ r \in Actors
      BY <1>2 DEF UndoCommit, IndInv, SessionInv, SessionOK, Actors
  <2>2. Ran(b)
      BY <1>2 DEF UndoCommit, SerialInv, DeciderOK
  <2>3. row.state = "pending" /\ row.due = NoTime /\ ~row.timed /\ row.reverses = b /\ row.by # Wolf
      BY <2>1, GatewayAssumption DEF create_proposal
  <2>4. db' = create_reversal_proposal(b, r, row) /\ ran' = ran
      BY <1>2 DEF UndoCommit
  <2> HIDE DEF row
  <2> QED BY <2>1, <2>2, <2>3, <2>4, InsertedReversal DEF SerialInv
<1>3. ASSUME NEW s \in Sweepers, auto_reverse(s) PROVE Inserts(<<sweep[s].blk, s>>, "succeeded")
  <2> DEFINE b == sweep[s].blk
             row == [create_proposal(db[b].class, db[b].org, Wolf, b, FALSE)
                       EXCEPT !.state = "succeeded", !.approver = Wolf]
  <2>1. b # Null /\ b \in Forwards /\ b \in Proposals /\ Exists(b) /\ db[b].reversal = Null /\ s \in Actors
      BY <1>3 DEF auto_reverse, IndInv, SweepInv, SweepOK, Actors, Proposals
  <2>2. ~Exists(<<b, s>>)
    <3>1. <<b, s>> \in Proposals /\ <<b, s>> \in Reversals /\ <<b, s>>[1] = b
        BY <2>1 DEF Proposals, Reversals
    <3> QED BY <2>1, <3>1 DEF IndInv, LedgerInv, RowInv
  <2>3. db[b].due # NoTime /\ db[b].due <= clock
    <3>1. db[b].due \in Nat /\ sweep[s].now \in Nat /\ clock \in Nat
        BY <2>1 DEF IndInv, TypeOK, ActionProposal, SweepState
    <3>2. db[b].due # NoTime /\ db[b].due <= sweep[s].now /\ sweep[s].now <= clock
        BY <2>1 DEF SerialInv, ClaimOK
    <3> QED BY <3>1, <3>2
  <2>4. Ran(b) /\ db[b].class = "active_response"
      BY <2>1, <2>3 DEF SerialInv, BlockInv
  <2>5. /\ row.state = "succeeded" /\ row.due = NoTime /\ ~row.timed /\ row.reverses = b
        /\ row.class = db[b].class
      BY DEF create_proposal
  <2>6. db' = create_reversal_proposal(b, s, row) /\ ran' = ran
      BY <1>3 DEF auto_reverse
  <2> HIDE DEF row
  <2> QED BY <2>1, <2>2, <2>3, <2>4, <2>5, <2>6, InsertedReversal DEF SerialInv
<1> QED BY <1>1, <1>2, <1>3

-----------------------------------------------------------------------------
(* The ledger under one decider at a time.                                  *)

Kind(a) ==
    \/ Quiet
    \/ \E p, st : Inserts(p, st)
    \/ a \in Requests /\ (Sends(a) \/ Closes(a) \/ Records(a))

Decides(a, q) == a \in Requests /\ req[a].p = q /\ req[a].pc \in DecidePC

\* What a step of a leaves as it was: what has run has run, and an undecided
\* row is moved by its decider only.
SteadyRow(a, q) ==
    /\ Ran(q) => Ran(q)'
    /\ db[q].state = "rolled_back" => db'[q].state = "rolled_back"
    /\ Exists(q) => SameColumns(q)
    /\ ran[q] # <<>> => ran'[q] # <<>>
    /\ Exists(q) => SameRow(q) \/ (Ran(q) /\ db'[q].due = db[q].due) \/ Decides(a, q)

Steady(a) == \A q \in Proposals : SteadyRow(a, q)

\* Each kind of step is steady.
LEMMA KindSteady ==
    ASSUME IndInv, SerialInv, NEW a, Kind(a)
    PROVE  Steady(a)
<1> SUFFICES ASSUME NEW q \in Proposals PROVE SteadyRow(a, q)
    BY DEF Steady
<1> USE DEF SteadyRow
<1>1. SameRow(q) => (/\ Ran(q) => Ran(q)'
                     /\ db[q].state = "rolled_back" => db'[q].state = "rolled_back"
                     /\ SameColumns(q))
    BY DEF SameRow, Ran
<1>2. CASE Quiet
    BY <1>1, <1>2 DEF Quiet
<1>3. ASSUME NEW p, NEW st, Inserts(p, st) PROVE SteadyRow(a, q)
  <2>1. CASE q = p
      BY <1>3, <2>1 DEF Inserts, Exists, Ran
  <2>2. CASE q # p
      BY <1>1, <1>3, <2>2 DEF Inserts
  <2> QED BY <2>1, <2>2
<1>4. CASE a \in Requests /\ Sends(a)
    BY <1>1, <1>4 DEF Sends
<1>5. CASE a \in Requests /\ Closes(a)
  <2>1. CASE q = req[a].p
      BY <1>5, <2>1 DEF Closes, Ran, Decides, DecidePC
  <2>2. CASE q # req[a].p
      BY <1>1, <1>5, <2>2 DEF Closes
  <2> QED BY <2>1, <2>2
<1>6. CASE a \in Requests /\ Records(a)
  <2>1. db[req[a].p].state = "pending"
      BY <1>6 DEF Records, SerialInv, DeciderOK
  <2>2. RollsBack(a) => Ran(db[req[a].p].reverses)
    <3> SUFFICES ASSUME RollsBack(a) PROVE Ran(db[req[a].p].reverses)
        OBVIOUS
    <3>1. req[a].p \in Proposals /\ Exists(req[a].p) /\ is_reversal(req[a].p)
        BY <1>6, <2>1 DEF Records, RollsBack, Exists
    <3>2. req[a].p \in Reversals
        BY <3>1 DEF IndInv, LedgerInv, RowInv, is_reversal, Proposals
    <3> QED BY <3>1, <3>2 DEF IndInv, LedgerInv, RowInv, SerialInv, BlockInv
  <2>3. CASE q = req[a].p
      BY <1>6, <2>1, <2>3 DEF Records, Ran, Decides, DecidePC
  <2>4. CASE q # req[a].p /\ SameRow(q)
      BY <1>1, <1>6, <2>4 DEF Records
  <2>5. CASE q # req[a].p /\ RollsBack(a) /\ q = db[req[a].p].reverses
    <3>1. SameColumns(q) /\ db'[q].due = db[q].due /\ db'[q].state = "rolled_back" /\ ran' = ran
        BY <1>6, <2>5 DEF Records
    <3> QED BY <2>2, <2>5, <3>1 DEF Ran
  <2> QED BY <1>6, <2>3, <2>4, <2>5 DEF Records
<1> QED BY <1>2, <1>3, <1>4, <1>5, <1>6 DEF Kind

\* Windows and reversals stay with rows that ran.
LEMMA KindBlocks ==
    ASSUME IndInv, SerialInv, IndInv', NEW a, Kind(a)
    PROVE  BlockInv'
<1>0. Steady(a)
    BY KindSteady
<1> SUFFICES ASSUME NEW q \in Proposals
             PROVE (/\ db[q].timed => db[q].class = "active_response"
                    /\ db[q].due # NoTime => db[q].timed /\ Ran(q) /\ ran[q] # <<>>
                    /\ q \in Reversals /\ Exists(q) => Ran(q[1]))'
    BY DEF BlockInv
<1>1. /\ db[q].timed => db[q].class = "active_response"
      /\ db[q].due # NoTime => db[q].timed /\ Ran(q) /\ ran[q] # <<>>
      /\ q \in Reversals /\ Exists(q) => Ran(q[1])
    BY DEF SerialInv, BlockInv
<1>2. (q \in Reversals /\ Exists(q) => Ran(q[1]))'
  <2> SUFFICES ASSUME q \in Reversals, Exists(q)' PROVE Ran(q[1])'
      OBVIOUS
  <2>1. q[1] \in Proposals
      BY DEF Reversals, Proposals
  <2>2. Ran(q[1]) => Ran(q[1])'
      BY <1>0, <2>1 DEF Steady, SteadyRow
  <2>3. Ran(q[1])
    <3>1. CASE Exists(q)
        BY <1>1, <3>1
    <3>2. CASE ~Exists(q)
      <4>1. ~SameRow(q)
          BY <3>2 DEF SameRow, Exists
      <4>2. ASSUME NEW p, NEW st, Inserts(p, st) PROVE Ran(q[1])
          BY <4>1, <4>2 DEF Inserts
      <4>3. ~Quiet
          BY <4>1 DEF Quiet
      <4>4. ASSUME a \in Requests, Sends(a) \/ Closes(a) \/ Records(a) PROVE FALSE
        <5>1. q # req[a].p
            BY <3>2, <4>4 DEF Sends, Closes, Records, SerialInv, DeciderOK, IndInv, SessionInv, SessionOK
        <5>2. RollsBack(a) /\ q = db[req[a].p].reverses /\ Records(a)
            BY <4>1, <4>4, <5>1 DEF Sends, Closes, Records
        <5>3. q \in Forwards \cup {Null}
            BY <5>2 DEF Records, IndInv, TypeOK, ActionProposal
        <5> QED BY <5>3, GatewayAssumption DEF Reversals, Actors
      <4> QED BY <4>2, <4>3, <4>4 DEF Kind
    <3> QED BY <3>1, <3>2
  <2> QED BY <2>2, <2>3
<1>3. SameRow(q) => (/\ db[q].timed => db[q].class = "active_response"
                     /\ db[q].due # NoTime => db[q].timed /\ Ran(q) /\ ran[q] # <<>>)'
  <2>1. ran[q] # <<>> => ran'[q] # <<>>
      BY <1>0 DEF Steady, SteadyRow
  <2> QED BY <1>1, <2>1 DEF SameRow, SameColumns, Ran
<1>4. (/\ db[q].timed => db[q].class = "active_response"
       /\ db[q].due # NoTime => db[q].timed /\ Ran(q) /\ ran[q] # <<>>)'
  <2>1. CASE Quiet
      BY <1>3, <2>1 DEF Quiet
  <2>2. ASSUME NEW p, NEW st, Inserts(p, st)
        PROVE (/\ db[q].timed => db[q].class = "active_response"
               /\ db[q].due # NoTime => db[q].timed /\ Ran(q) /\ ran[q] # <<>>)'
      BY <1>3, <2>2 DEF Inserts
  <2>3. CASE a \in Requests /\ Sends(a)
      BY <1>3, <2>3 DEF Sends
  <2>4. CASE a \in Requests /\ Closes(a)
      BY <1>1, <1>3, <2>4 DEF Closes, SameColumns, Ran
  <2>5. CASE a \in Requests /\ Records(a)
    <3>1. CASE q = req[a].p
      <4>1. db[q].state = "pending" /\ (~is_reversal(q) => ran[q] # <<>>) /\ ran' = ran
          BY <2>5, <3>1 DEF Records, SerialInv, DeciderOK, RecordOnly
      <4>2. db[q].due = NoTime
          BY <1>1, <4>1 DEF Ran
      <4> QED BY <1>1, <2>5, <3>1, <4>1, <4>2 DEF Records, SameColumns, Ran
    <3>2. CASE q # req[a].p /\ RollsBack(a) /\ q = db[req[a].p].reverses
      <4>1. SameColumns(q) /\ db'[q].due = db[q].due /\ db'[q].state = "rolled_back" /\ ran' = ran
          BY <2>5, <3>2 DEF Records
      <4> QED BY <1>1, <4>1 DEF SameColumns, Ran
    <3> QED BY <1>3, <2>5, <3>1, <3>2 DEF Records
  <2> QED BY <2>1, <2>2, <2>3, <2>4, <2>5 DEF Kind
<1> QED BY <1>2, <1>4

\* A row that ran is not being decided.
LEMMA RanNotDecided ==
    ASSUME SerialInv, NEW a, NEW q, Ran(q)
    PROVE  ~Decides(a, q)
    BY DEF SerialInv, DeciderOK, Decides, DecidePC, Ran

\* The sweep reverses a block after its window, and the window stays.
LEMMA KindWindows ==
    ASSUME IndInv, SerialInv, NEW a, Kind(a), clock' \in Nat, clock' >= clock
    PROVE  SweepWaitsForWindow'
<1>0. Steady(a)
    BY KindSteady
<1> SUFFICES ASSUME NEW p \in Reversals, db'[p].by = Wolf
             PROVE (/\ ran[db[p].reverses] # <<>> /\ db[db[p].reverses].due # NoTime
                    /\ db[db[p].reverses].due <= clock)'
    BY DEF SweepWaitsForWindow
<1>1. p \in Proposals /\ p[1] \in Proposals /\ p[1] # p /\ p[1] \in Forwards
    BY GatewayAssumption DEF Proposals, Reversals, Actors
<1>2. CASE Exists(p)
  <2>1. SameColumns(p)
      BY <1>0, <1>1, <1>2 DEF Steady, SteadyRow
  <2>2. db[p].by = Wolf /\ db'[p].reverses = db[p].reverses /\ db[p].reverses = p[1] /\ Exists(p[1])
      BY <1>1, <1>2, <2>1 DEF SameColumns, IndInv, LedgerInv, RowInv
  <2>3. ran[p[1]] # <<>> /\ db[p[1]].due # NoTime /\ db[p[1]].due <= clock
      BY <2>2 DEF SerialInv, SweepWaitsForWindow
  <2>4. Ran(p[1])
      BY <1>1, <2>3 DEF SerialInv, BlockInv
  <2>5. db'[p[1]].due = db[p[1]].due /\ ran'[p[1]] # <<>>
      BY <1>0, <1>1, <2>2, <2>3, <2>4, RanNotDecided DEF Steady, SteadyRow, SameRow
  <2>6. db[p[1]].due \in Nat /\ clock \in Nat
      BY <1>1 DEF IndInv, TypeOK, ActionProposal
  <2> QED BY <2>2, <2>3, <2>5, <2>6
<1>3. CASE ~Exists(p)
  <2>1. db[p].by # Wolf
      BY <1>1, <1>3, GatewayAssumption DEF IndInv, LedgerInv, RowInv, AbsentRow
  <2>2. ~SameColumns(p)
      BY <2>1 DEF SameColumns
  <2>3. PICK st : Inserts(p, st)
    <3>1. ASSUME a \in Requests, Sends(a) \/ Closes(a) \/ Records(a) PROVE FALSE
      <4>1. SameColumns(req[a].p)
          BY <3>1 DEF Sends, Closes, Records, SameRow
      <4>2. p # req[a].p
          BY <2>2, <4>1
      <4> QED BY <1>1, <2>2, <3>1, <4>2 DEF Sends, Closes, Records, SameRow
    <3>2. ~Quiet
        BY <1>1, <2>2 DEF Quiet, SameRow
    <3>3. ASSUME NEW x, NEW st, Inserts(x, st) PROVE x = p
        BY <1>1, <2>2, <3>3 DEF Inserts, SameRow
    <3> QED BY <3>1, <3>2, <3>3 DEF Kind
  <2>4. db'[p].reverses = p[1] /\ db[p[1]].due # NoTime /\ db[p[1]].due <= clock /\ SameRow(p[1]) /\ ran' = ran
      BY <1>1, <2>3 DEF Inserts
  <2>5. ran[p[1]] # <<>>
      BY <1>1, <2>4 DEF SerialInv, BlockInv
  <2>6. db[p[1]].due \in Nat /\ clock \in Nat
      BY <1>1 DEF IndInv, TypeOK, ActionProposal
  <2> QED BY <2>4, <2>5, <2>6 DEF SameRow
<1> QED BY <1>2, <1>3

-----------------------------------------------------------------------------
(* The inductive step of SerialInv.                                         *)

\* What each action has to show, a being the handler or sweeper that takes it.
SerialStep(a) ==
    /\ Kind(a) /\ clock' \in Nat /\ clock' >= clock
    /\ \A x \in Requests \ {a} : req'[x] = req[x]
    /\ \A x \in Sweepers \ {a} : sweep'[x] = sweep[x]
    /\ a \in Requests =>
          /\ DeciderOK(a)'
          /\ \A x \in Requests \ {a} :
                ~(req'[a].pc \in DecidePC /\ req[x].pc \in DecidePC /\ req'[a].p = req[x].p)
    /\ a \in Sweepers => ClaimOK(a)'

\* The other handlers and sweepers keep what they rely on.
LEMMA OthersSerial ==
    ASSUME IndInv, SerialInv, NEW a, SerialStep(a)
    PROVE  /\ \A x \in Requests \ {a} : DeciderOK(x)'
           /\ \A x \in Sweepers \ {a} : ClaimOK(x)'
<1>0. Steady(a)
    BY KindSteady DEF SerialStep
<1>1. ASSUME NEW x \in Requests \ {a} PROVE DeciderOK(x)'
  <2> DEFINE p == req[x].p
  <2>1. req'[x] = req[x] /\ DeciderOK(x) /\ SessionOK(x) /\ req[x] \in Session
      BY DEF SerialStep, SerialInv, IndInv, SessionInv, TypeOK
  <2>2. CASE req[x].pc = "idle"
      BY <2>1, <2>2 DEF DeciderOK
  <2>3. CASE req[x].pc \in {"undo", "stamped"}
    <3>1. Ran(p) /\ p \in Proposals
        BY <2>1, <2>3 DEF DeciderOK, SessionOK
    <3>2. Ran(p)'
      <4>1. PICK q \in Proposals : q = p
          BY <3>1
      <4>2. Ran(q)'
          BY <1>0, <3>1, <4>1 DEF Steady, SteadyRow
      <4> QED BY <2>1, <4>1, <4>2 DEF Ran
    <3> QED BY <2>1, <2>3, <3>2 DEF DeciderOK
  <2>4. CASE req[x].pc \in DecidePC
    <3>1. p \in Proposals /\ Exists(p)
        BY <2>1, <2>4 DEF SessionOK, DecidePC
    <3>2. ~Decides(a, p)
        BY <2>4 DEF Decides, SerialInv, AloneInv
    <3>3. ~Ran(p)
        BY <2>1, <2>4 DEF DeciderOK, DecidePC, Ran
    <3>4. PICK q \in Proposals : q = p
        BY <3>1
    <3>5. SameRow(q) /\ (ran[q] # <<>> => ran'[q] # <<>>)
        BY <1>0, <3>1, <3>2, <3>3, <3>4 DEF Steady, SteadyRow
    <3>6. /\ db'[q].state = db[q].state /\ db'[q].class = db[q].class
          /\ db'[q].reverses = db[q].reverses
        BY <3>5 DEF SameRow, SameColumns
    <3>7. is_reversal(q) => db[q].reverses \in Proposals
        BY DEF is_reversal, IndInv, TypeOK, ActionProposal, Proposals
    <3>8. is_reversal(q) /\ db[db[q].reverses].state = "rolled_back"
            => db'[db[q].reverses].state = "rolled_back"
        BY <1>0, <3>7 DEF Steady, SteadyRow
    <3>9. (is_reversal(q)' <=> is_reversal(q)) /\ (RecordOnly(q)' <=> RecordOnly(q))
        BY <3>6 DEF is_reversal, RecordOnly
    <3> QED BY <2>1, <2>4, <3>4, <3>5, <3>6, <3>8, <3>9 DEF DeciderOK, DecidePC, is_reversal, RecordOnly
  <2> QED BY <2>1, <2>2, <2>3, <2>4 DEF Session, DecidePC
<1>2. ASSUME NEW x \in Sweepers \ {a} PROVE ClaimOK(x)'
  <2>1. sweep'[x] = sweep[x] /\ ClaimOK(x) /\ SweepOK(x) /\ sweep[x] \in SweepState
      BY DEF SerialStep, SerialInv, IndInv, SweepInv, TypeOK
  <2>2. sweep[x].now \in Nat /\ clock \in Nat /\ clock' \in Nat /\ clock' >= clock
      BY <2>1 DEF SweepState, IndInv, TypeOK, SerialStep
  <2>3. sweep'[x].now <= clock'
      BY <2>1, <2>2 DEF ClaimOK
  <2>4. CASE sweep[x].blk = Null
      BY <2>1, <2>3, <2>4 DEF ClaimOK
  <2>5. CASE sweep[x].blk # Null
    <3>1. PICK b \in Proposals : b = sweep[x].blk /\ Exists(b)
        BY <2>1, <2>5 DEF SweepOK, Proposals
    <3>2. Ran(b)
        BY <2>1, <2>5, <3>1 DEF ClaimOK, SerialInv, BlockInv
    <3>3. db'[b].due = db[b].due
        BY <1>0, <3>1, <3>2, RanNotDecided DEF Steady, SteadyRow, SameRow
    <3> QED BY <2>1, <2>3, <2>5, <3>1, <3>3 DEF ClaimOK
  <2> QED BY <2>4, <2>5
<1> QED BY <1>1, <1>2

\* The actor's own obligations and the frame together give the invariant.
LEMMA SerialStepInv ==
    ASSUME IndInv, SerialInv, IndInv', NEW a, SerialStep(a)
    PROVE  SerialInv'
<1>1. BlockInv' /\ SweepWaitsForWindow'
    BY KindBlocks, KindWindows DEF SerialStep
<1>2. \A r \in Requests : DeciderOK(r)'
    BY OthersSerial DEF SerialStep
<1>3. \A s \in Sweepers : ClaimOK(s)'
    BY OthersSerial DEF SerialStep
<1>4. AloneInv'
  <2> SUFFICES ASSUME NEW r \in Requests, NEW x \in Requests, r # x,
                      req'[r].pc \in DecidePC, req'[x].pc \in DecidePC, req'[r].p = req'[x].p
               PROVE FALSE
      BY DEF AloneInv
  <2>1. CASE r = a
      BY <2>1 DEF SerialStep
  <2>2. CASE x = a
      BY <2>2 DEF SerialStep
  <2>3. CASE r # a /\ x # a
    <3>1. req'[r] = req[r] /\ req'[x] = req[x]
        BY <2>3 DEF SerialStep
    <3> QED BY <3>1 DEF SerialInv, AloneInv
  <2> QED BY <2>1, <2>2, <2>3
<1> QED BY <1>1, <1>2, <1>3, <1>4 DEF SerialInv

\* A handler whose transaction ends decides nothing any more.
LEMMA EndSerial ==
    ASSUME IndInv, NEW r \in Requests, Kind(r), EndTransaction(r), UNCHANGED <<sweep, clock>>
    PROVE  SerialStep(r)
<1>1. req'[r].pc = "idle" /\ \A x \in Requests \ {r} : req'[x] = req[x]
    BY DEF EndTransaction, IndInv, TypeOK, IdleRequest
<1>2. r \notin Sweepers /\ clock \in Nat /\ clock' = clock
    BY GatewayAssumption DEF IndInv, TypeOK
<1> QED BY <1>1, <1>2 DEF SerialStep, DeciderOK, DecidePC

\* A handler that loads a row decides it alone.
LEMMA LoadSerial ==
    ASSUME IndInv, SerialDeciders, NEW r \in Requests, NEW u \in Users, NEW p \in Proposals,
           ApproveLoad(r, u, p) \/ ExpireLoad(r, u, p) \/ RejectLoad(r, u, p)
    PROVE  SerialStep(r)
<1>1. UNCHANGED <<db, sweep, clock, ran>>
    BY DEF ApproveLoad, ExpireLoad, RejectLoad
<1>2. \A x \in Requests : ~Deciding(x, p)
    BY DEF ApproveLoad, ExpireLoad, RejectLoad, load_proposal
<1>3. PICK pc, st : /\ Begin(r, u, p, pc, st)
                    /\ \/ pc = "sign" /\ db[p].state = "pending"
                       \/ pc = "decline" /\ st \in {"rejected", "expired"} /\ db[p].state = "pending"
                       \/ pc = "decline" /\ st = "expired" /\ db[p].state = "approved"
    BY DEF ApproveLoad, ExpireLoad, RejectLoad, can_transition, ALLOWED_TRANSITIONS
<1>4. /\ req'[r].pc = pc /\ req'[r].p = p /\ req'[r].st = st /\ req'[r].orig = "absent"
      /\ \A x \in Requests \ {r} : req'[x] = req[x]
    BY <1>3 DEF Begin, IndInv, TypeOK
<1>5. DeciderOK(r)'
    BY <1>1, <1>3, <1>4 DEF DeciderOK
<1>6. \A x \in Requests : ~(req[x].pc \in DecidePC /\ req[x].p = p)
    BY <1>2 DEF Deciding, DecidePC
<1>7. r \notin Sweepers /\ clock \in Nat /\ Quiet
    BY <1>1, GatewayAssumption, QuietSteps DEF IndInv, TypeOK
<1> QED BY <1>1, <1>4, <1>5, <1>6, <1>7 DEF SerialStep, Kind

\* A handler that goes on with the row it has.
LEMMA GoesOnSerial ==
    ASSUME IndInv, SerialInv, NEW r \in Requests, Kind(r), UNCHANGED <<sweep, clock>>,
           DeciderOK(r)', req'[r].p = req[r].p,
           req'[r].pc \in DecidePC => req[r].pc \in DecidePC,
           \A x \in Requests \ {r} : req'[x] = req[x]
    PROVE  SerialStep(r)
<1>1. r \notin Sweepers /\ clock \in Nat /\ clock' = clock
    BY GatewayAssumption DEF IndInv, TypeOK
<1>2. \A x \in Requests \ {r} :
         ~(req'[r].pc \in DecidePC /\ req[x].pc \in DecidePC /\ req'[r].p = req[x].p)
    BY DEF SerialInv, AloneInv
<1> QED BY <1>1, <1>2 DEF SerialStep

\* The original of an undo that is on the ledger has run.
LEMMA OriginalRan ==
    ASSUME IndInv, SerialInv, NEW p \in Proposals, Exists(p), is_reversal(p)
    PROVE  db[p].reverses \in Proposals /\ Ran(db[p].reverses)
<1>1. p \in Reversals
    BY DEF IndInv, LedgerInv, RowInv, is_reversal, Proposals
<1>2. db[p].reverses = p[1] /\ p[1] \in Proposals
    BY <1>1 DEF IndInv, LedgerInv, RowInv, Reversals, Proposals
<1> QED BY <1>1, <1>2 DEF SerialInv, BlockInv

\* The steps of a handler in flight.
LEMMA HandlerSerial ==
    ASSUME IndInv, SerialInv, NEW r \in Requests, HandlerStep(r)
    PROVE  SerialStep(r)
<1> DEFINE p == req[r].p
<1>0. /\ SessionOK(r) /\ DeciderOK(r) /\ req[r] \in Session /\ req \in [Requests -> Session]
      /\ clock \in Nat
    BY DEF IndInv, SessionInv, SerialInv, TypeOK
<1>1. CASE DeclineCommit(r) \/ FreshnessRaises(r) \/ FreshnessStale(r)
  <2>1. EndTransaction(r) /\ UNCHANGED <<sweep, clock>>
      BY <1>1 DEF DeclineCommit, FreshnessRaises, FreshnessStale
  <2>2. Kind(r)
      BY <1>0, <1>1, CloseSteps DEF Kind
  <2> QED BY <2>1, <2>2, EndSerial
<1>2. CASE FinalCommit(r)
  <2>1. EndTransaction(r) /\ UNCHANGED <<sweep, clock>>
      BY <1>2 DEF FinalCommit
  <2>2. Kind(r)
      BY <1>2, RecordSteps DEF Kind
  <2> QED BY <2>1, <2>2, EndSerial
<1>3. CASE UndoCommit(r)
  <2>1. EndTransaction(r) /\ UNCHANGED <<sweep, clock>>
      BY <1>3 DEF UndoCommit
  <2>2. Kind(r)
      BY <1>3, InsertSteps DEF Kind
  <2> QED BY <2>1, <2>2, EndSerial
<1>4. CASE ApproveFlush(r) \/ UndoStamp(r)
  <2>1. UNCHANGED <<db, sweep, clock, ran>>
      BY <1>4 DEF ApproveFlush, UndoStamp
  <2>2. PICK pc \in {"fresh", "stamped"} :
           /\ req' = [req EXCEPT ![r].pc = pc]
           /\ pc = "fresh" => req[r].pc = "sign"
           /\ pc = "stamped" => req[r].pc = "undo"
      BY <1>4 DEF ApproveFlush, UndoStamp
  <2>3. /\ req'[r].pc = pc /\ req'[r].p = p /\ req'[r].orig = req[r].orig
        /\ \A x \in Requests \ {r} : req'[x] = req[x]
      BY <1>0, <2>2 DEF Session
  <2>4. DeciderOK(r)'
      BY <1>0, <2>1, <2>2, <2>3 DEF DeciderOK, Ran
  <2>5. Kind(r)
      BY <2>1, QuietSteps DEF Kind
  <2> QED BY <2>1, <2>2, <2>3, <2>4, <2>5, GoesOnSerial DEF DecidePC
<1>5. CASE FreshnessOk(r)
  <2>1. UNCHANGED <<db, sweep, clock, ran>> /\ req[r].pc = "fresh" /\ p \in Proposals /\ Exists(p)
      BY <1>0, <1>5 DEF FreshnessOk, SessionOK
  <2>2. PICK o : /\ req' = [req EXCEPT ![r].pc = "perform", ![r].st = "executing", ![r].orig = o]
                 /\ o = IF ReadsLedger(p) THEN db[db[p].reverses].state ELSE req[r].orig
      BY <1>0, <1>5 DEF FreshnessOk
  <2>3. o \in {"absent", "succeeded"}
    <3>1. CASE ReadsLedger(p)
        BY <1>5, <2>1, <2>2, <3>1, OriginalRan DEF ReadsLedger, Ran, FreshnessOk
    <3>2. CASE ~ReadsLedger(p)
        BY <1>0, <2>1, <2>2, <3>2 DEF DeciderOK
    <3> QED BY <3>1, <3>2
  <2>4. /\ req'[r].pc = "perform" /\ req'[r].p = p /\ req'[r].orig = o
        /\ \A x \in Requests \ {r} : req'[x] = req[x]
      BY <1>0, <2>2 DEF Session
  <2>5. DeciderOK(r)'
      BY <1>0, <2>1, <2>3, <2>4 DEF DeciderOK
  <2>6. Kind(r)
      BY <2>1, QuietSteps DEF Kind
  <2> QED BY <2>1, <2>4, <2>5, <2>6, GoesOnSerial DEF DecidePC
<1>6. ASSUME NEW outcome \in {"succeeded", "failed"}, Perform(r, outcome) PROVE SerialStep(r)
  <2>1. UNCHANGED <<db, sweep, clock>> /\ req[r].pc = "perform" /\ p \in Proposals /\ Exists(p)
      BY <1>0, <1>6 DEF Perform, SessionOK
  <2>2. PICK o : /\ req' = [req EXCEPT ![r].pc = "commit", ![r].st = outcome,
                                       ![r].at = clock, ![r].orig = o]
                 /\ o = IF is_reversal(p) /\ req[r].orig = "absent"
                        THEN db[db[p].reverses].state ELSE req[r].orig
      BY <1>0, <1>6 DEF Perform
  <2>3. is_reversal(p) => /\ o \in {"succeeded", "rolled_back"}
                          /\ o = "rolled_back" => db[db[p].reverses].state = "rolled_back"
      BY <1>0, <2>1, <2>2, OriginalRan DEF DeciderOK, Ran
  <2>4. /\ req'[r].pc = "commit" /\ req'[r].p = p /\ req'[r].orig = o /\ req'[r].st = outcome
        /\ \A x \in Requests \ {r} : req'[x] = req[x]
      BY <1>0, <2>2 DEF Session
  <2>5. IF RecordOnly(p) THEN Quiet ELSE Sends(r)
      BY <1>6, SendSteps
  <2>6. ~RecordOnly(p) => ran'[p] # <<>>
      BY <2>5 DEF Sends
  <2>7. DeciderOK(r)'
      BY <1>0, <2>1, <2>3, <2>4, <2>6 DEF DeciderOK, RecordOnly, is_reversal
  <2>8. Kind(r)
      BY <2>5 DEF Kind
  <2> QED BY <2>1, <2>4, <2>7, <2>8, GoesOnSerial DEF DecidePC
<1> QED BY <1>1, <1>2, <1>3, <1>4, <1>5, <1>6 DEF HandlerStep

\* The steps of a sweeper.
LEMMA SweepSerial ==
    ASSUME IndInv, SerialInv, NEW s \in Sweepers, SweepStep(s) \/ AutoReverseFails(s)
    PROVE  SerialStep(s)
<1>0. /\ s \notin Requests /\ sweep \in [Sweepers -> SweepState] /\ sweep[s] \in SweepState
      /\ clock \in Nat /\ ClaimOK(s) /\ sweep[s].now \in Nat
    BY GatewayAssumption DEF IndInv, TypeOK, SerialInv, SweepState
<1>1. req' = req /\ clock' = clock
    BY DEF SweepStep, SweepSelect, claim_block, SkipBlock, auto_reverse, AutoReverseFails
<1>2. Kind(s)
  <2>1. CASE auto_reverse(s)
      BY <2>1, InsertSteps DEF Kind
  <2>2. CASE ~auto_reverse(s)
    <3>1. UNCHANGED <<db, ran>>
        BY <2>2 DEF SweepStep, SweepSelect, claim_block, SkipBlock, AutoReverseFails
    <3> QED BY <3>1, QuietSteps DEF Kind
  <2> QED BY <2>1, <2>2
<1>3. ClaimOK(s)' /\ \A x \in Sweepers \ {s} : sweep'[x] = sweep[x]
  <2>1. CASE SweepSelect(s)
    <3>1. PICK cands : sweep' = [sweep EXCEPT ![s] = [cands |-> cands, blk |-> Null, now |-> clock]]
        BY <2>1 DEF SweepSelect
    <3> QED BY <1>0, <1>1, <3>1 DEF ClaimOK
  <2>2. ASSUME NEW b \in Proposals, claim_block(s, b)
        PROVE  ClaimOK(s)' /\ \A x \in Sweepers \ {s} : sweep'[x] = sweep[x]
    <3>1. db' = db /\ IsDue(b, sweep[s].now)
        BY <2>2 DEF claim_block, CanClaim
    <3>2. /\ sweep'[s].blk = b /\ sweep'[s].now = sweep[s].now
          /\ \A x \in Sweepers \ {s} : sweep'[x] = sweep[x]
        BY <1>0, <2>2 DEF claim_block, SweepState
    <3> QED BY <1>0, <1>1, <3>1, <3>2 DEF ClaimOK, IsDue
  <2>3. ASSUME NEW cands, sweep' = [sweep EXCEPT ![s] = SweepOn(cands, sweep[s].now)]
        PROVE  ClaimOK(s)' /\ \A x \in Sweepers \ {s} : sweep'[x] = sweep[x]
    <3>1. sweep'[s] = SweepOn(cands, sweep[s].now)
        BY <1>0, <2>3
    <3>2. sweep'[s].blk = Null /\ sweep'[s].now \in {0, sweep[s].now}
        BY <3>1 DEF SweepOn, IdleSweep, NoTime
    <3>3. sweep'[s].now <= clock
        BY <1>0, <3>2 DEF ClaimOK
    <3> QED BY <1>0, <1>1, <2>3, <3>2, <3>3 DEF ClaimOK
  <2> QED BY <2>1, <2>2, <2>3 DEF SweepStep, SkipBlock, auto_reverse, AutoReverseFails, Unclaim
<1> QED BY <1>0, <1>1, <1>2, <1>3 DEF SerialStep

\* Every step of the gateway is one of them, or takes nobody in the server.
LEMMA StepSerial ==
    ASSUME IndInv, SerialInv, SerialDeciders, [Next]_vars
    PROVE  \E a : SerialStep(a)
<1>1. ASSUME NEW r \in Requests, NEW u \in Users, NEW p \in Proposals,
             ApproveLoad(r, u, p) \/ ExpireLoad(r, u, p) \/ RejectLoad(r, u, p)
      PROVE SerialStep(r)
    BY <1>1, LoadSerial
<1>2. ASSUME NEW r \in Requests, NEW u \in Proposers, NEW b \in Forwards, UndoFind(r, u, b)
      PROVE SerialStep(r)
  <2>1. UNCHANGED <<db, sweep, clock, ran>> /\ db[b].state = "succeeded"
      BY <1>2 DEF UndoFind, find_active_action
  <2>2. /\ req'[r].pc = "undo" /\ req'[r].p = b
        /\ \A x \in Requests \ {r} : req'[x] = req[x]
      BY <1>2 DEF UndoFind, Begin, IndInv, TypeOK
  <2>3. DeciderOK(r)'
      BY <2>1, <2>2 DEF DeciderOK, Ran
  <2>4. Kind(r) /\ r \notin Sweepers /\ clock \in Nat
      BY <2>1, QuietSteps, GatewayAssumption DEF Kind, IndInv, TypeOK
  <2> QED BY <2>1, <2>2, <2>3, <2>4 DEF SerialStep, DecidePC
<1>3. ASSUME NEW r \in Requests, Abort(r) PROVE SerialStep(r)
  <2>1. EndTransaction(r) /\ UNCHANGED <<db, ran, sweep, clock>>
      BY <1>3 DEF Abort
  <2> QED BY <2>1, EndSerial, QuietSteps DEF Kind
<1>4. ASSUME \/ \E u \in Proposers, p \in Forwards, class \in Classes, timed \in BOOLEAN :
                   ProposeForward(u, p, class, timed)
             \/ \E p \in Proposals : EditRow(p)
             \/ Tick \/ UNCHANGED vars
      PROVE SerialStep(Null)
  <2>1. UNCHANGED <<req, sweep>> /\ Null \notin Requests /\ Null \notin Sweepers
      BY <1>4, GatewayAssumption DEF ProposeForward, EditRow, Tick, vars
  <2>2. clock \in Nat /\ clock' \in {clock, clock + 1}
      BY <1>4 DEF ProposeForward, EditRow, Tick, vars, IndInv, TypeOK
  <2>3. clock' \in Nat /\ clock' >= clock
      BY <2>2
  <2>4. Kind(Null)
    <3>1. CASE \E u \in Proposers, p \in Forwards, class \in Classes, timed \in BOOLEAN :
                   ProposeForward(u, p, class, timed)
        BY <3>1, InsertSteps DEF Kind
    <3>2. CASE (\E p \in Proposals : EditRow(p)) \/ Tick \/ UNCHANGED vars
        BY <3>2, QuietSteps DEF Kind, Tick, vars
    <3> QED BY <1>4, <3>1, <3>2
  <2> QED BY <2>1, <2>3, <2>4 DEF SerialStep
<1>5. Waiting => UNCHANGED vars
    BY DEF Waiting
<1> QED BY <1>1, <1>2, <1>3, <1>4, <1>5, HandlerSerial, SweepSerial DEF Next

\* The empty ledger satisfies the invariant.
LEMMA InitSerial == Init => SerialInv
<1> SUFFICES ASSUME Init PROVE SerialInv
    OBVIOUS
<1> USE GatewayAssumption DEF Init, AbsentRow, IdleRequest, IdleSweep, NoTime
<1>1. BlockInv /\ SweepWaitsForWindow
    BY DEF BlockInv, SweepWaitsForWindow, Exists, Proposals
<1>2. AloneInv /\ \A r \in Requests : DeciderOK(r)
    BY DEF AloneInv, DeciderOK, DecidePC
<1>3. \A s \in Sweepers : ClaimOK(s)
    BY DEF ClaimOK
<1> QED BY <1>1, <1>2, <1>3 DEF SerialInv

\* With one decider at a time the invariant always holds.
LEMMA SerialInvHolds == ASSUME SerialDeciders PROVE Spec => [](IndInv /\ SerialInv)
<1>1. Init => IndInv /\ SerialInv
    BY InitIndInv, InitSerial
<1>2. IndInv /\ SerialInv /\ [Next]_vars => (IndInv /\ SerialInv)'
    BY InvStep, StepSerial, SerialStepInv
<1> QED BY <1>1, <1>2, PTL DEF Spec

-----------------------------------------------------------------------------

\* With one decider at a time the sweep reverses only a block that ran, and not
\* before its window is over (due_block_ids and claim_block, scheduler.py); the
\* window of a reversed block is never moved again.
THEOREM SweepKeepsWindow == ASSUME SerialDeciders PROVE Spec => []SweepWaitsForWindow
    BY SerialInvHolds, PTL DEF SerialInv

\* What TerminalIsFinal says of one row.
FinalRow(p) ==
    /\ db[p].state \in TERMINAL_STATES \cup {"rolled_back"} /\ db'[p].state # db[p].state =>
          db[p].state = "succeeded" /\ db'[p].state = "rolled_back"
    /\ db[p].state # "rolled_back" =>
          ( db'[p].state = "rolled_back" <=>
              \E r \in Reversals :
                  /\ db'[r].reverses = p /\ db'[r].class # "active_response"
                  /\ db[r].state # "succeeded" /\ db'[r].state = "succeeded" )

\* A row may succeed as a reversal only where its original is rolled back.
LEMMA KindFinal ==
    ASSUME IndInv, SerialInv, NEW a, Kind(a), NEW p \in Proposals
    PROVE  FinalRow(p)
<1> USE DEF TERMINAL_STATES
<1>0. Reversals \subseteq Proposals
    BY DEF Proposals
<1>1. CASE \A q \in Proposals : SameRow(q)
    BY <1>0, <1>1 DEF FinalRow, SameRow
<1>2. ASSUME NEW x, NEW st, Inserts(x, st) PROVE FinalRow(p)
  <2>1. \A q \in Proposals \ {x} : db'[q].state = db[q].state
      BY <1>2 DEF Inserts, SameRow
  <2>2. \A q \in Reversals : db[q].state # "succeeded" /\ db'[q].state = "succeeded" => db'[q].class = "active_response"
      BY <1>0, <1>2, <2>1 DEF Inserts
  <2>3. x \in Proposals /\ db[x].state = "absent" /\ db'[x].state # "rolled_back"
      BY <1>2 DEF Inserts, Exists
  <2> QED BY <2>1, <2>2, <2>3 DEF FinalRow
<1>3. CASE a \in Requests /\ Closes(a)
  <2>1. \A q \in Proposals : db'[q].state = db[q].state \/
           (/\ db[q].state \in {"pending", "approved"} /\ db'[q].state \in {"approved", "rejected", "expired"})
      BY <1>3 DEF Closes, SameRow
  <2> QED BY <1>0, <2>1 DEF FinalRow
<1>4. CASE a \in Requests /\ Records(a)
  <2> DEFINE v == req[a].p
             o == db[v].reverses
  <2>1. /\ v \in Proposals /\ Exists(v) /\ db[v].state = "pending"
        /\ req[a].st \in {"succeeded", "failed"} /\ db'[v].state = req[a].st
        /\ db'[v].reverses = db[v].reverses /\ db'[v].class = db[v].class
      BY <1>4 DEF Records, SerialInv, DeciderOK, Exists, SameColumns
  <2>2. \A q \in Proposals \ {v} : db'[q].state = db[q].state \/ (RollsBack(a) /\ q = o /\ db'[q].state = "rolled_back")
      BY <1>4 DEF Records, SameRow
  <2>3. RollsBack(a) => /\ o \in Proposals /\ o # v /\ db'[o].state = "rolled_back"
                        /\ v \in Reversals /\ db[v].class # "active_response" /\ req[a].st = "succeeded"
                        /\ db[o].state \in {"succeeded", "rolled_back"}
    <3> SUFFICES ASSUME RollsBack(a)
                 PROVE  /\ o \in Proposals /\ o # v /\ db'[o].state = "rolled_back"
                        /\ v \in Reversals /\ db[v].class # "active_response" /\ req[a].st = "succeeded"
                        /\ db[o].state \in {"succeeded", "rolled_back"}
        OBVIOUS
    <3>1. o \in Proposals /\ o # v /\ db'[o].state = "rolled_back"
        BY <1>4 DEF Records
    <3>2. is_reversal(v) /\ db[v].class # "active_response" /\ req[a].st = "succeeded"
        BY DEF RollsBack
    <3>3. v \in Reversals
        BY <2>1, <3>2 DEF IndInv, LedgerInv, RowInv, is_reversal, Proposals
    <3> QED BY <2>1, <3>1, <3>2, <3>3, OriginalRan DEF Ran
  <2>4. ~RollsBack(a) /\ v \in Reversals /\ db[v].class # "active_response" /\ req[a].st = "succeeded"
          => db[o].state = "rolled_back"
    <3> SUFFICES ASSUME ~RollsBack(a), v \in Reversals, db[v].class # "active_response",
                        req[a].st = "succeeded"
                 PROVE db[o].state = "rolled_back"
        OBVIOUS
    <3>1. is_reversal(v)
        BY <2>1, GatewayAssumption DEF IndInv, LedgerInv, RowInv, is_reversal, Reversals
    <3>2. /\ req[a].orig \in {"succeeded", "rolled_back"}
          /\ req[a].orig = "rolled_back" => db[o].state = "rolled_back"
        BY <1>4, <3>1 DEF Records, SerialInv, DeciderOK
    <3> QED BY <3>1, <3>2 DEF RollsBack, can_transition, ALLOWED_TRANSITIONS
  <2>5. \A q \in Reversals : db[q].state # "succeeded" /\ db'[q].state = "succeeded" => q = v
      BY <1>0, <2>2
  <2> HIDE DEF o, v
  <2>6. CASE p = v
    <3>1. ~\E r \in Reversals :
               /\ db'[r].reverses = p /\ db'[r].class # "active_response"
               /\ db[r].state # "succeeded" /\ db'[r].state = "succeeded"
      <4> SUFFICES ASSUME v \in Reversals, db'[v].reverses = v PROVE FALSE
          BY <2>5, <2>6
      <4>1. db[v].reverses = v /\ db[v].reverses = v[1] /\ v[1] \in Forwards
          BY <2>1 DEF IndInv, LedgerInv, RowInv, Reversals
      <4> QED BY <4>1, GatewayAssumption DEF Reversals, Actors
    <3> QED BY <2>1, <2>6, <3>1 DEF FinalRow
  <2>7. CASE p # v /\ p = o /\ RollsBack(a)
    <3>1. db'[v].reverses = p /\ db'[v].class # "active_response" /\ db[v].state # "succeeded" /\ db'[v].state = "succeeded"
        BY <2>1, <2>3, <2>7 DEF o
    <3> QED BY <2>3, <2>7, <3>1 DEF FinalRow
  <2>8. CASE p # v /\ ~(p = o /\ RollsBack(a))
    <3>1. db'[p].state = db[p].state
        BY <2>2, <2>8
    <3>2. ASSUME db[p].state # "rolled_back", NEW r \in Reversals, db'[r].reverses = p, db'[r].class # "active_response",
                 db[r].state # "succeeded", db'[r].state = "succeeded"
          PROVE FALSE
      <4>1. r = v /\ p = o
          BY <2>1, <2>5, <3>2 DEF o
      <4> QED BY <2>1, <2>4, <2>8, <3>2, <4>1
    <3> QED BY <3>1, <3>2 DEF FinalRow
  <2> QED BY <2>6, <2>7, <2>8
<1> QED BY <1>1, <1>2, <1>3, <1>4 DEF Kind, Quiet, Sends

\* With one decider at a time a committed terminal state is final, and an action
\* is rolled back in the step that records the success of its undo, and in no
\* other (ALLOWED_TRANSITIONS, models.py; complete_api_reversal, reversal.py).
THEOREM TerminalStaysFinal == ASSUME SerialDeciders PROVE Spec => TerminalIsFinal
<1>1. IndInv /\ SerialInv /\ [Next]_vars => \A p \in Proposals : FinalRow(p)
    BY StepSerial, KindFinal DEF SerialStep
<1>2. IndInv /\ SerialInv /\ [Next]_vars => [\A p \in Proposals : FinalRow(p)]_vars
    BY <1>1
<1>3. Spec => [][\A p \in Proposals : FinalRow(p)]_vars
    BY <1>2, SerialInvHolds, PTL DEF Spec
<1> QED BY <1>3 DEF TerminalIsFinal, FinalRow

-----------------------------------------------------------------------------
(* The gateway implements ActionContract when no transaction is lost.       *)

\* Nothing was sent for a row whose decider has not performed yet.
LEMMA NotSentYet ==
    ASSUME IndInv, SerialInv, SentOnce, NEW r \in Requests, req[r].pc \in {"decline", "fresh", "perform"}
    PROVE  ran[req[r].p] = <<>>
<1>1. req[r].p \in Proposals /\ db[req[r].p].state \in {"pending", "approved"}
    BY DEF IndInv, SessionInv, SessionOK, SerialInv, DeciderOK
<1>2. \A x \in Requests : req[x].p = req[r].p /\ req[x].pc = "commit" => x = r
    BY DEF SerialInv, AloneInv, DecidePC
<1> QED BY <1>1, <1>2 DEF SentOnce

\* Lengths of what was sent.
LEMMA SentLength ==
    ASSUME IndInv, NEW p \in Proposals
    PROVE  Len(ran[p]) \in Nat /\ (ran[p] = <<>> <=> Len(ran[p]) = 0)
<1>1. ran[p] \in Seq([by : Users, altered : BOOLEAN])
    BY DEF IndInv, TypeOK
<1> QED BY <1>1

\* A write is sent once when the handler that sent it gets to its commit.
LEMMA SentKept ==
    ASSUME IndInv, SerialInv, SentOnce, NEW a, SerialStep(a),
           a \in Requests /\ req[a].pc = "commit" => Records(a),
           a \in Requests /\ Sends(a) => req'[a].pc = "commit" /\ req'[a].p = req[a].p
    PROVE  SentOnce'
<1> DEFINE U == {"absent", "pending", "approved"}
<1> SUFFICES ASSUME NEW p \in Proposals
             PROVE (/\ Len(ran[p]) <= 1
                    /\ db[p].state \in U /\ ran[p] # <<>> =>
                          \E r \in Requests : req[r].p = p /\ req[r].pc = "commit")'
    BY DEF SentOnce
<1>1. /\ Len(ran[p]) <= 1
      /\ db[p].state \in U /\ ran[p] # <<>> =>
            \E r \in Requests : req[r].p = p /\ req[r].pc = "commit"
    BY DEF SentOnce
<1>2. CASE a \in Requests /\ Sends(a) /\ p = req[a].p
  <2>1. ran[p] = <<>>
      BY <1>2, NotSentYet DEF Sends
  <2>2. Len(ran'[p]) = 1
      BY <1>2, <2>1 DEF Sends
  <2> QED BY <1>2, <2>2
<1>3. CASE ~(a \in Requests /\ Sends(a) /\ p = req[a].p)
  <2>1. ran'[p] = ran[p]
      BY <1>3 DEF SerialStep, Kind, Quiet, Inserts, Sends, Closes, Records
  <2>2. ASSUME db'[p].state \in U, ran'[p] # <<>>
        PROVE \E r \in Requests : req'[r].p = p /\ req'[r].pc = "commit"
    <3>1. db[p].state \in U
      <4>1. CASE db'[p].state = db[p].state
          BY <2>2, <4>1
      <4>2. CASE db'[p].state # db[p].state
        <5>1. ~SameRow(p)
            BY <4>2 DEF SameRow
        <5>2. ASSUME NEW x, NEW st, Inserts(x, st) PROVE db[p].state \in U
            BY <5>1, <5>2 DEF Inserts, Exists
        <5>3. ASSUME a \in Requests, Closes(a) PROVE db[p].state \in U
            BY <5>1, <5>3 DEF Closes
        <5>4. ASSUME a \in Requests, Records(a) PROVE FALSE
          <6>1. req[a].st \in {"succeeded", "failed"}
              BY <5>4 DEF Records, SerialInv, DeciderOK
          <6> QED BY <2>2, <5>1, <5>4, <6>1 DEF Records
        <5> QED BY <5>1, <5>2, <5>3, <5>4 DEF SerialStep, Kind, Quiet, Sends
      <4> QED BY <4>1, <4>2
    <3>2. PICK x \in Requests : req[x].p = p /\ req[x].pc = "commit"
        BY <1>1, <2>1, <2>2, <3>1
    <3>3. x # a
      <4> SUFFICES ASSUME x = a PROVE FALSE
          OBVIOUS
      <4>1. Records(a) /\ req[a].st \in {"succeeded", "failed"}
          BY <3>2 DEF SerialInv, DeciderOK
      <4> QED BY <2>2, <3>2, <4>1 DEF Records
    <3>4. req'[x] = req[x]
        BY <3>3 DEF SerialStep
    <3> QED BY <3>2, <3>4
  <2> QED BY <1>1, <2>1, <2>2
<1> QED BY <1>2, <1>3

\* A handler that has performed commits, unless its transaction is lost.
LEMMA SentStep ==
    ASSUME IndInv, SerialInv, SentOnce, SerialDeciders, MaxAborts = 0, [Next]_vars
    PROVE  SentOnce'
<1>0. \A a : SerialStep(a) /\ a \notin Requests => SentOnce'
    BY SentKept
<1>1. ASSUME NEW r \in Requests, HandlerStep(r) PROVE SentOnce'
  <2>1. SerialStep(r)
      BY <1>1, HandlerSerial
  <2>2. req[r].pc = "commit" => Records(r)
    <3> SUFFICES ASSUME req[r].pc = "commit" PROVE FinalCommit(r)
        BY RecordSteps
    <3> QED BY <1>1 DEF HandlerStep, DeclineCommit, ApproveFlush, FreshnessRaises, FreshnessStale,
                        FreshnessOk, Perform, UndoStamp, UndoCommit
  <2>3. Sends(r) => req'[r].pc = "commit" /\ req'[r].p = req[r].p
    <3> SUFFICES ASSUME req[r].pc = "perform" PROVE req'[r].pc = "commit" /\ req'[r].p = req[r].p
        BY DEF Sends
    <3>1. PICK outcome : Perform(r, outcome)
        BY <1>1 DEF HandlerStep, DeclineCommit, ApproveFlush, FreshnessRaises, FreshnessStale,
                    FreshnessOk, FinalCommit, UndoStamp, UndoCommit
    <3>2. PICK o : req' = [req EXCEPT ![r].pc = "commit", ![r].st = outcome,
                                      ![r].at = clock, ![r].orig = o]
        BY <3>1 DEF Perform
    <3> QED BY <3>2 DEF IndInv, TypeOK, Session
  <2> QED BY <2>1, <2>2, <2>3, SentKept
<1>2. ASSUME NEW r \in Requests, NEW u \in Users, NEW p \in Proposals,
             ApproveLoad(r, u, p) \/ ExpireLoad(r, u, p) \/ RejectLoad(r, u, p)
      PROVE SentOnce'
  <2>1. req[r].pc = "idle"
      BY <1>2 DEF ApproveLoad, ExpireLoad, RejectLoad, load_proposal
  <2> QED BY <1>2, <2>1, LoadSerial, SentKept DEF Sends
<1>3. ASSUME NEW r \in Requests, NEW u \in Proposers, NEW b \in Forwards, UndoFind(r, u, b)
      PROVE SentOnce'
  <2>1. ran' = ran /\ db' = db /\ req[r].pc = "idle"
      BY <1>3 DEF UndoFind
  <2>2. \A x \in Requests \ {r} : req'[x] = req[x]
      BY <1>3 DEF UndoFind, Begin, IndInv, TypeOK
  <2> QED BY <2>1, <2>2 DEF SentOnce
<1>4. ASSUME NEW r \in Requests PROVE ~Abort(r)
    BY DEF Abort, IndInv, TypeOK
<1>5. ASSUME NEW s \in Sweepers, SweepStep(s) \/ AutoReverseFails(s) PROVE SentOnce'
    BY <1>0, <1>5, SweepSerial, GatewayAssumption
<1>6. ASSUME NEW u \in Proposers, NEW p \in Forwards, NEW class \in Classes, NEW timed \in BOOLEAN,
             ProposeForward(u, p, class, timed)
      PROVE SentOnce'
  <2>1. ran' = ran /\ req' = req /\ ~Exists(p) /\ p \in Proposals
      BY <1>6 DEF ProposeForward, Proposals
  <2>2. \A q \in Proposals \ {p} : db'[q] = db[q]
      BY <1>6 DEF ProposeForward, IndInv, TypeOK
  <2>3. ran[p] = <<>>
      BY <2>1 DEF IndInv, LedgerInv, RowInv
  <2> QED BY <2>1, <2>2, <2>3 DEF SentOnce
<1>7. ASSUME NEW p \in Proposals, EditRow(p) PROVE SentOnce'
  <2>1. ran' = ran /\ req' = req
      BY <1>7 DEF EditRow
  <2>2. \A q \in Proposals : db'[q].state = db[q].state
      BY <1>7, QuietSteps DEF Quiet, SameRow
  <2> QED BY <2>1, <2>2 DEF SentOnce
<1>8. CASE Tick \/ Waiting \/ UNCHANGED vars
  <2>1. ran' = ran /\ req' = req /\ db' = db
      BY <1>8 DEF Tick, Waiting, vars
  <2> QED BY <2>1 DEF SentOnce
<1> QED BY <1>1, <1>2, <1>3, <1>4, <1>5, <1>6, <1>7, <1>8 DEF Next

Life == [p \in Proposals |-> db[p].state]
Sent == [p \in Proposals |-> Len(ran[p])]

\* Each kind of step is a step of the contract, or changes nothing it speaks of.
LEMMA KindContract ==
    ASSUME IndInv, SerialInv, SentOnce, NEW a, Kind(a)
    PROVE  Contract!ContractNext \/ UNCHANGED <<Life, Sent>>
<1> USE DEF Life, Sent
<1>1. CASE Quiet
    BY <1>1 DEF Quiet, SameRow
<1>2. ASSUME NEW p, NEW st, Inserts(p, st) PROVE Contract!ContractNext
  <2>1. /\ p \in Proposals /\ Life[p] = "absent" /\ UNCHANGED Sent
        /\ Life' = [Life EXCEPT ![p] = st] /\ st \in {"pending", "succeeded"}
      BY <1>2 DEF Inserts, SameRow, Exists
  <2>2. CASE st = "pending"
    <3>1. Contract!Queue(p)
        BY <2>1, <2>2 DEF Contract!Queue
    <3> QED BY <2>1, <3>1 DEF Contract!ContractNext
  <2>3. CASE st = "succeeded"
    <3>1. Contract!RecordAuto(p)
        BY <2>1, <2>3 DEF Contract!RecordAuto
    <3> QED BY <2>1, <3>1 DEF Contract!ContractNext
  <2> QED BY <2>1, <2>2, <2>3
<1>3. ASSUME a \in Requests, Sends(a) PROVE Contract!ContractNext
  <2>0. PICK p : p = req[a].p
      OBVIOUS
  <2>1. p \in Proposals /\ db[p].state = "pending" /\ ran[p] = <<>> /\ Len(ran'[p]) = 1
    <3>1. ran[p] = <<>>
        BY <1>3, <2>0, NotSentYet DEF Sends
    <3> QED BY <1>3, <2>0, <3>1 DEF Sends, SerialInv, DeciderOK
  <2>2. Life[p] = "pending" /\ Sent[p] = 0 /\ UNCHANGED Life /\ Sent' = [Sent EXCEPT ![p] = 1]
      BY <1>3, <2>0, <2>1 DEF Sends, SameRow
  <2>3. Contract!Send(p)
      BY <2>2 DEF Contract!Send
  <2> QED BY <2>1, <2>3 DEF Contract!ContractNext
<1>4. ASSUME a \in Requests, Closes(a) PROVE Contract!ContractNext
  <2>0. PICK p, st : p = req[a].p /\ st = db'[p].state
      OBVIOUS
  <2>1. p \in Proposals /\ ran[p] = <<>> /\ st \in {"approved", "rejected", "expired"}
      BY <1>4, <2>0, NotSentYet DEF Closes
  <2>2. /\ Sent[p] = 0 /\ UNCHANGED Sent /\ Life' = [Life EXCEPT ![p] = st]
        /\ \/ Life[p] = "pending" /\ st \in {"approved", "rejected", "expired"}
           \/ Life[p] = "approved" /\ st = "expired"
      BY <1>4, <2>0, <2>1 DEF Closes, SameRow
  <2>3. Contract!Decline(p, st)
      BY <2>2 DEF Contract!Decline
  <2> QED BY <2>1, <2>3 DEF Contract!ContractNext
<1>5. ASSUME a \in Requests, Records(a) PROVE Contract!ContractNext
  <2>0. PICK p, o, st : p = req[a].p /\ o = db[p].reverses /\ st = req[a].st
      OBVIOUS
  <2>1. /\ p \in Proposals /\ Exists(p) /\ db[p].state = "pending" /\ ran' = ran
        /\ db'[p].state = st /\ st \in {"succeeded", "failed"}
      BY <1>5, <2>0 DEF Records, SerialInv, DeciderOK, Exists
  <2>2. CASE RollsBack(a) /\ db[o].state = "succeeded"
    <3>1. /\ o \in Proposals /\ o # p /\ db'[o].state = "rolled_back" /\ st = "succeeded"
          /\ \A q \in Proposals \ {p, o} : db'[q].state = db[q].state
        BY <1>5, <2>0, <2>2 DEF Records, RollsBack, SameRow
    <3>2. Len(ran[p]) = 1
      <4>1. ~RecordOnly(req[a].p) /\ req[a].pc = "commit"
          BY <1>5, <2>2 DEF Records, RollsBack, RecordOnly
      <4>2. ran[p] # <<>>
          BY <1>5, <2>0, <4>1 DEF SerialInv, DeciderOK
      <4>3. Len(ran[p]) \in Nat /\ Len(ran[p]) # 0 /\ Len(ran[p]) <= 1
          BY <2>1, <4>2, SentLength DEF SentOnce
      <4>4. \A n \in Nat : n # 0 /\ n <= 1 => n = 1
          OBVIOUS
      <4> QED BY <4>3, <4>4, Zenon
    <3>3. /\ Life[p] = "pending" /\ Sent[p] = 1 /\ Life[o] = "succeeded" /\ UNCHANGED Sent
          /\ Life' = [Life EXCEPT ![p] = "succeeded", ![o] = "rolled_back"]
        BY <2>1, <2>2, <3>1, <3>2
    <3>4. Contract!RecordUndo(p, o)
        BY <3>3 DEF Contract!RecordUndo
    <3> QED BY <2>1, <3>1, <3>4 DEF Contract!ContractNext
  <2>3. CASE ~(RollsBack(a) /\ db[o].state = "succeeded")
    <3>1. \A q \in Proposals \ {p} : db'[q].state = db[q].state
      <4>1. RollsBack(a) => db[o].state = "rolled_back" /\ db'[o].state = "rolled_back"
          BY <1>5, <2>0, <2>1, <2>3, OriginalRan DEF Records, RollsBack, Ran
      <4> QED BY <1>5, <2>0, <4>1 DEF Records, SameRow
    <3>2. Life[p] = "pending" /\ UNCHANGED Sent /\ Life' = [Life EXCEPT ![p] = st]
        BY <2>1, <3>1
    <3>3. Contract!Record(p, st)
        BY <2>1, <3>2 DEF Contract!Record
    <3> QED BY <2>1, <3>3 DEF Contract!ContractNext
  <2> QED BY <2>2, <2>3
<1> QED BY <1>1, <1>2, <1>3, <1>4, <1>5 DEF Kind

\* With one decider at a time and no transaction lost, the gateway implements
\* ActionContract: every proposal is queued once, sent at most once while it is
\* undecided, decided once, and rolled back only with its undo's success
\* (execute_proposal, execution.py; complete_api_reversal, reversal.py).
THEOREM GatewayKeepsContract ==
    ASSUME SerialDeciders, MaxAborts = 0 PROVE Spec => KeepsContract
<1>1. Init => SentOnce
    BY DEF Init, SentOnce
<1>2. IndInv /\ SerialInv /\ SentOnce /\ [Next]_vars => SentOnce'
    BY SentStep
<1>3. Spec => [](IndInv /\ SerialInv /\ SentOnce)
    BY <1>1, <1>2, SerialInvHolds, PTL DEF Spec
<1>4. Init => Contract!ContractInit
    BY DEF Init, AbsentRow, Contract!ContractInit
<1>5. IndInv /\ SerialInv /\ SentOnce /\ [Next]_vars =>
         [Contract!ContractNext]_(Contract!contractVars)
    BY StepSerial, KindContract DEF SerialStep, Contract!contractVars, Life, Sent
<1> QED BY <1>3, <1>4, <1>5, PTL DEF Spec, KeepsContract, Contract!ContractSpec
=============================================================================
