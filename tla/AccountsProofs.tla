--------------------------- MODULE AccountsProofs ---------------------------
(***************************************************************************)
(* Proofs about Membership, and about Accounts, which composes it with     *)
(* Sessions: whatever requests race, the Superuser is a member only under  *)
(* a request an Admin decided; and when requests about an organization do  *)
(* not overlap, its last Admin stays and the request rows tell exactly     *)
(* when the Superuser is a member.                                         *)
(***************************************************************************)
EXTENDS Accounts, SessionsProofs

-----------------------------------------------------------------------------
(* The inductive invariant.                                                *)

Ops == {"none", "create", "regenerate", "role", "remove", "approve", "reject", "cancel",
        "revoke", "expire", "request", "recover", "delete", "verify"}

Request == [op : Ops, u : Everyone, role : Roles \cup {"none"}, t : Tickets \cup {"none"},
            ended : Tickets \cup {"none"}, exp : {"never", "open"},
            fresh : BOOLEAN, prune : BOOLEAN, live : BOOLEAN]

MShapes ==
    /\ overlap \in BOOLEAN /\ active \in BOOLEAN
    /\ acct \in [Everyone -> Accounts]
    /\ bind \in [Everyone -> UserOrganization]
    /\ tick \in [Tickets -> SuperuserAccessRequest]
    /\ req \in [Handlers -> Request]

\* A request row that was decided says so for good.
DecidedOK ==
    \A t \in Tickets : tick[t].status \in {"approved", "rejected", "revoked", "expired"} => tick[t].decided

\* The part of ConsentedGrant that holds whatever requests race.
ConsentOK ==
    /\ \A u \in People : bind[u].role # "superuser"
    /\ bind[Superuser].role # "none" =>
          /\ bind[Superuser].role = "superuser"
          /\ \E t \in Tickets :
                /\ tick[t].decided
                /\ tick[t].granted = "never" <=> bind[Superuser].exp = "never"

\* What a request in flight holds: ordinary members are the only ones created,
\* moved and removed, and a request it ends was decided.
HoldsOK(r) ==
    /\ r.op \in {"create", "role", "recover"} => r.role \in Roles
    /\ r.op \in {"create", "role", "remove", "recover"} => r.u \in People
    /\ r.op \in {"approve", "revoke", "expire", "request"} => r.u = Superuser
    /\ r.op \in {"approve", "reject", "cancel", "request"} => r.t \in Tickets
    /\ r.ended # "none" => tick[r.ended].decided
    /\ r.live => bind[r.u].role # "none"

Approved == {t \in Tickets : tick[t].status = "approved"}

\* The request rows are the record of the grant.
LifecycleOK ==
    /\ (bind[Superuser].role = "superuser") <=> (Approved # {})
    /\ \A t, x \in Approved : t = x

NobodyElse == \A x, y \in Handlers : req[x].op # "none" /\ req[y].op # "none" => x = y

\* When no other request is in flight, what a request read is still so.
ReadOK(r) ==
    /\ r.op \in {"remove", "role", "revoke", "expire", "approve", "request"} =>
          (r.live <=> bind[r.u].role # "none")
    /\ r.op \in {"role", "remove"} /\ bind[r.u].role = "admin" => Admins \ {r.u} # {}
    /\ r.op = "recover" => r.role = "admin"
    /\ r.op \in {"reject", "cancel", "approve"} => tick[r.t].status = "pending"
    /\ r.op = "request" => tick[r.t].status = "none"
    /\ r.op \in {"expire", "revoke"} => bind[Superuser].role = "superuser" /\ ApprovedTicket(r.ended)
    /\ r.op = "expire" => r.prune
    /\ r.op \in {"approve", "request"} =>
          \/ bind[Superuser].role = "none" /\ ~r.prune
          \/ bind[Superuser].role = "superuser" /\ r.prune /\ ApprovedTicket(r.ended)

MembershipInv ==
    /\ MShapes /\ DecidedOK /\ ConsentOK
    /\ \A h \in Handlers : HoldsOK(req[h])
    /\ ~overlap => NobodyElse /\ LifecycleOK /\ \A h \in Handlers : ReadOK(req[h])

-----------------------------------------------------------------------------
(* Requests start and end.                                                 *)

\* An idle handler holds nothing.
LEMMA IdleShape == Idle \in Request /\ Idle.op = "none" /\ ~Idle.live /\ Idle.ended = "none"
BY DEF Idle, Request, Ops, Everyone

\* A request that ends clears its handler and drops the rows it deleted.
LEMMA EndsShape ==
    ASSUME MShapes, NEW h \in Handlers, NEW D, Ends(h, D)
    PROVE  /\ req' \in [Handlers -> Request] /\ req'[h] = Idle
           /\ \A x \in Handlers \ {h} :
                 /\ req'[x].op = req[x].op /\ req'[x].u = req[x].u /\ req'[x].role = req[x].role
                 /\ req'[x].t = req[x].t /\ req'[x].ended = req[x].ended
                 /\ req'[x].live <=> (req[x].live /\ req[x].u \notin D)
                 /\ req'[x].prune <=> req[x].prune
<1>1. req'[h] = Idle
    BY DEF Ends
<1>2. ASSUME NEW x \in Handlers \ {h}
      PROVE  /\ req'[x] \in Request
             /\ req'[x].op = req[x].op /\ req'[x].u = req[x].u /\ req'[x].role = req[x].role
             /\ req'[x].t = req[x].t /\ req'[x].ended = req[x].ended
             /\ req'[x].live <=> (req[x].live /\ req[x].u \notin D)
             /\ req'[x].prune <=> req[x].prune
  <2>1. req[x] \in Request
      BY <1>2 DEF MShapes
  <2>2. req'[x] = [req[x] EXCEPT !.live = @ /\ (req[x].u \notin D)]
      BY <1>2 DEF Ends
  <2>3. req'[x].live <=> (req[x].live /\ req[x].u \notin D)
      BY <2>1, <2>2 DEF Request
  <2>6. req'[x].prune <=> req[x].prune
      BY <2>1, <2>2 DEF Request
  <2>4. req'[x] \in Request
      BY <2>1, <2>2 DEF Request
  <2>5. /\ req'[x].op = req[x].op /\ req'[x].u = req[x].u /\ req'[x].role = req[x].role
        /\ req'[x].t = req[x].t /\ req'[x].ended = req[x].ended
      BY <2>1, <2>2 DEF Request
  <2> QED BY <2>3, <2>4, <2>5, <2>6
<1>3. req' \in [Handlers -> Request]
  <2>1. \A x \in Handlers : req'[x] \in Request
      BY <1>1, <1>2, IdleShape
  <2>2. req' = [x \in Handlers |-> req'[x]]
      BY DEF Ends
  <2> QED BY <2>1, <2>2
<1> QED BY <1>1, <1>2, <1>3

\* A request starts: it has read what the invariant says of it.
LEMMA StartStep ==
    ASSUME MembershipInv, NEW h \in Handlers, MayStart(h), NEW r \in Request,
           req' = [req EXCEPT ![h] = r], UNCHANGED <<overlap, active, acct, bind, tick>>,
           HoldsOK(r), ~overlap => ReadOK(r)
    PROVE  MembershipInv'
<1>1. MShapes' /\ DecidedOK' /\ ConsentOK' /\ (~overlap => LifecycleOK')
    BY DEF MembershipInv, MShapes, DecidedOK, ConsentOK, LifecycleOK, Approved
<1>2. ASSUME NEW x \in Handlers
      PROVE  /\ req'[x] = r \/ req'[x] = req[x]
             /\ x # h => req'[x] = req[x]
    BY <1>2 DEF MembershipInv, MShapes
<1>3. ASSUME NEW x \in Handlers PROVE HoldsOK(req[x])' /\ (~overlap => ReadOK(req[x])')
  <2>1. HoldsOK(req'[x]) /\ (~overlap => ReadOK(req'[x]))
      BY <1>2, <1>3 DEF MembershipInv
  <2> QED BY <2>1 DEF HoldsOK, ReadOK, Admins, ApprovedTicket
<1>4. ~overlap => NobodyElse'
    BY <1>2, IdleShape DEF MayStart, NobodyElse
<1> QED BY <1>1, <1>3, <1>4 DEF MembershipInv

\* A request commits: decisions stay, and the members it deletes are dropped
\* from the requests that hold them.
LEMMA CommitStep ==
    ASSUME MembershipInv, NEW h \in Handlers, req[h].op # "none", NEW D, Ends(h, D),
           overlap' = overlap, active' \in BOOLEAN, acct' \in [Everyone -> Accounts],
           bind' \in [Everyone -> UserOrganization], tick' \in [Tickets -> SuperuserAccessRequest],
           \A t \in Tickets : tick[t].decided => tick'[t].decided,
           \A u \in Everyone : bind[u].role # "none" /\ bind'[u].role = "none" => u \in D,
           DecidedOK', ConsentOK', ~overlap => LifecycleOK'
    PROVE  MembershipInv'
<1>1. MShapes'
    BY EndsShape DEF MembershipInv, MShapes
<1>2. ASSUME NEW x \in Handlers PROVE HoldsOK(req[x])'
  <2>1. CASE x = h
      BY <2>1, EndsShape, IdleShape DEF MembershipInv, HoldsOK
  <2>2. CASE x # h
    <3>1. /\ req[x] \in Request /\ HoldsOK(req[x])
          /\ req'[x].op = req[x].op /\ req'[x].u = req[x].u /\ req'[x].role = req[x].role
          /\ req'[x].t = req[x].t /\ req'[x].ended = req[x].ended
          /\ req'[x].live => req[x].live /\ req[x].u \notin D
        BY <1>2, <2>2, EndsShape DEF MembershipInv, MShapes
    <3>2. req[x].u \in Everyone /\ req[x].ended \in Tickets \cup {"none"}
        BY <3>1 DEF Request
    <3> QED BY <3>1, <3>2 DEF HoldsOK
  <2> QED BY <2>1, <2>2
<1>3. ASSUME ~overlap, NEW x \in Handlers PROVE req'[x].op = "none"
    BY <1>3, EndsShape, IdleShape DEF MembershipInv, NobodyElse
<1>4. ~overlap => NobodyElse' /\ \A x \in Handlers : ReadOK(req[x])'
    BY <1>3 DEF NobodyElse, ReadOK
<1> QED BY <1>1, <1>2, <1>4 DEF MembershipInv

\* What Starts leaves with the handler.
LEMMA StartsStep ==
    ASSUME MembershipInv, NEW h \in Handlers, MayStart(h), NEW op \in Ops, NEW read \in Request,
           Starts(h, op, read),
           \A r \in Request :
              /\ r.op = op /\ r.u = read.u /\ r.role = read.role /\ r.t = read.t
              /\ r.ended = read.ended /\ (r.prune <=> read.prune)
              /\ (r.live <=> bind[r.u].role # "none")
              => HoldsOK(r) /\ (~overlap => ReadOK(r))
    PROVE  MembershipInv'
<1> DEFINE r == [read EXCEPT !.op = op, !.live = bind[read.u].role # "none"]
<1>1. r \in Request
    BY DEF Request
<1>2. r.op = op /\ r.u = read.u /\ r.role = read.role /\ r.t = read.t /\ r.ended = read.ended
    BY DEF Request
<1>3. r.prune <=> read.prune
    BY DEF Request
<1>4. r.live <=> bind[read.u].role # "none"
    BY DEF Request
<1>5. req' = [req EXCEPT ![h] = r] /\ UNCHANGED <<overlap, active, acct, bind, tick>>
    BY DEF Starts
<1> HIDE DEF r
<1>6. HoldsOK(r) /\ (~overlap => ReadOK(r))
    BY <1>1, <1>2, <1>3, <1>4
<1> QED BY <1>1, <1>5, <1>6, StartStep

\* Who is there: what ConsentOK says of the members of a request.
LEMMA MemberShape ==
    ASSUME MembershipInv
    PROVE  /\ bind[Superuser].role \in {"none", "superuser"}
           /\ \A u \in Everyone : u # Superuser => u \in People
           /\ \A u \in Everyone : bind[u].role \notin {"none", "superuser"} => u \in People
           /\ Superuser \in Everyone /\ \A u \in People : u \in Everyone /\ u # Superuser
BY MembershipAssumption DEF MembershipInv, ConsentOK, Everyone

\* A request about a member starts with what it read.
LEMMA MemberStarts ==
    ASSUME MembershipInv, NEW h \in Handlers, MayStart(h), NEW by \in People,
           NEW u \in Everyone, NEW role \in Roles,
           \/ create_member(h, by, u, role) \/ change_member_role(h, by, u, role)
           \/ regenerate_invite_link(h, by, u) \/ remove_member(h, by, u)
    PROVE  MembershipInv'
<1>1. CASE create_member(h, by, u, role)
  <2> DEFINE read == [Idle EXCEPT !.u = u, !.role = role, !.fresh = acct[u] = "none"]
  <2>1. read \in Request /\ read.u = u /\ read.role = role /\ read.ended = "none"
      BY IdleShape DEF Request, Idle
  <2>2. u \in People
      BY <1>1, MemberShape DEF create_member, MayAdd
  <2>3. Starts(h, "create", read)
      BY <1>1 DEF create_member
  <2> HIDE DEF read
  <2> QED BY <2>1, <2>2, <2>3, StartsStep DEF HoldsOK, ReadOK, Ops
<1>2. CASE change_member_role(h, by, u, role)
  <2> DEFINE read == [Idle EXCEPT !.u = u, !.role = role]
  <2>1. read \in Request /\ read.u = u /\ read.role = role /\ read.ended = "none"
      BY IdleShape DEF Request, Idle
  <2>2. u \in People /\ (bind[u].role = "admin" => Admins \ {u} # {})
      BY <1>2, MemberShape DEF change_member_role, ensure_not_last_admin
  <2>3. Starts(h, "role", read)
      BY <1>2 DEF change_member_role
  <2> HIDE DEF read
  <2> QED BY <2>1, <2>2, <2>3, StartsStep DEF HoldsOK, ReadOK, Ops
<1>3. CASE regenerate_invite_link(h, by, u)
  <2> DEFINE read == [Idle EXCEPT !.u = u]
  <2>1. read \in Request /\ read.u = u /\ read.ended = "none"
      BY IdleShape DEF Request, Idle
  <2>2. Starts(h, "regenerate", read)
      BY <1>3 DEF regenerate_invite_link
  <2> HIDE DEF read
  <2> QED BY <2>1, <2>2, StartsStep DEF HoldsOK, ReadOK, Ops
<1>4. CASE remove_member(h, by, u)
  <2> DEFINE read == [Idle EXCEPT !.u = u]
  <2>1. read \in Request /\ read.u = u /\ read.ended = "none"
      BY IdleShape DEF Request, Idle
  <2>2. u \in People /\ (bind[u].role = "admin" => Admins \ {u} # {})
      BY <1>4, MemberShape DEF remove_member, ensure_not_last_admin
  <2>3. Starts(h, "remove", read)
      BY <1>4 DEF remove_member
  <2> HIDE DEF read
  <2> QED BY <2>1, <2>2, <2>3, StartsStep DEF HoldsOK, ReadOK, Ops
<1> QED BY <1>1, <1>2, <1>3, <1>4

\* The approved request behind a grant was decided.
LEMMA EndedDecided ==
    ASSUME MembershipInv, NEW ended \in Tickets \cup {"none"}, ApprovedTicket(ended)
    PROVE  ended # "none" => tick[ended].decided
BY DEF MembershipInv, DecidedOK, ApprovedTicket

\* A request about the Superuser's grant starts with what it read.
LEMMA GrantStarts ==
    ASSUME MembershipInv, NEW h \in Handlers, MayStart(h), NEW ended \in Tickets \cup {"none"},
           NEW by, NEW t, NEW prune, NEW exp0,
           \/ expire_if_past(h, by, ended) \/ revoke_superuser_membership(h, by, ended)
           \/ /\ t \in Tickets /\ prune \in BOOLEAN
              /\ \/ request_org_access(h, t, prune, ended)
                 \/ exp0 \in {"never", "open"} /\ approve_access_request(h, by, t, exp0, prune, ended)
    PROVE  MembershipInv'
<1>1. CASE expire_if_past(h, by, ended)
  <2> DEFINE read == [Idle EXCEPT !.prune = TRUE, !.ended = ended]
  <2>1. read \in Request /\ read.u = Superuser /\ read.ended = ended /\ read.prune
      BY IdleShape DEF Request, Idle
  <2>2. bind[Superuser].role = "superuser" /\ ApprovedTicket(ended)
      BY <1>1 DEF expire_if_past, Lapsed
  <2>3. Starts(h, "expire", read)
      BY <1>1 DEF expire_if_past
  <2> HIDE DEF read
  <2> QED BY <2>1, <2>2, <2>3, EndedDecided, StartsStep DEF HoldsOK, ReadOK, Ops
<1>2. CASE revoke_superuser_membership(h, by, ended)
  <2> DEFINE read == [Idle EXCEPT !.ended = ended]
  <2>1. read \in Request /\ read.u = Superuser /\ read.ended = ended
      BY IdleShape DEF Request, Idle
  <2>2. bind[Superuser].role = "superuser" /\ ApprovedTicket(ended)
      BY <1>2, MemberShape DEF revoke_superuser_membership
  <2>3. Starts(h, "revoke", read)
      BY <1>2 DEF revoke_superuser_membership
  <2> HIDE DEF read
  <2> QED BY <2>1, <2>2, <2>3, EndedDecided, StartsStep DEF HoldsOK, ReadOK, Ops
<1>3. CASE t \in Tickets /\ prune \in BOOLEAN /\ request_org_access(h, t, prune, ended)
  <2> DEFINE read == [Idle EXCEPT !.t = t, !.prune = prune, !.ended = ended]
  <2>1. read \in Request /\ read.u = Superuser /\ read.ended = ended /\ read.t = t
      BY <1>3, IdleShape DEF Request, Idle
  <2>2. read.prune <=> prune
      BY <1>3 DEF Idle
  <2>3. /\ tick[t].status = "none"
        /\ ended # "none" => tick[ended].decided
        /\ \/ bind[Superuser].role = "none" /\ ~prune
           \/ bind[Superuser].role = "superuser" /\ prune /\ ApprovedTicket(ended)
      BY <1>3, EndedDecided DEF request_org_access, NoActiveGrant, Lapsed
  <2>4. Starts(h, "request", read)
      BY <1>3 DEF request_org_access
  <2> HIDE DEF read
  <2> QED BY <2>1, <2>2, <2>3, <2>4, <1>3, StartsStep DEF HoldsOK, ReadOK, Ops
<1>4. CASE /\ t \in Tickets /\ prune \in BOOLEAN /\ exp0 \in {"never", "open"}
           /\ approve_access_request(h, by, t, exp0, prune, ended)
  <2> DEFINE read == [Idle EXCEPT !.t = t, !.exp = exp0, !.prune = prune, !.ended = ended]
  <2>1. read \in Request /\ read.u = Superuser /\ read.ended = ended /\ read.t = t
      BY <1>4, IdleShape DEF Request, Idle
  <2>2. read.prune <=> prune
      BY <1>4 DEF Idle
  <2>3. /\ tick[t].status = "pending"
        /\ ended # "none" => tick[ended].decided
        /\ \/ bind[Superuser].role = "none" /\ ~prune
           \/ bind[Superuser].role = "superuser" /\ prune /\ ApprovedTicket(ended)
      BY <1>4, EndedDecided DEF approve_access_request, NoActiveGrant, Lapsed, IsPending
  <2>4. Starts(h, "approve", read)
      BY <1>4 DEF approve_access_request
  <2> HIDE DEF read
  <2> QED BY <2>1, <2>2, <2>3, <2>4, <1>4, StartsStep DEF HoldsOK, ReadOK, Ops
<1> QED BY <1>1, <1>2, <1>3, <1>4

\* The other requests start with what they read.
LEMMA OtherStarts ==
    ASSUME MembershipInv, NEW h \in Handlers, MayStart(h), NEW by, NEW u, NEW t,
           \/ t \in Tickets /\ (reject_access_request(h, by, t) \/ cancel_my_access_request(h, t))
           \/ u \in Everyone /\ (recover_organization_admin(h, u) \/ verify_invite(h, u))
           \/ delete_organization(h)
    PROVE  MembershipInv'
<1>1. CASE t \in Tickets /\ (reject_access_request(h, by, t) \/ cancel_my_access_request(h, t))
  <2> DEFINE read == [Idle EXCEPT !.t = t]
  <2>1. read \in Request /\ read.t = t /\ read.ended = "none"
      BY <1>1, IdleShape DEF Request, Idle
  <2>2. tick[t].status = "pending" /\ (Starts(h, "reject", read) \/ Starts(h, "cancel", read))
      BY <1>1 DEF reject_access_request, cancel_my_access_request, IsPending
  <2> HIDE DEF read
  <2> QED BY <1>1, <2>1, <2>2, StartsStep DEF HoldsOK, ReadOK, Ops
<1>2. CASE u \in Everyone /\ recover_organization_admin(h, u)
  <2> DEFINE read == [Idle EXCEPT !.u = u, !.role = "admin", !.fresh = acct[u] = "none"]
  <2>1. read \in Request /\ read.u = u /\ read.role = "admin" /\ read.ended = "none"
      BY <1>2, IdleShape, MembershipAssumption DEF Request, Idle
  <2>2. u \in People /\ "admin" \in Roles
      BY <1>2, MemberShape, MembershipAssumption DEF recover_organization_admin, MayAdd
  <2>3. Starts(h, "recover", read)
      BY <1>2 DEF recover_organization_admin
  <2> HIDE DEF read
  <2> QED BY <2>1, <2>2, <2>3, StartsStep DEF HoldsOK, ReadOK, Ops
<1>3. CASE u \in Everyone /\ verify_invite(h, u)
  <2> DEFINE read == [Idle EXCEPT !.u = u]
  <2>1. read \in Request /\ read.u = u /\ read.ended = "none"
      BY <1>3, IdleShape DEF Request, Idle
  <2>2. Starts(h, "verify", read)
      BY <1>3 DEF verify_invite
  <2> HIDE DEF read
  <2> QED BY <2>1, <2>2, StartsStep DEF HoldsOK, ReadOK, Ops
<1>4. CASE delete_organization(h)
  <2>1. Starts(h, "delete", Idle)
      BY <1>4 DEF delete_organization
  <2> QED BY <2>1, IdleShape, StartsStep DEF HoldsOK, ReadOK, Ops
<1> QED BY <1>1, <1>2, <1>3, <1>4

-----------------------------------------------------------------------------
(* Commits about ordinary members.                                         *)

\* What the invariant says of one handler's request.
LEMMA RequestShape ==
    ASSUME MembershipInv, NEW h \in Handlers
    PROVE  req[h] \in Request /\ HoldsOK(req[h]) /\ (~overlap => ReadOK(req[h]))
BY DEF MembershipInv, MShapes

\* A commit that moves one ordinary member leaves the grant and its record alone.
LEMMA MemberCommit ==
    ASSUME MembershipInv, NEW h \in Handlers, req[h].op # "none", NEW D, Ends(h, D),
           UNCHANGED <<overlap, active, tick>>, acct' \in [Everyone -> Accounts],
           NEW u \in People, NEW b \in UserOrganization, b.role # "superuser",
           b.role = "none" => u \in D,
           bind' = [bind EXCEPT ![u] = b]
    PROVE  MembershipInv'
<1>1. /\ bind \in [Everyone -> UserOrganization] /\ tick \in [Tickets -> SuperuserAccessRequest]
      /\ active \in BOOLEAN /\ u \in Everyone /\ u # Superuser /\ Superuser \in Everyone
    BY MemberShape DEF MembershipInv, MShapes
<1>2. bind' \in [Everyone -> UserOrganization] /\ bind'[Superuser] = bind[Superuser]
    BY <1>1
<1>3. \A v \in Everyone : bind'[v] = IF v = u THEN b ELSE bind[v]
    BY <1>1
<1>4. DecidedOK' /\ (~overlap => LifecycleOK')
    BY <1>2 DEF MembershipInv, DecidedOK, LifecycleOK, Approved
<1>5. ConsentOK'
    BY <1>2, <1>3, MemberShape DEF MembershipInv, ConsentOK
<1>6. \A v \in Everyone : bind[v].role # "none" /\ bind'[v].role = "none" => v \in D
    BY <1>3
<1> QED BY <1>1, <1>2, <1>4, <1>5, <1>6, CommitStep

\* The commit of a request about a member keeps the invariant.
LEMMA MemberCommits ==
    ASSUME MembershipInv, NEW h \in Handlers,
           CommitCreate(h) \/ CommitRecover(h) \/ CommitRole(h) \/ CommitRemove(h)
    PROVE  MembershipInv'
<1> DEFINE u == req[h].u
           b == [bind[u] EXCEPT !.role = req[h].role]
<1>1. /\ req[h].op \in {"create", "recover", "role", "remove"} /\ u \in People /\ u \in Everyone
      /\ bind[u] \in UserOrganization /\ acct \in [Everyone -> Accounts]
      /\ bind \in [Everyone -> UserOrganization]
    BY RequestShape, MemberShape
       DEF CommitCreate, CommitRecover, CommitRole, CommitRemove, HoldsOK, MembershipInv, MShapes
<1>2. req[h].op # "remove" => b \in UserOrganization /\ b.role \notin {"superuser", "none"}
    BY <1>1, RequestShape, MembershipAssumption DEF HoldsOK, UserOrganization
<1>3. CASE CommitCreate(h) \/ CommitRecover(h) \/ CommitRole(h)
  <2>1. req[h].op \notin {"none", "remove"}
      BY <1>3 DEF CommitCreate, CommitRecover, CommitRole
  <2>2. bind' = [bind EXCEPT ![u] = b] /\ Ends(h, {}) /\ UNCHANGED <<overlap, active, tick>>
      BY <1>3 DEF CommitCreate, CommitRecover, CommitRole
  <2>3. acct' = acct \/ acct' = [acct EXCEPT ![u] = "invited"] \/ acct' = [acct EXCEPT ![u] = "verified"]
      BY <1>3 DEF CommitCreate, CommitRecover, CommitRole
  <2>4. acct' \in [Everyone -> Accounts]
      BY <1>1, <2>3 DEF Accounts
  <2> HIDE DEF b
  <2> QED BY <1>1, <1>2, <2>1, <2>2, <2>4, MemberCommit
<1>4. CASE CommitRemove(h)
  <2> DEFINE c == IF req[h].live THEN NoBinding ELSE bind[u]
  <2>1. NoBinding \in UserOrganization /\ NoBinding.role = "none"
      BY DEF NoBinding, UserOrganization
  <2>2. c \in UserOrganization /\ c.role # "superuser"
      BY <1>1, <2>1 DEF MembershipInv, ConsentOK
  <2>3. bind' = [bind EXCEPT ![u] = c]
      BY <1>1, <1>4 DEF CommitRemove
  <2>4. Ends(h, {u}) /\ UNCHANGED <<overlap, active, tick, acct>> /\ req[h].op # "none"
      BY <1>4 DEF CommitRemove
  <2> HIDE DEF c
  <2> QED BY <1>1, <2>2, <2>3, <2>4, MemberCommit
<1> QED BY <1>3, <1>4

\* Commits that leave the members and the request rows alone.
LEMMA AccountCommits ==
    ASSUME MembershipInv, NEW h \in Handlers,
           CommitInvite(h) \/ CommitVerify(h) \/ CommitDelete(h)
    PROVE  MembershipInv'
<1>1. /\ req[h].op # "none" /\ Ends(h, {}) /\ UNCHANGED <<overlap, bind, tick>>
      /\ active' = active \/ active' = FALSE
    BY DEF CommitInvite, CommitVerify, CommitDelete
<1>2. \/ acct' = acct \/ acct' = [acct EXCEPT ![req[h].u] = "invited"]
      \/ acct' = [acct EXCEPT ![req[h].u] = "verified"]
    BY DEF CommitInvite, CommitVerify, CommitDelete
<1>3. acct' \in [Everyone -> Accounts] /\ active' \in BOOLEAN
    BY <1>1, <1>2 DEF MembershipInv, MShapes, Accounts
<1>4. DecidedOK' /\ ConsentOK' /\ (~overlap => LifecycleOK')
    BY <1>1 DEF MembershipInv, DecidedOK, ConsentOK, LifecycleOK, Approved
<1> QED BY <1>1, <1>3, <1>4, CommitStep DEF MembershipInv, MShapes

-----------------------------------------------------------------------------
(* Commits about the Superuser's grant.                                    *)

\* Ending a request changes the status of that request only.
LEMMA MarkEnded ==
    ASSUME MembershipInv, NEW h \in Handlers, NEW status \in {"expired", "revoked"}
    PROVE  /\ mark_request_ended(h, status) \in [Tickets -> SuperuserAccessRequest]
           /\ \A t \in Tickets :
                 /\ mark_request_ended(h, status)[t].decided <=> tick[t].decided
                 /\ mark_request_ended(h, status)[t].granted = tick[t].granted
                 /\ mark_request_ended(h, status)[t].status =
                       IF t = req[h].ended THEN status ELSE tick[t].status
           /\ req[h].ended \in Tickets => tick[req[h].ended].decided
<1>1. tick \in [Tickets -> SuperuserAccessRequest] /\ req[h].ended \in Tickets \cup {"none"}
    BY RequestShape DEF MembershipInv, MShapes, Request
<1>2. req[h].ended \in Tickets => tick[req[h].ended].decided
    BY RequestShape, MembershipAssumption DEF HoldsOK
<1>3. CASE req[h].ended = "none"
    BY <1>1, <1>3, MembershipAssumption DEF mark_request_ended
<1>4. CASE req[h].ended # "none"
  <2>1. req[h].ended \in Tickets
      BY <1>1, <1>4
  <2>2. mark_request_ended(h, status) = [tick EXCEPT ![req[h].ended].status = status]
      BY <1>4 DEF mark_request_ended
  <2>3. ASSUME NEW t \in Tickets
        PROVE  /\ mark_request_ended(h, status)[t] \in SuperuserAccessRequest
               /\ mark_request_ended(h, status)[t].decided <=> tick[t].decided
               /\ mark_request_ended(h, status)[t].granted = tick[t].granted
               /\ mark_request_ended(h, status)[t].status =
                     IF t = req[h].ended THEN status ELSE tick[t].status
    <3>1. tick[t] \in SuperuserAccessRequest
        BY <1>1, <2>3
    <3>2. CASE t = req[h].ended
        BY <1>1, <2>2, <2>3, <3>1, <3>2 DEF SuperuserAccessRequest
    <3>3. CASE t # req[h].ended
        BY <1>1, <2>2, <2>3, <3>1, <3>3
    <3> QED BY <3>2, <3>3
  <2>4. mark_request_ended(h, status) \in [Tickets -> SuperuserAccessRequest]
    <3>1. mark_request_ended(h, status) = [t \in Tickets |-> mark_request_ended(h, status)[t]]
        BY <1>1, <2>1, <2>2
    <3> QED BY <2>3, <3>1
  <2> QED BY <1>2, <2>3, <2>4
<1> QED BY <1>2, <1>3, <1>4

\* The request rows after a handler has pruned a lapsed grant, or not.
LEMMA ExpiredShape ==
    ASSUME MembershipInv, NEW h \in Handlers
    PROVE  /\ Expired(h) \in [Tickets -> SuperuserAccessRequest]
           /\ \A t \in Tickets :
                 /\ Expired(h)[t].decided <=> tick[t].decided
                 /\ Expired(h)[t].granted = tick[t].granted
                 /\ Expired(h)[t].status =
                       IF req[h].prune /\ t = req[h].ended THEN "expired" ELSE tick[t].status
           /\ req[h].ended \in Tickets => tick[req[h].ended].decided
<1>1. CASE req[h].prune
    BY <1>1, MarkEnded DEF Expired
<1>2. CASE ~req[h].prune
    BY <1>2, MarkEnded DEF Expired, MembershipInv, MShapes
<1> QED BY <1>1, <1>2

\* When requests do not overlap, the grant that ends is the one on record.
LEMMA OnRecord ==
    ASSUME MembershipInv, ~overlap
    PROVE  /\ bind[Superuser].role = "none" => Approved = {}
           /\ \A x \in Tickets \cup {"none"} :
                 bind[Superuser].role = "superuser" /\ ApprovedTicket(x) =>
                    x \in Tickets /\ Approved = {x}
<1>1. LifecycleOK
    BY DEF MembershipInv
<1>2. ASSUME NEW x \in Tickets \cup {"none"}, bind[Superuser].role = "superuser", ApprovedTicket(x)
      PROVE  x \in Tickets /\ Approved = {x}
  <2>1. Approved # {}
      BY <1>1, <1>2 DEF LifecycleOK
  <2>2. x \in Tickets /\ tick[x].status = "approved"
      BY <1>2, <2>1, MembershipAssumption DEF ApprovedTicket, Approved
  <2> QED BY <1>1, <2>2 DEF LifecycleOK, Approved
<1> QED BY <1>1, <1>2 DEF LifecycleOK

\* A commit that moves the Superuser's membership.
LEMMA GrantCommit ==
    ASSUME MembershipInv, NEW h \in Handlers, req[h].op # "none", NEW D, Ends(h, D),
           UNCHANGED <<overlap, active, acct>>,
           NEW b \in UserOrganization, b.role \in {"none", "superuser"},
           bind' = [bind EXCEPT ![Superuser] = b],
           b.role = "none" /\ bind[Superuser].role # "none" => Superuser \in D,
           tick' \in [Tickets -> SuperuserAccessRequest],
           \A t \in Tickets : tick[t].decided => tick'[t].decided,
           DecidedOK',
           b.role # "none" =>
              \E t \in Tickets : tick'[t].decided /\ (tick'[t].granted = "never" <=> b.exp = "never"),
           ~overlap => ((b.role = "superuser") <=> (Approved' # {})) /\ \A t, x \in Approved' : t = x
    PROVE  MembershipInv'
<1>1. /\ bind \in [Everyone -> UserOrganization] /\ acct \in [Everyone -> Accounts]
      /\ active \in BOOLEAN /\ Superuser \in Everyone
    BY MemberShape DEF MembershipInv, MShapes
<1>2. bind' \in [Everyone -> UserOrganization] /\ bind'[Superuser] = b
    BY <1>1
<1>3. \A v \in Everyone : bind'[v] = IF v = Superuser THEN b ELSE bind[v]
    BY <1>1
<1>4. ConsentOK'
    BY <1>2, <1>3, MemberShape DEF MembershipInv, ConsentOK
<1>5. ~overlap => LifecycleOK'
    BY <1>2 DEF LifecycleOK
<1>6. \A v \in Everyone : bind[v].role # "none" /\ bind'[v].role = "none" => v \in D
    BY <1>3
<1> QED BY <1>1, <1>2, <1>4, <1>5, <1>6, CommitStep

\* The grant that is there keeps its witness while decisions and durations stay.
LEMMA GrantStays ==
    ASSUME MembershipInv, bind[Superuser].role # "none",
           \A t \in Tickets : (tick[t].decided => tick'[t].decided) /\ tick'[t].granted = tick[t].granted
    PROVE  \E t \in Tickets :
              tick'[t].decided /\ (tick'[t].granted = "never" <=> bind[Superuser].exp = "never")
BY DEF MembershipInv, ConsentOK

\* An approval adds the Superuser under the request it decides.
LEMMA ApproveCommit ==
    ASSUME MembershipInv, NEW h \in Handlers, CommitApprove(h) PROVE MembershipInv'
<1> DEFINE r == req[h]
           b == [role |-> "superuser", exp |-> r.exp]
           row == [status |-> "approved", decided |-> TRUE, granted |-> r.exp]
<1>1. /\ r \in Request /\ r.op = "approve" /\ r.t \in Tickets /\ r.exp \in {"never", "open"}
      /\ r.ended \in Tickets \cup {"none"} /\ r.u = Superuser
      /\ ~overlap => ReadOK(r)
    BY RequestShape DEF CommitApprove, HoldsOK, Request
<1>2. b \in UserOrganization /\ b.role = "superuser" /\ b.exp = r.exp /\ row \in SuperuserAccessRequest
    BY <1>1 DEF UserOrganization, SuperuserAccessRequest
<1>3. /\ Ends(h, PrunedUsers(h)) /\ UNCHANGED <<overlap, active, acct>>
      /\ bind' = [bind EXCEPT ![Superuser] = b] /\ tick' = [Expired(h) EXCEPT ![r.t] = row]
    BY DEF CommitApprove
<1>4. \A t \in Tickets : tick'[t] = IF t = r.t THEN row ELSE Expired(h)[t]
    BY <1>1, <1>3, ExpiredShape
<1>5. tick' \in [Tickets -> SuperuserAccessRequest]
    BY <1>2, <1>3, ExpiredShape
<1>6. \A t \in Tickets : tick[t].decided => tick'[t].decided
    BY <1>4, ExpiredShape
<1>7. DecidedOK'
    BY <1>4, <1>6, ExpiredShape DEF MembershipInv, DecidedOK
<1>8. tick'[r.t].decided /\ (tick'[r.t].granted = "never" <=> b.exp = "never")
    BY <1>1, <1>4
<1>9. ASSUME ~overlap PROVE Approved' = {r.t}
  <2>1. r.t \in Approved'
      BY <1>1, <1>4 DEF Approved
  <2>2. ASSUME NEW t \in Tickets, t # r.t PROVE tick'[t].status # "approved"
    <3>1. tick'[t].status = IF r.prune /\ t = r.ended THEN "expired" ELSE tick[t].status
        BY <1>4, <2>2, ExpiredShape
    <3>2. CASE bind[Superuser].role = "none"
        BY <1>9, <2>2, <3>1, <3>2, OnRecord DEF Approved
    <3>3. CASE bind[Superuser].role # "none"
      <4>1. r.prune /\ Approved = {r.ended}
          BY <1>1, <1>9, <3>3, OnRecord, MemberShape DEF ReadOK
      <4> QED BY <2>2, <3>1, <4>1 DEF Approved
    <3> QED BY <3>2, <3>3
  <2> QED BY <2>1, <2>2 DEF Approved
<1> HIDE DEF r, b, row
<1>10. req[h].op # "none"
    BY <1>1 DEF r
<1> QED BY <1>1, <1>2, <1>3, <1>5, <1>6, <1>7, <1>8, <1>9, <1>10, GrantCommit

\* The lapsed grant is gone, with its request, or was gone before.
LEMMA PrunedShape ==
    ASSUME MembershipInv, NEW h \in Handlers
    PROVE  /\ Pruned(h) \in UserOrganization /\ Pruned(h).role \in {"none", "superuser"}
           /\ Pruned(h).role = "none" /\ bind[Superuser].role # "none" => Superuser \in PrunedUsers(h)
           /\ Pruned(h).role # "none" => Pruned(h) = bind[Superuser]
           /\ req[h].prune /\ req[h].live => Pruned(h).role = "none"
<1>1. NoBinding \in UserOrganization /\ NoBinding.role = "none"
    BY DEF NoBinding, UserOrganization
<1>2. bind[Superuser] \in UserOrganization
    BY MemberShape DEF MembershipInv, MShapes
<1> QED BY <1>1, <1>2, MemberShape DEF Pruned, PrunedUsers

\* A new request and a lazy expiry take an ended grant away.
LEMMA PruneCommits ==
    ASSUME MembershipInv, NEW h \in Handlers, CommitRequest(h) \/ CommitExpiry(h)
    PROVE  MembershipInv'
<1> DEFINE r == req[h]
<1>1. /\ r \in Request /\ r.op \in {"request", "expire"} /\ r.ended \in Tickets \cup {"none"}
      /\ r.u = Superuser /\ (~overlap => ReadOK(r)) /\ (r.op = "request" => r.t \in Tickets)
    BY RequestShape DEF CommitRequest, CommitExpiry, HoldsOK, Request
<1>2. /\ Ends(h, PrunedUsers(h)) /\ UNCHANGED <<overlap, active, acct>>
      /\ bind' = [bind EXCEPT ![Superuser] = Pruned(h)]
    BY DEF CommitRequest, CommitExpiry
<1>3. /\ tick' \in [Tickets -> SuperuserAccessRequest]
      /\ \A t \in Tickets :
            /\ tick'[t].decided <=> tick[t].decided
            /\ tick'[t].granted = tick[t].granted
            /\ \/ tick'[t].status = Expired(h)[t].status
               \/ tick'[t].status = "pending"
  <2>1. CASE CommitExpiry(h)
      BY <2>1, ExpiredShape DEF CommitExpiry
  <2>2. CASE CommitRequest(h)
    <3>1. tick' = [Expired(h) EXCEPT ![r.t].status = "pending"] /\ r.t \in Tickets
        BY <1>1, <2>2 DEF CommitRequest
    <3>2. ASSUME NEW t \in Tickets
          PROVE  /\ tick'[t] \in SuperuserAccessRequest
                 /\ tick'[t].decided <=> Expired(h)[t].decided
                 /\ tick'[t].granted = Expired(h)[t].granted
                 /\ \/ tick'[t].status = Expired(h)[t].status
                    \/ tick'[t].status = "pending"
      <4>1. Expired(h)[t] \in SuperuserAccessRequest
          BY <3>2, ExpiredShape
      <4>2. CASE t = r.t
          BY <3>1, <3>2, <4>1, <4>2, ExpiredShape DEF SuperuserAccessRequest
      <4>3. CASE t # r.t
          BY <3>1, <3>2, <4>1, <4>3, ExpiredShape
      <4> QED BY <4>2, <4>3
    <3>3. tick' = [t \in Tickets |-> tick'[t]]
        BY <3>1, ExpiredShape
    <3>4. tick' \in [Tickets -> SuperuserAccessRequest]
        BY <3>2, <3>3
    <3> QED BY <3>2, <3>4, ExpiredShape
  <2> QED BY <2>1, <2>2
<1>4. DecidedOK'
    BY <1>3, ExpiredShape DEF MembershipInv, DecidedOK
<1>5. ASSUME ~overlap PROVE Approved' = {} /\ Pruned(h).role = "none"
  <2>1. CASE bind[Superuser].role = "none"
    <3>1. Approved = {}
        BY <1>5, <2>1, OnRecord
    <3> QED BY <1>3, <2>1, <3>1, ExpiredShape, PrunedShape DEF Approved
  <2>2. CASE bind[Superuser].role # "none"
    <3>1. r.prune /\ r.live /\ ApprovedTicket(r.ended)
        BY <1>1, <1>5, <2>2, MemberShape DEF ReadOK
    <3>2. Approved = {r.ended}
        BY <1>1, <1>5, <2>2, <3>1, OnRecord, MemberShape
    <3> QED BY <1>3, <3>1, <3>2, ExpiredShape, PrunedShape DEF Approved
  <2> QED BY <2>1, <2>2
<1>6. Pruned(h).role # "none" =>
         \E t \in Tickets : tick'[t].decided /\ (tick'[t].granted = "never" <=> Pruned(h).exp = "never")
    BY <1>3, PrunedShape, GrantStays
<1>7. req[h].op # "none"
    BY <1>1
<1>8. \A t \in Tickets : tick[t].decided => tick'[t].decided
    BY <1>3
<1>9. tick' \in [Tickets -> SuperuserAccessRequest]
    BY <1>3
<1> QED BY <1>2, <1>4, <1>5, <1>6, <1>7, <1>8, <1>9, PrunedShape, GrantCommit

\* A revocation ends the grant and its request together.
LEMMA RevokeCommit ==
    ASSUME MembershipInv, NEW h \in Handlers, CommitRevoke(h) PROVE MembershipInv'
<1> DEFINE r == req[h]
           b == IF r.live THEN NoBinding ELSE bind[Superuser]
<1>1. /\ r \in Request /\ r.op = "revoke" /\ r.ended \in Tickets \cup {"none"}
      /\ r.u = Superuser /\ (~overlap => ReadOK(r))
    BY RequestShape DEF CommitRevoke, HoldsOK, Request
<1>2. /\ bind \in [Everyone -> UserOrganization] /\ Superuser \in Everyone
      /\ NoBinding \in UserOrganization /\ NoBinding.role = "none"
    BY MemberShape DEF MembershipInv, MShapes, NoBinding, UserOrganization
<1>3. Ends(h, {Superuser}) /\ UNCHANGED <<overlap, active, acct>> /\ tick' = mark_request_ended(h, "revoked")
    BY DEF CommitRevoke
<1>4. bind' = [bind EXCEPT ![Superuser] = b] /\ b \in UserOrganization /\ b.role \in {"none", "superuser"}
    BY <1>2, MemberShape DEF CommitRevoke
<1>5. tick' \in [Tickets -> SuperuserAccessRequest] /\ \A t \in Tickets : tick[t].decided => tick'[t].decided
    BY <1>3, MarkEnded
<1>6. DecidedOK'
    BY <1>3, MarkEnded DEF MembershipInv, DecidedOK
<1>7. b.role # "none" => \E t \in Tickets : tick'[t].decided /\ (tick'[t].granted = "never" <=> b.exp = "never")
    BY <1>2, <1>3, MarkEnded, GrantStays
<1>8. ASSUME ~overlap PROVE Approved' = {} /\ b.role = "none"
  <2>1. bind[Superuser].role = "superuser" /\ ApprovedTicket(r.ended) /\ r.live
      BY <1>1, <1>8 DEF ReadOK
  <2>2. Approved = {r.ended}
      BY <1>1, <1>8, <2>1, OnRecord
  <2> QED BY <1>2, <1>3, <2>1, <2>2, MarkEnded DEF Approved
<1> HIDE DEF b
<1>9. req[h].op # "none"
    BY <1>1
<1> QED BY <1>3, <1>4, <1>5, <1>6, <1>7, <1>8, <1>9, GrantCommit

\* A rejected or cancelled request: the grant and its record stay.
LEMMA DeclineCommits ==
    ASSUME MembershipInv, NEW h \in Handlers, CommitReject(h) \/ CommitCancel(h)
    PROVE  MembershipInv'
<1> DEFINE r == req[h]
<1>1. /\ r.op \in {"reject", "cancel"} /\ r.t \in Tickets /\ (~overlap => tick[r.t].status = "pending")
      /\ tick \in [Tickets -> SuperuserAccessRequest]
    BY RequestShape DEF CommitReject, CommitCancel, HoldsOK, ReadOK, MembershipInv, MShapes
<1>2. Ends(h, {}) /\ UNCHANGED <<overlap, active, acct, bind>>
    BY DEF CommitReject, CommitCancel
<1>3. ASSUME NEW t \in Tickets
      PROVE  /\ tick'[t] \in SuperuserAccessRequest
             /\ tick[t].decided => tick'[t].decided
             /\ tick'[t].granted = tick[t].granted
             /\ t # r.t => tick'[t] = tick[t]
             /\ t = r.t => \/ tick'[t].status = "rejected" /\ tick'[t].decided
                           \/ tick'[t].status = "cancelled"
  <2>1. tick[t] \in SuperuserAccessRequest
      BY <1>1, <1>3
  <2>2. CASE t # r.t
      BY <1>1, <1>3, <2>1, <2>2 DEF CommitReject, CommitCancel
  <2>3. CASE t = r.t /\ CommitReject(h)
      BY <1>1, <1>3, <2>1, <2>3 DEF CommitReject, SuperuserAccessRequest
  <2>4. CASE t = r.t /\ CommitCancel(h)
      BY <1>1, <1>3, <2>1, <2>4 DEF CommitCancel, SuperuserAccessRequest
  <2> QED BY <2>2, <2>3, <2>4
<1>4. tick' \in [Tickets -> SuperuserAccessRequest]
  <2>1. tick' = [t \in Tickets |-> tick'[t]]
      BY <1>1 DEF CommitReject, CommitCancel
  <2> QED BY <1>3, <2>1
<1>5. DecidedOK'
    BY <1>3 DEF MembershipInv, DecidedOK
<1>6. ConsentOK'
    BY <1>2, <1>3 DEF MembershipInv, ConsentOK
<1>7. ~overlap => LifecycleOK'
  <2>1. ~overlap => Approved' = Approved
      BY <1>1, <1>3 DEF Approved
  <2> QED BY <1>2, <2>1 DEF MembershipInv, LifecycleOK
<1>8. req[h].op # "none"
    BY <1>1
<1>9. /\ acct' \in [Everyone -> Accounts] /\ active' \in BOOLEAN
      /\ bind' \in [Everyone -> UserOrganization]
      /\ \A t \in Tickets : tick[t].decided => tick'[t].decided
      /\ \A u \in Everyone : bind[u].role # "none" /\ bind'[u].role = "none" => u \in {}
    BY <1>2, <1>3 DEF MembershipInv, MShapes
<1> QED BY <1>2, <1>4, <1>5, <1>6, <1>7, <1>8, <1>9, CommitStep

\* An aborted request changes nothing but its handler.
LEMMA AbortStep ==
    ASSUME MembershipInv, NEW h \in Handlers, Abort(h) PROVE MembershipInv'
<1>1. UNCHANGED <<overlap, active, acct, bind, tick>> /\ Ends(h, {})
    BY DEF Abort
<1>2. MShapes'
    BY <1>1, EndsShape DEF MembershipInv, MShapes
<1>3. DecidedOK' /\ ConsentOK' /\ (~overlap => LifecycleOK')
    BY <1>1 DEF MembershipInv, DecidedOK, ConsentOK, LifecycleOK, Approved
<1>4. ASSUME NEW x \in Handlers
      PROVE  HoldsOK(req[x])' /\ (~overlap => ReadOK(req[x])') /\ (req'[x].op # "none" => req[x].op # "none")
  <2>1. CASE x = h
      BY <2>1, EndsShape, IdleShape, <1>1 DEF MembershipInv, HoldsOK, ReadOK
  <2>2. CASE x # h
    <3>1. /\ req[x] \in Request /\ HoldsOK(req[x]) /\ (~overlap => ReadOK(req[x]))
          /\ req'[x].op = req[x].op /\ req'[x].u = req[x].u /\ req'[x].role = req[x].role
          /\ req'[x].t = req[x].t /\ req'[x].ended = req[x].ended
          /\ (req'[x].live <=> req[x].live) /\ (req'[x].prune <=> req[x].prune)
        BY <1>1, <1>4, <2>2, EndsShape DEF MembershipInv, MShapes
    <3>2. HoldsOK(req[x])'
        BY <1>1, <3>1 DEF HoldsOK
    <3>3. ~overlap => ReadOK(req[x])'
        BY <1>1, <3>1 DEF ReadOK, ApprovedTicket, Admins
    <3> QED BY <3>1, <3>2, <3>3
  <2> QED BY <2>1, <2>2
<1>5. ~overlap => NobodyElse'
    BY <1>4 DEF MembershipInv, NobodyElse
<1> QED BY <1>1, <1>2, <1>3, <1>4, <1>5 DEF MembershipInv

-----------------------------------------------------------------------------
(* The invariant is inductive.                                             *)

\* A grant or an invitation lapses, or nothing happens.
LEMMA LapseSteps ==
    ASSUME MembershipInv, GrantLapses \/ (\E u \in People : InviteLapses(u)) \/ UNCHANGED mvars
    PROVE  MembershipInv'
<1>1. UNCHANGED <<overlap, active, tick, req>>
    BY DEF GrantLapses, InviteLapses, mvars
<1>2. acct' \in [Everyone -> Accounts]
    BY DEF MembershipInv, MShapes, GrantLapses, InviteLapses, mvars, Accounts
<1>3. bind' \in [Everyone -> UserOrganization] /\ \A u \in Everyone : bind'[u].role = bind[u].role
  <2>1. CASE GrantLapses
    <3>1. bind[Superuser] \in UserOrganization /\ bind' = [bind EXCEPT ![Superuser].exp = "past"]
        BY <2>1, MemberShape DEF MembershipInv, MShapes, GrantLapses
    <3>2. /\ [bind[Superuser] EXCEPT !.exp = "past"] \in UserOrganization
          /\ [bind[Superuser] EXCEPT !.exp = "past"].role = bind[Superuser].role
        BY <3>1 DEF UserOrganization
    <3> QED BY <3>1, <3>2 DEF MembershipInv, MShapes
  <2>2. CASE ~GrantLapses
      BY <2>2 DEF MembershipInv, MShapes, InviteLapses, mvars
  <2> QED BY <2>1, <2>2
<1>4. bind[Superuser].exp = "never" <=> bind'[Superuser].exp = "never"
  <2>1. CASE GrantLapses
      BY <2>1, MemberShape DEF MembershipInv, MShapes, GrantLapses, UserOrganization
  <2>2. CASE ~GrantLapses
      BY <2>2 DEF InviteLapses, mvars
  <2> QED BY <2>1, <2>2
<1>5. MShapes' /\ DecidedOK'
    BY <1>1, <1>2, <1>3 DEF MembershipInv, MShapes, DecidedOK
<1>6. ConsentOK' /\ (~overlap => NobodyElse' /\ LifecycleOK')
    BY <1>1, <1>3, <1>4, MemberShape
       DEF MembershipInv, ConsentOK, NobodyElse, LifecycleOK, Approved
<1>7. Admins' = Admins
    BY <1>3, MemberShape DEF Admins
<1>8. ASSUME NEW h \in Handlers PROVE HoldsOK(req[h])' /\ (~overlap => ReadOK(req[h])')
  <2>1. /\ req[h].u \in Everyone /\ Superuser \in Everyone /\ req'[h] = req[h]
        /\ HoldsOK(req[h]) /\ (~overlap => ReadOK(req[h]))
      BY <1>1, <1>8, RequestShape, MemberShape DEF Request
  <2>2. HoldsOK(req[h])'
      BY <1>1, <1>3, <2>1 DEF HoldsOK
  <2>3. ~overlap => ReadOK(req[h])'
      BY <1>1, <1>3, <1>7, <2>1 DEF ReadOK, ApprovedTicket
  <2> QED BY <2>2, <2>3
<1> QED BY <1>1, <1>5, <1>6, <1>8 DEF MembershipInv

\* The organization begins with one Admin or nobody, and without a grant.
LEMMA MembershipInit == MInit => MembershipInv
<1> SUFFICES ASSUME MInit PROVE MembershipInv
    OBVIOUS
<1> DEFINE founder == [NoBinding EXCEPT !.role = "admin"]
<1>0. /\ NoBinding \in UserOrganization /\ NoBinding.role = "none"
      /\ founder \in UserOrganization /\ founder.role = "admin"
    BY MembershipAssumption DEF NoBinding, UserOrganization
<1>1. PICK founders \in {{}} \cup {{u} : u \in People} :
         /\ acct = [u \in Everyone |-> IF u \in founders \cup {Superuser} THEN "verified" ELSE "none"]
         /\ bind = [u \in Everyone |-> IF u \in founders THEN founder ELSE NoBinding]
    BY DEF MInit
<1> HIDE DEF founder
<1>2. acct \in [Everyone -> Accounts]
    BY <1>1 DEF Accounts
<1>3. /\ bind \in [Everyone -> UserOrganization] /\ bind[Superuser].role = "none"
      /\ \A u \in People : bind[u].role # "superuser"
    BY <1>0, <1>1, MembershipAssumption DEF Everyone
<1>4. /\ tick \in [Tickets -> SuperuserAccessRequest] /\ overlap \in BOOLEAN /\ active \in BOOLEAN
      /\ \A t \in Tickets : tick[t].status = "none"
    BY DEF MInit, OInit, SuperuserAccessRequest
<1>5. req \in [Handlers -> Request] /\ \A h \in Handlers : req[h] = Idle
    BY IdleShape DEF MInit
<1>6. MShapes /\ DecidedOK /\ ConsentOK
    BY <1>2, <1>3, <1>4, <1>5 DEF MShapes, DecidedOK, ConsentOK
<1>7. NobodyElse /\ LifecycleOK
    BY <1>3, <1>4, <1>5, IdleShape DEF NobodyElse, LifecycleOK, Approved
<1>8. HoldsOK(Idle) /\ ReadOK(Idle)
    BY IdleShape DEF HoldsOK, ReadOK
<1> QED BY <1>5, <1>6, <1>7, <1>8 DEF MembershipInv

\* Every step of a request keeps the invariant.
LEMMA MembershipInvStep == MembershipInv /\ [MNext]_mvars => MembershipInv'
<1> SUFFICES ASSUME MembershipInv, [MNext]_mvars PROVE MembershipInv'
    OBVIOUS
<1>1. ASSUME NEW h \in Handlers, Start(h) PROVE MembershipInv'
  <2>1. MayStart(h) /\ \A u \in People : u \in Everyone
      BY <1>1, MemberShape DEF Start
  <2>2. ASSUME NEW by \in People, NEW u \in Everyone, NEW role \in Roles,
               create_member(h, by, u, role) \/ change_member_role(h, by, u, role)
        PROVE  MembershipInv'
      BY <1>1, <2>1, <2>2, MemberStarts
  <2>3. ASSUME NEW by \in People, NEW u \in Everyone,
               regenerate_invite_link(h, by, u) \/ remove_member(h, by, u)
        PROVE  MembershipInv'
      BY <1>1, <2>1, <2>3, MemberStarts, MembershipAssumption
  <2>4. ASSUME NEW by \in People, NEW t \in Tickets, reject_access_request(h, by, t)
        PROVE  MembershipInv'
      BY <1>1, <2>1, <2>4, OtherStarts
  <2>5. ASSUME NEW ended \in Tickets \cup {"none"}, NEW by \in Everyone,
               expire_if_past(h, by, ended) \/ revoke_superuser_membership(h, by, ended)
        PROVE  MembershipInv'
      BY <1>1, <2>1, <2>5, GrantStarts
  <2>6. ASSUME NEW ended \in Tickets \cup {"none"}, NEW t \in Tickets, NEW prune \in BOOLEAN,
               request_org_access(h, t, prune, ended)
        PROVE  MembershipInv'
      BY <1>1, <2>1, <2>6, GrantStarts, MemberShape
  <2>7. ASSUME NEW ended \in Tickets \cup {"none"}, NEW t \in Tickets, NEW prune \in BOOLEAN,
               NEW by \in People, NEW e \in {"never", "open"},
               approve_access_request(h, by, t, e, prune, ended)
        PROVE  MembershipInv'
      BY <1>1, <2>1, <2>7, GrantStarts
  <2>8. ASSUME NEW t \in Tickets, cancel_my_access_request(h, t) PROVE MembershipInv'
      BY <1>1, <2>1, <2>8, OtherStarts
  <2>9. ASSUME NEW u \in Everyone, recover_organization_admin(h, u) \/ verify_invite(h, u)
        PROVE  MembershipInv'
      BY <1>1, <2>1, <2>9, OtherStarts
  <2>10. CASE delete_organization(h)
      BY <1>1, <2>1, <2>10, OtherStarts
  <2> QED BY <1>1, <2>2, <2>3, <2>4, <2>5, <2>6, <2>7, <2>8, <2>9, <2>10 DEF Start
<1>2. ASSUME NEW h \in Handlers, Commit(h) PROVE MembershipInv'
    BY <1>2, MemberCommits, AccountCommits, ApproveCommit, PruneCommits, RevokeCommit,
       DeclineCommits DEF Commit
<1>3. ASSUME NEW h \in Handlers, Abort(h) PROVE MembershipInv'
    BY <1>3, AbortStep
<1>4. CASE GrantLapses \/ (\E u \in People : InviteLapses(u)) \/ UNCHANGED mvars
    BY <1>4, LapseSteps
<1> QED BY <1>1, <1>2, <1>3, <1>4 DEF MNext

\* The invariant holds in every state.
LEMMA MembershipInvHolds == MSpec => []MembershipInv
BY MembershipInit, MembershipInvStep, PTL DEF MSpec

-----------------------------------------------------------------------------
(* What it gives.                                                          *)

\* Members, accounts and request rows keep their types, a decided request says
\* who decided, and a handler holds only memberships that are there
\* (models of organization/, api/org_management.py, api/superuser.py).
THEOREM MembershipTypes == MSpec => []MembershipTypeOK
<1>1. MembershipInv => MembershipTypeOK
    BY DEF MembershipInv, MShapes, DecidedOK, HoldsOK, MembershipTypeOK
<1> QED BY <1>1, MembershipInvHolds, PTL

\* Whatever requests race, the Superuser is a member only under a request that
\* an Admin decided and with the duration granted there, and nobody else has
\* its role; without overlapping requests it is a member exactly while one
\* request is approved (approve_access_request, revoke_superuser_membership,
\* active_superuser_binding, mark_request_ended).
THEOREM GrantsAreConsented == MSpec => []ConsentedGrant
<1>1. MembershipInv => ConsentedGrant
    BY DEF MembershipInv, ConsentOK, LifecycleOK, Approved, ConsentedGrant
<1> QED BY <1>1, MembershipInvHolds, PTL

\* A commit about one member: an Admin is still there if one was, unless the
\* member was the last one.
LEMMA AdminStays ==
    ASSUME MembershipInv, ~overlap, Admins # {}, NEW h \in Handlers, Commit(h)
    PROVE  Admins' # {}
<1> DEFINE u == req[h].u
<1>1. /\ bind \in [Everyone -> UserOrganization] /\ u \in Everyone /\ Superuser \in Everyone
      /\ \A v \in People : v \in Everyone /\ v # Superuser
    BY RequestShape, MemberShape DEF MembershipInv, MShapes, Request
<1>2. CASE CommitCreate(h)
  <2>1. \A v \in People : bind[v].role = "admin" => bind'[v] = bind[v]
      BY <1>1, <1>2 DEF CommitCreate
  <2> QED BY <2>1 DEF Admins
<1>3. CASE CommitRole(h) \/ CommitRemove(h)
  <2>1. /\ req[h].op \in {"role", "remove"}
        /\ \A v \in People : v # u => bind'[v] = bind[v]
      BY <1>1, <1>3 DEF CommitRole, CommitRemove
  <2>2. bind[u].role = "admin" => Admins \ {u} # {}
      BY <2>1, RequestShape DEF ReadOK
  <2>3. CASE bind[u].role = "admin"
      BY <2>1, <2>2, <2>3 DEF Admins
  <2>4. CASE bind[u].role # "admin"
      BY <2>1, <2>4 DEF Admins
  <2> QED BY <2>3, <2>4
<1>4. CASE CommitRecover(h)
  <2>1. \A v \in People : v # u => bind'[v] = bind[v]
      BY <1>1, <1>4 DEF CommitRecover
  <2>2. bind'[u].role = req[h].role /\ u \in People
      BY <1>1, <1>4, RequestShape DEF CommitRecover, HoldsOK, UserOrganization
  <2>3. req[h].role = "admin"
      BY RequestShape, <1>4 DEF CommitRecover, ReadOK
  <2> QED BY <2>1, <2>2, <2>3 DEF Admins
<1>5. CASE ~(CommitCreate(h) \/ CommitRole(h) \/ CommitRemove(h) \/ CommitRecover(h))
  <2>1. \A v \in People : bind'[v] = bind[v]
      BY <1>1, <1>5 DEF Commit, CommitInvite, CommitVerify, CommitApprove, CommitRequest,
         CommitExpiry, CommitRevoke, CommitReject, CommitCancel, CommitDelete
  <2> QED BY <2>1 DEF Admins
<1> QED BY <1>2, <1>3, <1>4, <1>5

\* When requests about the organization do not overlap, no step takes its last
\* Admin (_ensure_not_last_admin, change_member_role, remove_member).
THEOREM LastAdminIsKept == MSpec => LastAdminStaysAlone
<1>1. MembershipInv /\ [MNext]_mvars => [~overlap /\ Admins # {} => Admins' # {}]_mvars
  <2> SUFFICES ASSUME MembershipInv, MNext, ~overlap, Admins # {} PROVE Admins' # {}
      OBVIOUS
  <2>1. ASSUME NEW h \in Handlers, Commit(h) PROVE Admins' # {}
      BY <2>1, AdminStays
  <2>2. ASSUME NEW h \in Handlers, Start(h) \/ Abort(h) PROVE bind' = bind
      BY <2>2, ZenonT(60) DEF Abort, Start, Starts, create_member, change_member_role,
         regenerate_invite_link, remove_member, reject_access_request, expire_if_past,
         revoke_superuser_membership, request_org_access, approve_access_request,
         cancel_my_access_request, recover_organization_admin, verify_invite, delete_organization
  <2>3. CASE GrantLapses \/ \E u \in People : InviteLapses(u)
    <3>1. \A v \in People : bind'[v] = bind[v]
        BY <2>3, MemberShape DEF GrantLapses, InviteLapses, MembershipInv, MShapes
    <3> QED BY <3>1 DEF Admins
  <2> QED BY <2>1, <2>2, <2>3 DEF MNext, Admins
<1> QED BY <1>1, MembershipInvHolds, PTL DEF MSpec, LastAdminStaysAlone

-----------------------------------------------------------------------------
(* The two parts together.                                                 *)

\* No step changes the deployment.
LEMMA OverlapStays == SNext \/ MNext => overlap' = overlap
<1>1. ASSUME SNext PROVE overlap' = overlap
    BY <1>1 DEF SNext, LoginLoad, LoginIssue, LoginFails, logout, revoke_user_sessions, ResetRevoke,
       ResetCommit, ResetFails, rotate_password, Restart, SessionTick
<1>2. ASSUME NEW h \in Handlers, Start(h) \/ Abort(h) PROVE overlap' = overlap
    BY <1>2 DEF Abort, Start, Starts, create_member, change_member_role,
       regenerate_invite_link, remove_member, reject_access_request, expire_if_past,
       revoke_superuser_membership, request_org_access, approve_access_request,
       cancel_my_access_request, recover_organization_admin, verify_invite, delete_organization
<1>3. ASSUME NEW h \in Handlers, Commit(h) PROVE overlap' = overlap
    BY <1>3 DEF Commit, CommitCreate, CommitRecover, CommitRole, CommitRemove, CommitInvite,
       CommitVerify, CommitApprove, CommitRequest, CommitExpiry, CommitRevoke, CommitReject,
       CommitCancel, CommitDelete
<1> QED BY <1>1, <1>2, <1>3 DEF MNext, GrantLapses, InviteLapses

\* Accounts composes the two parts: each behaviour of it is a behaviour of
\* either, so what is proved of a part holds of the whole (a session carries
\* no organization and no role, auth/local.py).
THEOREM PartsComposed == ASpec => SSpec /\ MSpec
<1>1. AInit => SInit /\ MInit
    BY DEF AInit
<1>2. [ANext]_avars => [SNext]_svars
  <2> SUFFICES ASSUME [ANext]_avars PROVE [SNext]_svars
      OBVIOUS
  <2>1. CASE SessionsStep
      BY <2>1 DEF SessionsStep
  <2>2. CASE MembershipStep
      BY <2>2, OverlapStays DEF MembershipStep, svars
  <2>3. CASE UNCHANGED avars
      BY <2>3 DEF avars, svars
  <2> QED BY <2>1, <2>2, <2>3 DEF ANext
<1>3. [ANext]_avars => [MNext]_mvars
  <2> SUFFICES ASSUME [ANext]_avars PROVE [MNext]_mvars
      OBVIOUS
  <2>1. CASE SessionsStep
      BY <2>1, OverlapStays DEF SessionsStep, mvars
  <2>2. CASE MembershipStep
      BY <2>2 DEF MembershipStep
  <2>3. CASE UNCHANGED avars
      BY <2>3 DEF avars, mvars
  <2> QED BY <2>1, <2>2, <2>3 DEF ANext
<1> QED BY <1>1, <1>2, <1>3, PTL DEF ASpec, SSpec, MSpec

\* The types of the sessions and of the memberships, in the composed system
\* (auth/, organization/, api/).
THEOREM AccountsTypes == ASpec => []AccountsTypeOK
<1>1. SessionsTypeOK /\ MembershipTypeOK => AccountsTypeOK
    BY DEF AccountsTypeOK
<1> QED BY <1>1, PartsComposed, SessionsTypes, MembershipTypes, PTL

\* What is shown of sessions and of memberships holds in the composed system:
\* ended sessions and old passwords stay dead, the Superuser is a member only
\* by an Admin's decision, and without overlapping requests the last Admin
\* stays.
THEOREM AccountsAreKept ==
    ASpec => []EndedStaysDead /\ []OldPasswordOpensNothing /\ []ConsentedGrant /\ LastAdminStaysAlone
BY PartsComposed, EndedSessionsStayDead, OldPasswordIsDead, GrantsAreConsented, LastAdminIsKept, PTL
=============================================================================
