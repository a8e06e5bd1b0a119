---------------------------- MODULE Membership -----------------------------
(***************************************************************************)
(* One organization: its members and their roles, the invitations that     *)
(* verify new accounts, and the consent gate through which the install     *)
(* Superuser gets time-limited membership (api/org_management.py,          *)
(* api/superuser.py, api/auth.py, api/organizations.py, organization/).    *)
(*                                                                         *)
(* A request is authorised and reads what it decides on, then commits: two *)
(* steps that interleave with other requests.  No row is read for update;  *)
(* a commit meets the unique keys of users and user_organizations, and     *)
(* the rows others have deleted.                                           *)
(***************************************************************************)
EXTENDS Naturals, Overlap

CONSTANTS
    People,        \* ordinary users
    Superuser,     \* the install Superuser
    Roles,         \* the assignable roles of the instance, admin among them
    Tickets,       \* access requests
    Handlers

ASSUME MembershipAssumption ==
    /\ Superuser \notin People /\ "none" \notin Tickets
    /\ "admin" \in Roles /\ Roles \subseteq {"analyst", "responder", "engineer", "admin"}

VARIABLES
    active,   \* Organization.is_active
    acct,     \* User.verification_status, with the state of the invite token
    bind,     \* UserOrganization: role and expiry of each user's membership
    tick,     \* SuperuserAccessRequest rows
    req       \* the request each handler serves

mvars == <<overlap, active, acct, bind, tick, req>>

Everyone == People \cup {Superuser}

\* "invited" and "lapsed" are unverified accounts whose token is good, expired.
Accounts == {"none", "invited", "lapsed", "verified"}

NoBinding == [role |-> "none", exp |-> "never"]

UserOrganization == [role : Roles \cup {"none", "superuser"}, exp : {"never", "open", "past"}]

SuperuserAccessRequest ==
    [status : {"none", "pending", "approved", "rejected", "cancelled", "revoked", "expired"},
     decided : BOOLEAN,                     \* decided_by_user_id is set
     granted : {"none", "never", "open"}]   \* granted_expires_at

Capability == {"users_manage", "superuser_membership_grant"}

ROLE_CAPABILITIES == [r \in Roles \cup {"superuser"} |-> IF r = "admin" THEN Capability ELSE {}]

Idle == [op |-> "none", u |-> Superuser, role |-> "none", t |-> "none", ended |-> "none",
         exp |-> "never", fresh |-> FALSE, prune |-> FALSE, live |-> FALSE]

Admins == {u \in People : bind[u].role = "admin"}

-----------------------------------------------------------------------------
(* Authorisation.                                                          *)

Lapsed(u) == bind[u].role = "superuser" /\ bind[u].exp = "past"

\* A verified member of the active organization whose grant has not lapsed.
require_organization_context(u) ==
    /\ bind[u].role # "none" /\ active
    /\ ~Lapsed(u)
    /\ acct[u] = "verified"

require_capability(u, c) == require_organization_context(u) /\ c \in ROLE_CAPABILITIES[bind[u].role]

-----------------------------------------------------------------------------
(* What each operation reads and checks.  A check that fails ends the      *)
(* request with an error and changes nothing.                              *)

\* The handler has read what it needs and goes on to commit.
Starts(h, op, read) ==
    /\ req' = [req EXCEPT ![h] = [read EXCEPT !.op = op, !.live = bind[read.u].role # "none"]]
    /\ UNCHANGED <<overlap, active, acct, bind, tick>>

\* Mutant: the count does not exclude the member in question.
ensure_not_last_admin_self(u) == Admins # {}

ensure_not_last_admin(u) == Admins \ {u} # {}

\* The Superuser's membership goes through the consent gate.
MayAdd(u) == u # Superuser

create_member(h, by, u, role) ==
    /\ require_capability(by, "users_manage")
    /\ MayAdd(u) /\ bind[u].role = "none"
    /\ Starts(h, "create", [Idle EXCEPT !.u = u, !.role = role, !.fresh = acct[u] = "none"])

regenerate_invite_link(h, by, u) ==
    /\ require_capability(by, "users_manage")
    /\ bind[u].role # "none" /\ acct[u] # "verified"
    /\ Starts(h, "regenerate", [Idle EXCEPT !.u = u])

change_member_role(h, by, u, role) ==
    /\ require_capability(by, "users_manage")
    /\ bind[u].role \notin {"none", "superuser", role}
    /\ bind[u].role = "admin" => ensure_not_last_admin(u)
    /\ Starts(h, "role", [Idle EXCEPT !.u = u, !.role = role])

remove_member(h, by, u) ==
    /\ require_capability(by, "users_manage")
    /\ bind[u].role \notin {"none", "superuser"}
    /\ bind[u].role = "admin" => ensure_not_last_admin(u)
    /\ Starts(h, "remove", [Idle EXCEPT !.u = u])

\* The approved request behind the grant a handler ends, if there is one.
ApprovedTicket(t) ==
    \/ t \in Tickets /\ tick[t].status = "approved"
    \/ t = "none" /\ \A x \in Tickets : tick[x].status # "approved"

\* active_superuser_binding finds nothing: there is no grant, or a lapsed one
\* that the handler prunes together with the request behind it.
NoActiveGrant(prune, ended) ==
    \/ bind[Superuser].role = "none" /\ ~prune /\ ended = "none"
    \/ Lapsed(Superuser) /\ prune /\ ApprovedTicket(ended)

IsPending(t) == tick[t].status = "pending"

\* The Admin grants the time asked for, another, or until revoked.
approve_access_request(h, by, t, exp, prune, ended) ==
    /\ require_capability(by, "superuser_membership_grant")
    /\ IsPending(t) /\ NoActiveGrant(prune, ended)
    /\ Starts(h, "approve", [Idle EXCEPT !.t = t, !.exp = exp, !.prune = prune, !.ended = ended])

reject_access_request(h, by, t) ==
    /\ require_capability(by, "superuser_membership_grant")
    /\ IsPending(t)
    /\ Starts(h, "reject", [Idle EXCEPT !.t = t])

cancel_my_access_request(h, t) ==
    /\ IsPending(t)
    /\ Starts(h, "cancel", [Idle EXCEPT !.t = t])

revoke_superuser_membership(h, by, ended) ==
    /\ require_capability(by, "superuser_membership_grant")
    /\ bind[Superuser].role # "none" /\ ApprovedTicket(ended)
    /\ Starts(h, "revoke", [Idle EXCEPT !.ended = ended])

\* A lapsed grant is ended by the Superuser's own next request, or by the
\* banner of any member.
expire_if_past(h, by, ended) ==
    /\ active /\ (by = Superuser \/ require_organization_context(by))
    /\ Lapsed(Superuser) /\ ApprovedTicket(ended)
    /\ Starts(h, "expire", [Idle EXCEPT !.prune = TRUE, !.ended = ended])

request_org_access(h, t, prune, ended) ==
    /\ active /\ NoActiveGrant(prune, ended)
    /\ tick[t].status = "none" /\ \A x \in Tickets : ~IsPending(x)
    /\ Starts(h, "request", [Idle EXCEPT !.t = t, !.prune = prune, !.ended = ended])

recover_organization_admin(h, u) ==
    /\ active /\ Admins = {} /\ MayAdd(u)
    /\ Starts(h, "recover", [Idle EXCEPT !.u = u, !.role = "admin", !.fresh = acct[u] = "none"])

delete_organization(h) == active /\ Starts(h, "delete", Idle)

\* The token is good, not expired, and the client is on Wolf's network.
verify_invite(h, u) ==
    /\ acct[u] = "invited"
    /\ Starts(h, "verify", [Idle EXCEPT !.u = u])

-----------------------------------------------------------------------------
(* Commits.                                                                *)

\* The request ends; handlers that loaded a membership deleted by it hold a
\* row that is no longer there.
Ends(h, deleted) ==
    req' = [x \in Handlers |->
              IF x = h THEN Idle
              ELSE [req[x] EXCEPT !.live = @ /\ (req[x].u \notin deleted)]]

\* The commit met a unique key or a missing row, or the transaction is lost.
Abort(h) ==
    /\ req[h] # Idle
    /\ Ends(h, {})
    /\ UNCHANGED <<overlap, active, acct, bind, tick>>

\* Two unique keys: an account per email, a membership per user.
CommitCreate(h) ==
    LET r == req[h] IN
    /\ req[h].op = "create"
    /\ bind[r.u].role = "none" /\ (r.fresh => acct[r.u] = "none")
    /\ bind' = [bind EXCEPT ![r.u].role = r.role]
    /\ acct' = IF r.fresh THEN [acct EXCEPT ![r.u] = "invited"] ELSE acct
    /\ Ends(h, {})
    /\ UNCHANGED <<overlap, active, tick>>

CommitRecover(h) ==
    LET r == req[h] IN
    /\ req[h].op = "recover"
    /\ r.live <=> bind[r.u].role # "none"
    /\ r.fresh => acct[r.u] = "none"
    /\ bind' = [bind EXCEPT ![r.u].role = r.role]
    /\ acct' = IF r.fresh THEN [acct EXCEPT ![r.u] = "verified"] ELSE acct
    /\ Ends(h, {})
    /\ UNCHANGED <<overlap, active, tick>>

\* An update of a row that was deleted fails.
CommitRole(h) ==
    LET r == req[h] IN
    /\ req[h].op = "role" /\ r.live
    /\ bind' = [bind EXCEPT ![r.u].role = r.role]
    /\ Ends(h, {})
    /\ UNCHANGED <<overlap, active, acct, tick>>

\* Deleting a row that was deleted is only a warning.
CommitRemove(h) ==
    LET r == req[h] IN
    /\ req[h].op = "remove"
    /\ bind' = IF r.live THEN [bind EXCEPT ![r.u] = NoBinding] ELSE bind
    /\ Ends(h, {r.u})
    /\ UNCHANGED <<overlap, active, acct, tick>>

\* A new token replaces the old one; the status is left alone.
CommitInvite(h) ==
    LET u == req[h].u IN
    /\ req[h].op = "regenerate"
    /\ acct' = IF acct[u] = "verified" THEN acct ELSE [acct EXCEPT ![u] = "invited"]
    /\ Ends(h, {})
    /\ UNCHANGED <<overlap, active, bind, tick>>

CommitVerify(h) ==
    /\ req[h].op = "verify"
    /\ acct' = [acct EXCEPT ![req[h].u] = "verified"]
    /\ Ends(h, {})
    /\ UNCHANGED <<overlap, active, bind, tick>>

\* Mutant: the grant ends and its request stays approved.
mark_request_ended_not(h, status) == tick

\* The request behind a grant that ends.
mark_request_ended(h, status) ==
    IF req[h].ended = "none" THEN tick ELSE [tick EXCEPT ![req[h].ended].status = status]

\* The Superuser's membership after what this handler deletes.
Pruned(h) == IF req[h].prune /\ req[h].live THEN NoBinding ELSE bind[Superuser]

PrunedUsers(h) == IF req[h].prune THEN {Superuser} ELSE {}

Expired(h) == IF req[h].prune THEN mark_request_ended(h, "expired") ELSE tick

CommitApprove(h) ==
    LET r == req[h] IN
    /\ req[h].op = "approve"
    /\ Pruned(h).role = "none"
    /\ bind' = [bind EXCEPT ![Superuser] = [role |-> "superuser", exp |-> r.exp]]
    /\ tick' = [Expired(h) EXCEPT ![r.t] =
                  [status |-> "approved", decided |-> TRUE, granted |-> r.exp]]
    /\ Ends(h, PrunedUsers(h))
    /\ UNCHANGED <<overlap, active, acct>>

CommitRequest(h) ==
    /\ req[h].op = "request" /\ tick[req[h].t].status = "none"
    /\ bind' = [bind EXCEPT ![Superuser] = Pruned(h)]
    /\ tick' = [Expired(h) EXCEPT ![req[h].t].status = "pending"]
    /\ Ends(h, PrunedUsers(h))
    /\ UNCHANGED <<overlap, active, acct>>

CommitExpiry(h) ==
    /\ req[h].op = "expire"
    /\ bind' = [bind EXCEPT ![Superuser] = Pruned(h)]
    /\ tick' = Expired(h)
    /\ Ends(h, PrunedUsers(h))
    /\ UNCHANGED <<overlap, active, acct>>

CommitRevoke(h) ==
    /\ req[h].op = "revoke"
    /\ bind' = IF req[h].live THEN [bind EXCEPT ![Superuser] = NoBinding] ELSE bind
    /\ tick' = mark_request_ended(h, "revoked")
    /\ Ends(h, {Superuser})
    /\ UNCHANGED <<overlap, active, acct>>

\* Mutant: a rejection does not say who decided.
CommitReject_unsigned(h) ==
    /\ req[h].op = "reject"
    /\ tick' = [tick EXCEPT ![req[h].t].status = "rejected"]
    /\ Ends(h, {})
    /\ UNCHANGED <<overlap, active, acct, bind>>

CommitReject(h) ==
    /\ req[h].op = "reject"
    /\ tick' = [tick EXCEPT ![req[h].t].status = "rejected", ![req[h].t].decided = TRUE]
    /\ Ends(h, {})
    /\ UNCHANGED <<overlap, active, acct, bind>>

CommitCancel(h) ==
    /\ req[h].op = "cancel"
    /\ tick' = [tick EXCEPT ![req[h].t].status = "cancelled"]
    /\ Ends(h, {})
    /\ UNCHANGED <<overlap, active, acct, bind>>

CommitDelete(h) ==
    /\ req[h].op = "delete"
    /\ active' = FALSE
    /\ Ends(h, {})
    /\ UNCHANGED <<overlap, acct, bind, tick>>

-----------------------------------------------------------------------------
(* Time.                                                                   *)

GrantLapses ==
    /\ bind[Superuser].exp = "open"
    /\ bind' = [bind EXCEPT ![Superuser].exp = "past"]
    /\ UNCHANGED <<overlap, active, acct, tick, req>>

InviteLapses(u) ==
    /\ acct[u] = "invited"
    /\ acct' = [acct EXCEPT ![u] = "lapsed"]
    /\ UNCHANGED <<overlap, active, bind, tick, req>>

-----------------------------------------------------------------------------
\* An organization made by the Superuser has no member; one made on the host
\* (bootstrap_organization) has one verified Admin.
MInit ==
    /\ OInit
    /\ active = TRUE
    /\ \E founders \in {{}} \cup {{u} : u \in People} :
          /\ acct = [u \in Everyone |-> IF u \in founders \cup {Superuser} THEN "verified" ELSE "none"]
          /\ bind = [u \in Everyone |->
                       IF u \in founders THEN [NoBinding EXCEPT !.role = "admin"] ELSE NoBinding]
    /\ tick = [t \in Tickets |-> [status |-> "none", decided |-> FALSE, granted |-> "none"]]
    /\ req = [h \in Handlers |-> Idle]

MayStart(h) == req[h] = Idle /\ (overlap \/ \A x \in Handlers : req[x] = Idle)

Start(h) == MayStart(h) /\
    \/ \E by \in People :
          \/ \E u \in Everyone, role \in Roles :
                create_member(h, by, u, role) \/ change_member_role(h, by, u, role)
          \/ \E u \in Everyone : regenerate_invite_link(h, by, u) \/ remove_member(h, by, u)
          \/ \E t \in Tickets : reject_access_request(h, by, t)
    \/ \E ended \in Tickets \cup {"none"} :
          \/ \E by \in Everyone :
                expire_if_past(h, by, ended) \/ revoke_superuser_membership(h, by, ended)
          \/ \E t \in Tickets, prune \in BOOLEAN :
                \/ request_org_access(h, t, prune, ended)
                \/ \E by \in People, exp \in {"never", "open"} :
                      approve_access_request(h, by, t, exp, prune, ended)
    \/ \E t \in Tickets : cancel_my_access_request(h, t)
    \/ \E u \in Everyone : recover_organization_admin(h, u) \/ verify_invite(h, u)
    \/ delete_organization(h)

Commit(h) ==
    \/ CommitCreate(h) \/ CommitRecover(h) \/ CommitRole(h) \/ CommitRemove(h)
    \/ CommitInvite(h) \/ CommitVerify(h)
    \/ CommitApprove(h) \/ CommitRequest(h) \/ CommitExpiry(h) \/ CommitRevoke(h)
    \/ CommitReject(h) \/ CommitCancel(h) \/ CommitDelete(h)

MNext ==
    \/ \E h \in Handlers : Start(h) \/ Commit(h) \/ Abort(h)
    \/ GrantLapses
    \/ \E u \in People : InviteLapses(u)

MSpec == MInit /\ [][MNext]_mvars

-----------------------------------------------------------------------------
(* Properties.                                                             *)

\* Types; a request in flight holds a row only if the row is there.
MembershipTypeOK ==
    /\ overlap \in BOOLEAN /\ active \in BOOLEAN
    /\ acct \in [Everyone -> Accounts]
    /\ bind \in [Everyone -> UserOrganization]
    /\ tick \in [Tickets -> SuperuserAccessRequest]
    /\ \A t \in Tickets : tick[t].status \in {"approved", "rejected", "revoked", "expired"} => tick[t].decided
    /\ \A h \in Handlers : req[h].live => bind[req[h].u].role # "none"

\* "the Superuser cannot self-grant data access": whatever requests race, the
\* Superuser is only ever a member with the superuser role, under a request
\* that an Admin decided and with the duration granted there, and nobody else
\* has that role; and when requests do not overlap the request rows are "the
\* full lifecycle record" of it: it is a member exactly while one is approved.
ConsentedGrant ==
    /\ \A u \in People : bind[u].role # "superuser"
    /\ bind[Superuser].role # "none" =>
          /\ bind[Superuser].role = "superuser"
          /\ \E t \in Tickets :
                /\ tick[t].decided
                /\ tick[t].granted = "never" <=> bind[Superuser].exp = "never"
    /\ ~overlap =>
          LET approved == {t \in Tickets : tick[t].status = "approved"} IN
          /\ (bind[Superuser].role = "superuser") <=> (approved # {})
          /\ \A t, x \in approved : t = x

\* "An organization must have at least one Admin.  The API refuses to delete
\* the last Admin or demote them."
LastAdminStays == [][Admins # {} => Admins' # {}]_mvars

\* The same when requests about the organization do not overlap.
LastAdminStaysAlone == [][~overlap /\ Admins # {} => Admins' # {}]_mvars
=============================================================================
