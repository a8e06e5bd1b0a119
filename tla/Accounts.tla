----------------------------- MODULE Accounts ------------------------------
(***************************************************************************)
(* Who may do what in wolf-server: the sessions of an account and its      *)
(* membership in an organization.  A request needs an accepted session and *)
(* a membership; neither part writes the state of the other (the session   *)
(* carries no organization and no role), so each is checked while the      *)
(* other rests.  part is the one that moves.                               *)
(***************************************************************************)
EXTENDS Sessions, Membership

CONSTANT Parts

VARIABLE part

avars == <<part, overlap, now, redis, pw, reset, tok, black, mark, revoked, rotated,
           active, acct, bind, tick, req>>

\* The part at rest is in one representative state.
AInit ==
    /\ part \in Parts
    /\ SInit /\ MInit
    /\ part # "sessions" => redis
    /\ part # "membership" => Admins = {}

SessionsStep ==
    /\ part = "sessions" /\ SNext
    /\ UNCHANGED <<part, active, acct, bind, tick, req>>

MembershipStep ==
    /\ part = "membership" /\ MNext
    /\ UNCHANGED <<part, now, redis, pw, reset, tok, black, mark, revoked, rotated>>

ANext == SessionsStep \/ MembershipStep

ASpec == AInit /\ [][ANext]_avars

\* Types of the tokens, the blacklist, the memberships and the requests.
AccountsTypeOK == SessionsTypeOK /\ MembershipTypeOK
=============================================================================
