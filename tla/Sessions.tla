----------------------------- MODULE Sessions ------------------------------
(***************************************************************************)
(* Login sessions: JWT access tokens (auth/local.py), the middleware that  *)
(* accepts them (auth/middleware.py), and their revocation by logout, by   *)
(* password reset and by force-revoke (auth/blacklist.py, api/auth.py,     *)
(* api/superuser.py, api/org_management.py).                               *)
(*                                                                         *)
(* Time is counted in ticks, TPS to the second: a token's iat and exp are  *)
(* whole seconds, the blacklist's clocks are not.                          *)
(***************************************************************************)
EXTENDS Integers, Overlap

CONSTANTS
    Users,
    SessionIds,
    TPS,            \* ticks per second
    TokenLife,      \* access_token_expire_minutes, in seconds
    MaxTime,        \* bound on the clock, in ticks
    MaxPasswords    \* bound on password changes of a user

ASSUME SessionsAssumption ==
    /\ Users # {}
    /\ TPS \in Nat \ {0} /\ TokenLife \in Nat \ {0}
    /\ MaxTime \in Nat /\ MaxPasswords \in Nat

VARIABLES
    now,
    redis,     \* REDIS_URL is set: the blacklist outlives the process
    pw,        \* number of the password whose hash is on each user's row
    reset,     \* the reset of each user's password that is in flight
    tok,       \* the login behind each session id and its token; history: the
               \* password it was opened with and whether it was logged out
    black,     \* _sessions: when the entry of a session id expires
    mark,      \* _user_watermarks: [at, until] of each user
    revoked,   \* history: the last time every session of a user was revoked
    rotated    \* history: a password rotated on the host and no revocation since

svars == <<overlap, now, redis, pw, reset, tok, black, mark, revoked, rotated>>

Never == -1

NoToken == [st |-> "none", user |-> CHOOSE u \in Users : TRUE, pw |-> 0, at |-> 0, out |-> FALSE]

-----------------------------------------------------------------------------
(* Tokens.                                                                 *)

\* The claims of a token made at tick at; PyJWT truncates both to seconds.
iat(s) == tok[s].at \div TPS
exp(s) == iat(s) + TokenLife

\* Mutant: a token issued in the second of the revocation is let through.
is_revoked_strict(s) ==
    \/ black[s] > now
    \/ mark[tok[s].user].until > now /\ (iat(s) + 1) * TPS <= mark[tok[s].user].at

\* An entry counts until it expires; the watermark ends every token issued at
\* or before it.
is_revoked(s) ==
    \/ black[s] > now
    \/ mark[tok[s].user].until > now /\ iat(s) * TPS <= mark[tok[s].user].at

\* The middleware: the signature is good, the token has not expired, and the
\* session is not on the blacklist.
Accepted(s) ==
    /\ tok[s].st = "issued"
    /\ now < exp(s) * TPS
    /\ ~is_revoked(s)

-----------------------------------------------------------------------------
(* Login.                                                                  *)

ResetInFlight(u) == reset[u] # "idle"

\* The user's row is read and the password compared with its hash.
LoginLoad(s, u) ==
    /\ tok[s].st = "none"
    /\ overlap \/ ~ResetInFlight(u)
    /\ tok' = [tok EXCEPT ![s] = [NoToken EXCEPT !.st = "loaded", !.user = u, !.pw = pw[u]]]
    /\ UNCHANGED <<overlap, now, redis, pw, reset, black, mark, revoked, rotated>>

\* After the memberships were read: the token is made and the cookie set.
LoginIssue(s) ==
    /\ tok[s].st = "loaded"
    /\ tok' = [tok EXCEPT ![s].st = "issued", ![s].at = now]
    /\ UNCHANGED <<overlap, now, redis, pw, reset, black, mark, revoked, rotated>>

\* No membership in an active organization, or the transaction is lost.
LoginFails(s) ==
    /\ tok[s].st = "loaded"
    /\ tok' = [tok EXCEPT ![s] = NoToken]
    /\ UNCHANGED <<overlap, now, redis, pw, reset, black, mark, revoked, rotated>>

-----------------------------------------------------------------------------
(* Revocation.                                                             *)

\* The entry of a logged-out session lasts for the whole seconds its token
\* has left, at least one.
revoke_session(s) ==
    LET remaining == (exp(s) * TPS - now) \div TPS IN
    now + TPS * (IF remaining < 1 THEN 1 ELSE remaining)

logout(s) ==
    /\ Accepted(s)
    /\ black' = [black EXCEPT ![s] = revoke_session(s)]
    /\ tok' = [tok EXCEPT ![s].out = TRUE]
    /\ UNCHANGED <<overlap, now, redis, pw, reset, mark, revoked, rotated>>

\* Mutant: a reset only changes the hash.
revoke_user_nothing(u) == UNCHANGED <<mark, revoked, rotated>>

\* The watermark of a user, for as long as any token already issued can live.
revoke_user(u) ==
    /\ mark' = [mark EXCEPT ![u] = [at |-> now, until |-> now + TokenLife * TPS]]
    /\ revoked' = [revoked EXCEPT ![u] = now]
    /\ rotated' = [rotated EXCEPT ![u] = FALSE]

\* Force-revoke by the Superuser: the transaction only writes an audit event.
revoke_user_sessions(u) ==
    /\ revoke_user(u)
    /\ UNCHANGED <<overlap, now, redis, pw, reset, tok, black>>

LoginInFlight(u) == \E s \in SessionIds : tok[s].st = "loaded" /\ tok[s].user = u

\* A password reset by an Admin or by the Superuser loads the target, puts the
\* new hash on the row in memory, and sets the watermark ...
ResetRevoke(u) ==
    /\ reset[u] = "idle" /\ pw[u] < MaxPasswords
    /\ overlap \/ ~LoginInFlight(u)
    /\ reset' = [reset EXCEPT ![u] = "revoked"]
    /\ revoke_user(u)
    /\ UNCHANGED <<overlap, now, redis, pw, tok, black>>

\* ... and commits the new hash with the audit event afterwards.
ResetCommit(u) ==
    /\ reset[u] = "revoked"
    /\ reset' = [reset EXCEPT ![u] = "idle"]
    /\ pw' = [pw EXCEPT ![u] = @ + 1]
    /\ UNCHANGED <<overlap, now, redis, tok, black, mark, revoked, rotated>>

\* The transaction is lost: the sessions are gone, the password stays.
ResetFails(u) ==
    /\ reset[u] = "revoked"
    /\ reset' = [reset EXCEPT ![u] = "idle"]
    /\ UNCHANGED <<overlap, now, redis, pw, tok, black, mark, revoked, rotated>>

\* bootstrap_superuser --rotate-password: a process on the host gives the
\* Superuser's account another hash.  It does not reach the blacklist.
rotate_password(u) ==
    /\ pw[u] + (IF ResetInFlight(u) THEN 1 ELSE 0) < MaxPasswords
    /\ overlap \/ ~LoginInFlight(u)
    /\ pw' = [pw EXCEPT ![u] = @ + 1]
    /\ rotated' = [rotated EXCEPT ![u] = TRUE]
    /\ UNCHANGED <<overlap, now, redis, reset, tok, black, mark, revoked>>

-----------------------------------------------------------------------------
(* Time and the process.                                                   *)

\* A restart drops the requests in flight and, without Redis, forgets every
\* revocation, and the history with it: the documented limit of the in-memory
\* store.
Restart ==
    /\ reset' = [u \in Users |-> "idle"]
    /\ LET kept == [s \in SessionIds |-> IF tok[s].st = "issued" THEN tok[s] ELSE NoToken] IN
       \/ redis /\ tok' = kept /\ UNCHANGED <<black, mark, revoked, rotated>>
       \/ /\ ~redis
          /\ tok' = [s \in SessionIds |->
                       [kept[s] EXCEPT !.out = FALSE, !.pw = pw[kept[s].user]]]
          /\ black' = [s \in SessionIds |-> Never]
          /\ mark' = [u \in Users |-> [at |-> Never, until |-> Never]]
          /\ revoked' = [u \in Users |-> Never]
          /\ rotated' = [u \in Users |-> FALSE]
    /\ UNCHANGED <<overlap, now, redis, pw>>

SessionTick ==
    /\ now < MaxTime
    /\ now' = now + 1
    /\ UNCHANGED <<overlap, redis, pw, reset, tok, black, mark, revoked, rotated>>

SInit ==
    /\ OInit
    /\ now = 0 /\ redis \in BOOLEAN
    /\ pw = [u \in Users |-> 0]
    /\ reset = [u \in Users |-> "idle"]
    /\ tok = [s \in SessionIds |-> NoToken]
    /\ black = [s \in SessionIds |-> Never]
    /\ mark = [u \in Users |-> [at |-> Never, until |-> Never]]
    /\ revoked = [u \in Users |-> Never]
    /\ rotated = [u \in Users |-> FALSE]

SNext ==
    \/ \E s \in SessionIds :
          \/ \E u \in Users : LoginLoad(s, u)
          \/ LoginIssue(s) \/ LoginFails(s) \/ logout(s)
    \/ \E u \in Users :
          \/ revoke_user_sessions(u) \/ ResetRevoke(u) \/ ResetCommit(u) \/ ResetFails(u)
          \/ rotate_password(u)
    \/ Restart \/ SessionTick

SSpec == SInit /\ [][SNext]_svars

-----------------------------------------------------------------------------
(* Properties.                                                             *)

\* Types, and no token from the future.
SessionsTypeOK ==
    /\ overlap \in BOOLEAN /\ redis \in BOOLEAN /\ now \in 0..MaxTime
    /\ pw \in [Users -> 0..MaxPasswords]
    /\ reset \in [Users -> {"idle", "revoked"}]
    /\ \A s \in SessionIds :
          /\ tok[s].st \in {"none", "loaded", "issued"} /\ tok[s].user \in Users
          /\ tok[s].at \in 0..now /\ tok[s].pw <= pw[tok[s].user]

\* "any token issued before the revocation moment is dead": no session issued
\* up to a revocation of all of its user's sessions is accepted after it, to
\* the end of its life: the entry lives at least as long as the tokens, and
\* whole seconds are compared with a finer clock on the safe side.  Nor is a
\* logged-out session, except in the last fraction of a second of its token:
\* its entry's lifetime is truncated to whole seconds.
EndedStaysDead ==
    \A s \in SessionIds :
        /\ tok[s].st = "issued" /\ tok[s].at <= revoked[tok[s].user] => ~Accepted(s)
        /\ tok[s].out /\ Accepted(s) => exp(s) * TPS - now < TPS

\* "live sessions must not outlive it": when no login overlaps a reset, every
\* accepted session was opened with the password that is on the row, or before
\* a rotation on the host, until the next revocation.  (A login that read the
\* row before a reset committed and issues its token after the watermark would
\* be accepted with the old password.)
OldPasswordOpensNothing ==
    ~overlap => \A s \in SessionIds :
        Accepted(s) /\ ~rotated[tok[s].user] => tok[s].pw = pw[tok[s].user]
=============================================================================
