--------------------------- MODULE SessionsProofs ---------------------------
(***************************************************************************)
(* Proofs about Sessions: an ended session stays dead to the end of its    *)
(* token's life, and a reset password opens nothing, for every number of   *)
(* users and sessions, every token life and every resolution of the clock. *)
(***************************************************************************)
EXTENDS Sessions, TLAPS

-----------------------------------------------------------------------------
(* The inductive invariant.                                                *)

Token == [st : {"none", "loaded", "issued"}, user : Users, pw : 0..MaxPasswords,
          at : Nat, out : BOOLEAN]

Shapes ==
    /\ overlap \in BOOLEAN /\ redis \in BOOLEAN /\ now \in 0..MaxTime
    /\ pw \in [Users -> 0..MaxPasswords]
    /\ reset \in [Users -> {"idle", "revoked"}]
    /\ tok \in [SessionIds -> Token]
    /\ black \in [SessionIds -> Int]
    /\ mark \in [Users -> [at : Int, until : Int]]
    /\ revoked \in [Users -> Int]
    /\ rotated \in [Users -> BOOLEAN]

\* A reset in flight has a password number left to commit.
ResetOK(u) == reset[u] = "revoked" => pw[u] < MaxPasswords

\* The watermark is the one of the last revocation and outlives its tokens.
MarkOK(u) ==
    revoked[u] # Never =>
        mark[u].at = revoked[u] /\ mark[u].until = revoked[u] + TokenLife * TPS

\* A token is not from the future, and neither is the password behind it; the
\* entry of a logged-out one ends less than a second before it.
TokenOK(s) ==
    /\ tok[s].at <= now /\ tok[s].pw <= pw[tok[s].user]
    /\ tok[s].out => tok[s].st = "issued" /\ black[s] + TPS > exp(s) * TPS

\* When no login overlaps a reset: a login in flight holds the password on the
\* row, a reset in flight has ended every session, and a session opened with
\* another password was ended or is older than a rotation on the host.
AloneOK(s) ==
    LET u == tok[s].user IN
    /\ tok[s].st = "loaded" => tok[s].pw = pw[u] /\ reset[u] = "idle"
    /\ tok[s].st = "issued" /\ reset[u] = "revoked" => tok[s].at <= revoked[u]
    /\ tok[s].st = "issued" /\ tok[s].pw # pw[u] =>
          rotated[u] \/ tok[s].at <= revoked[u]

SessionsInv ==
    /\ Shapes
    /\ \A u \in Users : ResetOK(u) /\ MarkOK(u)
    /\ \A s \in SessionIds : TokenOK(s) /\ (~overlap => AloneOK(s))

-----------------------------------------------------------------------------
(* Whole seconds.                                                          *)

\* Truncation to a whole number of seconds loses less than a second.
LEMMA Truncated ==
    ASSUME NEW n \in Int, NEW d \in Nat \ {0}
    PROVE  /\ n \div d \in Int
           /\ d * (n \div d) <= n /\ n < d * (n \div d) + d
OBVIOUS

\* A token is issued in the second its iat names and lives TokenLife seconds.
LEMMA Seconds ==
    ASSUME Shapes, NEW s \in SessionIds
    PROVE  /\ iat(s) \in Int /\ exp(s) \in Int
           /\ iat(s) * TPS <= tok[s].at /\ tok[s].at < iat(s) * TPS + TPS
           /\ exp(s) * TPS = iat(s) * TPS + TokenLife * TPS
<1>1. tok[s].at \in Int /\ TPS \in Nat \ {0} /\ TokenLife \in Int
    BY SessionsAssumption DEF Shapes, Token
<1>2. iat(s) \in Int /\ TPS * iat(s) <= tok[s].at /\ tok[s].at < TPS * iat(s) + TPS
    BY <1>1, Truncated DEF iat
<1>3. \A i, d, l \in Int : d * i = i * d /\ (i + l) * d = i * d + l * d
    OBVIOUS
<1> QED BY <1>1, <1>2, <1>3 DEF exp

\* The entry of a session logged out now outlives its token but for a fraction
\* of a second.
LEMMA EntryLasts ==
    ASSUME Shapes, NEW s \in SessionIds
    PROVE  revoke_session(s) \in Int /\ revoke_session(s) + TPS > exp(s) * TPS
<1> DEFINE left == exp(s) * TPS - now
           rem == left \div TPS
<1>1. now \in Int /\ TPS \in Nat \ {0} /\ exp(s) \in Int
    BY SessionsAssumption, Seconds DEF Shapes
<1>2. exp(s) * TPS \in Int /\ left \in Int
    BY <1>1
<1>3. rem \in Int /\ left < TPS * rem + TPS
    BY <1>1, <1>2, Truncated
<1>4. TPS * rem \in Int
    BY <1>1, <1>3
<1>5. CASE rem < 1
  <2>1. revoke_session(s) = now + TPS * 1
      BY <1>5 DEF revoke_session
  <2>2. TPS * rem <= 0
      BY <1>1, <1>3, <1>5
  <2> HIDE DEF rem
  <2> QED BY <1>1, <1>2, <1>3, <1>4, <2>1, <2>2
<1>6. CASE ~(rem < 1)
  <2>1. revoke_session(s) = now + TPS * rem
      BY <1>6 DEF revoke_session
  <2> HIDE DEF rem
  <2> QED BY <1>1, <1>2, <1>3, <1>4, <2>1
<1> QED BY <1>5, <1>6

-----------------------------------------------------------------------------
(* The invariant is inductive.                                             *)

\* A session that was not opened has an empty token.
LEMMA NoTokenShape ==
    NoToken \in Token /\ NoToken.st = "none" /\ ~NoToken.out /\ NoToken.at = 0 /\ NoToken.pw = 0
<1>1. (CHOOSE u \in Users : TRUE) \in Users
    BY SessionsAssumption
<1>2. 0 \in 0..MaxPasswords
    BY SessionsAssumption
<1> QED BY <1>1, <1>2 DEF NoToken, Token

\* Nobody is signed in at first.
LEMMA SessionsInit == SInit => SessionsInv
<1> SUFFICES ASSUME SInit PROVE SessionsInv
    OBVIOUS
<1>1. Shapes
    BY NoTokenShape, SessionsAssumption DEF SInit, OInit, Shapes, Never
<1>2. ASSUME NEW u \in Users PROVE ResetOK(u) /\ MarkOK(u)
    BY <1>2 DEF SInit, ResetOK, MarkOK
<1>3. ASSUME NEW s \in SessionIds PROVE TokenOK(s) /\ AloneOK(s)
  <2>1. tok[s] = NoToken /\ NoToken.user \in Users
      BY NoTokenShape DEF SInit, Token
  <2> QED BY <2>1, NoTokenShape DEF SInit, TokenOK, AloneOK
<1> QED BY <1>1, <1>2, <1>3 DEF SessionsInv

\* A step of one login: the other sessions and every account stay.
LEMMA LoginSteps ==
    ASSUME SessionsInv, NEW s \in SessionIds, NEW t \in Token,
           tok' = [tok EXCEPT ![s] = t], black' = black,
           UNCHANGED <<overlap, now, redis, pw, reset, mark, revoked, rotated>>,
           t.at <= now /\ t.pw <= pw[t.user] /\ ~t.out,
           t.st = "loaded" => t.pw = pw[t.user] /\ (~overlap => reset[t.user] = "idle"),
           t.st = "issued" /\ ~overlap => t.pw = pw[t.user] /\ reset[t.user] = "idle"
    PROVE  SessionsInv'
<1>1. Shapes'
    BY DEF SessionsInv, Shapes
<1>2. ASSUME NEW u \in Users PROVE (ResetOK(u) /\ MarkOK(u))'
    BY <1>2 DEF SessionsInv, ResetOK, MarkOK
<1>3. ASSUME NEW x \in SessionIds PROVE TokenOK(x)' /\ (~overlap' => AloneOK(x)')
  <2>1. CASE x = s
    <3>1. tok'[x] = t
        BY <2>1 DEF SessionsInv, Shapes
    <3> QED BY <3>1 DEF TokenOK, AloneOK
  <2>2. CASE x # s
    <3>1. tok'[x] = tok[x]
        BY <2>2 DEF SessionsInv, Shapes
    <3> QED BY <3>1, <1>3 DEF SessionsInv, TokenOK, AloneOK, exp, iat
  <2> QED BY <2>1, <2>2
<1> QED BY <1>1, <1>2, <1>3 DEF SessionsInv

\* Every session of a user is revoked, with or without a reset.
LEMMA RevokeSteps ==
    ASSUME SessionsInv, NEW u \in Users, revoke_user(u),
           UNCHANGED <<overlap, now, redis, pw, tok, black>>,
           \/ reset' = reset
           \/ /\ reset' = [reset EXCEPT ![u] = "revoked"] /\ pw[u] < MaxPasswords
              /\ ~overlap => ~LoginInFlight(u)
    PROVE  SessionsInv'
<1>1. Shapes'
  <2>1. now \in Int /\ now + TokenLife * TPS \in Int
      BY SessionsAssumption DEF SessionsInv, Shapes
  <2>2. reset' \in [Users -> {"idle", "revoked"}]
      BY DEF SessionsInv, Shapes
  <2> QED BY <2>1, <2>2 DEF SessionsInv, Shapes, revoke_user
<1>2. ASSUME NEW v \in Users PROVE (ResetOK(v) /\ MarkOK(v))'
    BY <1>2 DEF SessionsInv, Shapes, ResetOK, MarkOK, revoke_user
<1>3. ASSUME NEW x \in SessionIds PROVE TokenOK(x)'
    BY <1>3 DEF SessionsInv, TokenOK, exp, iat
<1>4. ASSUME NEW x \in SessionIds, ~overlap PROVE AloneOK(x)'
  <2>1. /\ tok[x].user \in Users /\ tok[x].at <= now /\ AloneOK(x)
        /\ tok[x].user # u => /\ reset'[tok[x].user] = reset[tok[x].user]
                              /\ revoked'[tok[x].user] = revoked[tok[x].user]
                              /\ rotated'[tok[x].user] = rotated[tok[x].user]
        /\ revoked'[u] = now
      BY <1>4 DEF SessionsInv, Shapes, Token, TokenOK, revoke_user
  <2>2. CASE tok[x].user # u
      BY <2>1, <2>2 DEF AloneOK
  <2>3. CASE tok[x].user = u
    <3>1. tok[x].st = "loaded" => reset' = reset
        BY <1>4, <2>3 DEF LoginInFlight
    <3> QED BY <2>1, <2>3, <3>1 DEF AloneOK
  <2> QED BY <2>2, <2>3
<1> QED BY <1>1, <1>2, <1>3, <1>4 DEF SessionsInv

\* The hash on a row changes or a reset ends; sessions and blacklist stay.
LEMMA PasswordSteps ==
    ASSUME SessionsInv, NEW u \in Users,
           ResetCommit(u) \/ ResetFails(u) \/ rotate_password(u)
    PROVE  SessionsInv'
<1> USE DEF ResetCommit, ResetFails, rotate_password
<1>1. Shapes'
  <2>1. pw[u] \in 0..MaxPasswords /\ MaxPasswords \in Nat /\ ResetOK(u)
      BY SessionsAssumption DEF SessionsInv, Shapes
  <2>2. pw' = pw \/ (pw' = [pw EXCEPT ![u] = @ + 1] /\ pw[u] + 1 \in 0..MaxPasswords)
      BY <2>1 DEF ResetOK, ResetInFlight
  <2>3. /\ reset' = reset \/ reset' = [reset EXCEPT ![u] = "idle"]
        /\ rotated' = rotated \/ rotated' = [rotated EXCEPT ![u] = TRUE]
        /\ UNCHANGED <<overlap, now, redis, tok, black, mark, revoked>>
      OBVIOUS
  <2>4. pw' \in [Users -> 0..MaxPasswords]
      BY <2>2 DEF SessionsInv, Shapes
  <2>5. reset' \in [Users -> {"idle", "revoked"}] /\ rotated' \in [Users -> BOOLEAN]
      BY <2>3 DEF SessionsInv, Shapes
  <2> QED BY <2>3, <2>4, <2>5 DEF SessionsInv, Shapes
<1>2. ASSUME NEW v \in Users PROVE (ResetOK(v) /\ MarkOK(v))'
  <2>1. MarkOK(v)'
      BY <1>2 DEF SessionsInv, MarkOK
  <2>2. pw[v] \in Nat /\ MaxPasswords \in Nat /\ ResetOK(v)
      BY <1>2, SessionsAssumption DEF SessionsInv, Shapes
  <2>3. CASE v # u
      BY <2>1, <2>2, <2>3, <1>2 DEF ResetOK, SessionsInv, Shapes
  <2>4. CASE v = u
      BY <2>1, <2>2, <2>4, <1>2 DEF ResetOK, ResetInFlight, SessionsInv, Shapes
  <2> QED BY <2>1, <2>3, <2>4
<1>3. ASSUME NEW x \in SessionIds PROVE TokenOK(x)' /\ (~overlap' => AloneOK(x)')
  <2>1. /\ tok[x].user \in Users /\ tok[x].pw \in Nat /\ TokenOK(x) /\ (~overlap => AloneOK(x))
        /\ pw[tok[x].user] \in Nat /\ pw'[tok[x].user] \in Nat
        /\ pw'[tok[x].user] >= pw[tok[x].user]
        /\ tok' = tok /\ now' = now /\ overlap' = overlap /\ revoked' = revoked /\ black' = black
      BY <1>3 DEF SessionsInv, Shapes, Token
  <2>2. TokenOK(x)'
      BY <2>1 DEF TokenOK, exp, iat
  <2>3. CASE tok[x].user # u
    <3>1. /\ pw'[tok[x].user] = pw[tok[x].user] /\ reset'[tok[x].user] = reset[tok[x].user]
          /\ rotated'[tok[x].user] = rotated[tok[x].user]
        BY <2>1, <2>3 DEF SessionsInv, Shapes
    <3> QED BY <2>1, <2>2, <3>1 DEF AloneOK
  <2>4. CASE tok[x].user = u
    <3>1. CASE ResetCommit(u)
        BY <2>1, <2>2, <2>4, <3>1 DEF AloneOK, SessionsInv, Shapes
    <3>2. CASE ResetFails(u)
        BY <2>1, <2>2, <2>4, <3>2 DEF AloneOK, SessionsInv, Shapes
    <3>3. CASE rotate_password(u)
      <4>1. ~overlap => tok[x].st # "loaded"
          BY <2>4, <3>3 DEF LoginInFlight
      <4> QED BY <2>1, <2>2, <2>4, <3>3, <4>1 DEF AloneOK, SessionsInv, Shapes
    <3> QED BY <3>1, <3>2, <3>3
  <2> QED BY <2>3, <2>4
<1> QED BY <1>1, <1>2, <1>3 DEF SessionsInv

\* A logout puts its session on the blacklist for the rest of its life.
LEMMA LogoutStep ==
    ASSUME SessionsInv, NEW s \in SessionIds, logout(s) PROVE SessionsInv'
<1> USE DEF logout
<1>1. Shapes'
  <2>1. revoke_session(s) \in Int
      BY EntryLasts DEF SessionsInv
  <2> QED BY <2>1, ZenonT(60) DEF SessionsInv, Shapes, Token
<1>2. ASSUME NEW u \in Users PROVE (ResetOK(u) /\ MarkOK(u))'
    BY <1>2 DEF SessionsInv, ResetOK, MarkOK
<1>3. ASSUME NEW x \in SessionIds PROVE TokenOK(x)' /\ (~overlap' => AloneOK(x)')
  <2>1. /\ tok'[x].user = tok[x].user /\ tok'[x].st = tok[x].st /\ tok'[x].pw = tok[x].pw
        /\ tok'[x].at = tok[x].at /\ (x # s => tok'[x].out = tok[x].out)
        /\ x # s => black'[x] = black[x]
        /\ x = s => black'[x] = revoke_session(x) /\ tok[x].st = "issued"
      BY <1>3 DEF SessionsInv, Shapes, Token, Accepted
  <2>2. exp(x)' = exp(x)
      BY <2>1 DEF exp, iat
  <2>3. TokenOK(x)'
      BY <1>3, <2>1, <2>2, EntryLasts DEF SessionsInv, TokenOK
  <2> QED BY <1>3, <2>1, <2>3 DEF SessionsInv, AloneOK
<1> QED BY <1>1, <1>2, <1>3 DEF SessionsInv

\* Time passes: no entry ends before the token it is for.
LEMMA TickStep == ASSUME SessionsInv, SessionTick PROVE SessionsInv'
<1>1. Shapes'
    BY SessionsAssumption DEF SessionsInv, Shapes, SessionTick
<1>2. ASSUME NEW x \in SessionIds PROVE TokenOK(x)'
  <2>1. tok[x].at \in Nat /\ now \in Nat /\ TokenOK(x)
      BY <1>2 DEF SessionsInv, Shapes, Token
  <2> QED BY <2>1 DEF TokenOK, SessionTick, exp, iat
<1> QED BY <1>1, <1>2 DEF SessionsInv, SessionTick, ResetOK, MarkOK, AloneOK

\* A restart forgets what was in flight and, in memory, every revocation.
LEMMA RestartStep == ASSUME SessionsInv, Restart PROVE SessionsInv'
<1> DEFINE kept == [s \in SessionIds |-> IF tok[s].st = "issued" THEN tok[s] ELSE NoToken]
<1>1. kept \in [SessionIds -> Token]
    BY NoTokenShape DEF SessionsInv, Shapes
<1>2. ASSUME NEW s \in SessionIds
      PROVE  /\ kept[s].at <= now /\ kept[s].pw <= pw[kept[s].user] /\ kept[s].user \in Users
             /\ kept[s].st # "loaded" /\ pw[kept[s].user] \in 0..MaxPasswords
             /\ kept[s].st = "issued" => kept[s] = tok[s]
             /\ kept[s].out => kept[s].st = "issued"
  <2>0. /\ tok[s].st = "issued" => kept[s] = tok[s]
        /\ tok[s].st # "issued" => kept[s] = NoToken
      BY <1>2
  <2> HIDE DEF kept
  <2>1. kept[s].user \in Users /\ pw[kept[s].user] \in 0..MaxPasswords /\ now \in Nat
    <3>1. kept[s] \in Token
        BY <1>1, <1>2
    <3> QED BY <3>1 DEF SessionsInv, Shapes, Token
  <2>2. CASE tok[s].st = "issued"
      BY <1>2, <2>0, <2>1, <2>2 DEF SessionsInv, TokenOK
  <2>3. CASE tok[s].st # "issued"
      BY <1>2, <2>0, <2>1, <2>3, NoTokenShape
  <2> QED BY <2>2, <2>3
<1>3. CASE redis
  <2>1. /\ tok' = kept /\ UNCHANGED <<black, mark, revoked, rotated, overlap, now, redis, pw>>
        /\ reset' = [u \in Users |-> "idle"]
      BY <1>3 DEF Restart
  <2> HIDE DEF kept
  <2>2. Shapes'
      BY <1>1, <2>1 DEF SessionsInv, Shapes
  <2>3. ASSUME NEW u \in Users PROVE (ResetOK(u) /\ MarkOK(u))'
      BY <2>1, <2>3 DEF SessionsInv, ResetOK, MarkOK
  <2>4. ASSUME NEW s \in SessionIds PROVE TokenOK(s)' /\ (~overlap' => AloneOK(s)')
    <3>1. tok'[s] = kept[s] /\ TokenOK(s) /\ (~overlap => AloneOK(s)) /\ reset'[kept[s].user] = "idle"
        BY <1>2, <2>1, <2>4 DEF SessionsInv
    <3>2. TokenOK(s)'
        BY <1>2, <2>1, <2>4, <3>1 DEF TokenOK, exp, iat
    <3>3. ~overlap' => AloneOK(s)'
        BY <1>2, <2>1, <2>4, <3>1 DEF AloneOK
    <3> QED BY <3>2, <3>3
  <2> QED BY <2>2, <2>3, <2>4 DEF SessionsInv
<1>4. CASE ~redis
  <2>1. /\ tok' = [s \in SessionIds |-> [kept[s] EXCEPT !.out = FALSE, !.pw = pw[kept[s].user]]]
        /\ black' = [s \in SessionIds |-> Never]
        /\ mark' = [u \in Users |-> [at |-> Never, until |-> Never]]
        /\ revoked' = [u \in Users |-> Never] /\ rotated' = [u \in Users |-> FALSE]
        /\ reset' = [u \in Users |-> "idle"] /\ UNCHANGED <<overlap, now, redis, pw>>
      BY <1>4 DEF Restart
  <2> HIDE DEF kept
  <2>2. ASSUME NEW s \in SessionIds
        PROVE  /\ tok'[s] \in Token /\ ~tok'[s].out /\ tok'[s].at = kept[s].at
               /\ tok'[s].user = kept[s].user /\ tok'[s].pw = pw[kept[s].user]
               /\ tok'[s].st = kept[s].st
    <3>1. kept[s] \in Token
        BY <1>1, <2>2
    <3> QED BY <1>2, <2>1, <2>2, <3>1 DEF Token
  <2>3. Shapes'
    <3>1. tok' \in [SessionIds -> Token]
        BY <2>1, <2>2
    <3>2. Never \in Int
        BY DEF Never
    <3> QED BY <2>1, <3>1, <3>2 DEF SessionsInv, Shapes
  <2>4. ASSUME NEW u \in Users PROVE (ResetOK(u) /\ MarkOK(u))'
      BY <2>1, <2>4 DEF ResetOK, MarkOK
  <2>5. ASSUME NEW s \in SessionIds PROVE TokenOK(s)' /\ (~overlap' => AloneOK(s)')
    <3>1. /\ tok'[s].at <= now' /\ ~tok'[s].out /\ tok'[s].st # "loaded"
          /\ tok'[s].pw = pw'[tok'[s].user] /\ tok'[s].pw \in Int
          /\ reset'[tok'[s].user] = "idle"
      <4>1. ~tok'[s].out
          BY <2>2, <2>5
      <4>2. tok'[s].at <= now'
          BY <1>2, <2>1, <2>2, <2>5
      <4>3. tok'[s].st # "loaded"
          BY <1>2, <2>1, <2>2, <2>5
      <4>4. tok'[s].pw = pw'[tok'[s].user] /\ tok'[s].pw \in Int
        <5>1. tok'[s].pw = pw[tok'[s].user] /\ tok'[s].pw \in Int
            BY <2>2, <2>5 DEF Token
        <5> QED BY <2>1, <5>1
      <4>5. reset'[tok'[s].user] = "idle"
          BY <1>2, <2>1, <2>2, <2>5
      <4> QED BY <4>1, <4>2, <4>3, <4>4, <4>5
    <3>2. TokenOK(s)'
        BY <3>1 DEF TokenOK
    <3>3. AloneOK(s)'
        BY <3>1 DEF AloneOK
    <3> QED BY <3>2, <3>3
  <2> QED BY <2>3, <2>4, <2>5 DEF SessionsInv
<1> QED BY <1>3, <1>4

\* Every step keeps the invariant.
LEMMA SessionsInvStep == SessionsInv /\ [SNext]_svars => SessionsInv'
<1> SUFFICES ASSUME SessionsInv, [SNext]_svars PROVE SessionsInv'
    OBVIOUS
<1>1. ASSUME NEW s \in SessionIds, NEW u \in Users, LoginLoad(s, u) PROVE SessionsInv'
  <2> DEFINE t == [NoToken EXCEPT !.st = "loaded", !.user = u, !.pw = pw[u]]
  <2>0. NoToken \in Token /\ NoToken.at = 0 /\ pw[u] \in 0..MaxPasswords /\ now \in Nat
      BY <1>1, NoTokenShape DEF SessionsInv, Shapes
  <2>1. /\ t \in Token /\ t.at <= now /\ t.pw = pw[u] /\ t.user = u /\ ~t.out /\ t.st = "loaded"
        /\ pw[u] <= pw[u]
    <3>1. t \in Token
        BY <2>0 DEF Token
    <3>2. t.out = NoToken.out
        BY <2>0 DEF Token
    <3> QED BY <2>0, <3>1, <3>2, NoTokenShape DEF Token
  <2>2. ~overlap => reset[u] = "idle"
      BY <1>1 DEF LoginLoad, ResetInFlight
  <2>3. tok' = [tok EXCEPT ![s] = t] /\ UNCHANGED <<overlap, now, redis, pw, reset, black, mark, revoked, rotated>>
      BY <1>1 DEF LoginLoad
  <2> HIDE DEF t
  <2> QED BY <1>1, <2>1, <2>2, <2>3, LoginSteps
<1>2. ASSUME NEW s \in SessionIds, LoginIssue(s) PROVE SessionsInv'
  <2> DEFINE t == [tok[s] EXCEPT !.st = "issued", !.at = now]
  <2>1. /\ tok[s] \in Token /\ TokenOK(s) /\ (~overlap => AloneOK(s)) /\ now \in Nat
        /\ tok[s].st = "loaded"
      BY <1>2 DEF SessionsInv, Shapes, LoginIssue
  <2>2. /\ t \in Token /\ t.at <= now /\ t.pw = tok[s].pw /\ t.user = tok[s].user /\ t.st = "issued"
        /\ t.out = tok[s].out
    <3>1. t \in Token
        BY <2>1 DEF Token
    <3>2. t.out = tok[s].out
        BY <2>1 DEF Token
    <3> QED BY <2>1, <3>1, <3>2 DEF Token
  <2>3. tok' = [tok EXCEPT ![s] = t] /\ UNCHANGED <<overlap, now, redis, pw, reset, black, mark, revoked, rotated>>
      BY <1>2 DEF LoginIssue
  <2>4. ~t.out /\ t.pw <= pw[t.user] /\ (~overlap => t.pw = pw[t.user] /\ reset[t.user] = "idle")
      BY <2>1, <2>2 DEF TokenOK, AloneOK
  <2> HIDE DEF t
  <2> QED BY <1>2, <2>2, <2>3, <2>4, LoginSteps
<1>3. ASSUME NEW s \in SessionIds, LoginFails(s) PROVE SessionsInv'
  <2>1. tok' = [tok EXCEPT ![s] = NoToken] /\ UNCHANGED <<overlap, now, redis, pw, reset, black, mark, revoked, rotated>>
      BY <1>3 DEF LoginFails
  <2>2. NoToken.at <= now /\ NoToken.pw <= pw[NoToken.user]
      BY NoTokenShape DEF SessionsInv, Shapes, Token
  <2> QED BY <1>3, <2>1, <2>2, NoTokenShape, LoginSteps
<1>4. ASSUME NEW s \in SessionIds, logout(s) PROVE SessionsInv'
    BY <1>4, LogoutStep
<1>5. ASSUME NEW u \in Users, revoke_user_sessions(u) PROVE SessionsInv'
    BY <1>5, RevokeSteps DEF revoke_user_sessions
<1>6. ASSUME NEW u \in Users, ResetRevoke(u) PROVE SessionsInv'
    BY <1>6, RevokeSteps DEF ResetRevoke
<1>7. ASSUME NEW u \in Users, ResetCommit(u) \/ ResetFails(u) \/ rotate_password(u)
      PROVE  SessionsInv'
    BY <1>7, PasswordSteps
<1>8. CASE Restart
    BY <1>8, RestartStep
<1>9. CASE SessionTick
    BY <1>9, TickStep
<1>10. CASE UNCHANGED svars
    BY <1>10 DEF svars, SessionsInv, Shapes, ResetOK, MarkOK, TokenOK, AloneOK, exp, iat
<1> QED BY <1>1, <1>2, <1>3, <1>4, <1>5, <1>6, <1>7, <1>8, <1>9, <1>10 DEF SNext

\* The invariant holds in every state.
LEMMA SessionsInvHolds == SSpec => []SessionsInv
BY SessionsInit, SessionsInvStep, PTL DEF SSpec

-----------------------------------------------------------------------------
(* What it gives.                                                          *)

\* A session issued up to the last revocation is covered by the watermark for
\* as long as its token lives.
LEMMA RevokedIsDead ==
    ASSUME SessionsInv, NEW s \in SessionIds, tok[s].at <= revoked[tok[s].user]
    PROVE  ~Accepted(s)
<1> DEFINE u == tok[s].user
<1>1. /\ u \in Users /\ tok[s].at \in Nat /\ now \in Nat /\ revoked[u] \in Int
      /\ TokenLife * TPS \in Int /\ MarkOK(u)
    BY SessionsAssumption DEF SessionsInv, Shapes, Token
<1>2. mark[u].at = revoked[u] /\ mark[u].until = revoked[u] + TokenLife * TPS
    BY <1>1 DEF MarkOK, Never
<1>3. /\ iat(s) * TPS <= tok[s].at /\ exp(s) * TPS = iat(s) * TPS + TokenLife * TPS
      /\ iat(s) * TPS \in Int
    BY Seconds, SessionsAssumption DEF SessionsInv
<1>4. iat(s) * TPS <= mark[u].at
    BY <1>1, <1>2, <1>3
<1>5. now < exp(s) * TPS => mark[u].until > now
    BY <1>1, <1>2, <1>3
<1> QED BY <1>4, <1>5 DEF Accepted, is_revoked

\* Tokens, passwords and clocks keep their types, and no token is from the
\* future (auth/local.py, auth/blacklist.py).
THEOREM SessionsTypes == SSpec => []SessionsTypeOK
<1>1. SessionsInv => SessionsTypeOK
  <2> SUFFICES ASSUME SessionsInv PROVE SessionsTypeOK
      OBVIOUS
  <2>1. ASSUME NEW s \in SessionIds
        PROVE  /\ tok[s].st \in {"none", "loaded", "issued"} /\ tok[s].user \in Users
               /\ tok[s].at \in 0..now /\ tok[s].pw <= pw[tok[s].user]
    <3>1. tok[s] \in Token /\ now \in Nat /\ TokenOK(s)
        BY <2>1 DEF SessionsInv, Shapes
    <3> QED BY <3>1 DEF Token, TokenOK
  <2> QED BY <2>1 DEF SessionsInv, Shapes, SessionsTypeOK
<1> QED BY <1>1, SessionsInvHolds, PTL

\* Force-revoke and reset end every session issued up to them to the end of
\* its life, and logout ends its session but for the last fraction of a second
\* (blacklist.revoke_user, revoke_session, is_revoked; the auth middleware).
THEOREM EndedSessionsStayDead == SSpec => []EndedStaysDead
<1>1. SessionsInv => EndedStaysDead
  <2> SUFFICES ASSUME SessionsInv, NEW s \in SessionIds, tok[s].out, Accepted(s)
               PROVE  exp(s) * TPS - now < TPS
      BY RevokedIsDead DEF EndedStaysDead
  <2>1. black[s] + TPS > exp(s) * TPS /\ black[s] \in Int /\ now \in Int /\ TPS \in Int
      BY SessionsAssumption DEF SessionsInv, Shapes, TokenOK
  <2>2. ~(black[s] > now) /\ exp(s) * TPS \in Int
      BY <2>1, Seconds DEF Accepted, is_revoked, SessionsInv
  <2> QED BY <2>1, <2>2
<1> QED BY <1>1, SessionsInvHolds, PTL

\* When no login overlaps a reset, no session opened with an old password is
\* accepted after it, rotations on the host aside (reset_member_password,
\* api/org_management.py; reset_user_password, api/superuser.py).
THEOREM OldPasswordIsDead == SSpec => []OldPasswordOpensNothing
<1>1. SessionsInv => OldPasswordOpensNothing
  <2> SUFFICES ASSUME SessionsInv, ~overlap, NEW s \in SessionIds, Accepted(s),
                      ~rotated[tok[s].user]
               PROVE  tok[s].pw = pw[tok[s].user]
      BY DEF OldPasswordOpensNothing
  <2>1. AloneOK(s) /\ tok[s].st = "issued"
      BY DEF SessionsInv, Accepted
  <2>2. ~(tok[s].at <= revoked[tok[s].user])
      BY RevokedIsDead
  <2> QED BY <2>1, <2>2 DEF AloneOK
<1> QED BY <1>1, SessionsInvHolds, PTL
=============================================================================
