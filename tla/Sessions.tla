------------------------------ MODULE Sessions ------------------------------
(***************************************************************************)
(* Sign-in sessions: POST /auth/login, /refresh, /logout and               *)
(* /change-password, the refresh-token families they keep in Redis and the *)
(* throttle that counts their failures.  A request runs one Redis or       *)
(* database round trip per step, so requests interleave between any two;   *)
(* a MULTI/EXEC pipeline is one step.  A refresh token is the pair of its  *)
(* family and its number in the family.  Clients keep every token they     *)
(* were given: a retry presents one again.                                 *)
(***************************************************************************)
EXTENDS Naturals, FiniteSets

CONSTANTS
    Users,          \* accounts
    Families,       \* fresh family ids, one per login
    Requests,       \* requests in flight at the same time
    None,           \* no user
    MaxAttempts,    \* LOGIN_THROTTLE_MAX_ATTEMPTS, 0 disables the throttle
    Window,         \* LOGIN_THROTTLE_WINDOW_SECONDS, in ticks
    RefreshTtl,     \* REFRESH_TOKEN_EXPIRE_DAYS, in ticks
    MaxTime,        \* bound of the clock
    Budgets         \* bounds: how often each kind of call happens

Kinds == {"login", "refresh", "logout", "change", "admin", "crash"}

ASSUME NoneAssumption == None \notin Users
\* A process serves a bounded number of requests at a time.
ASSUME RequestsAssumption == IsFiniteSet(Requests) /\ Requests # {}
ASSUME TimeAssumption ==
    /\ MaxAttempts \in Nat /\ MaxTime \in Nat
    /\ Window \in Nat \ {0} /\ RefreshTtl \in Nat \ {0}
ASSUME BudgetAssumption == Budgets \subseteq [Kinds -> Nat]

VARIABLES
    users,      \* the rows of the users table: state, and password as a version
    keys,       \* Redis rt:fam:<family>:<jti>, with its expiry
    meta,       \* Redis rt:fam:<family>:meta, its user or None, with its expiry
    throttle,   \* Redis lt:* counters
    tokens,     \* every refresh token a client was given
    reqs,       \* the requests in flight
    clock,
    budget,     \* what is left of the bounds
    born,       \* history: the user of a family, his password version when it was minted
    consumed,   \* history: tokens that a refresh took
    revoked,    \* history: families whose revocation has begun
    late,       \* history: tokens issued in a family that was already wiped
    ended       \* history: the last password version whose change has revoked

vars == <<users, keys, meta, throttle, tokens, reqs, clock, budget,
          born, consumed, revoked, late, ended>>
store == <<keys, meta, tokens, born, consumed, revoked, late>>

Ip == <<"ip", None>>
Email(u) == <<"email", u>>
ChPw(u) == <<"chpw", u>>
Buckets == {Ip} \cup ({"email", "chpw"} \X Users)

NoHits == [n |-> 0, exp |-> 0]
NoMeta == [user |-> None, exp |-> 0]
Idle == [pc |-> "idle", user |-> None, fam |-> None, jti |-> 0, pwd |-> 0,
         todo |-> {}, fams |-> {}, next |-> "idle"]

Init ==
    /\ users = [u \in Users |-> [state |-> "active", pwd |-> 1]]
    /\ keys = {} /\ tokens = {} /\ consumed = {} /\ revoked = {}
    /\ meta = [f \in Families |-> NoMeta]
    /\ throttle = [b \in Buckets |-> NoHits]
    /\ reqs = [r \in Requests |-> Idle]
    /\ clock = 0
    /\ budget \in Budgets
    /\ born = [f \in Families |-> [user |-> None, at |-> 0]]
    /\ late = [f \in Families |-> 0]
    /\ ended = [u \in Users |-> 0]

-----------------------------------------------------------------------------
(* The throttle. *)

\* _enabled and the threshold: a bucket that refuses.
Locked(b) == MaxAttempts > 0 /\ throttle[b].n >= MaxAttempts

\* check_lockout: either bucket refuses; check_ip_lockout: the address bucket.
CheckLockout(b) == Locked(b) \/ Locked(Ip)
CheckIpLockout == Locked(Ip)

\* INCR and EXPIRE of one bucket; the address bucket re-arms its window, the
\* others keep the window of their first failure (EXPIRE NX).
Hit(b) ==
    [n |-> throttle[b].n + 1,
     exp |-> IF b = Ip \/ throttle[b].n = 0 THEN clock + Window
             ELSE throttle[b].exp]

Count(bs) ==
    throttle' = [b \in Buckets |->
                   IF b \in bs /\ MaxAttempts > 0 THEN Hit(b) ELSE throttle[b]]
Drop(bs) ==
    throttle' = [b \in Buckets |-> IF b \in bs THEN NoHits ELSE throttle[b]]

RecordFailure(b) == Count({b, Ip})
RecordIpFailure == Count({Ip})
Reset(b) == Drop({b, Ip})
ResetIp == Drop({Ip})

-----------------------------------------------------------------------------
(* Requests. *)

Spend(kind) ==
    /\ budget[kind] > 0
    /\ budget' = [budget EXCEPT ![kind] = @ - 1]

At(r, pc) == reqs[r].pc = pc
Become(r, req) == reqs' = [reqs EXCEPT ![r] = req]
Goto(r, pc) == reqs' = [reqs EXCEPT ![r].pc = pc]
Finish(r) == Become(r, Idle)

\* decode_token: the signature and the expiry of a refresh token.
Decodes(t) == t.exp > clock

\* family_user_id: the owner of a family, None when it is unknown.
FamilyUser(f) == meta[f].user

\* get_current_user, get_user: an access token is honoured while its account
\* exists and is active.
Active(u) == users[u].state = "active"

\* authenticate_user and the test of is_active.
Authenticates(u, p) == Active(u) /\ users[u].pwd = p

\* Everything Redis holds of a family: its tokens, and number 0 for its meta.
Items(f) ==
    {[fam |-> f, jti |-> k.jti] : k \in {k \in keys : k.fam = f}}
        \cup (IF meta[f] = NoMeta THEN {} ELSE {[fam |-> f, jti |-> 0]})

\* revoke_family begins: SCAN returns at least what is there now.
Revoking(r, f, next) ==
    [reqs[r] EXCEPT !.pc = "revoke", !.fam = f, !.todo = Items(f), !.next = next]

-----------------------------------------------------------------------------
(* POST /auth/login. *)

(* Mutant: the throttle is not asked.                                        *)
LoginUnchecked(r, u, p) ==
    /\ At(r, "idle") /\ Spend("login")
    /\ Become(r, [Idle EXCEPT !.pc = "auth", !.user = u, !.pwd = p])
    /\ UNCHANGED <<users, store, throttle, clock, ended>>

\* The throttle is read first; a locked bucket answers 429 and changes nothing.
LoginCheck(r, u, p) ==
    /\ At(r, "idle") /\ Spend("login")
    /\ ~CheckLockout(Email(u))
    /\ Become(r, [Idle EXCEPT !.pc = "auth", !.user = u, !.pwd = p])
    /\ UNCHANGED <<users, store, throttle, clock, ended>>

\* No such account, wrong password or inactive account: count and answer 401.
LoginFails(r) ==
    LET u == reqs[r].user IN
    /\ At(r, "auth")
    /\ ~Authenticates(u, reqs[r].pwd)
    /\ RecordFailure(Email(u))
    /\ Finish(r)
    /\ UNCHANGED <<users, store, clock, budget, ended>>

\* The password matches: both buckets are dropped.
LoginMatches(r) ==
    LET u == reqs[r].user IN
    /\ At(r, "auth")
    /\ Authenticates(u, reqs[r].pwd)
    /\ Reset(Email(u))
    /\ Goto(r, "stamp")
    /\ UNCHANGED <<users, store, clock, budget, ended>>

\* last_login_at is committed; the row of a deleted user is gone and the
\* commit fails.
LoginStamp(r) ==
    /\ At(r, "stamp")
    /\ IF users[reqs[r].user].state = "deleted" THEN Finish(r) ELSE Goto(r, "mint")
    /\ UNCHANGED <<users, store, throttle, clock, budget, ended>>

\* _mint_refresh: a new family with its first token, in one pipeline.
LoginMint(r) ==
    LET u == reqs[r].user
        exp == clock + RefreshTtl IN
    /\ At(r, "mint")
    /\ \E f \in Families :
        /\ born[f].user = None
        /\ keys' = keys \cup {[fam |-> f, jti |-> 1, exp |-> exp]}
        /\ meta' = [meta EXCEPT ![f] = [user |-> u, exp |-> exp]]
        /\ tokens' = tokens \cup
             {[user |-> u, fam |-> f, jti |-> 1, parent |-> 0, exp |-> exp]}
        /\ born' = [born EXCEPT ![f] = [user |-> u, at |-> users[u].pwd]]
    /\ Finish(r)
    /\ UNCHANGED <<users, throttle, clock, budget, consumed, revoked, late, ended>>

-----------------------------------------------------------------------------
(* POST /auth/refresh. *)

\* The address bucket is read; then the token's signature and expiry are
\* verified, which a token past its expiry fails.
RefreshCheck(r, t) ==
    /\ At(r, "idle") /\ Spend("refresh")
    /\ ~CheckIpLockout
    /\ Become(r, [Idle EXCEPT !.pc = IF Decodes(t) THEN "user" ELSE "fail",
                              !.user = t.user, !.fam = t.fam, !.jti = t.jti])
    /\ UNCHANGED <<users, store, throttle, clock, ended>>

\* A deleted or inactive user: his family is wiped.
RefreshRefused(r) ==
    /\ At(r, "user") /\ ~Active(reqs[r].user)
    /\ Become(r, Revoking(r, reqs[r].fam, "fail"))
    /\ revoked' = revoked \cup {reqs[r].fam}
    /\ UNCHANGED <<users, keys, meta, throttle, tokens, clock, budget,
                   born, consumed, late, ended>>

(* Mutant: the answer of DEL is not looked at.                               *)
RotateTakeAny(r) ==
    LET mine == {k \in keys : k.fam = reqs[r].fam /\ k.jti = reqs[r].jti} IN
    /\ At(r, "user") /\ Active(reqs[r].user)
    /\ keys' = keys \ mine
    /\ Goto(r, "owner")
    /\ consumed' = consumed \cup {[fam |-> reqs[r].fam, jti |-> reqs[r].jti]}
    /\ UNCHANGED <<users, meta, throttle, tokens, clock, budget,
                   born, revoked, late, ended>>

\* rotate deletes the presented token; DEL says whether it was there.
RotateTake(r) ==
    LET mine == {k \in keys : k.fam = reqs[r].fam /\ k.jti = reqs[r].jti} IN
    /\ At(r, "user") /\ Active(reqs[r].user)
    /\ keys' = keys \ mine
    /\ IF mine = {}
       THEN Goto(r, "replay") /\ UNCHANGED consumed
       ELSE /\ Goto(r, "owner")
            /\ consumed' = consumed \cup {[fam |-> reqs[r].fam, jti |-> reqs[r].jti]}
    /\ UNCHANGED <<users, meta, throttle, tokens, clock, budget,
                   born, revoked, late, ended>>

\* The token was there: its family must be alive and the user's.
RotateOwner(r) ==
    /\ At(r, "owner")
    /\ Goto(r, IF FamilyUser(reqs[r].fam) = reqs[r].user THEN "set" ELSE "fail")
    /\ UNCHANGED <<users, store, throttle, clock, budget, ended>>

\* The next token is stored and the family's life renewed, in one pipeline;
\* EXPIRE of a meta that is gone does nothing.
RotateSet(r) ==
    LET f == reqs[r].fam
        jti == Cardinality({t \in tokens : t.fam = f}) + 1
        exp == clock + RefreshTtl IN
    /\ At(r, "set")
    /\ keys' = keys \cup {[fam |-> f, jti |-> jti, exp |-> exp]}
    /\ meta' = [meta EXCEPT ![f].exp = IF meta[f] = NoMeta THEN 0 ELSE exp]
    /\ tokens' = tokens \cup
         {[user |-> reqs[r].user, fam |-> f, jti |-> jti,
           parent |-> reqs[r].jti, exp |-> exp]}
    /\ late' = [late EXCEPT ![f] = IF meta[f] = NoMeta THEN @ + 1 ELSE @]
    /\ Goto(r, "ok")
    /\ UNCHANGED <<users, throttle, clock, budget, born, consumed, revoked, ended>>

\* reset_ip after a rotation.
RefreshDone(r) ==
    /\ At(r, "ok")
    /\ ResetIp
    /\ Finish(r)
    /\ UNCHANGED <<users, store, clock, budget, ended>>

\* The token was not there: a living family means reuse, and is wiped.
RotateReplay(r) ==
    /\ At(r, "replay")
    /\ IF meta[reqs[r].fam] = NoMeta
       THEN Goto(r, "fail") /\ UNCHANGED revoked
       ELSE /\ Become(r, Revoking(r, reqs[r].fam, "fail"))
            /\ revoked' = revoked \cup {reqs[r].fam}
    /\ UNCHANGED <<users, keys, meta, throttle, tokens, clock, budget,
                   born, consumed, late, ended>>

\* Every refusal of the token feeds the address bucket.
RefreshFails(r) ==
    /\ At(r, "fail")
    /\ RecordIpFailure
    /\ Finish(r)
    /\ UNCHANGED <<users, store, clock, budget, ended>>

\* One DEL of revoke_family.  SCAN may also return what was stored meanwhile.
RevokeStep(r) ==
    /\ At(r, "revoke")
    /\ \E i \in reqs[r].todo \cup Items(reqs[r].fam) :
        /\ keys' = {k \in keys : k.fam # i.fam \/ k.jti # i.jti}
        /\ meta' = [meta EXCEPT ![i.fam] = IF i.jti = 0 THEN NoMeta ELSE @]
        /\ reqs' = [reqs EXCEPT ![r].todo = @ \ {i}]
    /\ UNCHANGED <<users, throttle, tokens, clock, budget,
                   born, consumed, revoked, late, ended>>

RevokeEnds(r) ==
    /\ At(r, "revoke") /\ reqs[r].todo = {}
    /\ IF reqs[r].next = "idle" THEN Finish(r) ELSE Goto(r, reqs[r].next)
    /\ UNCHANGED <<users, store, throttle, clock, budget, ended>>

\* POST /auth/logout: the family of the cookie, when it is the user's.
Logout(r, t) ==
    /\ At(r, "idle") /\ Spend("logout")
    /\ Decodes(t) /\ FamilyUser(t.fam) = t.user
    /\ Become(r, [Revoking(r, t.fam, "idle") EXCEPT !.user = t.user])
    /\ revoked' = revoked \cup {t.fam}
    /\ UNCHANGED <<users, keys, meta, throttle, tokens, clock,
                   born, consumed, late, ended>>

-----------------------------------------------------------------------------
(* POST /auth/change-password. *)

ChangeCheck(r, u) ==
    /\ At(r, "idle") /\ Spend("change")
    /\ Active(u)
    /\ ~CheckLockout(ChPw(u))
    /\ Become(r, [Idle EXCEPT !.pc = "verify", !.user = u])
    /\ UNCHANGED <<users, store, throttle, clock, ended>>

\* The current password is wrong.
ChangeFails(r) ==
    /\ At(r, "verify")
    /\ RecordFailure(ChPw(reqs[r].user))
    /\ Finish(r)
    /\ UNCHANGED <<users, store, clock, budget, ended>>

\* It is right; the new one may still be refused (the same, or too weak).
ChangeVerified(r) ==
    /\ At(r, "verify")
    /\ Reset(ChPw(reqs[r].user))
    /\ Goto(r, "commit") \/ Finish(r)
    /\ UNCHANGED <<users, store, clock, budget, ended>>

\* The commit of the new hash; the row of a deleted user is gone.
ChangeCommit(r) ==
    LET u == reqs[r].user IN
    /\ At(r, "commit")
    /\ IF users[u].state = "deleted"
       THEN Finish(r) /\ UNCHANGED users
       ELSE /\ users' = [users EXCEPT ![u].pwd = @ + 1]
            /\ reqs' = [reqs EXCEPT ![r].pc = "scan", ![r].pwd = users[u].pwd + 1]
    /\ UNCHANGED <<store, throttle, clock, budget, ended>>

(* Mutant: the pattern of the scan matches no family.                        *)
ChangeScanNothing(r) ==
    /\ At(r, "scan")
    /\ reqs' = [reqs EXCEPT ![r].pc = "visit", ![r].fams = {}]
    /\ UNCHANGED <<users, store, throttle, clock, budget, ended>>

\* _revoke_all_refresh_families: SCAN returns the families that are alive all
\* along, at least once.
ChangeScan(r) ==
    /\ At(r, "scan")
    /\ reqs' = [reqs EXCEPT ![r].pc = "visit",
                            ![r].fams = {f \in Families : meta[f] # NoMeta}]
    /\ UNCHANGED <<users, store, throttle, clock, budget, ended>>

(* Mutant: every family is revoked, whoever owns it.                         *)
ChangeVisitAny(r) ==
    /\ At(r, "visit")
    /\ \E f \in reqs[r].fams :
        /\ Become(r, [Revoking(r, f, "visit") EXCEPT !.fams = @ \ {f}])
        /\ revoked' = revoked \cup {f}
    /\ UNCHANGED <<users, keys, meta, throttle, tokens, clock, budget,
                   born, consumed, late, ended>>

\* The next family: read its owner, revoke it when it is the user's.  SCAN may
\* also return a family again, or one that was minted meanwhile.
ChangeVisit(r) ==
    /\ At(r, "visit")
    /\ \E f \in reqs[r].fams \cup {f \in Families : meta[f] # NoMeta} :
        IF FamilyUser(f) = reqs[r].user
        THEN /\ Become(r, [Revoking(r, f, "visit") EXCEPT !.fams = @ \ {f}])
             /\ revoked' = revoked \cup {f}
        ELSE /\ Become(r, [reqs[r] EXCEPT !.fams = @ \ {f}])
             /\ UNCHANGED revoked
    /\ UNCHANGED <<users, keys, meta, throttle, tokens, clock, budget,
                   born, consumed, late, ended>>

ChangeDone(r) ==
    LET u == reqs[r].user IN
    /\ At(r, "visit") /\ reqs[r].fams = {}
    /\ ended' = [ended EXCEPT ![u] = IF @ > reqs[r].pwd THEN @ ELSE reqs[r].pwd]
    /\ Finish(r)
    /\ UNCHANGED <<users, store, throttle, clock, budget>>

-----------------------------------------------------------------------------
(* The rest of the world. *)

\* PUT and DELETE /users/{id} by an administrator: the account is switched,
\* deleted, or its password reset, which revokes no family.
AdminSet(u, state) ==
    /\ Spend("admin")
    /\ users[u].state # "deleted"
    /\ users' = [users EXCEPT ![u].state = state]
    /\ UNCHANGED <<store, throttle, reqs, clock, ended>>

AdminReset(u) ==
    /\ Spend("admin")
    /\ users[u].state # "deleted"
    /\ users' = [users EXCEPT ![u].pwd = @ + 1]
    /\ UNCHANGED <<store, throttle, reqs, clock, ended>>

\* The API process dies, or the request is abandoned, between two round trips.
Crash(r) ==
    /\ ~At(r, "idle") /\ Spend("crash")
    /\ Finish(r)
    /\ UNCHANGED <<users, store, throttle, clock, ended>>

\* Time passes and Redis drops what has expired.
Tick ==
    LET now == clock + 1 IN
    /\ clock < MaxTime
    /\ clock' = now
    /\ keys' = {k \in keys : k.exp > now}
    /\ meta' = [f \in Families |-> IF meta[f].exp > now THEN meta[f] ELSE NoMeta]
    /\ throttle' = [b \in Buckets |->
                      IF throttle[b].exp > now THEN throttle[b] ELSE NoHits]
    /\ UNCHANGED <<users, tokens, reqs, budget, born, consumed, revoked, late, ended>>

Step(r) ==
    \/ \E u \in Users : \E p \in {0, users[u].pwd} : LoginCheck(r, u, p)
    \/ LoginFails(r) \/ LoginMatches(r) \/ LoginStamp(r) \/ LoginMint(r)
    \/ \E t \in tokens : RefreshCheck(r, t)
    \/ RefreshRefused(r) \/ RotateTake(r) \/ RotateOwner(r) \/ RotateSet(r)
    \/ RefreshDone(r) \/ RotateReplay(r) \/ RefreshFails(r)
    \/ RevokeStep(r) \/ RevokeEnds(r)
    \/ \E t \in tokens : Logout(r, t)
    \/ \E u \in Users : ChangeCheck(r, u)
    \/ ChangeFails(r) \/ ChangeVerified(r) \/ ChangeCommit(r)
    \/ ChangeScan(r) \/ ChangeVisit(r) \/ ChangeDone(r)
    \/ Crash(r)

\* No request is in flight: nothing has to happen.
Rest == (\A r \in Requests : At(r, "idle")) /\ UNCHANGED vars

Next ==
    \/ \E r \in Requests : Step(r)
    \/ \E u \in Users, s \in {"active", "inactive", "deleted"} : AdminSet(u, s)
    \/ \E u \in Users : AdminReset(u)
    \/ Tick
    \/ Rest

Spec == Init /\ [][Next]_vars

-----------------------------------------------------------------------------
(* Properties. *)

TypeOK ==
    /\ users \in [Users -> [state : {"active", "inactive", "deleted"}, pwd : Nat]]
    /\ keys \subseteq [fam : Families, jti : Nat, exp : Nat]
    /\ meta \in [Families -> [user : Users \cup {None}, exp : Nat]]
    /\ throttle \in [Buckets -> [n : Nat, exp : Nat]]
    /\ tokens \subseteq
         [user : Users, fam : Families, jti : Nat, parent : Nat, exp : Nat]
    /\ reqs \in [Requests ->
         [pc : {"idle", "auth", "stamp", "mint", "user", "owner", "set", "ok",
                "replay", "fail", "revoke", "verify", "commit", "scan", "visit"},
          user : Users \cup {None}, fam : Families \cup {None}, jti : Nat, pwd : Nat,
          todo : SUBSET [fam : Families, jti : Nat], fams : SUBSET Families,
          next : {"idle", "fail", "visit"}]]
    /\ clock \in Nat
    /\ budget \in [Kinds -> Nat]
    /\ born \in [Families -> [user : Users \cup {None}, at : Nat]]
    /\ consumed \subseteq [fam : Families, jti : Nat]
    /\ revoked \subseteq Families
    /\ late \in [Families -> Nat]
    /\ ended \in [Users -> Nat]

\* A refresh token is redeemed once, whatever refreshes run at the same time
\* and however often a client retries: no two tokens descend from the same one.
SingleUse ==
    \A s, t \in tokens : s.fam = t.fam /\ s.parent = t.parent => s = t

\* A wiped family is dead: the one refresh that had already verified it can
\* still store a token, and that token redeems nothing.
AtMostOneLateToken == \A f \in Families : late[f] <= 1

\* The token a client should use next stays usable until it expires: its
\* family does not expire under it.  The family is gone only when it was
\* revoked, or before the token was stored.
KeysHaveFamily ==
    \A k \in keys :
        meta[k.fam] # NoMeta \/ k.fam \in revoked \/ late[k.fam] > 0

\* Rotation: tokens are redeemed once, a family that was wiped stays dead, and
\* the token to use next is usable, whatever refreshes, revocations, expiries
\* and deaths of requests come between.
RotationSafe == TypeOK /\ SingleUse /\ AtMostOneLateToken /\ KeysHaveFamily

\* When a change of password has answered, no family minted before its commit
\* is alive; only a login that was in flight can leave one behind.
OldSessionsEnd ==
    \A f \in Families :
        meta[f] # NoMeta => born[f].at >= ended[meta[f].user]

\* A session starts with the password the account has: a login looks at it,
\* commits its time, and only then mints a family.
LoginsAreCurrent ==
    [][\A r \in Requests :
         reqs[r].pc = "mint" /\ born' # born /\ reqs'[r] # reqs[r]
             => users[reqs[r].user].pwd = reqs[r].pwd]_vars

\* Attempts are checked before and counted after they are made: a bucket can
\* pass the threshold, by no more than the requests in flight.
Overshoot ==
    \A b \in Buckets : throttle[b].n < MaxAttempts + Cardinality(Requests)

\* A family is taken for reused only when the presented token was redeemed
\* before, or while its revocation is under way.
ReuseMeansReplay ==
    \A r \in Requests :
        At(r, "replay") /\ reqs'[r].pc = "revoke" =>
            \/ [fam |-> reqs[r].fam, jti |-> reqs[r].jti] \in consumed
            \/ reqs[r].fam \in revoked

\* Nobody but its user ends a living family: a change of password, a logout
\* or a reuse of one user's token leaves the families of the others alone.
OwnFamiliesOnly ==
    \A f \in Families :
        meta[f] # NoMeta /\ meta'[f] = NoMeta /\ clock' = clock =>
            \E r \in Requests : At(r, "revoke") /\ reqs[r].user = meta[f].user

\* Further failures do not prolong the lock of an account: the window of its
\* bucket is that of the first failure in it.
LockoutNotProlonged ==
    \A u \in Users : \A b \in {Email(u), ChPw(u)} :
        throttle[b].n > 0 /\ throttle'[b].n > 0 => throttle'[b].exp = throttle[b].exp

\* A user loses a session, or the right to try, only for a cause of his own.
EndedForCause ==
    [][ReuseMeansReplay /\ OwnFamiliesOnly /\ LockoutNotProlonged]_vars
=============================================================================
