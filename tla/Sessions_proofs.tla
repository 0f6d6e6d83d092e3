--------------------------- MODULE Sessions_proofs ---------------------------
(***************************************************************************)
(* What holds of Sessions for every set of accounts, families and requests *)
(* and every lifetime: rotation is safe, a change of password ends the     *)
(* sessions that came before it, a session ends for a cause, and a counter *)
(* of failures passes the threshold by the requests in flight at most.     *)
(*                                                                         *)
(* The argument: a family has one token to use next, the last one that was *)
(* issued in it, and it is in Redis or in the hands of the one refresh     *)
(* that took it.                                                           *)
(***************************************************************************)
EXTENDS Sessions, FiniteSetTheorems, TLAPS

Pcs == {"idle", "auth", "stamp", "mint", "user", "owner", "set", "ok", "replay", "fail",
        "revoke", "verify", "commit", "scan", "visit"}
ReqRec == [pc : Pcs, user : Users \cup {None}, fam : Families \cup {None}, jti : Nat, pwd : Nat,
           todo : SUBSET [fam : Families, jti : Nat], fams : SUBSET Families,
           next : {"idle", "fail", "visit"}]

Card(f) == Cardinality({t \in tokens : t.fam = f})
Bears(q) == q.pc \in {"owner", "set"}
Ends(q) == q.pc \in {"scan", "visit"} \/ (q.pc = "revoke" /\ q.next = "visit")
Spent(f, j) == [fam |-> f, jti |-> j] \in consumed \/ f \in revoked \/ meta[f] = NoMeta
Old(f, q) == meta[f] # NoMeta /\ meta[f].user = q.user /\ born[f].at < q.pwd

(* What a request knows.  Its account, and that its family is the user's:   *)
Known(q) ==
    /\ q.pc \notin {"idle", "ok", "fail"} => q.user \in Users
    /\ q.pc \in {"user", "owner", "set", "replay", "revoke"} =>
           q.fam \in Families /\ born[q.fam].user = q.user

(* a rotation has the last token of its family, which Redis has no more;    *)
Rotates(q) ==
    /\ q.pc = "user" => \E t \in tokens : t.fam = q.fam /\ t.jti = q.jti
    /\ Bears(q) => q.jti = Card(q.fam) /\ \A k \in keys : k.fam # q.fam
    /\ q.pc = "set" => late[q.fam] = 0
    /\ q.pc = "replay" => Spent(q.fam, q.jti)

(* a revocation has work in its own family only;                            *)
Revokes(q) == q.pc = "revoke" => q.fam \in revoked /\ \A i \in q.todo : i.fam = q.fam

(* and a change of password has not lost a family that it must end.         *)
Changes(q) ==
    /\ Ends(q) => q.pwd <= users[q.user].pwd
    /\ q.pc = "visit" => \A f \in Families : Old(f, q) => f \in q.fams
    /\ q.pc = "revoke" /\ q.next = "visit" =>
           \A f \in Families : Old(f, q) => f \in q.fams \/ [fam |-> f, jti |-> 0] \in q.todo

ReqOk(q) == Known(q) /\ Rotates(q) /\ Revokes(q) /\ Changes(q)

(* What the store holds.  Who owns a family:                                *)
Owned ==
    /\ \A t \in tokens : born[t.fam].user = t.user
    /\ \A k \in keys : born[k.fam].user # None
    /\ \A f \in Families : meta[f] # NoMeta => meta[f].user = born[f].user /\ meta[f].user # None
    /\ \A f \in Families : late[f] > 0 => meta[f] = NoMeta /\ born[f].user # None

(* the tokens of a family are numbered, and Redis has the last one at most; *)
Chain ==
    /\ IsFiniteSet(tokens)
    /\ \A t \in tokens : t.parent < t.jti /\ t.jti <= Card(t.fam)
    /\ \A k \in keys : k.jti = Card(k.fam)
    /\ \A k, l \in keys : k.fam = l.fam => k = l
    /\ SingleUse

(* a token and its family expire together;                                  *)
Living ==
    /\ \A k \in keys : meta[k.fam] # NoMeta => k.exp = meta[k.fam].exp
    /\ KeysHaveFamily /\ AtMostOneLateToken
    /\ \A t \in tokens : \/ Spent(t.fam, t.jti)
                         \/ \E k \in keys : k.fam = t.fam /\ k.jti = t.jti

(* and what a change of password ended stays ended.                         *)
Past ==
    /\ OldSessionsEnd
    /\ \A u \in Users : ended[u] <= users[u].pwd

StoreOk == Owned /\ Chain /\ Living /\ Past

(* Two refreshes never have the last token of one family.                   *)
Alone ==
    \A r, s \in Requests : r # s /\ Bears(reqs[r]) /\ Bears(reqs[s]) => reqs[r].fam # reqs[s].fam

Inv == TypeOK /\ StoreOk /\ Alone /\ \A r \in Requests : ReqOk(reqs[r])

-----------------------------------------------------------------------------
(* The sorts of steps: a request goes on, or starts to revoke a family.     *)
Talks(r) ==
    \/ \E u \in Users : \E p \in {0, users[u].pwd} : LoginCheck(r, u, p)
    \/ LoginFails(r) \/ LoginMatches(r) \/ LoginStamp(r)
    \/ \E t \in tokens : RefreshCheck(r, t)
    \/ RotateOwner(r) \/ RefreshDone(r) \/ RefreshFails(r) \/ RevokeEnds(r)
    \/ \E u \in Users : ChangeCheck(r, u)
    \/ ChangeFails(r) \/ ChangeVerified(r) \/ ChangeScan(r) \/ Crash(r)

Wipes(r) ==
    \/ RefreshRefused(r) \/ RotateReplay(r) \/ ChangeVisit(r)
    \/ \E t \in tokens : Logout(r, t)

Administers ==
    \/ \E u \in Users, s \in {"active", "inactive", "deleted"} : AdminSet(u, s)
    \/ \E u \in Users : AdminReset(u)

LEMMA StepKinds ==
    ASSUME [Next]_vars
    PROVE  \/ \E r \in Requests : \/ Talks(r) \/ Wipes(r) \/ LoginMint(r) \/ RotateTake(r)
                                  \/ RotateSet(r) \/ RevokeStep(r) \/ ChangeCommit(r)
                                  \/ ChangeDone(r)
           \/ Administers \/ Tick \/ UNCHANGED vars
  BY DEF Next, Step, Talks, Wipes, Administers, Rest

LEMMA TypeFacts ==
    ASSUME TypeOK
    PROVE  /\ reqs \in [Requests -> ReqRec]
           /\ \A r \in Requests : reqs[r] \in ReqRec
           /\ Idle \in ReqRec
  BY DEF TypeOK, ReqRec, Pcs, Idle

LEMMA Becomes ==
    ASSUME TypeOK, NEW r \in Requests, NEW q \in ReqRec, reqs' = [reqs EXCEPT ![r] = q]
    PROVE  /\ reqs' \in [Requests -> ReqRec] /\ reqs'[r] = q
           /\ \A s \in Requests \ {r} : reqs'[s] = reqs[s]
  BY TypeFacts

-----------------------------------------------------------------------------
(* The counters.                                                            *)
LEMMA ThrottleMoves ==
    ASSUME [Next]_vars
    PROVE  UNCHANGED throttle \/ Tick \/ \E bs : Count(bs) \/ Drop(bs)
<1>1. ASSUME NEW r \in Requests, Talks(r)
      PROVE  UNCHANGED throttle \/ \E bs : Count(bs) \/ Drop(bs)
  BY <1>1 DEF Talks, LoginCheck, LoginFails, LoginMatches, LoginStamp, RefreshCheck, RotateOwner,
       RefreshDone, RefreshFails, RevokeEnds, ChangeCheck, ChangeFails, ChangeVerified, ChangeScan,
       Crash, RecordFailure, RecordIpFailure, Reset, ResetIp
<1>2. ASSUME NEW r \in Requests, \/ Wipes(r) \/ LoginMint(r) \/ RotateTake(r) \/ RotateSet(r)
                                 \/ RevokeStep(r) \/ ChangeCommit(r) \/ ChangeDone(r)
      PROVE  UNCHANGED throttle
  BY <1>2 DEF Wipes, RefreshRefused, RotateReplay, ChangeVisit, Logout, LoginMint, RotateTake,
       RotateSet, RevokeStep, ChangeCommit, ChangeDone
<1>3. ASSUME Administers PROVE UNCHANGED throttle
  BY <1>3 DEF Administers, AdminSet, AdminReset
<1> QED
  BY <1>1, <1>2, <1>3, StepKinds DEF vars

LEMMA ThrottleStep ==
    ASSUME TypeOK, [Next]_vars
    PROVE  throttle' \in [Buckets -> [n : Nat, exp : Nat]] /\ LockoutNotProlonged
<1> DEFINE Goal == throttle' \in [Buckets -> [n : Nat, exp : Nat]] /\ LockoutNotProlonged
<1>1. throttle \in [Buckets -> [n : Nat, exp : Nat]] /\ clock \in Nat /\ Window \in Nat
  BY TimeAssumption DEF TypeOK
<1>2. \A u \in Users : {Email(u), ChPw(u)} \subseteq Buckets /\ Ip \notin {Email(u), ChPw(u)}
  BY DEF Email, ChPw, Ip, Buckets
<1>3. CASE UNCHANGED throttle
  BY <1>1, <1>2, <1>3 DEF LockoutNotProlonged
<1>4. ASSUME NEW bs, Count(bs) PROVE Goal
  <2>1. \A b \in Buckets : Hit(b) \in [n : Nat, exp : Nat]
    BY <1>1 DEF Hit
  <2>2. ASSUME NEW b \in Buckets, b # Ip, throttle[b].n > 0
        PROVE  throttle'[b].exp = throttle[b].exp
    BY <1>1, <1>4, <2>2 DEF Count, Hit
  <2> QED
    BY <1>1, <1>2, <1>4, <2>1, <2>2 DEF Count, LockoutNotProlonged
<1>5. ASSUME NEW bs, Drop(bs) PROVE Goal
  <2>1. NoHits \in [n : Nat, exp : Nat] /\ NoHits.n = 0
    BY DEF NoHits
  <2> QED
    BY <1>1, <1>2, <1>5, <2>1 DEF Drop, LockoutNotProlonged
<1>6. CASE Tick
  <2>1. NoHits \in [n : Nat, exp : Nat] /\ NoHits.n = 0
    BY DEF NoHits
  <2> QED
    BY <1>1, <1>2, <1>6, <2>1 DEF Tick, LockoutNotProlonged
<1> QED
  BY <1>3, <1>4, <1>5, <1>6, ThrottleMoves

(* The accounts, the bounds and the clock.                                  *)
LEMMA AccountsStep ==
    ASSUME TypeOK, [Next]_vars
    PROVE  /\ users' \in [Users -> [state : {"active", "inactive", "deleted"}, pwd : Nat]]
           /\ \A u \in Users : users[u].pwd <= users'[u].pwd
           /\ budget' \in [Kinds -> Nat] /\ clock' \in Nat
<1>1. /\ users \in [Users -> [state : {"active", "inactive", "deleted"}, pwd : Nat]]
      /\ budget \in [Kinds -> Nat] /\ clock \in Nat
  BY DEF TypeOK
<1>2. /\ \A u \in Users : users[u].pwd <= users[u].pwd
      /\ \A u \in Users : users[u] \in [state : {"active", "inactive", "deleted"}, pwd : Nat]
  BY <1>1
<1>3. ASSUME NEW kind \in Kinds, Spend(kind) PROVE budget' \in [Kinds -> Nat]
  BY <1>1, <1>3 DEF Spend
<1>4. {"login", "refresh", "logout", "change", "admin", "crash"} \subseteq Kinds
  BY DEF Kinds
<1>5. ASSUME NEW r \in Requests, Talks(r)
      PROVE  UNCHANGED <<users, clock>> /\ budget' \in [Kinds -> Nat]
  <2>1. UNCHANGED <<users, clock>> /\ (UNCHANGED budget \/ \E kind \in Kinds : Spend(kind))
    BY <1>4, <1>5 DEF Talks, LoginCheck, LoginFails, LoginMatches, LoginStamp, RefreshCheck,
         RotateOwner, RefreshDone, RefreshFails, RevokeEnds, ChangeCheck, ChangeFails, ChangeVerified,
         ChangeScan, Crash
  <2> QED
    BY <1>1, <1>3, <2>1
<1>6. ASSUME NEW r \in Requests, Wipes(r)
      PROVE  UNCHANGED <<users, clock>> /\ budget' \in [Kinds -> Nat]
  <2>1. UNCHANGED <<users, clock>> /\ (UNCHANGED budget \/ \E kind \in Kinds : Spend(kind))
    BY <1>4, <1>6 DEF Wipes, RefreshRefused, RotateReplay, ChangeVisit, Logout
  <2> QED
    BY <1>1, <1>3, <2>1
<1>7. ASSUME NEW r \in Requests,
             LoginMint(r) \/ RotateTake(r) \/ RotateSet(r) \/ RevokeStep(r) \/ ChangeDone(r)
      PROVE  UNCHANGED <<users, clock, budget>>
  BY <1>7 DEF LoginMint, RotateTake, RotateSet, RevokeStep, ChangeDone
<1>8. ASSUME NEW u \in Users, users' = [users EXCEPT ![u].pwd = @ + 1]
      PROVE  /\ users' \in [Users -> [state : {"active", "inactive", "deleted"}, pwd : Nat]]
             /\ \A v \in Users : users[v].pwd <= users'[v].pwd
  BY <1>1, <1>2, <1>8
<1>9. ASSUME NEW r \in Requests, ChangeCommit(r), reqs[r].user \in Users
      PROVE  /\ users' \in [Users -> [state : {"active", "inactive", "deleted"}, pwd : Nat]]
             /\ \A v \in Users : users[v].pwd <= users'[v].pwd
             /\ UNCHANGED <<clock, budget>>
  BY <1>1, <1>2, <1>8, <1>9 DEF ChangeCommit
<1>10. ASSUME NEW r \in Requests, ChangeCommit(r), reqs[r].user \notin Users
       PROVE  UNCHANGED <<users, clock, budget>>
  BY <1>1, <1>10 DEF ChangeCommit
<1>11. ASSUME NEW u \in Users, NEW s \in {"active", "inactive", "deleted"}, AdminSet(u, s)
       PROVE  /\ users' \in [Users -> [state : {"active", "inactive", "deleted"}, pwd : Nat]]
              /\ \A v \in Users : users[v].pwd <= users'[v].pwd
              /\ clock' = clock /\ budget' \in [Kinds -> Nat]
  BY <1>1, <1>2, <1>3, <1>4, <1>11 DEF AdminSet
<1>12. ASSUME NEW u \in Users, AdminReset(u)
       PROVE  /\ users' \in [Users -> [state : {"active", "inactive", "deleted"}, pwd : Nat]]
              /\ \A v \in Users : users[v].pwd <= users'[v].pwd
              /\ clock' = clock /\ budget' \in [Kinds -> Nat]
  BY <1>3, <1>4, <1>8, <1>12 DEF AdminReset
<1>13. CASE Tick
  BY <1>1, <1>2, <1>13 DEF Tick
<1> QED
  BY <1>1, <1>2, <1>5, <1>6, <1>7, <1>9, <1>10, <1>11, <1>12, <1>13, StepKinds
     DEF Administers, vars

-----------------------------------------------------------------------------
(* A request that goes on knows what its stage requires.                    *)
LEMMA Harmless ==
    ASSUME NEW q \in ReqRec, q.pc \in {"idle", "ok", "fail"}
    PROVE  ReqOk(q)
  BY DEF ReqOk, Known, Rotates, Revokes, Changes, Bears, Ends

LEMMA TalksStep ==
    ASSUME Inv, NEW r \in Requests, Talks(r)
    PROVE  /\ UNCHANGED <<users, store, ended, clock>>
           /\ \E q \in ReqRec : /\ reqs' = [reqs EXCEPT ![r] = q]
                                /\ ReqOk(q)
                                /\ Bears(q) => Bears(reqs[r]) /\ q.fam = reqs[r].fam
<1> DEFINE Goal == \E q \in ReqRec : /\ reqs' = [reqs EXCEPT ![r] = q]
                                     /\ ReqOk(q)
                                     /\ Bears(q) => Bears(reqs[r]) /\ q.fam = reqs[r].fam
           me == reqs[r]
<1>1. TypeOK /\ me \in ReqRec /\ Idle \in ReqRec /\ ReqOk(me)
  BY TypeFacts DEF Inv
<1>2. ASSUME NEW q \in ReqRec, reqs' = [reqs EXCEPT ![r] = q], q.pc \in {"idle", "ok", "fail"}
      PROVE  Goal
  <2>1. ReqOk(q) /\ ~Bears(q)
    BY <1>2, Harmless DEF Bears
  <2> QED
    BY <1>2, <2>1
<1>3. Idle.pc = "idle"
  BY DEF Idle
<1>4. ASSUME Finish(r) PROVE Goal
  BY <1>1, <1>2, <1>3, <1>4 DEF Finish, Become
<1>5. ASSUME NEW q \in ReqRec, q.pc \in {"auth", "verify"}, q.user \in Users, Become(r, q)
      PROVE  Goal
  <2>1. ReqOk(q) /\ ~Bears(q)
    BY <1>5 DEF ReqOk, Known, Rotates, Revokes, Changes, Bears, Ends
  <2> QED
    BY <1>5, <2>1 DEF Become
<1>6. ASSUME NEW u \in Users, NEW p \in {0, users[u].pwd}, LoginCheck(r, u, p) PROVE Goal
  <2> DEFINE q == [Idle EXCEPT !.pc = "auth", !.user = u, !.pwd = p]
  <2>1. p \in Nat
    BY <1>1 DEF TypeOK
  <2>2. q \in ReqRec /\ q.pc = "auth" /\ q.user = u
    BY <1>1, <2>1 DEF ReqRec, Pcs, Idle
  <2> QED
    BY <1>5, <1>6, <2>2 DEF LoginCheck
<1>7. ASSUME NEW u \in Users, ChangeCheck(r, u) PROVE Goal
  <2> DEFINE q == [Idle EXCEPT !.pc = "verify", !.user = u]
  <2>1. q \in ReqRec /\ q.pc = "verify" /\ q.user = u
    BY <1>1 DEF ReqRec, Pcs, Idle
  <2> QED
    BY <1>5, <1>7, <2>1 DEF ChangeCheck
<1>8. ASSUME NEW pc \in {"stamp", "mint", "commit"}, me.user \in Users, Goto(r, pc)
      PROVE  Goal
  <2> DEFINE q == [me EXCEPT !.pc = pc]
  <2>1. q \in ReqRec /\ q.pc = pc /\ q.user = me.user
    BY <1>1 DEF ReqRec, Pcs
  <2>2. ReqOk(q) /\ ~Bears(q)
    BY <1>8, <2>1 DEF ReqOk, Known, Rotates, Revokes, Changes, Bears, Ends
  <2> QED
    BY <1>8, <2>1, <2>2 DEF Goto
<1>9. ASSUME LoginFails(r) \/ RefreshDone(r) \/ RefreshFails(r) \/ ChangeFails(r) \/ Crash(r)
      PROVE  Goal
  BY <1>4, <1>9 DEF LoginFails, RefreshDone, RefreshFails, ChangeFails, Crash
<1>10. ASSUME LoginMatches(r) \/ LoginStamp(r) \/ ChangeVerified(r) PROVE Goal
  <2>1. me.user \in Users
    BY <1>1, <1>10 DEF LoginMatches, LoginStamp, ChangeVerified, At, ReqOk, Known
  <2>2. Finish(r) \/ \E pc \in {"stamp", "mint", "commit"} : Goto(r, pc)
    BY <1>10 DEF LoginMatches, LoginStamp, ChangeVerified
  <2> QED
    BY <1>4, <1>8, <2>1, <2>2
<1>11. ASSUME NEW t \in tokens, RefreshCheck(r, t) PROVE Goal
  <2>1. t \in [user : Users, fam : Families, jti : Nat, parent : Nat, exp : Nat]
    BY <1>1 DEF TypeOK
  <2>2. PICK pc \in {"user", "fail"} :
            reqs' = [reqs EXCEPT ![r] = [Idle EXCEPT !.pc = pc, !.user = t.user, !.fam = t.fam,
                                                     !.jti = t.jti]]
    BY <1>11 DEF RefreshCheck, Become
  <2> DEFINE q == [Idle EXCEPT !.pc = pc, !.user = t.user, !.fam = t.fam, !.jti = t.jti]
  <2>3. /\ q \in ReqRec /\ q.pc = pc /\ q.user = t.user /\ q.fam = t.fam /\ q.jti = t.jti
    BY <1>1, <2>1 DEF ReqRec, Pcs, Idle
  <2>4. born[t.fam].user = t.user
    BY DEF Inv, StoreOk, Owned
  <2>5. ReqOk(q) /\ ~Bears(q)
    BY <2>1, <2>3, <2>4 DEF ReqOk, Known, Rotates, Revokes, Changes, Bears, Ends
  <2> QED
    BY <2>2, <2>3, <2>5
<1>12. ASSUME RotateOwner(r) PROVE Goal
  <2>1. me.pc = "owner" /\ me.user \in Users /\ me.fam \in Families
    BY <1>1, <1>12 DEF RotateOwner, At, ReqOk, Known
  <2>2. CASE FamilyUser(me.fam) = me.user
    <3> DEFINE q == [me EXCEPT !.pc = "set"]
    <3>1. /\ q \in ReqRec /\ q.pc = "set" /\ q.user = me.user /\ q.fam = me.fam /\ q.jti = me.jti
      BY <1>1 DEF ReqRec, Pcs
    <3>2. meta[me.fam] # NoMeta
      BY <2>1, <2>2, NoneAssumption DEF FamilyUser, NoMeta
    <3>3. late[me.fam] = 0
      BY <1>1, <2>1, <3>2 DEF Inv, StoreOk, Owned, TypeOK
    <3>4. ReqOk(q)
      BY <1>1, <2>1, <3>1, <3>3 DEF ReqOk, Known, Rotates, Revokes, Changes, Bears, Ends
    <3>5. reqs' = [reqs EXCEPT ![r] = q]
      BY <1>12, <2>2 DEF RotateOwner, Goto
    <3> QED
      BY <2>1, <3>1, <3>4, <3>5 DEF Bears
  <2>3. CASE FamilyUser(me.fam) # me.user
    <3> DEFINE q == [me EXCEPT !.pc = "fail"]
    <3>1. q \in ReqRec /\ q.pc = "fail"
      BY <1>1 DEF ReqRec, Pcs
    <3>2. reqs' = [reqs EXCEPT ![r] = q]
      BY <1>12, <2>3 DEF RotateOwner, Goto
    <3> QED
      BY <1>2, <3>1, <3>2
  <2> QED
    BY <2>2, <2>3
<1>13. ASSUME RevokeEnds(r) PROVE Goal
  <2>1. me.pc = "revoke" /\ me.todo = {} /\ me.next \in {"idle", "fail", "visit"}
    BY <1>1, <1>13 DEF RevokeEnds, At, ReqRec
  <2>2. CASE me.next = "idle"
    BY <1>4, <1>13, <2>2 DEF RevokeEnds
  <2>3. CASE me.next # "idle"
    <3> DEFINE q == [me EXCEPT !.pc = me.next]
    <3>1. /\ q \in ReqRec /\ q.pc = me.next /\ q.user = me.user /\ q.pwd = me.pwd /\ q.fams = me.fams
          /\ reqs' = [reqs EXCEPT ![r] = q]
      BY <1>1, <1>13, <2>1, <2>3 DEF RevokeEnds, Goto, ReqRec, Pcs
    <3>2. CASE me.next = "fail"
      BY <1>2, <3>1, <3>2
    <3>3. CASE me.next = "visit"
      <4>1. me.user \in Users /\ me.pwd <= users[me.user].pwd
        BY <1>1, <2>1, <3>3 DEF ReqOk, Known, Changes, Ends
      <4>2. ASSUME NEW f \in Families, Old(f, q) PROVE f \in q.fams
        BY <1>1, <2>1, <3>1, <3>3, <4>2 DEF ReqOk, Changes, Old
      <4>3. ReqOk(q) /\ ~Bears(q)
        BY <3>1, <3>3, <4>1, <4>2 DEF ReqOk, Known, Rotates, Revokes, Changes, Bears, Ends
      <4> QED
        BY <3>1, <4>3
    <3> QED
      BY <2>1, <2>3, <3>2, <3>3
  <2> QED
    BY <2>2, <2>3
<1>14. ASSUME ChangeScan(r) PROVE Goal
  <2> DEFINE alive == {f \in Families : meta[f] # NoMeta}
             q == [me EXCEPT !.pc = "visit", !.fams = alive]
  <2>1. /\ q \in ReqRec /\ q.pc = "visit" /\ q.user = me.user /\ q.pwd = me.pwd /\ q.fams = alive
        /\ reqs' = [reqs EXCEPT ![r] = q]
    BY <1>1, <1>14 DEF ChangeScan, ReqRec, Pcs
  <2>2. me.user \in Users /\ me.pwd <= users[me.user].pwd
    BY <1>1, <1>14 DEF ChangeScan, At, ReqOk, Known, Changes, Ends
  <2>3. ReqOk(q) /\ ~Bears(q)
    BY <2>1, <2>2 DEF ReqOk, Known, Rotates, Revokes, Changes, Bears, Ends, Old
  <2> QED
    BY <2>1, <2>3
<1>15. Goal
  BY <1>6, <1>7, <1>9, <1>10, <1>11, <1>12, <1>13, <1>14 DEF Talks
<1>16. UNCHANGED <<users, store, ended, clock>>
  BY DEF Talks, LoginCheck, LoginFails, LoginMatches, LoginStamp, RefreshCheck, RotateOwner,
         RefreshDone, RefreshFails, RevokeEnds, ChangeCheck, ChangeFails, ChangeVerified, ChangeScan,
         Crash
<1> QED
  BY <1>15, <1>16

-----------------------------------------------------------------------------
(* A step that leaves the store alone, or only begins a revocation.         *)
LEMMA StoreKept ==
    ASSUME TypeOK, StoreOk, UNCHANGED <<keys, meta, tokens, born, consumed, late, ended>>,
           revoked \subseteq revoked', \A u \in Users : users[u].pwd <= users'[u].pwd,
           users' \in [Users -> [state : {"active", "inactive", "deleted"}, pwd : Nat]]
    PROVE  StoreOk'
<1>1. Owned'
  BY DEF StoreOk, Owned
<1>2. Chain'
  BY DEF StoreOk, Chain, SingleUse, Card
<1>3. Living'
  BY DEF StoreOk, Living, KeysHaveFamily, AtMostOneLateToken, Spent
<1>4. Past'
  <2>1. \A u \in Users : ended[u] \in Nat /\ users[u].pwd \in Nat /\ users'[u].pwd \in Nat
    BY DEF TypeOK
  <2> QED
    BY <2>1 DEF StoreOk, Past, OldSessionsEnd
<1> QED
  BY <1>1, <1>2, <1>3, <1>4 DEF StoreOk

LEMMA RequestKept ==
    ASSUME TypeOK, NEW q \in ReqRec, ReqOk(q),
           UNCHANGED <<keys, meta, tokens, born, consumed, late>>,
           revoked \subseteq revoked', \A u \in Users : users[u].pwd <= users'[u].pwd,
           users' \in [Users -> [state : {"active", "inactive", "deleted"}, pwd : Nat]]
    PROVE  ReqOk(q)'
<1>1. Known(q)' /\ Rotates(q)' /\ Revokes(q)'
  BY DEF ReqOk, Known, Rotates, Revokes, Bears, Card, Spent
<1>2. Changes(q)'
  <2>1. Ends(q) => q.user \in Users
    BY DEF ReqOk, Known, Ends
  <2>2. \A u \in Users : users[u].pwd \in Nat /\ users'[u].pwd \in Nat
    BY DEF TypeOK
  <2> QED
    BY <2>1, <2>2 DEF ReqOk, Changes, Ends, Old, ReqRec
<1> QED
  BY <1>1, <1>2 DEF ReqOk

LEMMA AloneKept ==
    ASSUME TypeOK, Alone, NEW r \in Requests, NEW q \in ReqRec, reqs' = [reqs EXCEPT ![r] = q],
           Bears(q) => \A s \in Requests \ {r} : Bears(reqs[s]) => reqs[s].fam # q.fam
    PROVE  Alone'
<1>1. reqs'[r] = q /\ \A s \in Requests \ {r} : reqs'[s] = reqs[s]
  BY Becomes
<1> QED
  BY <1>1 DEF Alone, Bears

LEMMA TalksInv ==
    ASSUME Inv, NEW r \in Requests, Talks(r)
    PROVE  reqs' \in [Requests -> ReqRec] /\ StoreOk' /\ Alone' /\ \A s \in Requests : ReqOk(reqs[s])'
<1>1. /\ TypeOK /\ StoreOk /\ Alone /\ \A s \in Requests : reqs[s] \in ReqRec /\ ReqOk(reqs[s])
  BY TypeFacts DEF Inv
<1>2. PICK q \in ReqRec : /\ reqs' = [reqs EXCEPT ![r] = q] /\ ReqOk(q)
                          /\ Bears(q) => Bears(reqs[r]) /\ q.fam = reqs[r].fam
  BY TalksStep
<1>3. /\ UNCHANGED <<keys, meta, tokens, born, consumed, late, ended, users>>
      /\ revoked \subseteq revoked'
  BY TalksStep DEF store
<1>4. /\ \A u \in Users : users[u].pwd <= users'[u].pwd
      /\ users' \in [Users -> [state : {"active", "inactive", "deleted"}, pwd : Nat]]
  BY <1>1, <1>3 DEF TypeOK
<1>5. StoreOk'
  BY <1>1, <1>3, <1>4, StoreKept
<1>6. ASSUME NEW p \in ReqRec, ReqOk(p) PROVE ReqOk(p)'
  BY <1>1, <1>3, <1>4, <1>6, RequestKept
<1>7. /\ reqs' \in [Requests -> ReqRec] /\ reqs'[r] = q
      /\ \A s \in Requests \ {r} : reqs'[s] = reqs[s]
  BY <1>1, <1>2, Becomes
<1>8. ASSUME NEW s \in Requests PROVE ReqOk(reqs[s])'
  <2>1. PICK p \in ReqRec : p = reqs'[s] /\ ReqOk(p)
    BY <1>1, <1>2, <1>7
  <2>2. ReqOk(p)'
    BY <1>6, <2>1
  <2> QED
    BY <2>1, <2>2 DEF ReqOk, Known, Rotates, Revokes, Changes, Bears, Ends, Old
<1>9. Alone'
  BY <1>1, <1>2, AloneKept DEF Alone
<1> QED
  BY <1>5, <1>7, <1>8, <1>9

LEMMA ItemsFacts ==
    ASSUME TypeOK, NEW f \in Families
    PROVE  /\ Items(f) \subseteq [fam : Families, jti : Nat]
           /\ \A i \in Items(f) : i.fam = f
           /\ meta[f] # NoMeta => [fam |-> f, jti |-> 0] \in Items(f)
<1>1. \A k \in keys : k.jti \in Nat
  BY DEF TypeOK
<1> QED
  BY <1>1 DEF Items

LEMMA RevokingFacts ==
    ASSUME TypeOK, NEW r \in Requests, NEW f \in Families, NEW next \in {"idle", "fail", "visit"}
    PROVE  \E q \in ReqRec :
             /\ q = Revoking(r, f, next)
             /\ q.pc = "revoke" /\ q.fam = f /\ q.todo = Items(f) /\ q.next = next
             /\ q.user = reqs[r].user /\ q.pwd = reqs[r].pwd /\ q.fams = reqs[r].fams
<1>1. reqs[r] \in ReqRec /\ Items(f) \in SUBSET [fam : Families, jti : Nat]
  BY TypeFacts, ItemsFacts
<1>2. PICK i \in SUBSET [fam : Families, jti : Nat] : i = Items(f)
  BY <1>1
<1>3. PICK me \in ReqRec : me = reqs[r]
  BY <1>1
<1> DEFINE q == [me EXCEPT !.pc = "revoke", !.fam = f, !.todo = i, !.next = next]
<1>4. q = Revoking(r, f, next)
  BY <1>2, <1>3 DEF Revoking
<1>5. q \in ReqRec
  BY DEF ReqRec, Pcs
<1>6. /\ q.pc = "revoke" /\ q.fam = f /\ q.todo = i /\ q.next = next
      /\ q.user = me.user /\ q.pwd = me.pwd /\ q.fams = me.fams
  BY DEF ReqRec
<1> QED
  BY <1>2, <1>3, <1>4, <1>5, <1>6

(* A revocation begins with all that Redis has of the family.               *)
LEMMA WipesStep ==
    ASSUME Inv, NEW r \in Requests, Wipes(r)
    PROVE  /\ UNCHANGED <<users, keys, meta, tokens, born, consumed, late, ended, clock>>
           /\ \E f \in Families : revoked' = revoked \/ revoked' = revoked \cup {f}
           /\ \E q \in ReqRec : reqs' = [reqs EXCEPT ![r] = q] /\ ReqOk(q)' /\ ~Bears(q)
<1> DEFINE Goal == /\ \E f \in Families : revoked' = revoked \/ revoked' = revoked \cup {f}
                   /\ \E q \in ReqRec : reqs' = [reqs EXCEPT ![r] = q] /\ ReqOk(q)' /\ ~Bears(q)
<1>0. PICK me \in ReqRec : me = reqs[r] /\ ReqOk(me)
  BY TypeFacts DEF Inv
<1>1. TypeOK
  BY DEF Inv
<1>2. UNCHANGED <<users, keys, meta, tokens, born, consumed, late, ended, clock>>
  BY DEF Wipes, RefreshRefused, RotateReplay, ChangeVisit, Logout
<1>3. ASSUME NEW q \in ReqRec, NEW f \in Families, reqs' = [reqs EXCEPT ![r] = q],
             revoked' = revoked \cup {f}, q.pc = "revoke", q.fam = f, q.todo = Items(f),
             q.user \in Users, born[f].user = q.user, q.next # "visit"
      PROVE  Goal
  <2>1. Known(q)' /\ Rotates(q)' /\ Revokes(q)' /\ Changes(q)'
    BY <1>1, <1>2, <1>3, ItemsFacts DEF Known, Rotates, Revokes, Changes, Bears, Ends
  <2> QED
    BY <1>3, <2>1 DEF ReqOk, Bears
<1>4. ASSUME NEW f \in Families, f = me.fam, me.user \in Users, born[f].user = me.user,
             Become(r, Revoking(r, f, "fail")), revoked' = revoked \cup {f}
      PROVE  Goal
  <2>1. PICK q \in ReqRec : /\ q = Revoking(r, f, "fail")
                            /\ q.pc = "revoke" /\ q.fam = f /\ q.todo = Items(f) /\ q.user = me.user
                            /\ q.next = "fail"
    BY <1>0, <1>1, RevokingFacts
  <2> QED
    BY <1>3, <1>4, <2>1 DEF Become
<1>5. ASSUME RefreshRefused(r) PROVE Goal
  <2>1. me.fam \in Families /\ me.user \in Users /\ born[me.fam].user = me.user
    BY <1>0, <1>5 DEF RefreshRefused, At, ReqOk, Known
  <2> QED
    BY <1>0, <1>4, <1>5, <2>1 DEF RefreshRefused
<1>6. ASSUME RotateReplay(r) PROVE Goal
  <2>1. me.fam \in Families /\ me.user \in Users /\ born[me.fam].user = me.user
    BY <1>0, <1>6 DEF RotateReplay, At, ReqOk, Known
  <2>2. CASE meta[me.fam] = NoMeta
    <3>0. [me EXCEPT !.pc = "fail"] \in ReqRec /\ [me EXCEPT !.pc = "fail"].pc = "fail"
      BY DEF ReqRec, Pcs
    <3>1. PICK q \in ReqRec : q = [me EXCEPT !.pc = "fail"] /\ q.pc = "fail"
      BY <3>0
    <3>2. reqs' = [reqs EXCEPT ![r] = q] /\ revoked' = revoked
      BY <1>0, <1>6, <2>2, <3>1 DEF RotateReplay, Goto
    <3>3. ReqOk(q)' /\ ~Bears(q)
      BY <3>1 DEF ReqOk, Known, Rotates, Revokes, Changes, Bears, Ends
    <3> QED
      BY <2>1, <3>2, <3>3
  <2>3. CASE meta[me.fam] # NoMeta
    BY <1>0, <1>4, <1>6, <2>1, <2>3 DEF RotateReplay
  <2> QED
    BY <2>2, <2>3
<1>7. ASSUME NEW t \in tokens, Logout(r, t) PROVE Goal
  <2>1. t.user \in Users /\ t.fam \in Families /\ born[t.fam].user = t.user
    BY <1>1 DEF Inv, StoreOk, Owned, TypeOK
  <2>2. PICK p \in ReqRec : /\ p = Revoking(r, t.fam, "idle")
                            /\ p.pc = "revoke" /\ p.fam = t.fam /\ p.todo = Items(t.fam)
                            /\ p.next = "idle"
    BY <1>1, <2>1, RevokingFacts
  <2>3. [p EXCEPT !.user = t.user] \in ReqRec
    BY <2>1 DEF ReqRec
  <2>4. PICK q \in ReqRec : q = [p EXCEPT !.user = t.user]
    BY <2>3
  <2>5. /\ q.user = t.user /\ q.pc = "revoke" /\ q.fam = t.fam /\ q.todo = Items(t.fam)
        /\ q.next = "idle"
    BY <2>2, <2>4 DEF ReqRec
  <2>6. reqs' = [reqs EXCEPT ![r] = q] /\ revoked' = revoked \cup {t.fam}
    BY <1>7, <2>2, <2>4 DEF Logout, Become
  <2> QED
    BY <1>3, <2>1, <2>5, <2>6
<1>8. ASSUME NEW f \in Families, At(r, "visit"), FamilyUser(f) = me.user,
             Become(r, [Revoking(r, f, "visit") EXCEPT !.fams = @ \ {f}]),
             revoked' = revoked \cup {f}
      PROVE  Goal
  <2>1. f \in Families /\ me.user \in Users /\ me.pc = "visit"
    BY <1>0, <1>8 DEF ReqRec, At, ReqOk, Known
  <2>2. PICK p \in ReqRec : /\ p = Revoking(r, f, "visit")
                            /\ p.pc = "revoke" /\ p.fam = f /\ p.todo = Items(f) /\ p.next = "visit"
                            /\ p.user = me.user /\ p.pwd = me.pwd /\ p.fams = me.fams
    BY <1>0, <1>1, <2>1, RevokingFacts
  <2>3. [p EXCEPT !.fams = p.fams \ {f}] \in ReqRec
    BY DEF ReqRec
  <2>4. PICK q \in ReqRec : q = [p EXCEPT !.fams = p.fams \ {f}]
    BY <2>3
  <2>5. /\ q.pc = "revoke" /\ q.fam = f /\ q.todo = Items(f) /\ q.next = "visit"
        /\ q.user = me.user /\ q.pwd = me.pwd /\ q.fams = me.fams \ {f}
    BY <2>2, <2>4 DEF ReqRec
  <2>6. reqs' = [reqs EXCEPT ![r] = q]
    BY <1>8, <2>2, <2>4 DEF Become
  <2>7. meta[f] # NoMeta
    BY <1>8, <2>1, NoneAssumption DEF FamilyUser, NoMeta
  <2>8. born[f].user = me.user
    BY <1>8, <2>1, <2>7 DEF FamilyUser, Inv, StoreOk, Owned
  <2>9. Known(q)' /\ Rotates(q)' /\ Revokes(q)'
    <3>1. f \in revoked' /\ \A i \in Items(f) : i.fam = f
      BY <1>1, <1>8, <2>1, ItemsFacts
    <3>2. born'[f].user = q.user /\ q.user \in Users /\ f \in Families
      BY <1>2, <2>1, <2>5, <2>8
    <3> QED
      BY <2>5, <3>1, <3>2 DEF Known, Rotates, Revokes, Bears
  <2>10. Changes(q)'
    <3>1. me.pwd <= users[me.user].pwd /\ \A g \in Families : Old(g, me) => g \in me.fams
      BY <1>0, <2>1 DEF ReqOk, Changes, Ends
    <3>2. [fam |-> f, jti |-> 0] \in q.todo
      BY <1>1, <2>1, <2>5, <2>7, ItemsFacts
    <3>3. \A g \in Families : Old(g, q)' => Old(g, me)
      BY <1>2, <2>5 DEF Old
    <3> QED
      BY <1>2, <2>5, <3>1, <3>2, <3>3 DEF Changes, Ends
  <2> QED
    BY <1>8, <2>1, <2>5, <2>6, <2>9, <2>10 DEF ReqOk, Bears
<1>9. ASSUME NEW f \in Families, At(r, "visit"), FamilyUser(f) # me.user,
             Become(r, [me EXCEPT !.fams = @ \ {f}]), UNCHANGED revoked
      PROVE  Goal
  <2>1. me.user \in Users /\ me.pc = "visit" /\ f \in Families
    BY <1>0, <1>9 DEF At, ReqOk, Known, ReqRec
  <2>2. [me EXCEPT !.fams = me.fams \ {f}] \in ReqRec
    BY DEF ReqRec
  <2>3. PICK q \in ReqRec : q = [me EXCEPT !.fams = me.fams \ {f}]
    BY <2>2
  <2>4. q.pc = "visit" /\ q.user = me.user /\ q.pwd = me.pwd /\ q.fams = me.fams \ {f}
    BY <2>1, <2>3 DEF ReqRec
  <2>5. reqs' = [reqs EXCEPT ![r] = q]
    BY <1>9, <2>3 DEF Become
  <2>6. me.pwd <= users[me.user].pwd /\ \A g \in Families : Old(g, me) => g \in me.fams
    BY <1>0, <2>1 DEF ReqOk, Changes, Ends
  <2>7. \A g \in Families : Old(g, q)' => Old(g, me) /\ g # f
    BY <1>2, <1>9, <2>4 DEF Old, FamilyUser
  <2>8. Changes(q)'
    BY <1>2, <2>4, <2>6, <2>7 DEF Changes, Ends
  <2>9. Known(q)' /\ Rotates(q)' /\ Revokes(q)' /\ ~Bears(q)
    BY <2>1, <2>4 DEF Known, Rotates, Revokes, Bears
  <2> QED
    BY <1>9, <2>1, <2>4, <2>5, <2>8, <2>9 DEF ReqOk
<1>10. ASSUME ChangeVisit(r) PROVE Goal
  <2>1. me.fams \subseteq Families
    BY <1>0 DEF ReqRec
  <2> QED
    BY <1>0, <1>8, <1>9, <1>10, <2>1 DEF ChangeVisit
<1> QED
  BY <1>2, <1>5, <1>6, <1>7, <1>10 DEF Wipes

LEMMA WipesInv ==
    ASSUME Inv, NEW r \in Requests, Wipes(r)
    PROVE  /\ reqs' \in [Requests -> ReqRec] /\ StoreOk' /\ Alone'
           /\ \A s \in Requests : ReqOk(reqs[s])'
<1>1. /\ TypeOK /\ StoreOk /\ Alone /\ \A s \in Requests : reqs[s] \in ReqRec /\ ReqOk(reqs[s])
  BY TypeFacts DEF Inv
<1>2. PICK q \in ReqRec : reqs' = [reqs EXCEPT ![r] = q] /\ ReqOk(q)' /\ ~Bears(q)
  BY WipesStep
<1>3. /\ UNCHANGED <<keys, meta, tokens, born, consumed, late, ended, users>>
      /\ revoked \subseteq revoked'
  BY WipesStep
<1>4. /\ \A u \in Users : users[u].pwd <= users'[u].pwd
      /\ users' \in [Users -> [state : {"active", "inactive", "deleted"}, pwd : Nat]]
  BY <1>1, <1>3 DEF TypeOK
<1>5. StoreOk'
  BY <1>1, <1>3, <1>4, StoreKept
<1>6. ASSUME NEW p \in ReqRec, ReqOk(p) PROVE ReqOk(p)'
  BY <1>1, <1>3, <1>4, <1>6, RequestKept
<1>7. /\ reqs' \in [Requests -> ReqRec] /\ reqs'[r] = q
      /\ \A s \in Requests \ {r} : reqs'[s] = reqs[s]
  BY <1>1, <1>2, Becomes
<1>8. ASSUME NEW s \in Requests PROVE ReqOk(reqs[s])'
  <2>1. PICK p \in ReqRec : p = reqs'[s] /\ ReqOk(p)'
    BY <1>1, <1>2, <1>6, <1>7
  <2> QED
    BY <2>1 DEF ReqOk, Known, Rotates, Revokes, Changes, Bears, Ends, Old
<1>9. Alone'
  BY <1>1, <1>2, AloneKept
<1> QED
  BY <1>5, <1>7, <1>8, <1>9

-----------------------------------------------------------------------------
(* The steps that change the store.                                         *)
StoreType ==
    /\ keys \subseteq [fam : Families, jti : Nat, exp : Nat]
    /\ meta \in [Families -> [user : Users \cup {None}, exp : Nat]]
    /\ tokens \subseteq [user : Users, fam : Families, jti : Nat, parent : Nat, exp : Nat]
    /\ born \in [Families -> [user : Users \cup {None}, at : Nat]]
    /\ consumed \subseteq [fam : Families, jti : Nat] /\ revoked \subseteq Families
    /\ late \in [Families -> Nat] /\ ended \in [Users -> Nat]

LEMMA CardFacts ==
    ASSUME TypeOK, Chain, NEW f \in Families
    PROVE  /\ Card(f) \in Nat
           /\ (\A t \in tokens : t.fam # f) => Card(f) = 0
<1>1. IsFiniteSet({t \in tokens : t.fam = f})
  BY FS_Subset DEF Chain
<1>2. (\A t \in tokens : t.fam # f) => {t \in tokens : t.fam = f} = {}
  OBVIOUS
<1> QED
  BY <1>1, <1>2, FS_CardinalityType, FS_EmptySet DEF Card

LEMMA CardGrows ==
    ASSUME TypeOK, Chain, NEW x, x \notin tokens, tokens' = tokens \cup {x}
    PROVE  /\ IsFiniteSet(tokens')
           /\ \A g \in Families : Card(g)' = IF g = x.fam THEN Card(g) + 1 ELSE Card(g)
<1>1. IsFiniteSet(tokens) /\ IsFiniteSet(tokens')
  BY FS_AddElement DEF Chain
<1>2. ASSUME NEW g \in Families, g # x.fam PROVE Card(g)' = Card(g)
  <2>1. {t \in tokens' : t.fam = g} = {t \in tokens : t.fam = g}
    BY <1>2
  <2> QED
    BY <2>1 DEF Card
<1>3. ASSUME NEW g \in Families, g = x.fam PROVE Card(g)' = Card(g) + 1
  <2> DEFINE T == {t \in tokens : t.fam = g}
  <2>1. {t \in tokens' : t.fam = g} = T \cup {x} /\ x \notin T
    BY <1>3
  <2>2. IsFiniteSet(T)
    BY <1>1, FS_Subset
  <2>3. Cardinality(T \cup {x}) = Cardinality(T) + 1
    BY <2>1, <2>2, FS_AddElement
  <2> QED
    BY <2>1, <2>3 DEF Card
<1> QED
  BY <1>1, <1>2, <1>3

(* Redis forgets: what requests know stays true.                            *)
Forgets ==
    /\ keys' \subseteq keys /\ \A f \in Families : meta'[f] = meta[f] \/ meta'[f] = NoMeta
    /\ UNCHANGED <<users, tokens, born, late, ended>>
    /\ consumed \subseteq consumed' /\ revoked \subseteq revoked'

LEMMA ForgetsKeeps ==
    ASSUME TypeOK, StoreOk, Forgets
    PROVE  /\ Owned' /\ Chain' /\ Past'
           /\ \A q \in ReqRec : ReqOk(q) => ReqOk(q)'
<1>1. Owned'
  <2>1. \A k \in keys : k.fam \in Families
    BY DEF TypeOK
  <2> QED
    BY <2>1 DEF StoreOk, Owned, Forgets
<1>2. Chain'
  BY DEF StoreOk, Chain, SingleUse, Card, Forgets
<1>3. Past'
  BY DEF StoreOk, Past, OldSessionsEnd, Forgets
<1>4. ASSUME NEW q \in ReqRec, ReqOk(q) PROVE ReqOk(q)'
  <2>1. Known(q)' /\ Revokes(q)'
    BY <1>4 DEF ReqOk, Known, Revokes, Forgets
  <2>2. Rotates(q)'
    <3>1. q.pc = "replay" => q.fam \in Families
      BY <1>4 DEF ReqOk, Known
    <3> QED
      BY <1>4, <3>1 DEF ReqOk, Rotates, Bears, Card, Spent, Forgets
  <2>3. Changes(q)'
    BY <1>4 DEF ReqOk, Changes, Ends, Old, Forgets
  <2> QED
    BY <2>1, <2>2, <2>3 DEF ReqOk
<1> QED
  BY <1>1, <1>2, <1>3, <1>4

LEMMA RequestsAfter ==
    ASSUME Inv, NEW r \in Requests, NEW q \in ReqRec, reqs' = [reqs EXCEPT ![r] = q], ReqOk(q)',
           \A p \in ReqRec : (\E s \in Requests \ {r} : p = reqs[s]) /\ ReqOk(p) => ReqOk(p)'
    PROVE  /\ reqs' \in [Requests -> ReqRec]
           /\ \A s \in Requests : ReqOk(reqs[s])'
<1>1. /\ reqs' \in [Requests -> ReqRec] /\ reqs'[r] = q
      /\ \A s \in Requests \ {r} : reqs'[s] = reqs[s]
  BY Becomes DEF Inv
<1>2. ASSUME NEW s \in Requests PROVE ReqOk(reqs[s])'
  <2>1. \A t \in Requests : reqs[t] \in ReqRec /\ ReqOk(reqs[t])
    BY TypeFacts DEF Inv
  <2>2. PICK p \in ReqRec : p = reqs'[s] /\ ReqOk(p)'
    BY <1>1, <2>1
  <2> QED
    BY <2>2 DEF ReqOk, Known, Rotates, Revokes, Changes, Bears, Ends, Old
<1> QED
  BY <1>1, <1>2

LEMMA RevokeStepInv ==
    ASSUME Inv, NEW r \in Requests, RevokeStep(r)
    PROVE  /\ reqs' \in [Requests -> ReqRec] /\ StoreType' /\ StoreOk' /\ Alone'
           /\ \A s \in Requests : ReqOk(reqs[s])'
           /\ OwnFamiliesOnly
<1>1. /\ TypeOK /\ StoreOk /\ Alone /\ StoreType
  BY DEF Inv, TypeOK, StoreType
<1>2. PICK me \in ReqRec : me = reqs[r] /\ ReqOk(me)
  BY TypeFacts DEF Inv
<1>3. me.pc = "revoke" /\ me.fam \in Families /\ me.fam \in revoked /\ born[me.fam].user = me.user
  BY <1>2 DEF RevokeStep, At, ReqOk, Known, Revokes
<1>4. PICK i \in me.todo \cup Items(me.fam) :
          /\ keys' = {k \in keys : k.fam # i.fam \/ k.jti # i.jti}
          /\ meta' = [meta EXCEPT ![i.fam] = IF i.jti = 0 THEN NoMeta ELSE @]
          /\ reqs' = [reqs EXCEPT ![r].todo = @ \ {i}]
  BY <1>2 DEF RevokeStep
<1>5. i.fam = me.fam
  BY <1>1, <1>2, <1>3, <1>4, ItemsFacts DEF ReqOk, Revokes
<1>6. UNCHANGED <<users, tokens, born, consumed, revoked, late, ended, clock>>
  BY DEF RevokeStep
<1>7. Forgets
  BY <1>1, <1>3, <1>4, <1>5, <1>6 DEF Forgets, StoreType
<1>8. [me EXCEPT !.todo = me.todo \ {i}] \in ReqRec
  BY DEF ReqRec
<1>9. PICK q \in ReqRec : q = [me EXCEPT !.todo = me.todo \ {i}]
  BY <1>8
<1>10. /\ q.pc = "revoke" /\ q.fam = me.fam /\ q.user = me.user /\ q.next = me.next
       /\ q.pwd = me.pwd /\ q.fams = me.fams /\ q.todo = me.todo \ {i}
  BY <1>3, <1>9 DEF ReqRec
<1>11. reqs' = [reqs EXCEPT ![r] = q]
  BY <1>2, <1>4, <1>9
<1>12. ReqOk(q)'
  <2>1. Known(q)' /\ Rotates(q)' /\ Revokes(q)'
    BY <1>2, <1>3, <1>6, <1>10 DEF ReqOk, Known, Rotates, Revokes, Bears
  <2>2. Changes(q)'
    <3>1. q.next = "visit" => q.pwd <= users[q.user].pwd
      BY <1>2, <1>3, <1>10 DEF ReqOk, Changes, Ends
    <3>2. ASSUME q.next = "visit", NEW g \in Families, Old(g, q)'
          PROVE  g \in q.fams \/ [fam |-> g, jti |-> 0] \in q.todo
      <4>1. Old(g, me)
        BY <1>6, <1>7, <1>10, <3>2 DEF Old, Forgets
      <4>2. g \in me.fams \/ [fam |-> g, jti |-> 0] \in me.todo
        BY <1>2, <1>3, <1>10, <3>2, <4>1 DEF ReqOk, Changes
      <4>3. CASE i = [fam |-> g, jti |-> 0]
        <5>1. meta'[g] = NoMeta
          BY <1>1, <1>4, <4>3 DEF StoreType
        <5> QED
          BY <3>2, <5>1 DEF Old
      <4> QED
        BY <1>10, <4>2, <4>3
    <3> QED
      BY <1>6, <1>10, <3>1, <3>2 DEF Changes, Ends
  <2> QED
    BY <2>1, <2>2 DEF ReqOk
<1>13. \A p \in ReqRec : ReqOk(p) => ReqOk(p)'
  BY <1>1, <1>7, ForgetsKeeps
<1>14. reqs' \in [Requests -> ReqRec] /\ \A s \in Requests : ReqOk(reqs[s])'
  BY <1>11, <1>12, <1>13, RequestsAfter
<1>15. Alone'
  BY <1>1, <1>10, <1>11, AloneKept DEF Bears
<1>16. StoreType'
  <2>1. NoMeta \in [user : Users \cup {None}, exp : Nat]
    BY DEF NoMeta
  <2> QED
    BY <1>1, <1>3, <1>4, <1>5, <1>6, <2>1 DEF StoreType
<1>17. Living'
  <2>1. \A k \in keys' : k \in keys /\ k.fam \in Families
    BY <1>1, <1>7 DEF Forgets, StoreType
  <2>2. \A k \in keys' : meta'[k.fam] # NoMeta => k.exp = meta'[k.fam].exp
    BY <1>1, <1>7, <2>1 DEF StoreOk, Living, Forgets
  <2>3. KeysHaveFamily'
    <3>1. \A f \in Families : f # me.fam => meta'[f] = meta[f]
      BY <1>1, <1>4, <1>5 DEF StoreType
    <3> QED
      BY <1>1, <1>3, <1>6, <2>1, <3>1 DEF StoreOk, Living, KeysHaveFamily
  <2>4. AtMostOneLateToken'
    BY <1>1, <1>6 DEF StoreOk, Living, AtMostOneLateToken
  <2>5. ASSUME NEW t \in tokens
        PROVE  Spent(t.fam, t.jti)' \/ \E k \in keys' : k.fam = t.fam /\ k.jti = t.jti
    <3>1. CASE t.fam = me.fam
      BY <1>3, <1>6, <3>1 DEF Spent
    <3>2. CASE t.fam # me.fam
      <4>1. t.fam \in Families /\ meta'[t.fam] = meta[t.fam]
        BY <1>1, <1>4, <1>5, <3>2 DEF StoreType
      <4>2. Spent(t.fam, t.jti) \/ \E k \in keys : k.fam = t.fam /\ k.jti = t.jti
        BY <1>1 DEF StoreOk, Living
      <4>3. \A k \in keys : k.fam = t.fam => k \in keys'
        BY <1>4, <1>5, <3>2
      <4> QED
        BY <1>6, <4>1, <4>2, <4>3 DEF Spent
    <3> QED
      BY <3>1, <3>2
  <2> QED
    BY <1>6, <2>2, <2>3, <2>4, <2>5 DEF Living
<1>18. StoreOk'
  BY <1>1, <1>7, <1>17, ForgetsKeeps DEF StoreOk
<1>19. OwnFamiliesOnly
  <2>1. ASSUME NEW f \in Families, meta[f] # NoMeta, meta'[f] = NoMeta
        PROVE  At(r, "revoke") /\ reqs[r].user = meta[f].user
    <3>1. f = me.fam
      BY <1>1, <1>4, <1>5, <2>1 DEF StoreType
    <3> QED
      BY <1>1, <1>2, <1>3, <2>1, <3>1 DEF At, StoreOk, Owned
  <2> QED
    BY <2>1 DEF OwnFamiliesOnly
<1> QED
  BY <1>14, <1>15, <1>16, <1>18, <1>19

LEMMA RotateTakeInv ==
    ASSUME Inv, NEW r \in Requests, RotateTake(r)
    PROVE  /\ reqs' \in [Requests -> ReqRec] /\ StoreType' /\ StoreOk' /\ Alone'
           /\ \A s \in Requests : ReqOk(reqs[s])'
<1>1. /\ TypeOK /\ StoreOk /\ Alone /\ StoreType
  BY DEF Inv, TypeOK, StoreType
<1>2. PICK me \in ReqRec : me = reqs[r] /\ ReqOk(me)
  BY TypeFacts DEF Inv
<1>3. /\ me.pc = "user" /\ me.fam \in Families /\ me.user \in Users /\ born[me.fam].user = me.user
      /\ \E t \in tokens : t.fam = me.fam /\ t.jti = me.jti
  BY <1>2 DEF RotateTake, At, ReqOk, Known, Rotates
<1> DEFINE mine == {k \in keys : k.fam = me.fam /\ k.jti = me.jti}
           taken == [fam |-> me.fam, jti |-> me.jti]
<1>4. /\ keys' = keys \ mine
      /\ UNCHANGED <<users, meta, tokens, born, revoked, late, ended>>
      /\ IF mine = {} THEN Goto(r, "replay") /\ UNCHANGED consumed
         ELSE Goto(r, "owner") /\ consumed' = consumed \cup {taken}
  BY <1>2 DEF RotateTake
<1>5. Forgets
  BY <1>4 DEF Forgets
<1>6. StoreType'
  <2>1. taken \in [fam : Families, jti : Nat]
    BY <1>3 DEF ReqRec
  <2> QED
    BY <1>1, <1>4, <2>1 DEF StoreType
<1>7. Living'
  <2>1. \A k \in keys' : meta'[k.fam] # NoMeta => k.exp = meta'[k.fam].exp
    BY <1>1, <1>4 DEF StoreOk, Living
  <2>2. KeysHaveFamily' /\ AtMostOneLateToken'
    BY <1>1, <1>4 DEF StoreOk, Living, KeysHaveFamily, AtMostOneLateToken
  <2>3. ASSUME NEW t \in tokens
        PROVE  Spent(t.fam, t.jti)' \/ \E k \in keys' : k.fam = t.fam /\ k.jti = t.jti
    <3>1. CASE Spent(t.fam, t.jti)
      BY <1>4, <3>1 DEF Spent
    <3>2. ASSUME NEW k \in keys, k.fam = t.fam, k.jti = t.jti
          PROVE  Spent(t.fam, t.jti)' \/ k \in keys'
      <4>1. CASE k \in mine
        <5>1. taken \in consumed' /\ t.fam = me.fam /\ t.jti = me.jti
          BY <1>4, <3>2, <4>1
        <5> QED
          BY <5>1 DEF Spent
      <4>2. CASE k \notin mine
        BY <1>4, <4>2
      <4> QED
        BY <4>1, <4>2
    <3> QED
      BY <1>1, <3>1, <3>2 DEF StoreOk, Living
  <2> QED
    BY <1>4, <2>1, <2>2, <2>3 DEF Living
<1>8. StoreOk'
  BY <1>1, <1>5, <1>7, ForgetsKeeps DEF StoreOk
<1>9. \A p \in ReqRec : ReqOk(p) => ReqOk(p)'
  BY <1>1, <1>5, ForgetsKeeps
<1>10. CASE mine = {}
  <2>1. [me EXCEPT !.pc = "replay"] \in ReqRec
    BY DEF ReqRec, Pcs
  <2>2. PICK q \in ReqRec : q = [me EXCEPT !.pc = "replay"]
    BY <2>1
  <2>3. q.pc = "replay" /\ q.user = me.user /\ q.fam = me.fam /\ q.jti = me.jti
    BY <2>2 DEF ReqRec
  <2>4. reqs' = [reqs EXCEPT ![r] = q]
    BY <1>2, <1>4, <1>10, <2>2 DEF Goto
  <2>5. Spent(me.fam, me.jti)
    BY <1>1, <1>3, <1>10 DEF StoreOk, Living
  <2>6. ReqOk(q)'
    BY <1>3, <1>4, <1>10, <2>3, <2>5
       DEF ReqOk, Known, Rotates, Revokes, Changes, Bears, Ends, Spent
  <2> QED
    BY <1>1, <1>6, <1>8, <1>9, <2>3, <2>4, <2>6, RequestsAfter, AloneKept DEF Bears
<1>11. CASE mine # {}
  <2>1. [me EXCEPT !.pc = "owner"] \in ReqRec
    BY DEF ReqRec, Pcs
  <2>2. PICK q \in ReqRec : q = [me EXCEPT !.pc = "owner"]
    BY <2>1
  <2>3. q.pc = "owner" /\ q.user = me.user /\ q.fam = me.fam /\ q.jti = me.jti
    BY <2>2 DEF ReqRec
  <2>4. reqs' = [reqs EXCEPT ![r] = q]
    BY <1>2, <1>4, <1>11, <2>2 DEF Goto
  <2>5. PICK k \in keys : k.fam = me.fam /\ k.jti = me.jti
    BY <1>11
  <2>6. me.jti = Card(me.fam) /\ \A l \in keys' : l.fam # me.fam
    BY <1>1, <1>4, <2>5 DEF StoreOk, Chain
  <2>7. Rotates(q)'
    BY <1>4, <2>3, <2>6 DEF Rotates, Bears, Card
  <2>8. ReqOk(q)'
    BY <1>3, <1>4, <2>3, <2>7 DEF ReqOk, Known, Revokes, Changes, Ends
  <2>9. \A s \in Requests \ {r} : Bears(reqs[s]) => reqs[s].fam # q.fam
    BY <2>3, <2>5 DEF Inv, ReqOk, Rotates
  <2> QED
    BY <1>1, <1>6, <1>8, <1>9, <2>4, <2>8, <2>9, RequestsAfter, AloneKept
<1> QED
  BY <1>10, <1>11

(* Time: a token and its family go together.                                *)
LEMMA TickInv ==
    ASSUME Inv, Tick
    PROVE  /\ reqs' \in [Requests -> ReqRec] /\ StoreType' /\ StoreOk' /\ Alone'
           /\ \A s \in Requests : ReqOk(reqs[s])'
<1>1. /\ TypeOK /\ StoreOk /\ Alone /\ StoreType /\ clock \in Nat
  BY DEF Inv, TypeOK, StoreType
<1>2. /\ keys' = {k \in keys : k.exp > clock + 1}
      /\ meta' = [f \in Families |-> IF meta[f].exp > clock + 1 THEN meta[f] ELSE NoMeta]
      /\ UNCHANGED <<users, tokens, reqs, born, consumed, revoked, late, ended>>
  BY DEF Tick
<1>3. Forgets
  BY <1>2 DEF Forgets
<1>4. StoreType'
  <2>1. NoMeta \in [user : Users \cup {None}, exp : Nat]
    BY DEF NoMeta
  <2> QED
    BY <1>1, <1>2, <2>1 DEF StoreType
<1>5. Living'
  <2>1. \A k \in keys' : k \in keys /\ k.fam \in Families /\ k.exp > clock + 1
    BY <1>1, <1>2 DEF StoreType
  <2>2. \A k \in keys' : meta[k.fam] # NoMeta => meta'[k.fam] = meta[k.fam]
    BY <1>1, <1>2, <2>1 DEF StoreOk, Living
  <2>3. \A k \in keys' : meta'[k.fam] # NoMeta => k.exp = meta'[k.fam].exp
    BY <1>1, <1>2, <2>1 DEF StoreOk, Living
  <2>4. KeysHaveFamily' /\ AtMostOneLateToken'
    BY <1>1, <1>2, <2>1, <2>2 DEF StoreOk, Living, KeysHaveFamily, AtMostOneLateToken
  <2>5. ASSUME NEW t \in tokens
        PROVE  Spent(t.fam, t.jti)' \/ \E k \in keys' : k.fam = t.fam /\ k.jti = t.jti
    <3>1. t.fam \in Families
      BY <1>1 DEF StoreType
    <3>2. CASE Spent(t.fam, t.jti)
      BY <1>2, <1>3, <3>1, <3>2 DEF Spent, Forgets
    <3>3. ASSUME NEW k \in keys, k.fam = t.fam, k.jti = t.jti, k \notin keys'
          PROVE  meta'[t.fam] = NoMeta
      <4>1. ~(k.exp > clock + 1)
        BY <1>2, <3>3
      <4>2. meta[t.fam] = NoMeta \/ meta[t.fam].exp = k.exp
        BY <1>1, <3>3 DEF StoreOk, Living
      <4> QED
        BY <1>2, <3>1, <4>1, <4>2
    <3> QED
      BY <1>1, <3>2, <3>3 DEF StoreOk, Living, Spent
  <2> QED
    BY <1>2, <2>3, <2>4, <2>5 DEF Living
<1>6. StoreOk' /\ \A p \in ReqRec : ReqOk(p) => ReqOk(p)'
  BY <1>1, <1>3, <1>5, ForgetsKeeps DEF StoreOk
<1>7. ASSUME NEW s \in Requests PROVE ReqOk(reqs[s])'
  <2>1. PICK p \in ReqRec : p = reqs[s] /\ ReqOk(p) /\ ReqOk(p)'
    BY <1>6, TypeFacts DEF Inv
  <2>2. reqs'[s] = p
    BY <1>2, <2>1
  <2> QED
    BY <2>1, <2>2 DEF ReqOk, Known, Rotates, Revokes, Changes, Bears, Ends, Old
<1>8. Alone'
  BY <1>1, <1>2 DEF Alone, Bears
<1> QED
  BY <1>1, <1>2, <1>4, <1>6, <1>7, <1>8, TypeFacts

(* The next token of a family.                                              *)
LEMMA RotateSetInv ==
    ASSUME Inv, NEW r \in Requests, RotateSet(r)
    PROVE  /\ reqs' \in [Requests -> ReqRec] /\ StoreType' /\ StoreOk' /\ Alone'
           /\ \A s \in Requests : ReqOk(reqs[s])'
<1>1. /\ TypeOK /\ StoreOk /\ Alone /\ StoreType /\ clock + RefreshTtl \in Nat
      /\ Owned /\ Chain /\ Living /\ Past
  BY TimeAssumption DEF Inv, TypeOK, StoreType, StoreOk
<1>2. PICK me \in ReqRec : me = reqs[r] /\ ReqOk(me)
  BY TypeFacts DEF Inv
<1>3. /\ me.pc = "set" /\ me.user \in Users /\ born[me.fam].user = me.user
      /\ me.jti = Card(me.fam) /\ \A k \in keys : k.fam # me.fam
      /\ late[me.fam] = 0
  BY <1>2 DEF RotateSet, At, ReqOk, Known, Rotates, Bears
<1>4. PICK f \in Families : f = me.fam
  BY <1>2, <1>3 DEF ReqOk, Known
<1>5. PICK exp \in Nat : exp = clock + RefreshTtl
  BY <1>1
<1>6. PICK n \in Nat : n = Card(f) /\ me.jti = n
  BY <1>1, <1>3, <1>4, CardFacts
<1> DEFINE key == [fam |-> f, jti |-> n + 1, exp |-> exp]
           next == [user |-> me.user, fam |-> f, jti |-> n + 1, parent |-> n, exp |-> exp]
<1>7. /\ keys' = keys \cup {key} /\ tokens' = tokens \cup {next}
      /\ meta' = [meta EXCEPT ![f].exp = IF meta[f] = NoMeta THEN 0 ELSE exp]
      /\ late' = [late EXCEPT ![f] = IF meta[f] = NoMeta THEN @ + 1 ELSE @]
      /\ Goto(r, "ok")
      /\ UNCHANGED <<users, born, consumed, revoked, ended>>
  BY <1>2, <1>4, <1>5, <1>6 DEF RotateSet, Card
<1>8. next \notin tokens
  BY <1>1, <1>4, <1>6 DEF Chain
<1>9. /\ IsFiniteSet(tokens') /\ Card(f)' = n + 1
      /\ \A g \in Families : g # f => Card(g)' = Card(g)
  <2>1. next.fam = f
    OBVIOUS
  <2>2. \A g \in Families : Card(g)' = IF g = next.fam THEN Card(g) + 1 ELSE Card(g)
    BY <1>1, <1>7, <1>8, CardGrows
  <2>3. IsFiniteSet(tokens')
    BY <1>1, <1>7, <1>8, CardGrows
  <2> HIDE DEF next
  <2> QED
    BY <1>6, <2>1, <2>2, <2>3
<1>10. /\ meta'[f] = NoMeta <=> meta[f] = NoMeta
       /\ meta'[f].user = meta[f].user
       /\ meta[f] # NoMeta => meta'[f].exp = exp
       /\ \A g \in Families : g # f => meta'[g] = meta[g] /\ late'[g] = late[g]
       /\ late'[f] = IF meta[f] = NoMeta THEN 1 ELSE 0
  <2>1. /\ meta[f] \in [user : Users \cup {None}, exp : Nat] /\ late[f] = 0
        /\ meta[f] # NoMeta => meta[f].user # None
    BY <1>1, <1>3, <1>4 DEF StoreType, Owned
  <2>2. meta'[f] = [meta[f] EXCEPT !.exp = IF meta[f] = NoMeta THEN 0 ELSE exp]
    BY <1>1, <1>7 DEF StoreType
  <2>3. meta[f] = NoMeta => meta'[f] = NoMeta
    BY <2>1, <2>2 DEF NoMeta
  <2>4. meta[f] # NoMeta => meta'[f].user = meta[f].user /\ meta'[f].exp = exp
    BY <2>1, <2>2
  <2>5. NoMeta.user = None
    BY DEF NoMeta
  <2>6. meta[f] # NoMeta => meta'[f] # NoMeta
    BY <2>1, <2>4, <2>5
  <2>7. late'[f] = IF meta[f] = NoMeta THEN 1 ELSE 0
    BY <1>1, <1>7, <2>1 DEF StoreType
  <2>8. \A g \in Families : g # f => meta'[g] = meta[g] /\ late'[g] = late[g]
    BY <1>1, <1>7 DEF StoreType
  <2> QED
    BY <2>3, <2>4, <2>6, <2>7, <2>8
<1>11. StoreType'
  <2>1. meta'[f] \in [user : Users \cup {None}, exp : Nat]
    BY <1>1, <1>7 DEF StoreType
  <2>2. meta' \in [Families -> [user : Users \cup {None}, exp : Nat]]
    BY <1>1, <1>7, <2>1 DEF StoreType
  <2>3. late' \in [Families -> Nat]
    BY <1>1, <1>7, <1>10 DEF StoreType
  <2>4. /\ key \in [fam : Families, jti : Nat, exp : Nat]
        /\ next \in [user : Users, fam : Families, jti : Nat, parent : Nat, exp : Nat]
    BY <1>3
  <2> QED
    BY <1>1, <1>7, <2>2, <2>3, <2>4 DEF StoreType
<1>12. \A t \in tokens : t.fam \in Families /\ t.jti \in Nat /\ t.parent \in Nat
  BY <1>1 DEF StoreType
<1>13. \A k \in keys : k.fam \in Families /\ k.fam # f
  BY <1>1, <1>3, <1>4 DEF StoreType
<1>14. Owned'
  <2>1. /\ \A t \in tokens' : born'[t.fam].user = t.user
        /\ \A k \in keys' : born'[k.fam].user # None
    BY <1>1, <1>3, <1>4, <1>7, NoneAssumption DEF Owned
  <2>2. ASSUME NEW g \in Families
        PROVE  /\ meta'[g] # NoMeta => meta'[g].user = born'[g].user /\ meta'[g].user # None
               /\ late'[g] > 0 => meta'[g] = NoMeta /\ born'[g].user # None
    BY <1>1, <1>3, <1>4, <1>7, <1>10, NoneAssumption DEF Owned
  <2> QED
    BY <2>1, <2>2 DEF Owned
<1>15. Chain'
  <2>1. ASSUME NEW t \in tokens'
        PROVE  t.parent < t.jti /\ t.jti <= Card(t.fam)'
    <3>1. CASE t = next
      BY <1>9, <3>1
    <3>2. CASE t \in tokens
      BY <1>1, <1>6, <1>9, <1>12, <3>2 DEF Chain
    <3> QED
      BY <1>7, <3>1, <3>2
  <2>2. ASSUME NEW k \in keys'
        PROVE  k.jti = Card(k.fam)'
    <3>1. CASE k = key
      BY <1>9, <3>1
    <3>2. CASE k \in keys
      BY <1>1, <1>9, <1>13, <3>2 DEF Chain
    <3> QED
      BY <1>7, <3>1, <3>2
  <2>3. \A k, l \in keys' : k.fam = l.fam => k = l
    BY <1>1, <1>7, <1>13 DEF Chain
  <2>4. \A t \in tokens : t.fam = f => t.parent # n
    BY <1>1, <1>6, <1>12 DEF Chain
  <2>5. SingleUse'
    BY <1>1, <1>7, <2>4 DEF SingleUse, Chain
  <2> QED
    BY <1>9, <2>1, <2>2, <2>3, <2>5 DEF Chain
<1>16. Living'
  <2>1. ASSUME NEW k \in keys'
        PROVE  /\ meta'[k.fam] # NoMeta => k.exp = meta'[k.fam].exp
               /\ meta'[k.fam] # NoMeta \/ k.fam \in revoked' \/ late'[k.fam] > 0
    <3>1. CASE k = key
      BY <1>10, <3>1
    <3>2. CASE k \in keys
      BY <1>1, <1>7, <1>10, <1>13, <3>2 DEF Living, KeysHaveFamily
    <3> QED
      BY <1>7, <3>1, <3>2
  <2>2. AtMostOneLateToken'
    BY <1>1, <1>10 DEF Living, AtMostOneLateToken, StoreType
  <2>3. ASSUME NEW t \in tokens'
        PROVE  Spent(t.fam, t.jti)' \/ \E k \in keys' : k.fam = t.fam /\ k.jti = t.jti
    <3>1. CASE t = next
      <4>1. key \in keys' /\ key.fam = t.fam /\ key.jti = t.jti
        BY <1>7, <3>1
      <4> QED
        BY <4>1
    <3>2. CASE t \in tokens
      <4>1. Spent(t.fam, t.jti) => Spent(t.fam, t.jti)'
        BY <1>7, <1>10, <1>12, <3>2 DEF Spent
      <4> QED
        BY <1>1, <1>7, <3>2, <4>1 DEF Living
    <3> QED
      BY <1>7, <3>1, <3>2
  <2> QED
    BY <2>1, <2>2, <2>3 DEF Living, KeysHaveFamily
<1>17. Past'
  <2>1. \A g \in Families : meta'[g] # NoMeta => meta[g] # NoMeta /\ meta'[g].user = meta[g].user
    BY <1>10
  <2> QED
    BY <1>1, <1>7, <2>1 DEF Past, OldSessionsEnd
<1>18. StoreOk'
  BY <1>14, <1>15, <1>16, <1>17 DEF StoreOk
<1>19. ASSUME NEW p \in ReqRec, NEW s \in Requests \ {r}, p = reqs[s], ReqOk(p) PROVE ReqOk(p)'
  <2>1. Bears(p) => p.fam # f
    BY <1>1, <1>2, <1>3, <1>4, <1>19 DEF Alone, Bears
  <2>2. p.pc \in {"user", "owner", "set", "replay", "revoke"} => p.fam \in Families
    BY <1>19 DEF ReqOk, Known
  <2>3. Known(p)' /\ Revokes(p)'
    BY <1>7, <1>19 DEF ReqOk, Known, Revokes
  <2>4. Rotates(p)'
    <3>1. Bears(p) => p.jti = Card(p.fam)' /\ \A k \in keys' : k.fam # p.fam
      BY <1>7, <1>9, <1>19, <2>1, <2>2 DEF ReqOk, Rotates, Bears
    <3>2. p.pc = "user" => \E t \in tokens' : t.fam = p.fam /\ t.jti = p.jti
      BY <1>7, <1>19 DEF ReqOk, Rotates
    <3>3. p.pc = "set" => late'[p.fam] = 0
      BY <1>10, <1>19, <2>1, <2>2 DEF ReqOk, Rotates, Bears
    <3>4. p.pc = "replay" => Spent(p.fam, p.jti)'
      BY <1>7, <1>10, <1>19, <2>2 DEF ReqOk, Rotates, Spent
    <3> QED
      BY <3>1, <3>2, <3>3, <3>4 DEF Rotates, Bears
  <2>5. Changes(p)'
    <3>1. \A g \in Families : Old(g, p)' => Old(g, p)
      BY <1>7, <1>10 DEF Old
    <3> QED
      BY <1>7, <1>19, <3>1 DEF ReqOk, Changes, Ends
  <2> QED
    BY <2>3, <2>4, <2>5 DEF ReqOk
<1>20. [me EXCEPT !.pc = "ok"] \in ReqRec
  BY DEF ReqRec, Pcs
<1>21. PICK q \in ReqRec : q = [me EXCEPT !.pc = "ok"]
  BY <1>20
<1>22. q.pc = "ok" /\ reqs' = [reqs EXCEPT ![r] = q]
  BY <1>2, <1>7, <1>21 DEF Goto, ReqRec
<1>23. ReqOk(q)' /\ ~Bears(q)
  BY <1>22 DEF ReqOk, Known, Rotates, Revokes, Changes, Bears, Ends
<1>24. Alone'
  BY <1>1, <1>22, <1>23, AloneKept
<1> QED
  BY <1>11, <1>18, <1>19, <1>22, <1>23, <1>24, RequestsAfter

(* A new family.                                                            *)
LEMMA LoginMintInv ==
    ASSUME Inv, NEW r \in Requests, LoginMint(r)
    PROVE  /\ reqs' \in [Requests -> ReqRec] /\ StoreType' /\ StoreOk' /\ Alone'
           /\ \A s \in Requests : ReqOk(reqs[s])'
<1>1. /\ TypeOK /\ StoreOk /\ Alone /\ StoreType /\ clock + RefreshTtl \in Nat
      /\ Owned /\ Chain /\ Living /\ Past
  BY TimeAssumption DEF Inv, TypeOK, StoreType, StoreOk
<1>2. PICK u \in Users : u = reqs[r].user
  BY DEF LoginMint, At, Inv, ReqOk, Known
<1>3. PICK exp \in Nat : exp = clock + RefreshTtl
  BY <1>1
<1>4. PICK pwd \in Nat : pwd = users[u].pwd
  BY <1>1 DEF TypeOK
<1>5. PICK f \in Families :
        /\ born[f].user = None
        /\ keys' = keys \cup {[fam |-> f, jti |-> 1, exp |-> exp]}
        /\ meta' = [meta EXCEPT ![f] = [user |-> u, exp |-> exp]]
        /\ tokens' = tokens \cup {[user |-> u, fam |-> f, jti |-> 1, parent |-> 0, exp |-> exp]}
        /\ born' = [born EXCEPT ![f] = [user |-> u, at |-> pwd]]
  BY <1>2, <1>3, <1>4 DEF LoginMint
<1>6. Finish(r) /\ UNCHANGED <<users, consumed, revoked, late, ended>>
  BY DEF LoginMint
<1> DEFINE key == [fam |-> f, jti |-> 1, exp |-> exp]
           first == [user |-> u, fam |-> f, jti |-> 1, parent |-> 0, exp |-> exp]
<1>7. u # None
  BY NoneAssumption
<1>8. /\ \A t \in tokens : t.fam # f /\ t.fam \in Families /\ t.jti \in Nat /\ t.parent \in Nat
      /\ \A k \in keys : k.fam # f /\ k.fam \in Families
      /\ meta[f] = NoMeta /\ late[f] = 0
  <2>1. \A t \in tokens : t.user # None
    BY <1>1, NoneAssumption DEF StoreType
  <2> QED
    BY <1>1, <1>5, <2>1 DEF Owned, StoreType
<1>9. /\ meta'[f] = [user |-> u, exp |-> exp] /\ meta'[f] # NoMeta
      /\ born'[f] = [user |-> u, at |-> pwd]
      /\ \A g \in Families : g # f => meta'[g] = meta[g] /\ born'[g] = born[g]
  BY <1>1, <1>5, <1>7 DEF StoreType, NoMeta
<1>10. first \notin tokens
  BY <1>8
<1>11. /\ IsFiniteSet(tokens') /\ Card(f)' = 1
       /\ \A g \in Families : g # f => Card(g)' = Card(g)
  <2>1. first.fam = f /\ Card(f) = 0
    BY <1>1, <1>8, CardFacts
  <2>2. \A g \in Families : Card(g)' = IF g = first.fam THEN Card(g) + 1 ELSE Card(g)
    BY <1>1, <1>5, <1>10, CardGrows
  <2>3. IsFiniteSet(tokens')
    BY <1>1, <1>5, <1>10, CardGrows
  <2> HIDE DEF first
  <2> QED
    BY <2>1, <2>2, <2>3
<1>12. StoreType'
  <2>1. /\ key \in [fam : Families, jti : Nat, exp : Nat]
        /\ first \in [user : Users, fam : Families, jti : Nat, parent : Nat, exp : Nat]
        /\ [user |-> u, exp |-> exp] \in [user : Users \cup {None}, exp : Nat]
        /\ [user |-> u, at |-> pwd] \in [user : Users \cup {None}, at : Nat]
    OBVIOUS
  <2> QED
    BY <1>1, <1>5, <1>6, <2>1 DEF StoreType
<1>13. Owned'
  <2>1. \A t \in tokens' : born'[t.fam].user = t.user
    BY <1>1, <1>5, <1>8, <1>9 DEF Owned
  <2>2. \A k \in keys' : born'[k.fam].user # None
    BY <1>1, <1>5, <1>7, <1>8, <1>9 DEF Owned
  <2>3. ASSUME NEW g \in Families
        PROVE  /\ meta'[g] # NoMeta => meta'[g].user = born'[g].user /\ meta'[g].user # None
               /\ late'[g] > 0 => meta'[g] = NoMeta /\ born'[g].user # None
    BY <1>1, <1>6, <1>7, <1>8, <1>9 DEF Owned
  <2> QED
    BY <2>1, <2>2, <2>3 DEF Owned
<1>14. Chain'
  <2>1. ASSUME NEW t \in tokens'
        PROVE  t.parent < t.jti /\ t.jti <= Card(t.fam)'
    <3>1. CASE t = first
      BY <1>11, <3>1
    <3>2. CASE t \in tokens
      BY <1>1, <1>8, <1>11, <3>2 DEF Chain
    <3> QED
      BY <1>5, <3>1, <3>2
  <2>2. ASSUME NEW k \in keys'
        PROVE  k.jti = Card(k.fam)'
    <3>1. CASE k = key
      BY <1>11, <3>1
    <3>2. CASE k \in keys
      BY <1>1, <1>8, <1>11, <3>2 DEF Chain
    <3> QED
      BY <1>5, <3>1, <3>2
  <2>3. \A k, l \in keys' : k.fam = l.fam => k = l
    BY <1>1, <1>5, <1>8 DEF Chain
  <2>4. SingleUse'
    BY <1>1, <1>5, <1>8 DEF SingleUse, Chain
  <2> QED
    BY <1>11, <2>1, <2>2, <2>3, <2>4 DEF Chain
<1>15. Living'
  <2>1. ASSUME NEW k \in keys'
        PROVE  /\ meta'[k.fam] # NoMeta => k.exp = meta'[k.fam].exp
               /\ meta'[k.fam] # NoMeta \/ k.fam \in revoked' \/ late'[k.fam] > 0
    <3>1. CASE k = key
      BY <1>9, <3>1
    <3>2. CASE k \in keys
      BY <1>1, <1>6, <1>8, <1>9, <3>2 DEF Living, KeysHaveFamily
    <3> QED
      BY <1>5, <3>1, <3>2
  <2>2. AtMostOneLateToken'
    BY <1>1, <1>6 DEF Living, AtMostOneLateToken
  <2>3. ASSUME NEW t \in tokens'
        PROVE  Spent(t.fam, t.jti)' \/ \E k \in keys' : k.fam = t.fam /\ k.jti = t.jti
    <3>1. CASE t = first
      <4>1. key \in keys' /\ key.fam = t.fam /\ key.jti = t.jti
        BY <1>5, <3>1
      <4> QED
        BY <4>1
    <3>2. CASE t \in tokens
      <4>1. Spent(t.fam, t.jti) => Spent(t.fam, t.jti)'
        BY <1>6, <1>8, <1>9, <3>2 DEF Spent
      <4> QED
        BY <1>1, <1>5, <3>2, <4>1 DEF Living
    <3> QED
      BY <1>5, <3>1, <3>2
  <2> QED
    BY <2>1, <2>2, <2>3 DEF Living, KeysHaveFamily
<1>16. Past'
  BY <1>1, <1>4, <1>6, <1>9 DEF Past, OldSessionsEnd
<1>17. StoreOk'
  BY <1>13, <1>14, <1>15, <1>16 DEF StoreOk
<1>18. ASSUME NEW p \in ReqRec, ReqOk(p) PROVE ReqOk(p)'
  <2>1. p.pc \in {"user", "owner", "set", "replay", "revoke"} => p.fam \in Families \ {f}
    BY <1>5, <1>18, NoneAssumption DEF ReqOk, Known
  <2>2. Known(p)' /\ Revokes(p)'
    BY <1>6, <1>9, <1>18, <2>1 DEF ReqOk, Known, Revokes
  <2>3. Rotates(p)'
    <3>1. Bears(p) => p.jti = Card(p.fam)' /\ \A k \in keys' : k.fam # p.fam
      BY <1>5, <1>11, <1>18, <2>1 DEF ReqOk, Rotates, Bears
    <3>2. p.pc = "user" => \E t \in tokens' : t.fam = p.fam /\ t.jti = p.jti
      BY <1>5, <1>18 DEF ReqOk, Rotates
    <3>3. p.pc = "set" => late'[p.fam] = 0
      BY <1>6, <1>18 DEF ReqOk, Rotates
    <3>4. p.pc = "replay" => Spent(p.fam, p.jti)'
      BY <1>6, <1>9, <1>18, <2>1 DEF ReqOk, Rotates, Spent
    <3> QED
      BY <3>1, <3>2, <3>3, <3>4 DEF Rotates, Bears
  <2>4. Changes(p)'
    <3>1. Ends(p) => p.pwd <= users[p.user].pwd
      BY <1>18 DEF ReqOk, Changes
    <3>2. Ends(p) => ~Old(f, p)'
      BY <1>4, <1>9, <3>1 DEF Old, ReqRec
    <3>3. \A g \in Families : g # f /\ Old(g, p)' => Old(g, p)
      BY <1>9 DEF Old
    <3> QED
      BY <1>6, <1>18, <3>1, <3>2, <3>3 DEF ReqOk, Changes, Ends
  <2> QED
    BY <2>2, <2>3, <2>4 DEF ReqOk
<1>19. Idle \in ReqRec /\ Idle.pc = "idle" /\ reqs' = [reqs EXCEPT ![r] = Idle]
  BY <1>1, <1>6, TypeFacts DEF Finish, Become, Idle
<1>20. PICK q \in ReqRec : q.pc = "idle" /\ reqs' = [reqs EXCEPT ![r] = q]
  BY <1>19
<1>21. ReqOk(q)' /\ ~Bears(q)
  BY <1>20 DEF ReqOk, Known, Rotates, Revokes, Changes, Bears, Ends
<1>22. Alone'
  BY <1>1, <1>20, <1>21, AloneKept
<1> QED
  BY <1>12, <1>17, <1>18, <1>20, <1>21, <1>22, RequestsAfter

(* A new password, and the end of its request.                              *)
LEMMA ChangeCommitInv ==
    ASSUME Inv, NEW r \in Requests, ChangeCommit(r), [Next]_vars
    PROVE  /\ reqs' \in [Requests -> ReqRec] /\ StoreType' /\ StoreOk' /\ Alone'
           /\ \A s \in Requests : ReqOk(reqs[s])'
<1>1. TypeOK /\ StoreOk /\ Alone /\ StoreType
  BY DEF Inv, TypeOK, StoreType
<1>2. PICK me \in ReqRec : me = reqs[r] /\ me.user \in Users
  BY TypeFacts DEF ChangeCommit, At, Inv, ReqOk, Known
<1>3. UNCHANGED <<keys, meta, tokens, born, consumed, revoked, late, ended>>
  BY DEF ChangeCommit, store
<1>4. /\ \A u \in Users : users[u].pwd <= users'[u].pwd
      /\ users' \in [Users -> [state : {"active", "inactive", "deleted"}, pwd : Nat]]
  BY <1>1, AccountsStep
<1>5. StoreType' /\ StoreOk'
  BY <1>1, <1>3, <1>4, StoreKept DEF StoreType
<1>6. \A p \in ReqRec : ReqOk(p) => ReqOk(p)'
  BY <1>1, <1>3, <1>4, RequestKept
<1>7. \E q \in ReqRec : reqs' = [reqs EXCEPT ![r] = q] /\ ReqOk(q)' /\ ~Bears(q)
  <2>1. CASE users[me.user].state = "deleted"
    <3>1. PICK q \in ReqRec : q = Idle /\ q.pc = "idle"
      BY <1>1, TypeFacts DEF Idle
    <3>2. reqs' = [reqs EXCEPT ![r] = q]
      BY <1>2, <2>1, <3>1 DEF ChangeCommit, Finish, Become
    <3>3. ReqOk(q)' /\ ~Bears(q)
      BY <3>1 DEF ReqOk, Known, Rotates, Revokes, Changes, Bears, Ends
    <3> QED
      BY <3>2, <3>3
  <2>2. CASE users[me.user].state # "deleted"
    <3>1. PICK n \in Nat : n = users[me.user].pwd + 1
      BY <1>1, <1>2 DEF TypeOK
    <3>2. [me EXCEPT !.pc = "scan", !.pwd = n] \in ReqRec
      BY DEF ReqRec, Pcs
    <3>3. PICK q \in ReqRec : q = [me EXCEPT !.pc = "scan", !.pwd = n]
      BY <3>2
    <3>4. q.pc = "scan" /\ q.user = me.user /\ q.pwd = n
      BY <3>3 DEF ReqRec
    <3>5. reqs' = [reqs EXCEPT ![r] = q]
      BY <1>2, <2>2, <3>1, <3>3 DEF ChangeCommit
    <3>6. users'[me.user].pwd = n
      BY <1>1, <1>2, <2>2, <3>1 DEF ChangeCommit, TypeOK
    <3>7. ReqOk(q)' /\ ~Bears(q)
      BY <1>2, <3>4, <3>6 DEF ReqOk, Known, Rotates, Revokes, Changes, Bears, Ends
    <3> QED
      BY <3>5, <3>7
  <2> QED
    BY <2>1, <2>2
<1> QED
  BY <1>1, <1>5, <1>6, <1>7, RequestsAfter, AloneKept

LEMMA ChangeDoneInv ==
    ASSUME Inv, NEW r \in Requests, ChangeDone(r)
    PROVE  /\ reqs' \in [Requests -> ReqRec] /\ StoreType' /\ StoreOk' /\ Alone'
           /\ \A s \in Requests : ReqOk(reqs[s])'
<1>1. TypeOK /\ StoreOk /\ Alone /\ StoreType
  BY DEF Inv, TypeOK, StoreType
<1>2. PICK me \in ReqRec : me = reqs[r] /\ ReqOk(me)
  BY TypeFacts DEF Inv
<1>3. me.pc = "visit" /\ me.fams = {} /\ me.user \in Users
  BY <1>2 DEF ChangeDone, At, ReqOk, Known
<1>4. me.pwd \in Nat /\ me.pwd <= users[me.user].pwd /\ \A f \in Families : ~Old(f, me)
  BY <1>2, <1>3 DEF ReqOk, Changes, Ends, ReqRec
<1>5. /\ ended' = [ended EXCEPT ![me.user] = IF @ > me.pwd THEN @ ELSE me.pwd]
      /\ UNCHANGED <<users, keys, meta, tokens, born, consumed, revoked, late>> /\ Finish(r)
  BY <1>2 DEF ChangeDone, store
<1>6. StoreType'
  BY <1>1, <1>4, <1>5 DEF StoreType
<1>7. Past'
  <2>1. ASSUME NEW f \in Families, meta'[f] # NoMeta
        PROVE  born'[f].at >= ended'[meta'[f].user]
    <3>1. /\ meta[f] # NoMeta /\ meta[f].user \in Users /\ born[f].at \in Nat
          /\ born[f].at >= ended[meta[f].user]
      BY <1>1, <1>5, <2>1 DEF StoreType, StoreOk, Owned, Past, OldSessionsEnd
    <3>2. meta[f].user = me.user => born[f].at >= me.pwd
      BY <1>4, <3>1 DEF Old
    <3> QED
      BY <1>1, <1>5, <3>1, <3>2 DEF StoreType
  <2>2. \A u \in Users : ended'[u] <= users'[u].pwd
    BY <1>1, <1>4, <1>5 DEF StoreType, StoreOk, Past
  <2> QED
    BY <2>1, <2>2 DEF Past, OldSessionsEnd
<1>8. Owned' /\ Chain' /\ Living'
  BY <1>1, <1>5 DEF StoreOk, Owned, Chain, Living, SingleUse, Card, KeysHaveFamily,
                    AtMostOneLateToken, Spent
<1>9. ASSUME NEW p \in ReqRec, ReqOk(p) PROVE ReqOk(p)'
  BY <1>5, <1>9 DEF ReqOk, Known, Rotates, Revokes, Changes, Bears, Ends, Old, Card, Spent
<1>10. PICK q \in ReqRec : q = Idle /\ q.pc = "idle"
  BY <1>1, TypeFacts DEF Idle
<1>11. reqs' = [reqs EXCEPT ![r] = q]
  BY <1>5, <1>10 DEF Finish, Become
<1>12. ReqOk(q)' /\ ~Bears(q)
  BY <1>10 DEF ReqOk, Known, Rotates, Revokes, Changes, Bears, Ends
<1> QED
  BY <1>1, <1>6, <1>7, <1>8, <1>9, <1>11, <1>12, RequestsAfter, AloneKept DEF StoreOk

LEMMA OutsideInv ==
    ASSUME Inv, Administers \/ UNCHANGED vars, [Next]_vars
    PROVE  /\ reqs' \in [Requests -> ReqRec] /\ StoreType' /\ StoreOk' /\ Alone'
           /\ \A s \in Requests : ReqOk(reqs[s])'
<1>1. TypeOK /\ StoreOk /\ Alone /\ StoreType
  BY DEF Inv, TypeOK, StoreType
<1>2. UNCHANGED <<reqs, keys, meta, tokens, born, consumed, revoked, late, ended>>
  BY DEF Administers, AdminSet, AdminReset, store, vars
<1>3. /\ \A u \in Users : users[u].pwd <= users'[u].pwd
      /\ users' \in [Users -> [state : {"active", "inactive", "deleted"}, pwd : Nat]]
  BY <1>1, AccountsStep
<1>4. StoreType' /\ StoreOk'
  BY <1>1, <1>2, <1>3, StoreKept DEF StoreType
<1>5. ASSUME NEW s \in Requests PROVE ReqOk(reqs[s])'
  <2>1. PICK p \in ReqRec : p = reqs[s] /\ ReqOk(p)
    BY TypeFacts DEF Inv
  <2>2. ReqOk(p)'
    BY <1>1, <1>2, <1>3, <2>1, RequestKept
  <2>3. reqs'[s] = p
    BY <1>2, <2>1
  <2> QED
    BY <2>2, <2>3 DEF ReqOk, Known, Rotates, Revokes, Changes, Bears, Ends, Old
<1>6. Alone'
  BY <1>1, <1>2 DEF Alone, Bears
<1> QED
  BY <1>1, <1>2, <1>4, <1>5, <1>6, TypeFacts

-----------------------------------------------------------------------------
LEMMA InitInv == Init => Inv
<1> SUFFICES ASSUME Init PROVE Inv
  OBVIOUS
<1>1. TypeOK
  BY BudgetAssumption DEF Init, TypeOK, Idle, NoMeta, NoHits
<1>2. Owned /\ Living /\ Alone
  BY DEF Init, Owned, Living, Alone, KeysHaveFamily, AtMostOneLateToken, Bears, Idle
<1>3. Chain
  BY FS_EmptySet DEF Init, Chain, SingleUse
<1>4. Past
  BY DEF Init, Past, OldSessionsEnd
<1>5. \A r \in Requests : ReqOk(reqs[r])
  BY DEF Init, Idle, ReqOk, Known, Rotates, Revokes, Changes, Bears, Ends
<1> QED
  BY <1>1, <1>2, <1>3, <1>4, <1>5 DEF Inv, StoreOk

LEMMA StepInv == Inv /\ [Next]_vars => Inv'
<1> SUFFICES ASSUME Inv, [Next]_vars PROVE Inv'
  OBVIOUS
<1>1. TypeOK /\ StoreType
  BY DEF Inv, TypeOK, StoreType
<1>2. /\ throttle' \in [Buckets -> [n : Nat, exp : Nat]]
      /\ users' \in [Users -> [state : {"active", "inactive", "deleted"}, pwd : Nat]]
      /\ budget' \in [Kinds -> Nat] /\ clock' \in Nat
  BY <1>1, ThrottleStep, AccountsStep
<1> DEFINE Goal == /\ reqs' \in [Requests -> ReqRec] /\ StoreType' /\ StoreOk' /\ Alone'
                   /\ \A s \in Requests : ReqOk(reqs[s])'
<1>3. ASSUME NEW r \in Requests, Talks(r) PROVE Goal
  <2>1. StoreType'
    BY <1>1, <1>3, TalksStep DEF store, StoreType
  <2> QED
    BY <1>3, <2>1, TalksInv
<1>4. ASSUME NEW r \in Requests, Wipes(r) PROVE Goal
  <2>1. StoreType'
    BY <1>1, <1>4, WipesStep DEF StoreType
  <2> QED
    BY <1>4, <2>1, WipesInv
<1>5. Goal
  BY <1>3, <1>4, StepKinds, LoginMintInv, RotateTakeInv, RotateSetInv, RevokeStepInv,
     ChangeCommitInv, ChangeDoneInv, TickInv, OutsideInv
<1>6. TypeOK'
  BY <1>2, <1>5 DEF TypeOK, StoreType, ReqRec, Pcs
<1> QED
  BY <1>5, <1>6 DEF Inv

(* A family is taken for reused, or wiped, for a cause of its user's.       *)
LEMMA ReplayStep ==
    ASSUME Inv, [Next]_vars, NEW r \in Requests, At(r, "replay"), reqs'[r].pc = "revoke"
    PROVE  RotateReplay(r) /\ meta[reqs[r].fam] # NoMeta
<1>1. TypeOK /\ reqs[r] \in ReqRec /\ Idle \in ReqRec /\ reqs[r].pc = "replay"
      /\ reqs \in [Requests -> ReqRec]
  BY TypeFacts DEF Inv, At
<1>2. ASSUME NEW s \in Requests, s # r, NEW q, reqs' = [reqs EXCEPT ![s] = q]
      PROVE  FALSE
  BY <1>1, <1>2
<1>3. ASSUME NEW s \in Requests, Talks(s) PROVE FALSE
  <2>1. s = r
    BY <1>2, <1>3, TalksStep
  <2>2. Crash(r)
    BY <1>1, <1>3, <2>1 DEF Talks, LoginCheck, LoginFails, LoginMatches, LoginStamp, RefreshCheck,
         RotateOwner, RefreshDone, RefreshFails, RevokeEnds, ChangeCheck, ChangeFails, ChangeVerified,
         ChangeScan, At
  <2> QED
    BY <1>1, <2>2 DEF Crash, Finish, Become, Idle
<1>4. ASSUME NEW s \in Requests, Wipes(s) PROVE RotateReplay(r)
  <2>1. s = r
    BY <1>2, <1>4, WipesStep
  <2> QED
    BY <1>1, <1>4, <2>1 DEF Wipes, RefreshRefused, ChangeVisit, Logout, At
<1>5. ASSUME NEW s \in Requests, \/ LoginMint(s) \/ RotateTake(s) \/ RotateSet(s) \/ RevokeStep(s)
                                 \/ ChangeCommit(s) \/ ChangeDone(s)
      PROVE  FALSE
  <2>1. s # r
    BY <1>1, <1>5 DEF LoginMint, RotateTake, RotateSet, RevokeStep, ChangeCommit, ChangeDone, At
  <2>2. reqs'[r] = reqs[r]
    BY <1>1, <1>5, <2>1 DEF LoginMint, RotateTake, RotateSet, RevokeStep, ChangeCommit, ChangeDone,
                            Goto, Finish, Become
  <2> QED
    BY <1>1, <2>2
<1>6. ASSUME Administers \/ Tick \/ UNCHANGED vars PROVE FALSE
  <2>1. reqs' = reqs
    BY <1>6 DEF Administers, AdminSet, AdminReset, Tick, vars
  <2> QED
    BY <1>1, <2>1
<1>7. RotateReplay(r)
  <2>1. \/ \E s \in Requests : \/ Talks(s) \/ Wipes(s) \/ LoginMint(s) \/ RotateTake(s)
                               \/ RotateSet(s) \/ RevokeStep(s) \/ ChangeCommit(s)
                               \/ ChangeDone(s)
        \/ Administers \/ Tick \/ UNCHANGED vars
    BY StepKinds
  <2>2. PICK s \in Requests : \/ Talks(s) \/ Wipes(s) \/ LoginMint(s) \/ RotateTake(s)
                             \/ RotateSet(s) \/ RevokeStep(s) \/ ChangeCommit(s) \/ ChangeDone(s)
    BY <1>6, <2>1
  <2>3. CASE Talks(s)
    BY <1>3, <2>3
  <2>4. CASE Wipes(s)
    BY <1>4, <2>4
  <2>5. CASE \/ LoginMint(s) \/ RotateTake(s) \/ RotateSet(s) \/ RevokeStep(s) \/ ChangeCommit(s)
             \/ ChangeDone(s)
    BY <1>5, <2>5
  <2> QED
    BY <2>2, <2>3, <2>4, <2>5
<1>8. meta[reqs[r].fam] # NoMeta
  BY <1>1, <1>7 DEF RotateReplay, Goto, ReqRec
<1> QED
  BY <1>7, <1>8

LEMMA WipeStep ==
    ASSUME Inv, [Next]_vars
    PROVE  OwnFamiliesOnly
<1>1. StoreType /\ Owned /\ clock \in Nat
  BY DEF Inv, TypeOK, StoreType, StoreOk
<1>2. CASE UNCHANGED meta
  BY <1>2 DEF OwnFamiliesOnly
<1>3. ASSUME NEW r \in Requests, LoginMint(r) PROVE OwnFamiliesOnly
  <2>1. reqs[r].user \in Users
    BY <1>3 DEF LoginMint, At, Inv, ReqOk, Known
  <2>2. \A f \in Families : meta'[f] = meta[f] \/ meta'[f].user = reqs[r].user
    BY <1>1, <1>3 DEF LoginMint, StoreType
  <2> QED
    BY <2>1, <2>2, NoneAssumption DEF OwnFamiliesOnly, NoMeta
<1>4. ASSUME NEW r \in Requests, RotateSet(r) PROVE OwnFamiliesOnly
  <2>1. \A f \in Families : meta'[f].user = meta[f].user
    BY <1>1, <1>4 DEF RotateSet, StoreType
  <2>2. \A f \in Families : meta[f] # NoMeta => meta'[f] # NoMeta
    BY <1>1, <2>1 DEF Owned, NoMeta
  <2> QED
    BY <2>2 DEF OwnFamiliesOnly
<1>5. CASE Tick
  BY <1>1, <1>5 DEF Tick, OwnFamiliesOnly
<1>6. ASSUME NEW r \in Requests, Talks(r) \/ Wipes(r) PROVE UNCHANGED meta
  BY <1>6, TalksStep, WipesStep DEF store
<1>7. ASSUME NEW r \in Requests, RotateTake(r) \/ ChangeCommit(r) \/ ChangeDone(r)
      PROVE  UNCHANGED meta
  BY <1>7 DEF RotateTake, ChangeCommit, ChangeDone, store
<1>8. ASSUME Administers PROVE UNCHANGED meta
  BY <1>8 DEF Administers, AdminSet, AdminReset, store
<1> QED
  BY <1>2, <1>3, <1>4, <1>5, <1>6, <1>7, <1>8, RevokeStepInv, StepKinds DEF vars

LEMMA CauseStep ==
    ASSUME Inv, [Next]_vars
    PROVE  ReuseMeansReplay /\ OwnFamiliesOnly /\ LockoutNotProlonged
<1>1. ASSUME NEW r \in Requests, At(r, "replay"), reqs'[r].pc = "revoke"
      PROVE  \/ [fam |-> reqs[r].fam, jti |-> reqs[r].jti] \in consumed
             \/ reqs[r].fam \in revoked
  <2>1. Spent(reqs[r].fam, reqs[r].jti)
    BY <1>1 DEF Inv, At, ReqOk, Rotates
  <2> QED
    BY <1>1, <2>1, ReplayStep DEF Spent
<1>2. TypeOK
  BY DEF Inv
<1> QED
  BY <1>1, <1>2, WipeStep, ThrottleStep DEF ReuseMeansReplay

-----------------------------------------------------------------------------
(* The threshold.  A request whose attempt has been checked against a       *)
(* bucket owes it a failure until the attempt is known to be right.         *)
Owes(q, b) ==
    \/ b = Ip /\ \/ q.pc \in {"auth", "user", "owner", "replay", "fail", "verify"}
                 \/ q.pc = "revoke" /\ q.next = "fail"
    \/ b = Email(q.user) /\ q.pc = "auth"
    \/ b = ChPw(q.user) /\ q.pc = "verify"
Owing(b) == {r \in Requests : Owes(reqs[r], b)}

Bounded(b) ==
    IF MaxAttempts > 0
    THEN throttle[b].n + Cardinality(Owing(b)) < MaxAttempts + Cardinality(Requests)
    ELSE throttle[b].n = 0

(* How a step treats a bucket: it adds no debt; or it makes one where there *)
(* is room; or it counts a failure, which one request owed.                 *)
Forgives(b) ==
    /\ throttle'[b].n <= throttle[b].n
    /\ \A s \in Requests : Owes(reqs'[s], b) => Owes(reqs[s], b)
Lends(b) == throttle'[b].n = throttle[b].n /\ throttle[b].n < MaxAttempts
Collects(b) ==
    /\ throttle'[b].n = throttle[b].n + 1
    /\ \E r \in Requests : /\ Owes(reqs[r], b) /\ ~Owes(reqs'[r], b)
                           /\ \A s \in Requests : Owes(reqs'[s], b) => Owes(reqs[s], b)
Treats(b) == Forgives(b) \/ Lends(b) \/ Collects(b)

LEMMA BucketsDiffer ==
    ASSUME NEW u, NEW v
    PROVE  /\ Ip # Email(u) /\ Ip # ChPw(u) /\ Email(u) # ChPw(v)
           /\ (Email(u) = Email(v) => u = v) /\ (ChPw(u) = ChPw(v) => u = v)
  BY DEF Ip, Email, ChPw

LEMMA Hits ==
    ASSUME TypeOK, NEW b \in Buckets
    PROVE  /\ throttle[b] \in [n : Nat, exp : Nat] /\ throttle[b].n \in Nat
           /\ \A bs : Count(bs) => throttle'[b].n = IF b \in bs /\ MaxAttempts > 0
                                                    THEN throttle[b].n + 1 ELSE throttle[b].n
           /\ \A bs : Drop(bs) => throttle'[b].n = IF b \in bs THEN 0 ELSE throttle[b].n
  BY DEF TypeOK, Count, Hit, Drop, NoHits

LEMMA IdleOwes ==
    ASSUME NEW b
    PROVE  ~Owes(Idle, b)
  BY DEF Owes, Idle

(* One request takes the step.                                              *)
LEMMA OneOwes ==
    ASSUME TypeOK, NEW r \in Requests, NEW q \in ReqRec, reqs' = [reqs EXCEPT ![r] = q],
           NEW b \in Buckets, Owes(q, b) => Owes(reqs[r], b)
    PROVE  \A s \in Requests : Owes(reqs'[s], b) => Owes(reqs[s], b)
  BY Becomes

LEMMA FinishOwes ==
    ASSUME TypeOK, NEW r \in Requests, Finish(r), NEW b \in Buckets
    PROVE  /\ \A s \in Requests : Owes(reqs'[s], b) => Owes(reqs[s], b)
           /\ ~Owes(reqs'[r], b)
<1>1. reqs' = [reqs EXCEPT ![r] = Idle] /\ Idle \in ReqRec
  BY TypeFacts DEF Finish, Become
<1> QED
  BY <1>1, IdleOwes, OneOwes, Becomes

LEMMA GotoOwes ==
    ASSUME TypeOK, NEW r \in Requests, NEW pc \in Pcs, Goto(r, pc), NEW b \in Buckets,
           \/ pc \in {"idle", "stamp", "mint", "set", "ok", "commit", "scan", "visit"}
           \/ /\ pc \in {"owner", "replay", "fail"}
              /\ \/ reqs[r].pc \in {"user", "owner", "replay"}
                 \/ reqs[r].pc = "revoke" /\ reqs[r].next = "fail"
    PROVE  \A s \in Requests : Owes(reqs'[s], b) => Owes(reqs[s], b)
<1> DEFINE q == [reqs[r] EXCEPT !.pc = pc]
<1>1. reqs[r] \in ReqRec /\ reqs \in [Requests -> ReqRec]
  BY TypeFacts
<1>2. q \in ReqRec /\ q.pc = pc
  BY <1>1 DEF ReqRec
<1>3. reqs' = [reqs EXCEPT ![r] = q]
  BY <1>1 DEF Goto
<1> HIDE DEF q
<1>4. Owes(q, b) => Owes(reqs[r], b)
  BY <1>2 DEF Owes
<1> QED
  BY <1>2, <1>3, <1>4, OneOwes

LEMMA RevokingOwes ==
    ASSUME TypeOK, NEW r \in Requests, NEW f \in Families, NEW q \in ReqRec,
           q.pc = "revoke", q.next # "fail" \/ reqs[r].pc \in {"user", "replay"},
           reqs' = [reqs EXCEPT ![r] = q], NEW b \in Buckets
    PROVE  \A s \in Requests : Owes(reqs'[s], b) => Owes(reqs[s], b)
<1>1. Owes(q, b) => Owes(reqs[r], b)
  BY DEF Owes
<1> QED
  BY <1>1, OneOwes

(* The steps that leave the counters alone make no debt.                    *)
LEMMA QuietGo ==
    ASSUME TypeOK, NEW r \in Requests, NEW b \in Buckets,
           \/ LoginStamp(r) \/ LoginMint(r) \/ RotateTake(r) \/ RotateOwner(r) \/ RotateSet(r)
           \/ RevokeEnds(r) \/ ChangeDone(r) \/ Crash(r)
    PROVE  Forgives(b)
<1> DEFINE Goal == \A s \in Requests : Owes(reqs'[s], b) => Owes(reqs[s], b)
<1>1. throttle' = throttle
  BY DEF LoginStamp, LoginMint, RotateTake, RotateOwner, RotateSet, RevokeEnds, ChangeDone, Crash
<1>2. throttle[b].n \in Nat
  BY Hits
<1> SUFFICES Goal
  BY <1>1, <1>2 DEF Forgives
<1>3. Pcs = {"idle", "auth", "stamp", "mint", "user", "owner", "set", "ok", "replay", "fail",
             "revoke", "verify", "commit", "scan", "visit"}
  BY DEF Pcs
<1>4. CASE Finish(r)
  BY <1>4, FinishOwes
<1>5. CASE LoginStamp(r)
  <2>1. Finish(r) \/ Goto(r, "mint")
    BY <1>5 DEF LoginStamp
  <2> QED
    BY <1>3, <1>4, <2>1, GotoOwes
<1>6. CASE RotateTake(r)
  <2>1. reqs[r].pc = "user" /\ (Goto(r, "replay") \/ Goto(r, "owner"))
    BY <1>6 DEF RotateTake, At
  <2> QED
    BY <1>3, <2>1, GotoOwes
<1>7. CASE RotateOwner(r)
  <2>1. reqs[r].pc = "owner" /\ (Goto(r, "set") \/ Goto(r, "fail"))
    BY <1>7 DEF RotateOwner, At
  <2> QED
    BY <1>3, <2>1, GotoOwes
<1>8. CASE RotateSet(r)
  <2>1. Goto(r, "ok")
    BY <1>8 DEF RotateSet
  <2> QED
    BY <1>3, <2>1, GotoOwes
<1>9. CASE RevokeEnds(r)
  <2>1. reqs[r].pc = "revoke" /\ (Finish(r) \/ Goto(r, reqs[r].next))
    BY <1>9 DEF RevokeEnds, At
  <2>2. reqs[r].next \in {"idle", "fail", "visit"}
    BY TypeFacts DEF ReqRec
  <2> QED
    BY <1>3, <1>4, <2>1, <2>2, GotoOwes
<1>10. LoginMint(r) \/ ChangeDone(r) \/ Crash(r) => Finish(r)
  BY DEF LoginMint, ChangeDone, Crash
<1> QED
  BY <1>4, <1>5, <1>6, <1>7, <1>8, <1>9, <1>10

LEMMA QuietWipe ==
    ASSUME TypeOK, NEW r \in Requests, NEW b \in Buckets, ReqOk(reqs[r]),
           Wipes(r) \/ RevokeStep(r) \/ ChangeCommit(r) \/ ChangeScan(r)
    PROVE  Forgives(b)
<1> DEFINE Goal == \A s \in Requests : Owes(reqs'[s], b) => Owes(reqs[s], b)
<1>1. throttle' = throttle
  BY DEF Wipes, RefreshRefused, RotateReplay, ChangeVisit, Logout, RevokeStep, ChangeCommit,
       ChangeScan
<1>2. throttle[b].n \in Nat
  BY Hits
<1> SUFFICES Goal
  BY <1>1, <1>2 DEF Forgives
<1>3. PICK me \in ReqRec : me = reqs[r] /\ ReqOk(me)
  BY TypeFacts
<1>4. ASSUME NEW f \in Families, NEW next \in {"idle", "fail", "visit"},
             reqs' = [reqs EXCEPT ![r] = Revoking(r, f, next)],
             next # "fail" \/ me.pc \in {"user", "replay"}
      PROVE  Goal
  <2>1. PICK q \in ReqRec : q = Revoking(r, f, next) /\ q.pc = "revoke" /\ q.next = next
    BY RevokingFacts
  <2>2. reqs' = [reqs EXCEPT ![r] = q] /\ (q.next # "fail" \/ reqs[r].pc \in {"user", "replay"})
    BY <1>3, <1>4, <2>1
  <2> QED
    BY <2>1, <2>2, RevokingOwes
<1>5. CASE RefreshRefused(r)
  <2>1. me.pc = "user" /\ Become(r, Revoking(r, me.fam, "fail"))
    BY <1>3, <1>5 DEF RefreshRefused, At
  <2>2. me.fam \in Families
    BY <1>3, <2>1 DEF ReqOk, Known
  <2> QED
    BY <1>4, <2>1, <2>2 DEF Become
<1>6. CASE RotateReplay(r)
  <2>1. me.pc = "replay" /\ (Goto(r, "fail") \/ Become(r, Revoking(r, me.fam, "fail")))
    BY <1>3, <1>6 DEF RotateReplay, At
  <2>2. me.fam \in Families
    BY <1>3, <2>1 DEF ReqOk, Known
  <2>3. CASE Goto(r, "fail")
    BY <1>3, <2>1, <2>3, GotoOwes DEF Pcs
  <2> QED
    BY <1>4, <2>1, <2>2, <2>3 DEF Become
<1>7. CASE \E t \in tokens : Logout(r, t)
  <2>1. PICK t \in tokens : Logout(r, t)
    BY <1>7
  <2>2. PICK q \in ReqRec : q = Revoking(r, t.fam, "idle") /\ q.pc = "revoke" /\ q.next = "idle"
    BY <2>1, RevokingFacts DEF TypeOK
  <2>3. t.user \in Users
    BY DEF TypeOK
  <2>4. [q EXCEPT !.user = t.user] \in ReqRec
    BY <2>2, <2>3 DEF ReqRec
  <2>5. PICK p \in ReqRec : p = [q EXCEPT !.user = t.user]
    BY <2>4
  <2>6. p.pc = "revoke" /\ p.next = "idle"
    BY <2>2, <2>5 DEF ReqRec
  <2>7. reqs' = [reqs EXCEPT ![r] = p]
    BY <2>1, <2>2, <2>5 DEF Logout, Become
  <2>8. t.fam \in Families
    BY DEF TypeOK
  <2> QED
    BY <2>6, <2>7, <2>8, RevokingOwes
<1>8. CASE ChangeVisit(r)
  <2>0. me.fams \subseteq Families
    BY <1>3 DEF ReqRec
  <2>1. PICK f \in Families :
          \/ Become(r, [Revoking(r, f, "visit") EXCEPT !.fams = @ \ {f}])
          \/ Become(r, [me EXCEPT !.fams = me.fams \ {f}])
    BY <1>3, <1>8, <2>0 DEF ChangeVisit
  <2>2. me.pc = "visit" /\ f \in Families
    BY <1>3, <1>8, <2>1 DEF ChangeVisit, At, ReqRec
  <2>3. CASE Become(r, [me EXCEPT !.fams = me.fams \ {f}])
    <3>1. PICK p \in ReqRec : p = [me EXCEPT !.fams = me.fams \ {f}]
      BY DEF ReqRec
    <3>2. p.pc = "visit"
      BY <2>2, <3>1 DEF ReqRec
    <3>3. ~Owes(p, b)
      BY <3>2 DEF Owes
    <3> QED
      BY <2>3, <3>1, <3>3, OneOwes DEF Become
  <2>4. CASE Become(r, [Revoking(r, f, "visit") EXCEPT !.fams = @ \ {f}])
    <3>1. PICK q \in ReqRec : q = Revoking(r, f, "visit") /\ q.pc = "revoke" /\ q.next = "visit"
      BY <2>2, RevokingFacts
    <3>2. PICK p \in ReqRec : p = [q EXCEPT !.fams = q.fams \ {f}]
      BY DEF ReqRec
    <3>3. p.pc = "revoke" /\ p.next = "visit"
      BY <3>1, <3>2 DEF ReqRec
    <3>4. reqs' = [reqs EXCEPT ![r] = p]
      BY <2>4, <3>1, <3>2 DEF Become
    <3> QED
      BY <2>2, <3>3, <3>4, RevokingOwes
  <2> QED
    BY <2>1, <2>3, <2>4
<1>9. CASE RevokeStep(r)
  <2>1. PICK i : reqs' = [reqs EXCEPT ![r].todo = @ \ {i}]
    BY <1>9 DEF RevokeStep
  <2>2. PICK p \in ReqRec : p = [me EXCEPT !.todo = me.todo \ {i}]
    BY DEF ReqRec
  <2>3. p.pc = me.pc /\ p.next = me.next /\ p.user = me.user
    BY <2>2 DEF ReqRec
  <2>4. reqs' = [reqs EXCEPT ![r] = p]
    BY <1>3, <2>1, <2>2, TypeFacts
  <2>5. Owes(p, b) => Owes(reqs[r], b)
    BY <1>3, <2>3 DEF Owes
  <2> QED
    BY <2>4, <2>5, OneOwes
<1>10. CASE ChangeScan(r)
  <2>1. PICK p \in ReqRec : p = [me EXCEPT !.pc = "visit", !.fams = {f \in Families : meta[f] # NoMeta}]
    BY DEF ReqRec, Pcs
  <2>2. p.pc = "visit"
    BY <2>1 DEF ReqRec
  <2>3. reqs' = [reqs EXCEPT ![r] = p]
    BY <1>3, <1>10, <2>1, TypeFacts DEF ChangeScan
  <2>4. ~Owes(p, b)
    BY <2>2 DEF Owes
  <2> QED
    BY <2>3, <2>4, OneOwes
<1>11. CASE ChangeCommit(r)
  <2>1. CASE Finish(r)
    BY <2>1, FinishOwes
  <2>2. CASE reqs' = [reqs EXCEPT ![r].pc = "scan", ![r].pwd = users[reqs[r].user].pwd + 1]
    <3>1. me.user \in Users
      BY <1>3, <1>11 DEF ChangeCommit, At, ReqOk, Known
    <3>2. users[me.user].pwd + 1 \in Nat
      BY <3>1 DEF TypeOK
    <3>3. PICK p \in ReqRec : p = [me EXCEPT !.pc = "scan", !.pwd = users[me.user].pwd + 1]
      BY <3>2 DEF ReqRec, Pcs
    <3>4. p.pc = "scan"
      BY <3>3 DEF ReqRec
    <3>5. reqs' = [reqs EXCEPT ![r] = p]
      BY <1>3, <2>2, <3>3, TypeFacts
    <3>6. ~Owes(p, b)
      BY <3>4 DEF Owes
    <3> QED
      BY <3>5, <3>6, OneOwes
  <2> QED
    BY <1>11, <2>1, <2>2 DEF ChangeCommit
<1> QED
  BY <1>5, <1>6, <1>7, <1>8, <1>9, <1>10, <1>11 DEF Wipes

(* The steps that count: a check lends, a failure collects.                 *)
LEMMA ChecksLend ==
    ASSUME TypeOK, MaxAttempts > 0, NEW r \in Requests, NEW b \in Buckets,
           \/ \E u \in Users : \E p \in {0, users[u].pwd} : LoginCheck(r, u, p)
           \/ \E t \in tokens : RefreshCheck(r, t)
           \/ \E u \in Users : ChangeCheck(r, u)
    PROVE  Forgives(b) \/ Lends(b)
<1>1. throttle' = throttle /\ throttle[b].n \in Nat /\ MaxAttempts \in Nat
  BY Hits, TimeAssumption DEF LoginCheck, RefreshCheck, ChangeCheck
<1>2. Idle \in ReqRec
  BY TypeFacts
<1>3. ~Locked(b) => Lends(b)
  BY <1>1 DEF Locked, Lends
<1>4. ASSUME NEW q \in ReqRec, reqs' = [reqs EXCEPT ![r] = q], ~Owes(q, b)
      PROVE  Forgives(b)
  BY <1>1, <1>4, OneOwes DEF Forgives
<1>5. ASSUME NEW u \in Users, NEW p \in {0, users[u].pwd}, LoginCheck(r, u, p)
      PROVE  Forgives(b) \/ Lends(b)
  <2>1. p \in Nat
    BY DEF TypeOK
  <2>2. PICK q \in ReqRec : q = [Idle EXCEPT !.pc = "auth", !.user = u, !.pwd = p]
    BY <1>2, <2>1 DEF ReqRec, Pcs
  <2>3. q.pc = "auth" /\ q.user = u
    BY <1>2, <2>2 DEF ReqRec
  <2>4. Owes(q, b) => b = Ip \/ b = Email(u)
    BY <2>3 DEF Owes
  <2>5. ~Locked(Email(u)) /\ ~Locked(Ip) /\ reqs' = [reqs EXCEPT ![r] = q]
    BY <1>5, <2>2 DEF LoginCheck, CheckLockout, Become
  <2> QED
    BY <1>3, <1>4, <2>4, <2>5
<1>6. ASSUME NEW t \in tokens, RefreshCheck(r, t)
      PROVE  Forgives(b) \/ Lends(b)
  <2> DEFINE pc == IF Decodes(t) THEN "user" ELSE "fail"
  <2>1. t.user \in Users /\ t.fam \in Families /\ t.jti \in Nat /\ pc \in Pcs
    BY DEF TypeOK, Pcs
  <2>2. PICK q \in ReqRec :
          q = [Idle EXCEPT !.pc = pc, !.user = t.user, !.fam = t.fam, !.jti = t.jti]
    BY <1>2, <2>1 DEF ReqRec
  <2>3. q.pc \in {"user", "fail"}
    BY <1>2, <2>2 DEF ReqRec
  <2>4. Owes(q, b) => b = Ip
    BY <2>3 DEF Owes
  <2>5. ~Locked(Ip) /\ reqs' = [reqs EXCEPT ![r] = q]
    BY <1>6, <2>2 DEF RefreshCheck, CheckIpLockout, Become
  <2> QED
    BY <1>3, <1>4, <2>4, <2>5
<1>7. ASSUME NEW u \in Users, ChangeCheck(r, u)
      PROVE  Forgives(b) \/ Lends(b)
  <2>1. PICK q \in ReqRec : q = [Idle EXCEPT !.pc = "verify", !.user = u]
    BY <1>2 DEF ReqRec, Pcs
  <2>2. q.pc = "verify" /\ q.user = u
    BY <1>2, <2>1 DEF ReqRec
  <2>3. Owes(q, b) => b = Ip \/ b = ChPw(u)
    BY <2>2 DEF Owes
  <2>4. ~Locked(ChPw(u)) /\ ~Locked(Ip) /\ reqs' = [reqs EXCEPT ![r] = q]
    BY <1>7, <2>1 DEF ChangeCheck, CheckLockout, Become
  <2> QED
    BY <1>3, <1>4, <2>3, <2>4
<1> QED
  BY <1>5, <1>6, <1>7

LEMMA FailuresCollect ==
    ASSUME TypeOK, MaxAttempts > 0, NEW r \in Requests, NEW b \in Buckets,
           LoginFails(r) \/ RefreshFails(r) \/ ChangeFails(r)
    PROVE  Forgives(b) \/ Collects(b)
<1>1. Finish(r) /\ throttle[b].n \in Nat
  BY Hits DEF LoginFails, RefreshFails, ChangeFails
<1>2. /\ \A s \in Requests : Owes(reqs'[s], b) => Owes(reqs[s], b)
      /\ ~Owes(reqs'[r], b)
  BY <1>1, FinishOwes
<1>3. PICK bs : Count(bs) /\ (b \in bs => Owes(reqs[r], b))
  <2>1. CASE LoginFails(r)
    BY <2>1 DEF LoginFails, At, RecordFailure, Owes
  <2>2. CASE RefreshFails(r)
    BY <2>2 DEF RefreshFails, At, RecordIpFailure, Owes
  <2>3. CASE ChangeFails(r)
    BY <2>3 DEF ChangeFails, At, RecordFailure, Owes
  <2> QED
    BY <2>1, <2>2, <2>3
<1>4. throttle'[b].n = IF b \in bs THEN throttle[b].n + 1 ELSE throttle[b].n
  BY <1>3, Hits
<1> QED
  BY <1>1, <1>2, <1>3, <1>4 DEF Forgives, Collects

LEMMA SuccessForgives ==
    ASSUME TypeOK, NEW r \in Requests, NEW b \in Buckets,
           LoginMatches(r) \/ RefreshDone(r) \/ ChangeVerified(r)
    PROVE  Forgives(b)
<1>1. PICK bs : Drop(bs)
  BY DEF LoginMatches, RefreshDone, ChangeVerified, Reset, ResetIp
<1>2. throttle[b].n \in Nat /\ throttle'[b].n <= throttle[b].n
  BY <1>1, Hits
<1>3. Finish(r) \/ Goto(r, "stamp") \/ Goto(r, "commit")
  BY DEF LoginMatches, RefreshDone, ChangeVerified
<1>4. {"stamp", "commit"} \subseteq Pcs
  BY DEF Pcs
<1> QED
  BY <1>2, <1>3, <1>4, FinishOwes, GotoOwes DEF Forgives

LEMMA Treated ==
    ASSUME Inv, [Next]_vars, MaxAttempts > 0, NEW b \in Buckets
    PROVE  Treats(b)
<1>1. TypeOK /\ throttle[b].n \in Nat
  BY Hits DEF Inv
<1>2. ASSUME reqs' = reqs, throttle' = throttle \/ Tick PROVE Forgives(b)
  <2>1. throttle'[b].n <= throttle[b].n
    BY <1>1, <1>2 DEF Tick, NoHits
  <2> QED
    BY <1>2, <2>1 DEF Forgives
<1>3. CASE UNCHANGED vars
  BY <1>2, <1>3 DEF vars, Treats
<1>4. CASE Administers
  BY <1>2, <1>4 DEF Administers, AdminSet, AdminReset, Treats
<1>5. CASE Tick
  <2>1. reqs' = reqs
    BY <1>5 DEF Tick
  <2> QED
    BY <1>2, <1>5, <2>1 DEF Treats
<1>6. ASSUME NEW r \in Requests, Talks(r) PROVE Treats(b)
  <2>1. ReqOk(reqs[r])
    BY DEF Inv
  <2> QED
    BY <1>1, <1>6, <2>1, QuietGo, QuietWipe, ChecksLend, FailuresCollect, SuccessForgives
       DEF Talks, Treats
<1>7. ASSUME NEW r \in Requests, Wipes(r) \/ RevokeStep(r) \/ ChangeCommit(r) PROVE Treats(b)
  BY <1>1, <1>7, QuietWipe DEF Inv, Treats
<1>8. ASSUME NEW r \in Requests, LoginMint(r) \/ RotateTake(r) \/ RotateSet(r) \/ ChangeDone(r)
      PROVE  Treats(b)
  BY <1>1, <1>8, QuietGo DEF Treats
<1> QED
  BY <1>3, <1>4, <1>5, <1>6, <1>7, <1>8, StepKinds

(* A throttle that is switched off counts nothing.                          *)
LEMMA NothingCounts ==
    ASSUME TypeOK, [Next]_vars, MaxAttempts = 0, NEW b \in Buckets, throttle[b].n = 0
    PROVE  throttle'[b].n = 0
<1>1. ASSUME NEW bs, Count(bs) \/ Drop(bs) PROVE throttle'[b].n = 0
  BY <1>1, Hits
<1>2. ASSUME Tick PROVE throttle'[b].n = 0
  BY <1>2 DEF Tick, NoHits
<1> QED
  BY <1>1, <1>2, ThrottleMoves

LEMMA RequestsCount ==
    IsFiniteSet(Requests) /\ Cardinality(Requests) \in Nat /\ Cardinality(Requests) > 0
<1>1. Cardinality(Requests) # 0
  BY RequestsAssumption, FS_EmptySet
<1> QED
  BY <1>1, RequestsAssumption, FS_CardinalityType

LEMMA BoundedStep ==
    ASSUME Inv, [Next]_vars, NEW b \in Buckets, Bounded(b)
    PROVE  Bounded(b)'
<1>1. /\ IsFiniteSet(Owing(b)) /\ IsFiniteSet(Owing(b)') /\ IsFiniteSet(Requests)
      /\ Cardinality(Owing(b)) \in Nat /\ Cardinality(Owing(b)') \in Nat
      /\ Cardinality(Requests) \in Nat /\ MaxAttempts \in Nat
  <2>1. Owing(b) \subseteq Requests /\ Owing(b)' \subseteq Requests
    BY DEF Owing
  <2> QED
    BY <2>1, RequestsCount, FS_Subset, FS_CardinalityType, TimeAssumption
<1>2. TypeOK /\ throttle[b].n \in Nat
  BY Hits DEF Inv
<1>3. throttle'[b].n \in Nat
  BY <1>2, ThrottleStep
<1>4. CASE MaxAttempts = 0
  <2>1. throttle[b].n = 0
    BY <1>4 DEF Bounded
  <2>2. throttle'[b].n = 0
    BY <1>2, <1>4, <2>1, NothingCounts
  <2> QED
    BY <1>4, <2>2 DEF Bounded
<1>5. CASE MaxAttempts > 0
  <2>0. throttle[b].n + Cardinality(Owing(b)) < MaxAttempts + Cardinality(Requests)
    BY <1>5 DEF Bounded
  <2>1. CASE Forgives(b)
    <3>1. Owing(b)' \subseteq Owing(b)
      BY <2>1 DEF Forgives, Owing
    <3>2. Cardinality(Owing(b)') <= Cardinality(Owing(b))
      BY <1>1, <3>1, FS_Subset
    <3>3. throttle'[b].n <= throttle[b].n
      BY <2>1 DEF Forgives
    <3> QED
      BY <1>1, <1>2, <1>3, <1>5, <2>0, <3>2, <3>3 DEF Bounded
  <2>2. CASE Lends(b)
    <3>1. Owing(b)' \subseteq Requests
      BY DEF Owing
    <3>2. Cardinality(Owing(b)') <= Cardinality(Requests)
      BY <1>1, <3>1, FS_Subset
    <3>3. throttle'[b].n = throttle[b].n /\ throttle[b].n < MaxAttempts
      BY <2>2 DEF Lends
    <3> QED
      BY <1>1, <1>2, <1>3, <1>5, <3>2, <3>3 DEF Bounded
  <2>3. CASE Collects(b)
    <3>1. PICK r \in Requests : /\ Owes(reqs[r], b) /\ ~Owes(reqs'[r], b)
                                /\ \A s \in Requests : Owes(reqs'[s], b) => Owes(reqs[s], b)
      BY <2>3 DEF Collects
    <3>2. Owing(b)' \subseteq Owing(b) \ {r} /\ r \in Owing(b)
      BY <3>1 DEF Owing
    <3>3. /\ IsFiniteSet(Owing(b) \ {r})
          /\ Cardinality(Owing(b) \ {r}) = Cardinality(Owing(b)) - 1
      BY <1>1, <3>2, FS_RemoveElement
    <3>4. Cardinality(Owing(b)') <= Cardinality(Owing(b)) - 1
      BY <3>2, <3>3, FS_Subset
    <3>5. throttle'[b].n = throttle[b].n + 1
      BY <2>3 DEF Collects
    <3> QED
      BY <1>1, <1>2, <1>3, <1>5, <2>0, <3>4, <3>5 DEF Bounded
  <2> QED
    BY <1>5, <2>1, <2>2, <2>3, Treated DEF Treats
<1> QED
  BY <1>1, <1>4, <1>5

LEMMA InitBounded == Init => \A b \in Buckets : Bounded(b)
<1> SUFFICES ASSUME Init, NEW b \in Buckets PROVE Bounded(b)
  OBVIOUS
<1>1. Owing(b) = {}
  BY IdleOwes DEF Owing, Init
<1>2. throttle[b].n = 0
  BY DEF Init, NoHits
<1> QED
  BY <1>1, <1>2, RequestsCount, FS_EmptySet, TimeAssumption DEF Bounded

-----------------------------------------------------------------------------
(* The rotation of refresh tokens (core/refresh_token_store.py), whatever   *)
(* refreshes, logouts, expiries and deaths of requests come between its     *)
(* round trips: a token is redeemed once, a wiped family stays dead, and    *)
(* the token to use next is not lost.                                       *)
THEOREM RotationIsSafe == Spec => []RotationSafe
<1>1. Inv => RotationSafe
  BY DEF Inv, StoreOk, Chain, Living, RotationSafe
<1> QED
  BY <1>1, InitInv, StepInv, PTL DEF Spec

(* After a change of password has answered, no session that began before    *)
(* its commit is alive (_revoke_all_refresh_families).                      *)
THEOREM ChangeEndsSessions == Spec => []OldSessionsEnd
<1>1. Inv => OldSessionsEnd
  BY DEF Inv, StoreOk, Past
<1> QED
  BY <1>1, InitInv, StepInv, PTL DEF Spec

(* A family is taken for reused only when its token was redeemed before or  *)
(* its revocation is under way, it is wiped in the name of its user only,   *)
(* and the window of a locked account is that of its first failure.         *)
THEOREM SessionsEndForCause == Spec => EndedForCause
<1>1. Inv /\ [Next]_vars => [ReuseMeansReplay /\ OwnFamiliesOnly /\ LockoutNotProlonged]_vars
  BY CauseStep
<1> QED
  BY <1>1, InitInv, StepInv, PTL DEF Spec, EndedForCause

(* The failures of a bucket never pass the threshold by more than the       *)
(* requests a process serves at a time (core/login_throttle.py): attempts   *)
(* are checked before they are counted, but each counts once.               *)
THEOREM ThrottleOvershootsByRequests == Spec => []Overshoot
<1>1. (\A b \in Buckets : Bounded(b)) /\ Inv => Overshoot
  <2> SUFFICES ASSUME Inv, NEW b \in Buckets, Bounded(b)
               PROVE  throttle[b].n < MaxAttempts + Cardinality(Requests)
    BY DEF Overshoot
  <2>1. Owing(b) \subseteq Requests
    BY DEF Owing
  <2>2. Cardinality(Owing(b)) \in Nat
    BY <2>1, RequestsCount, FS_Subset, FS_CardinalityType
  <2>3. throttle[b].n \in Nat /\ MaxAttempts \in Nat
    BY Hits, TimeAssumption DEF Inv
  <2> QED
    BY <2>2, <2>3, RequestsCount DEF Bounded
<1>2. Inv /\ (\A b \in Buckets : Bounded(b)) /\ [Next]_vars => (\A b \in Buckets : Bounded(b))'
  BY BoundedStep DEF Buckets
<1> QED
  BY <1>1, <1>2, InitInv, StepInv, InitBounded, PTL DEF Spec
=============================================================================
