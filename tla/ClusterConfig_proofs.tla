------------------------ MODULE ClusterConfig_proofs ------------------------
(***************************************************************************)
(* What holds of ClusterConfig for every set of processes, requests and    *)
(* tenants, every environment, and every history of calls and faults.      *)
(***************************************************************************)
EXTENDS ClusterConfig, FiniteSetTheorems, TLAPS

Vals == (0 .. saves) \cup {None}
Client == [scope : Scopes \cup {None}, mode : Modes, url : Vals, token : Vals, kube : Vals]
RowRec == [id : Nat, scope : Scopes, mode : Modes, url : Vals, token : Vals, kube : Vals,
           version : Nat \ {0}, health : Verdicts \cup {"UNKNOWN"},
           about : Client \cup {None}, torn : BOOLEAN]
Slots == [version : Nat \ {0}, client : Client]
ReqRec ==
    [pc : {"idle"}]
      \cup [pc : {"write"}, proc : Processes, scope : Scopes, row : RowRec \cup {None},
            mode : Modes, n : 0 .. saves, secret : Vals]
      \cup [pc : {"remove", "log", "evict"}, proc : Processes, scope : Scopes,
            id : Nat \cup {None}]
      \cup [pc : {"default"}, proc : Processes, tenant : Scopes]
      \cup [pc : {"build"}, proc : Processes, tenant : Scopes, row : RowRec]
      \cup [pc : {"done"}, proc : Processes, tenant : Scopes, read : Client, got : Client]
      \cup [pc : {"probe"}, proc : Processes, row : RowRec]

Types ==
    /\ rows \subseteq RowRec
    /\ events \in [Scopes -> Nat] /\ commits \in [Scopes -> Nat] /\ lost \in [Scopes -> Nat]
    /\ cache \in [Processes -> [Scopes -> Slots \cup {None}]]
    /\ up \in [Processes -> {"starting", "seeding", "up"}]
    /\ reqs \in [Requests -> ReqRec]
    /\ lastRow \in Nat /\ saves \in Nat

(* What holds of a row whatever has happened since it was read.             *)
Coherent(row) ==
    \/ row.torn
    \/ /\ row.mode # "CUSTOM" => row.url = None /\ row.token = None
       /\ row.mode # "KUBECONFIG" => row.kube = None
Honest(row) == row.torn \/ row.health = "UNKNOWN" \/ row.about = Content(row)
Sound(row) == Coherent(row) /\ Honest(row)

(* An id names one row, and no id comes back.                               *)
Ids ==
    /\ \A a \in rows : a.id <= lastRow
    /\ \A a, b \in rows : a.id = b.id => a = b

Table ==
    /\ Ids
    /\ \A row \in rows : Sound(row)
    /\ \A a, b \in rows : a.scope = b.scope /\ a.scope \in Tenants => a = b

(* What is meant by an id that was read: a row of the scope, if any.        *)
Names(id, scope) ==
    id <= lastRow /\ \A row \in rows : row.id = id => row.scope = scope

HasRow(q) == q.pc \in {"build", "probe"} \/ (q.pc = "write" /\ q.row # None)

(* What a request has read.                                                 *)
ReqOk(q) ==
    /\ HasRow(q) => Sound(q.row) /\ Names(q.row.id, q.row.scope)
    /\ q.pc = "write" /\ q.row # None => q.row.scope = q.scope
    /\ q.pc = "remove" => q.id \in Nat /\ Names(q.id, q.scope)
    /\ q.pc = "build" => q.row.scope \in {q.tenant, Platform}
    /\ q.pc = "done" =>
          /\ q.got.scope = q.read.scope
          /\ q.got.scope \in {q.tenant, Platform, None}
          /\ q.got = q.read \/ q.read.scope \in restarted

Complete(slot) ==
    /\ slot.client.mode = "CUSTOM" => slot.client.url # None /\ slot.client.token # None
    /\ slot.client.mode = "KUBECONFIG" => slot.client.kube # None
SlotOk(p, s) == cache[p][s] # None => cache[p][s].client.scope = s /\ Complete(cache[p][s])

(* Every version of a scope that a process or a request has seen, with what *)
(* it meant: a version means one thing, and the row has the last one.       *)
Mark(row) == [version |-> row.version, client |-> Content(row)]
Seen(s) ==
    {Mark(row) : row \in Of(s)}
      \cup {cache[p][s] : p \in {p \in Processes : cache[p][s] # None}}
      \cup {Mark(reqs[r].row) : r \in {r \in Requests : HasRow(reqs[r]) /\ reqs[r].row.scope = s}}
Told(s) ==
    /\ \A a, b \in Of(s) : a = b
    /\ \A m \in Seen(s) : \E row \in Of(s) : m.version <= row.version
    /\ \A m, n \in Seen(s) : m.version = n.version => m = n

Logging(s) == {r \in Requests : reqs[r].pc = "log" /\ reqs[r].scope = s}
Counted == \A s \in Scopes : IsFiniteSet(Logging(s))

Safe ==
    /\ Table
    /\ \A r \in Requests : ReqOk(reqs[r])
    /\ \A p \in Processes, s \in Scopes : SlotOk(p, s)
    /\ \A s \in Scopes \ restarted : Told(s)
Inv == Types /\ Safe

-----------------------------------------------------------------------------
(* Types.                                                                   *)

LEMMA Grow ==
    ASSUME saves \in Nat, saves' \in Nat, saves <= saves'
    PROVE  /\ Vals \subseteq Vals' /\ Client \subseteq Client' /\ RowRec \subseteq RowRec'
           /\ Slots \subseteq Slots' /\ ReqRec \subseteq ReqRec'
<1>1. Vals \subseteq Vals'
  BY DEF Vals
<1>2. Client \subseteq Client'
  BY <1>1 DEF Client
<1>3. RowRec \subseteq RowRec' /\ Slots \subseteq Slots'
  BY <1>1, <1>2 DEF RowRec, Slots
<1>4. ReqRec \subseteq ReqRec'
  BY <1>1, <1>2, <1>3 DEF ReqRec
<1> QED
  BY <1>1, <1>2, <1>3, <1>4

LEMMA Becomes ==
    ASSUME Types, saves' \in Nat, saves <= saves',
           NEW r \in Requests, NEW q \in ReqRec', reqs' = [reqs EXCEPT ![r] = q]
    PROVE  /\ reqs' \in [Requests -> ReqRec'] /\ reqs'[r] = q
           /\ \A o \in Requests \ {r} : reqs'[o] = reqs[o]
<1>1. reqs \in [Requests -> ReqRec] /\ saves \in Nat
  BY DEF Types
<1>2. ReqRec \subseteq ReqRec'
  BY <1>1, Grow
<1> QED
  BY <1>1, <1>2

LEMMA Contents == ASSUME NEW row \in RowRec PROVE Content(row) \in Client
  BY DEF Content, Client, RowRec

LEMMA EnvType == ASSUME saves \in Nat PROVE Env \in Client
  BY DEF Env, Client, Modes, Vals

(* What a request read is in the table.                                     *)
LEMMA ReadRow ==
    ASSUME NEW s, NEW row \in rows \cup {None}, Reads(s, row)
    PROVE  \/ row = None /\ Of(s) = {}
           \/ row \in rows /\ row.scope = s /\ Of(s) # {}
  BY DEF Reads, Of

(* A row of the table, found by its id.                                     *)
LEMMA NowRow ==
    ASSUME NEW id, Exists(id)
    PROVE  Now(id) \in rows /\ Now(id).id = id
  BY DEF Exists, Now

-----------------------------------------------------------------------------
(* The steps of a request, by what they leave alone.                        *)

(* It reads the table: what it holds next is a row of it.                   *)
Looks(r) == Begin(r) \/ UseDefault(r)

Holds(r, q) ==
    /\ q \in ReqRec' /\ reqs' = [reqs EXCEPT ![r] = q]
    /\ q.pc # "log" /\ ReqOk(q)' /\ (HasRow(q) => q.row \in rows)

(* A row that is read is sound and has its own id.                          *)
LEMMA RowOk ==
    ASSUME Types, Table, NEW row \in rows
    PROVE  row \in RowRec /\ Sound(row) /\ Names(row.id, row.scope) /\ row.id \in Nat
  BY DEF Types, Table, Ids, Names, RowRec

LEMMA LooksOnly ==
    ASSUME Types, Table, NEW r \in Requests, Looks(r)
    PROVE  /\ UNCHANGED <<rows, events, cache, up, lastRow, history>>
           /\ saves' \in Nat /\ saves <= saves' /\ reqs[r].pc # "log"
           /\ \E q : Holds(r, q)
<1>0. saves \in Nat /\ Platform \in Scopes /\ Tenants \subseteq Scopes
  BY DEF Types, Scopes
<1>1. ASSUME NEW p \in Processes, NEW s \in Scopes, BeginSave(r, p, s)
      PROVE  /\ UNCHANGED <<rows, events, cache, up, lastRow, history>>
             /\ saves' = saves + 1 /\ reqs[r].pc # "log"
             /\ \E q : Holds(r, q)
  <2>1. PICK mode, secret, row, q :
            /\ mode \in Modes /\ secret \in {None, saves + 1} /\ row \in rows \cup {None}
            /\ Reads(s, row) /\ reqs' = [reqs EXCEPT ![r] = q]
            /\ q = [pc |-> "write", proc |-> p, scope |-> s, row |-> row,
                    mode |-> mode, n |-> saves + 1, secret |-> secret]
    BY <1>1 DEF BeginSave
  <2>2. /\ UNCHANGED <<rows, events, cache, up, lastRow, history>>
        /\ saves' = saves + 1 /\ reqs[r].pc # "log"
    BY <1>1 DEF BeginSave, Idle
  <2>3. row \in RowRec' \cup {None}
    BY <1>0, <2>1, <2>2, Grow DEF Types
  <2>4. q \in ReqRec'
    BY <1>0, <2>1, <2>2, <2>3 DEF ReqRec, Vals
  <2>5. row # None => row \in rows /\ row.scope = s
    BY <2>1, ReadRow
  <2>6. ReqOk(q)'
    BY <2>1, <2>2, <2>5, RowOk DEF ReqOk, HasRow, Sound, Names, Coherent, Honest, Content
  <2>7. q.pc # "log" /\ (HasRow(q) => q.row \in rows)
    BY <2>1, <2>5 DEF HasRow
  <2>8. Holds(r, q)
    BY <2>1, <2>4, <2>6, <2>7 DEF Holds
  <2> QED
    BY <2>2, <2>8
<1>2. ASSUME UNCHANGED saves PROVE RowRec' = RowRec /\ ReqRec' = ReqRec /\ Client' = Client
  BY <1>2 DEF RowRec, ReqRec, Client, Vals
<1>3. ASSUME NEW p \in Processes, NEW s \in Scopes, BeginRemove(r, p, s)
      PROVE  /\ UNCHANGED <<rows, events, cache, up, lastRow, saves, history>>
             /\ reqs[r].pc # "log" /\ \E q : Holds(r, q)
  <2>1. PICK row, q :
            /\ row \in rows \cup {None} /\ Reads(s, row) /\ reqs' = [reqs EXCEPT ![r] = q]
            /\ q = [pc |-> IF row = None THEN "evict" ELSE "remove", proc |-> p,
                    scope |-> s, id |-> IF row = None THEN None ELSE row.id]
    BY <1>3 DEF BeginRemove
  <2>2. UNCHANGED <<rows, events, cache, up, lastRow, saves, history>> /\ reqs[r].pc # "log"
    BY <1>3 DEF BeginRemove, Idle
  <2>3. row # None => row \in rows /\ row.scope = s /\ row.id \in Nat /\ Names(row.id, row.scope)
    BY <2>1, ReadRow, RowOk
  <2>4. q \in ReqRec'
    BY <2>1, <2>3 DEF ReqRec
  <2>5. ReqOk(q)' /\ ~HasRow(q)
    BY <2>1, <2>2, <2>3 DEF ReqOk, HasRow, Names
  <2> QED
    BY <2>1, <2>2, <2>4, <2>5 DEF Holds
<1>4. ASSUME NEW p \in Processes, NEW s \in Tenants, UseOwn(r, p, s)
      PROVE  /\ UNCHANGED <<rows, events, cache, up, lastRow, saves, history>>
             /\ reqs[r].pc # "log" /\ \E q : Holds(r, q)
  <2>1. PICK row \in rows \cup {None} :
            /\ Reads(s, row)
            /\ reqs' = [reqs EXCEPT ![r] =
                  IF row = None THEN [pc |-> "default", proc |-> p, tenant |-> s]
                  ELSE [pc |-> "build", proc |-> p, tenant |-> s, row |-> row]]
    BY <1>4 DEF UseOwn
  <2>2. UNCHANGED <<rows, events, cache, up, lastRow, saves, history>> /\ reqs[r].pc # "log"
    BY <1>4 DEF UseOwn, Idle
  <2>3. CASE row = None
    <3>0. PICK q : q = [pc |-> "default", proc |-> p, tenant |-> s]
      OBVIOUS
    <3>1. q \in ReqRec' /\ ReqOk(q)' /\ ~HasRow(q) /\ q.pc # "log"
      BY <1>0, <3>0 DEF ReqRec, ReqOk, HasRow
    <3> QED
      BY <2>1, <2>2, <2>3, <3>0, <3>1 DEF Holds
  <2>4. CASE row # None
    <3>0. PICK q : q = [pc |-> "build", proc |-> p, tenant |-> s, row |-> row]
      OBVIOUS
    <3>1. row \in rows /\ row.scope = s /\ row \in RowRec /\ Sound(row) /\ Names(row.id, row.scope)
      BY <2>1, <2>4, ReadRow, RowOk
    <3>2. q \in ReqRec'
      BY <1>0, <1>2, <2>2, <3>0, <3>1 DEF ReqRec
    <3>3. ReqOk(q)' /\ q.pc # "log" /\ q.row \in rows
      BY <2>2, <3>0, <3>1 DEF ReqOk, HasRow, Sound, Names, Coherent, Honest, Content
    <3> QED
      BY <2>1, <2>2, <2>4, <3>0, <3>1, <3>2, <3>3 DEF Holds
  <2> QED
    BY <2>2, <2>3, <2>4
<1>5. ASSUME UseDefault(r)
      PROVE  /\ UNCHANGED <<rows, events, cache, up, lastRow, saves, history>>
             /\ reqs[r].pc # "log" /\ \E q : Holds(r, q)
  <2>1. PICK row \in rows \cup {None} :
            /\ Reads(Platform, row)
            /\ reqs' = [reqs EXCEPT ![r] =
                  IF row = None
                  THEN [pc |-> "done", proc |-> reqs[r].proc, tenant |-> reqs[r].tenant,
                        read |-> Env, got |-> Env]
                  ELSE [pc |-> "build", proc |-> reqs[r].proc, tenant |-> reqs[r].tenant,
                        row |-> row]]
    BY <1>5 DEF UseDefault
  <2>2. UNCHANGED <<rows, events, cache, up, lastRow, saves, history>> /\ reqs[r].pc # "log"
    BY <1>5 DEF UseDefault, used
  <2>3. reqs[r].proc \in Processes /\ reqs[r].tenant \in Scopes
    BY <1>5 DEF UseDefault, Types, ReqRec
  <2>4. CASE row = None
    <3>0. PICK q : q = [pc |-> "done", proc |-> reqs[r].proc, tenant |-> reqs[r].tenant,
                        read |-> Env, got |-> Env]
      OBVIOUS
    <3>1. Env \in Client'
      BY <1>0, <1>2, <2>2, EnvType
    <3>2. q \in ReqRec' /\ ReqOk(q)' /\ ~HasRow(q) /\ q.pc # "log"
      BY <2>3, <3>0, <3>1 DEF ReqRec, ReqOk, HasRow, Env
    <3> QED
      BY <2>1, <2>2, <2>4, <3>0, <3>2 DEF Holds
  <2>5. CASE row # None
    <3>0. PICK q : q = [pc |-> "build", proc |-> reqs[r].proc,
                        tenant |-> reqs[r].tenant, row |-> row]
      OBVIOUS
    <3>1. /\ row \in rows /\ row.scope = Platform /\ row \in RowRec /\ Sound(row)
          /\ Names(row.id, row.scope)
      BY <2>1, <2>5, ReadRow, RowOk
    <3>2. q \in ReqRec'
      BY <1>2, <2>2, <2>3, <3>0, <3>1 DEF ReqRec
    <3>3. ReqOk(q)' /\ q.pc # "log" /\ q.row \in rows
      BY <2>2, <3>0, <3>1 DEF ReqOk, HasRow, Sound, Names, Coherent, Honest, Content
    <3> QED
      BY <2>1, <2>2, <2>5, <3>0, <3>1, <3>2, <3>3 DEF Holds
  <2> QED
    BY <2>2, <2>4, <2>5
<1>6. ASSUME NEW p \in Processes, NEW s \in Scopes, BeginProbe(r, p, s)
      PROVE  /\ UNCHANGED <<rows, events, cache, up, lastRow, saves, history>>
             /\ reqs[r].pc # "log" /\ \E q : Holds(r, q)
  <2>1. PICK row, q :
            /\ row \in rows
            /\ reqs' = [reqs EXCEPT ![r] = q] /\ q = [pc |-> "probe", proc |-> p, row |-> row]
    BY <1>6 DEF BeginProbe
  <2>2. UNCHANGED <<rows, events, cache, up, lastRow, saves, history>> /\ reqs[r].pc # "log"
    BY <1>6 DEF BeginProbe, Idle
  <2>3. row \in RowRec /\ Sound(row) /\ Names(row.id, row.scope)
    BY <2>1, RowOk
  <2>4. q \in ReqRec'
    BY <1>2, <2>1, <2>2, <2>3 DEF ReqRec
  <2>5. ReqOk(q)'
    BY <2>1, <2>2, <2>3 DEF ReqOk, HasRow, Sound, Names, Coherent, Honest, Content
  <2>6. q.pc # "log" /\ q.row \in rows
    BY <2>1
  <2>7. Holds(r, q)
    BY <2>1, <2>4, <2>5, <2>6 DEF Holds
  <2> QED
    BY <2>2, <2>7
<1> QED
  BY <1>0, <1>1, <1>3, <1>4, <1>5, <1>6 DEF Looks, Begin

-----------------------------------------------------------------------------
(* A step that leaves the table alone.                                      *)

LEMMA SeenIs ==
    ASSUME NEW s, NEW m
    PROVE  m \in Seen(s) <=>
              \/ \E row \in rows : row.scope = s /\ m = Mark(row)
              \/ \E p \in Processes : cache[p][s] # None /\ m = cache[p][s]
              \/ \E r \in Requests : /\ HasRow(reqs[r]) /\ reqs[r].row.scope = s
                                     /\ m = Mark(reqs[r].row)
  BY DEF Seen, Of

LEMMA SeenNext ==
    ASSUME NEW s, NEW m
    PROVE  m \in Seen(s)' <=>
              \/ \E row \in rows' : row.scope = s /\ m = Mark(row)
              \/ \E p \in Processes : cache'[p][s] # None /\ m = cache'[p][s]
              \/ \E r \in Requests : /\ HasRow(reqs[r])' /\ reqs'[r].row.scope = s
                                     /\ m = Mark(reqs'[r].row)
  BY DEF Seen, Of, Mark, Content

LEMMA ToldKept ==
    ASSUME NEW s, Told(s), Of(s)' = Of(s), Seen(s)' \subseteq Seen(s)
    PROVE  Told(s)'
  BY DEF Told

(* A request goes on holding what it held, or holds a row of the table, or  *)
(* none.                                                                    *)
Fits(o) ==
    \/ reqs'[o] = reqs[o]
    \/ ReqOk(reqs[o])' /\ (HasRow(reqs[o])' => reqs'[o].row \in rows)

(* What was read stays as good while rows only disappear.                   *)
LEMMA ReqKept ==
    ASSUME NEW o \in Requests, ReqOk(reqs[o]), reqs'[o] = reqs[o], lastRow' = lastRow,
           rows' \subseteq rows, restarted \subseteq restarted'
    PROVE  ReqOk(reqs[o])'
<1>1. PICK q : q = reqs[o]
  OBVIOUS
<1>2. ReqOk(q) /\ q = reqs'[o]
  BY <1>1
<1>3. HasRow(q) => Sound(q.row)' /\ Names(q.row.id, q.row.scope)'
  BY <1>2 DEF ReqOk, Names, Sound, Coherent, Honest, Content
<1>4. q.pc = "remove" => q.id \in Nat /\ Names(q.id, q.scope)'
  BY <1>2 DEF ReqOk, Names
<1>5. ReqOk(q)'
  BY <1>2, <1>3, <1>4 DEF ReqOk, HasRow
<1> QED
  BY <1>2, <1>5 DEF ReqOk, HasRow, Names, Sound, Coherent, Honest, Content

LEMMA Keep ==
    ASSUME Safe, UNCHANGED <<rows, lastRow, restarted>>,
           \A o \in Requests : Fits(o),
           \A p \in Processes, s \in Scopes : cache'[p][s] \in {cache[p][s], None}
    PROVE  Safe'
<1>1. Table'
  BY DEF Safe, Table, Ids, Sound, Coherent, Honest, Content
<1>2. ASSUME NEW o \in Requests PROVE ReqOk(reqs[o])'
  <2>1. CASE reqs'[o] = reqs[o]
    BY <2>1, ReqKept DEF Safe
  <2>2. CASE reqs'[o] # reqs[o]
    BY <2>2 DEF Fits
  <2> QED
    BY <2>1, <2>2
<1>3. ASSUME NEW p \in Processes, NEW s \in Scopes PROVE SlotOk(p, s)'
  BY DEF Safe, SlotOk, Complete
<1>4. ASSUME NEW s \in Scopes \ restarted' PROVE Told(s)'
  <2>1. Told(s) /\ Of(s)' = Of(s)
    BY <1>4 DEF Safe, Of
  <2>2. ASSUME NEW m \in Seen(s)' PROVE m \in Seen(s)
    <3>1. CASE \E row \in rows' : row.scope = s /\ m = Mark(row)
      BY <3>1, SeenIs
    <3>2. CASE \E p \in Processes : cache'[p][s] # None /\ m = cache'[p][s]
      BY <1>4, <3>2, SeenIs
    <3>3. CASE \E r \in Requests : /\ HasRow(reqs[r])' /\ reqs'[r].row.scope = s
                                   /\ m = Mark(reqs'[r].row)
      <4>1. PICK r \in Requests : /\ HasRow(reqs[r])' /\ reqs'[r].row.scope = s
                                  /\ m = Mark(reqs'[r].row)
        BY <3>3
      <4>2. CASE reqs'[r] = reqs[r]
        <5>1. HasRow(reqs[r])
          BY <4>1, <4>2 DEF HasRow
        <5> QED
          BY <4>1, <4>2, <5>1, SeenIs
      <4>3. CASE reqs'[r] # reqs[r]
        BY <4>1, <4>3, SeenIs DEF Fits
      <4> QED
        BY <4>2, <4>3
    <3> QED
      BY <2>2, <3>1, <3>2, <3>3, SeenNext
  <2> QED
    BY <2>1, <2>2, ToldKept
<1> QED
  BY <1>1, <1>2, <1>3, <1>4 DEF Safe

LEMMA LooksInv ==
    ASSUME Inv, NEW r \in Requests, Looks(r)
    PROVE  Inv'
<1>1. /\ UNCHANGED <<rows, events, cache, up, lastRow, history>>
      /\ saves' \in Nat /\ saves <= saves'
      /\ \E q : Holds(r, q)
  BY LooksOnly DEF Inv, Safe
<1>2. PICK q : Holds(r, q)
  BY <1>1
<1>3. /\ reqs' \in [Requests -> ReqRec'] /\ reqs'[r] = q
      /\ \A o \in Requests \ {r} : reqs'[o] = reqs[o]
  BY <1>1, <1>2, Becomes DEF Holds, Inv
<1>4. Types'
  <2>1. rows \subseteq RowRec' /\ cache \in [Processes -> [Scopes -> Slots' \cup {None}]]
    BY <1>1, Grow DEF Inv, Types
  <2> QED
    BY <1>1, <1>3, <2>1 DEF Inv, Types, history
<1>5. ReqOk(reqs[r])' /\ (HasRow(reqs[r])' => reqs'[r].row \in rows)
  BY <1>2, <1>3 DEF Holds, HasRow, ReqOk
<1>6. \A o \in Requests : Fits(o)
  BY <1>3, <1>5 DEF Fits
<1>7. \A p \in Processes, s \in Scopes : cache'[p][s] \in {cache[p][s], None}
  BY <1>1
<1> QED
  BY <1>1, <1>4, <1>6, <1>7, Keep DEF Inv, history

(* A step after which the request holds no row and may only log or evict.   *)
Quiet(r) ==
    \/ SaveRefused(r) \/ Log(r) \/ LogFault(r) \/ RefreshFails(r) \/ Evict(r)
    \/ BuildFails(r) \/ Return(r)

LEMMA IdleReq == Idle \in ReqRec
  BY DEF Idle, ReqRec

(* A request that logs, and what it is when it goes on to evict.            *)
LEMMA LogReq ==
    ASSUME Types, NEW r \in Requests, reqs[r].pc \in {"remove", "log", "evict"}
    PROVE  /\ reqs[r].proc \in Processes /\ reqs[r].scope \in Scopes
           /\ reqs[r].id \in Nat \cup {None}
           /\ \A pc \in {"remove", "log", "evict"} : [reqs[r] EXCEPT !.pc = pc] \in ReqRec
<1>1. reqs[r] \in ReqRec
  BY DEF Types
<1>2. reqs[r] \in [pc : {"remove", "log", "evict"}, proc : Processes, scope : Scopes,
                   id : Nat \cup {None}]
  BY <1>1 DEF ReqRec
<1> QED
  BY <1>2 DEF ReqRec

LEMMA QuietReq ==
    ASSUME Inv, NEW r \in Requests, Quiet(r)
    PROVE  /\ UNCHANGED <<rows, commits, up, lastRow, saves, restarted>>
           /\ reqs' \in [Requests -> ReqRec] /\ reqs'[r].pc \in {"idle", "evict"}
           /\ \A o \in Requests \ {r} : reqs'[o] = reqs[o]
<1>0. reqs \in [Requests -> ReqRec]
  BY DEF Inv, Types
<1>1. CASE Log(r) \/ LogFault(r)
  <2>1. reqs' = [reqs EXCEPT ![r] = [reqs[r] EXCEPT !.pc = "evict"]] /\ reqs[r].pc = "log"
    BY <1>1 DEF Log, LogFault, Goto
  <2>2. [reqs[r] EXCEPT !.pc = "evict"] \in ReqRec
    BY <2>1, LogReq DEF Inv
  <2>3. [reqs[r] EXCEPT !.pc = "evict"].pc = "evict"
    <3>1. reqs[r] \in [pc : {"remove", "log", "evict"}, proc : Processes, scope : Scopes,
                       id : Nat \cup {None}]
      BY <1>0, <2>1 DEF ReqRec
    <3> QED
      BY <3>1
  <2> QED
    BY <1>0, <1>1, <2>1, <2>2, <2>3 DEF Log, LogFault, used, history
<1>2. CASE ~(Log(r) \/ LogFault(r))
  <2>1. End(r) /\ UNCHANGED <<rows, commits, up, lastRow, saves, restarted>>
    BY <1>2 DEF Quiet, SaveRefused, RefreshFails, Evict, BuildFails, Return, used, history
  <2> QED
    BY <1>0, <2>1, IdleReq DEF End, Idle
<1> QED
  BY <1>1, <1>2

LEMMA QuietTypes ==
    ASSUME Inv, NEW r \in Requests, Quiet(r)
    PROVE  /\ events' \in [Scopes -> Nat] /\ lost' \in [Scopes -> Nat]
           /\ cache' \in [Processes -> [Scopes -> Slots \cup {None}]]
           /\ \A p \in Processes, s \in Scopes : cache'[p][s] \in {cache[p][s], None}
<1>1. /\ events \in [Scopes -> Nat] /\ lost \in [Scopes -> Nat]
      /\ cache \in [Processes -> [Scopes -> Slots \cup {None}]]
  BY DEF Inv, Types
<1>2. CASE Evict(r)
  <2>1. /\ events' = events /\ lost' = lost
        /\ \/ cache' = cache
           \/ cache' = [cache EXCEPT ![reqs[r].proc] =
                            [cache[reqs[r].proc] EXCEPT ![reqs[r].scope] = None]]
    BY <1>2 DEF Evict, history
  <2>2. reqs[r].proc \in Processes /\ reqs[r].scope \in Scopes
    BY <1>2, LogReq DEF Evict, Inv
  <2> QED
    BY <1>1, <2>1, <2>2
<1>3. CASE Log(r) \/ LogFault(r) \/ RefreshFails(r)
  <2>1. reqs[r].scope \in Scopes
    BY <1>3, LogReq DEF Log, LogFault, RefreshFails, Inv
  <2> QED
    BY <1>1, <1>3, <2>1 DEF Log, LogFault, RefreshFails, history
<1>4. CASE SaveRefused(r) \/ BuildFails(r) \/ Return(r)
  BY <1>1, <1>4 DEF SaveRefused, BuildFails, Return, history
<1> QED
  BY <1>2, <1>3, <1>4 DEF Quiet

LEMMA QuietInv ==
    ASSUME Inv, NEW r \in Requests, Quiet(r)
    PROVE  Inv'
<1>1. /\ UNCHANGED <<rows, commits, up, lastRow, saves, restarted>>
      /\ reqs' \in [Requests -> ReqRec] /\ reqs'[r].pc \in {"idle", "evict"}
      /\ \A o \in Requests \ {r} : reqs'[o] = reqs[o]
  BY QuietReq
<1>2. RowRec' = RowRec /\ Slots' = Slots /\ ReqRec' = ReqRec
  BY <1>1 DEF RowRec, Slots, ReqRec, Client, Vals
<1>3. Types'
  BY <1>1, <1>2, QuietTypes DEF Inv, Types
<1>4. ReqOk(reqs[r])' /\ ~HasRow(reqs[r])'
  BY <1>1 DEF ReqOk, HasRow
<1>5. \A o \in Requests : Fits(o)
  BY <1>1, <1>4 DEF Fits
<1> QED
  BY <1>1, <1>3, <1>5, QuietTypes, Keep DEF Inv

LEMMA SeedCheckInv ==
    ASSUME Inv, NEW p \in Processes, SeedCheck(p)
    PROVE  Inv'
<1>1. /\ UNCHANGED <<rows, events, cache, reqs, lastRow, saves, commits, lost, restarted>>
      /\ up' \in [Processes -> {"starting", "seeding", "up"}]
  BY DEF SeedCheck, Inv, Types, used, history
<1>2. RowRec' = RowRec /\ Slots' = Slots /\ ReqRec' = ReqRec
  BY <1>1 DEF RowRec, Slots, ReqRec, Client, Vals
<1>3. Types'
  BY <1>1, <1>2 DEF Inv, Types
<1>4. \A o \in Requests : Fits(o)
  BY <1>1 DEF Fits
<1>5. \A q \in Processes, s \in Scopes : cache'[q][s] \in {cache[q][s], None}
  BY <1>1
<1> QED
  BY <1>1, <1>3, <1>4, <1>5, Keep DEF Inv

LEMMA CrashInv ==
    ASSUME Inv, Counted, NEW p \in Processes, Crash(p)
    PROVE  Inv'
<1>1. UNCHANGED <<rows, events, lastRow, saves, commits, restarted>>
  BY DEF Crash, history
<1>2. RowRec' = RowRec /\ Slots' = Slots /\ ReqRec' = ReqRec
  BY <1>1 DEF RowRec, Slots, ReqRec, Client, Vals
<1>3. up' \in [Processes -> {"starting", "seeding", "up"}]
  BY DEF Inv, Types, Crash
<1>4. /\ cache' \in [Processes -> [Scopes -> Slots \cup {None}]]
      /\ \A q \in Processes, s \in Scopes : cache'[q][s] \in {cache[q][s], None}
  BY DEF Inv, Types, Crash
<1>5. reqs' \in [Requests -> ReqRec] /\ \A o \in Requests : reqs'[o] \in {reqs[o], Idle}
  BY IdleReq DEF Inv, Types, Crash
<1>6. lost' \in [Scopes -> Nat]
  <2>1. ASSUME NEW s \in Scopes
        PROVE  Cardinality({r \in Requests : /\ reqs[r].pc = "log" /\ reqs[r].proc = p
                                             /\ reqs[r].scope = s}) \in Nat
    <3>1. {r \in Requests : reqs[r].pc = "log" /\ reqs[r].proc = p /\ reqs[r].scope = s}
            \subseteq Logging(s)
      BY DEF Logging
    <3> QED
      BY <3>1, FS_Subset, FS_CardinalityType DEF Counted
  <2> QED
    BY <2>1 DEF Inv, Types, Crash
<1>7. Types'
  BY <1>1, <1>2, <1>3, <1>4, <1>5, <1>6 DEF Inv, Types
<1>8. ASSUME NEW o \in Requests PROVE Fits(o)
  <2>1. CASE reqs'[o] = Idle
    BY <2>1 DEF Fits, ReqOk, HasRow, Idle
  <2> QED
    BY <1>5, <2>1 DEF Fits
<1> QED
  BY <1>1, <1>4, <1>7, <1>8, Keep DEF Inv

(* A client is built: the slot says what the row says.                      *)
LEMMA BuildInv ==
    ASSUME Inv, NEW r \in Requests, Build(r)
    PROVE  Inv'
<1> DEFINE q == reqs[r]
           s == q.row.scope
           hit == Hit(q.proc, q.row)
           client == IF hit THEN cache[q.proc][s].client ELSE Content(q.row)
<1>1. /\ UNCHANGED <<rows, events, up, lastRow, saves, commits, lost, restarted>>
      /\ q.pc = "build" /\ (hit \/ Buildable(Content(q.row)))
      /\ cache' = IF hit THEN cache
                  ELSE [cache EXCEPT ![q.proc] = [cache[q.proc] EXCEPT ![s] =
                            [version |-> q.row.version, client |-> client]]]
      /\ reqs' = [reqs EXCEPT ![r] = [pc |-> "done", proc |-> q.proc, tenant |-> q.tenant,
                                      read |-> Content(q.row), got |-> client]]
  BY DEF Build, used, history, Slot
<1>2. RowRec' = RowRec /\ Slots' = Slots /\ ReqRec' = ReqRec
  BY <1>1 DEF RowRec, Slots, ReqRec, Client, Vals
<1>3. /\ q \in ReqRec /\ q.proc \in Processes /\ q.tenant \in Scopes /\ q.row \in RowRec
      /\ s \in Scopes /\ q.row.version \in Nat \ {0} /\ Content(q.row) \in Client
  <2>1. q \in [pc : {"build"}, proc : Processes, tenant : Scopes, row : RowRec]
    BY <1>1 DEF Inv, Types, ReqRec
  <2>2. q \in ReqRec
    BY <2>1 DEF ReqRec
  <2> QED
    BY <2>1, <2>2, Contents DEF RowRec
<1>4. /\ cache \in [Processes -> [Scopes -> Slots \cup {None}]] /\ reqs \in [Requests -> ReqRec]
      /\ hit => cache[q.proc][s] # None /\ cache[q.proc][s].version = q.row.version
  BY DEF Inv, Types, Hit
<1>5. client \in Client
  BY <1>3, <1>4 DEF Slots
<1>6. ~hit => [version |-> q.row.version, client |-> client] = Mark(q.row)
              /\ Mark(q.row) \in Slots
  BY <1>3 DEF Mark, Slots
<1>7. \A p \in Processes, t \in Scopes :
          \/ cache'[p][t] = cache[p][t]
          \/ ~hit /\ p = q.proc /\ t = s /\ cache'[p][t] = Mark(q.row)
  BY <1>1, <1>3, <1>4, <1>6
<1>8. cache' \in [Processes -> [Scopes -> Slots \cup {None}]]
  BY <1>1, <1>3, <1>4, <1>6
<1>9. /\ reqs' \in [Requests -> ReqRec] /\ \A o \in Requests \ {r} : reqs'[o] = reqs[o]
      /\ reqs'[r] = [pc |-> "done", proc |-> q.proc, tenant |-> q.tenant,
                     read |-> Content(q.row), got |-> client]
  <2>1. [pc |-> "done", proc |-> q.proc, tenant |-> q.tenant,
         read |-> Content(q.row), got |-> client] \in ReqRec
    BY <1>3, <1>5 DEF ReqRec
  <2> QED
    BY <1>1, <1>4, <2>1
<1>10. Types'
  BY <1>1, <1>2, <1>8, <1>9 DEF Inv, Types
<1>11. Table'
  BY <1>1 DEF Inv, Safe, Table, Ids, Sound, Coherent, Honest, Content
<1>12. Mark(q.row) \in Seen(s)
  BY <1>1, SeenIs DEF HasRow
<1>13. ASSUME NEW o \in Requests PROVE ReqOk(reqs[o])'
  <2>1. CASE o # r
    BY <1>1, <1>9, <2>1, ReqKept DEF Inv, Safe
  <2>2. CASE o = r
    <3>1. s \in {q.tenant, Platform}
      BY <1>1 DEF Inv, Safe, ReqOk
    <3>2. client.scope = s
      BY <1>3, <1>4 DEF Inv, Safe, SlotOk, Content
    <3>3. client = Content(q.row) \/ s \in restarted
      <4>1. CASE hit /\ s \notin restarted
        <5>1. Told(s)
          BY <1>3, <4>1 DEF Inv, Safe
        <5>2. cache[q.proc][s] \in Seen(s)
          BY <1>3, <1>4, <4>1, SeenIs
        <5>3. cache[q.proc][s] = Mark(q.row)
          BY <1>4, <1>12, <4>1, <5>1, <5>2 DEF Told, Mark
        <5> QED
          BY <4>1, <5>3 DEF Mark
      <4> QED
        BY <4>1
    <3>4. Content(q.row).scope = s
      BY DEF Content
    <3>5. /\ reqs'[o].pc = "done" /\ reqs'[o].got = client /\ reqs'[o].tenant = q.tenant
          /\ reqs'[o].read = Content(q.row)
      BY <1>9, <2>2
    <3> HIDE DEF client, hit, s, q
    <3> QED
      BY <1>1, <3>1, <3>2, <3>3, <3>4, <3>5 DEF ReqOk, HasRow
  <2> QED
    BY <2>1, <2>2
<1>14. ASSUME NEW p \in Processes, NEW t \in Scopes PROVE SlotOk(p, t)'
  <2>1. CASE cache'[p][t] = cache[p][t]
    BY <2>1 DEF Inv, Safe, SlotOk, Complete
  <2>2. CASE ~hit /\ p = q.proc /\ t = s /\ cache'[p][t] = Mark(q.row)
    <3>1. /\ Mark(q.row).client = Content(q.row) /\ Content(q.row).scope = s
          /\ Buildable(Content(q.row))
      BY <1>1, <2>2 DEF Mark, Content
    <3>2. cache'[p][t].client = Content(q.row)
      BY <2>2, <3>1
    <3> HIDE DEF q, hit, client
    <3> QED
      BY <2>2, <3>1, <3>2 DEF SlotOk, Complete, Buildable
  <2> QED
    BY <1>7, <2>1, <2>2
<1>15. ASSUME NEW t \in Scopes \ restarted' PROVE Told(t)'
  <2>1. Told(t) /\ Of(t)' = Of(t)
    BY <1>1, <1>15 DEF Inv, Safe, Of
  <2>2. ASSUME NEW m \in Seen(t)' PROVE m \in Seen(t)
    <3>1. CASE \E row \in rows' : row.scope = t /\ m = Mark(row)
      BY <1>1, <3>1, SeenIs
    <3>2. CASE \E p \in Processes : cache'[p][t] # None /\ m = cache'[p][t]
      <4>1. PICK p \in Processes : cache'[p][t] # None /\ m = cache'[p][t]
        BY <3>2
      <4>2. CASE cache'[p][t] = cache[p][t]
        BY <4>1, <4>2, SeenIs
      <4>3. CASE cache'[p][t] # cache[p][t]
        BY <1>7, <1>12, <1>15, <4>1, <4>3
      <4> QED
        BY <4>2, <4>3
    <3>3. CASE \E o \in Requests : /\ HasRow(reqs[o])' /\ reqs'[o].row.scope = t
                                   /\ m = Mark(reqs'[o].row)
      <4>1. PICK o \in Requests : /\ HasRow(reqs[o])' /\ reqs'[o].row.scope = t
                                  /\ m = Mark(reqs'[o].row)
        BY <3>3
      <4>2. o # r
        BY <1>9, <4>1 DEF HasRow
      <4>3. HasRow(reqs[o]) /\ reqs'[o] = reqs[o]
        BY <1>9, <4>1, <4>2 DEF HasRow
      <4> QED
        BY <4>1, <4>3, SeenIs
    <3> QED
      BY <2>2, <3>1, <3>2, <3>3, SeenNext
  <2> QED
    BY <2>1, <2>2, ToldKept
<1> QED
  BY <1>10, <1>11, <1>13, <1>14, <1>15 DEF Inv, Safe

-----------------------------------------------------------------------------
(* A step that writes a row.                                                *)

(* The row takes its id from nothing or from a row of its scope; a tenant   *)
(* has no other; and where no version went back, it is the only row of its  *)
(* scope and the last word on it.                                           *)
Settled(new) ==
    /\ \A o \in rows : o.id = new.id => o.scope = new.scope
    /\ new.id > lastRow \/ Exists(new.id)
    /\ new.scope \in Tenants => \A o \in Of(new.scope) : o.id = new.id
    /\ new.scope \notin restarted' =>
          /\ \A o \in Of(new.scope) : o.id = new.id
          /\ \A m \in Seen(new.scope) : /\ m.version <= new.version
                                        /\ m.version = new.version => m = Mark(new)

LEMMA Put ==
    ASSUME Inv, NEW new, Sound(new), new.id \in Nat, new.version \in Nat, Settled(new),
           lastRow' \in Nat, lastRow <= lastRow', new.id <= lastRow',
           rows' = Replace(new), UNCHANGED cache, restarted \subseteq restarted',
           \A o \in Requests : reqs'[o] = reqs[o] \/ (~HasRow(reqs[o])' /\ ReqOk(reqs[o])')
    PROVE  Safe'
<1>1. /\ \A o \in rows : o.id \in Nat /\ o.id <= lastRow
      /\ lastRow \in Nat /\ Ids /\ Table
  BY DEF Inv, Types, Safe, Table, Ids, RowRec
<1>2. \A o : o \in rows' <=> (o \in rows /\ o.id # new.id) \/ o = new
  BY DEF Replace
<1>3. Table'
  <2>1. Ids'
    BY <1>1, <1>2 DEF Ids
  <2>2. \A o \in rows' : Sound(o)'
    BY <1>1, <1>2 DEF Table, Sound, Coherent, Honest, Content
  <2>3. ASSUME NEW a \in rows', NEW b \in rows', a.scope = b.scope, a.scope \in Tenants
        PROVE  a = b
    <3>1. CASE a \in rows /\ b \in rows /\ a.id # new.id /\ b.id # new.id
      BY <1>1, <2>3, <3>1 DEF Table
    <3>2. CASE a = new \/ b = new
      BY <1>2, <2>3, <3>2 DEF Settled, Of
    <3> QED
      BY <1>2, <3>1, <3>2
  <2> QED
    BY <2>1, <2>2, <2>3 DEF Table
<1>4. ASSUME NEW id, NEW s, id \in Nat, Names(id, s) PROVE Names(id, s)'
  <2>1. id <= lastRow'
    BY <1>1, <1>4 DEF Names
  <2>2. ASSUME NEW o \in rows', o.id = id PROVE o.scope = s
    <3>1. CASE o \in rows
      BY <1>4, <2>2, <3>1 DEF Names
    <3>2. CASE o = new
      <4>1. PICK old \in rows : old.id = new.id
        BY <1>1, <1>4, <2>2, <3>2 DEF Names, Settled, Exists
      <4> QED
        BY <1>4, <2>2, <3>2, <4>1 DEF Names, Settled
    <3> QED
      BY <1>2, <3>1, <3>2
  <2> QED
    BY <2>1, <2>2 DEF Names
<1>5. ASSUME NEW o \in Requests PROVE ReqOk(reqs[o])'
  <2>1. CASE reqs'[o] = reqs[o]
    <3>1. ReqOk(reqs[o]) /\ reqs[o] \in ReqRec
      BY DEF Inv, Safe, Types
    <3>2. HasRow(reqs[o]) => Sound(reqs[o].row)' /\ Names(reqs[o].row.id, reqs[o].row.scope)'
      <4>1. HasRow(reqs[o]) => reqs[o].row.id \in Nat
        BY <3>1 DEF HasRow, ReqRec, RowRec
      <4>2. HasRow(reqs[o]) => Sound(reqs[o].row) /\ Names(reqs[o].row.id, reqs[o].row.scope)
        BY <3>1 DEF ReqOk
      <4>3. PICK row : row = reqs[o].row
        OBVIOUS
      <4>4. HasRow(reqs[o]) => Names(row.id, row.scope)'
        BY <1>4, <4>1, <4>2, <4>3
      <4> QED
        BY <2>1, <4>2, <4>3, <4>4 DEF Sound, Coherent, Honest, Content, Names
    <3>3. reqs[o].pc = "remove" => reqs[o].id \in Nat /\ Names(reqs[o].id, reqs[o].scope)'
      <4>1. reqs[o].pc = "remove" => reqs[o].id \in Nat /\ Names(reqs[o].id, reqs[o].scope)
        BY <3>1 DEF ReqOk
      <4>2. PICK id, s : id = reqs[o].id /\ s = reqs[o].scope
        OBVIOUS
      <4>3. reqs[o].pc = "remove" => Names(id, s)'
        BY <1>4, <4>1, <4>2
      <4> QED
        BY <2>1, <4>1, <4>2, <4>3 DEF Names
    <3>4. /\ reqs'[o].pc = "write" /\ reqs'[o].row # None => reqs'[o].row.scope = reqs'[o].scope
          /\ reqs'[o].pc = "build" => reqs'[o].row.scope \in {reqs'[o].tenant, Platform}
          /\ reqs'[o].pc = "done" =>
                /\ reqs'[o].got.scope = reqs'[o].read.scope
                /\ reqs'[o].got.scope \in {reqs'[o].tenant, Platform, None}
                /\ reqs'[o].got = reqs'[o].read \/ reqs'[o].read.scope \in restarted'
      BY <2>1, <3>1 DEF ReqOk
    <3> QED
      BY <2>1, <3>2, <3>3, <3>4 DEF ReqOk, HasRow, Names, Sound, Coherent, Honest, Content
  <2> QED
    BY <2>1
<1>6. ASSUME NEW p \in Processes, NEW s \in Scopes PROVE SlotOk(p, s)'
  BY DEF Inv, Safe, SlotOk, Complete
<1>7. ASSUME NEW s, NEW m \in Seen(s)'
      PROVE  m \in Seen(s) \/ (s = new.scope /\ m = Mark(new))
  <2>1. CASE \E row \in rows' : row.scope = s /\ m = Mark(row)
    BY <1>2, <2>1, SeenIs
  <2>2. CASE \E p \in Processes : cache'[p][s] # None /\ m = cache'[p][s]
    BY <2>2, SeenIs
  <2>3. CASE \E r \in Requests : /\ HasRow(reqs[r])' /\ reqs'[r].row.scope = s
                                 /\ m = Mark(reqs'[r].row)
    <3>1. PICK r \in Requests : /\ HasRow(reqs[r])' /\ reqs'[r].row.scope = s
                                /\ m = Mark(reqs'[r].row)
      BY <2>3
    <3>2. HasRow(reqs[r]) /\ reqs'[r] = reqs[r]
      BY <3>1 DEF HasRow
    <3> QED
      BY <3>1, <3>2, SeenIs
  <2> QED
    BY <1>7, <2>1, <2>2, <2>3, SeenNext
<1>8. ASSUME NEW s \in Scopes \ restarted' PROVE Told(s)'
  <2>0. Told(s)
    BY <1>8 DEF Inv, Safe
  <2>1. CASE s # new.scope
    <3>1. Of(s)' = Of(s)
      BY <1>2, <2>1 DEF Of, Settled
    <3> QED
      BY <1>7, <2>0, <2>1, <3>1, ToldKept
  <2>2. CASE s = new.scope
    <3>1. Of(s)' = {new}
      BY <1>2, <1>8, <2>2 DEF Of, Settled
    <3>2. ASSUME NEW m \in Seen(s)'
          PROVE  m.version <= new.version /\ (m.version = new.version => m = Mark(new))
      BY <1>7, <1>8, <2>2, <3>2 DEF Settled, Mark
    <3>3. ASSUME NEW m \in Seen(s)', NEW n \in Seen(s)', m.version = n.version PROVE m = n
      <4>1. Mark(new).version = new.version
        BY DEF Mark
      <4>2. CASE m = Mark(new) \/ n = Mark(new)
        BY <3>2, <3>3, <4>1, <4>2
      <4>3. CASE m \in Seen(s) /\ n \in Seen(s)
        BY <2>0, <3>3, <4>3 DEF Told
      <4> QED
        BY <1>7, <4>2, <4>3
    <3> QED
      BY <3>1, <3>2, <3>3 DEF Told
  <2> QED
    BY <2>1, <2>2
<1> QED
  BY <1>3, <1>5, <1>6, <1>8 DEF Safe

LEMMA SeenTypes ==
    ASSUME Types, NEW s \in Scopes, NEW m \in Seen(s)
    PROVE  m.version \in Nat
<1>1. CASE \E row \in rows : row.scope = s /\ m = Mark(row)
  BY <1>1 DEF Types, RowRec, Mark
<1>2. CASE \E p \in Processes : cache[p][s] # None /\ m = cache[p][s]
  BY <1>2 DEF Types, Slots
<1>3. CASE \E r \in Requests : /\ HasRow(reqs[r]) /\ reqs[r].row.scope = s
                               /\ m = Mark(reqs[r].row)
  BY <1>3 DEF Types, ReqRec, HasRow, RowRec, Mark
<1> QED
  BY <1>1, <1>2, <1>3, SeenIs

(* What a save makes of a row, or of the row that it is about to insert.    *)
Drafts ==
    [id : Nat, scope : Scopes, mode : Modes, url : Vals, token : Vals, kube : Vals,
     version : Nat, health : Verdicts \cup {"UNKNOWN"}, about : Client \cup {None}, torn : BOOLEAN]

LEMMA AppliedIs ==
    ASSUME Types, NEW r \in Requests, reqs[r].pc = "write", NEW row \in Drafts
    PROVE  LET new == Applied(reqs[r], row) IN
           /\ new \in RowRec /\ new.id = row.id /\ new.scope = row.scope
           /\ new.version = row.version + 1 /\ new.health = "UNKNOWN" /\ new.about = None
           /\ new.torn = row.torn
           /\ new.mode # "CUSTOM" => new.url = None /\ new.token = None
           /\ new.mode # "KUBECONFIG" => new.kube = None
<1> DEFINE q == reqs[r]
<1>1. q.mode \in Modes /\ q.n \in Vals /\ q.secret \in Vals /\ None \in Vals
  BY DEF Types, ReqRec, Vals
<1>2. PICK url \in Vals, token \in Vals, kube \in Vals :
          /\ url = IF q.mode = "CUSTOM" THEN q.n ELSE None
          /\ token = IF q.mode # "CUSTOM" THEN None
                     ELSE IF q.secret # None THEN q.secret ELSE row.token
          /\ kube = IF q.mode # "KUBECONFIG" THEN None
                    ELSE IF q.secret # None THEN q.secret ELSE row.kube
  BY <1>1 DEF Drafts
<1>3. Applied(q, row) = [row EXCEPT !.mode = q.mode, !.url = url, !.token = token, !.kube = kube,
                                    !.version = @ + 1, !.health = "UNKNOWN", !.about = None]
  BY <1>2 DEF Applied, Drafts
<1> HIDE DEF q
<1>4. Applied(q, row) =
        [id |-> row.id, scope |-> row.scope, mode |-> q.mode, url |-> url, token |-> token,
         kube |-> kube, version |-> row.version + 1, health |-> "UNKNOWN", about |-> None,
         torn |-> row.torn]
  BY <1>3 DEF Drafts
<1>5. /\ row.id \in Nat /\ row.scope \in Scopes /\ row.version + 1 \in Nat \ {0}
      /\ row.torn \in BOOLEAN
  BY DEF Drafts
<1>6. Applied(q, row) \in RowRec
  BY <1>1, <1>4, <1>5 DEF RowRec
<1> QED
  BY <1>2, <1>4, <1>6 DEF q

(* A request that has written goes on to log: it holds no row.              *)
LEMMA WroteReq ==
    ASSUME Types, UNCHANGED saves, NEW r \in Requests, NEW q \in ReqRec, q.pc = "log",
           reqs' = [reqs EXCEPT ![r] = q]
    PROVE  /\ reqs' \in [Requests -> ReqRec'] /\ reqs'[r] = q
           /\ \A o \in Requests \ {r} : reqs'[o] = reqs[o]
           /\ \A o \in Requests : reqs'[o] = reqs[o] \/ (~HasRow(reqs[o])' /\ ReqOk(reqs[o])')
<1>1. ReqRec' = ReqRec
  BY DEF ReqRec, RowRec, Client, Vals
<1>2. /\ reqs' \in [Requests -> ReqRec] /\ reqs'[r] = q
      /\ \A o \in Requests \ {r} : reqs'[o] = reqs[o]
  BY DEF Types
<1>3. ~HasRow(reqs[r])' /\ ReqOk(reqs[r])'
  BY <1>2 DEF HasRow, ReqOk
<1> QED
  BY <1>1, <1>2, <1>3

LEMMA InsertInv ==
    ASSUME Inv, NEW r \in Requests, Insert(r)
    PROVE  Inv'
<1> DEFINE q == reqs[r]
<1>1. PICK new : new = Applied(q, Fresh(q.scope))
  OBVIOUS
<1>2. /\ q.pc = "write" /\ (q.scope \in Tenants => Of(q.scope) = {})
      /\ rows' = rows \cup {new} /\ lastRow' = lastRow + 1 /\ saves' = saves
      /\ commits' = [commits EXCEPT ![q.scope] = @ + 1]
      /\ restarted' = IF Of(q.scope) = {} THEN restarted ELSE restarted \cup {q.scope}
      /\ reqs' = [reqs EXCEPT ![r] = [pc |-> "log", proc |-> q.proc, scope |-> q.scope,
                                      id |-> lastRow + 1]]
      /\ UNCHANGED <<events, cache, up, lost>>
  BY <1>1 DEF Insert
<1>3. q.scope \in Scopes /\ q.proc \in Processes /\ lastRow \in Nat
  BY <1>2 DEF Inv, Types, ReqRec
<1>4. /\ new \in RowRec /\ new.id = lastRow + 1 /\ new.scope = q.scope /\ new.version = 1
      /\ Sound(new)
  <2>1. PICK row : row = Fresh(q.scope)
    OBVIOUS
  <2>2. None \in Vals
    BY DEF Vals
  <2>3. row \in Drafts /\ row.version = 0 /\ row.id = lastRow + 1 /\ row.scope = q.scope
    BY <1>3, <2>1, <2>2 DEF Fresh, Drafts, Modes
  <2>4. /\ new \in RowRec /\ new.id = row.id /\ new.scope = row.scope
        /\ new.version = row.version + 1 /\ new.health = "UNKNOWN"
        /\ new.mode # "CUSTOM" => new.url = None /\ new.token = None
        /\ new.mode # "KUBECONFIG" => new.kube = None
    BY <1>1, <1>2, <2>1, <2>3, AppliedIs DEF Inv
  <2> QED
    BY <2>3, <2>4 DEF Sound, Coherent, Honest
<1>5. /\ reqs' \in [Requests -> ReqRec']
      /\ \A o \in Requests : reqs'[o] = reqs[o] \/ (~HasRow(reqs[o])' /\ ReqOk(reqs[o])')
  <2>1. PICK w : w = [pc |-> "log", proc |-> q.proc, scope |-> q.scope, id |-> lastRow + 1]
    OBVIOUS
  <2>2. w \in ReqRec /\ w.pc = "log"
    BY <1>3, <2>1 DEF ReqRec
  <2> QED
    BY <1>2, <2>1, <2>2, WroteReq DEF Inv
<1>6. RowRec' = RowRec /\ Slots' = Slots
  BY <1>2 DEF RowRec, Slots, Client, Vals
<1>7. Types'
  BY <1>2, <1>3, <1>4, <1>5, <1>6 DEF Inv, Types
<1>8. \A o \in rows : o.id \in Nat /\ o.id <= lastRow
  BY DEF Inv, Types, RowRec, Safe, Table, Ids
<1>9. rows' = Replace(new)
  BY <1>2, <1>3, <1>4, <1>8 DEF Replace
<1>10. Settled(new)
  <2>1. new.scope \notin restarted' => Of(new.scope) = {} /\ Seen(new.scope) = {}
    BY <1>2, <1>3, <1>4 DEF Inv, Safe, Told
  <2> QED
    BY <1>2, <1>3, <1>4, <1>8, <2>1 DEF Settled
<1> QED
  BY <1>2, <1>3, <1>4, <1>5, <1>7, <1>9, <1>10, Put DEF Inv

LEMMA SeedInsertInv ==
    ASSUME Inv, NEW p \in Processes, SeedInsert(p)
    PROVE  Inv'
<1>1. PICK new : new = Seeded
  OBVIOUS
<1>2. /\ rows' = rows \cup {new} /\ lastRow' = lastRow + 1 /\ saves' = saves
      /\ up' \in [Processes -> {"starting", "seeding", "up"}]
      /\ restarted' = IF Of(Platform) = {} THEN restarted ELSE restarted \cup {Platform}
      /\ UNCHANGED <<events, cache, reqs, commits, lost>>
  BY <1>1 DEF SeedInsert, Inv, Types
<1>3. lastRow \in Nat /\ saves \in Nat /\ Platform \in Scopes /\ Platform \notin Tenants
  BY ScopesAssumption DEF Inv, Types, Scopes
<1>4. /\ new \in RowRec /\ new.id = lastRow + 1 /\ new.scope = Platform /\ new.version = 1
      /\ Sound(new)
  <2>1. 0 \in Vals /\ None \in Vals /\ EnvMode \in Modes
    BY <1>3, ScopesAssumption DEF Vals, Modes
  <2>2. /\ Given("CUSTOM") \in Vals /\ Given("KUBECONFIG") \in Vals
        /\ EnvMode # "CUSTOM" => Given("CUSTOM") = None
        /\ EnvMode # "KUBECONFIG" => Given("KUBECONFIG") = None
    BY <2>1 DEF Given
  <2> QED
    BY <1>1, <1>3, <2>1, <2>2 DEF Seeded, RowRec, Sound, Coherent, Honest
<1>5. RowRec' = RowRec /\ Slots' = Slots /\ ReqRec' = ReqRec
  BY <1>2 DEF RowRec, Slots, ReqRec, Client, Vals
<1>6. Types'
  BY <1>2, <1>3, <1>4, <1>5 DEF Inv, Types
<1>7. \A o \in rows : o.id \in Nat /\ o.id <= lastRow
  BY DEF Inv, Types, RowRec, Safe, Table, Ids
<1>8. rows' = Replace(new)
  BY <1>2, <1>3, <1>4, <1>7 DEF Replace
<1>9. Settled(new)
  <2>1. new.scope \notin restarted' => Of(new.scope) = {} /\ Seen(new.scope) = {}
    BY <1>2, <1>3, <1>4 DEF Inv, Safe, Told
  <2> QED
    BY <1>2, <1>3, <1>4, <1>7, <2>1 DEF Settled
<1> QED
  BY <1>2, <1>3, <1>4, <1>6, <1>8, <1>9, Put DEF Inv

(* What a flush leaves in the row.                                          *)
LEMMA MergeIs ==
    ASSUME NEW now \in RowRec, NEW loaded \in RowRec, NEW new \in RowRec
    PROVE  LET m == Merge(now, loaded, new) IN
           /\ m \in RowRec
           /\ m.id = IF new.id # loaded.id THEN new.id ELSE now.id
           /\ m.scope = IF new.scope # loaded.scope THEN new.scope ELSE now.scope
           /\ m.mode = IF new.mode # loaded.mode THEN new.mode ELSE now.mode
           /\ m.url = IF new.url # loaded.url THEN new.url ELSE now.url
           /\ m.token = IF new.token # loaded.token THEN new.token ELSE now.token
           /\ m.kube = IF new.kube # loaded.kube THEN new.kube ELSE now.kube
           /\ m.version = IF new.version # loaded.version THEN new.version ELSE now.version
           /\ m.health = IF new.health # loaded.health THEN new.health ELSE now.health
           /\ m.about = IF new.health # loaded.health THEN new.about ELSE now.about
           /\ m.torn <=> Columns(now) # Columns(loaded)
<1> DEFINE m == Merge(now, loaded, new)
           F == {"id", "scope", "mode", "url", "token", "kube", "version", "health", "about", "torn"}
<1>1. DOMAIN now = F
  BY DEF RowRec
<1>2. m = [c \in F |->
              CASE c = "torn" -> Columns(now) # Columns(loaded)
                [] c = "about" -> IF new.health # loaded.health THEN new.about ELSE now.about
                [] OTHER -> IF new[c] # loaded[c] THEN new[c] ELSE now[c]]
  BY <1>1 DEF Merge
<1>3. m["torn"] = (Columns(now) # Columns(loaded))
  BY <1>2
<1>4. m["about"] = IF new.health # loaded.health THEN new.about ELSE now.about
  BY <1>2
<1>5. \A c \in F \ {"torn", "about"} : m[c] = IF new[c] # loaded[c] THEN new[c] ELSE now[c]
  BY <1>2
<1> HIDE DEF m
<1>6. m = [id |-> m["id"], scope |-> m["scope"], mode |-> m["mode"], url |-> m["url"],
           token |-> m["token"], kube |-> m["kube"], version |-> m["version"],
           health |-> m["health"], about |-> m["about"], torn |-> m["torn"]]
  BY <1>2
<1>7. /\ m["id"] = IF new.id # loaded.id THEN new.id ELSE now.id
      /\ m["scope"] = IF new.scope # loaded.scope THEN new.scope ELSE now.scope
      /\ m["mode"] = IF new.mode # loaded.mode THEN new.mode ELSE now.mode
      /\ m["url"] = IF new.url # loaded.url THEN new.url ELSE now.url
      /\ m["token"] = IF new.token # loaded.token THEN new.token ELSE now.token
      /\ m["kube"] = IF new.kube # loaded.kube THEN new.kube ELSE now.kube
      /\ m["version"] = IF new.version # loaded.version THEN new.version ELSE now.version
      /\ m["health"] = IF new.health # loaded.health THEN new.health ELSE now.health
  BY <1>5
<1>8. m["torn"] \in BOOLEAN
  BY <1>3
<1>9. m \in RowRec
  BY <1>4, <1>6, <1>7, <1>8 DEF RowRec
<1> QED
  BY <1>3, <1>4, <1>7, <1>9 DEF m

LEMMA UpdateInv ==
    ASSUME Inv, NEW r \in Requests, Update(r)
    PROVE  Inv'
<1> DEFINE q == reqs[r]
           s == q.scope
<1>1. PICK now, loaded, set, new :
          /\ now = Now(q.row.id) /\ loaded = q.row /\ set = Applied(q, q.row)
          /\ new = Merge(now, loaded, set)
  OBVIOUS
<1>2. /\ q.pc = "write" /\ q.row # None /\ Exists(q.row.id)
      /\ rows' = Replace(new)
      /\ commits' = [commits EXCEPT ![s] = @ + 1]
      /\ restarted' = IF now.version = loaded.version THEN restarted ELSE restarted \cup {s}
      /\ reqs' = [reqs EXCEPT ![r] = [pc |-> "log", proc |-> q.proc, scope |-> s,
                                      id |-> loaded.id]]
      /\ UNCHANGED <<events, cache, up, lastRow, saves, lost>>
  BY <1>1 DEF Update, used
<1>3. /\ s \in Scopes /\ q.proc \in Processes /\ lastRow \in Nat /\ loaded \in RowRec
      /\ loaded \in Drafts /\ loaded.id \in Nat /\ loaded.version \in Nat
  <2>1. q \in [pc : {"write"}, proc : Processes, scope : Scopes, row : RowRec \cup {None},
               mode : Modes, n : 0 .. saves, secret : Vals]
    BY <1>2 DEF Inv, Types, ReqRec
  <2>2. loaded \in RowRec
    BY <1>1, <1>2, <2>1
  <2> QED
    BY <2>1, <2>2 DEF RowRec, Drafts, Inv, Types
<1>4. now \in rows /\ now.id = loaded.id /\ now \in RowRec
  BY <1>1, <1>2, NowRow DEF Inv, Types
<1>5. loaded.scope = s /\ now.scope = s /\ HasRow(q)
  <2>1. HasRow(q) /\ ReqOk(q)
    BY <1>2 DEF HasRow, Inv, Safe
  <2>2. loaded.scope = s /\ Names(loaded.id, loaded.scope)
    BY <1>1, <1>2, <2>1 DEF ReqOk
  <2> QED
    BY <1>4, <2>1, <2>2 DEF Names
<1>6. /\ set \in RowRec /\ set.id = loaded.id /\ set.scope = loaded.scope
      /\ set.version = loaded.version + 1 /\ set.health = "UNKNOWN" /\ set.about = None
      /\ set.mode # "CUSTOM" => set.url = None /\ set.token = None
      /\ set.mode # "KUBECONFIG" => set.kube = None
  BY <1>1, <1>2, <1>3, AppliedIs DEF Inv
<1>7. /\ new \in RowRec /\ new.id = now.id /\ new.scope = now.scope
      /\ new.version = set.version
      /\ new.mode = IF set.mode # loaded.mode THEN set.mode ELSE now.mode
      /\ new.url = IF set.url # loaded.url THEN set.url ELSE now.url
      /\ new.token = IF set.token # loaded.token THEN set.token ELSE now.token
      /\ new.kube = IF set.kube # loaded.kube THEN set.kube ELSE now.kube
      /\ new.health = IF set.health # loaded.health THEN set.health ELSE now.health
      /\ new.torn <=> Columns(now) # Columns(loaded)
  <2>1. /\ new \in RowRec
        /\ new.id = IF set.id # loaded.id THEN set.id ELSE now.id
        /\ new.scope = IF set.scope # loaded.scope THEN set.scope ELSE now.scope
        /\ new.version = IF set.version # loaded.version THEN set.version ELSE now.version
        /\ new.mode = IF set.mode # loaded.mode THEN set.mode ELSE now.mode
        /\ new.url = IF set.url # loaded.url THEN set.url ELSE now.url
        /\ new.token = IF set.token # loaded.token THEN set.token ELSE now.token
        /\ new.kube = IF set.kube # loaded.kube THEN set.kube ELSE now.kube
        /\ new.health = IF set.health # loaded.health THEN set.health ELSE now.health
        /\ new.torn <=> Columns(now) # Columns(loaded)
    <3>1. now \in RowRec /\ loaded \in RowRec /\ set \in RowRec
      BY <1>3, <1>4, <1>6
    <3>2. new = Merge(now, loaded, set)
      BY <1>1
    <3> QED
      BY <3>1, <3>2, MergeIs
  <2> QED
    BY <1>3, <1>6, <2>1
<1>8. Sound(new)
  <2>1. CASE Columns(now) = Columns(loaded)
    <3>1. /\ now.mode = loaded.mode /\ now.url = loaded.url /\ now.token = loaded.token
          /\ now.kube = loaded.kube /\ now.health = loaded.health
      BY <2>1 DEF Columns
    <3>2. /\ new.mode = set.mode /\ new.url = set.url /\ new.token = set.token
          /\ new.kube = set.kube /\ new.health = set.health
      BY <1>7, <3>1
    <3> QED
      BY <1>6, <3>2 DEF Sound, Coherent, Honest
  <2>2. CASE Columns(now) # Columns(loaded)
    BY <1>7, <2>2 DEF Sound, Coherent, Honest
  <2> QED
    BY <2>1, <2>2
<1>9. /\ reqs' \in [Requests -> ReqRec']
      /\ \A o \in Requests : reqs'[o] = reqs[o] \/ (~HasRow(reqs[o])' /\ ReqOk(reqs[o])')
  <2>1. PICK w : w = [pc |-> "log", proc |-> q.proc, scope |-> s, id |-> loaded.id]
    OBVIOUS
  <2>2. w \in ReqRec /\ w.pc = "log"
    BY <1>3, <2>1 DEF ReqRec
  <2> QED
    BY <1>2, <2>1, <2>2, WroteReq DEF Inv
<1>10. RowRec' = RowRec /\ Slots' = Slots
  BY <1>2 DEF RowRec, Slots, Client, Vals
<1>11. rows' \subseteq RowRec
  BY <1>2, <1>7 DEF Replace, Inv, Types
<1>12. Types'
  BY <1>2, <1>3, <1>9, <1>10, <1>11 DEF Inv, Types
<1>13. Settled(new)
  <2>1. \A o \in rows : o.id = new.id => o = now
    BY <1>4, <1>7 DEF Inv, Safe, Table, Ids
  <2>2. new.scope \in Tenants => \A o \in Of(new.scope) : o.id = new.id
    BY <1>4, <1>7 DEF Inv, Safe, Table, Of
  <2>3. ASSUME new.scope \notin restarted'
        PROVE  /\ \A o \in Of(new.scope) : o.id = new.id
               /\ \A m \in Seen(new.scope) : m.version <= new.version /\ m.version # new.version
    <3>1. Told(s) /\ now.version = loaded.version
      BY <1>2, <1>3, <1>5, <1>7, <2>3 DEF Inv, Safe
    <3>2. \A o \in Of(s) : o = now
      BY <1>4, <1>5, <3>1 DEF Told, Of
    <3>3. ASSUME NEW m \in Seen(s) PROVE m.version <= now.version /\ m.version \in Nat
      BY <1>3, <3>1, <3>2, SeenTypes DEF Told, Inv
    <3> QED
      BY <1>3, <1>5, <1>6, <1>7, <3>1, <3>2, <3>3
  <2> QED
    BY <1>2, <1>4, <1>5, <1>7, <2>1, <2>2, <2>3 DEF Settled, Exists
<1>14. /\ new.id \in Nat /\ new.version \in Nat /\ new.id <= lastRow /\ restarted \subseteq restarted'
       /\ lastRow' = lastRow
  BY <1>2, <1>4, <1>7 DEF RowRec, Inv, Safe, Table, Ids
<1> QED
  BY <1>2, <1>3, <1>8, <1>9, <1>12, <1>13, <1>14, Put DEF Inv

LEMMA RecordInv ==
    ASSUME Inv, NEW r \in Requests, Record(r)
    PROVE  Inv'
<1> DEFINE q == reqs[r]
<1>1. /\ q.pc = "probe" /\ reqs' = [reqs EXCEPT ![r] = Idle]
      /\ UNCHANGED <<events, cache, up, lastRow, saves, commits, lost, restarted>>
  BY DEF Record, End, used, history
<1>2. RowRec' = RowRec /\ Slots' = Slots /\ ReqRec' = ReqRec
  BY <1>1 DEF RowRec, Slots, ReqRec, Client, Vals
<1>3. /\ reqs' \in [Requests -> ReqRec'] /\ reqs'[r] = Idle
      /\ \A o \in Requests \ {r} : reqs'[o] = reqs[o]
  BY <1>1, <1>2, IdleReq DEF Inv, Types
<1>4. ~HasRow(reqs[r])' /\ ReqOk(reqs[r])'
  BY <1>3 DEF HasRow, ReqOk, Idle
<1>5. CASE rows' = rows
  <2>1. Types'
    BY <1>1, <1>2, <1>3, <1>5 DEF Inv, Types
  <2>2. \A o \in Requests : Fits(o)
    BY <1>3, <1>4 DEF Fits
  <2>3. \A p \in Processes, s \in Scopes : cache'[p][s] \in {cache[p][s], None}
    BY <1>1
  <2> QED
    BY <1>1, <1>5, <2>1, <2>2, <2>3, Keep DEF Inv
<1>6. CASE rows' # rows
  <2>1. PICK verdict \in Verdicts :
            IF ~Exists(q.row.id) THEN rows' = rows
            ELSE LET n == Now(q.row.id)
                     m == Columns(n) # Columns(q.row)
                 IN rows' = Replace([n EXCEPT
                      !.health = IF verdict # q.row.health THEN verdict ELSE @,
                      !.about = IF verdict # q.row.health \/ ~m THEN Content(q.row) ELSE @,
                      !.torn = @ \/ m])
    BY DEF Record, Verdicts
  <2>2. Exists(q.row.id)
    BY <1>6, <2>1
  <2>3. PICK loaded, now : loaded = q.row /\ now = Now(q.row.id)
    OBVIOUS
  <2>4. PICK moved \in BOOLEAN : moved = (Columns(now) # Columns(loaded))
    OBVIOUS
  <2>5. PICK new : new = [now EXCEPT
              !.health = IF verdict # loaded.health THEN verdict ELSE @,
              !.about = IF verdict # loaded.health \/ ~moved THEN Content(loaded) ELSE @,
              !.torn = @ \/ moved]
    OBVIOUS
  <2>6. rows' = Replace(new)
    BY <2>1, <2>2, <2>3, <2>4, <2>5, Zenon
  <2>7. now \in rows /\ now \in RowRec /\ now.id = loaded.id /\ loaded \in RowRec
    <3>1. loaded \in RowRec
      BY <1>1, <2>3 DEF Inv, Types, ReqRec
    <3> QED
      BY <2>2, <2>3, <3>1, NowRow DEF Inv, Types
  <2>8. Content(loaded) \in Client
    BY <2>7, Contents
  <2>9. new = [id |-> now.id, scope |-> now.scope, mode |-> now.mode, url |-> now.url,
               token |-> now.token, kube |-> now.kube, version |-> now.version,
               health |-> IF verdict # loaded.health THEN verdict ELSE now.health,
               about |-> IF verdict # loaded.health \/ ~moved THEN Content(loaded) ELSE now.about,
               torn |-> (now.torn \/ moved)]
    BY <2>5, <2>7 DEF RowRec
  <2>10. (now.torn \/ moved) \in BOOLEAN
    BY <2>7 DEF RowRec
  <2>11. new \in RowRec
    BY <2>7, <2>8, <2>9, <2>10 DEF RowRec
  <2>12. Sound(new)
    <3>1. CASE moved
      BY <2>9, <3>1 DEF Sound, Coherent, Honest
    <3>2. CASE ~moved
      <4>1. Content(loaded) = Content(now) /\ Content(new) = Content(now)
        BY <2>4, <2>9, <3>2 DEF Columns, Content
      <4>2. Coherent(now)
        BY <2>7 DEF Inv, Safe, Table, Sound
      <4>3. Coherent(new)
        BY <2>9, <4>2 DEF Coherent
      <4> QED
        BY <2>9, <3>2, <4>1, <4>3 DEF Sound, Honest
    <3> QED
      BY <3>1, <3>2
  <2>13. Mark(new) = Mark(now) /\ new.id = now.id /\ new.scope = now.scope /\ new.version = now.version
    BY <2>9 DEF Mark, Content
  <2>14. Settled(new)
    <3>1. \A o \in rows : o.id = new.id => o = now
      BY <2>7, <2>13 DEF Inv, Safe, Table, Ids
    <3>2. new.scope \in Tenants => \A o \in Of(new.scope) : o.id = new.id
      BY <2>7, <2>13 DEF Inv, Safe, Table, Of
    <3>3. ASSUME new.scope \notin restarted'
          PROVE  /\ \A o \in Of(new.scope) : o.id = new.id
                 /\ \A m \in Seen(new.scope) : /\ m.version <= new.version
                                               /\ m.version = new.version => m = Mark(new)
      <4>1. Told(new.scope)
        BY <1>1, <2>7, <2>13, <3>3 DEF Inv, Safe, RowRec
      <4>2. \A o \in Of(new.scope) : o = now
        BY <2>7, <2>13, <4>1 DEF Told, Of
      <4>3. Mark(now) \in Seen(new.scope) /\ Mark(now).version = now.version
        BY <2>7, <2>13, SeenIs DEF Mark
      <4> QED
        BY <2>13, <4>1, <4>2, <4>3 DEF Told
    <3> QED
      BY <2>7, <2>13, <3>1, <3>2, <3>3 DEF Settled, Exists
  <2>15. Types'
    <3>1. rows' \subseteq RowRec
      BY <2>6, <2>11 DEF Replace, Inv, Types
    <3> QED
      BY <1>1, <1>2, <1>3, <3>1 DEF Inv, Types
  <2>16. new.id \in Nat /\ new.version \in Nat /\ new.id <= lastRow /\ lastRow \in Nat
    BY <2>7, <2>13 DEF RowRec, Inv, Safe, Table, Ids, Types
  <2>17. \A o \in Requests : reqs'[o] = reqs[o] \/ (~HasRow(reqs[o])' /\ ReqOk(reqs[o])')
    BY <1>3, <1>4
  <2>18. /\ rows' = Replace(new) /\ restarted \subseteq restarted' /\ cache' = cache
         /\ lastRow' \in Nat /\ lastRow <= lastRow' /\ new.id <= lastRow'
    BY <1>1, <2>6, <2>16
  <2>19. Safe'
    BY <2>12, <2>14, <2>16, <2>17, <2>18, Put
  <2> QED
    BY <2>15, <2>19 DEF Inv
<1> QED
  BY <1>5, <1>6

LEMMA RemoveInv ==
    ASSUME Inv, NEW r \in Requests, Remove(r)
    PROVE  Inv'
<1>1. PICK id, s, p : id = reqs[r].id /\ s = reqs[r].scope /\ p = reqs[r].proc
  OBVIOUS
<1>2. /\ reqs[r].pc = "remove" /\ rows' = {row \in rows : row.id # id}
      /\ commits' = [commits EXCEPT ![s] = @ + 1]
      /\ restarted' = restarted \cup {s}
      /\ reqs' = [reqs EXCEPT ![r] = [[reqs[r] EXCEPT !.pc = "log"] EXCEPT !.id = None]]
      /\ UNCHANGED <<events, cache, up, lastRow, saves, lost>>
  BY <1>1 DEF Remove, used, Inv, Types
<1>3. p \in Processes /\ s \in Scopes /\ id \in Nat /\ Names(id, s)
  <2>1. ReqOk(reqs[r])
    BY DEF Inv, Safe
  <2> QED
    BY <1>1, <1>2, <2>1, LogReq DEF Inv, ReqOk
<1>4. PICK q : /\ q = [[reqs[r] EXCEPT !.pc = "log"] EXCEPT !.id = None]
               /\ reqs' = [reqs EXCEPT ![r] = q]
  BY <1>2
<1>5. /\ reqs' \in [Requests -> ReqRec'] /\ reqs'[r].pc = "log" /\ reqs'[r].scope = s
      /\ \A o \in Requests \ {r} : reqs'[o] = reqs[o]
      /\ \A o \in Requests : reqs'[o] = reqs[o] \/ (~HasRow(reqs[o])' /\ ReqOk(reqs[o])')
  <2>1. reqs[r] \in [pc : {"remove", "log", "evict"}, proc : Processes, scope : Scopes,
                     id : Nat \cup {None}]
    BY <1>2 DEF Inv, Types, ReqRec
  <2>2. q \in [pc : {"remove", "log", "evict"}, proc : Processes, scope : Scopes,
               id : Nat \cup {None}] /\ q.pc = "log" /\ q.scope = s
    BY <1>1, <1>4, <2>1
  <2>3. q \in ReqRec
    BY <2>2 DEF ReqRec
  <2> QED
    BY <1>2, <1>4, <2>2, <2>3, WroteReq DEF Inv
<1>6. RowRec' = RowRec /\ Slots' = Slots
  BY <1>2 DEF RowRec, Slots, Client, Vals
<1>7. Types'
  BY <1>2, <1>3, <1>5, <1>6 DEF Inv, Types
<1>8. Table'
  BY <1>2 DEF Inv, Safe, Table, Ids, Sound, Coherent, Honest, Content
<1>9. ASSUME NEW o \in Requests PROVE ReqOk(reqs[o])'
  <2>1. CASE reqs'[o] = reqs[o]
    BY <1>2, <2>1, ReqKept DEF Inv, Safe
  <2> QED
    BY <1>5, <2>1
<1>10. ASSUME NEW u \in Processes, NEW t \in Scopes PROVE SlotOk(u, t)'
  BY <1>2 DEF Inv, Safe, SlotOk, Complete
<1>11. ASSUME NEW t \in Scopes \ restarted' PROVE Told(t)'
  <2>1. Told(t) /\ t # s
    BY <1>2, <1>11 DEF Inv, Safe
  <2>2. Of(t)' = Of(t)
    BY <1>2, <1>3, <2>1 DEF Of, Names
  <2>3. ASSUME NEW m \in Seen(t)' PROVE m \in Seen(t)
    <3>1. CASE \E row \in rows' : row.scope = t /\ m = Mark(row)
      BY <1>2, <3>1, SeenIs
    <3>2. CASE \E u \in Processes : cache'[u][t] # None /\ m = cache'[u][t]
      BY <1>2, <3>2, SeenIs
    <3>3. CASE \E o \in Requests : /\ HasRow(reqs[o])' /\ reqs'[o].row.scope = t
                                   /\ m = Mark(reqs'[o].row)
      <4>1. PICK o \in Requests : /\ HasRow(reqs[o])' /\ reqs'[o].row.scope = t
                                  /\ m = Mark(reqs'[o].row)
        BY <3>3
      <4>2. HasRow(reqs[o]) /\ reqs'[o] = reqs[o]
        BY <1>5, <4>1 DEF HasRow
      <4> QED
        BY <4>1, <4>2, SeenIs
    <3> QED
      BY <2>3, <3>1, <3>2, <3>3, SeenNext
  <2> QED
    BY <2>1, <2>2, <2>3, ToldKept
<1> QED
  BY <1>7, <1>8, <1>9, <1>10, <1>11 DEF Inv, Safe

-----------------------------------------------------------------------------
(* The events.                                                              *)


(* The changes whose event is still to come are counted: a request enters   *)
(* the count with its commit, and leaves it as its event is written or      *)
(* lost.                                                                    *)
Balance == Counted /\ EventsMatchChanges

LEMMA BalanceIs ==
    Balance <=> \A s \in Scopes : /\ IsFiniteSet(Logging(s))
                                  /\ commits[s] = events[s] + lost[s] + Cardinality(Logging(s))
  BY DEF Balance, Counted, EventsMatchChanges, Logging

LEMMA BalanceNext ==
    Balance' <=> \A s \in Scopes : /\ IsFiniteSet(Logging(s)')
                                   /\ commits'[s] = events'[s] + lost'[s]
                                                      + Cardinality(Logging(s)')
  BY DEF Balance, Counted, EventsMatchChanges, Logging

(* A step of a request that neither begins nor ends to log.                 *)
LEMMA BalanceKept ==
    ASSUME Balance, UNCHANGED <<commits, events, lost>>,
           \A o \in Requests : \/ reqs'[o] = reqs[o]
                               \/ reqs[o].pc # "log" /\ reqs'[o].pc # "log"
    PROVE  Balance'
<1>1. ASSUME NEW s \in Scopes PROVE Logging(s)' = Logging(s)
  BY DEF Logging
<1> QED
  BY <1>1, BalanceIs, BalanceNext

(* It commits.                                                              *)
LEMMA BalanceCommits ==
    ASSUME Types, Balance, NEW r \in Requests, NEW s \in Scopes,
           commits' = [commits EXCEPT ![s] = @ + 1], UNCHANGED <<events, lost>>,
           reqs[r].pc # "log", reqs'[r].pc = "log", reqs'[r].scope = s,
           \A o \in Requests \ {r} : reqs'[o] = reqs[o]
    PROVE  Balance'
<1>1. ASSUME NEW t \in Scopes
      PROVE  /\ IsFiniteSet(Logging(t)')
             /\ commits'[t] = events'[t] + lost'[t] + Cardinality(Logging(t)')
  <2>1. /\ IsFiniteSet(Logging(t)) /\ commits[t] = events[t] + lost[t] + Cardinality(Logging(t))
        /\ commits \in [Scopes -> Nat] /\ events[t] \in Nat /\ lost[t] \in Nat
        /\ Cardinality(Logging(t)) \in Nat
    BY BalanceIs, FS_CardinalityType DEF Types
  <2>2. CASE t = s
    <3>1. Logging(t)' = Logging(t) \cup {r} /\ r \notin Logging(t)
      BY <2>2 DEF Logging
    <3>2. /\ IsFiniteSet(Logging(t) \cup {r})
          /\ Cardinality(Logging(t) \cup {r}) = Cardinality(Logging(t)) + 1
      BY <2>1, <3>1, FS_AddElement
    <3> QED
      BY <2>1, <2>2, <3>1, <3>2
  <2>3. CASE t # s
    <3>1. Logging(t)' = Logging(t)
      BY <2>3 DEF Logging
    <3> QED
      BY <2>1, <2>3, <3>1
  <2> QED
    BY <2>2, <2>3
<1> QED
  BY <1>1, BalanceNext

(* Its event is written or lost.                                            *)
LEMMA BalanceLogs ==
    ASSUME Types, Balance, NEW r \in Requests, NEW s \in Scopes,
           UNCHANGED commits,
           \/ events' = [events EXCEPT ![s] = @ + 1] /\ UNCHANGED lost
           \/ lost' = [lost EXCEPT ![s] = @ + 1] /\ UNCHANGED events,
           reqs[r].pc = "log", reqs'[r].pc # "log", reqs[r].scope = s,
           \A o \in Requests \ {r} : reqs'[o] = reqs[o]
    PROVE  Balance'
<1>1. ASSUME NEW t \in Scopes
      PROVE  /\ IsFiniteSet(Logging(t)')
             /\ commits'[t] = events'[t] + lost'[t] + Cardinality(Logging(t)')
  <2>1. /\ IsFiniteSet(Logging(t)) /\ commits[t] = events[t] + lost[t] + Cardinality(Logging(t))
        /\ events \in [Scopes -> Nat] /\ lost \in [Scopes -> Nat]
        /\ Cardinality(Logging(t)) \in Nat
    BY BalanceIs, FS_CardinalityType DEF Types
  <2>2. CASE t = s
    <3>1. Logging(t)' = Logging(t) \ {r} /\ r \in Logging(t)
      BY <2>2 DEF Logging
    <3>2. /\ IsFiniteSet(Logging(t) \ {r})
          /\ Cardinality(Logging(t) \ {r}) = Cardinality(Logging(t)) - 1
      BY <2>1, <3>1, FS_RemoveElement
    <3>3. events'[t] + lost'[t] = events[t] + lost[t] + 1
      BY <2>1, <2>2
    <3>4. Cardinality(Logging(t)) - 1 \in Int /\ commits'[t] = commits[t]
      BY <2>1
    <3> QED
      BY <2>1, <3>1, <3>2, <3>3, <3>4
  <2>3. CASE t # s
    <3>1. Logging(t)' = Logging(t) /\ events'[t] = events[t] /\ lost'[t] = lost[t]
      BY <2>1, <2>3 DEF Logging
    <3> QED
      BY <2>1, <3>1
  <2> QED
    BY <2>2, <2>3
<1> QED
  BY <1>1, BalanceNext

(* A process dies: the events of its requests are lost at once.             *)
LEMMA BalanceCrash ==
    ASSUME Inv, Balance, NEW p \in Processes, Crash(p)
    PROVE  Balance'
<1>1. ASSUME NEW s \in Scopes
      PROVE  /\ IsFiniteSet(Logging(s)')
             /\ commits'[s] = events'[s] + lost'[s] + Cardinality(Logging(s)')
  <2> DEFINE D == {r \in Requests : reqs[r].pc = "log" /\ reqs[r].proc = p /\ reqs[r].scope = s}
  <2>1. /\ IsFiniteSet(Logging(s)) /\ commits[s] = events[s] + lost[s] + Cardinality(Logging(s))
        /\ events[s] \in Nat /\ lost[s] \in Nat
    BY BalanceIs DEF Inv, Types
  <2>2. D \subseteq Logging(s)
    BY DEF Logging
  <2>3. Logging(s)' = Logging(s) \ D
    BY DEF Crash, Logging, Idle
  <2>4. commits'[s] = commits[s] /\ events'[s] = events[s] /\ lost'[s] = lost[s] + Cardinality(D)
    BY DEF Crash
  <2>5. /\ IsFiniteSet(D) /\ IsFiniteSet(Logging(s) \ D) /\ Logging(s) \cap D = D
        /\ Cardinality(Logging(s) \ D) = Cardinality(Logging(s)) - Cardinality(Logging(s) \cap D)
    BY <2>1, <2>2, FS_Subset, FS_Difference
  <2>6. Cardinality(D) \in Nat /\ Cardinality(Logging(s)) \in Nat
    BY <2>1, <2>5, FS_CardinalityType
  <2>7. Cardinality(Logging(s)') = Cardinality(Logging(s)) - Cardinality(D)
    BY <2>3, <2>5
  <2> HIDE DEF D
  <2> QED
    BY <2>1, <2>3, <2>4, <2>5, <2>6, <2>7
<1> QED
  BY <1>1, BalanceNext

LEMMA BalanceStep ==
    ASSUME Inv, Balance, NEW r \in Requests, Begin(r) \/ Step(r)
    PROVE  Balance'
<1>0. Types /\ reqs \in [Requests -> ReqRec]
  BY DEF Inv, Types
<1>1. CASE Looks(r)
  <2>1. PICK q : Holds(r, q)
    BY <1>1, LooksOnly DEF Inv, Safe
  <2>2. UNCHANGED <<commits, events, lost>> /\ reqs[r].pc # "log"
    BY <1>1, LooksOnly DEF Inv, Safe, history
  <2>3. reqs' = [reqs EXCEPT ![r] = q] /\ q.pc # "log"
    BY <2>1 DEF Holds
  <2> QED
    BY <1>0, <2>2, <2>3, BalanceKept
<1>2. CASE SaveRefused(r) \/ Evict(r) \/ BuildFails(r) \/ Return(r)
  <2>1. UNCHANGED <<commits, events, lost>> /\ reqs[r].pc # "log"
    BY <1>2 DEF SaveRefused, Evict, BuildFails, Return, history
  <2>2. reqs'[r].pc \in {"idle", "evict"} /\ \A o \in Requests \ {r} : reqs'[o] = reqs[o]
    BY <1>2, QuietReq DEF Quiet
  <2> QED
    BY <2>1, <2>2, BalanceKept
<1>3. CASE Log(r) \/ LogFault(r) \/ RefreshFails(r)
  <2>1. /\ UNCHANGED commits /\ reqs[r].pc = "log"
        /\ \/ events' = [events EXCEPT ![reqs[r].scope] = @ + 1] /\ UNCHANGED lost
           \/ lost' = [lost EXCEPT ![reqs[r].scope] = @ + 1] /\ UNCHANGED events
    BY <1>3 DEF Log, LogFault, RefreshFails, history
  <2>2. reqs'[r].pc \in {"idle", "evict"} /\ \A o \in Requests \ {r} : reqs'[o] = reqs[o]
    BY <1>3, QuietReq DEF Quiet
  <2>3. PICK s \in Scopes : s = reqs[r].scope
    BY <1>0, <2>1, LogReq
  <2>4. reqs'[r].pc # "log" /\ UNCHANGED commits /\ reqs[r].pc = "log" /\ reqs[r].scope = s
    BY <2>1, <2>2, <2>3
  <2>5. \/ events' = [events EXCEPT ![s] = @ + 1] /\ UNCHANGED lost
        \/ lost' = [lost EXCEPT ![s] = @ + 1] /\ UNCHANGED events
    BY <2>1, <2>3
  <2> QED
    BY <1>0, <2>2, <2>4, <2>5, BalanceLogs
<1>4. CASE Build(r) \/ Record(r)
  <2>1. UNCHANGED <<commits, events, lost>> /\ reqs[r].pc # "log"
    BY <1>4 DEF Build, Record, history
  <2>2. reqs'[r].pc # "log" /\ \A o \in Requests \ {r} : reqs'[o] = reqs[o]
    <3>1. CASE Build(r)
      <4>1. PICK p, t, read, got :
                reqs' = [reqs EXCEPT ![r] = [pc |-> "done", proc |-> p, tenant |-> t,
                                             read |-> read, got |-> got]]
        BY <3>1 DEF Build
      <4> QED
        BY <1>0, <4>1
    <3>2. CASE Record(r)
      BY <1>0, <3>2 DEF Record, End, Idle
    <3> QED
      BY <1>4, <3>1, <3>2
  <2> QED
    BY <2>1, <2>2, BalanceKept
<1>5. CASE Insert(r) \/ Update(r)
  <2>1. PICK s, id, p : s = reqs[r].scope /\ p = reqs[r].proc
            /\ id = IF Insert(r) THEN lastRow + 1 ELSE reqs[r].row.id
    OBVIOUS
  <2>2. s \in Scopes
    BY <1>0, <1>5, <2>1 DEF Insert, Update, ReqRec
  <2>3. /\ commits' = [commits EXCEPT ![s] = @ + 1] /\ UNCHANGED <<events, lost>>
        /\ reqs[r].pc # "log"
        /\ reqs' = [reqs EXCEPT ![r] = [pc |-> "log", proc |-> p, scope |-> s, id |-> id]]
    BY <1>5, <2>1 DEF Insert, Update
  <2>4. /\ reqs'[r].pc = "log" /\ reqs'[r].scope = s
        /\ \A o \in Requests \ {r} : reqs'[o] = reqs[o]
    BY <1>0, <2>3
  <2> QED
    BY <1>0, <2>2, <2>3, <2>4, BalanceCommits
<1>6. CASE Remove(r)
  <2>1. PICK s, q : s = reqs[r].scope /\ q = [[reqs[r] EXCEPT !.pc = "log"] EXCEPT !.id = None]
    OBVIOUS
  <2>2. /\ commits' = [commits EXCEPT ![s] = @ + 1] /\ UNCHANGED <<events, lost>>
        /\ reqs[r].pc = "remove" /\ reqs' = [reqs EXCEPT ![r] = q]
    BY <1>6, <2>1 DEF Remove
  <2>3. reqs[r] \in [pc : {"remove", "log", "evict"}, proc : Processes, scope : Scopes,
                     id : Nat \cup {None}]
    BY <1>0, <2>2 DEF ReqRec
  <2>4. q.pc = "log" /\ q.scope = s /\ s \in Scopes
    BY <2>1, <2>3
  <2>5. /\ reqs'[r].pc = "log" /\ reqs'[r].scope = s
        /\ \A o \in Requests \ {r} : reqs'[o] = reqs[o]
    BY <1>0, <2>2, <2>4
  <2> QED
    BY <1>0, <2>2, <2>4, <2>5, BalanceCommits
<1> QED
  BY <1>1, <1>2, <1>3, <1>4, <1>5, <1>6 DEF Step, Looks

-----------------------------------------------------------------------------
(* The theorems.                                                            *)

Kept == Inv /\ Balance

LEMMA InitKept == Init => Kept
<1> SUFFICES ASSUME Init PROVE Kept
  OBVIOUS
<1>1. Types
  BY DEF Init, Types, ReqRec, Idle
<1>2. \A s \in Scopes : Seen(s) = {}
  BY DEF Init, Seen, Of, HasRow, Idle
<1>3. Safe
  <2>1. Table
    BY DEF Init, Table, Ids
  <2>2. \A r \in Requests : ReqOk(reqs[r])
    BY DEF Init, ReqOk, HasRow, Idle
  <2>3. \A p \in Processes, s \in Scopes : SlotOk(p, s)
    BY DEF Init, SlotOk
  <2>4. \A s \in Scopes : Told(s)
    BY <1>2 DEF Init, Told, Of
  <2> QED
    BY <2>1, <2>2, <2>3, <2>4 DEF Safe
<1>4. Balance
  <2>1. \A s \in Scopes : Logging(s) = {}
    BY DEF Init, Logging, Idle
  <2>2. IsFiniteSet({}) /\ Cardinality({}) = 0
    BY FS_EmptySet
  <2>3. ASSUME NEW s \in Scopes PROVE commits[s] = 0 /\ events[s] = 0 /\ lost[s] = 0
    BY DEF Init
  <2> QED
    BY <2>1, <2>2, <2>3, BalanceIs
<1> QED
  BY <1>1, <1>3, <1>4 DEF Kept, Inv

LEMMA StepKept == Kept /\ [Next]_vars => Kept'
<1> SUFFICES ASSUME Kept, [Next]_vars PROVE Kept'
  OBVIOUS
<1>1. CASE UNCHANGED vars
  <2>1. UNCHANGED <<rows, events, cache, up, reqs, lastRow, saves, commits, lost, restarted>>
    BY <1>1 DEF vars
  <2>2. RowRec' = RowRec /\ Slots' = Slots /\ ReqRec' = ReqRec
    BY <2>1 DEF RowRec, Slots, ReqRec, Client, Vals
  <2>3. Types'
    BY <2>1, <2>2 DEF Kept, Inv, Types
  <2>4. Safe'
    <3>1. \A o \in Requests : Fits(o)
      BY <2>1 DEF Fits
    <3>2. \A p \in Processes, s \in Scopes : cache'[p][s] \in {cache[p][s], None}
      BY <2>1
    <3> QED
      BY <2>1, <3>1, <3>2, Keep DEF Kept, Inv
  <2>5. Balance'
    BY <2>1, BalanceKept DEF Kept
  <2> QED
    BY <2>3, <2>4, <2>5 DEF Kept, Inv
<1>2. ASSUME NEW p \in Processes, SeedCheck(p) \/ SeedInsert(p) PROVE Kept'
  <2>1. UNCHANGED <<reqs, commits, events, lost>>
    BY <1>2 DEF SeedCheck, SeedInsert, history
  <2> QED
    BY <1>2, <2>1, SeedCheckInv, SeedInsertInv, BalanceKept DEF Kept
<1>3. ASSUME NEW p \in Processes, Crash(p) PROVE Kept'
  BY <1>3, CrashInv, BalanceCrash DEF Kept, Balance
<1>4. ASSUME NEW r \in Requests, Begin(r) \/ Step(r) PROVE Kept'
  <2>1. Inv'
    BY <1>4, LooksInv, QuietInv, BuildInv, InsertInv, UpdateInv, RemoveInv, RecordInv
       DEF Kept, Step, Looks, Quiet
  <2> QED
    BY <1>4, <2>1, BalanceStep DEF Kept
<1> QED
  BY <1>1, <1>2, <1>3, <1>4 DEF Next, Rest

(* Whatever is saved, removed, probed and lost, every committed change of   *)
(* the settings has one event, is about to have it, or lost it to one of    *)
(* the faults that are counted (api/v1/infrastructure.py).                  *)
THEOREM ChangesAreLogged == Spec => []EventsMatchChanges
<1>1. Kept => EventsMatchChanges
  BY DEF Kept, Balance
<1> QED
  BY <1>1, InitKept, StepKept, PTL DEF Spec

(* No interleaving of saves, removals, probes, seeds and crashes makes two  *)
(* rows of a tenant, leaves credentials that the mode does not use, or      *)
(* shows the verdict of other settings, but where two writes of the row     *)
(* overlapped (crud/cluster_config.py).                                     *)
THEOREM SettingsFitTogether == Spec => []RowsConsistent
<1>1. ASSUME Kept PROVE RowsConsistent
  <2>1. TypeOK
    <3>1. \A row \in rows :
              /\ row.scope \in Scopes /\ row.mode \in Modes
              /\ row.version \in Nat \ {0}
              /\ row.health \in Verdicts \cup {"UNKNOWN"}
              /\ {row.url, row.token, row.kube} \subseteq 0 .. saves \cup {None}
      BY <1>1 DEF Kept, Inv, Types, RowRec, Vals
    <3>2. ASSUME NEW p \in Processes, NEW s \in Scopes, cache[p][s] # None
          PROVE  /\ cache[p][s].version \in Nat \ {0}
                 /\ cache[p][s].client.mode = "CUSTOM" =>
                        None \notin {cache[p][s].client.url, cache[p][s].client.token}
                 /\ cache[p][s].client.mode = "KUBECONFIG" => cache[p][s].client.kube # None
      BY <1>1, <3>2 DEF Kept, Inv, Types, Slots, Safe, SlotOk, Complete
    <3>3. /\ events \in [Scopes -> Nat]
          /\ up \in [Processes -> {"starting", "seeding", "up"}]
      BY <1>1 DEF Kept, Inv, Types
    <3> QED
      BY <3>1, <3>2, <3>3 DEF TypeOK
  <2>2. OneRowPerTenant
    <3>1. ASSUME NEW s \in Tenants PROVE Cardinality(Of(s)) <= 1
      <4>1. CASE Of(s) = {}
        BY <4>1, FS_EmptySet
      <4>2. CASE Of(s) # {}
        <5>1. PICK row : Of(s) = {row}
          BY <1>1, <4>2 DEF Kept, Inv, Safe, Table, Of
        <5> QED
          BY <5>1, FS_Singleton
      <4> QED
        BY <4>1, <4>2
    <3> QED
      BY <3>1 DEF OneRowPerTenant
  <2>3. CoherentRows /\ HealthIsOfTheseSettings
    BY <1>1 DEF Kept, Inv, Safe, Table, Sound, Coherent, Honest, CoherentRows,
                HealthIsOfTheseSettings
  <2> QED
    BY <2>1, <2>2, <2>3 DEF RowsConsistent
<1>2. Kept => RowsConsistent
  BY <1>1
<1> QED
  BY <1>2, InitKept, StepKept, PTL DEF Spec

(* A caller gets the client of its own tenant's cluster or the platform's,  *)
(* and the one of the settings it read, in every process and after any      *)
(* change made in another one, as long as no override of the scope was      *)
(* removed and no two saves of it overlapped (cluster/resolver.py).         *)
THEOREM CallersGetTheirCluster == Spec => []ClientsFollowSettings
<1>1. Kept => ClientsFollowSettings
  BY DEF Kept, Inv, Safe, ReqOk, ClientsFollowSettings, OwnCluster, DriftIsSeen, Answered
<1> QED
  BY <1>1, InitKept, StepKept, PTL DEF Spec
=============================================================================
