---------------------- MODULE CalendarProtectionProofs ----------------------
(***************************************************************************)
(* Proofs about CalendarProtection for any number of calendars, accounts,  *)
(* bridges, rules and concurrent requests, and any order of the lock keys. *)
(***************************************************************************)
EXTENDS CalendarProtection, FiniteSetTheorems, TLAPS

Keys == AdvisoryKeys \cup RowKeys
Locked == {"lock", "verify", "broker", "write"}
Decided == {"verify", "broker", "write"}

\* A request that has passed its first statement holds the row it began with, one that
\* has passed the advisory locks holds them all.
LocksHeld ==
    \A t \in Txs :
        /\ tx[t].pc \in Locked => holder[RowOf(tx[t].op)] = t
        /\ tx[t].pc \in Decided => \A k \in Needs(tx[t].op) : holder[k] = t

\* Nothing that reads events depends on the account.
NoReaders(c) ==
    /\ \A p \in Policies : Stored(p) => Connection[Source[p]] # c
    /\ \A r \in Rules : LiveRule(r) => Connection[Response[r]] # c

\* What a request has read and still relies on when it writes.
Ground(t) ==
    /\ tx[t].pc \in Locked /\ tx[t].op.kind = "unpause" => Stored(tx[t].op.of)
    /\ tx[t].pc \in Locked /\ tx[t].op.kind = "resume" => LiveRule(tx[t].op.of)
    /\ tx[t].pc \in Decided /\ tx[t].op.kind \in {"bridge", "unpause"} => Unprotected(tx[t].op.of)
    /\ tx[t].pc \in Decided /\ tx[t].op.kind = "reply" => NoOtherRule(tx[t].op.of)
    /\ tx[t].pc = "write" /\ tx[t].op.kind = "bridge" =>
          role[Connection[Source[tx[t].op.of]]] \in Reads
    /\ tx[t].pc = "write" /\ tx[t].op.kind = "reply" =>
          NoCopyPolicies(tx[t].op.of) /\ role[Connection[Response[tx[t].op.of]]] \in Reads
    /\ tx[t].pc = "write" /\ tx[t].op.kind = "narrow" => NoReaders(tx[t].op.of)
    /\ tx[t].pc = "verify" => tx[t].op.kind \in {"bridge", "unpause", "reply"}

Grounds == \A t \in Txs : Ground(t)

IInv == TypeOK /\ LocksHeld /\ Grounds /\ NoCopy /\ OneController /\ ReadersKeepRole

\* An operation names a record of the table its kind is about.
LEMMA OpShape ==
    ASSUME NEW op \in Ops
    PROVE  \/ op.kind \in {"bridge", "unpause"} /\ op.of \in Policies
           \/ op.kind \in {"reply", "resume", "retire"} /\ op.of \in Rules
           \/ op.kind = "plan" /\ op.of \in Plans
           \/ op.kind = "narrow" /\ op.of \in Connections /\ op.to \in Roles
  BY DEF Ops

\* A request in progress carries an operation.
LEMMA WorkingShape ==
    ASSUME TypeOK, NEW t \in Txs
    PROVE  /\ tx[t].pc \in {"idle", "row", "lock", "verify", "write", "broker"}
           /\ tx[t].pc # "idle" => tx[t].op \in Ops
           /\ tx[t].pc = "broker" => tx[t].on \in Connections
<1>1. tx[t] \in Working \cup {Idle}
  BY DEF TypeOK
<1>2. CASE tx[t] = Idle
  BY <1>2 DEF Idle
<1>3. CASE tx[t] \in [pc : {"row", "lock", "verify", "write"}, op : Ops]
  BY <1>3
<1>4. CASE tx[t] \in [pc : {"broker"}, op : Ops, on : Connections]
  BY <1>4
<1> QED BY <1>1, <1>2, <1>3, <1>4 DEF Working

\* Every lock an operation takes exists.
LEMMA LockShape ==
    ASSUME NEW op \in Ops
    PROVE  /\ RowOf(op) \in Keys
           /\ \A k \in Needs(op) : k \in Keys
<1>1. CASE op.kind \in {"bridge", "unpause"} /\ op.of \in Policies
  BY <1>1, ProtectionAssumption DEF RowOf, Needs, Keys, RowKeys, AdvisoryKeys, Ends
<1>2. CASE op.kind \in {"reply", "resume", "retire"} /\ op.of \in Rules
  BY <1>2, ProtectionAssumption DEF RowOf, Needs, Keys, RowKeys, AdvisoryKeys, ProtectedBy
<1>3. CASE op.kind = "plan" /\ op.of \in Plans
  BY <1>3, ProtectionAssumption DEF RowOf, Needs, Keys, RowKeys, AdvisoryKeys
<1>4. CASE op.kind = "narrow" /\ op.of \in Connections /\ op.to \in Roles
  BY <1>4, ProtectionAssumption DEF RowOf, Needs, Keys, RowKeys, AdvisoryKeys
<1> QED BY <1>1, <1>2, <1>3, <1>4, OpShape

\* A step of one request leaves the other requests and the locks they hold alone.
Others(t) ==
    \A u \in Txs \ {t} : /\ tx'[u] = tx[u]
                        /\ \A k \in Keys : holder[k] = u => holder'[k] = u

\* A commit or a rollback releases the request's own locks and no others.
LEMMA FinishOthers ==
    ASSUME TypeOK, NEW t \in Txs, Finishes(t)
    PROVE  /\ Others(t) /\ tx'[t] = Idle
           /\ tx' \in [Txs -> Working \cup {Idle}]
           /\ holder' \in [Keys -> Txs \cup {NoTx}]
  BY ProtectionAssumption DEF TypeOK, Finishes, Others, Keys

\* Moving on keeps the operation.
LEMMA GoesOthers ==
    ASSUME TypeOK, NEW t \in Txs, NEW pc \in {"lock", "verify", "write"},
           tx[t].pc # "idle", Goes(t, pc)
    PROVE  /\ tx'[t] = [pc |-> pc, op |-> tx[t].op]
           /\ \A u \in Txs \ {t} : tx'[u] = tx[u]
           /\ tx' \in [Txs -> Working \cup {Idle}]
<1>1. tx[t].op \in Ops
  BY WorkingShape
<1>2. [pc |-> pc, op |-> tx[t].op] \in Working
  BY <1>1 DEF Working
<1> QED BY <1>2 DEF TypeOK, Goes

\* While the records stay as they are, the other requests keep their locks and grounds.
LEMMA OthersKeep ==
    ASSUME IInv, NEW t \in Txs, Others(t), UNCHANGED Records
    PROVE  \A u \in Txs \ {t} :
              /\ tx[u].pc \in Locked => holder'[RowOf(tx[u].op)] = u
              /\ tx[u].pc \in Decided => \A k \in Needs(tx[u].op) : holder'[k] = u
              /\ Ground(u)'
<1> SUFFICES ASSUME NEW u \in Txs \ {t}
             PROVE  /\ tx[u].pc \in Locked => holder'[RowOf(tx[u].op)] = u
                    /\ tx[u].pc \in Decided => \A k \in Needs(tx[u].op) : holder'[k] = u
                    /\ Ground(u)'
  OBVIOUS
<1>0. tx[u].pc # "idle" => tx[u].op \in Ops
  BY WorkingShape DEF IInv
<1>1. tx[u].pc \in Locked => holder'[RowOf(tx[u].op)] = u
  BY <1>0, LockShape DEF IInv, LocksHeld, Others, Locked
<1>2. tx[u].pc \in Decided => \A k \in Needs(tx[u].op) : holder'[k] = u
  BY <1>0, LockShape DEF IInv, LocksHeld, Others, Decided
<1>3. Ground(u)'
  <2>1. policy' = policy /\ rule' = rule /\ role' = role
    BY DEF Records
  <2>2. tx'[u] = tx[u]
    BY DEF Others
  <2>3. Ground(u)
    BY DEF IInv, Grounds
  <2> QED BY <2>1, <2>2, <2>3 DEF Ground, Stored, LiveRule, Unprotected, NoOtherRule, NoCopyPolicies, NoReaders
<1> QED BY <1>1, <1>2, <1>3

\* A step that writes no record keeps the invariant when the request that takes it does.
LEMMA QuietStep ==
    ASSUME IInv, NEW t \in Txs, Others(t), UNCHANGED Records,
           tx' \in [Txs -> Working \cup {Idle}], holder' \in [Keys -> Txs \cup {NoTx}],
           tx'[t].pc \in Locked => holder'[RowOf(tx'[t].op)] = t,
           tx'[t].pc \in Decided => \A k \in Needs(tx'[t].op) : holder'[k] = t,
           Ground(t)'
    PROVE  IInv'
<1>1. policy' = policy /\ rule' = rule /\ plan' = plan /\ role' = role /\ auth' = auth
  BY DEF Records
<1>2. TypeOK'
  BY <1>1 DEF IInv, TypeOK, Keys
<1>3. LocksHeld'
  BY OthersKeep DEF LocksHeld, Others
<1>4. Grounds'
  BY OthersKeep DEF Grounds
<1>5. NoCopy' /\ OneController' /\ ReadersKeepRole'
  BY <1>1 DEF IInv, NoCopy, OneController, ReadersKeepRole, LiveRule, Stored
<1> QED BY <1>2, <1>3, <1>4, <1>5 DEF IInv

\* A request that ends without writing a record.
LEMMA QuietFinish ==
    ASSUME IInv, NEW t \in Txs, Finishes(t), UNCHANGED Records
    PROVE  IInv'
<1>1. /\ Others(t) /\ tx'[t] = Idle
      /\ tx' \in [Txs -> Working \cup {Idle}]
      /\ holder' \in [Keys -> Txs \cup {NoTx}]
  BY FinishOthers DEF IInv
<1>2. tx'[t].pc = "idle"
  BY <1>1 DEF Idle
<1>3. Ground(t)'
  BY <1>2 DEF Ground, Locked, Decided
<1> QED BY <1>1, <1>2, <1>3, QuietStep DEF Locked, Decided

\* Begin: a new request has no lock and has read nothing.
LEMMA BeginKeeps ==
    ASSUME IInv, NEW t \in Txs, NEW op \in Ops, Begin(t, op)
    PROVE  IInv'
<1>1. [pc |-> "row", op |-> op] \in Working
  BY DEF Working
<1>2. tx' \in [Txs -> Working \cup {Idle}] /\ tx'[t].pc = "row"
  BY <1>1 DEF Begin, IInv, TypeOK
<1>3. Others(t) /\ UNCHANGED Records /\ holder' \in [Keys -> Txs \cup {NoTx}]
  BY DEF Begin, Others, Keys, IInv, TypeOK
<1>4. Ground(t)'
  BY <1>2 DEF Ground, Locked, Decided
<1> QED BY <1>2, <1>3, <1>4, QuietStep DEF Locked, Decided

\* TakeRow: the row is locked before anything is read.
LEMMA TakeRowKeeps ==
    ASSUME IInv, NEW t \in Txs, TakeRow(t)
    PROVE  IInv'
<1> DEFINE op == tx[t].op
<1>1. op \in Ops /\ tx[t].pc = "row" /\ UNCHANGED Records
  BY WorkingShape DEF IInv, TakeRow, At
<1>2. CASE ~Admitted(op)
  BY <1>1, <1>2, QuietFinish DEF TakeRow
<1>3. CASE Admitted(op)
  <2>1. Goes(t, "lock") /\ holder' = [holder EXCEPT ![RowOf(op)] = t] /\ holder[RowOf(op)] = NoTx
    BY <1>3 DEF TakeRow
  <2>2. /\ tx'[t] = [pc |-> "lock", op |-> op]
        /\ \A u \in Txs \ {t} : tx'[u] = tx[u]
        /\ tx' \in [Txs -> Working \cup {Idle}]
    BY <1>1, <2>1, GoesOthers DEF IInv
  <2>3. RowOf(op) \in Keys /\ holder \in [Keys -> Txs \cup {NoTx}]
    BY <1>1, LockShape DEF IInv, TypeOK, Keys
  <2>4. holder' \in [Keys -> Txs \cup {NoTx}] /\ holder'[RowOf(op)] = t
    BY <2>1, <2>3
  <2>5. Others(t)
    BY <2>1, <2>2, <2>3, ProtectionAssumption DEF Others
  <2>6. /\ op.kind = "unpause" => Stored(op.of)
        /\ op.kind = "resume" => LiveRule(op.of)
    BY <1>3 DEF Admitted
  <2>7. Ground(t)'
    BY <1>1, <2>2, <2>6 DEF Ground, Locked, Decided, Records, Stored, LiveRule
  <2> QED BY <1>1, <2>2, <2>4, <2>5, <2>7, QuietStep DEF Decided
<1> QED BY <1>2, <1>3

\* TakeKey: a free advisory lock.
LEMMA TakeKeyKeeps ==
    ASSUME IInv, NEW t \in Txs, TakeKey(t)
    PROVE  IInv'
<1>1. PICK k \in NextKeys(t) : holder[k] = NoTx /\ holder' = [holder EXCEPT ![k] = t]
  BY DEF TakeKey
<1>2. tx[t].op \in Ops /\ tx[t].pc = "lock" /\ UNCHANGED Records /\ tx' = tx
  BY WorkingShape DEF IInv, TakeKey, At
<1>3. k \in Keys /\ holder \in [Keys -> Txs \cup {NoTx}]
  BY <1>1, <1>2, LockShape DEF NextKeys, Missing, IInv, TypeOK, Keys
<1>4. Others(t) /\ holder' \in [Keys -> Txs \cup {NoTx}]
  BY <1>1, <1>2, <1>3, ProtectionAssumption DEF Others
<1>5. holder'[RowOf(tx[t].op)] = t
  BY <1>1, <1>2, <1>3, LockShape, ProtectionAssumption DEF IInv, LocksHeld, Locked
<1>6. Ground(t)'
  BY <1>2 DEF IInv, Grounds, Ground, Locked, Decided, Records, Stored, LiveRule
<1>7. tx' \in [Txs -> Working \cup {Idle}]
  BY <1>2 DEF IInv, TypeOK
<1> QED BY <1>2, <1>4, <1>5, <1>6, <1>7, QuietStep DEF Decided

\* Check: all locks are held, and what it reads becomes the ground.
LEMMA CheckKeeps ==
    ASSUME IInv, NEW t \in Txs, Check(t)
    PROVE  IInv'
<1> DEFINE op == tx[t].op
           next == IF op.kind \in {"bridge", "unpause", "reply"} THEN "verify" ELSE "write"
<1>1. op \in Ops /\ tx[t].pc = "lock" /\ UNCHANGED Records /\ Missing(op, t) = {}
  BY WorkingShape DEF IInv, Check, At
<1>2. CASE ~Allowed(op)
  BY <1>1, <1>2, QuietFinish DEF Check
<1>3. CASE Allowed(op)
  <2>1. Goes(t, next) /\ holder' = holder
    BY <1>3 DEF Check
  <2>2. /\ tx'[t] = [pc |-> next, op |-> op]
        /\ \A u \in Txs \ {t} : tx'[u] = tx[u]
        /\ tx' \in [Txs -> Working \cup {Idle}]
    BY <1>1, <2>1, GoesOthers DEF IInv
  <2>3. Others(t) /\ holder' \in [Keys -> Txs \cup {NoTx}]
    BY <2>1, <2>2 DEF Others, IInv, TypeOK, Keys
  <2>4. holder[RowOf(op)] = t /\ \A k \in Needs(op) : holder[k] = t
    BY <1>1 DEF Missing, IInv, LocksHeld, Locked
  <2>5. Ground(t)
    BY DEF IInv, Grounds
  <2>6. Ground(t)'
    <3>1. policy' = policy /\ rule' = rule /\ role' = role
      BY <1>1 DEF Records
    <3>2. /\ op.kind = "unpause" => Stored(op.of)
          /\ op.kind = "resume" => LiveRule(op.of)
      BY <1>1, <2>5 DEF Ground, Locked
    <3>3. /\ op.kind \in {"bridge", "unpause"} => Unprotected(op.of)
          /\ op.kind = "reply" => NoOtherRule(op.of)
      BY <1>3 DEF Allowed
    <3>4. op.kind = "narrow" => NoReaders(op.of)
      BY <1>3 DEF Allowed, Unneeded, NoReaders
    <3>5. next = "verify" <=> op.kind \in {"bridge", "unpause", "reply"}
      OBVIOUS
    <3> HIDE DEF op, next
    <3> QED BY <2>2, <3>1, <3>2, <3>3, <3>4, <3>5
            DEF Ground, Stored, LiveRule, Unprotected, NoOtherRule, NoReaders
  <2> QED BY <1>1, <2>1, <2>2, <2>3, <2>4, <2>6, QuietStep
<1> QED BY <1>2, <1>3

\* Verify: the calendars are loaded again under the locks.
LEMMA VerifyKeeps ==
    ASSUME IInv, NEW t \in Txs, Verify(t)
    PROVE  IInv'
<1> DEFINE op == tx[t].op
<1>1. op \in Ops /\ tx[t].pc = "verify" /\ UNCHANGED Records
  BY WorkingShape DEF IInv, Verify, At
<1>2. CASE ~StillValid(op)
  BY <1>1, <1>2, QuietFinish DEF Verify
<1>3. ASSUME StillValid(op), holder' = holder, NEW pc \in {"write", "broker"},
             tx'[t].pc = pc, tx'[t].op = op, \A u \in Txs \ {t} : tx'[u] = tx[u],
             tx' \in [Txs -> Working \cup {Idle}], pc = "broker" => op.kind = "reply"
      PROVE  IInv'
  <2>1. Others(t) /\ holder' \in [Keys -> Txs \cup {NoTx}]
    BY <1>3 DEF Others, IInv, TypeOK, Keys
  <2>2. holder[RowOf(op)] = t /\ \A k \in Needs(op) : holder[k] = t
    BY <1>1 DEF IInv, LocksHeld, Locked, Decided
  <2>3. policy' = policy /\ rule' = rule /\ role' = role
    BY <1>1 DEF Records
  <2>4. /\ op.kind = "unpause" => Stored(op.of)
        /\ op.kind = "resume" => LiveRule(op.of)
        /\ op.kind \in {"bridge", "unpause"} => Unprotected(op.of)
        /\ op.kind = "reply" => NoOtherRule(op.of)
        /\ op.kind # "narrow"
    BY <1>1 DEF IInv, Grounds, Ground, Locked, Decided
  <2>5. /\ op.kind = "bridge" => role[Connection[Source[op.of]]] \in Reads
        /\ op.kind = "reply" => NoCopyPolicies(op.of) /\ role[Connection[Response[op.of]]] \in Reads
    BY <1>3 DEF StillValid, PolicyCalendars, RuleCalendars, Reads
  <2>6. Ground(t)'
    <3> HIDE DEF op
    <3> QED BY <1>3, <2>3, <2>4, <2>5
            DEF Ground, Stored, LiveRule, Unprotected, NoOtherRule, NoCopyPolicies
  <2> QED BY <1>1, <1>3, <2>1, <2>2, <2>6, QuietStep
<1>4. CASE StillValid(op) /\ Goes(t, "write")
  <2>1. /\ tx'[t] = [pc |-> "write", op |-> op]
        /\ \A u \in Txs \ {t} : tx'[u] = tx[u]
        /\ tx' \in [Txs -> Working \cup {Idle}]
    BY <1>1, <1>4, GoesOthers DEF IInv
  <2> QED BY <1>3, <1>4, <2>1 DEF Verify
<1>5. ASSUME StillValid(op), op.kind = "reply", NEW e \in Availability[op.of],
             tx' = [tx EXCEPT ![t] = [pc |-> "broker", op |-> op, on |-> Connection[e]]]
      PROVE  IInv'
  <2>1. op.of \in Rules
    BY <1>1, <1>5, OpShape
  <2>2. Connection[e] \in Connections
    BY <1>5, <2>1, ProtectionAssumption
  <2>3. [pc |-> "broker", op |-> op, on |-> Connection[e]] \in Working
    BY <1>1, <2>2 DEF Working
  <2>4. holder' = holder
    BY <1>5 DEF Verify
  <2> QED BY <1>3, <1>5, <2>3, <2>4 DEF IInv, TypeOK
<1> QED BY <1>2, <1>4, <1>5 DEF Verify

\* Two requests past their locks have no lock in common.
LEMMA NoSharedKey ==
    ASSUME IInv, NEW t \in Txs, NEW u \in Txs \ {t},
           tx[t].pc \in Decided, tx[u].pc \in Decided,
           NEW k \in Needs(tx[t].op), k \in Needs(tx[u].op)
    PROVE  FALSE
  BY DEF IInv, LocksHeld

\* The locks a bridge and a rule need for the calendars they name.
LEMMA KeysNeeded ==
    ASSUME NEW op \in Ops
    PROVE  /\ op.kind \in {"bridge", "unpause"} =>
                 /\ <<"endpoint", Source[op.of]>> \in Needs(op)
                 /\ \A x \in Ends(op.of) : <<"identity", x>> \in Needs(op)
           /\ op.kind \in {"reply", "resume", "retire"} =>
                 /\ <<"endpoint", Response[op.of]>> \in Needs(op)
                 /\ <<"response", Identity[Response[op.of]]>> \in Needs(op)
                 /\ \A x \in ProtectedBy(op.of) : <<"identity", x>> \in Needs(op)
           /\ op.kind = "narrow" =>
                 \A e \in Endpoints : Connection[e] = op.of => <<"endpoint", e>> \in Needs(op)
  BY DEF Needs, Ends, ProtectedBy

\* What another request has read stays true when a bridge becomes active.
LEMMA BridgeWriteKeeps ==
    ASSUME IInv, NEW t \in Txs, tx[t].pc = "write", tx[t].op \in Ops,
           tx[t].op.kind \in {"bridge", "unpause"}, NEW u \in Txs \ {t}, tx'[u] = tx[u],
           policy' = [policy EXCEPT ![tx[t].op.of] = "active"], rule' = rule, role' = role
    PROVE  Ground(u)'
<1> DEFINE p == tx[t].op.of
           op == tx[u].op
<1>1. p \in Policies /\ Source[p] \in Endpoints
  BY OpShape, ProtectionAssumption
<1>2. policy \in [Policies -> {"none", "active", "paused"}]
  BY DEF IInv, TypeOK
<1>3. \A q \in Policies : (Stored(q) => Stored(q)') /\ (q # p => policy'[q] = policy[q])
  BY <1>1, <1>2 DEF Stored
<1>4. Ground(u) /\ (tx[u].pc # "idle" => op \in Ops)
  BY WorkingShape DEF IInv, Grounds
<1>5. ASSUME tx[u].pc \in Locked, op.kind = "unpause"
      PROVE  Stored(op.of)'
  BY <1>3, <1>4, <1>5, OpShape DEF Ground, Locked
<1>6. ASSUME tx[u].pc = "write", op.kind = "reply"
      PROVE  NoCopyPolicies(op.of)'
  <2>1. \A x \in Ends(p) : x \notin ProtectedBy(op.of)
    BY <1>4, <1>6, KeysNeeded, NoSharedKey DEF Decided
  <2>2. NoCopyPolicies(op.of)
    BY <1>4, <1>6 DEF Ground
  <2> QED BY <1>3, <2>1, <2>2 DEF NoCopyPolicies, Ends, Stored
<1>7. ASSUME tx[u].pc = "write", op.kind = "narrow"
      PROVE  NoReaders(op.of)'
  <2>1. Connection[Source[p]] # op.of
    <3> SUFFICES ASSUME Connection[Source[p]] = op.of PROVE FALSE
      OBVIOUS
    <3>1. op \in Ops /\ tx[u].pc \in Decided /\ tx[t].pc \in Decided
      BY <1>4, <1>7 DEF Decided
    <3>2. <<"endpoint", Source[p]>> \in Needs(tx[t].op)
      BY KeysNeeded
    <3>3. <<"endpoint", Source[p]>> \in Needs(op)
      BY <1>1, <3>1, <1>7, KeysNeeded
    <3> QED BY <3>1, <3>2, <3>3, NoSharedKey
  <2>2. NoReaders(op.of)
    BY <1>4, <1>7 DEF Ground
  <2> QED BY <1>3, <2>1, <2>2 DEF NoReaders, Stored, LiveRule
<1> HIDE DEF p, op
<1> QED BY <1>4, <1>5, <1>6, <1>7 DEF Ground, op, LiveRule, Unprotected, NoOtherRule

\* The same when a rule becomes active.
LEMMA ReplyWriteKeeps ==
    ASSUME IInv, NEW t \in Txs, tx[t].pc = "write", tx[t].op \in Ops,
           tx[t].op.kind = "reply", NEW u \in Txs \ {t}, tx'[u] = tx[u],
           rule' = [rule EXCEPT ![tx[t].op.of] = "active"], policy' = policy, role' = role
    PROVE  Ground(u)'
<1> DEFINE r == tx[t].op.of
           op == tx[u].op
<1>1. r \in Rules /\ Response[r] \in Endpoints
  BY OpShape, ProtectionAssumption
<1>2. rule \in [Rules -> {"none", "active", "paused", "deleted"}]
  BY DEF IInv, TypeOK
<1>3. \A q \in Rules : (LiveRule(q) => LiveRule(q)') /\ (q # r => rule'[q] = rule[q])
  BY <1>1, <1>2 DEF LiveRule
<1>4. Ground(u) /\ (tx[u].pc # "idle" => op \in Ops)
  BY WorkingShape DEF IInv, Grounds
<1>5. ASSUME tx[u].pc \in Locked, op.kind = "resume"
      PROVE  LiveRule(op.of)'
  BY <1>3, <1>4, <1>5, OpShape DEF Ground, Locked
<1>6. ASSUME tx[u].pc \in Decided, op.kind \in {"bridge", "unpause"}
      PROVE  Unprotected(op.of)'
  <2>1. ProtectedBy(r) \cap Ends(op.of) = {}
    BY <1>4, <1>6, KeysNeeded, NoSharedKey DEF Decided
  <2>2. Unprotected(op.of)
    BY <1>4, <1>6 DEF Ground
  <2> QED BY <1>3, <2>1, <2>2 DEF Unprotected, LiveRule
<1>7. ASSUME tx[u].pc \in Decided, op.kind = "reply"
      PROVE  NoOtherRule(op.of)'
  <2>1. Identity[Response[r]] # Identity[Response[op.of]]
    <3> SUFFICES ASSUME Identity[Response[r]] = Identity[Response[op.of]] PROVE FALSE
      OBVIOUS
    <3>1. op \in Ops /\ tx[u].pc \in Decided /\ tx[t].pc \in Decided
      BY <1>4, <1>7 DEF Decided
    <3>2. <<"response", Identity[Response[r]]>> \in Needs(tx[t].op)
      BY KeysNeeded
    <3>3. <<"response", Identity[Response[r]]>> \in Needs(op)
      BY <1>1, <3>1, <1>7, KeysNeeded
    <3> QED BY <3>1, <3>2, <3>3, NoSharedKey
  <2>2. NoOtherRule(op.of)
    BY <1>4, <1>7 DEF Ground
  <2> QED BY <1>3, <2>1, <2>2 DEF NoOtherRule, LiveRule
<1>8. ASSUME tx[u].pc = "write", op.kind = "narrow"
      PROVE  NoReaders(op.of)'
  <2>1. Connection[Response[r]] # op.of
    <3> SUFFICES ASSUME Connection[Response[r]] = op.of PROVE FALSE
      OBVIOUS
    <3>1. op \in Ops /\ tx[u].pc \in Decided /\ tx[t].pc \in Decided
      BY <1>4, <1>8 DEF Decided
    <3>2. <<"endpoint", Response[r]>> \in Needs(tx[t].op)
      BY KeysNeeded
    <3>3. <<"endpoint", Response[r]>> \in Needs(op)
      BY <1>1, <3>1, <1>8, KeysNeeded
    <3> QED BY <3>1, <3>2, <3>3, NoSharedKey
  <2>2. NoReaders(op.of)
    BY <1>4, <1>8 DEF Ground
  <2> QED BY <1>3, <2>1, <2>2 DEF NoReaders, Stored, LiveRule
<1> HIDE DEF r, op
<1> QED BY <1>4, <1>5, <1>6, <1>7, <1>8 DEF Ground, op, Stored, NoCopyPolicies

\* The same when a rule is resumed or retired; a request that resumes it has its row.
LEMMA RuleWriteKeeps ==
    ASSUME IInv, NEW t \in Txs, tx[t].pc = "write", tx[t].op \in Ops, NEW status,
           \/ tx[t].op.kind = "resume" /\ status = "active"
           \/ tx[t].op.kind = "retire" /\ status = "deleted",
           NEW u \in Txs \ {t}, tx'[u] = tx[u],
           rule' = [rule EXCEPT ![tx[t].op.of] = status], policy' = policy, role' = role
    PROVE  Ground(u)'
<1> DEFINE r == tx[t].op.of
           op == tx[u].op
<1>1. r \in Rules
  BY OpShape
<1>2. rule \in [Rules -> {"none", "active", "paused", "deleted"}]
  BY DEF IInv, TypeOK
<1>3. tx[t].op.kind = "resume" => LiveRule(r)
  BY DEF IInv, Grounds, Ground, Locked
<1>4. \A q \in Rules : (LiveRule(q)' => LiveRule(q)) /\ (q # r => rule'[q] = rule[q])
  BY <1>1, <1>2, <1>3 DEF LiveRule
<1>5. Ground(u) /\ (tx[u].pc # "idle" => op \in Ops)
  BY WorkingShape DEF IInv, Grounds
<1>6. ASSUME tx[u].pc \in Locked, op.kind = "resume"
      PROVE  LiveRule(op.of)'
  <2>1. holder[RowOf(tx[t].op)] = t /\ holder[RowOf(op)] = u
    BY <1>6 DEF IInv, LocksHeld, Locked
  <2>2. RowOf(tx[t].op) = <<"rule", r>> /\ RowOf(op) = <<"rule", op.of>>
    BY <1>6 DEF RowOf
  <2>3. op.of # r
    BY <2>1, <2>2
  <2>4. op.of \in Rules /\ LiveRule(op.of)
    BY <1>5, <1>6, OpShape DEF Ground, Locked
  <2> QED BY <1>4, <2>3, <2>4 DEF LiveRule
<1>7. ASSUME tx[u].pc \in Decided, op.kind \in {"bridge", "unpause"}
      PROVE  Unprotected(op.of)'
  BY <1>4, <1>5, <1>7 DEF Ground, Unprotected
<1>8. ASSUME tx[u].pc \in Decided, op.kind = "reply"
      PROVE  NoOtherRule(op.of)'
  BY <1>4, <1>5, <1>8 DEF Ground, NoOtherRule
<1>9. ASSUME tx[u].pc = "write", op.kind = "narrow"
      PROVE  NoReaders(op.of)'
  <2>1. NoReaders(op.of)
    BY <1>5, <1>9 DEF Ground
  <2> QED BY <1>4, <2>1 DEF NoReaders, Stored
<1> HIDE DEF r, op
<1> QED BY <1>5, <1>6, <1>7, <1>8, <1>9 DEF Ground, op, Stored, NoCopyPolicies

\* The same when an account is narrowed.
LEMMA NarrowWriteKeeps ==
    ASSUME IInv, NEW t \in Txs, tx[t].pc = "write", tx[t].op \in Ops,
           tx[t].op.kind = "narrow", NEW u \in Txs \ {t}, tx'[u] = tx[u],
           role' = [role EXCEPT ![tx[t].op.of] = tx[t].op.to], policy' = policy, rule' = rule
    PROVE  Ground(u)'
<1> DEFINE c == tx[t].op.of
           op == tx[u].op
<1>1. c \in Connections /\ role \in [Connections -> Roles]
  BY OpShape DEF IInv, TypeOK
<1>2. \A d \in Connections : d # c => role'[d] = role[d]
  BY <1>1
<1>3. Ground(u) /\ (tx[u].pc # "idle" => op \in Ops)
  BY WorkingShape DEF IInv, Grounds
<1>4. ASSUME tx[u].pc = "write", NEW e \in Endpoints, <<"endpoint", e>> \in Needs(op)
      PROVE  Connection[e] \in Connections /\ Connection[e] # c
  <2>1. Connection[e] \in Connections
    BY ProtectionAssumption
  <2>2. Connection[e] = c => <<"endpoint", e>> \in Needs(tx[t].op)
    BY KeysNeeded
  <2>3. tx[u].pc \in Decided /\ tx[t].pc \in Decided
    BY <1>4 DEF Decided
  <2> QED BY <1>4, <2>1, <2>2, <2>3, NoSharedKey
<1>5. ASSUME tx[u].pc = "write", op.kind = "bridge"
      PROVE  role'[Connection[Source[op.of]]] \in Reads
  <2>1. op \in Ops /\ op.of \in Policies /\ role[Connection[Source[op.of]]] \in Reads
    BY <1>3, <1>5, OpShape DEF Ground
  <2>2. Source[op.of] \in Endpoints /\ <<"endpoint", Source[op.of]>> \in Needs(op)
    BY <1>5, <2>1, KeysNeeded, ProtectionAssumption
  <2> QED BY <1>2, <1>4, <1>5, <2>1, <2>2
<1>6. ASSUME tx[u].pc = "write", op.kind = "reply"
      PROVE  role'[Connection[Response[op.of]]] \in Reads
  <2>1. op \in Ops /\ op.of \in Rules /\ role[Connection[Response[op.of]]] \in Reads
    BY <1>3, <1>6, OpShape DEF Ground
  <2>2. Response[op.of] \in Endpoints /\ <<"endpoint", Response[op.of]>> \in Needs(op)
    BY <1>6, <2>1, KeysNeeded, ProtectionAssumption
  <2> QED BY <1>2, <1>4, <1>6, <2>1, <2>2
<1> HIDE DEF c, op
<1> QED BY <1>3, <1>5, <1>6
        DEF Ground, op, Stored, LiveRule, Unprotected, NoOtherRule, NoCopyPolicies, NoReaders

RecordsOK ==
    /\ policy \in [Policies -> {"none", "active", "paused"}]
    /\ rule \in [Rules -> {"none", "active", "paused", "deleted"}]
    /\ plan \in [Plans -> {"none", "active"}]
    /\ role \in [Connections -> Roles]
    /\ auth \in [Connections -> {"active", "action_required"}]

Promises == NoCopy /\ OneController /\ ReadersKeepRole

\* A request that ends with a write keeps the invariant when the records keep their
\* promises and the other requests their grounds.
LEMMA LoudFinish ==
    ASSUME IInv, NEW t \in Txs, Finishes(t), RecordsOK', Promises', \A u \in Txs \ {t} : Ground(u)'
    PROVE  IInv'
<1>1. /\ Others(t) /\ tx'[t] = Idle
      /\ tx' \in [Txs -> Working \cup {Idle}]
      /\ holder' \in [Keys -> Txs \cup {NoTx}]
  BY FinishOthers DEF IInv
<1>2. tx'[t].pc = "idle"
  BY <1>1 DEF Idle
<1>3. TypeOK'
  BY <1>1 DEF RecordsOK, TypeOK, Keys
<1>4. LocksHeld'
  <2>1. SUFFICES ASSUME NEW u \in Txs \ {t}
                 PROVE  /\ tx[u].pc \in Locked => holder'[RowOf(tx[u].op)] = u
                        /\ tx[u].pc \in Decided => \A k \in Needs(tx[u].op) : holder'[k] = u
    BY <1>1, <1>2 DEF LocksHeld, Locked, Decided, Others
  <2>2. tx[u].pc # "idle" => tx[u].op \in Ops
    BY WorkingShape DEF IInv
  <2> QED BY <1>1, <2>2, LockShape DEF IInv, LocksHeld, Others, Locked, Decided
<1>5. Grounds'
  BY <1>2 DEF Grounds, Ground, Locked, Decided
<1> QED BY <1>3, <1>4, <1>5 DEF IInv, Promises

\* Write: the records keep their promises, whatever was written.
LEMMA WriteKeeps ==
    ASSUME IInv, NEW t \in Txs, Write(t)
    PROVE  IInv'
<1> DEFINE op == tx[t].op
<1>1. op \in Ops /\ tx[t].pc = "write" /\ Ground(t)
  BY WorkingShape DEF IInv, Write, At, Grounds
<1>2. Finishes(t) /\ \A u \in Txs \ {t} : tx'[u] = tx[u]
  BY FinishOthers DEF Write, Others, IInv
<1>3. RecordsOK
  BY DEF IInv, TypeOK, RecordsOK
<1>4. CASE op.kind \in {"bridge", "unpause"} /\ op.of \in Policies
  <2>1. /\ policy' = [policy EXCEPT ![op.of] = "active"]
        /\ rule' = rule /\ plan' = plan /\ role' = role /\ auth' = auth
    BY <1>4 DEF Write
  <2>2. Unprotected(op.of) /\ (op.kind = "unpause" => Stored(op.of))
        /\ (op.kind = "bridge" => role[Connection[Source[op.of]]] \in Reads)
    BY <1>1, <1>4 DEF Ground, Locked, Decided
  <2>3. NoCopy'
    BY <1>3, <1>4, <2>1, <2>2 DEF IInv, NoCopy, Unprotected, Ends, LiveRule, Stored, RecordsOK
  <2>4. OneController' /\ ReadersKeepRole'
    BY <1>3, <1>4, <2>1, <2>2 DEF IInv, OneController, ReadersKeepRole, LiveRule, Stored, RecordsOK
  <2>5. \A u \in Txs \ {t} : Ground(u)'
    BY <1>1, <1>2, <1>4, <2>1, BridgeWriteKeeps
  <2>6. RecordsOK'
    BY <1>3, <1>4, <2>1 DEF RecordsOK
  <2> QED BY <1>2, <2>3, <2>4, <2>5, <2>6, LoudFinish DEF Promises
<1>5. CASE op.kind = "reply" /\ op.of \in Rules
  <2>1. /\ rule' = [rule EXCEPT ![op.of] = "active"]
        /\ policy' = policy /\ plan' = plan /\ role' = role /\ auth' = auth
    BY <1>5 DEF Write
  <2>2. NoOtherRule(op.of) /\ NoCopyPolicies(op.of) /\ role[Connection[Response[op.of]]] \in Reads
    BY <1>1, <1>5 DEF Ground, Decided
  <2>3. NoCopy'
    BY <1>3, <1>5, <2>1, <2>2 DEF IInv, NoCopy, NoCopyPolicies, LiveRule, Stored, RecordsOK
  <2>4. OneController' /\ ReadersKeepRole'
    BY <1>3, <1>5, <2>1, <2>2
       DEF IInv, OneController, NoOtherRule, ReadersKeepRole, LiveRule, Stored, RecordsOK
  <2>5. \A u \in Txs \ {t} : Ground(u)'
    BY <1>1, <1>2, <1>5, <2>1, ReplyWriteKeeps
  <2>6. RecordsOK'
    BY <1>3, <1>5, <2>1 DEF RecordsOK
  <2> QED BY <1>2, <2>3, <2>4, <2>5, <2>6, LoudFinish DEF Promises
<1>6. CASE op.kind \in {"resume", "retire"} /\ op.of \in Rules
  <2> DEFINE status == IF op.kind = "resume" THEN "active" ELSE "deleted"
  <2>1. /\ rule' = [rule EXCEPT ![op.of] = status]
        /\ policy' = policy /\ plan' = plan /\ role' = role /\ auth' = auth
    BY <1>6 DEF Write
  <2>2. op.kind = "resume" => LiveRule(op.of)
    BY <1>1 DEF Ground, Locked
  <2>3. \A r \in Rules : LiveRule(r)' => LiveRule(r)
    BY <1>3, <1>6, <2>1, <2>2 DEF LiveRule, RecordsOK
  <2>4. NoCopy' /\ OneController' /\ ReadersKeepRole'
    BY <2>1, <2>3 DEF IInv, NoCopy, OneController, ReadersKeepRole, Stored
  <2>5. \A u \in Txs \ {t} : Ground(u)'
    BY <1>1, <1>2, <1>6, <2>1, RuleWriteKeeps
  <2>6. RecordsOK'
    BY <1>3, <1>6, <2>1 DEF RecordsOK
  <2> QED BY <1>2, <2>4, <2>5, <2>6, LoudFinish DEF Promises
<1>7. CASE op.kind = "plan" /\ op.of \in Plans
  <2>1. /\ plan' = [plan EXCEPT ![op.of] = "active"]
        /\ policy' = policy /\ rule' = rule /\ role' = role /\ auth' = auth
    BY <1>7 DEF Write
  <2>2. NoCopy' /\ OneController' /\ ReadersKeepRole'
    BY <2>1 DEF IInv, NoCopy, OneController, ReadersKeepRole, Stored, LiveRule
  <2>3. \A u \in Txs \ {t} : Ground(u)'
    BY <1>2, <2>1 DEF IInv, Grounds, Ground, Stored, LiveRule, Unprotected, NoOtherRule, NoCopyPolicies, NoReaders
  <2>4. RecordsOK'
    BY <1>3, <1>7, <2>1 DEF RecordsOK
  <2> QED BY <1>2, <2>2, <2>3, <2>4, LoudFinish DEF Promises
<1>8. CASE op.kind = "narrow" /\ op.of \in Connections /\ op.to \in Roles
  <2>1. /\ role' = [role EXCEPT ![op.of] = op.to] /\ auth' = [auth EXCEPT ![op.of] = "active"]
        /\ policy' = policy /\ rule' = rule /\ plan' = plan
    BY <1>8 DEF Write
  <2>2. NoReaders(op.of)
    BY <1>1, <1>8 DEF Ground
  <2>3. NoCopy' /\ OneController'
    BY <2>1 DEF IInv, NoCopy, OneController, Stored, LiveRule
  <2>4. ReadersKeepRole'
    BY <1>3, <2>1, <2>2, ProtectionAssumption
       DEF IInv, ReadersKeepRole, NoReaders, Stored, LiveRule, RecordsOK
  <2>5. \A u \in Txs \ {t} : Ground(u)'
    BY <1>1, <1>2, <1>8, <2>1, NarrowWriteKeeps
  <2>6. RecordsOK'
    BY <1>3, <1>8, <2>1 DEF RecordsOK
  <2> QED BY <1>2, <2>3, <2>4, <2>5, <2>6, LoudFinish DEF Promises
<1> QED BY <1>1, <1>4, <1>5, <1>6, <1>7, <1>8, OpShape

\* Broker: only the status of a connection changes.
LEMMA BrokerKeeps ==
    ASSUME IInv, NEW t \in Txs, Broker(t)
    PROVE  IInv'
<1>1. tx[t].on \in Connections
  BY WorkingShape DEF IInv, Broker, At
<1>2. /\ Finishes(t) /\ policy' = policy /\ rule' = rule /\ plan' = plan /\ role' = role
      /\ auth' = [auth EXCEPT ![tx[t].on] = "action_required"]
  BY DEF Broker
<1>3. \A u \in Txs \ {t} : tx'[u] = tx[u]
  BY <1>2, FinishOthers DEF Others, IInv
<1>4. RecordsOK'
  BY <1>1, <1>2 DEF IInv, TypeOK, RecordsOK
<1>5. Promises'
  BY <1>2 DEF IInv, Promises, NoCopy, OneController, ReadersKeepRole, Stored, LiveRule
<1>6. \A u \in Txs \ {t} : Ground(u)'
  BY <1>2, <1>3 DEF IInv, Grounds, Ground, Stored, LiveRule, Unprotected, NoOtherRule, NoCopyPolicies, NoReaders
<1> QED BY <1>2, <1>4, <1>5, <1>6, LoudFinish

\* PausePolicy: the bridge remains stored.
LEMMA PausePolicyKeeps ==
    ASSUME IInv, NEW p \in Policies, PausePolicy(p)
    PROVE  IInv'
<1>1. /\ policy' = [policy EXCEPT ![p] = "paused"] /\ rule' = rule /\ plan' = plan /\ role' = role
      /\ auth' = auth /\ holder' = holder /\ tx' = tx /\ Stored(p)
  BY DEF PausePolicy
<1>2. policy \in [Policies -> {"none", "active", "paused"}]
  BY DEF IInv, TypeOK
<1>3. \A q \in Policies : /\ Stored(q)' <=> Stored(q)
                          /\ policy'[q] = "active" => policy[q] = "active"
  BY <1>1, <1>2 DEF Stored
<1>4. TypeOK'
  BY <1>1 DEF IInv, TypeOK
<1>5. LocksHeld' /\ NoCopy' /\ OneController' /\ ReadersKeepRole'
  BY <1>1, <1>3 DEF IInv, LocksHeld, NoCopy, OneController, ReadersKeepRole, LiveRule
<1>6. Grounds'
  <2> SUFFICES ASSUME NEW t \in Txs PROVE Ground(t)'
    BY DEF Grounds
  <2>1. Ground(t) /\ (tx[t].pc # "idle" => tx[t].op \in Ops)
    BY WorkingShape DEF IInv, Grounds
  <2>2. tx[t].pc \in Locked /\ tx[t].op.kind = "unpause" => Stored(tx[t].op.of)'
    BY <1>1, <1>3, <2>1, OpShape DEF Ground, Locked, Stored
  <2>3. /\ NoCopyPolicies(tx[t].op.of) => NoCopyPolicies(tx[t].op.of)'
        /\ NoReaders(tx[t].op.of) => NoReaders(tx[t].op.of)'
    BY <1>1, <1>3 DEF NoCopyPolicies, NoReaders, LiveRule
  <2> QED BY <1>1, <2>1, <2>2, <2>3 DEF Ground, LiveRule, Unprotected, NoOtherRule
<1> QED BY <1>4, <1>5, <1>6 DEF IInv

\* PauseRule: the rule remains live.
LEMMA PauseRuleKeeps ==
    ASSUME IInv, NEW r \in Rules, PauseRule(r)
    PROVE  IInv'
<1>1. /\ rule' = [rule EXCEPT ![r] = "paused"] /\ policy' = policy /\ plan' = plan /\ role' = role
      /\ auth' = auth /\ holder' = holder /\ tx' = tx /\ LiveRule(r)
  BY DEF PauseRule
<1>2. rule \in [Rules -> {"none", "active", "paused", "deleted"}]
  BY DEF IInv, TypeOK
<1>3. \A q \in Rules : LiveRule(q)' <=> LiveRule(q)
  BY <1>1, <1>2 DEF LiveRule
<1>4. TypeOK'
  BY <1>1 DEF IInv, TypeOK
<1>5. LocksHeld' /\ NoCopy' /\ OneController' /\ ReadersKeepRole'
  BY <1>1, <1>3 DEF IInv, LocksHeld, NoCopy, OneController, ReadersKeepRole, Stored
<1>6. Grounds'
  <2> SUFFICES ASSUME NEW t \in Txs PROVE Ground(t)'
    BY DEF Grounds
  <2>1. Ground(t) /\ (tx[t].pc # "idle" => tx[t].op \in Ops)
    BY WorkingShape DEF IInv, Grounds
  <2>2. tx[t].pc \in Locked /\ tx[t].op.kind = "resume" => LiveRule(tx[t].op.of)'
    BY <1>1, <1>3, <2>1, OpShape DEF Ground, Locked, LiveRule
  <2>3. /\ Unprotected(tx[t].op.of) => Unprotected(tx[t].op.of)'
        /\ NoOtherRule(tx[t].op.of) => NoOtherRule(tx[t].op.of)'
        /\ NoReaders(tx[t].op.of) => NoReaders(tx[t].op.of)'
    BY <1>1, <1>3 DEF Unprotected, NoOtherRule, NoReaders, Stored
  <2> QED BY <1>1, <2>1, <2>2, <2>3 DEF Ground, Stored, NoCopyPolicies
<1> QED BY <1>4, <1>5, <1>6 DEF IInv

\* Reauthorize: an account that reads events goes on reading them.
LEMMA ReauthorizeKeeps ==
    ASSUME IInv, NEW c \in Connections, NEW to \in Grants[c], Reauthorize(c, to)
    PROVE  IInv'
<1>1. /\ role' = [role EXCEPT ![c] = to] /\ auth' = [auth EXCEPT ![c] = "active"] /\ policy' = policy
      /\ rule' = rule /\ plan' = plan /\ holder' = holder /\ tx' = tx
      /\ (role[c] \in Reads => to \in Reads)
  BY DEF Reauthorize, RemovesEventReadAccess
<1>2. role \in [Connections -> Roles] /\ to \in Roles
  BY ProtectionAssumption DEF IInv, TypeOK
<1>3. \A d \in Connections : role[d] \in Reads => role'[d] \in Reads
  BY <1>1, <1>2
<1>4. TypeOK'
  BY <1>1, <1>2 DEF IInv, TypeOK
<1>5. LocksHeld' /\ NoCopy' /\ OneController'
  BY <1>1 DEF IInv, LocksHeld, NoCopy, OneController, LiveRule, Stored
<1>6. ReadersKeepRole'
  BY <1>1, <1>3, ProtectionAssumption DEF IInv, ReadersKeepRole, LiveRule, Stored
<1>7. Grounds'
  <2> SUFFICES ASSUME NEW t \in Txs PROVE Ground(t)'
    BY DEF Grounds
  <2>1. Ground(t) /\ (tx[t].pc # "idle" => tx[t].op \in Ops)
    BY WorkingShape DEF IInv, Grounds
  <2>2. tx[t].pc = "write" /\ tx[t].op.kind = "bridge" => role'[Connection[Source[tx[t].op.of]]] \in Reads
    BY <1>3, <2>1, OpShape, ProtectionAssumption DEF Ground
  <2>3. tx[t].pc = "write" /\ tx[t].op.kind = "reply" => role'[Connection[Response[tx[t].op.of]]] \in Reads
    BY <1>3, <2>1, OpShape, ProtectionAssumption DEF Ground
  <2> QED BY <1>1, <2>1, <2>2, <2>3
          DEF Ground, Stored, LiveRule, Unprotected, NoOtherRule, NoCopyPolicies, NoReaders
<1> QED BY <1>4, <1>5, <1>6, <1>7 DEF IInv

\* The initial states satisfy the invariant: no record exists.
LEMMA InitInv == Init => IInv
<1> SUFFICES ASSUME Init PROVE IInv
  OBVIOUS
<1>1. TypeOK
  BY ProtectionAssumption DEF Init, TypeOK, Idle
<1>2. \A t \in Txs : tx[t].pc = "idle"
  BY DEF Init, Idle
<1>3. LocksHeld /\ Grounds
  BY <1>2 DEF LocksHeld, Grounds, Ground, Locked, Decided
<1>4. (\A p \in Policies : ~Stored(p)) /\ (\A r \in Rules : ~LiveRule(r))
  BY DEF Init, Stored, LiveRule
<1>5. NoCopy /\ OneController /\ ReadersKeepRole
  BY <1>4 DEF NoCopy, OneController, ReadersKeepRole
<1> QED BY <1>1, <1>3, <1>5 DEF IInv

\* Every step keeps it.
LEMMA NextInv == IInv /\ [Next]_vars => IInv'
<1> SUFFICES ASSUME IInv, [Next]_vars PROVE IInv'
  OBVIOUS
<1>1. CASE UNCHANGED vars
  BY <1>1 DEF vars, IInv, TypeOK, LocksHeld, Grounds, Ground, NoCopy, OneController, ReadersKeepRole,
              Stored, LiveRule, Unprotected, NoOtherRule, NoCopyPolicies, NoReaders
<1>2. ASSUME NEW t \in Txs, NEW op \in Ops, Begin(t, op) PROVE IInv'
  BY <1>2, BeginKeeps
<1>3. ASSUME NEW t \in Txs, Step(t) PROVE IInv'
  <2>1. CASE TakeRow(t) BY <2>1, TakeRowKeeps
  <2>2. CASE TakeKey(t) BY <2>2, TakeKeyKeeps
  <2>3. CASE Check(t) BY <2>3, CheckKeeps
  <2>4. CASE Verify(t) BY <2>4, VerifyKeeps
  <2>5. CASE Broker(t) BY <2>5, BrokerKeeps
  <2>6. CASE Write(t) BY <2>6, WriteKeeps
  <2>7. CASE Timeout(t) BY <2>7, QuietFinish DEF Timeout
  <2> QED BY <1>3, <2>1, <2>2, <2>3, <2>4, <2>5, <2>6, <2>7 DEF Step
<1>4. ASSUME NEW t \in Txs, Fail(t) PROVE IInv'
  BY <1>4, QuietFinish DEF Fail
<1>5. ASSUME NEW p \in Policies, PausePolicy(p) PROVE IInv'
  BY <1>5, PausePolicyKeeps
<1>6. ASSUME NEW r \in Rules, PauseRule(r) PROVE IInv'
  BY <1>6, PauseRuleKeeps
<1>7. ASSUME NEW c \in Connections, NEW to \in Grants[c], Reauthorize(c, to) PROVE IInv'
  BY <1>7, ReauthorizeKeeps
<1> QED BY <1>1, <1>2, <1>3, <1>4, <1>5, <1>6, <1>7 DEF Next

\* The locks of lockProtectedSourceCalendars make every decision on records that no other
\* request can change before the commit.
THEOREM Invariance == Spec => []IInv
  BY InitInv, NextInv, PTL DEF Spec

\* Records, locks and requests keep their shape, whatever requests run side by side.
THEOREM TypeCorrect == Spec => []TypeOK
<1>1. IInv => TypeOK
  BY DEF IInv
<1> QED BY <1>1, Invariance, PTL

\* requireNoConflictResponseRule and requireNoCopyPolicies, read under the locks, keep the
\* no-copy promise for every number of delegated views and concurrent activations.
THEOREM NoCopyHolds == Spec => []NoCopy
<1>1. IInv => NoCopy
  BY DEF IInv
<1> QED BY <1>1, Invariance, PTL

\* The lookup of a live rule under the response lock is enough for one controller per
\* provider calendar, without the unique index.
THEOREM OneControllerHolds == Spec => []OneController
<1>1. IInv => OneController
  BY DEF IInv
<1> QED BY <1>1, Invariance, PTL

\* prepareEventReadRemoval and the activations exclude each other, although the OAuth
\* callback locks only the endpoints of its own account.
THEOREM ReadersHold == Spec => []ReadersKeepRole
<1>1. IInv => ReadersKeepRole
  BY DEF IInv
<1> QED BY <1>1, Invariance, PTL

-----------------------------------------------------------------------------
(* No circle of waiting requests.                                          *)

\* What a lock says about its holder: it is the row the request began with, or a key of
\* the request that sorts before all the keys it still lacks.
OrderedAt(t) ==
    \A k \in Keys : holder[k] = t =>
        /\ tx[t].pc \in Locked
        /\ \/ k = RowOf(tx[t].op)
           \/ /\ k \in Needs(tx[t].op)
              /\ \A j \in Missing(tx[t].op, t) : Rank[k] < Rank[j]

Ordered == \A t \in Txs : OrderedAt(t)

\* The keys of lockProtectedSourceCalendars are no rows, so the two kinds of lock differ.
LEMMA KeysApart ==
    ASSUME NEW op \in Ops
    PROVE  /\ RowOf(op) \in RowKeys
           /\ Needs(op) \subseteq AdvisoryKeys
           /\ RowKeys \cap AdvisoryKeys = {}
<1>1. RowKeys \cap AdvisoryKeys = {}
  BY DEF RowKeys, AdvisoryKeys
<1>2. CASE op.kind \in {"bridge", "unpause"} /\ op.of \in Policies
  BY <1>1, <1>2, ProtectionAssumption DEF RowOf, Needs, RowKeys, AdvisoryKeys, Ends
<1>3. CASE op.kind \in {"reply", "resume", "retire"} /\ op.of \in Rules
  BY <1>1, <1>3, ProtectionAssumption DEF RowOf, Needs, RowKeys, AdvisoryKeys, ProtectedBy
<1>4. CASE op.kind = "plan" /\ op.of \in Plans
  BY <1>1, <1>4, ProtectionAssumption DEF RowOf, Needs, RowKeys, AdvisoryKeys
<1>5. CASE op.kind = "narrow" /\ op.of \in Connections /\ op.to \in Roles
  BY <1>1, <1>5, ProtectionAssumption DEF RowOf, Needs, RowKeys, AdvisoryKeys
<1> QED BY <1>2, <1>3, <1>4, <1>5, OpShape

\* A request whose operation and locks stay the same keeps its order.
Same(t) ==
    /\ tx'[t].op = tx[t].op /\ (tx[t].pc \in Locked => tx'[t].pc \in Locked)
    /\ \A k \in Keys : holder'[k] = t <=> holder[k] = t

\* Steps that leave a request and its locks alone keep the order of its locks.
LEMMA SameOrdered ==
    ASSUME TypeOK, Ordered, NEW t \in Txs, Same(t)
    PROVE  OrderedAt(t)'
<1> SUFFICES ASSUME NEW k \in Keys, holder'[k] = t
             PROVE  /\ tx'[t].pc \in Locked
                    /\ \/ k = RowOf(tx'[t].op)
                       \/ /\ k \in Needs(tx'[t].op)
                          /\ \A j \in Missing(tx[t].op, t)' : Rank[k] < Rank[j]
  BY DEF OrderedAt
<1>1. holder[k] = t /\ tx[t].pc \in Locked /\ tx'[t].pc \in Locked
  BY DEF Same, Ordered, OrderedAt
<1>2. tx[t].op \in Ops
  BY <1>1, WorkingShape DEF Locked
<1>3. Missing(tx[t].op, t)' = Missing(tx[t].op, t)
  BY <1>2, LockShape DEF Missing, Same
<1> QED BY <1>1, <1>3 DEF Ordered, OrderedAt, Same

\* A request that has locked nothing or has released everything has no order to keep.
LEMMA FinishOrdered ==
    ASSUME TypeOK, Ordered, NEW t \in Txs, Finishes(t)
    PROVE  Ordered'
<1>1. /\ \A k \in Keys : holder'[k] # t
      /\ \A u \in Txs \ {t} : Same(u)
  BY ProtectionAssumption DEF TypeOK, Finishes, Same, Keys
<1> QED BY <1>1, SameOrdered DEF Ordered, OrderedAt

\* TakeRow: the first lock of a request.
LEMMA TakeRowOrdered ==
    ASSUME TypeOK, Ordered, NEW t \in Txs, TakeRow(t)
    PROVE  Ordered'
<1> DEFINE op == tx[t].op
<1>1. op \in Ops /\ tx[t].pc = "row"
  BY WorkingShape DEF TakeRow, At
<1>2. CASE ~Admitted(op)
  BY <1>2, FinishOrdered DEF TakeRow
<1>3. CASE Admitted(op)
  <2>1. Goes(t, "lock") /\ holder' = [holder EXCEPT ![RowOf(op)] = t] /\ holder[RowOf(op)] = NoTx
    BY <1>3 DEF TakeRow
  <2>2. /\ tx'[t] = [pc |-> "lock", op |-> op]
        /\ \A u \in Txs \ {t} : tx'[u] = tx[u]
    BY <1>1, <2>1, GoesOthers
  <2>3. RowOf(op) \in Keys /\ holder \in [Keys -> Txs \cup {NoTx}]
    BY <1>1, LockShape DEF TypeOK, Keys
  <2>4. \A u \in Txs \ {t} : Same(u)
    BY <2>1, <2>2, <2>3, ProtectionAssumption DEF Same
  <2>5. \A k \in Keys : holder[k] # t
    BY <1>1 DEF Ordered, OrderedAt, Locked
  <2>6. tx'[t].pc \in Locked /\ tx'[t].op = op
    BY <2>2 DEF Locked
  <2>7. \A k \in Keys : holder'[k] = t => k = RowOf(tx'[t].op)
    BY <2>1, <2>3, <2>5, <2>6
  <2> QED BY <2>4, <2>6, <2>7, SameOrdered DEF Ordered, OrderedAt
<1> QED BY <1>2, <1>3

\* TakeKey: the smallest missing key sorts after the ones held and before the rest.
LEMMA TakeKeyOrdered ==
    ASSUME TypeOK, Ordered, NEW t \in Txs, TakeKey(t)
    PROVE  Ordered'
<1> DEFINE op == tx[t].op
<1>1. PICK k \in NextKeys(t) : holder[k] = NoTx /\ holder' = [holder EXCEPT ![k] = t]
  BY DEF TakeKey
<1>2. op \in Ops /\ tx[t].pc = "lock" /\ tx' = tx
  BY WorkingShape DEF TakeKey, At
<1>3. /\ k \in Keys /\ k \in Needs(op) /\ holder \in [Keys -> Txs \cup {NoTx}]
      /\ \A j \in Missing(op, t) : Rank[k] <= Rank[j]
  BY <1>1, <1>2, LockShape DEF NextKeys, Missing, TypeOK, Keys
<1>4. \A u \in Txs \ {t} : Same(u)
  BY <1>1, <1>2, <1>3, ProtectionAssumption DEF Same
<1>5. Missing(op, t)' = Missing(op, t) \ {k}
  BY <1>1, <1>2, <1>3, LockShape, ProtectionAssumption DEF Missing
<1>6. \A j \in Missing(op, t)' : Rank[k] < Rank[j]
  <2> SUFFICES ASSUME NEW j \in Missing(op, t)' PROVE Rank[k] < Rank[j]
    OBVIOUS
  <2>1. j \in Missing(op, t) /\ j # k
    BY <1>5
  <2>2. j \in AdvisoryKeys /\ k \in AdvisoryKeys
    BY <1>2, <1>3, <2>1, KeysApart DEF Missing
  <2>3. Rank[j] \in Nat /\ Rank[k] \in Nat /\ Rank[j] # Rank[k]
    BY <2>1, <2>2, ProtectionAssumption
  <2> QED BY <1>3, <2>1, <2>3
<1>7. ASSUME NEW j \in Keys, holder'[j] = t
      PROVE  \/ j = RowOf(op)
             \/ j \in Needs(op) /\ \A i \in Missing(op, t)' : Rank[j] < Rank[i]
  <2>1. CASE j = k
    BY <1>3, <1>6, <2>1
  <2>2. CASE j # k
    <3>1. holder[j] = t
      BY <1>1, <1>3, <1>7, <2>2
    <3> QED BY <1>5, <3>1 DEF Ordered, OrderedAt
  <2> QED BY <2>1, <2>2
<1>8. tx'[t].op = op /\ tx'[t].pc \in Locked
  BY <1>2 DEF Locked
<1> QED BY <1>4, <1>7, <1>8, SameOrdered DEF Ordered, OrderedAt

\* Every step keeps the order of the locks.
LEMMA NextOrdered == TypeOK /\ Ordered /\ [Next]_vars => Ordered'
<1> SUFFICES ASSUME TypeOK, Ordered, [Next]_vars PROVE Ordered'
  OBVIOUS
<1>0. ASSUME \A t \in Txs : Same(t) PROVE Ordered'
  BY <1>0, SameOrdered DEF Ordered
<1>1. ASSUME tx' = tx, holder' = holder PROVE Ordered'
  BY <1>0, <1>1 DEF Same
<1>2. ASSUME NEW t \in Txs, NEW op \in Ops, Begin(t, op) PROVE Ordered'
  <2>1. \A k \in Keys : holder'[k] # t
    BY <1>2 DEF Begin, At, Ordered, OrderedAt, Locked
  <2>2. \A u \in Txs \ {t} : Same(u)
    BY <1>2 DEF Begin, Same, TypeOK
  <2> QED BY <2>1, <2>2, SameOrdered DEF Ordered, OrderedAt
<1>3. ASSUME NEW t \in Txs, NEW pc \in {"verify", "write"}, tx[t].pc # "idle",
             Goes(t, pc), holder' = holder
      PROVE  Ordered'
  <2>1. tx'[t] = [pc |-> pc, op |-> tx[t].op] /\ \A u \in Txs \ {t} : tx'[u] = tx[u]
    BY <1>3, GoesOthers
  <2>2. tx'[t].op = tx[t].op /\ tx'[t].pc \in Locked
    BY <2>1 DEF Locked
  <2> QED BY <1>0, <1>3, <2>1, <2>2 DEF Same
<1>4. ASSUME NEW t \in Txs, Step(t) PROVE Ordered'
  <2>1. CASE TakeRow(t) BY <2>1, TakeRowOrdered
  <2>2. CASE TakeKey(t) BY <2>2, TakeKeyOrdered
  <2>3. CASE Check(t)
    <3>1. tx[t].pc # "idle"
      BY <2>3 DEF Check, At
    <3>2. CASE ~Allowed(tx[t].op)
      BY <2>3, <3>2, FinishOrdered DEF Check
    <3>3. CASE Allowed(tx[t].op)
      BY <1>3, <2>3, <3>1, <3>3 DEF Check
    <3> QED BY <3>2, <3>3
  <2>4. CASE Verify(t)
    <3>1. tx[t].pc # "idle" /\ tx[t].pc \in Locked
      BY <2>4 DEF Verify, At, Locked
    <3>2. CASE ~StillValid(tx[t].op)
      BY <2>4, <3>2, FinishOrdered DEF Verify
    <3>3. CASE Goes(t, "write") /\ holder' = holder
      BY <1>3, <3>1, <3>3
    <3>4. ASSUME holder' = holder, NEW c,
                 tx' = [tx EXCEPT ![t] = [pc |-> "broker", op |-> tx[t].op, on |-> c]]
          PROVE  Ordered'
      <4>1. tx'[t].op = tx[t].op /\ tx'[t].pc \in Locked /\ \A u \in Txs \ {t} : tx'[u] = tx[u]
        BY <3>4 DEF TypeOK, Locked
      <4> QED BY <1>0, <3>4, <4>1 DEF Same
    <3> QED BY <2>4, <3>2, <3>3, <3>4 DEF Verify
  <2>5. CASE Broker(t) BY <2>5, FinishOrdered DEF Broker
  <2>6. CASE Write(t) BY <2>6, FinishOrdered DEF Write
  <2>7. CASE Timeout(t) BY <2>7, FinishOrdered DEF Timeout
  <2> QED BY <1>4, <2>1, <2>2, <2>3, <2>4, <2>5, <2>6, <2>7 DEF Step
<1>5. ASSUME NEW t \in Txs, Fail(t) PROVE Ordered'
  BY <1>5, FinishOrdered DEF Fail
<1>6. ASSUME NEW p \in Policies, PausePolicy(p) PROVE Ordered'
  BY <1>1, <1>6 DEF PausePolicy
<1>7. ASSUME NEW r \in Rules, PauseRule(r) PROVE Ordered'
  BY <1>1, <1>7 DEF PauseRule
<1>8. ASSUME NEW c \in Connections, NEW to \in Grants[c], Reauthorize(c, to) PROVE Ordered'
  BY <1>1, <1>8 DEF Reauthorize
<1> QED BY <1>1, <1>2, <1>4, <1>5, <1>6, <1>7, <1>8 DEF Next, vars

\* Finitely many waiting requests cannot each wait for a larger key than the one before:
\* a finite set of requests has one whose key is the largest.
LEMMA Largest ==
    ASSUME NEW S, IsFiniteSet(S), S # {}, NEW f \in [S -> Nat]
    PROVE  \E t \in S : \A u \in S : f[u] <= f[t]
<1> SUFFICES ASSUME \A t \in S : \E u \in S : f[t] < f[u] PROVE FALSE
  OBVIOUS
<1> DEFINE Endless == {U \in SUBSET S : U # {} /\ \A t \in U : \E u \in U : f[t] < f[u]}
<1>1. IsWellFoundedOn(StrictSubsetOrdering(S), SUBSET S)
  BY FS_StrictSubsetOrderingWellFounded, FS_FiniteSubsetsOfFinite
<1>2. S \in Endless /\ Endless \subseteq SUBSET S
  OBVIOUS
<1>3. PICK U \in Endless : \A V \in Endless : ~(<<V, U>> \in StrictSubsetOrdering(S))
  <2> HIDE DEF Endless
  <2> QED BY <1>1, <1>2, WFMin
<1>4. PICK t \in U : TRUE
  OBVIOUS
<1> DEFINE V == {u \in U : f[t] < f[u]}
<1>5. V \in Endless
  OBVIOUS
<1>6. V \subseteq U /\ V # U /\ U \in SUBSET S
  <2>1. ~(f[t] < f[t])
    OBVIOUS
  <2> QED BY <1>4, <2>1
<1> HIDE DEF V, Endless
<1> QED BY <1>3, <1>5, <1>6 DEF StrictSubsetOrdering

\* In every state with that order, each set of requests has one that waits for none of the
\* others or waits in the token broker's session: follow the waiting requests to the one
\* whose next key is the largest.
LEMMA OrderedIsDeadlockFree == TypeOK /\ Ordered => NoDeadlock
<1> SUFFICES ASSUME TypeOK, Ordered,
                    NEW S \in (SUBSET Txs) \ {{}},
                    \A t \in S : ~At(t, "broker") /\ \E u \in S : WaitsFor(t, u)
             PROVE  FALSE
  BY DEF NoDeadlock
<1> DEFINE L == {t \in S : At(t, "lock")}
<1>1. \A t \in S : tx[t].pc \in {"row", "lock"} /\ tx[t].op \in Ops
  <2> SUFFICES ASSUME NEW t \in S PROVE tx[t].pc \in {"row", "lock"} /\ tx[t].op \in Ops
    OBVIOUS
  <2>1. Awaited(t) # {} /\ tx[t].pc # "broker"
    BY DEF WaitsFor, At
  <2>2. tx[t].pc \in {"row", "lock"}
    BY <2>1 DEF Awaited, At
  <2> QED BY <2>2, WorkingShape
<1>2. \A t \in S : \E u \in L : \E k \in Awaited(t) \cap Keys : holder[k] = u
  <2> SUFFICES ASSUME NEW t \in S PROVE \E u \in L : \E k \in Awaited(t) \cap Keys : holder[k] = u
    OBVIOUS
  <2>1. PICK u \in S, k \in Awaited(t) : holder[k] = u
    BY DEF WaitsFor
  <2>2. k \in Keys
    BY <1>1, LockShape DEF Awaited, NextKeys, Missing, At
  <2>3. u \in L
    BY <1>1, <2>1, <2>2 DEF Ordered, OrderedAt, Locked, At
  <2> QED BY <2>1, <2>2, <2>3
<1>3. \A t \in L : \E u \in L : \E k \in NextKeys(t) : holder[k] = u /\ k \in Keys
  BY <1>2 DEF Awaited, At
<1> DEFINE next == [t \in L |-> CHOOSE k \in NextKeys(t) : TRUE]
           f == [t \in L |-> Rank[next[t]]]
<1>4. \A t \in L : next[t] \in NextKeys(t)
  BY <1>3
<1>5. \A t \in L : NextKeys(t) \subseteq AdvisoryKeys
  BY <1>1, KeysApart DEF NextKeys, Missing
<1>6. \A t \in L : \A k \in NextKeys(t) : k = next[t]
  <2> SUFFICES ASSUME NEW t \in L, NEW k \in NextKeys(t) PROVE k = next[t]
    OBVIOUS
  <2>1. next[t] \in NextKeys(t) /\ next[t] \in AdvisoryKeys /\ k \in AdvisoryKeys
    BY <1>4, <1>5
  <2> HIDE DEF next
  <2>2. Rank[k] <= Rank[next[t]] /\ Rank[next[t]] <= Rank[k]
    BY <2>1 DEF NextKeys
  <2>3. Rank[k] \in Nat /\ Rank[next[t]] \in Nat
    BY <2>1, ProtectionAssumption
  <2>4. Rank[k] = Rank[next[t]]
    BY <2>2, <2>3
  <2>5. \A i, j \in AdvisoryKeys : Rank[i] = Rank[j] => i = j
    BY ProtectionAssumption
  <2> QED BY <2>1, <2>4, <2>5
<1>7. f \in [L -> Nat]
  BY <1>4, <1>5, ProtectionAssumption
<1>8. IsFiniteSet(L) /\ L # {}
  <2>1. L \subseteq Txs
    OBVIOUS
  <2>2. PICK t \in S : TRUE
    OBVIOUS
  <2>3. \E u \in L : TRUE
    BY <1>2, <2>2
  <2> QED BY <2>1, <2>3, FS_Subset, ProtectionAssumption
<1>9. PICK t \in L : \A u \in L : f[u] <= f[t]
  <2> HIDE DEF f, L
  <2> QED BY <1>7, <1>8, Largest
<1>10. PICK u \in L : holder[next[t]] = u /\ next[t] \in Keys
  BY <1>3, <1>6
<1>11. next[t] \in AdvisoryKeys /\ next[u] \in Missing(tx[u].op, u)
  BY <1>4, <1>5 DEF NextKeys
<1>12. u \in Txs /\ tx[u].op \in Ops /\ next[t] # RowOf(tx[u].op)
  BY <1>1, <1>11, KeysApart
<1>13. Rank[next[t]] < Rank[next[u]]
  <2> HIDE DEF next
  <2> QED BY <1>10, <1>11, <1>12 DEF Ordered, OrderedAt
<1>14. f[t] = Rank[next[t]] /\ f[u] = Rank[next[u]]
  OBVIOUS
<1> HIDE DEF f, next, L
<1> QED BY <1>7, <1>9, <1>13, <1>14

\* Sorting the keys is enough: however many requests run, and whatever rows and keys they
\* need, no set of them waits in a circle that only a timeout could break.
THEOREM DeadlockFree == Spec => []NoDeadlock
<1>1. Init => Ordered
  BY ProtectionAssumption DEF Init, Ordered, OrderedAt, Keys
<1>2. TypeOK /\ Ordered => NoDeadlock
  BY OrderedIsDeadlockFree
<1>3. Init => TypeOK
  BY InitInv DEF IInv
<1> QED BY <1>1, <1>2, NextOrdered, TypeCorrect, PTL DEF Spec
=============================================================================
