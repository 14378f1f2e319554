--------------------------- MODULE JobQueueProofs ---------------------------
(***************************************************************************)
(* Proofs about JobQueue for every set of rows, keys and workers and every *)
(* attempt limit.                                                          *)
(***************************************************************************)
EXTENDS JobQueue, TLAPS

Busy == {"dispatch", "confirm", "record"}

\* The inductive heart of the lease protocol.  A leased row belongs to a worker
\* that is gone, or to one that is busy with this very row, counts the attempt
\* the row counts and has not been told that the lease is lost.
HeldBy(j, o) ==
    /\ o \in Owners
    /\ \/ worker[o].pc = "gone"
       \/ /\ worker[o].pc \in Busy
          /\ worker[o].job = j
          /\ worker[o].attempt = row[j].attempts
          /\ worker[o].beat = "held"

LeaseInv == \A j \in Jobs : row[j].state = "leased" => HeldBy(j, row[j].owner)

\* Reaping an expired lease (lease) keeps the shape of a row.
LEMMA ReapedType ==
    ASSUME NEW r \in Row
    PROVE  Reaped(r) \in Row
  BY DEF Reaped, Expired, Row, Live, Terminal

\* Taking a lease (lease) yields a leased row of its new owner, one attempt later.
LEMMA TakenType ==
    ASSUME NEW r \in Row, NEW o \in Owners
    PROVE  /\ Taken(r, o) \in Row
           /\ Taken(r, o).state = "leased"
           /\ Taken(r, o).owner = o
           /\ Taken(r, o).key = r.key
           /\ Taken(r, o).attempts = r.attempts + 1
<1> DEFINE n == r.attempts + 1
<1>1. n \in Nat
  BY DEF Row
<1>2. Taken(r, o) = [r EXCEPT !.state = "leased", !.owner = o, !.attempts = n, !.expires = "later"]
  BY DEF Taken
<1> HIDE DEF n
<1>3. [r EXCEPT !.state = "leased", !.owner = o, !.attempts = n, !.expires = "later"] \in Row
  BY <1>1, Zenon DEF Row, Live, Terminal
<1> QED BY <1>2, <1>3, Zenon DEF Row, n

\* Renewals and the passing of time keep the shape of a row.
LEMMA ClockType ==
    ASSUME NEW r \in Row
    PROVE  /\ Renewed(r) \in Row
           /\ [r EXCEPT !.expires = "past"] \in Row
           /\ [r EXCEPT !.after = "past"] \in Row
  BY DEF Renewed, Row

\* Each change of a worker's local state keeps its shape.
LEMMA WorkerType ==
    /\ Idle \in Worker
    /\ [Idle EXCEPT !.pc = "gone"] \in Worker
    /\ \A w \in Worker : /\ [w EXCEPT !.beat = "lost"] \in Worker
                         /\ [w EXCEPT !.pc = "record"] \in Worker
                         /\ \A outcome \in Outcomes :
                               [w EXCEPT !.pc = "confirm", !.outcome = outcome] \in Worker
  BY DEF Idle, Worker, Outcomes

\* Recording an outcome (complete, fail) keeps the shape of a row.
LEMMA RecordedType ==
    ASSUME NEW r \in Row, NEW w \in Worker
    PROVE  Recorded(r, w) \in Row
  BY DEF Recorded, Row, Live, Terminal, Worker, Outcomes

\* Reaping changes no row that is not an expired lease, and never a key.
LEMMA ReapedFacts ==
    ASSUME NEW r \in Row
    PROVE  /\ Reaped(r).key = r.key
           /\ Reaped(r).attempts = r.attempts
           /\ Reaped(r).state = "leased" => Reaped(r) = r
           /\ Reaped(r).state \in Live <=> r.state \in Live
           /\ r.state \notin Live => Reaped(r) = r
  BY DEF Reaped, Expired, Row, Live, Terminal

\* A renewal moves only the expiry.
LEMMA RenewedFacts ==
    ASSUME NEW r \in Row
    PROVE  /\ Renewed(r).state = r.state
           /\ Renewed(r).owner = r.owner
           /\ Renewed(r).key = r.key
           /\ Renewed(r).attempts = r.attempts
  BY Zenon DEF Renewed, Row

\* A recorded outcome ends the lease and keeps the key.
LEMMA RecordedFacts ==
    ASSUME NEW r \in Row, NEW w \in Worker
    PROVE  /\ Recorded(r, w).state \in {"succeeded", "dead", "retry"}
           /\ Recorded(r, w).key = r.key
  BY DEF Recorded, Row

\* Every row and every worker keeps its shape (queue.ts, leased-job.ts).
THEOREM Typed == Spec => []TypeOK
<1>1. Init => TypeOK
  BY QueueAssumption DEF Init, TypeOK, NoRow, Idle, Row, Worker, Live, Terminal, Outcomes
<1>2. TypeOK /\ [Next]_vars => TypeOK'
  <2> SUFFICES ASSUME TypeOK, [Next]_vars PROVE TypeOK'
    OBVIOUS
  <2> USE DEF TypeOK
  <2>1. ASSUME NEW k \in Keys, Enqueue(k) PROVE TypeOK'
    BY <2>1 DEF Enqueue, Fresh, Row, Live
  <2>2. ASSUME NEW k \in Keys, EnqueueOnce(k) PROVE TypeOK'
    BY <2>2 DEF EnqueueOnce, Fresh, Row, Live
  <2>3. ASSUME NEW o \in Owners, NEW j \in Jobs, Lease(o, j) PROVE TypeOK'
    <3>1. \A i \in Jobs : Reaped(row[i]) \in Row
      BY ReapedType
    <3>2. row' \in [Jobs -> Row]
      BY <2>3, <3>1, TakenType DEF Lease
    <3>3. worker' \in [Owners -> Worker]
      BY <2>3 DEF Lease, Worker, Row, Outcomes
    <3> QED BY <2>3, <3>2, <3>3 DEF Lease
  <2>4. ASSUME NEW o \in Owners, Heartbeat(o) PROVE TypeOK'
    <3>1. \A j \in Jobs : Renewed(row[j]) \in Row
      BY ClockType
    <3>2. row' \in [Jobs -> Row]
      BY <2>4, <3>1 DEF Heartbeat
    <3>3. worker' \in [Owners -> Worker]
      <4>1. worker[o] \in Worker /\ [worker[o] EXCEPT !.beat = "lost"] \in Worker
        BY WorkerType
      <4> QED BY <2>4, <4>1 DEF Heartbeat
    <3> QED BY <2>4, <3>2, <3>3 DEF Heartbeat
  <2>5. ASSUME NEW o \in Owners, NEW outcome \in Outcomes, DispatchEnds(o, outcome) PROVE TypeOK'
    BY <2>5, WorkerType DEF DispatchEnds
  <2>6. ASSUME NEW o \in Owners, Confirm(o) PROVE TypeOK'
    <3>1. \A j \in Jobs : Renewed(row[j]) \in Row
      BY ClockType
    <3>2. row' \in [Jobs -> Row]
      BY <2>6, <3>1 DEF Confirm
    <3>3. worker' \in [Owners -> Worker]
      <4>1. Idle \in Worker /\ [worker[o] EXCEPT !.pc = "record"] \in Worker
        BY WorkerType
      <4> QED BY <2>6, <4>1 DEF Confirm
    <3> QED BY <2>6, <3>2, <3>3 DEF Confirm
  <2>7. ASSUME NEW o \in Owners, Record(o) PROVE TypeOK'
    <3>1. worker[o] \in Worker
      OBVIOUS
    <3>2. \A j \in Jobs : Recorded(row[j], worker[o]) \in Row
      BY <3>1, RecordedType
    <3>3. row' \in [Jobs -> Row]
      BY <2>7, <3>2 DEF Record
    <3>4. worker' \in [Owners -> Worker]
      BY <2>7, WorkerType DEF Record
    <3> QED BY <2>7, <3>3, <3>4 DEF Record
  <2>8. ASSUME NEW o \in Owners, Crash(o) PROVE TypeOK'
    BY <2>8, WorkerType DEF Crash
  <2>9. ASSUME NEW j \in Jobs, LeaseRunsOut(j) \/ BackoffEnds(j) PROVE TypeOK'
    <3>1. /\ [row[j] EXCEPT !.expires = "past"] \in Row
          /\ [row[j] EXCEPT !.after = "past"] \in Row
      BY ClockType
    <3> QED BY <2>9, <3>1 DEF LeaseRunsOut, BackoffEnds
  <2>10. ASSUME NEW j \in Jobs, Cleanup(j) PROVE TypeOK'
    BY <2>10 DEF Cleanup, NoRow, Row
  <2>11. ASSUME NEW k \in Keys, WindowEnds(k) PROVE TypeOK'
    BY <2>11 DEF WindowEnds
  <2>12. CASE UNCHANGED vars
    BY <2>12 DEF vars
  <2> QED
    BY <2>1, <2>2, <2>3, <2>4, <2>5, <2>6, <2>7, <2>8, <2>9, <2>10, <2>11, <2>12
    DEF Next, RunStep, Clock
<1> QED BY <1>1, <1>2, PTL DEF Spec

\* A row's lease and the worker it names agree in every reachable state, whatever
\* leases, heartbeats, crashes and reapings interleave (lease, renew, transition).
THEOREM LeaseInvariance == Spec => []LeaseInv
<1>1. Init => LeaseInv
  BY DEF Init, LeaseInv, NoRow
<1>2. TypeOK /\ LeaseInv /\ [Next]_vars => LeaseInv'
  <2> SUFFICES ASSUME TypeOK, LeaseInv, [Next]_vars,
                      NEW i \in Jobs, row'[i].state = "leased"
               PROVE  HeldBy(i, row[i].owner)'
    BY DEF LeaseInv
  <2> USE DEF TypeOK, Busy
  <2>0. row[i] \in Row
    OBVIOUS
  <2>1. ASSUME NEW k \in Keys, Enqueue(k) \/ EnqueueOnce(k)
        PROVE  HeldBy(i, row[i].owner)'
    BY <2>1 DEF Enqueue, EnqueueOnce, Fresh, LeaseInv, HeldBy
  <2>2. ASSUME NEW o \in Owners, NEW j \in Jobs, Lease(o, j)
        PROVE  HeldBy(i, row[i].owner)'
    <3>1. CASE i = j
      <4>1. row'[i] = Taken(row[i], o)
        BY <2>2, <3>1 DEF Lease
      <4>2. row'[i].owner = o /\ row'[i].attempts = row[i].attempts + 1
        BY <4>1, <2>0, TakenType
      <4>3. /\ worker'[o].pc = "dispatch" /\ worker'[o].job = i
            /\ worker'[o].attempt = row[i].attempts + 1 /\ worker'[o].beat = "held"
        BY <2>2, <3>1 DEF Lease
      <4> QED BY <4>2, <4>3 DEF HeldBy
    <3>2. CASE i # j
      <4>1. row'[i] = Reaped(row[i])
        BY <2>2, <3>2 DEF Lease
      <4>2. row'[i] = row[i]
        BY <4>1, <2>0, ReapedFacts
      <4>3. HeldBy(i, row[i].owner)
        BY <4>2 DEF LeaseInv
      <4>4. worker[o].pc = "idle" /\ row[i].owner # o
        BY <2>2, <4>3 DEF Lease, HeldBy
      <4>5. worker'[row[i].owner] = worker[row[i].owner]
        BY <2>2, <4>3, <4>4 DEF Lease, HeldBy
      <4> QED BY <4>2, <4>3, <4>5 DEF HeldBy
    <3> QED BY <3>1, <3>2
  <2>3. ASSUME NEW o \in Owners, Heartbeat(o)
        PROVE  HeldBy(i, row[i].owner)'
    <3>1. row'[i].state = row[i].state /\ row'[i].owner = row[i].owner /\ row'[i].attempts = row[i].attempts
      BY <2>3, <2>0, RenewedFacts DEF Heartbeat
    <3>2. HeldBy(i, row[i].owner)
      BY <3>1 DEF LeaseInv
    <3>3. CASE UNCHANGED worker
      BY <3>1, <3>2, <3>3 DEF HeldBy
    <3>4. CASE ~Holds(o, worker[o].job) /\ worker' = [worker EXCEPT ![o] = [@ EXCEPT !.beat = "lost"]]
      <4>1. row[i].owner # o
        BY <3>1, <3>2, <3>4, <2>3 DEF HeldBy, Holds, Heartbeat
      <4> QED BY <3>1, <3>2, <3>4, <4>1 DEF HeldBy
    <3> QED BY <2>3, <3>3, <3>4 DEF Heartbeat
  <2>4. ASSUME NEW o \in Owners, NEW outcome \in Outcomes, DispatchEnds(o, outcome)
        PROVE  HeldBy(i, row[i].owner)'
    <3>1. HeldBy(i, row[i].owner) /\ row' = row
      BY <2>4 DEF LeaseInv, DispatchEnds
    <3>2. /\ worker'[o].pc = "confirm" /\ worker'[o].job = worker[o].job
          /\ worker'[o].attempt = worker[o].attempt /\ worker'[o].beat = worker[o].beat
      BY <2>4, Zenon DEF DispatchEnds, Worker
    <3>3. \A p \in Owners \ {o} : worker'[p] = worker[p]
      BY <2>4 DEF DispatchEnds
    <3> QED BY <2>4, <3>1, <3>2, <3>3 DEF HeldBy, DispatchEnds
  <2>5. ASSUME NEW o \in Owners, Confirm(o)
        PROVE  HeldBy(i, row[i].owner)'
    <3>1. row'[i].state = row[i].state /\ row'[i].owner = row[i].owner /\ row'[i].attempts = row[i].attempts
      BY <2>5, <2>0, RenewedFacts DEF Confirm
    <3>2. HeldBy(i, row[i].owner)
      BY <3>1 DEF LeaseInv
    <3>3. CASE worker' = [worker EXCEPT ![o] = [@ EXCEPT !.pc = "record"]]
      BY <2>5, <3>1, <3>2, <3>3 DEF HeldBy, Confirm
    <3>4. CASE (worker[o].beat = "lost" \/ ~Holds(o, worker[o].job)) /\ worker' = [worker EXCEPT ![o] = Idle]
      <4>1. row[i].owner # o
        BY <2>5, <3>1, <3>2, <3>4 DEF HeldBy, Holds, Confirm
      <4> QED BY <3>1, <3>2, <3>4, <4>1 DEF HeldBy
    <3> QED BY <2>5, <3>3, <3>4 DEF Confirm
  <2>6. ASSUME NEW o \in Owners, Record(o)
        PROVE  HeldBy(i, row[i].owner)'
    <3>1. worker[o].pc = "record" /\ worker[o] \in Worker
      BY <2>6 DEF Record
    <3>2. row'[i] = row[i]
      BY <2>6, <2>0, <3>1, RecordedFacts DEF Record
    <3>3. HeldBy(i, row[i].owner)
      BY <3>2 DEF LeaseInv
    <3>4. row[i].owner # o
      BY <2>6, <2>0, <3>1, <3>2, <3>3, RecordedFacts DEF HeldBy, Holds, Record
    <3> QED BY <2>6, <3>2, <3>3, <3>4 DEF HeldBy, Record
  <2>7. ASSUME NEW o \in Owners, Crash(o)
        PROVE  HeldBy(i, row[i].owner)'
    <3>1. worker'[o].pc = "gone"
      BY <2>7 DEF Crash, Idle
    <3> QED BY <2>7, <3>1 DEF HeldBy, LeaseInv, Crash
  <2>8. ASSUME NEW j \in Jobs, LeaseRunsOut(j) \/ BackoffEnds(j) \/ Cleanup(j)
        PROVE  HeldBy(i, row[i].owner)'
    <3>1. row'[i].state = row[i].state /\ row'[i].owner = row[i].owner /\ row'[i].attempts = row[i].attempts
      <4>1. CASE i # j
        BY <2>8, <4>1 DEF LeaseRunsOut, BackoffEnds, Cleanup
      <4>2. CASE i = j /\ ~Cleanup(j)
        <5>1. \/ row'[i] = [row[i] EXCEPT !.expires = "past"]
              \/ row'[i] = [row[i] EXCEPT !.after = "past"]
          BY <2>8, <4>2 DEF LeaseRunsOut, BackoffEnds
        <5> QED BY <2>0, <5>1, Zenon DEF Row
      <4>3. ~(i = j /\ Cleanup(j))
        BY DEF Cleanup, NoRow
      <4> QED BY <4>1, <4>2, <4>3
    <3> QED BY <2>8, <3>1 DEF HeldBy, LeaseInv, LeaseRunsOut, BackoffEnds, Cleanup
  <2>9. CASE UNCHANGED <<row, worker>>
    BY <2>9 DEF HeldBy, LeaseInv
  <2> QED
    BY <2>1, <2>2, <2>3, <2>4, <2>5, <2>6, <2>7, <2>8, <2>9
    DEF Next, RunStep, Clock, vars, WindowEnds
<1> QED BY <1>1, <1>2, Typed, PTL DEF Spec

\* While a worker's lease is current, the attempt count it will report is the row's.
THEOREM AttemptsAgree == Spec => []AttemptIsCurrent
<1>1. LeaseInv => AttemptIsCurrent
  BY DEF LeaseInv, HeldBy, AttemptIsCurrent, Holds, Busy
<1> QED BY <1>1, LeaseInvariance, PTL

\* No lease is orphaned while its worker lives on.
THEOREM LeasesHaveRunners == Spec => []LeaseHasRunner
<1>1. LeaseInv => LeaseHasRunner
  BY DEF LeaseInv, HeldBy, LeaseHasRunner, Busy
<1> QED BY <1>1, LeaseInvariance, PTL

-----------------------------------------------------------------------------
(* The rows as the rest of the server sees them.                           *)

\* A step that neither opens, closes nor forgets a row.
Quiet == \A i \in Jobs : Phase(row[i])' = Phase(row[i]) /\ row'[i].key = row[i].key

\* A step that closes row j with a verdict and touches no other row.
Closes(j, verdict) ==
    /\ row[j].state = "leased"
    /\ row'[j].state = verdict
    /\ row'[j].key = row[j].key
    /\ \A i \in Jobs \ {j} : row'[i] = row[i]

\* The row operators keep a row's key, and all but Recorded its phase.
LEMMA PhaseFacts ==
    ASSUME NEW r \in Row, NEW o \in Owners
    PROVE  /\ Phase(Reaped(r)) = Phase(r)
           /\ Phase(Renewed(r)) = Phase(r)
           /\ Leasable(Reaped(r)) => Phase(Taken(r, o)) = Phase(r)
<1>1. Phase(Reaped(r)) = Phase(r)
  BY ReapedFacts, Zenon DEF Phase, Live, Reaped, Expired, Row
<1>2. Phase(Renewed(r)) = Phase(r)
  BY RenewedFacts DEF Phase
<1>3. ASSUME Leasable(Reaped(r)) PROVE Phase(Taken(r, o)) = Phase(r)
  <2>1. Reaped(r).state \in {"pending", "retry"}
    BY <1>3 DEF Leasable
  <2>2. r.state \in Live
    BY <2>1, ReapedFacts DEF Live
  <2> QED BY <2>2, TakenType DEF Phase, Live
<1> QED BY <1>1, <1>2, <1>3

\* Time passing keeps a row's phase and key.
LEMMA ClockFacts ==
    ASSUME NEW r \in Row
    PROVE  /\ Phase([r EXCEPT !.expires = "past"]) = Phase(r)
           /\ Phase([r EXCEPT !.after = "past"]) = Phase(r)
           /\ [r EXCEPT !.expires = "past"].key = r.key
           /\ [r EXCEPT !.after = "past"].key = r.key
  BY Zenon DEF Phase, Row

\* Every step opens one row, closes one leased row, forgets one or is quiet.
LEMMA StepKinds ==
    ASSUME TypeOK, [Next]_vars
    PROVE  \/ \E k \in Keys : Enqueue(k) \/ EnqueueOnce(k)
           \/ \E j \in Jobs : Cleanup(j)
           \/ \E j \in Jobs, verdict \in Terminal :
                 Closes(j, verdict) /\ UNCHANGED <<closed, created>>
           \/ Quiet /\ closed \subseteq closed' /\ UNCHANGED created
<1> USE DEF TypeOK
<1>1. ASSUME NEW o \in Owners, NEW j \in Jobs, Lease(o, j) PROVE Quiet
  <2> SUFFICES ASSUME NEW i \in Jobs
               PROVE  Phase(row'[i]) = Phase(row[i]) /\ row'[i].key = row[i].key
    BY DEF Quiet, Phase
  <2>1. row[i] \in Row
    OBVIOUS
  <2>2. row'[i] = IF i = j THEN Taken(row[i], o) ELSE Reaped(row[i])
    BY <1>1 DEF Lease
  <2>3. i = j => Leasable(Reaped(row[i]))
    BY <1>1 DEF Lease
  <2> QED BY <2>1, <2>2, <2>3, PhaseFacts, TakenType, ReapedFacts
<1>2. ASSUME NEW o \in Owners, Heartbeat(o) \/ Confirm(o) PROVE Quiet
  <2> SUFFICES ASSUME NEW i \in Jobs
               PROVE  Phase(row'[i]) = Phase(row[i]) /\ row'[i].key = row[i].key
    BY DEF Quiet, Phase
  <2>1. row[i] \in Row
    OBVIOUS
  <2>2. row'[i] = row[i] \/ row'[i] = Renewed(row[i])
    BY <1>2 DEF Heartbeat, Confirm
  <2> QED BY <2>1, <2>2, PhaseFacts, RenewedFacts
<1>3. ASSUME UNCHANGED row PROVE Quiet
  BY <1>3 DEF Quiet, Phase
<1>4. ASSUME NEW o \in Owners, Record(o)
      PROVE  Quiet \/ \E j \in Jobs, verdict \in Terminal : Closes(j, verdict)
  <2> DEFINE j == worker[o].job
  <2>1. CASE j \notin Jobs \/ ~Holds(o, j)
    BY <1>4, <2>1, <1>3 DEF Record
  <2>2. CASE j \in Jobs /\ Holds(o, j)
    <3>1. row[j] \in Row /\ worker[o] \in Worker
      BY <2>2
    <3>2. row'[j] = Recorded(row[j], worker[o]) /\ \A i \in Jobs \ {j} : row'[i] = row[i]
      BY <1>4, <2>2 DEF Record
    <3>3. row'[j].state \in {"succeeded", "dead", "retry"} /\ row'[j].key = row[j].key
      BY <3>1, <3>2, RecordedFacts
    <3>4. CASE row'[j].state = "retry"
      BY <2>2, <3>2, <3>3, <3>4 DEF Quiet, Phase, Live, Holds
    <3>5. CASE row'[j].state \in Terminal
      BY <2>2, <3>2, <3>3, <3>5 DEF Closes, Holds
    <3> QED BY <3>3, <3>4, <3>5 DEF Terminal
  <2> QED BY <2>1, <2>2
<1>5. ASSUME NEW j \in Jobs, LeaseRunsOut(j) \/ BackoffEnds(j) PROVE Quiet
  <2> SUFFICES ASSUME NEW i \in Jobs
               PROVE  Phase(row'[i]) = Phase(row[i]) /\ row'[i].key = row[i].key
    BY DEF Quiet, Phase
  <2>1. row[i] \in Row
    OBVIOUS
  <2>2. \/ row'[i] = row[i]
        \/ row'[i] = [row[i] EXCEPT !.expires = "past"]
        \/ row'[i] = [row[i] EXCEPT !.after = "past"]
    BY <1>5 DEF LeaseRunsOut, BackoffEnds
  <2> QED BY <2>1, <2>2, ClockFacts
<1>6. ASSUME NEW o \in Owners, (\E j \in Jobs : Lease(o, j)) \/ RunStep(o) \/ Heartbeat(o) \/ Crash(o)
      PROVE  UNCHANGED <<closed, created>>
  BY <1>6 DEF Lease, RunStep, DispatchEnds, Confirm, Record, Heartbeat, Crash
<1> QED
  BY <1>1, <1>2, <1>3, <1>4, <1>5, <1>6
  DEF Next, RunStep, Clock, DispatchEnds, Crash, WindowEnds, LeaseRunsOut, BackoffEnds, vars

\* The partial unique index and the conditional transitions keep every key to at
\* most one live row (enqueue, enqueueOnce, lease, transition, cleanup).
THEOREM KeysStayUnique == Spec => []OneLivePerKey
<1> DEFINE Open(i) == Phase(row[i]) = "open"
<1>0. ASSUME TypeOK
      PROVE  OneLivePerKey <=> \A i, j \in Jobs : Open(i) /\ Open(j) /\ row[i].key = row[j].key => i = j
  <2>1. \A i \in Jobs : Open(i) <=> row[i].state \in Live
    <3> SUFFICES ASSUME NEW i \in Jobs PROVE Open(i) <=> row[i].state \in Live
      OBVIOUS
    <3>1. row[i].state \in Live \cup Terminal \cup {"absent"}
      BY <1>0 DEF TypeOK, Row
    <3> QED BY <3>1 DEF Phase, Live, Terminal
  <2> QED BY <2>1 DEF OneLivePerKey
<1>1. Init => OneLivePerKey
  BY DEF Init, OneLivePerKey, NoRow, Live
<1>2. TypeOK /\ TypeOK' /\ OneLivePerKey /\ [Next]_vars => OneLivePerKey'
  <2> SUFFICES ASSUME TypeOK, TypeOK', OneLivePerKey, [Next]_vars PROVE OneLivePerKey'
    OBVIOUS
  <2>1. ASSUME NEW k \in Keys, Enqueue(k) \/ EnqueueOnce(k) PROVE OneLivePerKey'
    <3>1. PICK j \in Jobs : row[j].state = "absent" /\ row' = [row EXCEPT ![j] = Fresh(k)]
      BY <2>1 DEF Enqueue, EnqueueOnce
    <3>2. \A i \in Jobs : row[i].key = k => row[i].state \notin Live
      <4>1. CASE Enqueue(k)
        BY <4>1 DEF Enqueue, LiveWith
      <4>2. CASE EnqueueOnce(k)
        BY <4>2 DEF EnqueueOnce, RetainedWith, Live
      <4> QED BY <2>1, <4>1, <4>2
    <3>3. row'[j].key = k /\ \A i \in Jobs \ {j} : row'[i] = row[i]
      BY <3>1 DEF TypeOK, Fresh
    <3> QED BY <3>2, <3>3 DEF OneLivePerKey
  <2>2. ASSUME NEW j \in Jobs, Cleanup(j) PROVE OneLivePerKey'
    <3>1. row'[j].state = "absent" /\ \A i \in Jobs \ {j} : row'[i] = row[i]
      BY <2>2 DEF TypeOK, Cleanup, NoRow
    <3> QED BY <3>1 DEF OneLivePerKey, Live
  <2>3. ASSUME NEW j \in Jobs, NEW verdict \in Terminal, Closes(j, verdict) PROVE OneLivePerKey'
    BY <2>3 DEF OneLivePerKey, Closes, Live, Terminal
  <2>4. CASE Quiet
    <3>1. \A i \in Jobs : (Open(i)' <=> Open(i)) /\ row'[i].key = row[i].key
      BY <2>4 DEF Quiet, Phase
    <3>2. \A i, j \in Jobs : Open(i) /\ Open(j) /\ row[i].key = row[j].key => i = j
      BY <1>0
    <3>3. (\A i, j \in Jobs : Open(i) /\ Open(j) /\ row[i].key = row[j].key => i = j)'
      BY <3>1, <3>2
    <3>4. \A i \in Jobs : row'[i].state \in Live => Open(i)'
      BY DEF Phase, Live
    <3> QED BY <3>3, <3>4 DEF OneLivePerKey
  <2> QED BY <2>1, <2>2, <2>3, <2>4, StepKinds
<1> QED BY <1>1, <1>2, Typed, PTL DEF Spec

\* An outcome is written only by the lease's holder, about the attempt it ran, and
\* is never changed (transition, cleanup).
THEOREM HolderDecides == Spec => OutcomeFromHolder
<1> DEFINE Step(j) ==
      /\ row[j].state \in Terminal => row'[j] = row[j] \/ row'[j] = NoRow
      /\ row[j].state # row'[j].state /\ row'[j].state \in Terminal =>
            \E o \in Owners : /\ worker[o].pc = "record"
                              /\ worker[o].job = j
                              /\ Holds(o, j)
                              /\ worker[o].attempt = row[j].attempts
<1>1. TypeOK /\ AttemptIsCurrent /\ [Next]_vars => \A j \in Jobs : Step(j)
  <2> SUFFICES ASSUME TypeOK, AttemptIsCurrent, [Next]_vars, NEW j \in Jobs PROVE Step(j)
    OBVIOUS
  <2> USE DEF TypeOK
  <2>0. row[j] \in Row
    OBVIOUS
  <2>1. ASSUME row'[j] = row[j] PROVE Step(j)
    BY <2>1
  <2>2. ASSUME row[j].state \notin Terminal, row'[j].state \notin Terminal PROVE Step(j)
    BY <2>2
  <2>3. ASSUME NEW k \in Keys, Enqueue(k) \/ EnqueueOnce(k) PROVE Step(j)
    <3>1. row'[j] = row[j] \/ (row[j].state = "absent" /\ row'[j] = Fresh(k))
      BY <2>3 DEF Enqueue, EnqueueOnce
    <3> QED BY <3>1 DEF Fresh, Terminal
  <2>4. ASSUME NEW o \in Owners, NEW i \in Jobs, Lease(o, i) PROVE Step(j)
    <3>1. CASE i = j
      <4>1. row'[j] = Taken(row[j], o) /\ Leasable(Reaped(row[j]))
        BY <2>4, <3>1 DEF Lease
      <4>2. row'[j].state = "leased" /\ Reaped(row[j]).state \in Live
        BY <2>0, <4>1, TakenType DEF Leasable, Live
      <4>3. row[j].state \in Live
        BY <2>0, <4>2, ReapedFacts
      <4> QED BY <4>2, <4>3, <2>2 DEF Live, Terminal
    <3>2. CASE i # j
      <4>1. row'[j] = Reaped(row[j])
        BY <2>4, <3>2 DEF Lease
      <4>2. row[j].state \in Live => row'[j].state \in Live
        BY <2>0, <4>1, ReapedFacts
      <4>3. row[j].state \notin Live => row'[j] = row[j]
        BY <2>0, <4>1, ReapedFacts
      <4> QED BY <4>2, <4>3, <2>1, <2>2 DEF Live, Terminal
    <3> QED BY <3>1, <3>2
  <2>5. ASSUME NEW o \in Owners, Heartbeat(o) \/ Confirm(o) PROVE Step(j)
    <3>1. row'[j] = row[j] \/ (Holds(o, j) /\ row'[j] = Renewed(row[j]))
      BY <2>5 DEF Heartbeat, Confirm
    <3> QED BY <2>0, <2>1, <2>2, <3>1, RenewedFacts DEF Holds, Terminal
  <2>6. ASSUME NEW o \in Owners, Record(o) PROVE Step(j)
    <3>1. CASE worker[o].job = j /\ Holds(o, j)
      BY <2>6, <3>1 DEF Record, AttemptIsCurrent, Holds, Terminal
    <3>2. CASE ~(worker[o].job = j /\ Holds(o, j))
      BY <2>6, <3>2, <2>1 DEF Record
    <3> QED BY <3>1, <3>2
  <2>7. ASSUME NEW i \in Jobs, Cleanup(i) PROVE Step(j)
    BY <2>7 DEF Cleanup, NoRow, Terminal
  <2>8. ASSUME NEW i \in Jobs, LeaseRunsOut(i) \/ BackoffEnds(i) PROVE Step(j)
    <3>1. \/ row'[j] = row[j]
          \/ row[j].state = "leased" /\ row'[j] = [row[j] EXCEPT !.expires = "past"]
          \/ row[j].state = "retry" /\ row'[j] = [row[j] EXCEPT !.after = "past"]
      BY <2>8 DEF LeaseRunsOut, BackoffEnds
    <3>2. row'[j] = row[j] \/ (row[j].state \in {"leased", "retry"} /\ row'[j].state = row[j].state)
      BY <2>0, <3>1, Zenon DEF Row
    <3> QED BY <2>1, <2>2, <3>2 DEF Terminal
  <2> QED
    BY <2>1, <2>3, <2>4, <2>5, <2>6, <2>7, <2>8
    DEF Next, RunStep, Clock, DispatchEnds, Crash, WindowEnds, vars
<1> QED BY <1>1, Typed, AttemptsAgree, PTL DEF Spec, OutcomeFromHolder

\* Why a window's job is not recreated: its row is retained until the window is over.
WindowInv ==
    \A k \in OnceKeys :
        \/ created[k] = 0
        \/ created[k] = 1 /\ (k \in closed \/ \E j \in Jobs : row[j].key = k /\ row[j].state # "absent")

\* enqueueOnce inserts at most one row per window, across replicas, crashes and
\* the retention sweep (enqueueOnce, cleanup).
THEOREM WindowsRunOnce == Spec => []WindowRunsOnce
<1>1. Init => WindowInv
  BY DEF Init, WindowInv
<1>2. TypeOK /\ TypeOK' /\ WindowInv /\ [Next]_vars => WindowInv'
  <2> SUFFICES ASSUME TypeOK, TypeOK', WindowInv, [Next]_vars PROVE WindowInv'
    OBVIOUS
  <2>0. ASSUME UNCHANGED created, closed \subseteq closed',
               \A j \in Jobs : row[j].state # "absent" =>
                   row'[j].state # "absent" /\ row'[j].key = row[j].key
        PROVE  WindowInv'
    BY <2>0 DEF WindowInv
  <2>1. ASSUME NEW k \in Keys, Enqueue(k) PROVE WindowInv'
    <3>1. PICK j \in Jobs : row[j].state = "absent" /\ row' = [row EXCEPT ![j] = Fresh(k)]
      BY <2>1 DEF Enqueue
    <3>2. \A i \in Jobs \ {j} : row'[i] = row[i]
      BY <3>1 DEF TypeOK
    <3> QED BY <2>0, <2>1, <3>1, <3>2 DEF Enqueue
  <2>2. ASSUME NEW k \in Keys, EnqueueOnce(k) PROVE WindowInv'
    <3>1. PICK j \in Jobs : row[j].state = "absent" /\ row' = [row EXCEPT ![j] = Fresh(k)]
      BY <2>2 DEF EnqueueOnce
    <3>2. row'[j].key = k /\ row'[j].state = "pending"
      BY <3>1 DEF TypeOK, Fresh
    <3>3. \A i \in Jobs : row[i].state # "absent" => row'[i] = row[i]
      BY <3>1 DEF TypeOK
    <3>4. k \in OnceKeys /\ k \notin closed /\ closed' = closed /\ created' = [created EXCEPT ![k] = @ + 1]
      BY <2>2 DEF EnqueueOnce
    <3>5. created[k] = 0
      BY <2>2, <3>4 DEF WindowInv, EnqueueOnce, RetainedWith
    <3>6. created'[k] = 1 /\ \A q \in OnceKeys \ {k} : created'[q] = created[q]
      BY <3>4, <3>5 DEF TypeOK
    <3>7. \A q \in OnceKeys \ {k} : (created[q] = 0 \/ (created[q] = 1 /\
              (q \in closed \/ \E i \in Jobs : row'[i].key = q /\ row'[i].state # "absent")))
      BY <3>3 DEF WindowInv
    <3> QED BY <3>2, <3>4, <3>6, <3>7 DEF WindowInv
  <2>3. ASSUME NEW j \in Jobs, Cleanup(j) PROVE WindowInv'
    <3>1. \A i \in Jobs \ {j} : row'[i] = row[i]
      BY <2>3 DEF Cleanup, TypeOK
    <3>2. closed' = closed /\ created' = created /\ (row[j].key \in OnceKeys => row[j].key \in closed)
      BY <2>3 DEF Cleanup
    <3> QED BY <3>1, <3>2 DEF WindowInv
  <2>4. ASSUME NEW j \in Jobs, NEW verdict \in Terminal,
               Closes(j, verdict), UNCHANGED <<closed, created>>
        PROVE  WindowInv'
    <3>1. \A i \in Jobs : row[i].state # "absent" =>
              row'[i].state # "absent" /\ row'[i].key = row[i].key
      BY <2>4 DEF Closes, Terminal
    <3> QED BY <2>0, <2>4, <3>1
  <2>5. ASSUME Quiet, closed \subseteq closed', UNCHANGED created PROVE WindowInv'
    <3>1. \A i \in Jobs : row[i].state # "absent" =>
              row'[i].state # "absent" /\ row'[i].key = row[i].key
      <4> SUFFICES ASSUME NEW i \in Jobs, row[i].state # "absent"
                   PROVE  row'[i].state # "absent" /\ row'[i].key = row[i].key
        OBVIOUS
      <4>1. row[i].state \in Live \cup Terminal
        BY DEF TypeOK, Row
      <4>2. Phase(row[i]) # "none" /\ Phase(row'[i]) = Phase(row[i])
        BY <2>5, <4>1 DEF Phase, Quiet, Live, Terminal
      <4> QED BY <2>5, <4>2 DEF Phase, Quiet
    <3> QED BY <2>0, <2>5, <3>1
  <2> QED BY <2>1, <2>2, <2>3, <2>4, <2>5, StepKinds
<1>3. TypeOK /\ WindowInv => WindowRunsOnce
  BY DEF WindowInv, WindowRunsOnce
<1> QED BY <1>1, <1>2, <1>3, Typed, PTL DEF Spec

\* Workers, leases, crashes and the sweep implement the abstract job table: every
\* initial state maps to an initial state and every step to a step or a stutter.
THEOREM QueueImplementsContract == Spec => ImplementsContract
<1>1. Init => Contract!Init
  BY DEF Init, Contract!Init, NoRow, Phase
<1>2. TypeOK /\ TypeOK' /\ [Next]_vars => [Contract!Next]_(Contract!vars)
  <2> SUFFICES ASSUME TypeOK, TypeOK', [Next]_vars
               PROVE  Contract!Next \/ UNCHANGED Contract!vars
    OBVIOUS
  <2> DEFINE ph == [j \in Jobs |-> Phase(row[j])]
             un == [j \in Jobs |-> row[j].key]
  <2>1. ASSUME NEW k \in Keys, Enqueue(k) \/ EnqueueOnce(k) PROVE Contract!Next
    <3>1. PICK j \in Jobs : row[j].state = "absent" /\ row' = [row EXCEPT ![j] = Fresh(k)]
      BY <2>1 DEF Enqueue, EnqueueOnce
    <3>2. \A i \in Jobs : row[i].key = k => row[i].state \notin Live
      <4>1. CASE Enqueue(k)
        BY <4>1 DEF Enqueue, LiveWith
      <4>2. CASE EnqueueOnce(k)
        BY <4>2 DEF EnqueueOnce, RetainedWith, Live
      <4> QED BY <2>1, <4>1, <4>2
    <3>3. \A i \in Jobs : row[i].state \in Live \cup Terminal \cup {"absent"}
      BY DEF TypeOK, Row
    <3>4. \A i \in Jobs : ~(ph[i] = "open" /\ un[i] = k)
      BY <3>2, <3>3 DEF Phase, Live, Terminal
    <3>5. row'[j].key = k /\ row'[j].state = "pending" /\ \A i \in Jobs \ {j} : row'[i] = row[i]
      BY <3>1 DEF TypeOK, Fresh
    <3>6. ph' = [ph EXCEPT ![j] = "open"] /\ un' = [un EXCEPT ![j] = k]
      BY <3>5 DEF Phase, Live
    <3>7. ph[j] = "none"
      BY <3>1 DEF Phase
    <3>8. Contract!Open(j, k)
      BY <3>4, <3>6, <3>7 DEF Contract!Open
    <3> QED BY <3>8 DEF Contract!Next
  <2>2. ASSUME NEW j \in Jobs, Cleanup(j) PROVE Contract!Next
    <3>1. row[j].state \in Terminal /\ row'[j] = NoRow /\ \A i \in Jobs \ {j} : row'[i] = row[i]
      BY <2>2 DEF Cleanup, TypeOK
    <3>2. ph[j] \in {"succeeded", "dead"}
      BY <3>1 DEF Phase, Live, Terminal
    <3>3. ph' = [ph EXCEPT ![j] = "none"] /\ un' = [un EXCEPT ![j] = NoKey]
      <4>1. Phase(row'[j]) = "none" /\ row'[j].key = NoKey
        BY <3>1 DEF Phase, NoRow
      <4> QED BY <3>1, <4>1
    <3>4. Contract!Forget(j)
      BY <3>2, <3>3 DEF Contract!Forget
    <3> QED BY <3>4 DEF Contract!Next
  <2>3. ASSUME NEW j \in Jobs, NEW verdict \in Terminal, Closes(j, verdict) PROVE Contract!Next
    <3>1. ph[j] = "open" /\ Phase(row'[j]) = verdict
      BY <2>3 DEF Closes, Phase, Live, Terminal
    <3>2. ph' = [ph EXCEPT ![j] = verdict] /\ un' = un
      BY <2>3, <3>1 DEF Closes
    <3>3. Contract!Close(j, verdict)
      BY <3>1, <3>2 DEF Contract!Close
    <3> QED BY <3>3 DEF Contract!Next, Terminal
  <2>4. ASSUME Quiet PROVE UNCHANGED Contract!vars
    <3>1. ph' = ph /\ un' = un
      BY <2>4 DEF Quiet
    <3> QED BY <3>1 DEF Contract!vars
  <2> QED BY <2>1, <2>2, <2>3, <2>4, StepKinds
<1> QED BY <1>1, <1>2, Typed, PTL DEF Spec, ImplementsContract, Contract!Spec

-----------------------------------------------------------------------------
(* One runner per key, while leases last.                                  *)

\* A lease runs out only under a worker that is gone: the heartbeats of a live one keep it.
LeasesLast == \A j \in Jobs : Expired(row[j]) => worker[row[j].owner].pc = "gone"

\* A worker that runs a job holds the lease of its row.
Owning ==
    \A o \in Owners : worker[o].pc \in Busy => worker[o].job \in Jobs /\ Holds(o, worker[o].job)

\* No two workers run jobs of the same key.
OneRunnerPerKey ==
    \A o, p \in Owners :
        /\ worker[o].pc \in Busy /\ worker[p].pc \in Busy
        /\ row[worker[o].job].key = row[worker[p].job].key
        => o = p

\* While leases last no running worker loses its row: not to a reaper, not to another
\* worker's lease, not to the sweep.
LEMMA NextOwning ==
    ASSUME TypeOK, LeasesLast, Owning, [Next]_vars
    PROVE  Owning'
<1> SUFFICES ASSUME NEW p \in Owners, worker'[p].pc \in Busy
             PROVE  worker'[p].job \in Jobs /\ Holds(p, worker[p].job)'
  BY DEF Owning
<1> USE DEF TypeOK
<1>0. ASSUME worker[p].pc \in Busy, worker'[p].job = worker[p].job,
             \A i \in Jobs : Holds(p, i) => row'[i].state = row[i].state /\ row'[i].owner = row[i].owner
      PROVE  worker'[p].job \in Jobs /\ Holds(p, worker[p].job)'
  BY <1>0 DEF Owning, Holds
<1>1. ASSUME NEW k \in Keys, Enqueue(k) \/ EnqueueOnce(k)
      PROVE  worker'[p].job \in Jobs /\ Holds(p, worker[p].job)'
  <2>1. PICK j \in Jobs : row[j].state = "absent" /\ row' = [row EXCEPT ![j] = Fresh(k)]
    BY <1>1 DEF Enqueue, EnqueueOnce
  <2> QED BY <1>0, <1>1, <2>1 DEF Enqueue, EnqueueOnce, Holds
<1>2. ASSUME NEW o \in Owners, NEW j \in Jobs, Lease(o, j)
      PROVE  worker'[p].job \in Jobs /\ Holds(p, worker[p].job)'
  <2>1. CASE p = o
    <3>1. worker'[p].job = j /\ row'[j] = Taken(row[j], o)
      BY <1>2, <2>1 DEF Lease
    <3> QED BY <2>1, <3>1, TakenType DEF Holds
  <2>2. CASE p # o
    <3>1. worker'[p] = worker[p]
      BY <1>2, <2>2 DEF Lease
    <3>2. ASSUME NEW i \in Jobs, Holds(p, i) PROVE row'[i] = row[i]
      <4>1. ~Expired(row[i]) /\ Reaped(row[i]) = row[i]
        BY <3>1, <3>2 DEF LeasesLast, Holds, Busy, Reaped
      <4>2. i # j
        BY <1>2, <3>2, <4>1 DEF Lease, Leasable, Holds
      <4> QED BY <1>2, <4>1, <4>2 DEF Lease
    <3> QED BY <1>0, <3>1, <3>2
  <2> QED BY <2>1, <2>2
<1>3. ASSUME NEW o \in Owners, Heartbeat(o)
      PROVE  worker'[p].job \in Jobs /\ Holds(p, worker[p].job)'
  <2>1. Holds(o, worker[o].job)
    BY <1>3 DEF Heartbeat, Owning, Busy
  <2>2. row' = [row EXCEPT ![worker[o].job] = Renewed(@)] /\ worker' = worker
    BY <1>3, <2>1 DEF Heartbeat
  <2> QED BY <1>0, <2>2, RenewedFacts
<1>4. ASSUME NEW o \in Owners, NEW outcome \in Outcomes, DispatchEnds(o, outcome)
      PROVE  worker'[p].job \in Jobs /\ Holds(p, worker[p].job)'
  <2>1. row' = row /\ worker[p].pc \in Busy /\ worker'[p].job = worker[p].job
    BY <1>4, Zenon DEF DispatchEnds, Worker, Busy
  <2> QED BY <1>0, <2>1
<1>5. ASSUME NEW o \in Owners, Confirm(o)
      PROVE  worker'[p].job \in Jobs /\ Holds(p, worker[p].job)'
  <2>1. worker[p].pc \in Busy /\ worker'[p].job = worker[p].job
    <3>1. \/ worker' = [worker EXCEPT ![o] = [worker[o] EXCEPT !.pc = "record"]]
          \/ worker' = [worker EXCEPT ![o] = Idle]
      BY <1>5 DEF Confirm
    <3>2. [worker[o] EXCEPT !.pc = "record"].job = worker[o].job /\ Idle.pc \notin Busy
      BY Zenon DEF Worker, Idle, Busy
    <3> QED BY <1>5, <3>1, <3>2 DEF Confirm, Busy
  <2>2. \A i \in Jobs : row'[i].state = row[i].state /\ row'[i].owner = row[i].owner
    BY <1>5, RenewedFacts DEF Confirm
  <2> QED BY <1>0, <2>1, <2>2
<1>6. ASSUME NEW o \in Owners, Record(o)
      PROVE  worker'[p].job \in Jobs /\ Holds(p, worker[p].job)'
  <2>1. p # o /\ worker'[p] = worker[p]
    BY <1>6 DEF Record, Idle, Busy
  <2>2. ASSUME NEW i \in Jobs, Holds(p, i) PROVE row'[i] = row[i]
    BY <1>6, <2>1, <2>2 DEF Record, Holds
  <2> QED BY <1>0, <2>1, <2>2
<1>7. ASSUME NEW o \in Owners, Crash(o)
      PROVE  worker'[p].job \in Jobs /\ Holds(p, worker[p].job)'
  <2>1. p # o /\ worker'[p] = worker[p] /\ row' = row
    BY <1>7 DEF Crash, Idle, Busy
  <2> QED BY <1>0, <2>1
<1>8. ASSUME NEW j \in Jobs, LeaseRunsOut(j) \/ BackoffEnds(j) \/ Cleanup(j)
      PROVE  worker'[p].job \in Jobs /\ Holds(p, worker[p].job)'
  <2>1. worker' = worker
    BY <1>8 DEF LeaseRunsOut, BackoffEnds, Cleanup
  <2>2. ASSUME NEW i \in Jobs, Holds(p, i)
        PROVE  row'[i].state = row[i].state /\ row'[i].owner = row[i].owner
    <3>1. row[i] \in Row
      OBVIOUS
    <3>2. \/ row'[i] = row[i]
          \/ row'[i] = [row[i] EXCEPT !.expires = "past"]
      BY <1>8, <2>2 DEF LeaseRunsOut, BackoffEnds, Cleanup, Holds, Terminal
    <3> QED BY <3>1, <3>2, Zenon DEF Row
  <2> QED BY <1>0, <2>1, <2>2
<1>9. CASE UNCHANGED <<row, worker>>
  BY <1>0, <1>9
<1> QED
  BY <1>1, <1>2, <1>3, <1>4, <1>5, <1>6, <1>7, <1>8, <1>9
  DEF Next, RunStep, Clock, vars, WindowEnds

\* Jobs of one key never run side by side as long as the heartbeats of live workers keep
\* their leases, whatever crashes, retries, reapings and enqueues interleave: what the
\* handlers of a calendar, a policy or a rule are written for.
THEOREM OneRunnerHolds == Spec /\ []LeasesLast => []OneRunnerPerKey
<1>1. Init => Owning
  BY DEF Init, Owning, Idle, Busy
<1>2. TypeOK /\ LeasesLast /\ Owning /\ [Next]_vars => Owning'
  BY NextOwning
<1>3. Owning /\ OneLivePerKey => OneRunnerPerKey
  <2> SUFFICES ASSUME Owning, OneLivePerKey, NEW o \in Owners, NEW p \in Owners,
                      worker[o].pc \in Busy, worker[p].pc \in Busy,
                      row[worker[o].job].key = row[worker[p].job].key
               PROVE  o = p
    BY DEF OneRunnerPerKey
  <2>1. /\ worker[o].job \in Jobs /\ Holds(o, worker[o].job)
        /\ worker[p].job \in Jobs /\ Holds(p, worker[p].job)
    BY DEF Owning
  <2>2. worker[o].job = worker[p].job
    BY <2>1 DEF OneLivePerKey, Holds, Live
  <2> QED BY <2>1, <2>2 DEF Holds
<1> QED BY <1>1, <1>2, <1>3, Typed, KeysStayUnique, PTL DEF Spec
=============================================================================
