----------------------- MODULE ConflictResponseProofs -----------------------
(***************************************************************************)
(* Proofs about ConflictResponse for any number of rules, invitations,     *)
(* passes and workers, any budget and any window.                          *)
(***************************************************************************)
EXTENDS ConflictResponse, FiniteSetTheorems, TLAPS

\* An apply under way relies on the database as it found it, and its PATCH names the
\* version that was evaluated.
Ground(w) ==
    worker[w].pc \in Holding =>
        /\ Current(worker[w].job)
        /\ mirror[worker[w].job.invitation] =
              [revision |-> worker[w].job.basis.revision, answer |-> "needsAction"]
        /\ worker[w].pc = "patch" => worker[w].match = worker[w].job.basis.revision

Grounds == \A w \in Workers : Ground(w)

\* Two applies under way are about different rules.
Exclusive ==
    \A v, w \in Workers :
        /\ worker[v].pc \in Holding /\ worker[w].pc \in Holding
        /\ worker[v].job.rule = worker[w].job.rule
        => v = w

\* The mirror is a version the provider has or had.
MirrorBehind ==
    \A i \in Invitations : /\ mirror[i].revision <= remote[i].revision
                           /\ mirror[i].revision = remote[i].revision => mirror[i] = remote[i]

\* An unanswered PATCH is about a version that was mirrored when it was sent.
Behind(m) ==
    /\ m.match <= mirror[m.invitation].revision
    /\ m.match = mirror[m.invitation].revision => mirror[m.invitation].answer = "needsAction"

WireBehind == \A m \in wire : Behind(m)

\* At most one rule answers for the calendar, and only an active one has reservations.
OneLive == \A r, s \in Rules : Live(r) /\ Live(s) => r = s
PendingLive == \A r \in Rules, i \in Invitations :
                  action[r][i].status = "pending" => rule[r] = "active"

\* A pass judges by a time that has been.
PassPast == \A p \in Passes : pass[p].pc = "prepared" => pass[p].now <= clock

IInv ==
    /\ TypeOK /\ Grounds /\ Exclusive /\ MirrorBehind /\ WireBehind
    /\ OneLive /\ PendingLive /\ PassPast /\ AppliedIsAnswered /\ WithinBudget

-----------------------------------------------------------------------------
(* Types.                                                                  *)

\* The parts of a job.
LEMMA JobShape ==
    ASSUME NEW j \in Jobs
    PROVE  /\ j.rule \in Rules /\ j.invitation \in Invitations /\ j.basis \in Bases
           /\ j.basis.revision \in Nat /\ j.basis.busy \in Nat
  BY DEF Jobs, Bases

\* A worker that is not idle has a job.
LEMMA WorkerShape ==
    ASSUME TypeOK, NEW w \in Workers
    PROVE  /\ worker[w].pc \in {"idle", "availability", "read", "patch", "verify", "committed"}
           /\ worker[w].pc # "idle" => worker[w].job \in Jobs
           /\ worker[w].pc = "patch" => worker[w].match \in Nat
<1>1. worker[w] \in WorkerStates
  BY DEF TypeOK
<1>2. CASE worker[w] = Idle
  BY <1>2 DEF Idle
<1>3. CASE worker[w] \in [pc : {"availability", "read", "verify", "committed"}, job : Jobs]
  BY <1>3
<1>4. CASE worker[w] \in [pc : {"patch"}, job : Jobs, match : Nat]
  BY <1>4
<1> QED BY <1>1, <1>2, <1>3, <1>4 DEF WorkerStates

\* What a prepared pass knows.
LEMMA PassShape ==
    ASSUME TypeOK, NEW p \in Passes, pass[p].pc = "prepared"
    PROVE  /\ pass[p].rule \in Rules /\ pass[p].now \in Times
           /\ pass[p].basis \in [Invitations -> Bases]
<1>1. pass[p] \in PassStates /\ pass[p] # Idle
  BY DEF TypeOK, Idle
<1> QED BY <1>1 DEF PassStates

\* The bounds are numbers.
LEMMA BoundShape == /\ Budget \in Nat /\ Window \in Nat /\ MaxTime \in Nat
                    /\ Times \subseteq Nat /\ Invitations \subseteq Nat
  BY ResponseAssumption DEF Times

\* Ending a transaction keeps the shape of the rows and of the workers.
LEMMA SettleType ==
    ASSUME TypeOK, NEW w \in Workers, NEW j \in Jobs,
           NEW status \in {"held", "applied", "superseded"}, Settles(w, j, status)
    PROVE  /\ action' \in [Rules -> [Invitations -> Actions]]
           /\ worker' \in [Workers -> WorkerStates]
<1>1. j.rule \in Rules /\ j.invitation \in Invitations
  BY JobShape
<1>2. action[j.rule][j.invitation] \in Actions
  BY <1>1 DEF TypeOK
<1>3. [action[j.rule][j.invitation] EXCEPT !.status = status] \in Actions
  BY <1>2 DEF Actions
<1>4. action' \in [Rules -> [Invitations -> Actions]]
  <2> DEFINE row == [action[j.rule][j.invitation] EXCEPT !.status = status]
             rows == [action[j.rule] EXCEPT ![j.invitation] = row]
  <2>1. action[j.rule] \in [Invitations -> Actions]
    BY <1>1 DEF TypeOK
  <2>2. rows \in [Invitations -> Actions]
    BY <2>1, <1>1, <1>3
  <2>3. action' = [action EXCEPT ![j.rule] = rows]
    BY DEF Settles
  <2> QED BY <2>2, <2>3, <1>1 DEF TypeOK
<1>5. [pc |-> "committed", job |-> j] \in WorkerStates
  BY DEF WorkerStates
<1> QED BY <1>4, <1>5 DEF Settles, TypeOK

\* So does moving the actions of a rule to another status.
LEMMA MoveType ==
    ASSUME TypeOK, NEW r \in Rules, NEW from, NEW to \in {"held", "superseded"}, Move(r, from, to)
    PROVE  action' \in [Rules -> [Invitations -> Actions]]
<1>1. \A i \in Invitations : [action[r][i] EXCEPT !.status = to] \in Actions /\ action[r][i] \in Actions
  <2> TAKE i \in Invitations
  <2>1. action[r][i] \in Actions
    BY DEF TypeOK
  <2> QED BY <2>1 DEF Actions
<1> QED BY <1>1 DEF Move, TypeOK

\* A PATCH that takes effect keeps the shape of the invitations.
LEMMA TakesType ==
    ASSUME TypeOK, NEW m \in Requests, Takes(m)
    PROVE  remote' \in [Invitations -> Versions] /\ declines' \in Seq(Times)
<1>1. m.invitation \in Invitations /\ m.match \in Nat
  BY DEF Requests
<1>2. [revision |-> m.match + 1, answer |-> "declined"] \in Versions
  BY <1>1 DEF Versions, Answers
<1> QED BY <1>1, <1>2 DEF Takes, TypeOK

\* A verified decline is recorded with its time.
LEMMA AppliedType ==
    ASSUME TypeOK, NEW w \in Workers, worker[w].pc # "idle", Applied(w)
    PROVE  /\ action' \in [Rules -> [Invitations -> Actions]]
           /\ worker' \in [Workers -> WorkerStates]
           /\ facts' \in Seq(Times)
<1>1. worker[w].job \in Jobs
  BY WorkerShape
<1>2. Settles(w, worker[w].job, "applied")
  BY DEF Applied
<1>3. facts' \in Seq(Times)
  BY DEF Applied, TypeOK
<1> QED BY <1>1, <1>2, <1>3, SettleType

\* A pass that writes its decisions keeps the shape of the rows and of the jobs.
LEMMA CommitType ==
    ASSUME TypeOK, NEW p \in Passes, Commit(p)
    PROVE  action' \in [Rules -> [Invitations -> Actions]] /\ jobs' \subseteq Jobs
<1> DEFINE r == pass[p].rule
           basis == pass[p].basis
<1>1. pass[p].pc = "prepared"
  BY DEF Commit
<1>2. r \in Rules /\ basis \in [Invitations -> Bases]
  BY <1>1, PassShape
<1> HIDE DEF r, basis
<1>3. CASE rule[r] # "active"
  BY <1>3 DEF Commit, TypeOK, r
<1>4. CASE rule[r] = "active"
  <2>1. PICK S \in SUBSET Invitations :
           /\ action' = [action EXCEPT ![r] = [i \in Invitations |->
                  CASE i \in S -> [status |-> "pending", basis |-> basis[i]]
                    [] i \in Open(p) \ S -> [status |-> "held", basis |-> basis[i]]
                    [] i \notin Conflicts(p) /\ action[r][i].status \in {"pending", "held"} ->
                           [action[r][i] EXCEPT !.status = "superseded"]
                    [] OTHER -> action[r][i]]]
           /\ jobs' = jobs \cup {[rule |-> r, invitation |-> i, basis |-> basis[i]] : i \in S}
    BY <1>4 DEF Commit, r, basis
  <2> DEFINE row(i) == CASE i \in S -> [status |-> "pending", basis |-> basis[i]]
                         [] i \in Open(p) \ S -> [status |-> "held", basis |-> basis[i]]
                         [] i \notin Conflicts(p) /\ action[r][i].status \in {"pending", "held"} ->
                                [action[r][i] EXCEPT !.status = "superseded"]
                         [] OTHER -> action[r][i]
  <2>2. ASSUME NEW i \in Invitations
        PROVE  row(i) \in Actions
    <3>1. action[r][i] \in Actions /\ basis[i] \in Bases
      BY <1>2 DEF TypeOK
    <3>2. [action[r][i] EXCEPT !.status = "superseded"] \in Actions
      BY <3>1 DEF Actions
    <3>3. /\ [status |-> "pending", basis |-> basis[i]] \in Actions
          /\ [status |-> "held", basis |-> basis[i]] \in Actions
      BY <3>1 DEF Actions
    <3> QED BY <3>1, <3>2, <3>3
  <2> HIDE DEF row
  <2>3. action' = [action EXCEPT ![r] = [i \in Invitations |-> row(i)]]
    BY <2>1 DEF row
  <2>4. action' \in [Rules -> [Invitations -> Actions]]
    BY <2>2, <2>3, <1>2 DEF TypeOK
  <2>5. \A i \in S : [rule |-> r, invitation |-> i, basis |-> basis[i]] \in Jobs
    BY <1>2 DEF Jobs
  <2> QED BY <2>1, <2>4, <2>5 DEF TypeOK
<1> QED BY <1>3, <1>4

\* Every step keeps the shape of the state.
LEMMA TypePreserved ==
    ASSUME TypeOK, [Next]_vars
    PROVE  TypeOK'
<1> USE DEF TypeOK
<1>1. ASSUME NEW p \in Passes, NEW r \in Rules, Prepare(p, r)
      PROVE  TypeOK'
  <2>1. \A i \in Invitations : BasisOf(i, clock) \in Bases
    BY DEF BasisOf, Bases, NoBasis, Versions
  <2>2. [pc |-> "prepared", rule |-> r, now |-> clock,
         basis |-> [i \in Invitations |-> BasisOf(i, clock)]] \in PassStates
    BY <2>1 DEF PassStates
  <2> QED BY <1>1, <2>2 DEF Prepare
<1>2. ASSUME NEW p \in Passes, Commit(p)
      PROVE  TypeOK'
  <2>1. Idle \in PassStates
    BY DEF PassStates
  <2> QED BY <1>2, <2>1, CommitType DEF Commit
<1>3. ASSUME NEW w \in Workers, NEW j \in jobs, Begin(w, j)
      PROVE  TypeOK'
  <2>1. j \in Jobs
    OBVIOUS
  <2>2. /\ [pc |-> "committed", job |-> j] \in WorkerStates
        /\ [pc |-> "availability", job |-> j] \in WorkerStates
    BY <2>1 DEF WorkerStates
  <2>3. /\ action' \in [Rules -> [Invitations -> Actions]]
        /\ worker' \in [Workers -> WorkerStates]
    BY <1>3, <2>1, <2>2, SettleType DEF Begin
  <2> QED BY <1>3, <2>3 DEF Begin, Untouched
<1>4. ASSUME NEW w \in Workers, AskAvailability(w)
      PROVE  TypeOK'
  <2>1. worker[w].job \in Jobs
    BY <1>4, WorkerShape DEF AskAvailability
  <2>2. [pc |-> "read", job |-> worker[w].job] \in WorkerStates
    BY <2>1 DEF WorkerStates
  <2>3. /\ action' \in [Rules -> [Invitations -> Actions]]
        /\ worker' \in [Workers -> WorkerStates]
    BY <1>4, <2>1, <2>2, SettleType DEF AskAvailability
  <2> QED BY <1>4, <2>3 DEF AskAvailability, Untouched
<1>5. ASSUME NEW w \in Workers, ReadInvitation(w)
      PROVE  TypeOK'
  <2>1. worker[w].job \in Jobs /\ worker[w].pc # "idle"
    BY <1>5, WorkerShape DEF ReadInvitation
  <2>2. remote[worker[w].job.invitation].revision \in Nat
    BY <2>1, JobShape DEF Versions
  <2>3. [pc |-> "patch", job |-> worker[w].job,
         match |-> remote[worker[w].job.invitation].revision] \in WorkerStates
    BY <2>1, <2>2 DEF WorkerStates
  <2>4. /\ action' \in [Rules -> [Invitations -> Actions]]
        /\ worker' \in [Workers -> WorkerStates]
        /\ facts' \in Seq(Times)
    BY <1>5, <2>1, <2>3, SettleType, AppliedType DEF ReadInvitation
  <2> QED BY <1>5, <2>4 DEF ReadInvitation, Untouched
<1>6. ASSUME NEW w \in Workers, Patch(w)
      PROVE  TypeOK'
  <2> DEFINE j == worker[w].job
             m == [invitation |-> j.invitation, match |-> worker[w].match]
  <2>1. j \in Jobs /\ worker[w].match \in Nat
    BY <1>6, WorkerShape DEF Patch
  <2>2. m \in Requests
    BY <2>1, JobShape DEF Requests
  <2>3. [pc |-> "verify", job |-> j] \in WorkerStates
    BY <2>1 DEF WorkerStates
  <2>4. Awaits(w) => worker' \in [Workers -> WorkerStates]
    BY <2>3 DEF Awaits
  <2> HIDE DEF j, m
  <2>5. CASE Takes(m) /\ Awaits(w) /\ UNCHANGED <<action, wire>>
    BY <1>6, <2>5, <2>2, <2>4, TakesType DEF Patch
  <2>6. CASE Settles(w, j, "held") /\ UNCHANGED <<remote, declines, wire>>
    <3>1. /\ action' \in [Rules -> [Invitations -> Actions]]
          /\ worker' \in [Workers -> WorkerStates]
      BY <2>6, <2>1, SettleType
    <3> QED BY <1>6, <2>6, <3>1 DEF Patch
  <2>7. CASE wire' = wire \cup {m} /\ Awaits(w) /\ UNCHANGED <<remote, declines, action>>
    BY <1>6, <2>7, <2>2, <2>4 DEF Patch
  <2> QED BY <1>6, <2>5, <2>6, <2>7 DEF Patch, j, m
<1>7. ASSUME NEW w \in Workers, Verify(w)
      PROVE  TypeOK'
  <2>1. worker[w].job \in Jobs /\ worker[w].pc # "idle"
    BY <1>7, WorkerShape DEF Verify
  <2>2. /\ action' \in [Rules -> [Invitations -> Actions]]
        /\ worker' \in [Workers -> WorkerStates]
        /\ facts' \in Seq(Times)
    BY <1>7, <2>1, SettleType, AppliedType DEF Verify
  <2> QED BY <1>7, <2>2 DEF Verify, Untouched
<1>8. ASSUME NEW w \in Workers, Refused(w)
      PROVE  TypeOK'
  <2>1. worker[w].job \in Jobs
    BY <1>8, WorkerShape DEF Refused, Holding
  <2>2. /\ action' \in [Rules -> [Invitations -> Actions]]
        /\ worker' \in [Workers -> WorkerStates]
    BY <1>8, <2>1, SettleType DEF Refused
  <2> QED BY <1>8, <2>2 DEF Refused, Untouched
<1>9. ASSUME NEW w \in Workers, Retry(w) \/ Finish(w)
      PROVE  TypeOK'
  <2>1. Idle \in WorkerStates
    BY DEF WorkerStates
  <2> QED BY <1>9, <2>1 DEF Retry, Finish
<1>10. ASSUME NEW m \in wire, Land(m)
       PROVE  TypeOK'
  BY <1>10, TakesType DEF Land
<1>11. ASSUME NEW r \in Rules,
              PrepareFails(r) \/ Activate(r) \/ Pause(r) \/ Resume(r) \/ Remove(r)
       PROVE  TypeOK'
  <2>1. action' \in [Rules -> [Invitations -> Actions]]
    BY <1>11, MoveType DEF PrepareFails, Activate, Pause, Resume, Remove
  <2> QED BY <1>11, <2>1 DEF PrepareFails, Activate, Pause, Resume, Remove
<1>12. ASSUME NEW i \in Touched, NEW answer \in Answers, Change(i, answer)
       PROVE  TypeOK'
  <2>1. i \in Invitations
    BY ResponseAssumption
  <2>2. [revision |-> remote[i].revision + 1, answer |-> answer] \in Versions
    BY <2>1 DEF Versions
  <2> QED BY <1>12, <2>1, <2>2 DEF Change
<1>13. ASSUME NEW i \in Touched, NEW b \in 0..MaxBusy, PrivateChange(i, b)
       PROVE  TypeOK'
  BY <1>13, ResponseAssumption DEF PrivateChange
<1>14. ASSUME NEW i \in Invitations, Sync(i)
       PROVE  TypeOK'
  BY <1>14 DEF Sync
<1>15. ASSUME Tick
       PROVE  TypeOK'
  BY <1>15, BoundShape DEF Tick, Times
<1>16. ASSUME UNCHANGED vars
       PROVE  TypeOK'
  BY <1>16 DEF vars
<1> QED BY <1>1, <1>2, <1>3, <1>4, <1>5, <1>6, <1>7, <1>8, <1>9, <1>10, <1>11, <1>12, <1>13,
           <1>14, <1>15, <1>16 DEF Next, Progress

-----------------------------------------------------------------------------
(* The provider's calendar and its mirror.                                 *)

\* What an apply is about to send concerns the mirrored version.
LEMMA PatchBehind ==
    ASSUME TypeOK, Grounds, NEW w \in Workers, worker[w].pc = "patch"
    PROVE  /\ [invitation |-> worker[w].job.invitation, match |-> worker[w].match] \in Requests
           /\ Behind([invitation |-> worker[w].job.invitation, match |-> worker[w].match])
<1>1. worker[w].job \in Jobs /\ worker[w].match \in Nat
  BY WorkerShape
<1>2. worker[w].job.invitation \in Invitations /\ worker[w].job.basis.revision \in Nat
  BY <1>1, JobShape
<1>3. /\ mirror[worker[w].job.invitation] =
            [revision |-> worker[w].job.basis.revision, answer |-> "needsAction"]
      /\ worker[w].match = worker[w].job.basis.revision
  BY DEF Grounds, Ground, Holding
<1> QED BY <1>1, <1>2, <1>3 DEF Behind, Requests

\* How a step changes the invitations: not at all, by a PATCH that takes effect, by the
\* user or the organizer, or by a sync.
Quiet == remote' = remote /\ mirror' = mirror /\ declines' = declines
Lands(m) == Takes(m) /\ Behind(m) /\ mirror' = mirror
Changes(i, answer) ==
    /\ remote' = [remote EXCEPT ![i] = [revision |-> remote[i].revision + 1, answer |-> answer]]
    /\ mirror' = mirror /\ declines' = declines
Syncs(i) ==
    /\ mirror[i] # remote[i] /\ mirror' = [mirror EXCEPT ![i] = remote[i]]
    /\ remote' = remote /\ declines' = declines

\* Every step treats the invitations in one of these four ways.
LEMMA CalendarSteps ==
    ASSUME TypeOK, Grounds, WireBehind, [Next]_vars
    PROVE  \/ Quiet
           \/ \E m \in Requests : Lands(m)
           \/ \E i \in Invitations, answer \in Answers : Changes(i, answer)
           \/ \E i \in Invitations : Syncs(i)
<1>1. ASSUME NEW p \in Passes, NEW r \in Rules, Prepare(p, r)
      PROVE  Quiet
  BY <1>1 DEF Prepare, Quiet
<1>2. ASSUME NEW p \in Passes, Commit(p)
      PROVE  Quiet
  BY <1>2 DEF Commit, Quiet
<1>3. ASSUME NEW w \in Workers, NEW j \in jobs, Begin(w, j)
      PROVE  Quiet
  BY <1>3 DEF Begin, Untouched, Quiet
<1>4. ASSUME NEW w \in Workers, AskAvailability(w) \/ ReadInvitation(w) \/ Verify(w) \/ Refused(w)
      PROVE  Quiet
  BY <1>4 DEF AskAvailability, ReadInvitation, Verify, Refused, Untouched, Quiet
<1>5. ASSUME NEW w \in Workers, Patch(w)
      PROVE  Quiet \/ \E m \in Requests : Lands(m)
  <2>1. CASE Quiet
    BY <2>1
  <2>2. CASE ~Quiet
    <3> DEFINE m == [invitation |-> worker[w].job.invitation, match |-> worker[w].match]
    <3>1. worker[w].pc = "patch" /\ Takes(m) /\ mirror' = mirror
      BY <1>5, <2>2 DEF Patch, Quiet
    <3>2. m \in Requests /\ Behind(m)
      BY <3>1, PatchBehind
    <3> QED BY <3>1, <3>2 DEF Lands
  <2> QED BY <2>1, <2>2
<1>6. ASSUME NEW w \in Workers, Retry(w) \/ Finish(w)
      PROVE  Quiet
  BY <1>6 DEF Retry, Finish, Quiet
<1>7. ASSUME NEW m \in wire, Land(m)
      PROVE  Quiet \/ \E n \in Requests : Lands(n)
  BY <1>7 DEF Land, Quiet, Lands, WireBehind, TypeOK
<1>8. ASSUME NEW r \in Rules,
             PrepareFails(r) \/ Activate(r) \/ Pause(r) \/ Resume(r) \/ Remove(r)
      PROVE  Quiet
  BY <1>8 DEF PrepareFails, Activate, Pause, Resume, Remove, Quiet
<1>9. ASSUME NEW i \in Touched, NEW answer \in Answers, Change(i, answer)
      PROVE  i \in Invitations /\ Changes(i, answer)
  BY <1>9, ResponseAssumption DEF Change, Changes
<1>10. ASSUME NEW i \in Touched, NEW b \in 0..MaxBusy, PrivateChange(i, b)
       PROVE  Quiet
  BY <1>10 DEF PrivateChange, Quiet
<1>11. ASSUME NEW i \in Invitations, Sync(i)
       PROVE  Syncs(i)
  BY <1>11 DEF Sync, Syncs
<1>12. ASSUME Tick \/ UNCHANGED vars
       PROVE  Quiet
  BY <1>12 DEF Tick, vars, Quiet
<1> QED BY <1>1, <1>2, <1>3, <1>4, <1>5, <1>6, <1>7, <1>8, <1>9, <1>10, <1>11, <1>12 DEF Next, Progress

\* Revisions only grow, and the mirror stays behind them.
LEMMA MirrorPreserved ==
    ASSUME TypeOK, Grounds, WireBehind, MirrorBehind, [Next]_vars
    PROVE  /\ MirrorBehind'
           /\ \A i \in Invitations : /\ remote[i].revision <= remote'[i].revision
                                     /\ mirror[i].revision <= mirror'[i].revision
                                     /\ mirror[i].revision = mirror'[i].revision => mirror'[i] = mirror[i]
<1>0. \A i \in Invitations : remote[i].revision \in Nat /\ mirror[i].revision \in Nat
  BY DEF TypeOK, Versions
<1>1. CASE Quiet
  BY <1>0, <1>1 DEF Quiet, MirrorBehind
<1>2. ASSUME NEW m \in Requests, Lands(m)
      PROVE  /\ MirrorBehind'
             /\ \A i \in Invitations : remote[i].revision <= remote'[i].revision
             /\ mirror' = mirror
  <2>1. m.invitation \in Invitations /\ m.match \in Nat
    BY DEF Requests
  <2>2. \A i \in Invitations :
           remote'[i] = IF i = m.invitation THEN [revision |-> m.match + 1, answer |-> "declined"]
                        ELSE remote[i]
    BY <1>2, <2>1 DEF Lands, Takes, TypeOK
  <2>3. remote[m.invitation].revision = m.match /\ mirror' = mirror
    BY <1>2 DEF Lands, Takes
  <2> QED BY <1>0, <2>1, <2>2, <2>3 DEF MirrorBehind
<1>3. ASSUME NEW k \in Invitations, NEW answer \in Answers, Changes(k, answer)
      PROVE  /\ MirrorBehind'
             /\ \A i \in Invitations : remote[i].revision <= remote'[i].revision
             /\ mirror' = mirror
  <2>1. \A i \in Invitations :
           remote'[i] = IF i = k THEN [revision |-> remote[k].revision + 1, answer |-> answer]
                        ELSE remote[i]
    BY <1>3 DEF Changes, TypeOK
  <2>2. mirror' = mirror
    BY <1>3 DEF Changes
  <2> QED BY <1>0, <2>1, <2>2 DEF MirrorBehind
<1>4. ASSUME NEW k \in Invitations, Syncs(k)
      PROVE  /\ MirrorBehind' /\ remote' = remote
             /\ \A i \in Invitations : /\ mirror[i].revision <= mirror'[i].revision
                                       /\ mirror[i].revision = mirror'[i].revision => mirror'[i] = mirror[i]
  <2>1. \A i \in Invitations : mirror'[i] = IF i = k THEN remote[k] ELSE mirror[i]
    BY <1>4 DEF Syncs, TypeOK
  <2>2. remote' = remote
    BY <1>4 DEF Syncs
  <2> QED BY <1>0, <2>1, <2>2 DEF MirrorBehind
<1>5. ASSUME mirror' = mirror
      PROVE  \A i \in Invitations : /\ mirror[i].revision <= mirror'[i].revision
                                    /\ mirror[i].revision = mirror'[i].revision => mirror'[i] = mirror[i]
  BY <1>0, <1>5
<1>6. ASSUME remote' = remote
      PROVE  \A i \in Invitations : remote[i].revision <= remote'[i].revision
  BY <1>0, <1>6
<1> QED BY <1>1, <1>2, <1>3, <1>4, <1>5, <1>6, CalendarSteps DEF Quiet

\* A step sends at most one new PATCH, about the mirrored version.
LEMMA WirePreserved ==
    ASSUME TypeOK, Grounds, WireBehind, MirrorBehind, [Next]_vars
    PROVE  WireBehind'
<1>1. \A m \in wire' : m \in Requests /\ Behind(m)
  <2>1. CASE wire' \subseteq wire
    BY <2>1 DEF WireBehind, TypeOK
  <2>2. CASE ~(wire' \subseteq wire)
    <3>1. PICK w \in Workers : Patch(w)
      BY <2>2 DEF Next, vars, Progress, Prepare, Commit, Begin, AskAvailability, ReadInvitation, Verify,
         Refused, Retry, Finish, Land, PrepareFails, Activate, Pause, Resume, Remove, Change,
         PrivateChange, Sync, Tick, Untouched
    <3>2. /\ worker[w].pc = "patch"
          /\ wire' \subseteq wire \cup {[invitation |-> worker[w].job.invitation, match |-> worker[w].match]}
      BY <3>1 DEF Patch
    <3> QED BY <3>2, PatchBehind DEF WireBehind, TypeOK
  <2> QED BY <2>1, <2>2
<1>2. ASSUME NEW m \in wire'
      PROVE  Behind(m)'
  <2>1. m.invitation \in Invitations /\ m.match \in Nat /\ Behind(m)
    BY <1>1 DEF Requests
  <2>2. /\ mirror[m.invitation].revision <= mirror'[m.invitation].revision
        /\ mirror[m.invitation].revision = mirror'[m.invitation].revision =>
              mirror'[m.invitation] = mirror[m.invitation]
    BY <2>1, MirrorPreserved
  <2>3. mirror[m.invitation].revision \in Nat /\ mirror'[m.invitation].revision \in Nat
    BY <2>1, TypePreserved DEF TypeOK, Versions
  <2> QED BY <2>1, <2>2, <2>3 DEF Behind
<1> QED BY <1>2 DEF WireBehind

-----------------------------------------------------------------------------
(* The rows: what an apply, a rule's owner and a pass do to them.          *)

\* Ending a transaction changes one action and one worker.
Settled(w, j, status) ==
    /\ \A r \in Rules, i \in Invitations :
          \/ r = j.rule /\ i = j.invitation
             /\ action'[r][i].status = status /\ action'[r][i].basis = action[r][i].basis
          \/ ~(r = j.rule /\ i = j.invitation) /\ action'[r][i] = action[r][i]
    /\ worker'[w] = [pc |-> "committed", job |-> j]
    /\ \A v \in Workers \ {w} : worker'[v] = worker[v]

\* The end of an apply changes the status of its own action and of no other.
LEMMA SettleEffect ==
    ASSUME TypeOK, NEW w \in Workers, NEW j \in Jobs, NEW status, Settles(w, j, status)
    PROVE  Settled(w, j, status)
<1>1. j.rule \in Rules /\ j.invitation \in Invitations
  BY JobShape
<1>2. action[j.rule][j.invitation] \in Actions
  BY <1>1 DEF TypeOK
<1>3. [action[j.rule][j.invitation] EXCEPT !.status = status] =
         [status |-> status, basis |-> action[j.rule][j.invitation].basis]
  BY <1>2 DEF Actions
<1>4. \A r \in Rules, i \in Invitations :
         action'[r][i] = IF r = j.rule /\ i = j.invitation
                         THEN [action[j.rule][j.invitation] EXCEPT !.status = status]
                         ELSE action[r][i]
  BY <1>1 DEF Settles, TypeOK
<1>5. /\ worker'[w] = [pc |-> "committed", job |-> j]
      /\ \A v \in Workers \ {w} : worker'[v] = worker[v]
  BY DEF Settles, TypeOK
<1> QED BY <1>3, <1>4, <1>5 DEF Settled

\* Moving actions to another status changes only the ones of the rule.
Moved(r, from, to) ==
    \A s \in Rules, i \in Invitations :
        \/ s = r /\ action[s][i].status \in from /\ action'[s][i].status = to
        \/ ~(s = r /\ action[s][i].status \in from) /\ action'[s][i] = action[s][i]

\* Pausing, failing or retiring a rule moves its own actions and leaves their bases.
LEMMA MoveEffect ==
    ASSUME TypeOK, NEW r \in Rules, NEW from, NEW to, Move(r, from, to)
    PROVE  Moved(r, from, to)
<1> SUFFICES ASSUME NEW s \in Rules, NEW i \in Invitations
             PROVE  \/ s = r /\ action[s][i].status \in from /\ action'[s][i].status = to
                    \/ ~(s = r /\ action[s][i].status \in from) /\ action'[s][i] = action[s][i]
  BY DEF Moved
<1>1. action[s][i] \in Actions
  BY DEF TypeOK
<1>2. [action[s][i] EXCEPT !.status = to].status = to
  BY <1>1 DEF Actions
<1>3. CASE s = r
  BY <1>2, <1>3 DEF Move, TypeOK
<1>4. CASE s # r
  BY <1>4 DEF Move, TypeOK
<1> QED BY <1>3, <1>4

\* A step of an apply job: it changes its own worker and at most its own action, whose
\* rule it has locked.
Own(w, j) == (worker[w].pc \in Holding /\ worker[w].job = j) \/ RuleFree(j.rule)

Moves(w) ==
    /\ action' = action /\ facts' = facts
    /\ \A v \in Workers \ {w} : worker'[v] = worker[v]
    /\ Ground(w)'
    /\ worker'[w].pc \in Holding => worker'[w].job \in Jobs /\ Own(w, worker'[w].job)

Gives(w, j, status) ==
    /\ Settles(w, j, status) /\ Current(j) /\ Own(w, j) /\ facts' = facts

Declines(w, j) ==
    /\ Settles(w, j, "applied") /\ Current(j) /\ Own(w, j)
    /\ facts' = Append(facts, clock)
    /\ mirror[j.invitation] = [revision |-> j.basis.revision, answer |-> "needsAction"]
    /\ remote[j.invitation].answer = "declined" /\ remote' = remote

JobStep(w) ==
    /\ rule' = rule /\ mirror' = mirror /\ pass' = pass /\ clock' = clock
    /\ \/ Moves(w)
       \/ \E j \in Jobs, status \in {"held", "superseded"} : Gives(w, j, status)
       \/ \E j \in Jobs : Declines(w, j)

\* Taking a job locks its rule and finds the reservation current.
LEMMA BeginStep ==
    ASSUME TypeOK, NEW w \in Workers, NEW j \in jobs, Begin(w, j)
    PROVE  JobStep(w)
<1>1. j \in Jobs /\ j.invitation \in Invitations
  BY JobShape DEF TypeOK
<1>2. RuleFree(j.rule) /\ rule' = rule /\ mirror' = mirror /\ pass' = pass /\ clock' = clock /\ facts' = facts
  BY DEF Begin, Untouched
<1>3. CASE worker' = [worker EXCEPT ![w] = [pc |-> "committed", job |-> j]] /\ action' = action
  <2>1. worker'[w].pc \notin Holding /\ \A v \in Workers \ {w} : worker'[v] = worker[v]
    BY <1>3 DEF TypeOK, Holding
  <2> QED BY <1>2, <1>3, <2>1 DEF JobStep, Moves, Ground
<1>4. ASSUME NEW status \in {"held", "superseded"}, Current(j), Settles(w, j, status)
      PROVE  JobStep(w)
  BY <1>1, <1>2, <1>4 DEF JobStep, Gives, Own
<1>5. CASE /\ Current(j) /\ Eligible(j.invitation, clock)
           /\ mirror[j.invitation].revision = j.basis.revision
           /\ worker' = [worker EXCEPT ![w] = [pc |-> "availability", job |-> j]] /\ action' = action
  <2>1. worker'[w] = [pc |-> "availability", job |-> j] /\ \A v \in Workers \ {w} : worker'[v] = worker[v]
    BY <1>5 DEF TypeOK
  <2>2. mirror[j.invitation] = [revision |-> j.basis.revision, answer |-> "needsAction"]
    BY <1>1, <1>5 DEF TypeOK, Versions, Eligible
  <2>3. Ground(w)'
    BY <1>2, <1>5, <2>1, <2>2 DEF Ground, Current
  <2> QED BY <1>1, <1>2, <1>5, <2>1, <2>3 DEF JobStep, Moves, Own
<1> QED BY <1>3, <1>4, <1>5 DEF Begin

\* An apply under way moves on with its job.
LEMMA MovesOn ==
    ASSUME TypeOK, NEW w \in Workers, Ground(w), worker[w].pc \in Holding,
           NEW x, worker' = [worker EXCEPT ![w] = x], x.pc \in Holding, x.job = worker[w].job,
           x.pc = "patch" => x.match = worker[w].job.basis.revision,
           action' = action, facts' = facts, rule' = rule, mirror' = mirror
    PROVE  Moves(w)
<1>1. worker[w].job \in Jobs
  BY WorkerShape DEF Holding
<1>2. worker'[w] = x /\ \A v \in Workers \ {w} : worker'[v] = worker[v]
  BY DEF TypeOK
<1>3. Ground(w)'
  BY <1>2 DEF Ground, Current
<1> QED BY <1>1, <1>2, <1>3 DEF Moves, Own

\* The steps of an apply under way, and the end of one.
LEMMA ApplySteps ==
    ASSUME TypeOK, Grounds, NEW w \in Workers,
           Progress(w) \/ Refused(w) \/ Retry(w)
    PROVE  JobStep(w)
<1> DEFINE j == worker[w].job
<1>0. worker[w].pc \in Holding => /\ j \in Jobs /\ Current(j) /\ Own(w, j) /\ Ground(w)
                                  /\ mirror[j.invitation] = [revision |-> j.basis.revision, answer |-> "needsAction"]
                                  /\ worker[w].pc = "patch" => worker[w].match = j.basis.revision
  BY WorkerShape DEF Grounds, Ground, Own, Holding
<1>1. ASSUME worker[w].pc \in Holding, NEW status \in {"held", "superseded"}, Settles(w, j, status),
             UNCHANGED <<rule, mirror, pass, clock, facts>>
      PROVE  JobStep(w)
  BY <1>0, <1>1 DEF JobStep, Gives
<1>2. ASSUME worker[w].pc \in Holding, Applied(w), remote[j.invitation].answer = "declined",
             UNCHANGED <<remote, rule, mirror, pass, clock>>
      PROVE  JobStep(w)
  BY <1>0, <1>2 DEF JobStep, Declines, Applied
<1>3. CASE AskAvailability(w)
  <2>1. worker[w].pc \in Holding
    BY <1>3 DEF AskAvailability, Holding
  <2>2. UNCHANGED <<rule, mirror, pass, clock, facts>>
    BY <1>3 DEF AskAvailability, Untouched
  <2>3. CASE Settles(w, j, "superseded")
    BY <1>1, <2>1, <2>2, <2>3
  <2>4. CASE worker' = [worker EXCEPT ![w] = [pc |-> "read", job |-> j]] /\ UNCHANGED action
    <3>1. Moves(w)
      BY <1>0, <2>1, <2>2, <2>4, MovesOn DEF Holding
    <3> QED BY <3>1, <2>2 DEF JobStep
  <2> QED BY <1>3, <2>3, <2>4 DEF AskAvailability
<1>4. CASE ReadInvitation(w)
  <2>1. worker[w].pc \in Holding
    BY <1>4 DEF ReadInvitation, Holding
  <2>2. UNCHANGED <<remote, rule, mirror, pass, clock>>
    BY <1>4 DEF ReadInvitation, Untouched
  <2>3. CASE remote[j.invitation].answer = "declined" /\ Applied(w)
    BY <1>2, <2>1, <2>2, <2>3
  <2>4. CASE Settles(w, j, "held") /\ UNCHANGED facts
    BY <1>1, <2>1, <2>2, <2>4
  <2>5. CASE /\ AsEvaluated(w) /\ UNCHANGED <<action, facts>>
             /\ worker' = [worker EXCEPT ![w] =
                   [pc |-> "patch", job |-> j, match |-> remote[j.invitation].revision]]
    <3>1. remote[j.invitation].revision = j.basis.revision
      BY <2>5 DEF AsEvaluated
    <3>2. Moves(w)
      BY <1>0, <2>1, <2>2, <2>5, <3>1, MovesOn DEF Holding
    <3> QED BY <3>2, <2>2 DEF JobStep
  <2> QED BY <1>4, <2>3, <2>4, <2>5 DEF ReadInvitation
<1>5. CASE Patch(w)
  <2>1. worker[w].pc \in Holding
    BY <1>5 DEF Patch, Holding
  <2>2. UNCHANGED <<rule, mirror, pass, clock, facts>>
    BY <1>5 DEF Patch
  <2>3. CASE Settles(w, j, "held")
    BY <1>1, <2>1, <2>2, <2>3
  <2>4. CASE Awaits(w) /\ UNCHANGED action
    <3>1. Moves(w)
      BY <1>0, <2>1, <2>2, <2>4, MovesOn DEF Holding, Awaits
    <3> QED BY <3>1, <2>2 DEF JobStep
  <2> QED BY <1>5, <2>3, <2>4 DEF Patch
<1>6. CASE Verify(w)
  <2>1. worker[w].pc \in Holding
    BY <1>6 DEF Verify, Holding
  <2>2. UNCHANGED <<remote, rule, mirror, pass, clock>>
    BY <1>6 DEF Verify, Untouched
  <2> QED BY <1>1, <1>2, <1>6, <2>1, <2>2 DEF Verify
<1>7. CASE Refused(w)
  <2>1. UNCHANGED <<rule, mirror, pass, clock, facts>> /\ worker[w].pc \in Holding /\ Settles(w, j, "held")
    BY <1>7 DEF Refused, Untouched
  <2> QED BY <1>1, <2>1
<1>8. CASE Retry(w) \/ Finish(w)
  <2>1. /\ UNCHANGED <<rule, mirror, pass, clock, action, facts>>
        /\ worker'[w].pc \notin Holding /\ \A v \in Workers \ {w} : worker'[v] = worker[v]
    BY <1>8 DEF Retry, Finish, TypeOK, Idle, Holding
  <2> QED BY <2>1 DEF JobStep, Moves, Ground
<1> QED BY <1>3, <1>4, <1>5, <1>6, <1>7, <1>8 DEF Progress

\* A step of the rule's owner or of a pass, which has the rule's row.
OwnerStep(r) ==
    /\ RuleFree(r) /\ UNCHANGED <<worker, mirror, facts, clock, remote>>
    /\ \/ PrepareFails(r) \/ Activate(r) \/ Pause(r) \/ Resume(r) \/ Remove(r)
       \/ \E p \in Passes : pass[p].rule = r /\ rule[r] = "active" /\ Commit(p)

\* Any other step: no row of a rule changes, and no mirrored invitation in use does.
RestStep ==
    /\ UNCHANGED <<worker, rule, action, facts>> /\ clock <= clock'
    /\ \A i \in Invitations : mirror'[i] # mirror[i] => MirrorFree(i)

\* Every step is one of the three.
LEMMA RowSteps ==
    ASSUME TypeOK, Grounds, [Next]_vars
    PROVE  \/ \E w \in Workers : JobStep(w)
           \/ \E r \in Rules : OwnerStep(r)
           \/ RestStep
<1>0. clock \in Nat
  BY BoundShape DEF TypeOK
<1>1. ASSUME NEW p \in Passes, NEW r \in Rules, Prepare(p, r)
      PROVE  RestStep
  BY <1>0, <1>1 DEF Prepare, RestStep
<1>2. ASSUME NEW p \in Passes, Commit(p)
      PROVE  RestStep \/ \E r \in Rules : OwnerStep(r)
  <2>1. pass[p].pc = "prepared" /\ RuleFree(pass[p].rule)
    BY <1>2 DEF Commit
  <2>2. pass[p].rule \in Rules
    BY <2>1, PassShape
  <2>3. UNCHANGED <<remote, mirror, rule, facts, worker, clock>>
    BY <1>2 DEF Commit
  <2>4. CASE rule[pass[p].rule] # "active"
    <3>1. action' = action
      BY <1>2, <2>4 DEF Commit
    <3> QED BY <1>0, <2>3, <3>1 DEF RestStep
  <2>5. CASE rule[pass[p].rule] = "active"
    BY <1>2, <2>1, <2>2, <2>3, <2>5 DEF OwnerStep
  <2> QED BY <2>4, <2>5
<1>3. ASSUME NEW m \in wire, Land(m)
      PROVE  RestStep
  BY <1>0, <1>3 DEF Land, RestStep
<1>4. ASSUME NEW r \in Rules, PrepareFails(r) \/ Pause(r) \/ Resume(r) \/ Remove(r)
      PROVE  OwnerStep(r)
  BY <1>4 DEF PrepareFails, Pause, Resume, Remove, OwnerStep
<1>5. ASSUME NEW r \in Rules, Activate(r)
      PROVE  OwnerStep(r)
  <2>1. RuleFree(r)
    BY <1>5 DEF Activate, RuleFree, Grounds, Ground, Current
  <2> QED BY <1>5, <2>1 DEF Activate, OwnerStep
<1>6. ASSUME NEW i \in Touched, NEW answer \in Answers, Change(i, answer)
      PROVE  RestStep
  BY <1>0, <1>6 DEF Change, RestStep
<1>7. ASSUME NEW i \in Touched, NEW b \in 0..MaxBusy, PrivateChange(i, b)
      PROVE  RestStep
  BY <1>0, <1>7 DEF PrivateChange, RestStep
<1>8. ASSUME NEW i \in Invitations, Sync(i)
      PROVE  RestStep
  BY <1>0, <1>8 DEF Sync, RestStep, TypeOK
<1>9. ASSUME Tick \/ UNCHANGED vars
      PROVE  RestStep
  BY <1>0, <1>9 DEF Tick, vars, RestStep
<1> QED BY <1>1, <1>2, <1>3, <1>4, <1>5, <1>6, <1>7, <1>8, <1>9, BeginStep, ApplySteps DEF Next

\* What a pass writes: exactly what it reserves is pending, and nothing becomes applied.
LEMMA CommitEffect ==
    ASSUME TypeOK, NEW p \in Passes, Commit(p), rule[pass[p].rule] = "active"
    PROVE  /\ \A s \in Rules \ {pass[p].rule} : action'[s] = action[s]
           /\ \E S \in SUBSET Invitations :
                 /\ Reservable(p, S)
                 /\ \A i \in Invitations : action'[pass[p].rule][i].status = "pending" => i \in S
           /\ \A i \in Invitations : action'[pass[p].rule][i].status = "applied" =>
                 action'[pass[p].rule][i] = action[pass[p].rule][i]
<1> DEFINE r == pass[p].rule
           basis == pass[p].basis
<1>1. pass[p].pc = "prepared"
  BY DEF Commit
<1>2. r \in Rules /\ basis \in [Invitations -> Bases]
  BY <1>1, PassShape
<1> HIDE DEF r, basis
<1>3. PICK S \in SUBSET Invitations :
         /\ Reservable(p, S)
         /\ action' = [action EXCEPT ![r] = [i \in Invitations |->
                CASE i \in S -> [status |-> "pending", basis |-> basis[i]]
                  [] i \in Open(p) \ S -> [status |-> "held", basis |-> basis[i]]
                  [] i \notin Conflicts(p) /\ action[r][i].status \in {"pending", "held"} ->
                         [action[r][i] EXCEPT !.status = "superseded"]
                  [] OTHER -> action[r][i]]]
  BY DEF Commit, r, basis
<1> DEFINE row(i) == CASE i \in S -> [status |-> "pending", basis |-> basis[i]]
                       [] i \in Open(p) \ S -> [status |-> "held", basis |-> basis[i]]
                       [] i \notin Conflicts(p) /\ action[r][i].status \in {"pending", "held"} ->
                              [action[r][i] EXCEPT !.status = "superseded"]
                       [] OTHER -> action[r][i]
<1>4. ASSUME NEW i \in Invitations
      PROVE  /\ row(i).status = "pending" => i \in S
             /\ row(i).status = "applied" => row(i) = action[r][i]
  <2>1. action[r][i] \in Actions
    BY <1>2 DEF TypeOK
  <2>2. [action[r][i] EXCEPT !.status = "superseded"].status = "superseded"
    BY <2>1 DEF Actions
  <2>3. CASE i \in S
    BY <2>3
  <2>4. CASE i \in Open(p) \ S
    BY <2>4
  <2>5. CASE i \notin S /\ i \notin Open(p)
    <3>1. i \in Conflicts(p) => action[r][i].status = "applied"
      BY <2>5 DEF Open, r
    <3>2. CASE i \notin Conflicts(p) /\ action[r][i].status \in {"pending", "held"}
      BY <2>5, <3>2, <2>2
    <3>3. CASE ~(i \notin Conflicts(p) /\ action[r][i].status \in {"pending", "held"})
      BY <2>5, <3>1, <3>3
    <3> QED BY <3>2, <3>3
  <2> QED BY <2>3, <2>4, <2>5
<1> HIDE DEF row
<1>5. action' = [action EXCEPT ![r] = [i \in Invitations |-> row(i)]]
  BY <1>3 DEF row
<1>6. /\ \A i \in Invitations : action'[r][i] = row(i)
      /\ \A s \in Rules \ {r} : action'[s] = action[s]
  BY <1>2, <1>5 DEF TypeOK
<1> QED BY <1>3, <1>4, <1>6 DEF r

\* What such a step leaves: the other rules' rows, and no new pending or applied action
\* except what a pass reserves.
LEMMA OwnerEffect ==
    ASSUME TypeOK, OneLive, NEW r \in Rules, OwnerStep(r)
    PROVE  /\ \A s \in Rules \ {r} : rule'[s] = rule[s] /\ action'[s] = action[s]
           /\ \A i \in Invitations :
                 action'[r][i].status = "applied" => action'[r][i] = action[r][i]
           /\ OneLive'
           /\ \/ \A i \in Invitations : action'[r][i].status = "pending" =>
                    rule'[r] = "active" /\ action[r][i].status = "pending"
              \/ \E p \in Passes : /\ pass[p].rule = r /\ rule[r] = "active" /\ Commit(p)
                                   /\ rule' = rule
<1>1. CASE \E p \in Passes : pass[p].rule = r /\ rule[r] = "active" /\ Commit(p)
  <2>1. PICK p \in Passes : pass[p].rule = r /\ rule[r] = "active" /\ Commit(p)
    BY <1>1
  <2>2. rule' = rule
    BY <2>1 DEF Commit
  <2> QED BY <2>1, <2>2, CommitEffect DEF OneLive, Live
<1>2. CASE PrepareFails(r) \/ Pause(r) \/ Remove(r)
  <2>1. PICK from \in {{"pending"}, {"pending", "held"}}, to \in {"held", "superseded"} : Move(r, from, to)
    BY <1>2 DEF PrepareFails, Pause, Remove
  <2>2. Moved(r, from, to)
    BY <2>1, MoveEffect
  <2>3. \A s \in Rules \ {r} : action'[s] = action[s]
    BY <2>1 DEF Move, TypeOK
  <2>4. \A i \in Invitations : action'[r][i].status # "pending"
    BY <2>1, <2>2 DEF Moved
  <2>5. \A i \in Invitations : action'[r][i].status = "applied" => action'[r][i] = action[r][i]
    BY <2>1, <2>2 DEF Moved
  <2>6. /\ \A s \in Rules \ {r} : rule'[s] = rule[s]
        /\ rule'[r] \in {"active", "paused"} => Live(r)
    BY <1>2 DEF PrepareFails, Pause, Remove, TypeOK, Live
  <2>7. OneLive'
    BY <2>6 DEF OneLive, Live
  <2> QED BY <2>3, <2>4, <2>5, <2>6, <2>7
<1>3. CASE Activate(r) \/ Resume(r)
  <2>1. action' = action /\ \A s \in Rules \ {r} : rule'[s] = rule[s]
    BY <1>3 DEF Activate, Resume, TypeOK
  <2>2. rule'[r] = "active"
    BY <1>3 DEF Activate, Resume, TypeOK
  <2>3. OneLive'
    BY <1>3, <2>1 DEF Activate, Resume, OneLive, Live
  <2> QED BY <2>1, <2>2, <2>3
<1> QED BY <1>1, <1>2, <1>3 DEF OwnerStep

-----------------------------------------------------------------------------
(* The invariant, part by part.                                            *)

\* What a worker relies on stays when nobody touches it.
LEMMA GroundKept ==
    ASSUME NEW w \in Workers, Ground(w), worker'[w] = worker[w],
           worker[w].pc \in Holding =>
              /\ rule'[worker[w].job.rule] = rule[worker[w].job.rule]
              /\ action'[worker[w].job.rule][worker[w].job.invitation] =
                    action[worker[w].job.rule][worker[w].job.invitation]
              /\ mirror'[worker[w].job.invitation] = mirror[worker[w].job.invitation]
    PROVE  Ground(w)'
  BY DEF Ground, Current

\* Applies stay apart and keep their ground.
LEMMA GroundsPreserved ==
    ASSUME IInv, [Next]_vars
    PROVE  Grounds' /\ Exclusive'
<1>i. TypeOK /\ Grounds /\ Exclusive /\ OneLive
  BY DEF IInv
<1>0. ASSUME NEW v \in Workers
      PROVE  /\ Ground(v)
             /\ worker[v].pc \in Holding => /\ worker[v].job \in Jobs
                                            /\ worker[v].job.rule \in Rules
                                            /\ worker[v].job.invitation \in Invitations
  BY <1>i, WorkerShape, JobShape DEF Grounds, Holding
<1>1. ASSUME NEW w \in Workers, JobStep(w)
      PROVE  Grounds' /\ Exclusive'
  <2>1. ASSUME NEW j \in Jobs, Own(w, j), NEW v \in Workers \ {w}, worker[v].pc \in Holding
        PROVE  worker[v].job.rule # j.rule
    BY <1>i, <2>1 DEF Own, RuleFree, Exclusive
  <2>2. rule' = rule /\ mirror' = mirror
    BY <1>1 DEF JobStep
  <2>3. CASE Moves(w)
    <3>1. ASSUME NEW v \in Workers
          PROVE  Ground(v)'
      <4>1. CASE v = w
        BY <2>3, <4>1 DEF Moves
      <4>2. CASE v # w
        <5>1. worker'[v] = worker[v] /\ action' = action
          BY <2>3, <4>2 DEF Moves
        <5>2. Ground(v)
          BY <1>0
        <5> QED BY <2>2, <5>1, <5>2, GroundKept
      <4> QED BY <4>1, <4>2
    <3>2. Exclusive'
      <4>1. ASSUME NEW v \in Workers \ {w}, worker'[w].pc \in Holding, worker'[v].pc \in Holding
            PROVE  worker'[v].job.rule # worker'[w].job.rule
        BY <2>1, <2>3, <4>1 DEF Moves
      <4> QED BY <1>i, <2>3, <4>1 DEF Moves, Exclusive
    <3> QED BY <3>1, <3>2 DEF Grounds
  <2>4. ASSUME NEW j \in Jobs, NEW status, Settles(w, j, status), Own(w, j)
        PROVE  Grounds' /\ Exclusive'
    <3>0. Settled(w, j, status)
      BY <1>i, <2>4, SettleEffect
    <3>1. /\ worker'[w].pc \notin Holding
          /\ \A v \in Workers \ {w} : worker'[v] = worker[v]
      BY <3>0 DEF Settled, Holding
    <3>2. ASSUME NEW v \in Workers
          PROVE  Ground(v)'
      <4>1. CASE v = w
        BY <3>1, <4>1 DEF Ground
      <4>2. CASE v # w
        <5>1. worker'[v] = worker[v]
          BY <3>1, <4>2
        <5>2. worker[v].pc \in Holding => worker[v].job.rule # j.rule
          BY <2>1, <2>4, <4>2
        <5>3. worker[v].pc \in Holding =>
                 action'[worker[v].job.rule][worker[v].job.invitation] =
                    action[worker[v].job.rule][worker[v].job.invitation]
          BY <1>0, <3>0, <5>2 DEF Settled
        <5>4. Ground(v)
          BY <1>0
        <5> QED BY <2>2, <5>1, <5>3, <5>4, GroundKept
      <4> QED BY <4>1, <4>2
    <3> QED BY <1>i, <3>1, <3>2 DEF Grounds, Exclusive
  <2> QED BY <1>1, <2>3, <2>4 DEF JobStep, Gives, Declines
<1>2. ASSUME NEW r \in Rules, OwnerStep(r)
      PROVE  Grounds' /\ Exclusive'
  <2>1. worker' = worker /\ mirror' = mirror /\ RuleFree(r)
    BY <1>2 DEF OwnerStep
  <2>2. \A s \in Rules \ {r} : rule'[s] = rule[s] /\ action'[s] = action[s]
    BY <1>i, <1>2, OwnerEffect
  <2>3. ASSUME NEW v \in Workers
        PROVE  Ground(v)'
    <3>1. worker[v].pc \in Holding => worker[v].job.rule # r
      BY <2>1 DEF RuleFree
    <3>2. worker[v].pc \in Holding =>
             /\ rule'[worker[v].job.rule] = rule[worker[v].job.rule]
             /\ action'[worker[v].job.rule] = action[worker[v].job.rule]
      BY <1>0, <2>2, <3>1
    <3>3. Ground(v)
      BY <1>0
    <3> QED BY <2>1, <3>2, <3>3, GroundKept
  <2> QED BY <1>i, <2>1, <2>3 DEF Grounds, Exclusive
<1>3. ASSUME RestStep
      PROVE  Grounds' /\ Exclusive'
  <2>1. worker' = worker /\ rule' = rule /\ action' = action
    BY <1>3 DEF RestStep
  <2>2. ASSUME NEW v \in Workers
        PROVE  Ground(v)'
    <3>1. worker[v].pc \in Holding => ~MirrorFree(worker[v].job.invitation)
      BY DEF MirrorFree
    <3>2. worker[v].pc \in Holding => mirror'[worker[v].job.invitation] = mirror[worker[v].job.invitation]
      BY <1>0, <1>3, <3>1 DEF RestStep
    <3>3. Ground(v)
      BY <1>0
    <3> QED BY <2>1, <3>2, <3>3, GroundKept
  <2> QED BY <1>i, <2>1, <2>2 DEF Grounds, Exclusive
<1> QED BY <1>i, <1>1, <1>2, <1>3, RowSteps

\* One live rule, and reservations only of an active one.
LEMMA LivePreserved ==
    ASSUME IInv, [Next]_vars
    PROVE  OneLive' /\ PendingLive'
<1> USE DEF IInv
<1>1. ASSUME NEW w \in Workers, JobStep(w)
      PROVE  OneLive' /\ PendingLive'
  <2>1. rule' = rule
    BY <1>1 DEF JobStep
  <2>2. \A r \in Rules, i \in Invitations : action'[r][i].status = "pending" => action[r][i].status = "pending"
    <3>1. ASSUME NEW j \in Jobs, NEW status \in {"held", "superseded", "applied"}, Settles(w, j, status)
          PROVE  \A r \in Rules, i \in Invitations :
                    action'[r][i].status = "pending" => action[r][i].status = "pending"
      <4>1. Settled(w, j, status)
        BY <3>1, SettleEffect
      <4> QED BY <3>1, <4>1 DEF Settled
    <3> QED BY <1>1, <3>1 DEF JobStep, Moves, Gives, Declines
  <2> QED BY <2>1, <2>2 DEF OneLive, Live, PendingLive
<1>2. ASSUME NEW r \in Rules, OwnerStep(r)
      PROVE  OneLive' /\ PendingLive'
  <2>1. /\ \A s \in Rules \ {r} : rule'[s] = rule[s] /\ action'[s] = action[s]
        /\ OneLive'
        /\ \/ \A i \in Invitations : action'[r][i].status = "pending" => rule'[r] = "active"
           \/ rule' = rule /\ rule[r] = "active"
    BY <1>2, OwnerEffect
  <2> QED BY <2>1 DEF PendingLive
<1>3. ASSUME RestStep
      PROVE  OneLive' /\ PendingLive'
  BY <1>3 DEF RestStep, OneLive, Live, PendingLive
<1> QED BY <1>1, <1>2, <1>3, RowSteps

\* Time passes after a pass has begun.
LEMMA PassPreserved ==
    ASSUME IInv, [Next]_vars
    PROVE  PassPast'
<1>0. clock \in Nat /\ \A p \in Passes : pass[p].pc = "prepared" => pass[p].now \in Nat
  BY PassShape, BoundShape DEF IInv, TypeOK
<1>1. ASSUME NEW p \in Passes, NEW r \in Rules, Prepare(p, r)
      PROVE  PassPast'
  BY <1>0, <1>1 DEF Prepare, PassPast, IInv, TypeOK
<1>2. ASSUME NEW p \in Passes, Commit(p)
      PROVE  PassPast'
  <2>1. clock' = clock /\ pass' = [pass EXCEPT ![p] = Idle]
    BY <1>2 DEF Commit
  <2> QED BY <2>1 DEF PassPast, IInv, TypeOK, Idle
<1>3. CASE pass' = pass /\ clock' = clock
  BY <1>3 DEF PassPast, IInv
<1>4. CASE Tick
  BY <1>0, <1>4 DEF Tick, PassPast, IInv
<1> QED BY <1>1, <1>2, <1>3, <1>4 DEF Next, vars, Progress, Begin, AskAvailability, ReadInvitation, Patch,
       Verify, Refused, Retry, Finish, Land, PrepareFails, Activate, Pause, Resume, Remove, Change,
       PrivateChange, Sync, Untouched

\* Only an answered invitation is recorded as applied, and answers are never taken back.
LEMMA AnsweredPreserved ==
    ASSUME IInv, [Next]_vars
    PROVE  AppliedIsAnswered'
<1> USE DEF IInv
<1>0. \A i \in Invitations : /\ remote[i].revision <= remote'[i].revision
                             /\ remote[i].revision \in Nat /\ remote'[i].revision \in Nat
  BY MirrorPreserved, TypePreserved DEF TypeOK, Versions
<1>1. SUFFICES ASSUME NEW r \in Rules, NEW i \in Invitations, action'[r][i].status = "applied"
               PROVE  remote'[i].revision > action'[r][i].basis.revision
  BY DEF AppliedIsAnswered
<1>2. action'[r][i].basis.revision \in Nat
  BY TypePreserved DEF TypeOK, Actions, Bases
<1>3. CASE action'[r][i] = action[r][i]
  BY <1>0, <1>1, <1>2, <1>3 DEF AppliedIsAnswered
<1>4. ASSUME NEW w \in Workers, JobStep(w)
      PROVE  remote'[i].revision > action'[r][i].basis.revision
  <2>1. CASE Moves(w)
    BY <1>3, <2>1 DEF Moves
  <2>2. ASSUME NEW j \in Jobs, NEW status \in {"held", "superseded"}, Gives(w, j, status)
        PROVE  action'[r][i] = action[r][i]
    <3>1. Settled(w, j, status)
      BY <2>2, SettleEffect DEF Gives
    <3> QED BY <1>1, <2>2, <3>1 DEF Settled
  <2>3. ASSUME NEW j \in Jobs, Declines(w, j)
        PROVE  remote'[i].revision > action'[r][i].basis.revision
    <3>0. Settled(w, j, "applied")
      BY <2>3, SettleEffect DEF Declines
    <3>1. CASE r = j.rule /\ i = j.invitation
      <4>1. action[r][i].basis = j.basis
        BY <2>3, <3>1 DEF Declines, Current
      <4>2. action'[r][i].basis = j.basis
        BY <3>0, <3>1, <4>1 DEF Settled
      <4>3. /\ mirror[i] = [revision |-> j.basis.revision, answer |-> "needsAction"]
            /\ remote[i].answer = "declined" /\ remote' = remote
        BY <2>3, <3>1 DEF Declines
      <4>4. mirror[i].revision <= remote[i].revision /\ mirror[i].revision # remote[i].revision
        BY <4>3 DEF MirrorBehind
      <4> QED BY <1>0, <1>2, <4>2, <4>3, <4>4
    <3>2. CASE ~(r = j.rule /\ i = j.invitation)
      BY <1>3, <3>0, <3>2 DEF Settled
    <3> QED BY <3>1, <3>2
  <2> QED BY <1>3, <1>4, <2>1, <2>2, <2>3 DEF JobStep
<1>5. ASSUME NEW s \in Rules, OwnerStep(s)
      PROVE  action'[r][i] = action[r][i]
  BY <1>1, <1>5, OwnerEffect
<1>6. ASSUME RestStep
      PROVE  action'[r][i] = action[r][i]
  BY <1>6 DEF RestStep
<1> QED BY <1>3, <1>4, <1>5, <1>6, RowSteps

-----------------------------------------------------------------------------
(* The budget.                                                             *)

\* Facts in the window and reservations can be counted.
LEMMA Countable ==
    ASSUME TypeOK
    PROVE  /\ IsFiniteSet(Pending) /\ Cardinality(Pending) \in Nat
           /\ \A now \in Nat : IsFiniteSet(Recent(facts, now)) /\ Declined(now) \in Nat
<1>1. IsFiniteSet(Rules \X Invitations)
  BY ResponseAssumption, FS_Product
<1>2. Pending \in SUBSET (Rules \X Invitations)
  BY DEF Pending
<1>3. IsFiniteSet(Pending) /\ Cardinality(Pending) \in Nat
  BY <1>1, <1>2, FS_Subset, FS_CardinalityType
<1>4. ASSUME NEW now \in Nat
      PROVE  IsFiniteSet(Recent(facts, now)) /\ Declined(now) \in Nat
  <2>1. DOMAIN facts = 1..Len(facts) /\ Len(facts) \in Nat
    BY DEF TypeOK
  <2>2. IsFiniteSet(1..Len(facts))
    BY <2>1, FS_Interval
  <2>3. Recent(facts, now) \in SUBSET (1..Len(facts))
    BY <2>1 DEF Recent
  <2> QED BY <2>2, <2>3, FS_Subset, FS_CardinalityType DEF Declined
<1> QED BY <1>3, <1>4

\* The window moves on: what has left it does not come back.
LEMMA WindowMoves ==
    ASSUME TypeOK, NEW from \in Nat, NEW to \in Nat, from <= to
    PROVE  Declined(to) <= Declined(from)
<1>1. ASSUME NEW k \in Recent(facts, to)
      PROVE  k \in Recent(facts, from)
  <2>1. k \in DOMAIN facts /\ facts[k] + Window >= to
    BY DEF Recent
  <2>2. facts[k] \in Nat
    <3>1. facts \in Seq(Times)
      BY DEF TypeOK
    <3>2. facts[k] \in Times
      BY <2>1, <3>1
    <3> QED BY <3>2, BoundShape
  <2> QED BY <2>1, <2>2, BoundShape DEF Recent
<1>2. Recent(facts, to) \in SUBSET Recent(facts, from)
  BY <1>1
<1> QED BY <1>2, Countable, FS_Subset DEF Declined

\* Fewer reservations and no new fact keep the budget.
LEMMA BudgetShrinks ==
    ASSUME TypeOK, TypeOK', WithinBudget, facts' = facts, clock <= clock',
           \A r \in Rules, i \in Invitations :
              action'[r][i].status = "pending" => action[r][i].status = "pending"
    PROVE  WithinBudget'
<1>1. clock \in Nat /\ clock' \in Nat
  BY BoundShape DEF TypeOK
<1>2. Declined(clock)' = Declined(clock')
  BY DEF Declined, Recent
<1>3. Declined(clock') <= Declined(clock)
  BY <1>1, WindowMoves
<1>4. Pending' \in SUBSET Pending
  BY DEF Pending
<1>5. Cardinality(Pending') <= Cardinality(Pending) /\ Cardinality(Pending') \in Nat
  BY <1>4, Countable, FS_Subset, FS_CardinalityType
<1>6. Declined(clock) \in Nat /\ Declined(clock') \in Nat /\ Cardinality(Pending) \in Nat
  BY <1>1, Countable
<1> QED BY <1>2, <1>3, <1>5, <1>6, BoundShape DEF WithinBudget

\* A decline turns its reservation into a fact.
LEMMA BudgetTurns ==
    ASSUME TypeOK, WithinBudget, NEW w \in Workers, NEW j \in Jobs, Declines(w, j), clock' = clock
    PROVE  WithinBudget'
<1>1. clock \in Nat /\ clock \in Times
  BY BoundShape DEF TypeOK
<1> DEFINE x == <<j.rule, j.invitation>>
           n == Len(facts) + 1
<1>2. j.rule \in Rules /\ j.invitation \in Invitations
  BY JobShape
<1>3. Settled(w, j, "applied") /\ facts' = Append(facts, clock)
  BY SettleEffect DEF Declines
<1>4. x \in Pending
  BY <1>2 DEF Declines, Current, Pending
<1>5. Pending' \in SUBSET (Pending \ {x})
  <2> SUFFICES ASSUME NEW y \in Rules \X Invitations, action'[y[1]][y[2]].status = "pending"
               PROVE  action[y[1]][y[2]].status = "pending" /\ y # x
    BY DEF Pending
  <2>1. y[1] \in Rules /\ y[2] \in Invitations
    OBVIOUS
  <2>2. ~(y[1] = j.rule /\ y[2] = j.invitation) /\ action'[y[1]][y[2]] = action[y[1]][y[2]]
    BY <1>3, <2>1 DEF Settled
  <2> QED BY <2>2
<1>6. /\ IsFiniteSet(Pending \ {x})
      /\ Cardinality(Pending \ {x}) = Cardinality(Pending) - 1
  BY <1>4, Countable, FS_RemoveElement
<1>7. Cardinality(Pending') <= Cardinality(Pending) - 1 /\ Cardinality(Pending') \in Nat
  BY <1>5, <1>6, FS_Subset, FS_CardinalityType
<1>8. Recent(facts', clock) \in SUBSET (Recent(facts, clock) \cup {n})
  <2> SUFFICES ASSUME NEW k \in DOMAIN facts', facts'[k] + Window >= clock, k # n
               PROVE  k \in DOMAIN facts /\ facts[k] + Window >= clock
    BY DEF Recent
  <2>1. facts \in Seq(Times)
    BY DEF TypeOK
  <2>2. k \in 1..Len(facts) /\ facts'[k] = facts[k]
    BY <1>1, <1>3, <2>1
  <2> QED BY <2>1, <2>2
<1>9. /\ IsFiniteSet(Recent(facts, clock) \cup {n})
      /\ Cardinality(Recent(facts, clock) \cup {n}) <= Declined(clock) + 1
      /\ Cardinality(Recent(facts, clock) \cup {n}) \in Nat /\ Declined(clock) \in Nat
  <2>1. IsFiniteSet(Recent(facts, clock)) /\ Cardinality(Recent(facts, clock)) \in Nat
    BY <1>1, Countable DEF Declined
  <2>2. /\ IsFiniteSet(Recent(facts, clock) \cup {n})
        /\ \/ Cardinality(Recent(facts, clock) \cup {n}) = Cardinality(Recent(facts, clock))
           \/ Cardinality(Recent(facts, clock) \cup {n}) = Cardinality(Recent(facts, clock)) + 1
    BY <2>1, FS_AddElement
  <2> QED BY <2>1, <2>2 DEF Declined
<1>10. /\ Cardinality(Recent(facts', clock)) <= Cardinality(Recent(facts, clock) \cup {n})
       /\ Cardinality(Recent(facts', clock)) \in Nat
  BY <1>8, <1>9, FS_Subset, FS_CardinalityType
<1>11. Declined(clock)' = Cardinality(Recent(facts', clock))
  BY DEF Declined, Recent
<1>12. Cardinality(Pending) \in Nat
  BY Countable
<1> QED BY <1>7, <1>9, <1>10, <1>11, <1>12, BoundShape DEF WithinBudget

\* A pass reserves no more than the window leaves.
LEMMA BudgetReserved ==
    ASSUME IInv, NEW p \in Passes, Commit(p), rule[pass[p].rule] = "active"
    PROVE  WithinBudget'
<1> DEFINE r == pass[p].rule
           now == pass[p].now
<1>0. TypeOK /\ PassPast /\ WithinBudget /\ PendingLive /\ OneLive
  BY DEF IInv
<1>1. pass[p].pc = "prepared" /\ facts' = facts /\ clock' = clock /\ rule' = rule
  BY DEF Commit
<1>2. r \in Rules /\ now \in Nat /\ clock \in Nat /\ now <= clock
  BY <1>0, <1>1, PassShape, BoundShape DEF PassPast, TypeOK
<1>3. PICK S \in SUBSET Invitations :
         /\ Reservable(p, S)
         /\ \A i \in Invitations : action'[r][i].status = "pending" => i \in S
  BY <1>0, CommitEffect
<1>4. \A s \in Rules \ {r} : action'[s] = action[s]
  BY <1>0, CommitEffect
<1>5. \A s \in Rules \ {r}, i \in Invitations : action[s][i].status # "pending"
  BY <1>0, <1>2 DEF PendingLive, OneLive, Live
<1>6. IsFiniteSet(S) /\ Cardinality(S) \in Nat
  BY ResponseAssumption, FS_Subset, FS_CardinalityType
<1>7. Pending' \in SUBSET ({r} \X S)
  <2> SUFFICES ASSUME NEW y \in Rules \X Invitations, action'[y[1]][y[2]].status = "pending"
               PROVE  y[1] = r /\ y[2] \in S
    BY DEF Pending
  <2>1. y[1] \in Rules /\ y[2] \in Invitations
    OBVIOUS
  <2> QED BY <1>3, <1>4, <1>5, <2>1
<1>8. /\ IsFiniteSet({r} \X S) /\ Cardinality({r} \X S) = Cardinality(S)
  <2>1. IsFiniteSet({r}) /\ Cardinality({r}) = 1
    BY FS_Singleton
  <2>2. IsFiniteSet({r} \X S) /\ Cardinality({r} \X S) = Cardinality({r}) * Cardinality(S)
    BY <1>6, <2>1, FS_Product
  <2> QED BY <1>6, <2>1, <2>2
<1>9. Cardinality(Pending') <= Cardinality(S) /\ Cardinality(Pending') \in Nat
  BY <1>7, <1>8, FS_Subset, FS_CardinalityType
<1>10. Declined(clock) <= Declined(now) /\ Declined(clock) \in Nat /\ Declined(now) \in Nat
  BY <1>0, <1>2, WindowMoves, Countable
<1>11. Declined(clock)' = Declined(clock)
  BY <1>1 DEF Declined, Recent
<1>12. CASE S = {}
  <2>1. Cardinality(S) = 0
    BY <1>12, FS_EmptySet
  <2>2. Declined(clock) + Cardinality(Pending) <= Budget /\ Cardinality(Pending) \in Nat
    BY <1>0, Countable DEF WithinBudget
  <2> QED BY <1>9, <1>10, <1>11, <2>1, <2>2, BoundShape DEF WithinBudget
<1>13. CASE S # {}
  <2>1. Declined(now) + Cardinality(S) <= Budget
    BY <1>3, <1>13 DEF Reservable
  <2> QED BY <1>6, <1>9, <1>10, <1>11, <2>1, BoundShape DEF WithinBudget
<1> QED BY <1>12, <1>13

\* Every step keeps the budget.
LEMMA BudgetPreserved ==
    ASSUME IInv, [Next]_vars
    PROVE  WithinBudget'
<1>0. TypeOK /\ TypeOK' /\ Grounds /\ WithinBudget /\ OneLive /\ PendingLive
  BY TypePreserved DEF IInv
<1>00. clock \in Nat
  BY <1>0, BoundShape DEF TypeOK
<1>1. ASSUME NEW w \in Workers, JobStep(w)
      PROVE  WithinBudget'
  <2>1. clock' = clock
    BY <1>1 DEF JobStep
  <2>2. CASE Moves(w)
    BY <1>0, <1>00, <2>1, <2>2, BudgetShrinks DEF Moves
  <2>3. ASSUME NEW j \in Jobs, NEW status \in {"held", "superseded"}, Gives(w, j, status)
        PROVE  WithinBudget'
    <3>1. Settled(w, j, status) /\ facts' = facts
      BY <1>0, <2>3, SettleEffect DEF Gives
    <3>2. \A r \in Rules, i \in Invitations :
             action'[r][i].status = "pending" => action[r][i].status = "pending"
      BY <2>3, <3>1 DEF Settled
    <3> QED BY <1>0, <1>00, <2>1, <3>1, <3>2, BudgetShrinks
  <2> QED BY <1>0, <1>1, <2>1, <2>2, <2>3, BudgetTurns DEF JobStep
<1>2. ASSUME NEW r \in Rules, OwnerStep(r)
      PROVE  WithinBudget'
  <2>1. CASE \E p \in Passes : pass[p].rule = r /\ rule[r] = "active" /\ Commit(p)
    BY <2>1, BudgetReserved
  <2>2. CASE ~ \E p \in Passes : pass[p].rule = r /\ rule[r] = "active" /\ Commit(p)
    <3>1. \A s \in Rules, i \in Invitations :
             action'[s][i].status = "pending" => action[s][i].status = "pending"
      BY <1>0, <1>2, <2>2, OwnerEffect
    <3>2. facts' = facts /\ clock' = clock
      BY <1>2 DEF OwnerStep
    <3> QED BY <1>0, <1>00, <3>1, <3>2, BudgetShrinks
  <2> QED BY <2>1, <2>2
<1>3. ASSUME RestStep
      PROVE  WithinBudget'
  BY <1>0, <1>3, BudgetShrinks DEF RestStep
<1> QED BY <1>0, <1>1, <1>2, <1>3, RowSteps

-----------------------------------------------------------------------------
(* The theorems.                                                           *)

\* In the beginning there are no rules, reservations or facts.
LEMMA InitIInv == Init => IInv
<1> SUFFICES ASSUME Init PROVE IInv
  OBVIOUS
<1>1. TypeOK
  <2>1. /\ remote \in [Invitations -> Versions] /\ mirror \in [Invitations -> Versions]
        /\ busy \in [Invitations -> Nat] /\ rule \in [Rules -> {"none", "active", "paused", "deleted"}]
    BY DEF Init, Versions, Answers
  <2>2. action \in [Rules -> [Invitations -> Actions]]
    BY DEF Init, Actions, NoAction, NoBasis, Bases
  <2>3. /\ jobs \subseteq Jobs /\ wire \subseteq Requests
        /\ facts \in Seq(Times) /\ declines \in Seq(Times) /\ clock \in Times
    BY BoundShape DEF Init, Times
  <2>4. pass \in [Passes -> PassStates] /\ worker \in [Workers -> WorkerStates]
    BY DEF Init, PassStates, WorkerStates
  <2> QED BY <2>1, <2>2, <2>3, <2>4 DEF TypeOK
<1>2. Grounds /\ Exclusive
  BY DEF Init, Grounds, Ground, Exclusive, Idle, Holding
<1>3. MirrorBehind /\ WireBehind
  BY DEF Init, MirrorBehind, WireBehind
<1>4. OneLive /\ PassPast
  BY DEF Init, OneLive, Live, PassPast, Idle
<1>5. \A r \in Rules, i \in Invitations : action[r][i].status = "none"
  BY DEF Init, NoAction
<1>6. PendingLive /\ AppliedIsAnswered
  BY <1>5 DEF PendingLive, AppliedIsAnswered
<1>7. WithinBudget
  <2>1. Pending = {}
    BY <1>5 DEF Pending
  <2>2. Recent(facts, clock) = {}
    BY DEF Init, Recent
  <2> QED BY <2>1, <2>2, FS_EmptySet, BoundShape DEF WithinBudget, Declined
<1> QED BY <1>1, <1>2, <1>3, <1>4, <1>6, <1>7 DEF IInv

\* Every step keeps the invariant.
LEMMA NextIInv == IInv /\ [Next]_vars => IInv'
<1> SUFFICES ASSUME IInv, [Next]_vars PROVE IInv'
  OBVIOUS
<1>1. TypeOK' /\ MirrorBehind' /\ WireBehind'
  BY TypePreserved, MirrorPreserved, WirePreserved DEF IInv
<1> QED BY <1>1, GroundsPreserved, LivePreserved, PassPreserved, AnsweredPreserved, BudgetPreserved DEF IInv

\* The inductive invariant: applies that hold the locks of apply() keep what they read,
\* and the rows that reconcile() and apply() write agree with jobs, facts and invitations.
THEOREM Invariance == Spec => []IInv
  BY InitIInv, NextIInv, PTL DEF Spec

\* Actions, jobs, passes and applies keep their shape, for every number of each.
THEOREM TypeCorrect == Spec => []TypeOK
<1>1. IInv => TypeOK
  BY DEF IInv
<1> QED BY <1>1, Invariance, PTL

\* The budget check of reconcile() and the audit fact of apply() keep applied and reserved
\* declines together within the budget, although passes read without a lock.
THEOREM BudgetHolds == Spec => []WithinBudget
<1>1. IInv => WithinBudget
  BY DEF IInv
<1> QED BY <1>1, Invariance, PTL

\* What apply() has checked in the database holds until it commits: setPaused, remove and
\* the commit of a pass wait for its row locks.
THEOREM GroundHolds == Spec => []ApplyKeepsItsGround
<1>1. IInv => ApplyKeepsItsGround
  <2> SUFFICES ASSUME IInv, NEW w \in Workers, worker[w].pc \in Holding
               PROVE  /\ Current(worker[w].job)
                      /\ mirror[worker[w].job.invitation].revision = worker[w].job.basis.revision
    BY DEF ApplyKeepsItsGround
  <2>1. Ground(w)
    BY DEF IInv, Grounds
  <2> QED BY <2>1 DEF Ground
<1> QED BY <1>1, Invariance, PTL

\* The verification of declineInvitation: an action is recorded as applied only when the
\* provider's revision of the invitation is later than the evaluated one.
THEOREM AnswersHold == Spec => []AppliedIsAnswered
<1>1. IInv => AppliedIsAnswered
  BY DEF IInv
<1> QED BY <1>1, Invariance, PTL

\* The If-Match of declineInvitation: a decline takes effect, early or late, only on the
\* version that is mirrored and unanswered.
THEOREM DeclinesHold == Spec => DeclinesAsMirrored
<1>1. IInv /\ [Next]_vars =>
         [\A i \in Invitations : remote'[i] # remote[i] /\ declines' # declines =>
             remote[i] = mirror[i] /\ remote[i].answer = "needsAction"]_vars
  <2> SUFFICES ASSUME IInv, [Next]_vars, NEW i \in Invitations,
                      remote'[i] # remote[i], declines' # declines
               PROVE  remote[i] = mirror[i] /\ remote[i].answer = "needsAction"
    OBVIOUS
  <2>1. PICK m \in Requests : Lands(m)
    BY CalendarSteps DEF IInv, Quiet, Changes, Syncs
  <2>2. m.invitation \in Invitations /\ m.match \in Nat
    BY DEF Requests
  <2>3. i = m.invitation
    BY <2>1, <2>2 DEF Lands, Takes, IInv, TypeOK
  <2>4. remote[i].revision = m.match /\ Behind(m)
    BY <2>1, <2>3 DEF Lands, Takes
  <2>5. mirror[i].revision \in Nat /\ remote[i].revision \in Nat
    BY DEF IInv, TypeOK, Versions
  <2> QED BY <2>3, <2>4, <2>5 DEF Behind, IInv, MirrorBehind
<1> QED BY <1>1, Invariance, PTL DEF Spec, DeclinesAsMirrored
=============================================================================
