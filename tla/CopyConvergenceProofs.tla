----------------------- MODULE CopyConvergenceProofs -----------------------
(***************************************************************************)
(* Proofs about CopySync for any number of workers, reconcile passes,      *)
(* source versions, generations, queued effects and faults: no copy is     *)
(* left behind, nobody else's event is touched, and "converged" is true.   *)
(*                                                                         *)
(* None of the three holds without a condition.  The code has five narrow  *)
(* gaps, each a statement about a single moment that the hypotheses below  *)
(* exclude; the theorems say that there are no others.  The last section   *)
(* shows environments in which no gap is ever open.                        *)
(***************************************************************************)
EXTENDS CopySyncProofs

\* A live event with ownership markers, under the id of generation g.
Ours(g) == dest[g].st = "live" /\ dest[g].mark # 0

\* The event of the current generation is live and at the revision that the projection
\* recorded.
Legible == Has(proj) /\ Target.st = "live" /\ Target.rev = proj.etag

-----------------------------------------------------------------------------
(* The hypotheses.                                                         *)

\* While a create that was applied is not recorded, because its answer was lost, the
\* occurrence stays selected.  (The deletion of a projection without an event id makes
\* no provider call, effects.ts:420.)
Recorded == ~Has(proj) /\ Ours(proj.gen) => Included(source.version)

\* The policy is not paused while the recovery of a copy held for its ownership waits.
\* (defer() forgets that the recovery has to look before it writes, effects.ts:615.)
RecoveryRuns == policy = "paused" /\ proj.own = "ambiguous" => Waiting(effect) = {}

\* A version that reads like the planned copy is observed before the projection knows of
\* it only where that copy is in place.  (An update overtaken by such a version is
\* superseded and not planned again, effects.ts:276.)
UpdateInPlace ==
    /\ Legible /\ proj.own = "attached" /\ proj.want # NoCopy
    /\ proj.want.body = Copy[source.version] /\ proj.basis # source.version
    => Target.body = proj.want.body

\* An occurrence whose deletion is planned does not return before the copy is deleted.
\* (The evaluator has no fingerprint to compare with and plans nothing, evaluate.ts:342.)
DeleteInPlace ==
    Has(proj) /\ proj.own = "attached" /\ proj.want = NoCopy => ~Included(source.version)

\* While the verifier looks at a copy, the projection is not carried over to a version
\* that reads the same.  (The repair is planned for the version that was loaded and is
\* superseded, verification.ts:363.)
RepairInPlace == check.pc # "idle" /\ check.want = proj.want => check.basis = proj.basis

NotOvertaken == UpdateInPlace /\ DeleteInPlace /\ RepairInPlace

-----------------------------------------------------------------------------
(* The invariants.                                                         *)

\* What the projection, the verifier and an executor know of the calendar: ids of later
\* generations are unused, a recorded revision is a past or present one, and a copy that
\* was missing when the verifier looked has an id that cannot be used again.
Tracked ==
    /\ \A g \in Gens : g > proj.gen => dest[g].st = "never"
    /\ Has(proj) => Target.st # "never"
    /\ proj.etag <= Target.rev
    /\ \A w \in Workers : Writing(w) => worker[w].rev <= Target.rev

Sighted ==
    /\ check.pc # "idle" => dest[check.gen].st # "never"
    /\ check.pc = "seen" =>
          /\ check.rev <= dest[check.gen].rev
          /\ check.sight = "missing" => dest[check.gen].st = "gone"
          /\ /\ check.sight = "drifted" /\ dest[check.gen].st = "live"
             /\ check.rev = dest[check.gen].rev
             => dest[check.gen].mark # 0

\* Version v is not selected any more.
Departed(v) == Copy[v] = "none" \/ source.horizon = "outside"

\* A delete effect is of a version that is not selected, and the projection wants no copy
\* of that version.
Parting(fx, basis, want) ==
    \A e \in Ids : fx[e].state # "none" /\ fx[e].op = "delete" =>
        Departed(fx[e].basis) /\ (fx[e].basis = basis => want = NoCopy)

\* Nothing is planned for a version that was not observed; a wanted copy is marked with
\* the current generation; a deletion is planned only of what is not selected.
Evident ==
    /\ \A r \in Reconcilers : recon[r].version <= source.version
    /\ proj.basis <= source.version
    /\ proj.want # NoCopy => proj.want.gen = proj.gen
    /\ proj.rec = "delete" => proj.want = NoCopy /\ Departed(proj.basis)
    /\ Parting(effect, proj.basis, proj.want)

\* The recorded revision is that of an event without our markers only while the copy is
\* held for its ownership, and whatever then waits looks before it writes.
Exposed == Legible /\ Target.mark = 0

Careful(fx) == \A e \in Waiting(fx) : fx[e].op = "create" \/ fx[e].mode = "ambiguous"

Watched == Exposed => proj.own = "ambiguous" /\ Careful(effect)

\* A worker about to change or delete an event would change one of ours.
Guarded ==
    \A w \in Workers :
        Writing(w) /\ worker[w].call # "create" /\ Target.st = "live" /\ worker[w].rev = Target.rev
        => Target.mark # 0

\* An effect that will write the wanted copy of version v.
Pays(x, v, want) == x.state # "none" /\ x.op # "delete" /\ x.basis = v /\ x.want = want

\* A copy that is known not to show the current version, and a write of it that waits.
Wrong ==
    /\ Legible /\ proj.own = "attached" /\ proj.want # NoCopy /\ proj.basis = source.version
    /\ Target.body # Copy[source.version]

Paid(fx) == \E e \in Ids : Pays(fx[e], source.version, proj.want)

\* A wrong copy is owed a write: it is queued, or recorded for the decision or the retry
\* that the projection waits for.
Owed == Wrong => Paid(effect) \/ (proj.rec # "none" /\ Blocked)

-----------------------------------------------------------------------------
(* Steps of an executor, with what they do to the destination.             *)

\* The write that worker w is at is carried out.
Applied(w) == Writing(w) /\ Accepted(w) /\ dest' = [dest EXCEPT ![proj.gen] = Written(w)]

\* The worker goes on: to a lookup, to a creation, to a write at the revision that it
\* just saw of a copy of ours, or to one at the recorded revision.
Turns(w) ==
    LET e == worker[w].job
    IN  /\ UNCHANGED <<proj, effect, dest>>
        /\ \E pc \in {"lookup", "write", "reread", "rewrite"}, call \in Ops, rev \in Nat :
              /\ Stage(w, pc, call, rev)
              /\ \/ pc \in {"lookup", "reread"}
                 \/ call = "create" /\ rev = 0
                 \/ rev = Target.rev /\ Target.st = "live" /\ Belongs
                 \/ rev = proj.etag /\ Has(proj) /\ effect[e].op # "create"
                    /\ effect[e].mode # "ambiguous"

\* A generation ends: its event is not there, or was never recorded.
Ends(w) ==
    /\ effect[worker[w].job].op = "delete" /\ Succeed(w, 0)
    /\ Target.st # "live" \/ ~Has(proj)

Deed(w) ==
    \/ Release(w) /\ UNCHANGED <<proj, effect>> /\ (dest' = dest \/ Applied(w))
    \/ /\ Holder(w) /\ \A v \in Workers : Busy(v) => v = w
       /\ \/ policy = "paused" /\ Defer(w) /\ dest' = dest
          \/ /\ \E retryable, ambiguous \in BOOLEAN : Fail(w, retryable, ambiguous)
             /\ dest' = dest \/ Applied(w)
          \/ ~CurrentBasis(worker[w].job) /\ Supersede(w) /\ dest' = dest
          \/ HoldAmbiguous(w) /\ dest' = dest
          \/ CurrentBasis(worker[w].job) /\ Applied(w) /\ Succeed(w, Target.rev + 1)
          \/ CurrentBasis(worker[w].job) /\ Ends(w) /\ dest' = dest
          \/ /\ effect[worker[w].job].op # "delete" /\ Target.st # "live"
             /\ Replace(w) /\ dest' = dest
          \/ Turns(w)

\* The executor's checks before its first call, and that call.
LEMMA BeginDeed ==
    ASSUME Base, NEW w \in Workers, Begin(w)
    PROVE  Deed(w)
<1> DEFINE e == worker[w].job
<1>1. /\ e \in Ids /\ ~Locked /\ policy \in {"active", "paused"}
      /\ \A v \in Workers : Busy(v) => v = w
  BY Unlocked DEF Begin, Base, Shape, Working, TypeOK
<1>2. effect[e].op \in Ops /\ proj.etag \in Nat /\ 0 \in Nat
  BY <1>1 DEF Base, Shape, TypeOK, Effect, Projection
<1>3. CASE ~Holder(w)
  BY <1>3 DEF Begin, Deed
<1>4. CASE Holder(w) /\ policy = "paused"
  <2>1. Defer(w) /\ dest' = dest
    BY <1>4 DEF Begin, Defer
  <2> QED BY <1>1, <1>4, <2>1 DEF Deed
<1>5. CASE Holder(w) /\ policy # "paused" /\ conn # "on"
  <2>1. Fail(w, FALSE, FALSE) /\ dest' = dest
    BY <1>5 DEF Begin
  <2> QED BY <1>1, <1>5, <2>1 DEF Deed
<1>6. CASE Holder(w) /\ policy # "paused" /\ conn = "on" /\ ~CurrentBasis(e)
  <2>1. Supersede(w) /\ dest' = dest
    BY <1>6 DEF Begin, Supersede
  <2> QED BY <1>1, <1>6, <2>1 DEF Deed
<1>7. CASE Holder(w) /\ policy # "paused" /\ conn = "on" /\ CurrentBasis(e)
  <2>1. Start(w) /\ dest' = dest
    BY <1>7 DEF Begin, Start
  <2>2. CASE Stage(w, "lookup", effect[e].op, 0) /\ UNCHANGED <<proj, effect>>
    <3>1. Turns(w)
      BY <1>2, <2>1, <2>2 DEF Turns
    <3> QED BY <1>1, <1>7, <3>1 DEF Deed
  <2>3. CASE /\ Has(proj) /\ effect[e].op # "create" /\ effect[e].mode # "ambiguous"
             /\ Stage(w, "write", effect[e].op, proj.etag) /\ UNCHANGED <<proj, effect>>
    <3>1. Turns(w)
      BY <1>2, <2>1, <2>3 DEF Turns
    <3> QED BY <1>1, <1>7, <3>1 DEF Deed
  <2>4. CASE Stage(w, "write", "create", 0) /\ UNCHANGED <<proj, effect>>
    <3>1. Turns(w)
      BY <1>2, <2>1, <2>4 DEF Turns, Ops
    <3> QED BY <1>1, <1>7, <3>1 DEF Deed
  <2>5. CASE ~Has(proj) /\ effect[e].op = "delete" /\ Succeed(w, 0)
    BY <1>1, <1>7, <2>1, <2>5 DEF Deed, Ends
  <2> QED BY <2>1, <2>2, <2>3, <2>4, <2>5 DEF Start
<1> QED BY <1>3, <1>4, <1>5, <1>6, <1>7

\* The provider's answer to a lookup.
LEMMA LookupDeed ==
    ASSUME Base, NEW w \in Workers, Lookup(w)
    PROVE  Deed(w)
<1> DEFINE e == worker[w].job
           op == effect[e].op
           next == IF worker[w].pc = "reread" THEN "rewrite" ELSE "write"
           call == IF op = "delete" THEN "delete" ELSE "update"
<1>1. Busy(w) /\ dest' = dest
  BY DEF Lookup, Busy
<1>2. /\ next \in {"lookup", "write", "reread", "rewrite"} /\ call \in Ops /\ "create" \in Ops
      /\ 0 \in Nat
  BY DEF Ops
<1>3. /\ Holder(w) /\ CurrentBasis(e) /\ Target.rev \in Nat
      /\ \A v \in Workers : Busy(v) => v = w
  BY <1>1, BusyFacts
<1>4. \/ Stage(w, next, "create", 0) /\ UNCHANGED <<proj, effect>>
      \/ Target.st # "live" /\ op = "delete" /\ Succeed(w, 0)
      \/ Target.st # "live" /\ op \in {"update", "create"} /\ Replace(w)
      \/ HoldAmbiguous(w)
      \/ Target.st = "live" /\ Belongs /\ Stage(w, next, call, Target.rev)
         /\ UNCHANGED <<proj, effect>>
  BY DEF Lookup
<1> HIDE DEF next, call
<1>5. CASE Stage(w, next, "create", 0) /\ UNCHANGED <<proj, effect>>
  <2>1. Turns(w)
    BY <1>1, <1>2, <1>5 DEF Turns
  <2> QED BY <1>3, <2>1 DEF Deed
<1>6. CASE Target.st # "live" /\ op = "delete" /\ Succeed(w, 0)
  BY <1>1, <1>3, <1>6 DEF Deed, Ends
<1>7. CASE Target.st # "live" /\ op \in {"update", "create"} /\ Replace(w)
  BY <1>1, <1>3, <1>7 DEF Deed
<1>8. CASE HoldAmbiguous(w)
  BY <1>1, <1>3, <1>8 DEF Deed
<1>9. CASE Target.st = "live" /\ Belongs /\ Stage(w, next, call, Target.rev)
           /\ UNCHANGED <<proj, effect>>
  <2>1. Turns(w)
    BY <1>1, <1>2, <1>3, <1>9 DEF Turns
  <2> QED BY <1>3, <2>1 DEF Deed
<1> QED BY <1>4, <1>5, <1>6, <1>7, <1>8, <1>9

\* The provider's answer to a write.
LEMMA WriteDeed ==
    ASSUME Base, NEW w \in Workers, Write(w)
    PROVE  Deed(w)
<1> DEFINE e == worker[w].job
<1>1. Busy(w)
  BY DEF Write, Writing, Busy
<1>2. Holder(w) /\ CurrentBasis(e) /\ \A v \in Workers : Busy(v) => v = w
  BY <1>1, BusyFacts
<1>3. \/ Applied(w) /\ Succeed(w, Target.rev + 1)
      \/ Stage(w, "reread", "update", 0) /\ UNCHANGED <<proj, effect, dest>>
      \/ Fail(w, FALSE, FALSE) /\ dest' = dest
      \/ HoldAmbiguous(w) /\ dest' = dest
  BY DEF Write, Applied
<1>4. CASE Stage(w, "reread", "update", 0) /\ UNCHANGED <<proj, effect, dest>>
  <2>1. Turns(w)
    BY <1>4 DEF Turns, Ops
  <2> QED BY <1>2, <2>1 DEF Deed
<1> QED BY <1>2, <1>3, <1>4 DEF Deed

\* Every executor step after taking an effect is one of the deeds.
LEMMA ExecutorDeed ==
    ASSUME Base, NEW w \in Workers, Executes(w)
    PROVE  worker[w].job \in Ids /\ Deed(w) /\ UNCHANGED Elsewhere
<1>1. worker[w].job \in Ids /\ UNCHANGED Elsewhere
  BY ExecutorIs
<1>2. ASSUME Dies(w) PROVE Deed(w)
  BY <1>2 DEF Dies, Deed, Applied
<1>3. ASSUME NEW kind \in Faults, CallFails(w, kind) PROVE Deed(w)
  <2>1. Busy(w)
    BY <1>3 DEF CallFails, Busy
  <2> DEFINE retryable == kind \notin {"rejected", "auth"}
             ambiguous == Uncertain(kind)
  <2>2. Fail(w, retryable, ambiguous) /\ (dest' = dest \/ Applied(w))
    BY <1>3 DEF CallFails, Applied
  <2>3. retryable \in BOOLEAN /\ ambiguous \in BOOLEAN
    BY DEF Uncertain
  <2> HIDE DEF retryable, ambiguous
  <2> QED BY <2>1, <2>2, <2>3, BusyFacts DEF Deed
<1> QED BY <1>1, <1>2, <1>3, BeginDeed, LookupDeed, WriteDeed DEF Executes

-----------------------------------------------------------------------------
(* The destination calendar.                                               *)

\* What an event may become in one step: it is deleted, or written or edited to a new
\* revision; a deleted one stays deleted.
Follows(y, x) ==
    \/ y = x
    \/ x.st = "live" /\ y.st = "gone" /\ y.rev = x.rev
    \/ x.st # "gone" /\ y.st = "live" /\ y.rev = x.rev + 1

\* The write of an executor changes the event of the current generation only.
LEMMA AppliedIs ==
    ASSUME Base, NEW w \in Workers, Applied(w)
    PROVE  LET e == worker[w].job
           IN  /\ \A g \in Gens \ {proj.gen} : dest'[g] = dest[g]
               /\ Follows(dest'[proj.gen], Target) /\ Busy(w)
               /\ worker[w].call = "delete" => dest'[proj.gen].st # "live"
               /\ worker[w].call # "delete" =>
                     /\ dest'[proj.gen].st = "live" /\ dest'[proj.gen].rev = Target.rev + 1
                     /\ dest'[proj.gen].body = effect[e].want.body
                     /\ dest'[proj.gen].mark = effect[e].want.gen
<1> DEFINE e == worker[w].job
<1>1. Busy(w) /\ TypeOK
  BY DEF Applied, Writing, Busy, Base, Shape
<1>2. e \in Ids /\ Target \in Event /\ Target.rev \in Nat /\ worker[w].call \in Ops
  BY <1>1, BusyFacts DEF TypeOK, Worker
<1>3. dest'[proj.gen] = Written(w) /\ \A g \in Gens \ {proj.gen} : dest'[g] = dest[g]
  BY <1>1, <1>2, WrittenIs DEF Applied
<1>4. CASE worker[w].call = "delete" /\ Target.st = "live"
  <2>1. Written(w) = [Target EXCEPT !.st = "gone"]
    BY <1>4 DEF Written
  <2>2. Written(w).st = "gone" /\ Written(w).rev = Target.rev
    BY <1>2, <2>1 DEF Event
  <2> QED BY <1>1, <1>3, <1>4, <2>2 DEF Follows
<1>5. CASE worker[w].call = "delete" /\ Target.st # "live"
  <2>1. Written(w) = Target
    BY <1>5 DEF Written
  <2> QED BY <1>1, <1>3, <1>5, <2>1 DEF Follows
<1>6. CASE worker[w].call # "delete"
  <2>1. Written(w) = [st |-> "live", body |-> effect[e].want.body,
                      mark |-> effect[e].want.gen, rev |-> Target.rev + 1]
    BY <1>6 DEF Written
  <2>2. Target.st # "gone"
    BY <1>2, <1>6 DEF Applied, Accepted, Ops
  <2> QED BY <1>1, <1>3, <1>6, <2>1, <2>2 DEF Follows
<1> QED BY <1>4, <1>5, <1>6

\* A person's direct change: of one live event, which keeps its markers or loses them.
LEMMA TouchIs ==
    ASSUME TypeOK, Touch, NEW g \in Gens
    PROVE  /\ Follows(dest'[g], dest[g])
           /\ \/ dest'[g] = dest[g]
              \/ dest[g].st = "live" /\ dest'[g].mark \in {0, dest[g].mark}
<1>1. dest \in [Gens -> Event]
  BY DEF TypeOK
<1>2. PICK h \in Gens :
        /\ dest[h].st = "live"
        /\ \/ dest' = [dest EXCEPT ![h] = [dest[h] EXCEPT !.body = "edited", !.rev = dest[h].rev + 1]]
           \/ dest' = [dest EXCEPT ![h] = [dest[h] EXCEPT !.st = "gone"]]
           \/ dest' = [dest EXCEPT ![h] = [dest[h] EXCEPT !.body = "edited", !.mark = 0,
                                                          !.rev = dest[h].rev + 1]]
  BY <1>1 DEF Touch
<1> DEFINE edit == [dest[h] EXCEPT !.body = "edited", !.rev = dest[h].rev + 1]
           gone == [dest[h] EXCEPT !.st = "gone"]
           strip == [dest[h] EXCEPT !.body = "edited", !.mark = 0, !.rev = dest[h].rev + 1]
<1>3. dest[h] \in Event
  BY <1>1
<1>4. /\ edit.mark = dest[h].mark /\ edit.st = "live" /\ edit.rev = dest[h].rev + 1
      /\ gone.mark = dest[h].mark /\ gone.st = "gone" /\ gone.rev = dest[h].rev
      /\ strip.mark = 0 /\ strip.st = "live" /\ strip.rev = dest[h].rev + 1
  BY <1>2, <1>3 DEF Event
<1>5. dest' \in {[dest EXCEPT ![h] = edit], [dest EXCEPT ![h] = gone], [dest EXCEPT ![h] = strip]}
  BY <1>2
<1> HIDE DEF edit, gone, strip
<1>6. CASE g = h
  <2>1. dest'[g] \in {edit, gone, strip}
    BY <1>1, <1>5, <1>6
  <2> QED BY <1>2, <1>4, <1>6, <2>1 DEF Follows
<1>7. CASE g # h
  <2>1. dest'[g] = dest[g]
    BY <1>1, <1>5, <1>7
  <2> QED BY <2>1 DEF Follows
<1> QED BY <1>6, <1>7

\* A step that changes the calendar is a person's, or an executor's.
LEMMA ChangesIs ==
    ASSUME Base, [Next]_vars, dest' # dest, ~Touch
    PROVE  \E w \in Workers : Executes(w) /\ Applied(w)
<1>1. ~(UNCHANGED vars) /\ ~Person /\ ~Surroundings
  BY DEF vars, Person, Pause, Resume, RetryBlocked, Acknowledge, Keep, Restore,
         Surroundings, SourceChanges, AgesOut, Wakeup, Outage, Reconnect
<1>2. Machine
  BY <1>1 DEF Next
<1>3. \A r \in Reconcilers : ~Read(r) /\ ~Commit(r) /\ ~PassDies(r)
  BY DEF Read, Commit, PassDies
<1>4. ~Load /\ ~Look /\ ~Settle /\ \A kind \in Faults : ~LookFails(kind)
  BY DEF Load, Look, Settle, LookFails
<1>5. \A v \in Workers, e \in Ids : ~Lease(v, e)
  BY DEF Lease
<1>6. PICK w \in Workers : Executes(w)
  BY <1>2, <1>3, <1>4, <1>5 DEF Machine, Execute, Executes
<1>7. Deed(w)
  BY <1>6, ExecutorDeed
<1>8. Applied(w)
  BY <1>7 DEF Deed, Turns
<1> QED BY <1>6, <1>8

\* What a step may do to an event of the calendar.
LEMMA CalendarStep ==
    ASSUME Base, [Next]_vars, NEW g \in Gens
    PROVE  /\ Follows(dest'[g], dest[g])
           /\ \/ dest'[g] = dest[g]
              \/ g = proj.gen
              \/ dest[g].st = "live" /\ dest'[g].mark \in {0, dest[g].mark}
<1>1. TypeOK
  BY DEF Base, Shape
<1>2. CASE dest' = dest
  BY <1>2 DEF Follows
<1>3. CASE Touch
  BY <1>1, <1>3, TouchIs
<1>4. CASE dest' # dest /\ ~Touch
  <2>1. PICK w \in Workers : Applied(w)
    BY <1>4, ChangesIs
  <2>2. CASE g = proj.gen
    BY <2>1, <2>2, AppliedIs DEF Target
  <2>3. CASE g # proj.gen
    <3>1. dest'[g] = dest[g]
      BY <2>1, <2>3, AppliedIs
    <3> QED BY <3>1 DEF Follows
  <2> QED BY <2>2, <2>3
<1> QED BY <1>2, <1>3, <1>4

\* An event with a revision that was recorded before is the one that was there then, or
\* it is deleted since.
LEMMA SameRevision ==
    ASSUME Base, [Next]_vars, NEW g \in Gens
    PROVE  /\ dest[g].rev \in Nat /\ dest'[g].rev \in Nat /\ dest[g].rev <= dest'[g].rev
           /\ dest[g].st = "gone" => dest'[g] = dest[g]
           /\ dest[g].st # "never" => dest'[g].st # "never"
           /\ dest'[g].rev = dest[g].rev /\ dest'[g].st = "live" => dest'[g] = dest[g]
<1>1. dest \in [Gens -> Event]
  BY DEF Base, Shape, TypeOK
<1>2. dest[g].rev \in Nat
  BY <1>1 DEF Event
<1>3. Follows(dest'[g], dest[g])
  BY CalendarStep
<1> QED BY <1>2, <1>3 DEF Follows

-----------------------------------------------------------------------------
(* The generation and the revision that the projection records.            *)

Steady == proj'.gen = proj.gen /\ proj'.etag = proj.etag

\* A write was answered: its revision is recorded.
Landed ==
    /\ proj'.gen = proj.gen /\ dest'[proj.gen].st = "live" /\ proj'.etag = dest'[proj.gen].rev
    /\ dest'[proj.gen].mark # 0 /\ dest'[proj.gen].body = Copy[source.version]

\* The next generation is started: of an event that is not there, or by the deletion of
\* a copy that was not recorded.
Advanced ==
    /\ proj'.gen = proj.gen + 1 /\ proj'.etag = 0
    /\ \/ dest'[proj.gen].st # "live"
       \/ /\ ~Has(proj) /\ dest' = dest
          /\ \E e \in Ids : effect[e].state # "none" /\ effect[e].op = "delete" /\ CurrentBasis(e)

\* The verifier records the revision that it saw.
Adopted ==
    /\ check.pc = "seen" /\ StillCurrent /\ check.sight # "missing" /\ dest' = dest
    /\ proj'.gen = proj.gen /\ proj'.etag = check.rev

\* The steps that record progress of an effect or a person's decision.
LEMMA SteadyRows ==
    ASSUME TypeOK,
           \/ \E w \in Workers, retryable, ambiguous \in BOOLEAN : Fail(w, retryable, ambiguous)
           \/ \E w \in Workers : Defer(w) \/ Supersede(w) \/ HoldAmbiguous(w)
           \/ \E r \in Reconcilers : RefreshEvidence(r) \/ Intend(r) \/ Ignore(r)
           \/ \E fx \in [Ids -> Effect] : Recover(fx)
           \/ Reconsider("failed") \/ Reconsider("held")
           \/ proj' = [proj EXCEPT !.rec = "none", !.status = "retrying", !.code = "none"]
           \/ Keep
           \/ proj' = proj
    PROVE  Steady
<1>1. proj \in Projection
  BY DEF TypeOK
<1>2. ASSUME NEW status, NEW code, proj' = [proj EXCEPT !.status = status, !.code = code]
      PROVE  Steady
  BY <1>1, <1>2 DEF Projection, Steady
<1>3. ASSUME NEW w \in Workers, NEW retryable \in BOOLEAN, NEW ambiguous \in BOOLEAN,
             Fail(w, retryable, ambiguous)
      PROVE  Steady
  <2> DEFINE dead == ~retryable \/ effect[worker[w].job].tries >= MaxAttempts
             status == IF dead THEN "failed" ELSE "retrying"
  <2>1. proj' = [proj EXCEPT !.status = status, !.code = "other"]
    BY <1>3 DEF Fail
  <2> HIDE DEF status
  <2> QED BY <1>2, <2>1
<1>4. ASSUME NEW w \in Workers, Defer(w) \/ Supersede(w) \/ HoldAmbiguous(w) PROVE Steady
  BY <1>1, <1>4 DEF Projection, Steady, Defer, Supersede, HoldAmbiguous
<1>5. ASSUME NEW r \in Reconcilers, RefreshEvidence(r) PROVE Steady
  <2>1. \E basis, rec, want, status, code : proj' = [proj EXCEPT
          !.basis = basis, !.rec = rec, !.want = want, !.status = status, !.code = code]
    BY <1>5 DEF RefreshEvidence
  <2> QED BY <1>1, <2>1 DEF Projection, Steady
<1>6. ASSUME NEW r \in Reconcilers, Intend(r) PROVE Steady
  <2>1. \E basis, want, status : proj' = [proj EXCEPT
          !.basis = basis, !.want = want, !.status = status, !.rec = "none", !.code = "none"]
    BY <1>6 DEF Intend
  <2> QED BY <1>1, <2>1 DEF Projection, Steady
<1>7. ASSUME proj' = [proj EXCEPT !.rec = "none", !.status = "retrying", !.code = "none"]
      PROVE  Steady
  BY <1>1, <1>7 DEF Projection, Steady
<1>8. CASE Keep
  BY <1>1, <1>8 DEF Keep, Projection, Steady
<1>9. CASE Reconsider("failed") \/ Reconsider("held")
  BY <1>2, <1>9 DEF Reconsider
<1>10. ASSUME NEW fx \in [Ids -> Effect], Recover(fx) PROVE Steady
  BY <1>7, <1>10 DEF Recover
<1>11. ASSUME NEW r \in Reconcilers, Ignore(r) PROVE Steady
  BY <1>11 DEF Ignore, Steady
<1>12. ASSUME proj' = proj PROVE Steady
  BY <1>12 DEF Steady
<1> QED BY <1>3, <1>4, <1>5, <1>6, <1>7, <1>8, <1>9, <1>10, <1>11, <1>12

\* An answered write: the copy shows the current version, with markers.
LEMMA SucceedLands ==
    ASSUME Base, Truthful, NEW w \in Workers, worker[w].job \in Ids, Holder(w),
           CurrentBasis(worker[w].job), Applied(w), Succeed(w, Target.rev + 1)
    PROVE  \/ effect[worker[w].job].op # "delete" /\ Landed
           \/ effect[worker[w].job].op = "delete" /\ Advanced /\ dest'[proj.gen].st # "live"
<1> DEFINE e == worker[w].job
<1>1. proj \in Projection /\ TypeOK /\ Busy(w) /\ effect[e].want \in Desired
  BY AppliedIs DEF Base, Shape, TypeOK, Effect
<1>2. worker[w].call = "delete" <=> effect[e].op = "delete"
  BY <1>1, BusyFacts
<1>3. CASE effect[e].op = "delete"
  <2>1. proj' = [proj EXCEPT !.rec = "none", !.etag = 0, !.gen = proj.gen + 1,
                             !.status = "deleted", !.code = "none"]
    BY <1>3 DEF Succeed
  <2>2. dest'[proj.gen].st # "live"
    BY <1>2, <1>3, AppliedIs
  <2> QED BY <1>1, <1>3, <2>1, <2>2 DEF Projection, Advanced
<1>4. CASE effect[e].op # "delete"
  <2>1. proj' = [proj EXCEPT !.rec = "none", !.etag = Target.rev + 1, !.status = "converged",
                             !.own = "attached", !.code = "none"]
    BY <1>4 DEF Succeed
  <2>2. proj'.gen = proj.gen /\ proj'.etag = Target.rev + 1
    BY <1>1, <2>1 DEF Projection
  <2>3. /\ dest'[proj.gen].st = "live" /\ dest'[proj.gen].rev = Target.rev + 1
        /\ dest'[proj.gen].body = effect[e].want.body
        /\ dest'[proj.gen].mark = effect[e].want.gen
    BY <1>2, <1>4, AppliedIs
  <2>4. effect[e].state # "none"
    BY DEF Holder
  <2>5. effect[e].want # NoCopy /\ effect[e].want.body = Copy[effect[e].basis]
    BY <1>4, <2>4 DEF Truthful, AllIntact, Intact, Planned
  <2>6. effect[e].want.gen # 0
    BY <1>1, <2>5, CopyAssumption DEF Desired, Gens
  <2> QED BY <1>4, <2>2, <2>3, <2>5, <2>6 DEF Landed, CurrentBasis
<1> QED BY <1>3, <1>4

\* A replacement leaves the projection, or starts the next generation.
LEMMA ReplaceMoves ==
    ASSUME Base, NEW w \in Workers, worker[w].job \in Ids, Replace(w), Target.st # "live",
           dest' = dest
    PROVE  Steady \/ Advanced
<1>1. TypeOK /\ proj \in Projection
  BY DEF Base, Shape, TypeOK
<1>2. CASE proj' = proj
  BY <1>1, <1>2, SteadyRows
<1>3. CASE Fail(w, FALSE, FALSE)
  BY <1>1, <1>3, SteadyRows
<1>4. CASE \E want : proj' = [proj EXCEPT !.gen = proj.gen + 1, !.etag = 0, !.want = want,
                                   !.status = "pending", !.rec = "none", !.code = "other"]
  BY <1>1, <1>4 DEF Projection, Advanced, Target
<1> QED BY <1>2, <1>3, <1>4 DEF Replace

\* What a deed does to the recorded generation and revision.
LEMMA DeedMoves ==
    ASSUME Base, Truthful, NEW w \in Workers, worker[w].job \in Ids, Deed(w)
    PROVE  Steady \/ Landed \/ Advanced
<1> DEFINE e == worker[w].job
<1>1. TypeOK /\ proj \in Projection
  BY DEF Base, Shape, TypeOK
<1>2. CASE \/ proj' = proj
           \/ \E retryable, ambiguous \in BOOLEAN : Fail(w, retryable, ambiguous)
           \/ Defer(w) \/ Supersede(w) \/ HoldAmbiguous(w)
  BY <1>1, <1>2, SteadyRows
<1>3. CASE Holder(w) /\ CurrentBasis(e) /\ Applied(w) /\ Succeed(w, Target.rev + 1)
  BY <1>3, SucceedLands
<1>4. CASE Holder(w) /\ CurrentBasis(e) /\ Ends(w) /\ dest' = dest
  <2>1. proj' = [proj EXCEPT !.rec = "none", !.etag = 0, !.gen = proj.gen + 1,
                             !.status = "deleted", !.code = "none"]
    BY <1>4 DEF Ends, Succeed
  <2>2. proj'.gen = proj.gen + 1 /\ proj'.etag = 0
    BY <1>1, <2>1 DEF Projection
  <2>3. effect[e].state # "none" /\ effect[e].op = "delete"
    BY <1>4 DEF Holder, Ends
  <2> QED BY <1>4, <2>2, <2>3 DEF Ends, Advanced, Target
<1>5. CASE Replace(w) /\ Target.st # "live" /\ dest' = dest
  BY <1>5, ReplaceMoves
<1> QED BY <1>2, <1>3, <1>4, <1>5 DEF Deed, Turns

\* What a verdict does to them.
LEMMA SettleMoves ==
    ASSUME Base, Sighted, Settle
    PROVE  /\ dest' = dest
           /\ \/ Steady
              \/ Advanced
              \/ Adopted /\ HoldForeign
              \/ Adopted /\ (HoldEdit \/ Repair) /\ check.sight = "drifted"
<1>1. TypeOK /\ proj \in Projection /\ check \in Check /\ dest' = dest /\ check.pc = "seen"
  BY DEF Base, Shape, TypeOK, Settle
<1>2. CASE UNCHANGED <<proj, effect, notice>>
  BY <1>1, <1>2, SteadyRows
<1>3. CASE StillCurrent /\ HoldForeign
  <2>1. proj'.gen = proj.gen /\ proj'.etag = check.rev /\ check.sight # "missing"
    BY <1>1, <1>3 DEF HoldForeign, Projection
  <2> QED BY <1>1, <1>3, <2>1 DEF Adopted
<1>4. CASE StillCurrent /\ HoldEdit
  <2>1. \E rec, etag :
          /\ proj' = [proj EXCEPT !.status = "held", !.code = "edit_hold", !.rec = rec, !.etag = etag]
          /\ etag = IF check.sight = "drifted" THEN check.rev ELSE proj.etag
    BY <1>4 DEF HoldEdit
  <2>2. /\ proj'.gen = proj.gen
        /\ proj'.etag = IF check.sight = "drifted" THEN check.rev ELSE proj.etag
    BY <1>1, <2>1 DEF Projection
  <2> QED BY <1>1, <1>4, <2>2 DEF Adopted, Steady
<1>5. CASE StillCurrent /\ Repair
  <2>1. \E next, want, etag :
          /\ proj' = [proj EXCEPT !.gen = next, !.want = want, !.status = "pending",
                                  !.rec = "none", !.code = "other", !.etag = etag]
          /\ next = IF check.sight = "missing" THEN proj.gen + 1 ELSE proj.gen
          /\ etag = IF check.sight = "drifted" THEN check.rev ELSE 0
    BY <1>5 DEF Repair
  <2>2. /\ proj'.gen = IF check.sight = "missing" THEN proj.gen + 1 ELSE proj.gen
        /\ proj'.etag = IF check.sight = "drifted" THEN check.rev ELSE 0
    BY <1>1, <2>1 DEF Projection
  <2>3. check.sight \in {"missing", "drifted"}
    BY <1>1, <1>5 DEF Repair, Check, Sights
  <2>4. CASE check.sight = "missing"
    <3>1. dest[proj.gen].st = "gone"
      BY <1>1, <1>5, <2>4 DEF Sighted, StillCurrent
    <3> QED BY <1>1, <2>2, <2>4, <3>1 DEF Advanced
  <2>5. CASE check.sight = "drifted"
    BY <1>1, <1>5, <2>2, <2>5 DEF Adopted
  <2> QED BY <2>3, <2>4, <2>5
<1> QED BY <1>1, <1>2, <1>3, <1>4, <1>5, SettleIs

\* Steps of anyone else record nothing about the calendar.
LEMMA OthersSteady ==
    ASSUME TypeOK,
           \/ \E r \in Reconcilers : Read(r) \/ Commit(r) \/ PassDies(r)
           \/ \E w \in Workers, e \in Ids : Lease(w, e)
           \/ Load \/ Look \/ \E kind \in Faults : LookFails(kind)
           \/ Person \/ Surroundings \/ UNCHANGED vars
    PROVE  Steady
<1>1. ASSUME NEW r \in Reconcilers, Read(r) \/ Commit(r) \/ PassDies(r) PROVE Steady
  BY <1>1, SteadyRows DEF Read, Commit, PassDies
<1>2. ASSUME NEW w \in Workers, NEW e \in Ids, Lease(w, e) PROVE Steady
  BY <1>2, SteadyRows DEF Lease
<1>3. CASE Load \/ Look \/ \E kind \in Faults : LookFails(kind)
  BY <1>3, SteadyRows DEF Load, Look, LookFails
<1>4. CASE Person
  <2>1. CASE RetryBlocked
    BY <2>1, SteadyRows DEF RetryBlocked, RetryDead, RetryHold, Recover
  <2>2. CASE Pause \/ Resume \/ Acknowledge
    BY <2>2, SteadyRows DEF Pause, Resume, Acknowledge
  <2>3. CASE Keep \/ Restore
    BY <2>3, SteadyRows DEF Restore, Recover
  <2> QED BY <1>4, <2>1, <2>2, <2>3 DEF Person
<1>5. CASE Surroundings \/ UNCHANGED vars
  BY <1>5, SteadyRows DEF Surroundings, SourceChanges, AgesOut, Wakeup, Touch, Outage, Reconnect, vars
<1> QED BY <1>1, <1>2, <1>3, <1>4, <1>5

\* The step, by who takes it.
LEMMA Steps ==
    ASSUME [Next]_vars
    PROVE  \/ \E r \in Reconcilers : Read(r) \/ Commit(r) \/ PassDies(r)
           \/ \E w \in Workers, e \in Ids : Lease(w, e)
           \/ \E w \in Workers : Executes(w)
           \/ Settle
           \/ Load \/ Look \/ \E kind \in Faults : LookFails(kind)
           \/ Person \/ Surroundings \/ UNCHANGED vars
  BY DEF Next, Machine, Execute, Executes

\* What any step does to the recorded generation and revision.
LEMMA NextMoves ==
    ASSUME Base, Truthful, Sighted, [Next]_vars
    PROVE  Steady \/ Landed \/ Advanced \/ Adopted
<1>1. TypeOK
  BY DEF Base, Shape
<1>2. ASSUME NEW w \in Workers, Executes(w) PROVE Steady \/ Landed \/ Advanced
  BY <1>2, ExecutorDeed, DeedMoves
<1> QED BY <1>1, <1>2, Steps, SettleMoves, OthersSteady

-----------------------------------------------------------------------------
(* What the projection, the verifier and the executors know of the         *)
(* calendar.                                                               *)

\* The generations and revisions are naturals.
LEMMA CalendarFacts ==
    ASSUME TypeOK
    PROVE  /\ Gens \subseteq Nat \ {0} /\ proj.gen \in Gens /\ proj.etag \in Nat
           /\ check.gen \in Gens /\ check.rev \in Nat
           /\ \A g \in Gens : dest[g].rev \in Nat
           /\ \A w \in Workers : worker[w].rev \in Nat
<1>1. Gens \subseteq Nat \ {0}
  BY CopyAssumption DEF Gens
<1>2. proj \in Projection /\ check \in Check /\ dest \in [Gens -> Event]
      /\ worker \in [Workers -> Worker]
  BY DEF TypeOK
<1>3. \A g \in Gens : dest[g].rev \in Nat
  BY <1>2 DEF Event
<1>4. \A w \in Workers : worker[w].rev \in Nat
  BY <1>2 DEF Worker
<1> QED BY <1>1, <1>2, <1>3, <1>4 DEF Projection, Check

\* A worker that is about to write after a step was so before it, with the projection
\* and the worker unchanged, or it turned to the write in that step.
LEMMA WritingBefore ==
    ASSUME Base, [Next]_vars, NEW v \in Workers, Writing(v)'
    PROVE  \/ Turns(v) /\ Holder(v) /\ worker[v].job \in Ids
           \/ Writing(v) /\ worker'[v] = worker[v] /\ UNCHANGED proj
<1>0. TypeOK /\ worker \in [Workers -> Worker] /\ (Writing(v) => Busy(v))
  BY DEF Base, Shape, TypeOK, Writing, Busy
<1>1. CASE worker' = worker /\ UNCHANGED proj
  BY <1>1 DEF Writing
<1>2. CASE worker' = worker /\ ~Locked
  BY <1>0, <1>2, Unlocked DEF Writing
<1>3. ASSUME NEW w \in Workers, NEW e \in Ids, Lease(w, e)
      PROVE  Writing(v) /\ worker'[v] = worker[v] /\ UNCHANGED proj
  <2>1. worker'[w].pc = "leased" /\ (v # w => worker'[v] = worker[v]) /\ proj' = proj
    BY <1>0, <1>3, LeaseIs DEF Lease
  <2> QED BY <2>1 DEF Writing
<1>4. ASSUME NEW w \in Workers, Executes(w)
      PROVE  \/ Turns(v) /\ Holder(v) /\ worker[v].job \in Ids
             \/ Writing(v) /\ worker'[v] = worker[v] /\ UNCHANGED proj
  <2>1. worker[w].job \in Ids /\ Deed(w)
    BY <1>4, ExecutorDeed
  <2>2. CASE Turns(w) /\ Holder(w) /\ \A u \in Workers : Busy(u) => u = w
    <3>1. CASE v = w
      BY <2>1, <2>2, <3>1
    <3>2. CASE v # w
      <4>1. worker'[v] = worker[v]
        <5>1. PICK pc \in {"lookup", "write", "reread", "rewrite"}, call \in Ops, rev \in Nat :
                 Stage(w, pc, call, rev)
          BY <2>2 DEF Turns
        <5> QED BY <1>0, <3>2, <5>1, StageIs
      <4> QED BY <2>2, <4>1 DEF Writing, Turns
    <3> QED BY <3>1, <3>2
  <2>3. ASSUME Release(w), proj' = proj \/ \A u \in Workers : Busy(u) => u = w
        PROVE  Writing(v) /\ worker'[v] = worker[v] /\ UNCHANGED proj
    <3>1. worker'[w] = Rest /\ \A u \in Workers \ {w} : worker'[u] = worker[u]
      BY <1>0, <2>3, ReleaseIs
    <3>2. v # w
      BY <3>1 DEF Writing, Rest
    <3>3. Writing(v) /\ worker'[v] = worker[v]
      BY <3>1, <3>2 DEF Writing
    <3> QED BY <1>0, <2>3, <3>2, <3>3
  <2>4. \/ Release(w) /\ proj' = proj
        \/ Release(w) /\ \A u \in Workers : Busy(u) => u = w
        \/ Turns(w) /\ Holder(w) /\ \A u \in Workers : Busy(u) => u = w
    BY <2>1 DEF Deed, Defer, Fail, Supersede, HoldAmbiguous, Succeed, Ends, Replace
  <2> QED BY <2>2, <2>3, <2>4
<1>5. CASE \E r \in Reconcilers : Read(r) \/ Commit(r) \/ PassDies(r)
  BY <1>1, <1>2, <1>5 DEF Read, Commit, PassDies
<1>6. CASE Settle \/ Load \/ Look \/ \E kind \in Faults : LookFails(kind)
  BY <1>1, <1>2, <1>6 DEF Settle, Load, Look, LookFails
<1>7. CASE Person
  BY <1>1, <1>2, <1>7 DEF Person, Pause, Resume, RetryBlocked, Acknowledge, Keep, Restore
<1>8. CASE Surroundings \/ UNCHANGED vars
  BY <1>1, <1>8 DEF Surroundings, SourceChanges, AgesOut, Wakeup, Touch, Outage, Reconnect, vars
<1> QED BY <1>3, <1>4, <1>5, <1>6, <1>7, <1>8, Steps

\* Every step keeps what is known of the calendar true.
LEMMA NextTracked ==
    ASSUME Base, Truthful, Tracked, Sighted, [Next]_vars
    PROVE  Tracked'
<1>0. /\ TypeOK /\ Gens \subseteq Nat \ {0} /\ proj.gen \in Gens /\ proj.etag \in Nat
      /\ check.gen \in Gens /\ check.rev \in Nat /\ \A w \in Workers : worker[w].rev \in Nat
  BY CalendarFacts DEF Base, Shape
<1>1. /\ dest[proj.gen].rev \in Nat /\ dest'[proj.gen].rev \in Nat
      /\ dest[proj.gen].rev <= dest'[proj.gen].rev
      /\ dest[proj.gen].st # "never" => dest'[proj.gen].st # "never"
  BY <1>0, SameRevision
<1>2. \A g \in Gens : g > proj.gen => dest'[g].st = "never"
  <2> SUFFICES ASSUME NEW g \in Gens, g > proj.gen PROVE dest'[g].st = "never"
    OBVIOUS
  <2>1. dest[g].st = "never" /\ g # proj.gen
    BY <1>0 DEF Tracked
  <2> QED BY <2>1, CalendarStep
<1>3. /\ \A g \in Gens : g > proj'.gen => dest'[g].st = "never"
      /\ Has(proj') => dest'[proj'.gen].st # "never"
      /\ proj'.etag <= dest'[proj'.gen].rev
  <2>1. CASE Steady
    BY <1>0, <1>1, <1>2, <2>1 DEF Steady, Tracked, Has, Target
  <2>2. CASE Landed
    BY <1>0, <1>1, <1>2, <2>2 DEF Landed
  <2>3. CASE Advanced
    <3>1. proj'.gen \in Gens
      BY NextShape DEF TypeOK, Projection, Base, Shape
    <3>2. dest'[proj'.gen].rev \in Nat
      BY <3>1, SameRevision
    <3>3. \A g \in Gens : g > proj'.gen => g > proj.gen
      <4>1. proj'.gen = proj.gen + 1 /\ proj.gen \in Nat /\ \A g \in Gens : g \in Nat
        BY <1>0, <2>3 DEF Advanced
      <4>2. ASSUME NEW g \in Gens, g > proj'.gen PROVE g > proj.gen
        BY <4>1, <4>2
      <4> QED BY <4>2
    <3> QED BY <1>2, <2>3, <3>2, <3>3 DEF Advanced, Has
  <2>4. CASE Adopted
    <3>1. check.gen = proj.gen /\ proj'.gen = proj.gen /\ proj'.etag = check.rev
      BY <2>4 DEF Adopted, StillCurrent
    <3>2. check.rev <= dest[proj.gen].rev /\ dest[proj.gen].st # "never"
      BY <2>4, <3>1 DEF Adopted, Sighted
    <3> QED BY <1>0, <1>1, <1>2, <3>1, <3>2
  <2> QED BY <2>1, <2>2, <2>3, <2>4, NextMoves
<1>4. ASSUME NEW v \in Workers, Writing(v)' PROVE worker'[v].rev <= dest'[proj'.gen].rev
  <2>1. CASE Writing(v) /\ worker'[v] = worker[v] /\ UNCHANGED proj
    <3>1. worker[v].rev <= dest[proj.gen].rev
      BY <2>1 DEF Tracked, Target
    <3> QED BY <1>0, <1>1, <2>1, <3>1
  <2>2. CASE Turns(v)
    <3>1. PICK pc \in {"lookup", "write", "reread", "rewrite"}, call \in Ops, rev \in Nat :
            /\ Stage(v, pc, call, rev)
            /\ pc \in {"lookup", "reread"} \/ rev \in {0, Target.rev, proj.etag}
      BY <2>2 DEF Turns
    <3>2. worker'[v].pc = pc /\ worker'[v].rev = rev
      <4>1. worker \in [Workers -> Worker] /\ worker[v] \in Worker
        BY <1>0 DEF TypeOK
      <4> DEFINE new == [worker[v] EXCEPT !.pc = pc, !.call = call, !.rev = rev]
      <4>2. new.pc = pc /\ new.rev = rev
        BY <4>1 DEF Worker
      <4>3. worker' = [worker EXCEPT ![v] = new]
        BY <3>1, <4>1 DEF Stage
      <4> HIDE DEF new
      <4> QED BY <4>1, <4>2, <4>3
    <3>3. rev \in {0, Target.rev, proj.etag}
      BY <1>4, <3>1, <3>2 DEF Writing
    <3>4. UNCHANGED <<proj, dest>>
      BY <2>2 DEF Turns
    <3> QED BY <1>0, <1>1, <3>2, <3>3, <3>4 DEF Tracked, Target
  <2> QED BY <1>4, <2>1, <2>2, WritingBefore
<1> QED BY <1>3, <1>4 DEF Tracked, Target

\* What any step does to the verifier's notes.
LEMMA CheckStep ==
    ASSUME Base, [Next]_vars
    PROVE  \/ check' = check
           \/ check'.pc = "idle"
           \/ Load
           \/ Look
<1>1. \A w \in Workers : Executes(w) => check' = check
  BY ExecutorDeed DEF Elsewhere
<1>2. NoCheck.pc = "idle"
  BY DEF NoCheck
<1>3. CASE Settle \/ \E kind \in Faults : LookFails(kind)
  BY <1>2, <1>3 DEF Settle, LookFails
<1>4. CASE \E r \in Reconcilers : Read(r) \/ Commit(r) \/ PassDies(r)
  BY <1>4 DEF Read, Commit, PassDies
<1>5. CASE \E w \in Workers, e \in Ids : Lease(w, e)
  BY <1>5 DEF Lease, Elsewhere
<1>6. CASE Person
  BY <1>6 DEF Person, Pause, Resume, RetryBlocked, Acknowledge, Keep, Restore
<1>7. CASE Surroundings \/ UNCHANGED vars
  BY <1>7 DEF Surroundings, SourceChanges, AgesOut, Wakeup, Touch, Outage, Reconnect, vars
<1> QED BY <1>1, <1>3, <1>4, <1>5, <1>6, <1>7, Steps

\* Every step keeps the verifier's notes true.
LEMMA NextSighted ==
    ASSUME Base, Tracked, Sighted, [Next]_vars
    PROVE  Sighted'
<1>0. TypeOK /\ check \in Check /\ check.gen \in Gens /\ check.rev \in Nat /\ proj.gen \in Gens
      /\ Gens \subseteq Nat \ {0}
  BY CalendarFacts DEF Base, Shape, TypeOK
<1>1. CASE check' = check
  <2> DEFINE x == dest[check.gen]
             y == dest'[check.gen]
  <2>1. /\ x.rev \in Nat /\ y.rev \in Nat /\ x.rev <= y.rev /\ (x.st = "gone" => y = x)
        /\ x.st # "never" => y.st # "never"
        /\ y.rev = x.rev /\ y.st = "live" => y = x
    BY <1>0, SameRevision
  <2>2. check.pc # "idle" => y.st # "never"
    BY <2>1 DEF Sighted
  <2>3. ASSUME check.pc = "seen"
        PROVE  /\ check.rev <= y.rev
               /\ check.sight = "missing" => y.st = "gone"
               /\ /\ check.sight = "drifted" /\ y.st = "live" /\ check.rev = y.rev
                  => y.mark # 0
    <3>1. /\ check.rev <= x.rev /\ (check.sight = "missing" => x.st = "gone")
          /\ check.sight = "drifted" /\ x.st = "live" /\ check.rev = x.rev => x.mark # 0
      BY <2>3 DEF Sighted
    <3>2. check.rev = y.rev => x.rev = y.rev
      BY <1>0, <2>1, <3>1
    <3> HIDE DEF x, y
    <3> QED BY <1>0, <2>1, <3>1, <3>2
  <2> QED BY <1>1, <2>2, <2>3 DEF Sighted
<1>2. CASE check'.pc = "idle"
  BY <1>2 DEF Sighted
<1>3. CASE Load
  <2>1. check'.pc = "loaded" /\ check'.gen = proj.gen /\ dest' = dest
    BY <1>3 DEF Load, NoCheck
  <2>2. dest[proj.gen].st # "never"
    BY <1>3 DEF Load, Tracked, Target
  <2> QED BY <2>1, <2>2 DEF Sighted
<1>4. CASE Look
  <2> DEFINE seen == dest[check.gen]
  <2>1. dest' = dest /\ seen.st # "never" /\ seen \in Event
    BY <1>0, <1>4 DEF Look, Sighted, TypeOK
  <2>2. ASSUME NEW s, check' = [check EXCEPT !.pc = "seen", !.sight = s, !.rev = seen.rev],
               s = "missing" => seen.st # "live", s = "drifted" => seen.mark # 0
        PROVE  Sighted'
    <3>1. /\ check'.pc = "seen" /\ check'.sight = s /\ check'.rev = seen.rev
          /\ check'.gen = check.gen
      BY <1>0, <2>2 DEF Check
    <3>2. seen.st \in {"never", "live", "gone"} /\ seen.rev \in Nat
      BY <2>1 DEF Event
    <3> QED BY <2>1, <2>2, <3>1, <3>2 DEF Sighted
  <2>3. ASSUME check' = NoCheck PROVE Sighted'
    BY <1>2, <2>3 DEF NoCheck
  <2>4. seen.mark = check.gen => seen.mark # 0
    BY <1>0
  <2> QED BY <1>4, <2>2, <2>3, <2>4 DEF Look
<1> QED BY <1>1, <1>2, <1>3, <1>4, CheckStep

-----------------------------------------------------------------------------
(* Deletions are planned only of what is not selected.                     *)

\* The outbox gx has no intent that fx does not have.
Carried(gx, fx) ==
    \A x \in Ids : gx[x].state # "none" => fx[x].state # "none" /\ Kept(gx[x], fx[x])

\* Finishing an effect and recording the progress of one add no intent.
LEMMA CarriedIs ==
    ASSUME TypeOK, NEW e \in Ids,
           \/ effect' = effect
           \/ effect' = Finish(effect, e)
           \/ /\ effect[e].state # "none" /\ Kept(effect'[e], effect[e])
              /\ \A x \in Ids \ {e} : effect'[x] = effect[x]
    PROVE  Carried(effect', effect)
<1>1. CASE effect' = Finish(effect, e)
  <2>1. effect'[e] = NoEffect /\ \A x \in Ids \ {e} : Same(effect'[x], effect[x])
    BY <1>1, FinishIs DEF TypeOK
  <2> QED BY <2>1 DEF Carried, NoEffect, Same
<1>2. CASE effect' # Finish(effect, e)
  BY <1>2 DEF Carried, Kept
<1> QED BY <1>1, <1>2

\* Deletions keep fitting the projection unless it wants a copy of their version again.
LEMMA PartingCarried ==
    ASSUME NEW fx, NEW gx, NEW b, NEW want, NEW c, NEW new, Parting(fx, b, want), Carried(gx, fx),
           \/ c = b /\ (want = NoCopy => new = NoCopy)
           \/ Departed(c) => new = NoCopy
    PROVE  Parting(gx, c, new)
<1> SUFFICES ASSUME NEW e \in Ids, gx[e].state # "none", gx[e].op = "delete"
             PROVE  Departed(gx[e].basis) /\ (gx[e].basis = c => new = NoCopy)
  BY DEF Parting
<1>1. fx[e].state # "none" /\ fx[e].op = "delete" /\ gx[e].basis = fx[e].basis
  BY DEF Carried, Kept
<1>2. Departed(fx[e].basis) /\ (fx[e].basis = b => want = NoCopy)
  BY <1>1 DEF Parting
<1> QED BY <1>1, <1>2

\* See PartingCarried.
LEMMA PartingAdded ==
    ASSUME NEW fx, NEW gx, NEW b, NEW new, Parting(fx, b, new), NEW op, NEW basis, NEW want,
           Added(fx, gx, op, basis, want),
           op = "delete" => Departed(basis) /\ (basis = b => new = NoCopy)
    PROVE  Parting(gx, b, new)
<1>1. PICK i \in Free(fx) : /\ gx[i].op = op /\ gx[i].basis = basis
                            /\ \A x \in Ids \ {i} : Same(gx[x], fx[x])
  BY DEF Added
<1> SUFFICES ASSUME NEW e \in Ids, gx[e].state # "none", gx[e].op = "delete"
             PROVE  Departed(gx[e].basis) /\ (gx[e].basis = b => new = NoCopy)
  BY DEF Parting
<1>2. CASE e = i
  BY <1>1, <1>2
<1>3. CASE e # i
  <2>1. fx[e].state # "none" /\ fx[e].op = "delete" /\ gx[e].basis = fx[e].basis
    BY <1>1, <1>3 DEF Same, Kept
  <2> QED BY <2>1 DEF Parting
<1> QED BY <1>2, <1>3

\* A replacement or a repair is planned only while a copy is wanted.
LEMMA RenewedEvident ==
    ASSUME Base, Evident, UNCHANGED <<source, recon>>, NEW fx, Carried(fx, effect),
           NEW op, op # "delete", NEW basis, Added(fx, effect', op, basis, proj'.want),
           proj.want # NoCopy, proj'.want.gen = proj'.gen, proj'.rec = "none",
           proj'.basis = proj.basis
    PROVE  Evident'
<1>1. Parting(fx, proj.basis, proj'.want)
  BY PartingCarried DEF Evident
<1>2. Parting(effect', proj.basis, proj'.want)
  BY <1>1, PartingAdded
<1> QED BY <1>2 DEF Evident, Parting, Departed

\* A deed keeps the plans evident.
LEMMA DeedEvident ==
    ASSUME Base, Truthful, Evident, NEW w \in Workers, worker[w].job \in Ids, Deed(w),
           UNCHANGED <<source, recon>>
    PROVE  Evident'
<1> DEFINE e == worker[w].job
<1>0. TypeOK /\ Counted /\ effect \in [Ids -> Effect] /\ proj \in Projection
  BY DEF Base, Shape, TypeOK
<1>1. ASSUME Carried(effect', effect), proj'.basis = proj.basis, proj'.want = proj.want,
             proj'.gen = proj.gen \/ proj.want = NoCopy, proj'.rec = proj.rec \/ proj'.rec = "none"
      PROVE  Evident'
  <2>1. Parting(effect', proj.basis, proj.want)
    BY <1>1, PartingCarried DEF Evident
  <2> QED BY <1>1, <2>1 DEF Evident, Parting, Departed
<1>2. Holder(w) => effect[e].state # "none"
  BY DEF Holder
<1>3. CASE UNCHANGED <<proj, effect>>
  BY <1>0, <1>1, <1>3, CarriedIs
<1>4. CASE Holder(w) /\ Defer(w)
  <2>1. Carried(effect', effect)
    BY <1>0, <1>2, <1>4, DeferIs, CarriedIs
  <2> QED BY <1>1, <1>4, <2>1 DEF Defer
<1>5. ASSUME NEW retryable, NEW ambiguous, Holder(w), Fail(w, retryable, ambiguous)
      PROVE  Evident'
  <2>1. Carried(effect', effect)
    BY <1>0, <1>2, <1>5, FailIs, CarriedIs
  <2> QED BY <1>0, <1>1, <1>5, <2>1, FailIs
<1>6. CASE Supersede(w)
  <2>1. Carried(effect', effect)
    BY <1>0, <1>6, SupersedeIs, CarriedIs
  <2> QED BY <1>0, <1>1, <1>6, <2>1, SupersedeIs
<1>7. CASE Holder(w) /\ HoldAmbiguous(w)
  <2>1. Carried(effect', effect)
    BY <1>0, <1>2, <1>7, HoldAmbiguousIs, CarriedIs
  <2> QED BY <1>0, <1>1, <1>7, <2>1, HoldAmbiguousIs
<1>8. ASSUME NEW rev \in Nat, Holder(w), CurrentBasis(e), Succeed(w, rev) PROVE Evident'
  <2>1. /\ effect' = Finish(effect, e) /\ proj'.basis = proj.basis /\ proj'.rec = "none"
        /\ proj'.want = proj.want /\ (effect[e].op # "delete" => proj'.gen = proj.gen)
    BY <1>0, <1>8, SucceedIs
  <2>2. Carried(effect', effect)
    BY <1>0, <2>1, CarriedIs
  <2>3. effect[e].op = "delete" => proj.want = NoCopy
    BY <1>2, <1>8 DEF Evident, Parting, CurrentBasis
  <2> QED BY <1>1, <2>1, <2>2, <2>3
<1>9. CASE Holder(w) /\ Replace(w)
  <2>1. CASE effect' = Finish(effect, e) /\ proj' = proj
    BY <1>0, <1>1, <2>1, CarriedIs
  <2>2. CASE Fail(w, FALSE, FALSE)
    BY <1>5, <1>9, <2>2
  <2>3. CASE /\ proj.want # NoCopy
             /\ Added(Finish(effect, e), effect', "create", effect[e].basis, proj'.want)
             /\ proj'.want.gen = proj'.gen /\ proj'.rec = "none" /\ proj'.basis = proj.basis
    <3>1. Carried(Finish(effect, e), effect)
      <4>1. /\ Finish(effect, e)[e] = NoEffect
            /\ \A x \in Ids \ {e} : Same(Finish(effect, e)[x], effect[x])
        BY <1>0, FinishIs
      <4> QED BY <4>1 DEF Carried, NoEffect, Same
    <3> QED BY <2>3, <3>1, RenewedEvident
  <2> QED BY <1>0, <1>9, <2>1, <2>2, <2>3, ReplaceIs
<1>10. Target.rev + 1 \in Nat /\ 0 \in Nat
  BY <1>0, CalendarFacts DEF Target
<1>11. \A rev \in Nat : Holder(w) /\ CurrentBasis(e) /\ Succeed(w, rev) => Evident'
  BY <1>8
<1>12. \A retryable, ambiguous \in BOOLEAN : Holder(w) /\ Fail(w, retryable, ambiguous) => Evident'
  BY <1>5
<1> QED BY <1>3, <1>4, <1>6, <1>7, <1>9, <1>10, <1>11, <1>12 DEF Deed, Ends, Turns

\* An evaluation asks for a copy only of a version that is selected.
LEMMA WantedIsIncluded ==
    ASSUME NEW v, Evaluate(proj, v).want # NoCopy
    PROVE  Included(v)
  BY DEF Evaluate

\* A reconcile pass keeps the plans evident.
LEMMA CommitEvident ==
    ASSUME Base, Truthful, Evident, NEW r \in Reconcilers, Commit(r)
    PROVE  Evident'
<1> DEFINE v == recon[r].version
           res == Evaluate(proj, v)
<1>0. /\ TypeOK /\ effect \in [Ids -> Effect] /\ v \in Versions /\ v <= source.version
      /\ UNCHANGED source /\ source.horizon \in {"inside", "outside"}
  BY DEF Base, Shape, TypeOK, Evident, Commit, Reading
<1>1. \A q \in Reconcilers : recon'[q].version <= source.version
  <2>1. recon' = [recon EXCEPT ![r] = NoPass] /\ recon \in [Reconcilers -> Pass]
    BY <1>0 DEF Commit, TypeOK
  <2>2. NoPass.version <= source.version
    BY <1>0, VersionFacts DEF NoPass
  <2> QED BY <2>1, <2>2 DEF Evident
<1>2. Included(v) <=> ~Departed(v)
  BY <1>0 DEF Included, Departed
<1>3. res.want # NoCopy => Included(v) /\ res.want.gen = proj.gen
  BY <1>0, EvaluateIs, WantedIsIncluded
<1>4. Departed(v) => res.want = NoCopy
  BY <1>2, <1>3
<1> HIDE DEF res
<1>5. CASE RefreshEvidence(r)
  <2>1. /\ proj'.basis = v /\ effect' = effect /\ proj'.gen = proj.gen /\ proj'.want = res.want
        /\ proj'.rec = "delete" => ~Included(v)
    BY <1>0, <1>5, RefreshIs DEF res
  <2>2. Parting(effect', v, res.want)
    <3>1. Carried(effect', effect)
      BY <2>1 DEF Carried, Kept
    <3> QED BY <1>4, <3>1, PartingCarried DEF Evident
  <2> QED BY <1>0, <1>1, <1>2, <1>3, <2>1, <2>2 DEF Evident, Parting, Departed
<1>6. CASE Intend(r)
  <2>1. /\ proj'.basis = v /\ proj'.rec = "none" /\ proj'.gen = proj.gen /\ proj'.want = res.want
        /\ effect' = effect \/ (res.op # "none" /\ Added(effect, effect', res.op, v, res.want))
    BY <1>0, <1>6, IntendIs DEF res
  <2>2. res.op = "delete" => ~Included(v)
    BY <1>0, EvaluateIs DEF res
  <2>3. Parting(effect, v, res.want)
    <3>1. Carried(effect, effect)
      BY DEF Carried, Kept
    <3> QED BY <1>4, <3>1, PartingCarried DEF Evident
  <2>4. Parting(effect', v, res.want)
    BY <1>2, <1>4, <2>1, <2>2, <2>3, PartingAdded
  <2> QED BY <1>0, <1>1, <1>3, <2>1, <2>4 DEF Evident, Parting, Departed
<1>7. CASE Ignore(r)
  BY <1>0, <1>1, <1>7 DEF Ignore, Evident, Parting, Departed
<1> QED BY <1>5, <1>6, <1>7 DEF Commit

\* A recovery intent is a deletion only of what is not selected.
LEMMA RecoverEvident ==
    ASSUME Base, Evident, proj.rec # "none", NEW fx \in [Ids -> Effect], Carried(fx, effect),
           Recover(fx), UNCHANGED <<source, recon>>
    PROVE  Evident'
<1>0. TypeOK
  BY DEF Base, Shape
<1>1. /\ Added(fx, effect', proj.rec, proj.basis, proj.want) /\ proj'.gen = proj.gen
      /\ proj'.basis = proj.basis /\ proj'.rec = "none" /\ proj'.want = proj.want
  BY <1>0, RecoverIs
<1>2. Parting(fx, proj.basis, proj.want)
  BY PartingCarried DEF Evident
<1>3. Parting(effect', proj.basis, proj.want)
  BY <1>1, <1>2, PartingAdded DEF Evident
<1> QED BY <1>1, <1>3 DEF Evident, Parting, Departed

\* A person's retry keeps the plans evident.
LEMMA RetryEvident ==
    ASSUME Base, Evident, RetryBlocked
    PROVE  Evident'
<1>0. TypeOK /\ effect \in [Ids -> Effect] /\ UNCHANGED <<source, recon>> /\ Carried(effect, effect)
  BY DEF Base, Shape, TypeOK, RetryBlocked, Carried, Kept
<1>1. ASSUME Carried(effect', effect), proj'.basis = proj.basis, proj'.want = proj.want,
             proj'.gen = proj.gen, proj'.rec = proj.rec \/ proj'.rec = "none"
      PROVE  Evident'
  <2>1. Parting(effect', proj.basis, proj.want)
    BY <1>1, PartingCarried DEF Evident
  <2> QED BY <1>0, <1>1, <2>1 DEF Evident, Parting, Departed
<1>2. ASSUME NEW d \in Ids, RetryDead(d) PROVE Evident'
  <2>1. CASE Replayable(d)
    <3>1. /\ effect' = [effect EXCEPT ![d] = [@ EXCEPT !.state = "retry", !.tries = 0,
                                                       !.mode = "ambiguous"]]
          /\ proj' = [proj EXCEPT !.rec = "none", !.status = "retrying", !.code = "none"]
          /\ effect[d].state # "none"
      BY <1>2, <2>1 DEF RetryDead, Dead
    <3>2. /\ Kept(effect'[d], effect[d]) /\ \A x \in Ids \ {d} : effect'[x] = effect[x]
          /\ proj'.gen = proj.gen /\ proj'.rec = "none" /\ proj'.basis = proj.basis
          /\ proj'.want = proj.want
      BY <1>0, <2>1, <3>1, ReplayIs
    <3>3. Carried(effect', effect)
      BY <1>0, <3>1, <3>2, CarriedIs
    <3> QED BY <1>1, <3>2, <3>3
  <2>2. CASE proj.rec # "none" /\ Recover(Finish(effect, d))
    <3>1. /\ Finish(effect, d)[d] = NoEffect /\ Finish(effect, d) \in [Ids -> Effect]
          /\ \A x \in Ids \ {d} : Same(Finish(effect, d)[x], effect[x])
      BY <1>0, FinishIs
    <3>2. Carried(Finish(effect, d), effect)
      BY <3>1 DEF Carried, NoEffect, Same
    <3> QED BY <1>0, <2>2, <3>1, <3>2, RecoverEvident
  <2>3. CASE Reconsider("failed") /\ effect' = Finish(effect, d)
    <3>1. Carried(effect', effect)
      BY <1>0, <2>3, CarriedIs
    <3> QED BY <1>0, <1>1, <2>3, <3>1, ReconsiderIs
  <2> QED BY <1>2, <2>1, <2>2, <2>3 DEF RetryDead
<1>3. CASE RetryHold
  <2>1. CASE proj.rec # "none" /\ Recover(effect)
    BY <1>0, <2>1, RecoverEvident
  <2>2. CASE Reconsider("held") /\ UNCHANGED effect
    BY <1>0, <1>1, <2>2, ReconsiderIs
  <2> QED BY <1>3, <2>1, <2>2 DEF RetryHold
<1> QED BY <1>2, <1>3 DEF RetryBlocked

\* A verdict keeps the plans evident.
LEMMA SettleEvident ==
    ASSUME Base, Evident, Settle
    PROVE  Evident'
<1>0. TypeOK /\ effect \in [Ids -> Effect] /\ UNCHANGED <<source, recon>> /\ Carried(effect, effect)
  BY DEF Base, Shape, TypeOK, Settle, Carried, Kept
<1>1. ASSUME effect' = effect, proj'.basis = proj.basis, proj'.want = proj.want,
             proj'.gen = proj.gen, proj'.rec = proj.rec \/ proj'.rec # "delete"
      PROVE  Evident'
  BY <1>0, <1>1 DEF Evident, Parting, Departed
<1>2. CASE UNCHANGED <<proj, effect, notice>>
  BY <1>1, <1>2
<1>3. CASE HoldForeign
  BY <1>0, <1>1, <1>3, HoldForeignIs
<1>4. CASE HoldEdit
  BY <1>0, <1>1, <1>4, HoldEditIs
<1>5. CASE Repair
  <2>1. PICK op \in {"create", "update"} : Added(effect, effect', op, check.basis, proj'.want)
    BY <1>0, <1>5, RepairIs
  <2>2. /\ proj.want # NoCopy /\ proj'.want.gen = proj'.gen /\ proj'.rec = "none"
        /\ proj'.basis = proj.basis
    BY <1>0, <1>5, RepairIs
  <2> QED BY <1>0, <2>1, <2>2, RenewedEvident
<1> QED BY <1>0, <1>2, <1>3, <1>4, <1>5, SettleIs

\* Every step keeps the plans evident.
LEMMA NextEvident ==
    ASSUME Base, Truthful, Evident, [Next]_vars
    PROVE  Evident'
<1> DEFINE v == source.version
<1>0. /\ TypeOK /\ effect \in [Ids -> Effect] /\ proj \in Projection /\ v \in Nat
      /\ recon \in [Reconcilers -> Pass] /\ Carried(effect, effect)
      /\ source \in [version : Versions, horizon : {"inside", "outside"}]
  BY VersionFacts DEF Base, Shape, TypeOK, Carried, Kept
<1>1. ASSUME UNCHANGED <<source, proj, effect, recon>> PROVE Evident'
  BY <1>1 DEF Evident, Parting, Departed
<1>2. ASSUME NEW w \in Workers, NEW e \in Ids, Lease(w, e) PROVE Evident'
  <2>1. /\ effect[e].state \in Unfinished /\ Kept(effect'[e], effect[e])
        /\ \A x \in Ids \ {e} : effect'[x] = effect[x]
    BY <1>0, <1>2, LeaseIs
  <2>2. UNCHANGED <<proj, source, recon>> /\ effect[e].state # "none"
    BY <1>2, <2>1 DEF Lease, Elsewhere, Unfinished
  <2>3. Carried(effect', effect)
    BY <1>0, <2>1, <2>2, CarriedIs
  <2>4. Parting(effect', proj.basis, proj.want)
    BY <2>3, PartingCarried DEF Evident
  <2> QED BY <2>2, <2>4 DEF Evident, Parting, Departed
<1>3. ASSUME NEW w \in Workers, Executes(w) PROVE Evident'
  BY <1>3, ExecutorDeed, DeedEvident DEF Elsewhere
<1>4. ASSUME NEW r \in Reconcilers, Read(r) \/ PassDies(r) PROVE Evident'
  <2>1. UNCHANGED <<source, proj, effect>>
    BY <1>4 DEF Read, PassDies
  <2>2. \/ recon' = recon
        \/ recon' = [recon EXCEPT ![r] = NoPass]
        \/ recon' = [recon EXCEPT ![r] = [pc |-> "read", version |-> v, mark |-> Queued(effect)]]
    BY <1>4 DEF Read, PassDies
  <2>3. \A q \in Reconcilers : recon[q].version <= v
    BY DEF Evident
  <2>4. \A q \in Reconcilers : recon'[q].version <= v
    BY <1>0, <2>2, <2>3 DEF NoPass
  <2> QED BY <2>1, <2>4 DEF Evident, Parting, Departed
<1>5. CASE Load \/ Look \/ \E kind \in Faults : LookFails(kind)
  BY <1>1, <1>5 DEF Load, Look, LookFails
<1>6. CASE Keep
  <2>1. /\ UNCHANGED <<source, effect, recon>>
        /\ proj' = [proj EXCEPT !.own = "detached", !.status = "converged",
                                !.rec = "none", !.code = "none"]
    BY <1>6 DEF Keep
  <2>2. /\ proj'.gen = proj.gen /\ proj'.basis = proj.basis /\ proj'.rec = "none"
        /\ proj'.want = proj.want
    BY <1>0, <2>1 DEF Projection
  <2> QED BY <2>1, <2>2 DEF Evident, Parting, Departed
<1>7. CASE Restore
  BY <1>0, <1>7, RecoverEvident DEF Restore
<1>8. CASE SourceChanges \/ AgesOut
  <2>1. /\ UNCHANGED <<proj, effect, recon>> /\ source'.version \in {v, v + 1}
        /\ source'.horizon = source.horizon \/ source'.horizon = "outside"
    BY <1>0, <1>8 DEF SourceChanges, AgesOut
  <2>2. /\ proj.basis <= source'.version
        /\ \A r \in Reconcilers : recon[r].version <= source'.version
    BY <1>0, <2>1, VersionFacts DEF Evident
  <2>3. ASSUME NEW x \in Ids, effect[x].state # "none", effect[x].op = "delete"
        PROVE  /\ Copy[effect[x].basis] = "none" \/ source'.horizon = "outside"
               /\ effect[x].basis = proj.basis => proj.want = NoCopy
    BY <2>1, <2>3 DEF Evident, Parting, Departed
  <2>4. proj.rec = "delete" =>
          proj.want = NoCopy /\ (Copy[proj.basis] = "none" \/ source'.horizon = "outside")
    BY <2>1 DEF Evident, Departed
  <2> QED BY <2>1, <2>2, <2>3, <2>4 DEF Evident, Parting, Departed
<1>9. CASE Pause \/ Resume \/ Acknowledge \/ Wakeup \/ Touch \/ Outage \/ Reconnect
  BY <1>1, <1>9 DEF Pause, Resume, Acknowledge, Wakeup, Touch, Outage, Reconnect
<1>10. CASE UNCHANGED vars
  BY <1>1, <1>10 DEF vars
<1> QED BY <1>2, <1>3, <1>4, <1>5, <1>6, <1>7, <1>8, <1>9, <1>10, Steps, CommitEvident,
           RetryEvident, SettleEvident DEF Person, Surroundings

\* The knowledge of the calendar, and the evidence for what is planned.
Known == Tracked /\ Sighted /\ Evident

\* What the projection, the verifier and the executors record of the calendar is true of
\* it now or was true of an earlier revision; ids of later generations are unused; and a
\* deletion is planned only of a version that is not selected.
THEOREM KnownInvariant == Spec => []Known
<1>1. Init => Known
  <2> SUFFICES ASSUME Init PROVE Known
    OBVIOUS
  <2>0. 1 \in Gens /\ source.version = 1
    BY CopyAssumption DEF Init, Gens
  <2>1. Tracked
    BY <2>0 DEF Init, Tracked, Target, NoEvent, NoProjection, Has, Writing, Rest
  <2>2. Sighted
    BY DEF Init, Sighted, NoCheck
  <2>3. Parting(effect, proj.basis, proj.want)
    BY DEF Init, Parting, NoEffect
  <2>4. Evident
    BY <2>0, <2>3 DEF Init, Evident, NoProjection, NoPass
  <2> QED BY <2>1, <2>2, <2>4 DEF Known
<1>2. Base /\ Truthful /\ Known /\ [Next]_vars => Known'
  BY NextTracked, NextSighted, NextEvident DEF Known
<1> QED BY <1>1, <1>2, BaseInvariant, TruthfulInvariant, PTL DEF Spec

-----------------------------------------------------------------------------
(* No copy is left behind.                                                 *)

\* A generation is left only when its event is not there, or is not ours.
LEMMA NextLeftBehind ==
    ASSUME Base, Truthful, Known, Recorded, NoCopyLeftBehind, [Next]_vars
    PROVE  NoCopyLeftBehind'
<1>0. TypeOK /\ proj.gen \in Gens /\ source.horizon \in {"inside", "outside"}
  BY CalendarFacts DEF Base, Shape, TypeOK
<1> SUFFICES ASSUME NEW g \in Gens, dest'[g].st = "live", dest'[g].mark # 0
             PROVE  g = proj'.gen
  BY DEF NoCopyLeftBehind
<1>1. g = proj.gen
  <2>1. CASE dest'[g] = dest[g]
    BY <2>1 DEF NoCopyLeftBehind
  <2>2. CASE dest[g].st = "live" /\ dest'[g].mark \in {0, dest[g].mark}
    BY <2>2 DEF NoCopyLeftBehind
  <2> QED BY <2>1, <2>2, CalendarStep
<1>2. ~Advanced
  <2> SUFFICES ASSUME Advanced PROVE FALSE
    OBVIOUS
  <2>1. ~Has(proj) /\ dest' = dest
    BY <1>1 DEF Advanced
  <2>2. PICK e \in Ids : effect[e].state # "none" /\ effect[e].op = "delete" /\ CurrentBasis(e)
    BY <1>1 DEF Advanced
  <2>3. Departed(source.version)
    BY <2>2 DEF Known, Evident, Parting, CurrentBasis
  <2>4. ~Included(source.version)
    BY <1>0, <2>3 DEF Departed, Included
  <2>5. Ours(proj.gen)
    BY <1>1, <2>1 DEF Ours
  <2> QED BY <2>1, <2>4, <2>5 DEF Recorded
<1> QED BY <1>1, <1>2, NextMoves DEF Known, Steady, Landed, Adopted

\* NoCopyLeftBehind: a managed copy is only ever found under the id of the current
\* generation, whatever failed, died or was edited, provided that an occurrence whose
\* created copy was not recorded yet stays selected.
THEOREM NoCopyLeftBehindHolds == Spec /\ []Recorded => []NoCopyLeftBehind
<1>1. Init => NoCopyLeftBehind
  BY DEF Init, NoCopyLeftBehind, NoEvent
<1>2. Base /\ Truthful /\ Known /\ Recorded /\ NoCopyLeftBehind /\ [Next]_vars => NoCopyLeftBehind'
  BY NextLeftBehind
<1> QED BY <1>1, <1>2, BaseInvariant, TruthfulInvariant, KnownInvariant, PTL DEF Spec

-----------------------------------------------------------------------------
(* Nobody else's event is touched.                                         *)

\* Finishing an effect and adding one that looks before it writes keep the others careful.
LEMMA CarefulFinish ==
    ASSUME NEW fx \in [Ids -> Effect], NEW e \in Ids, Careful(fx)
    PROVE  Careful(Finish(fx, e))
<1> DEFINE new(x) == [fx[x] EXCEPT !.before = @ \ {e}]
           gx == Finish(fx, e)
<1>1. \A x \in Ids : fx[x] \in Effect
  OBVIOUS
<1>2. \A x \in Ids : new(x).state = fx[x].state /\ new(x).op = fx[x].op /\ new(x).mode = fx[x].mode
  BY <1>1 DEF Effect
<1>3. gx = [x \in Ids |-> IF x = e THEN NoEffect ELSE new(x)]
  BY DEF Finish
<1> HIDE DEF new, gx
<1>4. gx[e] = NoEffect /\ \A x \in Ids \ {e} : gx[x] = new(x)
  BY <1>3
<1>5. NoEffect.state \notin Unfinished
  BY DEF NoEffect, Unfinished
<1>6. Careful(gx)
  BY <1>2, <1>4, <1>5 DEF Careful, Waiting
<1> QED BY <1>6 DEF gx

\* See CarefulFinish.
LEMMA CarefulInsert ==
    ASSUME NEW fx \in [Ids -> Effect], NEW first \in SUBSET Ids, Careful(fx),
           NEW op, NEW basis, NEW want, NEW mode, op = "create" \/ mode = "ambiguous"
    PROVE  Careful(Insert(fx, NewEffect(op, basis, want, mode), first))
<1> DEFINE i == CHOOSE k \in Free(fx) : \A j \in Free(fx) : k <= j
           behind(x) == [fx[x] EXCEPT !.before = @ \cup {i}]
           row == [NewEffect(op, basis, want, mode) EXCEPT !.before = first]
           gx == Insert(fx, NewEffect(op, basis, want, mode), first)
<1>1. gx = [x \in Ids |->
          IF x = i THEN row ELSE IF x \in Queued(fx) \ first THEN behind(x) ELSE fx[x]]
  BY DEF Insert
<1> HIDE DEF i, gx
<1>2. \A x \in Ids : fx[x] \in Effect
  OBVIOUS
<1>3. \A x \in Ids : /\ behind(x).state = fx[x].state /\ behind(x).op = fx[x].op
                     /\ behind(x).mode = fx[x].mode
  BY <1>2 DEF Effect
<1>4. row.op = op /\ row.mode = mode
  BY DEF NewEffect, NoEffect
<1> HIDE DEF behind, row
<1>5. \A x \in Ids : gx[x] = row \/ gx[x] = behind(x) \/ gx[x] = fx[x]
  BY <1>1
<1>6. Careful(gx)
  BY <1>3, <1>4, <1>5 DEF Careful, Waiting
<1> QED BY <1>6 DEF gx

\* A recovery looks before it writes.
LEMMA CarefulRecover ==
    ASSUME NEW fx \in [Ids -> Effect], Careful(fx), Recover(fx)
    PROVE  Careful(effect')
<1>1. Queued(fx) \in SUBSET Ids
  BY DEF Queued
<1>2. effect' = Insert(fx, NewEffect(proj.rec, proj.basis, proj.want, "ambiguous"), Queued(fx))
  BY DEF Recover, AppendEffect
<1> QED BY <1>1, <1>2, CarefulInsert

\* So does an effect that is taken, that failed, that is dead or that is replayed.
LEMMA CarefulProgress ==
    ASSUME NEW e \in Ids, Careful(effect), \A x \in Ids \ {e} : effect'[x] = effect[x],
           \/ effect'[e].state \notin Unfinished
           \/ effect'[e].mode = "ambiguous"
           \/ /\ effect[e].state \in Unfinished /\ effect'[e].op = effect[e].op
              /\ effect'[e].mode = effect[e].mode
    PROVE  Careful(effect')
  BY DEF Careful, Waiting

\* An event that is exposed after a step that records no revision was exposed before it.
LEMMA ExposedBefore ==
    ASSUME Base, Known, Steady, [Next]_vars, Legible'
    PROVE  Legible /\ dest'[proj.gen] = dest[proj.gen] /\ proj'.gen = proj.gen
<1>0. /\ proj.gen \in Gens /\ proj.etag \in Nat /\ dest[proj.gen].rev \in Nat
  BY CalendarFacts DEF Base, Shape
<1>1. /\ proj'.gen = proj.gen /\ proj'.etag = proj.etag /\ proj.etag <= dest[proj.gen].rev
      /\ dest'[proj.gen].st = "live" /\ dest'[proj.gen].rev = proj.etag /\ Has(proj)
  BY DEF Steady, Known, Tracked, Legible, Target, Has
<1>2. /\ dest[proj.gen].rev <= dest'[proj.gen].rev /\ dest'[proj.gen].rev \in Nat
      /\ /\ dest'[proj.gen].rev = dest[proj.gen].rev /\ dest'[proj.gen].st = "live"
         => dest'[proj.gen] = dest[proj.gen]
  BY <1>0, SameRevision
<1>3. dest'[proj.gen] = dest[proj.gen]
  BY <1>0, <1>1, <1>2
<1> QED BY <1>1, <1>3 DEF Legible, Target

\* An answered write, and the start of a generation, leave nothing exposed.
LEMMA NotExposed ==
    ASSUME Landed \/ Advanced
    PROVE  ~Exposed'
<1>1. CASE Landed
  BY <1>1 DEF Landed, Exposed, Target
<1>2. CASE Advanced
  BY <1>2 DEF Advanced, Exposed, Legible, Has
<1> QED BY <1>1, <1>2

\* A deed keeps an exposed copy watched.
LEMMA DeedWatched ==
    ASSUME Base, Truthful, Known, RecoveryRuns, Watched, NEW w \in Workers, worker[w].job \in Ids,
           Deed(w), [Next]_vars, Exposed'
    PROVE  proj'.own = "ambiguous" /\ Careful(effect')
<1> DEFINE e == worker[w].job
<1>0. /\ TypeOK /\ Counted /\ effect \in [Ids -> Effect] /\ effect[e] \in Effect
      /\ effect[e].mode \in {"plain", "ambiguous"} /\ proj \in Projection
  BY DEF Base, Shape, TypeOK, Effect
<1>1. Steady
  BY DeedMoves, NotExposed
<1>2. /\ proj.own = "ambiguous" /\ Careful(effect) /\ Target.st = "live"
  <2>1. Legible /\ dest'[proj.gen] = dest[proj.gen] /\ proj'.gen = proj.gen
    BY <1>1, ExposedBefore DEF Exposed
  <2>2. Exposed
    BY <2>1 DEF Exposed, Target
  <2> QED BY <2>2 DEF Watched, Exposed, Legible
<1>3. ASSUME NEW retryable \in BOOLEAN, NEW ambiguous \in BOOLEAN, Holder(w),
             Fail(w, retryable, ambiguous)
      PROVE  proj'.own = "ambiguous" /\ Careful(effect')
  <2>1. /\ proj'.own = "ambiguous" /\ \A x \in Ids \ {e} : effect'[x] = effect[x]
        /\ effect'[e].op = effect[e].op
    BY <1>0, <1>2, <1>3, FailIs DEF Kept
  <2>2. effect'[e].mode \in {"ambiguous", effect[e].mode}
    <3> DEFINE dead == ~retryable \/ effect[e].tries >= MaxAttempts
               state == IF dead THEN "dead" ELSE "retry"
               mode == IF ambiguous THEN "ambiguous" ELSE effect[e].mode
               new == [effect[e] EXCEPT !.state = state, !.owner = NoWorker, !.mode = mode]
    <3>1. effect' = [effect EXCEPT ![e] = new]
      BY <1>0, <1>3 DEF Fail
    <3>2. mode \in {"ambiguous", effect[e].mode}
      OBVIOUS
    <3> HIDE DEF state, mode
    <3>3. new.mode = mode
      BY <1>0 DEF Effect
    <3> HIDE DEF new
    <3> QED BY <1>0, <3>1, <3>2, <3>3
  <2>3. effect[e].state \in Unfinished
    BY <1>3 DEF Holder, Unfinished
  <2> QED BY <1>2, <2>1, <2>2, <2>3, CarefulProgress
<1>4. CASE Supersede(w)
  <2>1. effect' = Finish(effect, e) /\ proj'.own = "ambiguous"
    BY <1>0, <1>2, <1>4, SupersedeIs
  <2> QED BY <1>0, <1>2, <2>1, CarefulFinish
<1>5. CASE HoldAmbiguous(w)
  <2>1. /\ effect'[e].state = "dead" /\ proj'.own = "ambiguous"
        /\ \A x \in Ids \ {e} : effect'[x] = effect[x]
    BY <1>0, <1>5, HoldAmbiguousIs
  <2> QED BY <1>2, <2>1, CarefulProgress DEF Unfinished
<1>6. ~(Holder(w) /\ policy = "paused")
  BY <1>2, HolderWaits DEF RecoveryRuns
<1>7. ~(Holder(w) /\ CurrentBasis(e) /\ Applied(w) /\ Succeed(w, Target.rev + 1))
  BY SucceedLands, NotExposed
<1>8. ~Ends(w)
  <2> SUFFICES ASSUME Ends(w) PROVE FALSE
    OBVIOUS
  <2>1. proj' = [proj EXCEPT !.rec = "none", !.etag = 0, !.gen = proj.gen + 1,
                             !.status = "deleted", !.code = "none"]
    BY DEF Ends, Succeed
  <2>2. proj'.etag = 0
    BY <1>0, <2>1 DEF Projection
  <2> QED BY <2>2 DEF Exposed, Legible, Has
<1>9. CASE UNCHANGED <<proj, effect>>
  BY <1>2, <1>9
<1> QED BY <1>2, <1>3, <1>4, <1>5, <1>6, <1>7, <1>8, <1>9 DEF Deed, Turns


\* Every step keeps an exposed copy watched.
LEMMA NextWatched ==
    ASSUME Base, Truthful, Known, RecoveryRuns, Watched, [Next]_vars
    PROVE  Watched'
<1>0. /\ TypeOK /\ effect \in [Ids -> Effect] /\ proj \in Projection /\ Reading
      /\ proj.status = "absent" => proj.own = "attached"
  BY DEF Base, Shape, TypeOK, Truthful
<1> SUFFICES ASSUME Exposed' PROVE proj'.own = "ambiguous" /\ Careful(effect')
  BY DEF Watched
<1>1. ASSUME Steady PROVE proj.own = "ambiguous" /\ Careful(effect)
  <2>1. Legible /\ dest'[proj.gen] = dest[proj.gen] /\ proj'.gen = proj.gen
    BY <1>1, ExposedBefore DEF Exposed
  <2>2. Exposed
    BY <2>1 DEF Exposed, Target
  <2> QED BY <2>2 DEF Watched
<1>2. ASSUME UNCHANGED <<proj, effect>> PROVE proj'.own = "ambiguous" /\ Careful(effect')
  <2>1. Steady
    BY <1>2 DEF Steady
  <2> QED BY <1>1, <1>2, <2>1
<1>3. ASSUME NEW w \in Workers, NEW e \in Ids, Lease(w, e)
      PROVE  proj'.own = "ambiguous" /\ Careful(effect')
  <2>1. /\ effect[e].state \in Unfinished /\ Kept(effect'[e], effect[e]) /\ proj' = proj
        /\ \A x \in Ids \ {e} : effect'[x] = effect[x]
    BY <1>0, <1>3, LeaseIs DEF Lease
  <2>2. effect'[e].mode \in {"ambiguous", effect[e].mode}
    <3> DEFINE mode == IF effect[e].state = "leased" THEN "ambiguous" ELSE effect[e].mode
               new == [effect[e] EXCEPT !.state = "leased", !.owner = w,
                                        !.tries = effect[e].tries + 1, !.mode = mode]
    <3>1. effect' = [effect EXCEPT ![e] = new]
      BY <1>0, <1>3 DEF Lease
    <3>2. mode \in {"ambiguous", effect[e].mode}
      OBVIOUS
    <3> HIDE DEF mode
    <3>3. effect[e] \in Effect
      BY <1>0
    <3>4. new.mode = mode
      BY <3>3 DEF Effect
    <3> HIDE DEF new
    <3> QED BY <1>0, <3>1, <3>2, <3>4
  <2>3. proj.own = "ambiguous" /\ Careful(effect)
    BY <1>1, <2>1 DEF Steady
  <2> QED BY <2>1, <2>2, <2>3, CarefulProgress DEF Kept
<1>4. ASSUME NEW w \in Workers, Executes(w) PROVE proj'.own = "ambiguous" /\ Careful(effect')
  BY <1>4, ExecutorDeed, DeedWatched
<1>5. ASSUME NEW r \in Reconcilers, Commit(r) PROVE proj'.own = "ambiguous" /\ Careful(effect')
  <2>1. recon[r].version \in Versions
    BY <1>0, <1>5 DEF Reading, Commit
  <2>2. proj.own = "ambiguous" /\ Careful(effect)
    BY <1>0, <1>1, <1>5, OthersSteady
  <2>3. CASE RefreshEvidence(r)
    BY <1>0, <2>1, <2>2, <2>3, RefreshIs
  <2>4. CASE Intend(r)
    BY <1>0, <2>2, <2>4 DEF Intend, Blocked
  <2>5. CASE Ignore(r)
    BY <2>2, <2>5 DEF Ignore
  <2> QED BY <1>5, <2>3, <2>4, <2>5 DEF Commit
<1>6. ASSUME NEW r \in Reconcilers, Read(r) \/ PassDies(r)
      PROVE  proj'.own = "ambiguous" /\ Careful(effect')
  BY <1>2, <1>6 DEF Read, PassDies
<1>7. CASE Settle
  <2>1. CASE Steady
    <3>1. proj.own = "ambiguous" /\ Careful(effect)
      BY <1>1, <2>1
    <3>2. UNCHANGED <<proj, effect>>
      BY <1>7, <3>1 DEF Settle, StillCurrent
    <3> QED BY <3>1, <3>2
  <2>2. CASE Advanced
    BY <2>2, NotExposed
  <2>3. CASE Adopted /\ HoldForeign
    <3>1. proj'.own = "ambiguous" /\ effect' = effect
      BY <1>0, <2>3, HoldForeignIs
    <3>2. Careful(effect)
      BY <2>3 DEF Adopted, StillCurrent, Careful
    <3> QED BY <3>1, <3>2
  <2>4. CASE Adopted /\ check.sight = "drifted"
    <3>1. /\ check.gen = proj.gen /\ proj'.gen = proj.gen /\ proj'.etag = check.rev
          /\ dest' = dest /\ check.pc = "seen"
      BY <2>4 DEF Adopted, StillCurrent
    <3>2. dest[proj.gen].st = "live" /\ dest[proj.gen].rev = check.rev /\ dest[proj.gen].mark = 0
      BY <3>1 DEF Exposed, Legible, Target
    <3> QED BY <2>4, <3>1, <3>2 DEF Known, Sighted
  <2> QED BY <1>7, <2>1, <2>2, <2>3, <2>4, SettleMoves DEF Known
<1>8. CASE Load \/ Look \/ \E kind \in Faults : LookFails(kind)
  BY <1>2, <1>8 DEF Load, Look, LookFails
<1>9. CASE RetryBlocked
  <2>0. proj.own = "ambiguous" /\ Careful(effect)
    BY <1>0, <1>1, <1>9, OthersSteady DEF Person
  <2>1. ASSUME NEW d \in Ids, RetryDead(d) PROVE proj'.own = "ambiguous" /\ Careful(effect')
    <3>0. Finish(effect, d) \in [Ids -> Effect] /\ Careful(Finish(effect, d))
      BY <1>0, <2>0, FinishIs, CarefulFinish
    <3>1. CASE Replayable(d)
      <4>1. /\ effect' = [effect EXCEPT ![d] = [@ EXCEPT !.state = "retry", !.tries = 0,
                                                         !.mode = "ambiguous"]]
            /\ proj' = [proj EXCEPT !.rec = "none", !.status = "retrying", !.code = "none"]
        BY <2>1, <3>1 DEF RetryDead
      <4>2. proj'.own = "ambiguous" /\ \A x \in Ids \ {d} : effect'[x] = effect[x]
        BY <1>0, <2>0, <3>1, <4>1, ReplayIs
      <4>3. effect'[d].mode = "ambiguous"
        <5> DEFINE new == [effect[d] EXCEPT !.state = "retry", !.tries = 0, !.mode = "ambiguous"]
        <5>1. effect' = [effect EXCEPT ![d] = new] /\ effect[d] \in Effect
          BY <1>0, <4>1
        <5>2. new.mode = "ambiguous"
          BY <5>1 DEF Effect
        <5> HIDE DEF new
        <5> QED BY <1>0, <5>1, <5>2
      <4> QED BY <2>0, <4>2, <4>3, CarefulProgress
    <3>2. CASE proj.rec # "none" /\ Recover(Finish(effect, d))
      BY <1>0, <2>0, <3>0, <3>2, RecoverIs, CarefulRecover
    <3>3. CASE Reconsider("failed") /\ effect' = Finish(effect, d)
      BY <1>0, <2>0, <3>0, <3>3, ReconsiderIs
    <3> QED BY <2>1, <3>1, <3>2, <3>3 DEF RetryDead
  <2>2. CASE RetryHold
    <3>1. CASE proj.rec # "none" /\ Recover(effect)
      BY <1>0, <2>0, <3>1, RecoverIs, CarefulRecover
    <3>2. CASE Reconsider("held") /\ UNCHANGED effect
      BY <1>0, <2>0, <3>2, ReconsiderIs
    <3> QED BY <2>2, <3>1, <3>2 DEF RetryHold
  <2> QED BY <1>9, <2>1, <2>2 DEF RetryBlocked
<1>10. CASE Keep \/ Restore
  <2>1. proj.own = "ambiguous"
    BY <1>0, <1>1, <1>10, OthersSteady DEF Person
  <2> QED BY <1>10, <2>1 DEF Keep, Restore, EditHold
<1>11. CASE Pause \/ Resume \/ Acknowledge \/ Surroundings
  BY <1>2, <1>11 DEF Pause, Resume, Acknowledge, Surroundings, SourceChanges, AgesOut, Wakeup,
                     Touch, Outage, Reconnect
<1>12. CASE UNCHANGED vars
  BY <1>2, <1>12 DEF vars
<1> QED BY <1>3, <1>4, <1>5, <1>6, <1>7, <1>8, <1>9, <1>10, <1>11, <1>12, Steps DEF Person

\* Every step leaves the writers guarded.
LEMMA NextGuarded ==
    ASSUME Base, Truthful, Known, Watched, Guarded, [Next]_vars
    PROVE  Guarded'
<1>0. /\ TypeOK /\ Gens \subseteq Nat \ {0} /\ proj.gen \in Gens /\ proj.etag \in Nat
      /\ \A w \in Workers : worker[w].rev \in Nat
  BY CalendarFacts DEF Base, Shape
<1> SUFFICES ASSUME NEW v \in Workers, Writing(v)', worker'[v].call # "create",
                    dest'[proj'.gen].st = "live", worker'[v].rev = dest'[proj'.gen].rev
             PROVE  dest'[proj'.gen].mark # 0
  BY DEF Guarded, Target
<1>1. CASE Writing(v) /\ worker'[v] = worker[v] /\ UNCHANGED proj
  <2>1. worker[v].rev <= dest[proj.gen].rev
    BY <1>1 DEF Known, Tracked, Target
  <2>2. /\ dest[proj.gen].rev \in Nat /\ dest'[proj.gen].rev \in Nat
        /\ dest[proj.gen].rev <= dest'[proj.gen].rev
        /\ /\ dest'[proj.gen].rev = dest[proj.gen].rev /\ dest'[proj.gen].st = "live"
           => dest'[proj.gen] = dest[proj.gen]
    BY <1>0, SameRevision
  <2>3. dest'[proj.gen].rev = dest[proj.gen].rev
    BY <1>0, <1>1, <2>1, <2>2
  <2>4. dest'[proj.gen] = dest[proj.gen]
    BY <1>1, <2>2, <2>3
  <2> QED BY <1>1, <2>4 DEF Guarded, Target
<1>2. CASE Turns(v) /\ Holder(v) /\ worker[v].job \in Ids
  <2> DEFINE e == worker[v].job
  <2>1. PICK pc \in {"lookup", "write", "reread", "rewrite"}, call \in Ops, rev \in Nat :
          /\ Stage(v, pc, call, rev)
          /\ \/ pc \in {"lookup", "reread"}
             \/ call = "create"
             \/ Belongs
             \/ rev = proj.etag /\ Has(proj) /\ effect[e].op # "create"
                /\ effect[e].mode # "ambiguous"
    BY <1>2 DEF Turns
  <2>2. worker'[v].pc = pc /\ worker'[v].call = call /\ worker'[v].rev = rev
    <3>1. worker \in [Workers -> Worker] /\ worker[v] \in Worker
      BY <1>0 DEF TypeOK
    <3> DEFINE new == [worker[v] EXCEPT !.pc = pc, !.call = call, !.rev = rev]
    <3>2. new.pc = pc /\ new.call = call /\ new.rev = rev
      BY <3>1 DEF Worker
    <3>3. worker' = [worker EXCEPT ![v] = new]
      BY <2>1, <3>1 DEF Stage
    <3> HIDE DEF new
    <3> QED BY <3>1, <3>2, <3>3
  <2>3. UNCHANGED <<proj, effect, dest>>
    BY <1>2 DEF Turns
  <2>4. CASE Belongs
    BY <1>0, <2>3, <2>4 DEF Belongs, Target
  <2>5. CASE rev = proj.etag /\ Has(proj) /\ effect[e].op # "create" /\ effect[e].mode # "ambiguous"
    <3>1. Legible
      BY <2>2, <2>3, <2>5 DEF Legible, Target
    <3>2. e \in Waiting(effect)
      BY <1>2, HolderWaits
    <3>3. ~Careful(effect)
      BY <2>5, <3>2 DEF Careful
    <3> QED BY <2>3, <3>1, <3>3 DEF Watched, Exposed, Target
  <2> QED BY <2>1, <2>2, <2>4, <2>5 DEF Writing
<1> QED BY <1>1, <1>2, WritingBefore

\* A guarded writer writes to no event without markers.
LEMMA WritesOurs ==
    ASSUME Base, Guarded, [Next]_vars, NEW g \in Gens, dest[g].st = "live", dest[g].mark = 0
    PROVE  ~Wrote(g)
<1> SUFFICES ASSUME Wrote(g) PROVE FALSE
  OBVIOUS
<1>1. PICK w \in Workers : Executes(w) /\ Busy(w) /\ g = proj.gen /\ worker[w].job \in Ids
  BY WroteIs
<1>2. dest' # dest
  BY DEF Wrote
<1>3. Applied(w)
  <2>1. Deed(w)
    BY <1>1, ExecutorDeed
  <2> QED BY <1>2, <2>1 DEF Deed, Turns
<1>4. worker[w].call \in Ops
  BY <1>1 DEF Base, Shape, TypeOK, Worker
<1>5. Target.st = "live" /\ Target.mark = 0
  BY <1>1 DEF Target
<1>6. worker[w].call # "create" /\ worker[w].rev = Target.rev
  BY <1>3, <1>4, <1>5 DEF Applied, Accepted, Ops
<1> QED BY <1>3, <1>5, <1>6 DEF Applied, Guarded

\* An event at the recorded revision without our markers is held for its ownership, and
\* every executor that is about to change an event would change one of ours.
THEOREM GuardedInvariant == Spec /\ []RecoveryRuns => [](Watched /\ Guarded)
<1>1. Init => Watched /\ Guarded
  <2> SUFFICES ASSUME Init PROVE Watched /\ Guarded
    OBVIOUS
  <2>1. Watched
    BY DEF Init, Watched, Exposed, Legible, Has, NoProjection
  <2>2. Guarded
    BY DEF Init, Guarded, Writing, Rest
  <2> QED BY <2>1, <2>2
<1>2. Base /\ Truthful /\ Known /\ RecoveryRuns /\ (Watched /\ Guarded) /\ [Next]_vars
      => (Watched /\ Guarded)'
  BY NextWatched, NextGuarded
<1> QED BY <1>1, <1>2, BaseInvariant, TruthfulInvariant, KnownInvariant, PTL DEF Spec

\* ForeignIsSafe: no executor overwrites or deletes an event that does not carry the
\* projection's markers, however stale the executor's knowledge of it is, provided that
\* the policy is not paused while the recovery of a held copy waits.
THEOREM ForeignHolds == Spec /\ []RecoveryRuns => ForeignIsSafe
<1>1. Base /\ Guarded /\ [Next]_vars
      => [\A g \in Gens : dest[g].st = "live" /\ dest[g].mark = 0 => ~Wrote(g)]_vars
  BY WritesOurs
<1> QED BY <1>1, BaseInvariant, GuardedInvariant, PTL DEF Spec, ForeignIsSafe

-----------------------------------------------------------------------------
(* "Converged" is true.                                                    *)

\* A copy that is wrong after a step that records no revision was wrong before it, if
\* the projection is for the same version.
LEMMA WrongBefore ==
    ASSUME Base, Known, Steady, [Next]_vars, Wrong', proj'.own = proj.own,
           proj'.want = proj.want, proj'.basis = proj.basis, source'.version = source.version
    PROVE  Wrong
<1>1. Legible /\ dest'[proj.gen] = dest[proj.gen] /\ proj'.gen = proj.gen
  BY ExposedBefore DEF Wrong
<1> QED BY <1>1 DEF Wrong, Target

\* Progress of an effect loses no payment, and finishing one loses none but its own.
LEMMA PaidKept ==
    ASSUME TypeOK, NEW e \in Ids, NEW v, NEW want, NEW x \in Ids, Pays(effect[x], v, want),
           \/ effect' = effect
           \/ effect' = Finish(effect, e) /\ x # e
           \/ /\ effect'[e].state # "none" /\ Kept(effect'[e], effect[e])
              /\ \A y \in Ids \ {e} : effect'[y] = effect[y]
    PROVE  Pays(effect'[x], v, want)
<1>1. CASE effect' = Finish(effect, e) /\ x # e
  <2>1. Same(effect'[x], effect[x])
    BY <1>1, FinishIs DEF TypeOK
  <2> QED BY <2>1 DEF Pays, Same, Kept
<1>2. CASE effect' = effect
  BY <1>2
<1>3. CASE /\ effect'[e].state # "none" /\ Kept(effect'[e], effect[e])
           /\ \A y \in Ids \ {e} : effect'[y] = effect[y]
  BY <1>3 DEF Pays, Kept
<1> QED BY <1>1, <1>2, <1>3

\* The effect that is added pays.
LEMMA AddedPays ==
    ASSUME NEW fx, NEW gx, NEW op, op # "delete", NEW v, NEW want, Added(fx, gx, op, v, want)
    PROVE  \E e \in Ids : Pays(gx[e], v, want)
<1>1. PICK i \in Free(fx) : gx[i].state = "pending" /\ gx[i].op = op /\ gx[i].basis = v
                            /\ gx[i].want = want
  BY DEF Added
<1>2. i \in Ids
  BY DEF Free
<1> QED BY <1>1, <1>2 DEF Pays

\* What blocks a projection whose copy is wrong: a dead effect or a decision.
LEMMA WrongBlocked ==
    ASSUME Wrong, Owed, ~Paid(effect)
    PROVE  proj.rec # "none" /\ (Dead(effect) # {} \/ EditHold(proj))
  BY DEF Wrong, Owed, Blocked

\* A deed keeps a wrong copy owed.
LEMMA DeedOwed ==
    ASSUME Base, Truthful, HoldWaits, Known, Owed, NEW w \in Workers, worker[w].job \in Ids,
           Deed(w), [Next]_vars, source' = source, Wrong'
    PROVE  Paid(effect)' \/ (proj'.rec # "none" /\ Blocked')
<1> DEFINE e == worker[w].job
           v == source.version
<1>0. TypeOK /\ Counted /\ effect \in [Ids -> Effect] /\ proj \in Projection
  BY DEF Base, Shape, TypeOK
<1>1. Steady
  <2>1. CASE Landed
    BY <2>1 DEF Landed, Wrong, Target
  <2>2. CASE Advanced
    BY <2>2 DEF Advanced, Wrong, Legible, Has
  <2> QED BY <2>1, <2>2, DeedMoves
<1>2. Legible /\ dest'[proj.gen] = dest[proj.gen]
  BY <1>1, ExposedBefore DEF Wrong
<1>3. Holder(w) => ~EditHold(proj)
  BY HolderWaits DEF HoldWaits
<1>4. ASSUME effect'[e].state # "none", Kept(effect'[e], effect[e]),
             \A x \in Ids \ {e} : effect'[x] = effect[x],
             proj'.own = proj.own, proj'.want = proj.want, proj'.basis = proj.basis,
             proj'.rec = proj.rec, Holder(w)
      PROVE  Paid(effect)' \/ (proj'.rec # "none" /\ Blocked')
  <2>1. Wrong
    BY <1>1, <1>4, WrongBefore
  <2>2. CASE Paid(effect)
    <3>1. PICK x \in Ids : Pays(effect[x], v, proj.want)
      BY <2>2 DEF Paid
    <3>2. Pays(effect'[x], v, proj.want)
      BY <1>0, <1>4, <3>1, PaidKept
    <3> QED BY <1>4, <3>2 DEF Paid
  <2>3. CASE ~Paid(effect)
    <3>1. proj.rec # "none" /\ Dead(effect) # {}
      BY <1>3, <1>4, <2>1, <2>3, WrongBlocked
    <3>2. PICK d \in Ids : effect[d].state = "dead"
      BY <3>1 DEF Dead
    <3>3. d # e
      BY <1>4, <3>2 DEF Holder
    <3>4. effect'[d].state = "dead"
      BY <1>4, <3>2, <3>3
    <3> QED BY <1>4, <3>1, <3>4 DEF Blocked, Dead
  <2> QED BY <2>2, <2>3
<1>5. CASE UNCHANGED <<proj, effect>>
  <2>1. Wrong
    BY <1>1, <1>5, WrongBefore
  <2> QED BY <1>5, <2>1 DEF Owed, Wrong, Paid, Blocked, Dead, EditHold
<1>6. CASE Holder(w) /\ Defer(w)
  <2>1. /\ effect'[e].state # "none" /\ Kept(effect'[e], effect[e]) /\ proj' = proj
        /\ \A x \in Ids \ {e} : effect'[x] = effect[x]
    BY <1>0, <1>6, DeferIs DEF Defer
  <2> QED BY <1>4, <1>6, <2>1
<1>7. ASSUME NEW retryable \in BOOLEAN, NEW ambiguous \in BOOLEAN, Holder(w),
             Fail(w, retryable, ambiguous)
      PROVE  Paid(effect)' \/ (proj'.rec # "none" /\ Blocked')
  <2>1. /\ effect'[e].state # "none" /\ Kept(effect'[e], effect[e])
        /\ \A x \in Ids \ {e} : effect'[x] = effect[x]
        /\ proj'.own = proj.own /\ proj'.want = proj.want /\ proj'.basis = proj.basis
        /\ proj'.rec = proj.rec
    BY <1>0, <1>7, FailIs
  <2> QED BY <1>4, <1>7, <2>1
<1>8. CASE Holder(w) /\ ~CurrentBasis(e) /\ Supersede(w)
  <2>1. /\ effect' = Finish(effect, e) /\ proj'.own = proj.own /\ proj'.want = proj.want
        /\ proj'.basis = proj.basis /\ proj'.rec = proj.rec
    BY <1>0, <1>8, SupersedeIs
  <2>2. Wrong
    BY <1>1, <2>1, WrongBefore
  <2>3. CASE Paid(effect)
    <3>1. PICK x \in Ids : Pays(effect[x], v, proj.want)
      BY <2>3 DEF Paid
    <3>2. x # e
      BY <1>8, <2>2, <3>1 DEF Pays, CurrentBasis, Wrong
    <3>3. Pays(effect'[x], v, proj.want)
      BY <1>0, <2>1, <3>1, <3>2, PaidKept
    <3> QED BY <2>1, <3>3 DEF Paid
  <2>4. CASE ~Paid(effect)
    <3>1. proj.rec # "none" /\ Dead(effect) # {}
      BY <1>3, <1>8, <2>2, <2>4, WrongBlocked
    <3>2. PICK d \in Ids : effect[d].state = "dead"
      BY <3>1 DEF Dead
    <3>3. d # e
      BY <1>8, <3>2 DEF Holder
    <3>4. effect'[d].state = "dead"
      BY <1>0, <2>1, <3>2, <3>3, FinishIs DEF Same
    <3> QED BY <2>1, <3>1, <3>4 DEF Blocked, Dead
  <2> QED BY <2>3, <2>4
<1>9. ~HoldAmbiguous(w)
  <2>1. HoldAmbiguous(w) => proj'.own = "ambiguous"
    BY <1>0, HoldAmbiguousIs
  <2> QED BY <2>1 DEF Wrong
<1>10. ~(Holder(w) /\ CurrentBasis(e) /\ Applied(w) /\ Succeed(w, Target.rev + 1))
  <2>1. ~Landed /\ ~Advanced
    BY DEF Landed, Advanced, Wrong, Legible, Has, Target
  <2> QED BY <2>1, SucceedLands
<1>11. ~Ends(w)
  <2> SUFFICES ASSUME Ends(w) PROVE FALSE
    OBVIOUS
  <2>1. proj' = [proj EXCEPT !.rec = "none", !.etag = 0, !.gen = proj.gen + 1,
                             !.status = "deleted", !.code = "none"]
    BY DEF Ends, Succeed
  <2>2. proj'.etag = 0
    BY <1>0, <2>1 DEF Projection
  <2> QED BY <2>2 DEF Wrong, Legible, Has
<1>12. Target.st = "live"
  BY <1>2 DEF Legible
<1> QED BY <1>5, <1>6, <1>7, <1>8, <1>9, <1>10, <1>11, <1>12 DEF Deed, Turns

\* The evaluator plans nothing for a recorded copy of a selected version only if its
\* desired copy is the one that is already wanted, or if it wants none.
LEMMA EvaluateNone ==
    ASSUME TypeOK, NEW v \in Versions, Evaluate(proj, v).op = "none", Has(proj),
           proj.status # "absent", proj.own = "attached"
    PROVE  Included(v) /\ proj.want \in {NoCopy, Evaluate(proj, v).want}
<1> DEFINE new == [body |-> Copy[v], gen |-> proj.gen]
<1>1. ~Retained(proj) /\ proj.own # "detached"
  BY DEF Retained
<1>2. Evaluate(proj, v).op = Operation(proj, v, new)
  BY DEF Evaluate
<1> HIDE DEF new
<1>3. Included(v) /\ proj.want \in {NoCopy, new}
  BY <1>1, <1>2 DEF Operation
<1>4. Evaluate(proj, v).want = new
  BY <1>1, <1>3 DEF Evaluate, new
<1> QED BY <1>3, <1>4

\* A pass that plans nothing finds the copy of the current version in place.
LEMMA NothingToDo ==
    ASSUME Base, Truthful, Known, UpdateInPlace, DeleteInPlace, Owed, NEW r \in Reconcilers,
           recon[r].version = source.version, Intend(r),
           Evaluate(proj, recon[r].version).op = "none", Legible, proj.own = "attached"
    PROVE  Target.body = Copy[source.version] \/ Paid(effect)
<1> DEFINE v == source.version
<1>1. TypeOK /\ v \in Versions
  BY VersionFacts DEF Base, Shape
<1>2. proj.status # "absent" /\ ~Blocked
  BY DEF Intend
<1>3. Included(v) /\ proj.want \in {NoCopy, Evaluate(proj, v).want}
  BY <1>1, <1>2, EvaluateNone DEF Legible
<1>4. proj.want # NoCopy
  BY <1>3 DEF DeleteInPlace, Legible
<1>5. proj.want.body = Copy[v]
  <2>1. Evaluate(proj, v).want = proj.want
    BY <1>3, <1>4
  <2> QED BY <1>1, <1>4, <2>1, EvaluateIs
<1>6. CASE proj.basis # v
  BY <1>4, <1>5, <1>6 DEF UpdateInPlace
<1>7. CASE proj.basis = v
  BY <1>2, <1>4, <1>7 DEF Owed, Wrong
<1> QED BY <1>6, <1>7

\* A reconcile pass keeps a wrong copy owed.
LEMMA CommitOwed ==
    ASSUME Base, Truthful, Known, UpdateInPlace, DeleteInPlace, Owed, NEW r \in Reconcilers,
           Commit(r), [Next]_vars, Wrong'
    PROVE  Paid(effect)' \/ (proj'.rec # "none" /\ Blocked')
<1> DEFINE v == recon[r].version
           res == Evaluate(proj, v)
<1>0. /\ TypeOK /\ effect \in [Ids -> Effect] /\ proj \in Projection /\ v \in Versions
      /\ UNCHANGED <<source, dest>> /\ Steady
      /\ proj.status = "absent" => proj.own = "attached"
  BY OthersSteady DEF Base, Shape, TypeOK, Truthful, Commit, Reading
<1>1. Legible /\ dest'[proj.gen] = dest[proj.gen] /\ proj'.gen = proj.gen
  BY <1>0, ExposedBefore DEF Wrong
<1>2. res.want # NoCopy => Included(v)
  BY WantedIsIncluded
<1>3. CASE RefreshEvidence(r)
  <2> DEFINE rec == Recovery(v, res.op)
             status == IF proj.own = "ambiguous" \/ EditHold(proj) THEN "held" ELSE "failed"
             code == IF rec # "none" /\ Dead(effect) = {} /\ proj.code # "none"
                     THEN proj.code ELSE "other"
  <2>1. /\ proj' = [proj EXCEPT !.basis = v, !.rec = rec, !.want = res.want, !.status = status,
                                !.code = code]
        /\ effect' = effect /\ Blocked
    BY <1>3 DEF RefreshEvidence
  <2> HIDE DEF rec, status, code, res
  <2>2. /\ proj'.rec = rec /\ proj'.status = status /\ proj'.code = code
        /\ proj'.own = proj.own /\ proj'.want = res.want
    BY <1>0, <2>1 DEF Projection
  <2>3. rec # "none"
    BY <1>2, <2>2 DEF rec, Recovery, Wrong
  <2>4. CASE Dead(effect) # {}
    BY <2>1, <2>2, <2>3, <2>4 DEF Blocked, Dead
  <2>5. CASE Dead(effect) = {}
    <3>1. EditHold(proj)
      BY <2>1, <2>2, <2>5 DEF Blocked, Wrong
    <3>2. status = "held" /\ code = "edit_hold"
      BY <2>3, <2>5, <3>1 DEF status, code, EditHold
    <3>3. EditHold(proj')
      BY <2>2, <3>1, <3>2 DEF EditHold
    <3> QED BY <2>2, <2>3, <3>3 DEF Blocked
  <2> QED BY <2>4, <2>5
<1>4. CASE Intend(r)
  <2>1. /\ proj'.basis = v /\ proj'.want = res.want /\ proj'.own = proj.own
        /\ \/ res.op = "none" /\ effect' = effect
           \/ res.op # "none" /\ Added(effect, effect', res.op, v, res.want)
    BY <1>0, <1>4, IntendIs
  <2>2. v = source.version /\ res.want # NoCopy /\ proj.own = "attached"
    BY <1>0, <2>1 DEF Wrong
  <2>3. CASE res.op # "none"
    <3>1. res.op # "delete"
      BY <1>0, <1>2, <2>2, EvaluateIs
    <3> HIDE DEF res
    <3>2. \E e \in Ids : Pays(effect'[e], v, res.want)
      BY <2>1, <2>3, <3>1, AddedPays
    <3> QED BY <1>0, <2>1, <2>2, <3>2 DEF Paid
  <2>4. CASE res.op = "none"
    <3>1. Target.body = Copy[source.version] \/ Paid(effect)
      BY <1>1, <1>4, <2>2, <2>4, NothingToDo
    <3>2. Target.body # Copy[source.version]
      BY <1>0, <1>1 DEF Wrong, Target
    <3>3. PICK x \in Ids : Pays(effect[x], source.version, proj.want)
      BY <3>1, <3>2 DEF Paid
    <3>4. proj.want = res.want
      <4>1. proj.status # "absent"
        BY <1>4, <2>4 DEF Intend
      <4>2. Included(v) /\ proj.want \in {NoCopy, res.want}
        BY <1>0, <1>1, <2>2, <2>4, <4>1, EvaluateNone DEF Legible
      <4>3. proj.want # NoCopy
        BY <1>1, <2>2, <4>2 DEF DeleteInPlace, Legible
      <4> QED BY <4>2, <4>3
    <3> QED BY <1>0, <2>1, <2>4, <3>3, <3>4 DEF Paid
  <2> QED BY <2>3, <2>4
<1>5. CASE Ignore(r)
  <2>1. UNCHANGED <<proj, effect>>
    BY <1>5 DEF Ignore
  <2>2. Wrong
    BY <1>0, <2>1, WrongBefore
  <2> QED BY <1>0, <2>1, <2>2 DEF Owed, Wrong, Paid, Blocked, Dead, EditHold
<1> QED BY <1>3, <1>4, <1>5 DEF Commit

\* A recovery pays.
LEMMA RecoverPays ==
    ASSUME TypeOK, proj.rec # "none", RecoveryEvidence, NEW fx \in [Ids -> Effect], Recover(fx),
           source' = source, Wrong'
    PROVE  Paid(effect)'
<1>1. /\ Added(fx, effect', proj.rec, proj.basis, proj.want)
      /\ proj'.want = proj.want /\ proj'.basis = proj.basis
  BY RecoverIs
<1>2. proj.rec # "delete" /\ proj.basis = source.version
  BY <1>1 DEF RecoveryEvidence, Wrong
<1>3. \E e \in Ids : Pays(effect'[e], source.version, proj.want)
  BY <1>1, <1>2, AddedPays
<1> QED BY <1>1, <1>3 DEF Paid

\* A person's retry keeps a wrong copy owed.
LEMMA RetryOwed ==
    ASSUME Base, Known, Owed, RetryBlocked, [Next]_vars, Wrong'
    PROVE  Paid(effect)' \/ (proj'.rec # "none" /\ Blocked')
<1> DEFINE v == source.version
<1>0. /\ TypeOK /\ effect \in [Ids -> Effect] /\ proj \in Projection
      /\ UNCHANGED <<source, dest>> /\ Steady
  BY OthersSteady DEF Base, Shape, TypeOK, RetryBlocked, Person
<1>1. ASSUME NEW d \in Ids, RetryDead(d) PROVE Paid(effect)'
  <2>0. Finish(effect, d) \in [Ids -> Effect] /\ effect[d].state # "none"
    BY <1>0, <1>1, FinishIs DEF RetryDead, Dead
  <2>1. CASE Replayable(d)
    <3>1. /\ effect' = [effect EXCEPT ![d] = [@ EXCEPT !.state = "retry", !.tries = 0,
                                                       !.mode = "ambiguous"]]
          /\ proj' = [proj EXCEPT !.rec = "none", !.status = "retrying", !.code = "none"]
      BY <1>1, <2>1 DEF RetryDead
    <3>2. /\ effect'[d].state = "retry" /\ Kept(effect'[d], effect[d])
          /\ proj'.want = proj.want
      BY <1>0, <2>1, <3>1, ReplayIs
    <3>3. effect[d].op # "delete" /\ effect[d].basis = v /\ effect[d].want = proj.want
      BY <2>1, <3>2 DEF Replayable, CurrentBasis, Wrong
    <3>4. Pays(effect'[d], v, proj.want)
      BY <3>2, <3>3 DEF Pays, Kept
    <3> QED BY <1>0, <3>2, <3>4 DEF Paid
  <2>2. CASE proj.rec # "none" /\ RecoveryEvidence /\ Recover(Finish(effect, d))
    BY <1>0, <2>0, <2>2, RecoverPays
  <2>3. CASE /\ ~Replayable(d)
             /\ ~(proj.rec # "none" /\ proj.basis = source.version /\ RecoveryEvidence)
             /\ Reconsider("failed") /\ effect' = Finish(effect, d)
    <3>1. /\ proj'.own = proj.own /\ proj'.want = proj.want /\ proj'.basis = proj.basis
          /\ proj'.rec = proj.rec
      BY <1>0, <2>3, ReconsiderIs
    <3>2. Wrong
      BY <1>0, <3>1, WrongBefore
    <3>3. OwnEvidence /\ proj.basis = v
      BY <3>2 DEF Wrong, OwnEvidence, Known, Evident
    <3>4. proj.rec # "none" => RecoveryEvidence
      BY <3>2, <3>3 DEF RecoveryEvidence, Known, Evident, Wrong
    <3>5. Paid(effect)
      BY <2>3, <3>2, <3>3, <3>4, WrongBlocked
    <3>6. PICK x \in Ids : Pays(effect[x], v, proj.want)
      BY <3>5 DEF Paid
    <3>7. x # d
      BY <2>3, <3>3, <3>6 DEF Pays, Replayable, CurrentBasis
    <3>8. Pays(effect'[x], v, proj.want)
      BY <1>0, <2>3, <3>6, <3>7, PaidKept
    <3> QED BY <1>0, <3>1, <3>8 DEF Paid
  <2> QED BY <1>1, <2>1, <2>2, <2>3 DEF RetryDead
<1>2. ~RetryHold
  <2> SUFFICES ASSUME RetryHold PROVE FALSE
    OBVIOUS
  <2>1. proj.own = "ambiguous" /\ proj.rec # "none"
    BY DEF RetryHold
  <2>2. proj'.own = "ambiguous"
    BY <1>0, <2>1, RecoverIs, ReconsiderIs DEF RetryHold
  <2> QED BY <2>2 DEF Wrong
<1> QED BY <1>1, <1>2 DEF RetryBlocked

\* A verdict keeps a wrong copy owed.
LEMMA SettleOwed ==
    ASSUME Base, Known, RepairInPlace, Owed, Settle, [Next]_vars, Wrong'
    PROVE  Paid(effect)' \/ (proj'.rec # "none" /\ Blocked')
<1>0. /\ TypeOK /\ effect \in [Ids -> Effect] /\ proj \in Projection /\ check \in Check
      /\ UNCHANGED <<source, dest>> /\ check.pc = "seen"
  BY DEF Base, Shape, TypeOK, Settle
<1>1. CASE UNCHANGED <<proj, effect, notice>>
  <2>1. Wrong
    BY <1>0, <1>1, WrongBefore DEF Steady
  <2> QED BY <1>0, <1>1, <2>1 DEF Owed, Wrong, Paid, Blocked, Dead, EditHold
<1>2. CASE HoldForeign
  BY <1>0, <1>2, HoldForeignIs DEF Wrong
<1>3. CASE StillCurrent /\ HoldEdit
  <2>1. proj'.status = "held" /\ proj'.own = "attached" /\ proj'.rec \in {"create", "update"}
    BY <1>0, <1>3, HoldEditIs DEF StillCurrent
  <2>2. proj'.code = "edit_hold"
    <3>1. \E rec, etag : proj' = [proj EXCEPT !.status = "held", !.code = "edit_hold",
                                              !.rec = rec, !.etag = etag]
      BY <1>3 DEF HoldEdit
    <3> QED BY <1>0, <3>1 DEF Projection
  <2> QED BY <2>1, <2>2 DEF Blocked, EditHold
<1>4. CASE StillCurrent /\ Repair
  <2>1. PICK op \in {"create", "update"} : Added(effect, effect', op, check.basis, proj'.want)
    BY <1>0, <1>4, RepairIs
  <2>2. proj'.basis = proj.basis
    BY <1>0, <1>4, RepairIs
  <2>3. check.basis = proj.basis
    BY <1>0, <1>4 DEF RepairInPlace, StillCurrent
  <2>4. check.basis = source.version
    BY <1>0, <2>2, <2>3 DEF Wrong
  <2>5. \E e \in Ids : Pays(effect'[e], source.version, proj'.want)
    BY <2>1, <2>4, AddedPays
  <2> QED BY <1>0, <2>5 DEF Paid
<1> QED BY <1>0, <1>1, <1>2, <1>3, <1>4, SettleIs

\* Every step keeps a wrong copy owed.
LEMMA NextOwed ==
    ASSUME Base, Truthful, HoldWaits, Known, NotOvertaken, Owed, [Next]_vars
    PROVE  Owed'
<1>0. /\ TypeOK /\ effect \in [Ids -> Effect] /\ proj \in Projection
      /\ source \in [version : Versions, horizon : {"inside", "outside"}]
  BY DEF Base, Shape, TypeOK
<1> DEFINE Goal == Paid(effect)' \/ (proj'.rec # "none" /\ Blocked')
<1> SUFFICES ASSUME Wrong' PROVE Goal
  BY DEF Owed
<1>1. ASSUME UNCHANGED <<proj, effect>>, source'.version = source.version PROVE Goal
  <2>1. Steady
    BY <1>1 DEF Steady
  <2>2. Wrong
    BY <1>1, <2>1, WrongBefore
  <2> QED BY <1>1, <2>2 DEF Owed, Wrong, Paid, Blocked, Dead, EditHold
<1>2. ASSUME NEW w \in Workers, NEW e \in Ids, Lease(w, e) PROVE Goal
  <2>1. /\ effect[e].state \in Unfinished /\ effect'[e].state = "leased"
        /\ Kept(effect'[e], effect[e]) /\ \A x \in Ids \ {e} : effect'[x] = effect[x]
        /\ UNCHANGED <<proj, source>>
    BY <1>0, <1>2, LeaseIs DEF Lease, Elsewhere
  <2>2. Wrong
    BY <2>1, WrongBefore DEF Steady
  <2>3. CASE Paid(effect)
    <3>1. PICK x \in Ids : Pays(effect[x], source.version, proj.want)
      BY <2>3 DEF Paid
    <3>2. Pays(effect'[x], source.version, proj.want)
      BY <1>0, <2>1, <3>1, PaidKept
    <3> QED BY <2>1, <3>2 DEF Paid
  <2>4. CASE ~Paid(effect)
    <3>1. e \in Waiting(effect)
      BY <2>1 DEF Waiting
    <3>2. proj.rec # "none" /\ Dead(effect) # {}
      BY <2>2, <2>4, <3>1, WrongBlocked DEF HoldWaits
    <3>3. PICK d \in Ids : effect[d].state = "dead"
      BY <3>2 DEF Dead
    <3>4. effect'[d].state = "dead"
      BY <2>1, <3>3 DEF Unfinished
    <3> QED BY <2>1, <3>2, <3>4 DEF Blocked, Dead
  <2> QED BY <2>3, <2>4
<1>3. ASSUME NEW w \in Workers, Executes(w) PROVE Goal
  BY <1>3, ExecutorDeed, DeedOwed DEF Elsewhere
<1>4. ASSUME NEW r \in Reconcilers, Commit(r) PROVE Goal
  BY <1>4, CommitOwed DEF NotOvertaken
<1>5. ASSUME NEW r \in Reconcilers, Read(r) \/ PassDies(r) PROVE Goal
  BY <1>1, <1>5 DEF Read, PassDies
<1>6. CASE Settle
  BY <1>6, SettleOwed DEF NotOvertaken
<1>7. CASE Load \/ Look \/ \E kind \in Faults : LookFails(kind)
  BY <1>1, <1>7 DEF Load, Look, LookFails
<1>8. CASE RetryBlocked
  BY <1>8, RetryOwed
<1>9. CASE Keep
  <2>1. proj'.own = "detached"
    BY <1>0, <1>9 DEF Keep, Projection
  <2> QED BY <2>1 DEF Wrong
<1>10. CASE Restore
  BY <1>0, <1>10, RecoverPays DEF Restore
<1>11. CASE SourceChanges
  <2>1. source'.version = source.version + 1 /\ proj' = proj
    BY <1>0, <1>11 DEF SourceChanges
  <2>2. proj.basis <= source.version /\ proj.basis \in Nat /\ source.version \in Nat
    BY <1>0, VersionFacts DEF Known, Evident
  <2> QED BY <2>1, <2>2 DEF Wrong
<1>12. CASE AgesOut
  BY <1>0, <1>1, <1>12 DEF AgesOut
<1>13. CASE Pause \/ Resume \/ Acknowledge \/ Wakeup \/ Touch \/ Outage \/ Reconnect
  BY <1>1, <1>13 DEF Pause, Resume, Acknowledge, Wakeup, Touch, Outage, Reconnect
<1>14. CASE UNCHANGED vars
  BY <1>1, <1>14 DEF vars
<1> QED BY <1>2, <1>3, <1>4, <1>5, <1>6, <1>7, <1>8, <1>9, <1>10, <1>11, <1>12, <1>13, <1>14, Steps
        DEF Person, Surroundings

\* A deed reports "converged" only with the answer of a write.
LEMMA DeedConverged ==
    ASSUME Base, Truthful, Known, ConvergedIsTrue, NEW w \in Workers, worker[w].job \in Ids,
           Deed(w), [Next]_vars, source' = source, proj'.status = "converged", Waiting(effect)' = {}
    PROVE  Landed \/ UNCHANGED <<proj, effect>>
<1> DEFINE e == worker[w].job
<1>0. TypeOK /\ Counted /\ proj \in Projection /\ effect \in [Ids -> Effect]
  BY DEF Base, Shape, TypeOK
<1>1. ASSUME NEW retryable \in BOOLEAN, NEW ambiguous \in BOOLEAN
      PROVE  ~Fail(w, retryable, ambiguous)
  BY <1>0, FailIs
<1>2. ~Supersede(w) /\ ~HoldAmbiguous(w)
  BY <1>0, SupersedeIs, HoldAmbiguousIs
<1>3. ~(Holder(w) /\ Defer(w))
  <2>1. Holder(w) /\ Defer(w) => effect'[e].state = "retry"
    BY <1>0, DeferIs
  <2> QED BY <2>1 DEF Waiting, Unfinished
<1>4. ~Ends(w)
  <2> SUFFICES ASSUME Ends(w) PROVE FALSE
    OBVIOUS
  <2>1. proj' = [proj EXCEPT !.rec = "none", !.etag = 0, !.gen = proj.gen + 1,
                             !.status = "deleted", !.code = "none"]
    BY DEF Ends, Succeed
  <2> QED BY <1>0, <2>1 DEF Projection
<1>5. CASE Holder(w) /\ CurrentBasis(e) /\ Applied(w) /\ Succeed(w, Target.rev + 1)
  <2>1. CASE effect[e].op = "delete"
    <3>1. proj' = [proj EXCEPT !.rec = "none", !.etag = 0, !.gen = proj.gen + 1,
                               !.status = "deleted", !.code = "none"]
      BY <1>5, <2>1 DEF Succeed
    <3> QED BY <1>0, <3>1 DEF Projection
  <2>2. CASE effect[e].op # "delete"
    BY <1>5, <2>2, SucceedLands
  <2> QED BY <2>1, <2>2
<1>6. ~(Holder(w) /\ Replace(w))
  <2> SUFFICES ASSUME Holder(w), Replace(w) PROVE FALSE
    OBVIOUS
  <2>1. CASE Waiting(effect) \ {e} # {}
    <3>1. effect' = Finish(effect, e)
      BY <2>1 DEF Replace
    <3>2. PICK x \in Ids : x # e /\ effect[x].state \in Unfinished
      BY <2>1 DEF Waiting
    <3>3. effect'[x].state = effect[x].state
      BY <1>0, <3>1, <3>2, FinishIs DEF Same
    <3> QED BY <3>2, <3>3 DEF Waiting
  <2>2. CASE Waiting(effect) \ {e} = {}
    <3>1. ~Fail(w, FALSE, FALSE)
      BY <1>1
    <3>2. \E want : proj' = [proj EXCEPT !.gen = proj.gen + 1, !.etag = 0, !.want = want,
                                         !.status = "pending", !.rec = "none", !.code = "other"]
      BY <2>2, <3>1 DEF Replace
    <3> QED BY <1>0, <3>2 DEF Projection
  <2> QED BY <2>1, <2>2
<1> QED BY <1>1, <1>2, <1>3, <1>4, <1>5, <1>6 DEF Deed, Turns

\* Every step keeps "converged" true.
LEMMA NextConverged ==
    ASSUME Base, Truthful, HoldWaits, Known, NotOvertaken, Owed, ConvergedIsTrue, [Next]_vars
    PROVE  ConvergedIsTrue'
<1>0. /\ TypeOK /\ effect \in [Ids -> Effect] /\ proj \in Projection /\ Reading
      /\ source \in [version : Versions, horizon : {"inside", "outside"}]
  BY DEF Base, Shape, TypeOK
<1> DEFINE Goal == dest'[proj'.gen].body = Copy[source'.version]
<1> SUFFICES ASSUME proj'.status = "converged", proj'.own = "attached", Legible',
                    Waiting(effect)' = {}, proj'.basis = source'.version
             PROVE  Goal
  BY DEF ConvergedIsTrue, Legible, Target
<1>1. ASSUME UNCHANGED <<proj, effect>>, source'.version = source.version PROVE Goal
  <2>1. Steady
    BY <1>1 DEF Steady
  <2>2. Legible /\ dest'[proj.gen] = dest[proj.gen]
    BY <2>1, ExposedBefore
  <2>3. Waiting(effect) = {}
    BY <1>1 DEF Waiting
  <2> QED BY <1>1, <2>2, <2>3 DEF ConvergedIsTrue, Legible, Target
<1>2. ASSUME NEW w \in Workers, NEW e \in Ids, Lease(w, e) PROVE FALSE
  <2>1. effect'[e].state = "leased"
    BY <1>0, <1>2, LeaseIs
  <2> QED BY <2>1 DEF Waiting, Unfinished
<1>3. ASSUME NEW w \in Workers, Executes(w) PROVE Goal
  <2>1. worker[w].job \in Ids /\ Deed(w) /\ source' = source
    BY <1>3, ExecutorDeed DEF Elsewhere
  <2>2. CASE Landed
    BY <2>1, <2>2 DEF Landed
  <2>3. CASE UNCHANGED <<proj, effect>>
    BY <1>1, <2>1, <2>3
  <2> QED BY <2>1, <2>2, <2>3, DeedConverged
<1>4. ASSUME NEW r \in Reconcilers, Commit(r) PROVE Goal
  <2> DEFINE res == Evaluate(proj, recon[r].version)
  <2>0. recon[r].version \in Versions /\ UNCHANGED <<source, dest>> /\ Steady
    BY <1>0, <1>4, OthersSteady DEF Reading, Commit
  <2>1. ~RefreshEvidence(r)
    BY <1>0, <2>0, RefreshIs
  <2>2. CASE Intend(r)
    <3>1. /\ proj'.basis = recon[r].version /\ proj'.own = proj.own
          /\ \/ res.op = "none" /\ effect' = effect
             \/ res.op # "none" /\ Added(effect, effect', res.op, recon[r].version, res.want)
      BY <1>0, <2>0, <2>2, IntendIs
    <3>2. res.op = "none" /\ effect' = effect
      <4>1. ASSUME Added(effect, effect', res.op, recon[r].version, res.want) PROVE FALSE
        BY <4>1 DEF Added, Free, Waiting, Unfinished
      <4> QED BY <3>1, <4>1
    <3>3. Legible /\ dest'[proj.gen] = dest[proj.gen] /\ proj'.gen = proj.gen
      BY <2>0, ExposedBefore
    <3>4. recon[r].version = source.version /\ proj.own = "attached"
      BY <2>0, <3>1
    <3>5. Target.body = Copy[source.version] \/ Paid(effect)
      BY <2>2, <3>2, <3>3, <3>4, NothingToDo DEF NotOvertaken
    <3>6. ~Paid(effect)
      <4> SUFFICES ASSUME Paid(effect) PROVE FALSE
        OBVIOUS
      <4>1. PICK x \in Ids : effect[x].state # "none"
        BY DEF Paid, Pays
      <4>2. effect[x].state \in Unfinished \cup {"none", "dead"}
        BY <1>0 DEF Effect
      <4>3. effect[x].state = "dead"
        BY <3>2, <4>1, <4>2 DEF Waiting
      <4>4. Blocked
        BY <4>3 DEF Blocked, Dead
      <4> QED BY <2>2, <3>2, <4>4 DEF Intend
    <3> QED BY <2>0, <3>3, <3>5, <3>6 DEF Target
  <2>3. CASE Ignore(r)
    BY <1>1, <2>0, <2>3 DEF Ignore
  <2> QED BY <1>4, <2>1, <2>2, <2>3 DEF Commit
<1>5. ASSUME NEW r \in Reconcilers, Read(r) \/ PassDies(r) PROVE Goal
  BY <1>1, <1>5 DEF Read, PassDies
<1>6. CASE Settle
  <2>1. UNCHANGED <<proj, effect>>
    BY <1>0, <1>6, SettleIs, HoldForeignIs, HoldEditIs, RepairIs
  <2> QED BY <1>1, <1>6, <2>1 DEF Settle
<1>7. CASE Load \/ Look \/ \E kind \in Faults : LookFails(kind)
  BY <1>1, <1>7 DEF Load, Look, LookFails
<1>8. ~RetryBlocked /\ ~Restore
  <2> SUFFICES ASSUME RetryBlocked \/ Restore PROVE FALSE
    OBVIOUS
  <2>1. \/ proj' = [proj EXCEPT !.rec = "none", !.status = "retrying", !.code = "none"]
        \/ Reconsider("failed") \/ Reconsider("held")
    BY DEF RetryBlocked, RetryDead, RetryHold, Recover, Restore
  <2> QED BY <1>0, <2>1 DEF Reconsider, Projection
<1>9. ~Keep
  BY <1>0 DEF Keep, Projection
<1>10. CASE SourceChanges
  <2>1. source'.version = source.version + 1 /\ proj' = proj
    BY <1>0, <1>10 DEF SourceChanges
  <2>2. proj.basis <= source.version /\ proj.basis \in Nat /\ source.version \in Nat
    BY <1>0, VersionFacts DEF Known, Evident
  <2> QED BY <2>1, <2>2
<1>11. CASE AgesOut
  BY <1>0, <1>1, <1>11 DEF AgesOut
<1>12. CASE Pause \/ Resume \/ Acknowledge \/ Wakeup \/ Touch \/ Outage \/ Reconnect
  BY <1>1, <1>12 DEF Pause, Resume, Acknowledge, Wakeup, Touch, Outage, Reconnect
<1>13. CASE UNCHANGED vars
  BY <1>1, <1>13 DEF vars
<1> QED BY <1>2, <1>3, <1>4, <1>5, <1>6, <1>7, <1>8, <1>9, <1>10, <1>11, <1>12, <1>13, Steps
        DEF Person, Surroundings

\* ConvergedIsTrue: a projection that reports "converged" for the current source, with
\* nothing under way and no direct change on the destination, has a copy with the current
\* content, provided that no intent is overtaken by a version that hides it.  What makes
\* it inductive is Owed: a copy that is wrong has a write coming or a decision pending.
THEOREM ConvergedHolds == Spec /\ []NotOvertaken => []ConvergedIsTrue
<1>1. Init => Owed /\ ConvergedIsTrue
  BY DEF Init, Owed, Wrong, ConvergedIsTrue, Legible, Has, NoProjection
<1>2. Base /\ Truthful /\ HoldWaits /\ Known /\ NotOvertaken /\ (Owed /\ ConvergedIsTrue)
      /\ [Next]_vars => (Owed /\ ConvergedIsTrue)'
  BY NextOwed, NextConverged
<1> QED BY <1>1, <1>2, BaseInvariant, TruthfulInvariant, HoldWaitsHolds, KnownInvariant, PTL DEF Spec

-----------------------------------------------------------------------------
(* Environments in which the hypotheses hold.                              *)

\* The occurrence is selected in every version and does not leave the horizon.
Stays == ~MayAge /\ \A v \in Versions : Copy[v] # "none"

\* Without ageing the horizon stays inside of the policy's window.
LEMMA InsideStep ==
    ASSUME ~MayAge, Base, Inside, [Next]_vars
    PROVE  Inside'
<1>0. source \in [version : Versions, horizon : {"inside", "outside"}]
  BY DEF Base, Shape, TypeOK
<1>1. ASSUME UNCHANGED source PROVE Inside'
  BY <1>1 DEF Inside
<1>2. ASSUME NEW w \in Workers, Executes(w) PROVE Inside'
  BY <1>1, <1>2, ExecutorDeed DEF Elsewhere
<1>3. CASE \E r \in Reconcilers : Read(r) \/ Commit(r) \/ PassDies(r)
  BY <1>1, <1>3 DEF Read, Commit, PassDies
<1>4. CASE \E w \in Workers, e \in Ids : Lease(w, e)
  BY <1>1, <1>4 DEF Lease, Elsewhere
<1>5. CASE Settle \/ Load \/ Look \/ \E kind \in Faults : LookFails(kind)
  BY <1>1, <1>5 DEF Settle, Load, Look, LookFails
<1>6. CASE Person
  BY <1>1, <1>6 DEF Person, Pause, Resume, RetryBlocked, Acknowledge, Keep, Restore
<1>7. CASE SourceChanges
  BY <1>0, <1>7 DEF SourceChanges, Inside
<1>8. CASE Wakeup \/ Touch \/ Outage \/ Reconnect \/ UNCHANGED vars
  BY <1>1, <1>8 DEF Wakeup, Touch, Outage, Reconnect, vars
<1> QED BY <1>2, <1>3, <1>4, <1>5, <1>6, <1>7, <1>8, Steps DEF Surroundings, AgesOut

\* NoCopyLeftBehind for an occurrence that is selected in every version and stays in the
\* horizon: no failure, death or direct change leaves a copy of an earlier generation.
THEOREM NoCopyLeftBehindWhereSelected == Stays /\ Spec => []NoCopyLeftBehind
<1> SUFFICES ASSUME Stays PROVE Spec => []NoCopyLeftBehind
  OBVIOUS
<1>1. Init => Inside
  BY DEF Init, Inside
<1>2. Base /\ Inside /\ [Next]_vars => Inside'
  BY InsideStep DEF Stays
<1>3. Base /\ Inside => Recorded
  BY VersionFacts DEF Stays, Base, Shape, Inside, Recorded, Included
<1> QED BY <1>1, <1>2, <1>3, BaseInvariant, NoCopyLeftBehindHolds, PTL DEF Spec

\* MarkersMatch for an occurrence that does not age: a copy on the calendar carries the
\* markers of the generation whose id it has.
THEOREM MarkersHoldWithoutAgeing == ~MayAge /\ Spec => []MarkersMatch
<1> SUFFICES ASSUME ~MayAge PROVE Spec => []MarkersMatch
  OBVIOUS
<1>1. Init => Inside
  BY DEF Init, Inside
<1>2. Base /\ Inside /\ [Next]_vars => Inside'
  BY InsideStep
<1> QED BY <1>1, <1>2, BaseInvariant, MarkersHold, PTL DEF Spec

\* A policy that nobody pauses stays active.
LEMMA ActiveStep ==
    ASSUME MaxPauses = 0, Base, policy = "active", [Next]_vars
    PROVE  policy' = "active"
<1>1. used.pauses \in 0..MaxPauses
  BY DEF Base, Shape, TypeOK
<1>2. ~Pause
  BY <1>1 DEF Pause
<1>3. ASSUME NEW w \in Workers, Executes(w) PROVE UNCHANGED policy
  BY <1>3, ExecutorDeed DEF Elsewhere
<1>4. CASE \E r \in Reconcilers : Read(r) \/ Commit(r) \/ PassDies(r)
  BY <1>4 DEF Read, Commit, PassDies
<1>5. CASE \E w \in Workers, e \in Ids : Lease(w, e)
  BY <1>5 DEF Lease, Elsewhere
<1>6. CASE Settle \/ Load \/ Look \/ \E kind \in Faults : LookFails(kind)
  BY <1>6 DEF Settle, Load, Look, LookFails
<1>7. CASE Person
  BY <1>2, <1>7 DEF Person, Resume, RetryBlocked, Acknowledge, Keep, Restore
<1>8. CASE Surroundings \/ UNCHANGED vars
  BY <1>8 DEF Surroundings, SourceChanges, AgesOut, Wakeup, Touch, Outage, Reconnect, vars
<1> QED BY <1>3, <1>4, <1>5, <1>6, <1>7, <1>8, Steps

\* ForeignIsSafe for a policy that is not paused: whatever the faults, the edits and the
\* interleaving, an event without the projection's markers is never touched.
THEOREM ForeignHoldsUnpaused == MaxPauses = 0 /\ Spec => ForeignIsSafe
<1> SUFFICES ASSUME MaxPauses = 0 PROVE Spec => ForeignIsSafe
  OBVIOUS
<1>1. Init => policy = "active"
  BY DEF Init
<1>2. Base /\ policy = "active" /\ [Next]_vars => (policy = "active")'
  BY ActiveStep
<1>3. policy = "active" => RecoveryRuns
  BY DEF RecoveryRuns
<1> QED BY <1>1, <1>2, <1>3, BaseInvariant, ForeignHolds, PTL DEF Spec

\* Every selected version reads differently, and an occurrence that is not selected any
\* more does not come back.
Fresh == \A u, v \in Versions : u # v /\ Copy[u] = Copy[v] => Copy[u] = "none"
Leaves == \A u, v \in Versions : u <= v /\ Copy[u] = "none" => Copy[v] = "none"

\* What is recorded or loaded was planned for an observed version, and a copy is given up
\* only when the version it was given up for is not selected.
Rooted ==
    /\ proj.want # NoCopy \/ Has(proj) => proj.basis \in Versions
    /\ check.pc # "idle" => check.want # NoCopy /\ check.etag # 0 /\ check.basis \in Versions
    /\ proj.own # "detached" /\ proj.want = NoCopy /\ proj.basis \in Versions
       => Departed(proj.basis)

\* A step that carries the plan of the projection on.
Onward ==
    /\ proj'.basis = proj.basis
    /\ proj'.want = proj.want \/ (proj.want # NoCopy /\ proj'.want # NoCopy)
    /\ Has(proj') => Has(proj) \/ proj.basis \in Versions
                     \/ (check.pc # "idle" /\ proj.etag = check.etag)

\* An executor carries the plan on.
LEMMA DeedOnward ==
    ASSUME Base, Truthful, NEW w \in Workers, worker[w].job \in Ids, Deed(w)
    PROVE  Onward
<1>0. TypeOK /\ proj \in Projection /\ source.version \in Versions
  BY VersionFacts DEF Base, Shape, TypeOK
<1>1. ASSUME proj' = proj PROVE Onward
  BY <1>1 DEF Onward
<1>2. ASSUME proj'.basis = proj.basis, proj'.want = proj.want, Steady PROVE Onward
  BY <1>2 DEF Onward, Steady, Has
<1>3. ASSUME NEW retryable \in BOOLEAN, NEW ambiguous \in BOOLEAN, Fail(w, retryable, ambiguous)
      PROVE  Onward
  BY <1>0, <1>2, <1>3, FailIs, SteadyRows
<1>4. CASE Supersede(w)
  BY <1>0, <1>2, <1>4, SupersedeIs, SteadyRows
<1>5. CASE HoldAmbiguous(w)
  BY <1>0, <1>2, <1>5, HoldAmbiguousIs, SteadyRows
<1>6. ASSUME CurrentBasis(worker[w].job), NEW rev \in Nat, Succeed(w, rev) PROVE Onward
  BY <1>0, <1>6, SucceedIs DEF Onward, CurrentBasis
<1>7. CASE Target.st # "live" /\ Replace(w) /\ dest' = dest
  <2>1. Has(proj') => Has(proj)
    BY <1>7, ReplaceMoves DEF Steady, Advanced, Has
  <2> QED BY <1>0, <1>1, <1>3, <1>7, <2>1, ReplaceIs DEF Onward
<1>8. Target.rev + 1 \in Nat /\ 0 \in Nat
  BY <1>0, CalendarFacts DEF Target
<1> QED BY <1>1, <1>3, <1>4, <1>5, <1>6, <1>7, <1>8 DEF Deed, Ends, Turns, Defer

\* A verdict carries the plan on.
LEMMA SettleOnward ==
    ASSUME Base, Sighted, Settle
    PROVE  Onward
<1>0. TypeOK
  BY DEF Base, Shape
<1>1. Has(proj') => Has(proj) \/ (check.pc # "idle" /\ proj.etag = check.etag)
  BY SettleMoves DEF Steady, Advanced, Adopted, StillCurrent, Has
<1>2. /\ proj'.basis = proj.basis
      /\ proj'.want = proj.want \/ (proj.want # NoCopy /\ proj'.want # NoCopy)
  BY <1>0, SettleIs, HoldForeignIs, HoldEditIs, RepairIs
<1> QED BY <1>1, <1>2 DEF Onward

\* A person's decision or retry carries the plan on.
LEMMA PersonOnward ==
    ASSUME Base, Person
    PROVE  Onward
<1>0. TypeOK /\ proj \in Projection /\ effect \in [Ids -> Effect]
  BY DEF Base, Shape, TypeOK
<1>1. Steady
  BY <1>0, OthersSteady
<1>2. proj'.basis = proj.basis /\ proj'.want = proj.want
  <2>1. CASE Pause \/ Resume \/ Acknowledge
    BY <2>1 DEF Pause, Resume, Acknowledge
  <2>2. CASE Keep
    BY <1>0, <2>2 DEF Keep, Projection
  <2>3. ASSUME proj' = [proj EXCEPT !.rec = "none", !.status = "retrying", !.code = "none"]
        PROVE  proj'.basis = proj.basis /\ proj'.want = proj.want
    BY <1>0, <2>3 DEF Projection
  <2>4. CASE Reconsider("failed") \/ Reconsider("held")
    BY <1>0, <2>4, ReconsiderIs
  <2> QED BY <2>1, <2>2, <2>3, <2>4 DEF Person, Restore, Recover, RetryBlocked, RetryDead, RetryHold
<1> QED BY <1>1, <1>2 DEF Onward, Steady, Has

\* A reconcile pass replaces the plan by that of the version it read, or ignores it.
LEMMA CommitPlans ==
    ASSUME Base, NEW r \in Reconcilers, Commit(r)
    PROVE  \/ Onward
           \/ /\ recon[r].version \in Versions /\ proj'.basis = recon[r].version
              /\ proj'.want = Evaluate(proj, recon[r].version).want /\ proj'.own = proj.own
              /\ UNCHANGED <<source, check>>
<1>0. TypeOK /\ recon[r].version \in Versions
  BY DEF Base, Shape, Commit, Reading
<1> QED BY <1>0, RefreshIs, IntendIs DEF Commit, Ignore, Onward

\* Any other step carries it on.
LEMMA NextPlans ==
    ASSUME Base, Truthful, Sighted, [Next]_vars
    PROVE  \/ Onward
           \/ \E r \in Reconcilers :
                 /\ recon[r].version \in Versions /\ proj'.basis = recon[r].version
                 /\ proj'.want = Evaluate(proj, recon[r].version).want /\ proj'.own = proj.own
                 /\ UNCHANGED <<source, check>>
<1>1. ASSUME proj' = proj PROVE Onward
  BY <1>1 DEF Onward
<1>2. ASSUME NEW w \in Workers, Executes(w) PROVE Onward
  BY <1>2, ExecutorDeed, DeedOnward
<1>3. CASE \E r \in Reconcilers : Read(r) \/ PassDies(r)
  BY <1>1, <1>3 DEF Read, PassDies
<1>4. CASE \E w \in Workers, e \in Ids : Lease(w, e)
  BY <1>1, <1>4 DEF Lease
<1>5. CASE Load \/ Look \/ \E kind \in Faults : LookFails(kind)
  BY <1>1, <1>5 DEF Load, Look, LookFails
<1>6. CASE Surroundings \/ UNCHANGED vars
  BY <1>1, <1>6 DEF Surroundings, SourceChanges, AgesOut, Wakeup, Touch, Outage, Reconnect, vars
<1> QED BY <1>2, <1>3, <1>4, <1>5, <1>6, Steps, CommitPlans, SettleOnward, PersonOnward

\* A version that is not selected any more stays so.
LEMMA StaysOutside ==
    ASSUME Base, [Next]_vars, source.horizon = "outside"
    PROVE  source'.horizon = "outside"
<1>0. source \in [version : Versions, horizon : {"inside", "outside"}]
  BY DEF Base, Shape, TypeOK
<1>1. ASSUME NEW w \in Workers, Executes(w) PROVE UNCHANGED source
  BY <1>1, ExecutorDeed DEF Elsewhere
<1>2. CASE \E r \in Reconcilers : Read(r) \/ Commit(r) \/ PassDies(r)
  BY <1>2 DEF Read, Commit, PassDies
<1>3. CASE \E w \in Workers, e \in Ids : Lease(w, e)
  BY <1>3 DEF Lease, Elsewhere
<1>4. CASE Settle \/ Load \/ Look \/ \E kind \in Faults : LookFails(kind)
  BY <1>4 DEF Settle, Load, Look, LookFails
<1>5. CASE Person
  BY <1>5 DEF Person, Pause, Resume, RetryBlocked, Acknowledge, Keep, Restore
<1>6. CASE SourceChanges \/ AgesOut
  BY <1>0, <1>6 DEF SourceChanges, AgesOut
<1>7. CASE Wakeup \/ Touch \/ Outage \/ Reconnect \/ UNCHANGED vars
  BY <1>7 DEF Wakeup, Touch, Outage, Reconnect, vars
<1> QED BY <1>1, <1>2, <1>3, <1>4, <1>5, <1>6, <1>7, Steps DEF Surroundings

\* Every step keeps the plans rooted; a detached copy has to stay detached for it.
LEMMA NextRooted ==
    ASSUME Base, Truthful, Sighted, Rooted, [Next]_vars,
           proj.own = "detached" => proj'.own = "detached"
    PROVE  Rooted'
<1>0. /\ TypeOK /\ proj.gen \in Gens /\ proj.basis \in Versions \cup {0}
      /\ source.horizon \in {"inside", "outside"}
  BY CalendarFacts DEF Base, Shape, TypeOK, Projection
<1>1. check'.pc # "idle" => check'.want # NoCopy /\ check'.etag # 0 /\ check'.basis \in Versions
  <2>1. CASE check' = check
    BY <2>1 DEF Rooted
  <2>2. CASE Load
    <3>1. /\ check'.want = proj.want /\ check'.etag = proj.etag /\ check'.basis = proj.basis
          /\ proj.want # NoCopy /\ Has(proj)
      BY <2>2 DEF Load, NoCheck
    <3> QED BY <3>1 DEF Rooted, Has
  <2>3. CASE Look
    <3>1. check \in Check /\ check.pc = "loaded"
      BY <1>0, <2>3 DEF TypeOK, Look
    <3>2. \/ check' = NoCheck
          \/ \E s \in Sights :
                check' = [check EXCEPT !.pc = "seen", !.sight = s, !.rev = dest[check.gen].rev]
      BY <2>3 DEF Look, Sights
    <3>3. \/ check'.pc = "idle"
          \/ check'.want = check.want /\ check'.etag = check.etag /\ check'.basis = check.basis
      <4>1. ASSUME NEW s, NEW rev, check' = [check EXCEPT !.pc = "seen", !.sight = s, !.rev = rev]
            PROVE  check'.want = check.want /\ check'.etag = check.etag /\ check'.basis = check.basis
        BY <3>1, <4>1 DEF Check
      <4>2. NoCheck.pc = "idle"
        BY DEF NoCheck
      <4>3. CASE check' = NoCheck
        BY <4>2, <4>3
      <4>4. CASE \E s \in Sights :
                   check' = [check EXCEPT !.pc = "seen", !.sight = s, !.rev = dest[check.gen].rev]
        BY <4>1, <4>4
      <4> QED BY <3>2, <4>3, <4>4
    <3> QED BY <3>1, <3>3 DEF Rooted
  <2> QED BY <2>1, <2>2, <2>3, CheckStep
<1>2. CASE Onward
  <2>1. proj'.want # NoCopy \/ Has(proj') => proj'.basis \in Versions
    BY <1>2 DEF Onward, Rooted, Has
  <2>2. ASSUME proj'.own # "detached", proj'.want = NoCopy, proj'.basis \in Versions
        PROVE  Departed(proj.basis)'
    <3>1. proj.own # "detached" /\ proj.want = NoCopy /\ proj'.basis = proj.basis
      BY <1>2, <2>2 DEF Onward
    <3>2. Copy[proj.basis] = "none" \/ source.horizon = "outside"
      BY <2>2, <3>1 DEF Rooted, Departed
    <3> QED BY <3>1, <3>2, StaysOutside DEF Departed
  <2> QED BY <1>1, <2>1, <2>2 DEF Rooted
<1>3. ASSUME NEW r \in Reconcilers, recon[r].version \in Versions,
             proj'.basis = recon[r].version, proj'.own = proj.own,
             proj'.want = Evaluate(proj, recon[r].version).want, UNCHANGED source
      PROVE  Rooted'
  <2> DEFINE v == recon[r].version
             new == [body |-> Copy[v], gen |-> proj.gen]
  <2>1. ASSUME proj.own # "detached", Evaluate(proj, v).want = NoCopy PROVE ~Included(v)
    <3>1. Included(v) => Evaluate(proj, v).want = new
      BY <2>1 DEF Evaluate
    <3>2. Included(v) => new # NoCopy
      BY <1>0, <1>3, Selected
    <3> QED BY <2>1, <3>1, <3>2
  <2>2. ~Included(v) => Departed(v)
    BY <1>0 DEF Included, Departed
  <2> QED BY <1>1, <1>3, <2>1, <2>2 DEF Rooted, Departed
<1> QED BY <1>2, <1>3, NextPlans

\* Rooted plans of versions that all read differently are not overtaken.
LEMMA RootedInPlace ==
    ASSUME Fresh, Leaves, Base, Truthful, Known, Rooted
    PROVE  NotOvertaken
<1>0. /\ TypeOK /\ source.version \in Versions /\ proj.basis \in Nat /\ source.version \in Nat
      /\ proj.basis <= source.version /\ proj.want \in Desired /\ check.want \in Desired
      /\ source.horizon \in {"inside", "outside"}
  BY VersionFacts DEF Base, Shape, TypeOK, Known, Evident, Projection, Check
<1>1. proj.want # NoCopy => proj.basis \in Versions /\ Copy[proj.basis] = proj.want.body
                            /\ proj.want.body # "none"
  BY <1>0, WantedIsSelected DEF Rooted, Truthful, Planned
<1>2. check.pc # "idle" => /\ check.want # NoCopy /\ check.basis \in Versions
                           /\ Copy[check.basis] = check.want.body
  BY DEF Rooted, Truthful, Planned
<1>3. UpdateInPlace
  BY <1>0, <1>1 DEF UpdateInPlace, Fresh
<1>4. RepairInPlace
  BY <1>0, <1>1, <1>2 DEF RepairInPlace, Fresh
<1>5. DeleteInPlace
  <2> SUFFICES ASSUME Has(proj), proj.own = "attached", proj.want = NoCopy
               PROVE  ~Included(source.version)
    BY DEF DeleteInPlace
  <2>1. proj.basis \in Versions /\ Departed(proj.basis)
    BY DEF Rooted
  <2> QED BY <1>0, <2>1 DEF Departed, Leaves, Included
<1> QED BY <1>3, <1>4, <1>5 DEF NotOvertaken

\* ConvergedIsTrue for an occurrence whose selected versions all read differently and
\* that does not come back once it is not selected: whatever failed, died, was edited or
\* was decided, "converged" is true.
THEOREM ConvergedHoldsWhereFresh ==
    Fresh /\ Leaves /\ Spec /\ []NoDeadHold => []ConvergedIsTrue
<1> SUFFICES ASSUME Fresh, Leaves PROVE Spec /\ []NoDeadHold => []ConvergedIsTrue
  OBVIOUS
<1>1. Init => Settled /\ Rooted
  BY DEF Init, Settled, Rooted, NoProjection, NoCheck, Has, Versions
<1>2. Base /\ Truthful /\ HoldWaits /\ Known /\ NoDeadHold /\ (Settled /\ Rooted) /\ [Next]_vars
      => (Settled /\ Rooted)'
  BY NextSettled, NextRooted DEF Known
<1>3. Base /\ Truthful /\ Known /\ (Settled /\ Rooted) => NotOvertaken
  BY RootedInPlace
<1> QED BY <1>1, <1>2, <1>3, BaseInvariant, TruthfulInvariant, HoldWaitsHolds, KnownInvariant,
           ConvergedHolds, PTL DEF Spec

\* The policy repairs whatever is changed on the destination.
Repairs == OnEdit = "repair" /\ OnDelete = "repair"

\* No edit is held for a decision by a policy that repairs.
LEMMA NextUnheld ==
    ASSUME Repairs, Base, ~EditHold(proj), [Next]_vars
    PROVE  ~EditHold(proj')
<1>0. TypeOK /\ proj \in Projection /\ effect \in [Ids -> Effect]
  BY DEF Base, Shape, TypeOK
<1>1. ASSUME proj' = proj PROVE ~EditHold(proj')
  BY <1>1
<1>2. ASSUME proj'.code \in {"none", "other"} PROVE ~EditHold(proj')
  BY <1>2 DEF EditHold
<1>3. ASSUME NEW w \in Workers, Executes(w) PROVE ~EditHold(proj')
  <2>1. worker[w].job \in Ids /\ Deed(w)
    BY <1>3, ExecutorDeed
  <2>2. ASSUME NEW retryable \in BOOLEAN, NEW ambiguous \in BOOLEAN,
               Fail(w, retryable, ambiguous)
        PROVE  proj'.code = "other"
    BY <1>0, <2>1, <2>2, FailIs
  <2>3. Supersede(w) \/ HoldAmbiguous(w) => proj'.code = "other"
    BY <1>0, <2>1, SupersedeIs, HoldAmbiguousIs
  <2>4. \A rev \in Nat : Succeed(w, rev) => proj'.code = "none"
    BY <1>0, SucceedIs
  <2>5. Replace(w) => proj' = proj \/ proj'.code = "other"
    BY <1>0, <2>1, <2>2, ReplaceIs
  <2>6. Target.rev + 1 \in Nat /\ 0 \in Nat
    BY <1>0, CalendarFacts DEF Target
  <2> QED BY <1>1, <1>2, <2>1, <2>2, <2>3, <2>4, <2>5, <2>6 DEF Deed, Ends, Turns, Defer
<1>4. ASSUME NEW r \in Reconcilers, Commit(r) PROVE ~EditHold(proj')
  <2>1. recon[r].version \in Versions
    BY <1>4 DEF Base, Shape, Commit, Reading
  <2> QED BY <1>0, <1>1, <1>2, <1>4, <2>1, RefreshIs, IntendIs DEF Commit, Ignore
<1>5. CASE Settle
  <2>1. ~HoldEdit
    BY DEF Repairs, HoldEdit, Response
  <2>2. HoldForeign => proj'.own = "ambiguous"
    BY <1>0, HoldForeignIs
  <2> QED BY <1>0, <1>1, <1>2, <1>5, <2>1, <2>2, SettleIs, RepairIs DEF EditHold
<1>6. CASE Person
  <2>1. CASE Pause \/ Resume \/ Acknowledge
    BY <1>1, <2>1 DEF Pause, Resume, Acknowledge
  <2>2. CASE Keep \/ Restore
    BY <2>2 DEF Keep, Restore
  <2>3. ASSUME proj' = [proj EXCEPT !.rec = "none", !.status = "retrying", !.code = "none"]
        PROVE  ~EditHold(proj')
    BY <1>0, <2>3 DEF Projection, EditHold
  <2>4. CASE Reconsider("failed") \/ Reconsider("held")
    BY <1>0, <1>2, <2>4, ReconsiderIs
  <2>5. CASE RetryBlocked
    BY <2>3, <2>4, <2>5 DEF Recover, RetryBlocked, RetryDead, RetryHold
  <2> QED BY <1>6, <2>1, <2>2, <2>5 DEF Person
<1>7. CASE \E r \in Reconcilers : Read(r) \/ PassDies(r)
  BY <1>1, <1>7 DEF Read, PassDies
<1>8. CASE \E w \in Workers, e \in Ids : Lease(w, e)
  BY <1>1, <1>8 DEF Lease
<1>9. CASE Load \/ Look \/ \E kind \in Faults : LookFails(kind)
  BY <1>1, <1>9 DEF Load, Look, LookFails
<1>10. CASE Surroundings \/ UNCHANGED vars
  BY <1>1, <1>10 DEF Surroundings, SourceChanges, AgesOut, Wakeup, Touch, Outage, Reconnect, vars
<1> QED BY <1>3, <1>4, <1>5, <1>6, <1>7, <1>8, <1>9, <1>10, Steps

\* ConvergedIsTrue for a policy that repairs and an occurrence whose selected versions
\* all read differently and that does not come back: the environment of the run, for any
\* number of workers, passes, versions, generations, faults and direct changes.
THEOREM ConvergedHoldsWhereRepaired ==
    Repairs /\ Fresh /\ Leaves /\ Spec => []ConvergedIsTrue
<1> SUFFICES ASSUME Repairs, Fresh, Leaves PROVE Spec => []ConvergedIsTrue
  OBVIOUS
<1>1. Init => ~EditHold(proj)
  BY DEF Init, EditHold, NoProjection
<1>2. Base /\ ~EditHold(proj) /\ [Next]_vars => (~EditHold(proj))'
  BY NextUnheld DEF EditHold
<1>3. ~EditHold(proj) => NoDeadHold
  BY DEF NoDeadHold
<1>4. Spec /\ []NoDeadHold => []ConvergedIsTrue
  BY ConvergedHoldsWhereFresh
<1> QED BY <1>1, <1>2, <1>3, <1>4, BaseInvariant, PTL DEF Spec
=============================================================================
