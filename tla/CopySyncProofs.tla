--------------------------- MODULE CopySyncProofs ---------------------------
(***************************************************************************)
(* Proofs about CopySync for any number of workers, reconcile passes,      *)
(* source versions, generations, queued effects and faults.                *)
(*                                                                         *)
(* The invariants come in layers, each resting on the ones above it: the   *)
(* shape of the rows; who may act on them while a provider call is under   *)
(* way; what the content of an intent has to do with the version it was    *)
(* planned for; and which generation it is marked with.                    *)
(***************************************************************************)
EXTENDS CopySync, NaturalsInduction, WellFoundedInduction, TLAPS

\* Two effect rows with the same intent, and with the same progress too.
Kept(x, y) == x.op = y.op /\ x.basis = y.basis /\ x.want = y.want
Same(x, y) == Kept(x, y) /\ x.state = y.state /\ x.owner = y.owner /\ x.tries = y.tries

\* gx is the outbox fx with one more effect.
Added(fx, gx, op, basis, want) ==
    /\ gx \in [Ids -> Effect]
    /\ \E i \in Free(fx) :
          /\ gx[i].state = "pending" /\ gx[i].op = op
          /\ gx[i].basis = basis /\ gx[i].want = want
          /\ \A x \in Ids \ {i} : Same(gx[x], fx[x])

Busy(w) == worker[w].pc \notin {"idle", "leased"}

\* A process that is at work has a job or a version to work on.
Working == \A w \in Workers : worker[w].pc # "idle" => worker[w].job \in Ids
Reading == \A r \in Reconcilers : recon[r].pc = "read" => recon[r].version \in Versions

\* A lease has been counted as an attempt.
Counted == \A e \in Ids : effect[e].state = "leased" => effect[e].tries >= 1

Shape == TypeOK /\ Working /\ Reading /\ Counted

\* The executor's transaction: one at a time, on a row that it holds, for an active
\* policy and for the source as it is, with a delete call for a delete effect only.
Transaction(w) ==
    /\ Holder(w) /\ policy = "active" /\ CurrentBasis(worker[w].job)
    /\ worker[w].call = "delete" <=> effect[worker[w].job].op = "delete"
    /\ \A v \in Workers : Busy(v) => v = w

Exclusive == \A w \in Workers : Busy(w) => Transaction(w)

Base == Shape /\ Exclusive

\* A step of an executor, by what it does to the rows of its job.
Goes(w) ==
    /\ policy = "active" /\ CurrentBasis(worker[w].job) /\ UNCHANGED <<proj, effect>>
    /\ \E pc \in {"lookup", "write", "reread", "rewrite"}, call \in Ops, rev \in Nat :
          /\ Stage(w, pc, call, rev)
          /\ call = "delete" <=> effect[worker[w].job].op = "delete"

Outcome(w) ==
    \/ Release(w) /\ UNCHANGED <<proj, effect>>
    \/ /\ Holder(w) /\ \A v \in Workers : Busy(v) => v = w
       /\ \/ Defer(w)
          \/ \E retryable, ambiguous \in BOOLEAN : Fail(w, retryable, ambiguous)
          \/ Supersede(w)
          \/ HoldAmbiguous(w)
          \/ CurrentBasis(worker[w].job) /\ \E rev \in Nat : Succeed(w, rev)
          \/ effect[worker[w].job].op # "delete" /\ Replace(w)
          \/ Goes(w)

Executes(w) == Begin(w) \/ Lookup(w) \/ Write(w) \/ Dies(w) \/ \E kind \in Faults : CallFails(w, kind)

\* A desired copy is the version it was planned for, after selection and privacy.
Planned(want, basis) == want # NoCopy => want.body = Copy[basis]

Intact(op, basis, want) == op # "delete" => want # NoCopy /\ Planned(want, basis)

AllIntact(fx) ==
    \A e \in Ids : fx[e].state # "none" => Intact(fx[e].op, fx[e].basis, fx[e].want)

Truthful ==
    /\ AllIntact(effect)
    /\ Planned(proj.want, proj.basis)
    /\ Planned(check.want, check.basis)
    /\ proj.status = "absent" => proj.own = "attached"

\* The horizon is inside of the policy's window.
Inside == source.horizon = "inside"

\* An effect is planned for a version that has been observed, a delete for one that is
\* not selected; and an intent for the current version that may still be written carries
\* the markers of the current generation.
Fits(x, gen, v) ==
    /\ x.state # "none" => x.basis <= v /\ (x.op = "delete" => Copy[x.basis] = "none")
    /\ x.state \in Unfinished /\ x.op # "delete" /\ x.basis = v => x.want.gen = gen

AllFit(fx, gen, v) == \A e \in Ids : Fits(fx[e], gen, v)

\* The same of the processes and of the projection that effects are made from.
Sources ==
    /\ \A r \in Reconcilers : recon[r].version <= source.version
    /\ check.basis <= source.version
    /\ proj.basis <= source.version
    /\ proj.rec = "delete" => Copy[proj.basis] = "none"

Fitting == AllFit(effect, proj.gen, source.version) /\ Sources

\* A detached copy is settled: no effect of it is left, not even a dead one.
Settled == proj.own = "detached" => proj.status = "converged" /\ Queued(effect) = {}

-----------------------------------------------------------------------------
(* The outbox as a value.                                                  *)

\* The least of a set of effect ids exists.
LEMMA LeastId ==
    ASSUME NEW S \in SUBSET Ids, S # {}
    PROVE  \E i \in S : \A j \in S : i <= j
<1>1. S \subseteq Nat
  BY CopyAssumption DEF Ids
<1>2. IsWellFoundedOn(OpToRel(<, Nat), Nat)
  BY NatLessThanWellFounded
<1>3. PICK i \in S : \A j \in S : ~(<<j, i>> \in OpToRel(<, Nat))
  BY <1>1, <1>2, WFMin
<1>4. \A j \in S : ~(j < i)
  BY <1>1, <1>3 DEF OpToRel
<1> QED BY <1>1, <1>4

\* The constant rows are well-formed.
LEMMA ConstantRows ==
    /\ NoCopy \in Desired /\ NoEffect \in Effect /\ NoProjection \in Projection
    /\ Rest \in Worker /\ NoPass \in Pass /\ NoCheck \in Check /\ NoEvent \in Event
<1>1. NoCopy \in Desired /\ 1 \in Gens
  BY CopyAssumption DEF NoCopy, Desired, Gens
<1>2. NoEffect \in Effect
  BY <1>1 DEF NoEffect, Effect, Unfinished, Ops
<1>3. NoProjection \in Projection
  BY <1>1 DEF NoProjection, Projection
<1>4. Rest \in Worker
  BY DEF Rest, Worker, Ops
<1>5. NoPass \in Pass
  BY DEF NoPass, Pass
<1>6. NoCheck \in Check
  BY <1>1 DEF NoCheck, Check, Sights
<1>7. NoEvent \in Event
  BY DEF NoEvent, Event
<1> QED BY <1>1, <1>2, <1>3, <1>4, <1>5, <1>6, <1>7

\* Finishing an effect takes it out of the order and changes nothing else.
LEMMA FinishIs ==
    ASSUME NEW fx \in [Ids -> Effect], NEW e \in Ids
    PROVE  /\ Finish(fx, e) \in [Ids -> Effect]
           /\ Finish(fx, e)[e] = NoEffect
           /\ \A x \in Ids \ {e} : Same(Finish(fx, e)[x], fx[x])
           /\ e \in Free(Finish(fx, e))
<1> DEFINE new(x) == [fx[x] EXCEPT !.before = @ \ {e}]
<1>1. \A x \in Ids : fx[x] \in Effect
  OBVIOUS
<1>2. \A x \in Ids :
        new(x) \in Effect /\ Same(new(x), fx[x])
  BY <1>1 DEF Effect, Same, Kept
<1>3. Finish(fx, e) = [x \in Ids |-> IF x = e THEN NoEffect ELSE new(x)]
  BY DEF Finish
<1> HIDE DEF new
<1>4. Finish(fx, e)[e] = NoEffect /\ \A x \in Ids \ {e} : Finish(fx, e)[x] = new(x)
  BY <1>3
<1>5. Finish(fx, e) \in [Ids -> Effect]
  BY <1>2, <1>3, ConstantRows
<1>6. e \in Free(Finish(fx, e))
  BY <1>4 DEF Free, Queued, NoEffect
<1> QED BY <1>2, <1>4, <1>5, <1>6

\* A new effect takes a free row; the others keep everything but their place.
LEMMA InsertIs ==
    ASSUME NEW fx \in [Ids -> Effect], NEW first \in SUBSET Ids, Free(fx) # {},
           NEW op \in Ops, NEW basis \in Versions \cup {0}, NEW want \in Desired,
           NEW mode \in {"plain", "ambiguous"}
    PROVE  Added(fx, Insert(fx, NewEffect(op, basis, want, mode), first), op, basis, want)
<1> DEFINE i == CHOOSE k \in Free(fx) : \A j \in Free(fx) : k <= j
           behind(x) == [fx[x] EXCEPT !.before = @ \cup {i}]
           new == NewEffect(op, basis, want, mode)
           row == [new EXCEPT !.before = first]
           gx == Insert(fx, new, first)
<1>1. i \in Free(fx)
  <2>1. \E k \in Free(fx) : \A j \in Free(fx) : k <= j
    BY LeastId DEF Free
  <2> QED BY <2>1
<1>2. i \in Ids
  BY <1>1 DEF Free
<1>3. gx = [x \in Ids |->
          IF x = i THEN row ELSE IF x \in Queued(fx) \ first THEN behind(x) ELSE fx[x]]
  BY DEF Insert
<1> HIDE DEF i, gx
<1>4. \A x \in Ids : behind(x) \in Effect /\ Same(behind(x), fx[x])
  <2>1. \A x \in Ids : fx[x] \in Effect
    OBVIOUS
  <2> QED BY <1>2, <2>1 DEF Effect, Same, Kept
<1>5. new \in Effect
  BY ConstantRows DEF NewEffect, Effect, Unfinished
<1>6. /\ row \in Effect
      /\ row.state = "pending" /\ row.op = op /\ row.basis = basis /\ row.want = want
  BY <1>5 DEF NewEffect, NoEffect, Effect
<1> HIDE DEF behind, row
<1>7. gx \in [Ids -> Effect]
  BY <1>3, <1>4, <1>6
<1>8. gx[i] = row /\ \A x \in Ids \ {i} : gx[x] \in {behind(x), fx[x]}
  BY <1>2, <1>3
<1>9. \A x \in Ids \ {i} : Same(gx[x], fx[x])
  BY <1>4, <1>8 DEF Same, Kept
<1>10. Added(fx, gx, op, basis, want)
  BY <1>1, <1>6, <1>7, <1>8, <1>9 DEF Added
<1> QED BY <1>10 DEF gx

\* The same for an effect that comes last.
LEMMA AppendIs ==
    ASSUME NEW fx \in [Ids -> Effect], Free(fx) # {},
           NEW op \in Ops, NEW basis \in Versions \cup {0}, NEW want \in Desired,
           NEW mode \in {"plain", "ambiguous"}
    PROVE  Added(fx, AppendEffect(fx, NewEffect(op, basis, want, mode)), op, basis, want)
<1>1. Queued(fx) \in SUBSET Ids
  BY DEF Queued
<1> QED BY <1>1, InsertIs DEF AppendEffect

-----------------------------------------------------------------------------
(* What the executor's outcomes change.                                    *)

\* A worker that is done is at rest again.
LEMMA ReleaseIs ==
    ASSUME TypeOK, NEW w \in Workers, Release(w)
    PROVE  /\ worker' \in [Workers -> Worker] /\ worker'[w] = Rest
           /\ \A v \in Workers \ {w} : worker'[v] = worker[v]
  BY ConstantRows DEF TypeOK, Release

\* A worker that goes on keeps its job.
LEMMA StageIs ==
    ASSUME TypeOK, NEW w \in Workers, NEW pc \in {"lookup", "write", "reread", "rewrite"},
           NEW call \in Ops, NEW rev \in Nat, Stage(w, pc, call, rev)
    PROVE  /\ worker' \in [Workers -> Worker]
           /\ worker'[w].pc = pc /\ worker'[w].call = call /\ worker'[w].job = worker[w].job
           /\ \A v \in Workers \ {w} : worker'[v] = worker[v]
<1> DEFINE new == [worker[w] EXCEPT !.pc = pc, !.call = call, !.rev = rev]
<1>1. worker \in [Workers -> Worker] /\ worker[w] \in Worker
  BY DEF TypeOK
<1>2. new \in Worker /\ new.pc = pc /\ new.call = call /\ new.job = worker[w].job
  BY <1>1 DEF Worker
<1>3. worker' = [worker EXCEPT ![w] = new]
  BY <1>1 DEF Stage
<1> HIDE DEF new
<1> QED BY <1>1, <1>2, <1>3

\* Deferring takes the attempt back and leaves the intent.
LEMMA DeferIs ==
    ASSUME TypeOK, Counted, NEW w \in Workers, worker[w].job \in Ids, Holder(w), Defer(w)
    PROVE  LET e == worker[w].job
           IN  /\ effect' \in [Ids -> Effect] /\ effect'[e].state = "retry"
               /\ Kept(effect'[e], effect[e])
               /\ \A x \in Ids \ {e} : effect'[x] = effect[x]
<1> DEFINE e == worker[w].job
           new == [effect[e] EXCEPT !.state = "retry", !.tries = effect[e].tries - 1,
                                    !.owner = NoWorker, !.mode = "plain"]
<1>1. effect \in [Ids -> Effect] /\ effect[e] \in Effect /\ effect[e].tries \in Nat
  BY DEF TypeOK, Effect
<1>2. effect[e].tries - 1 \in Nat
  BY <1>1 DEF Counted, Holder
<1>3. new \in Effect /\ Kept(new, effect[e]) /\ new.state = "retry"
  BY <1>1, <1>2 DEF Effect, Kept, Unfinished
<1>4. effect' = [effect EXCEPT ![e] = new]
  BY <1>1 DEF Defer
<1> HIDE DEF new
<1> QED BY <1>1, <1>3, <1>4

\* A failed attempt leaves the intent, and of the projection all but its status.
LEMMA FailIs ==
    ASSUME TypeOK, NEW w \in Workers, worker[w].job \in Ids, NEW retryable, NEW ambiguous,
           Fail(w, retryable, ambiguous)
    PROVE  LET e == worker[w].job
           IN  /\ effect' \in [Ids -> Effect] /\ effect'[e].state \in {"dead", "retry"}
               /\ Kept(effect'[e], effect[e])
               /\ \A x \in Ids \ {e} : effect'[x] = effect[x]
               /\ proj' \in Projection /\ proj'.status \in {"failed", "retrying"}
               /\ proj'.code = "other" /\ proj'.own = proj.own /\ proj'.basis = proj.basis
               /\ proj'.gen = proj.gen /\ proj'.want = proj.want /\ proj'.rec = proj.rec
               /\ Release(w)
<1> DEFINE e == worker[w].job
           dead == ~retryable \/ effect[e].tries >= MaxAttempts
           state == IF dead THEN "dead" ELSE "retry"
           status == IF dead THEN "failed" ELSE "retrying"
           mode == IF ambiguous THEN "ambiguous" ELSE effect[e].mode
           new == [effect[e] EXCEPT !.state = state, !.owner = NoWorker, !.mode = mode]
<1>1. /\ effect \in [Ids -> Effect] /\ effect[e] \in Effect /\ proj \in Projection
      /\ effect[e].mode \in {"plain", "ambiguous"}
  BY DEF TypeOK, Effect
<1>2. /\ effect' = [effect EXCEPT ![e] = new]
      /\ proj' = [proj EXCEPT !.status = status, !.code = "other"]
      /\ Release(w)
  BY <1>1 DEF Fail
<1>3. state \in {"dead", "retry"} /\ mode \in {"plain", "ambiguous"}
      /\ status \in {"failed", "retrying"}
  BY <1>1
<1> HIDE DEF state, mode, status
<1>4. new \in Effect /\ Kept(new, effect[e]) /\ new.state = state
  BY <1>1, <1>3 DEF Effect, Kept, Unfinished
<1> HIDE DEF new
<1>5. effect' \in [Ids -> Effect] /\ effect'[e] = new
      /\ \A x \in Ids \ {e} : effect'[x] = effect[x]
  BY <1>1, <1>2, <1>4
<1>6. /\ proj' \in Projection /\ proj'.status = status
      /\ proj'.code = "other" /\ proj'.own = proj.own /\ proj'.basis = proj.basis
      /\ proj'.gen = proj.gen /\ proj'.want = proj.want /\ proj'.rec = proj.rec
  BY <1>1, <1>2, <1>3 DEF Projection
<1> QED BY <1>2, <1>3, <1>4, <1>5, <1>6

\* A superseded effect leaves, and of the projection all but its status stays.
LEMMA SupersedeIs ==
    ASSUME TypeOK, NEW w \in Workers, Supersede(w)
    PROVE  /\ effect' = Finish(effect, worker[w].job)
           /\ proj' \in Projection /\ proj'.status = "failed"
           /\ proj'.code = "other" /\ proj'.own = proj.own /\ proj'.basis = proj.basis
           /\ proj'.gen = proj.gen /\ proj'.want = proj.want /\ proj'.rec = proj.rec
<1>1. proj \in Projection /\ proj' = [proj EXCEPT !.status = "failed", !.code = "other"]
  BY DEF TypeOK, Supersede
<1>2. effect' = Finish(effect, worker[w].job)
  BY DEF Supersede
<1> QED BY <1>1, <1>2 DEF Projection

\* A copy held for review keeps its intent, and its effect is dead.
LEMMA HoldAmbiguousIs ==
    ASSUME TypeOK, NEW w \in Workers, worker[w].job \in Ids, HoldAmbiguous(w)
    PROVE  LET e == worker[w].job
           IN  /\ effect' \in [Ids -> Effect] /\ effect'[e].state = "dead"
               /\ Kept(effect'[e], effect[e])
               /\ \A x \in Ids \ {e} : effect'[x] = effect[x]
               /\ proj' \in Projection /\ proj'.status = "held" /\ proj'.own = "ambiguous"
               /\ proj'.code = "other" /\ proj'.basis = proj.basis /\ proj'.gen = proj.gen
               /\ proj'.want = proj.want /\ proj'.rec = proj.rec
               /\ Release(w)
<1> DEFINE e == worker[w].job
           new == [effect[e] EXCEPT !.state = "dead", !.owner = NoWorker, !.mode = "ambiguous"]
<1>1. effect \in [Ids -> Effect] /\ effect[e] \in Effect /\ proj \in Projection
  BY DEF TypeOK
<1>2. /\ effect' = [effect EXCEPT ![e] = new]
      /\ proj' = [proj EXCEPT !.own = "ambiguous", !.status = "held", !.code = "other"]
      /\ Release(w)
  BY <1>1 DEF HoldAmbiguous
<1>3. new \in Effect /\ Kept(new, effect[e]) /\ new.state = "dead"
  BY <1>1 DEF Effect, Kept
<1> HIDE DEF new
<1>4. effect' \in [Ids -> Effect] /\ effect'[e] = new
      /\ \A x \in Ids \ {e} : effect'[x] = effect[x]
  BY <1>1, <1>2, <1>3
<1>5. /\ proj' \in Projection /\ proj'.status = "held" /\ proj'.own = "ambiguous"
      /\ proj'.code = "other" /\ proj'.basis = proj.basis /\ proj'.gen = proj.gen
      /\ proj'.want = proj.want /\ proj'.rec = proj.rec
  BY <1>1, <1>2 DEF Projection
<1> QED BY <1>2, <1>3, <1>4, <1>5

\* A success ends the effect; only a delete starts a new generation.
LEMMA SucceedIs ==
    ASSUME TypeOK, NEW w \in Workers, NEW rev \in Nat, Succeed(w, rev)
    PROVE  LET e == worker[w].job
           IN  /\ effect' = Finish(effect, e) /\ Release(w)
               /\ proj' \in Projection /\ proj'.status \in {"deleted", "converged"}
               /\ proj'.code = "none" /\ proj'.rec = "none"
               /\ proj'.basis = proj.basis /\ proj'.want = proj.want
               /\ \/ effect[e].op = "delete" /\ proj'.own = proj.own
                  \/ effect[e].op # "delete" /\ proj'.own = "attached" /\ proj'.gen = proj.gen
<1> DEFINE e == worker[w].job
<1>1. proj \in Projection
  BY DEF TypeOK
<1>2. CASE effect[e].op = "delete"
  <2>1. proj.gen + 1 \in Gens
    BY <1>1, <1>2, CopyAssumption DEF Succeed, Projection, Gens
  <2>2. proj' = [proj EXCEPT !.rec = "none", !.etag = 0, !.gen = proj.gen + 1,
                             !.status = "deleted", !.code = "none"]
    BY <1>2 DEF Succeed
  <2>3. /\ proj' \in Projection /\ proj'.status = "deleted" /\ proj'.code = "none"
        /\ proj'.rec = "none" /\ proj'.basis = proj.basis /\ proj'.want = proj.want
        /\ proj'.own = proj.own
    BY <1>1, <2>1, <2>2 DEF Projection
  <2> QED BY <1>2, <2>3 DEF Succeed
<1>3. CASE effect[e].op # "delete"
  <2>1. proj' = [proj EXCEPT !.rec = "none", !.etag = rev, !.status = "converged",
                             !.own = "attached", !.code = "none"]
    BY <1>3 DEF Succeed
  <2>2. /\ proj' \in Projection /\ proj'.status = "converged" /\ proj'.code = "none"
        /\ proj'.rec = "none" /\ proj'.basis = proj.basis /\ proj'.want = proj.want
        /\ proj'.own = "attached" /\ proj'.gen = proj.gen
    BY <1>1, <2>1 DEF Projection
  <2> QED BY <1>3, <2>2 DEF Succeed
<1> QED BY <1>2, <1>3

\* A copy that is missing: a newer intent takes over, the attempt fails, or the next
\* generation is created with the same content and its own markers.
LEMMA ReplaceIs ==
    ASSUME TypeOK, NEW w \in Workers, worker[w].job \in Ids, Replace(w)
    PROVE  LET e == worker[w].job
           IN  \/ effect' = Finish(effect, e) /\ proj' = proj /\ Release(w)
               \/ Fail(w, FALSE, FALSE)
               \/ /\ Waiting(effect) \ {e} = {} /\ effect[e].want = proj.want
                  /\ proj.want # NoCopy /\ Release(w)
                  /\ Added(Finish(effect, e), effect', "create", effect[e].basis, proj'.want)
                  /\ proj' \in Projection /\ proj'.want # NoCopy
                  /\ proj'.want.body = proj.want.body /\ proj'.want.gen = proj'.gen
                  /\ proj'.status = "pending" /\ proj'.rec = "none" /\ proj'.code = "other"
                  /\ proj'.own = proj.own /\ proj'.basis = proj.basis
<1> DEFINE e == worker[w].job
           fresh == proj.want # NoCopy /\ proj.want.gen = proj.gen /\ effect[e].want = proj.want
           want == [proj.want EXCEPT !.gen = @ + 1]
<1>1. proj \in Projection /\ effect \in [Ids -> Effect] /\ effect[e] \in Effect
  BY DEF TypeOK
<1>2. CASE Waiting(effect) \ {e} # {}
  BY <1>2 DEF Replace
<1>3. CASE Waiting(effect) \ {e} = {} /\ ~fresh
  BY <1>3 DEF Replace
<1>4. CASE Waiting(effect) \ {e} = {} /\ fresh
  <2>1. /\ proj.gen < MaxGen
        /\ effect' = AppendEffect(Finish(effect, e),
                         NewEffect("create", effect[e].basis, want, "plain"))
        /\ proj' = [proj EXCEPT !.gen = proj.gen + 1, !.etag = 0, !.want = want,
                                !.status = "pending", !.rec = "none", !.code = "other"]
        /\ Release(w)
    BY <1>4 DEF Replace
  <2>2. proj.gen + 1 \in Gens
    BY <1>1, <2>1, CopyAssumption DEF Projection, Gens
  <2>3. proj.want \in [body : Bodies, gen : Gens]
    BY <1>1, <1>4 DEF Projection, Desired
  <2>4. /\ want \in [body : Bodies, gen : Gens]
        /\ want.body = proj.want.body /\ want.gen = proj.gen + 1
    BY <1>4, <2>2, <2>3
  <2>5. want # NoCopy /\ want \in Desired
    BY <2>4, CopyAssumption DEF NoCopy, Gens, Desired
  <2> HIDE DEF want
  <2>6. /\ proj' \in Projection /\ proj'.want = want /\ proj'.gen = proj.gen + 1
        /\ proj'.status = "pending" /\ proj'.rec = "none" /\ proj'.code = "other"
        /\ proj'.own = proj.own /\ proj'.basis = proj.basis
    BY <1>1, <2>1, <2>2, <2>5 DEF Projection
  <2>7. Added(Finish(effect, e), effect', "create", effect[e].basis, want)
    <3>1. Free(Finish(effect, e)) # {} /\ Finish(effect, e) \in [Ids -> Effect]
      BY <1>1, FinishIs
    <3>2. effect[e].basis \in Versions \cup {0}
      BY <1>1 DEF Effect
    <3> QED BY <2>1, <2>5, <3>1, <3>2, AppendIs DEF Ops
  <2> QED BY <1>4, <2>1, <2>4, <2>5, <2>6, <2>7
<1> QED BY <1>2, <1>3, <1>4

\* Taking an effect leaves its intent and counts the attempt.
LEMMA LeaseIs ==
    ASSUME TypeOK, NEW w \in Workers, NEW e \in Ids, Lease(w, e)
    PROVE  /\ effect[e].state \in Unfinished
           /\ effect' \in [Ids -> Effect] /\ effect'[e].state = "leased"
           /\ effect'[e].tries >= 1 /\ Kept(effect'[e], effect[e])
           /\ \A x \in Ids \ {e} : effect'[x] = effect[x]
           /\ worker' \in [Workers -> Worker]
           /\ worker'[w].pc = "leased" /\ worker'[w].job = e
           /\ \A v \in Workers \ {w} : worker'[v] = worker[v]
<1> DEFINE mode == IF effect[e].state = "leased" THEN "ambiguous" ELSE effect[e].mode
           new == [effect[e] EXCEPT !.state = "leased", !.owner = w,
                                    !.tries = effect[e].tries + 1, !.mode = mode]
           own == [Rest EXCEPT !.pc = "leased", !.job = e]
<1>1. /\ effect \in [Ids -> Effect] /\ effect[e] \in Effect /\ effect[e].tries \in Nat
      /\ effect[e].mode \in {"plain", "ambiguous"} /\ worker \in [Workers -> Worker]
  BY DEF TypeOK, Effect
<1>2. effect' = [effect EXCEPT ![e] = new] /\ worker' = [worker EXCEPT ![w] = own]
  BY <1>1 DEF Lease
<1>3. effect[e].state \in Unfinished
  BY DEF Lease, Abandoned, Unfinished
<1>4. mode \in {"plain", "ambiguous"} /\ effect[e].tries + 1 \in Nat
      /\ effect[e].tries + 1 >= 1
  BY <1>1
<1> HIDE DEF mode
<1>5. new \in Effect /\ Kept(new, effect[e]) /\ new.state = "leased"
      /\ new.tries = effect[e].tries + 1
  BY <1>1, <1>4 DEF Effect, Kept, Unfinished
<1>6. own \in Worker /\ own.pc = "leased" /\ own.job = e
  BY ConstantRows DEF Rest, Worker
<1> HIDE DEF new, own
<1> QED BY <1>1, <1>2, <1>3, <1>4, <1>5, <1>6

-----------------------------------------------------------------------------
(* What the reconciler, the verifier and a person change.                  *)

\* A selected version has a body.
LEMMA Selected ==
    ASSUME NEW v \in Versions, Included(v), NEW g \in Gens
    PROVE  LET new == [body |-> Copy[v], gen |-> g]
           IN  new \in Desired /\ new # NoCopy /\ new.body = Copy[v] /\ new.gen = g
  BY CopyAssumption DEF Included, Desired, Bodies, NoCopy, Gens

\* The evaluation of a version: what it asks for is that version, marked with the
\* generation of the projection, and a deletion is of a version that is not included.
LEMMA EvaluateIs ==
    ASSUME TypeOK, NEW v \in Versions
    PROVE  LET res == Evaluate(proj, v)
           IN  /\ res.op \in Ops \cup {"none"} /\ res.want \in Desired
               /\ res.want # NoCopy => res.want.body = Copy[v] /\ res.want.gen = proj.gen
               /\ /\ res.op \in {"create", "update"}
                  /\ proj.status = "absent" => proj.own = "attached"
                  => res.want # NoCopy
               /\ res.op = "delete" => ~Included(v)
               /\ /\ proj.own = "detached" /\ proj.status = "converged"
                  => res.op = "none"
<1> DEFINE new == [body |-> Copy[v], gen |-> proj.gen]
           op == Operation(proj, v, new)
           want == IF Included(v) /\ (proj.own # "detached" \/ Retained(proj)) THEN new ELSE NoCopy
<1>1. proj \in Projection /\ proj.gen \in Gens
  BY DEF TypeOK, Projection
<1>2. Included(v) => new \in Desired /\ new # NoCopy /\ new.body = Copy[v] /\ new.gen = proj.gen
  BY <1>1, Selected
<1> HIDE DEF new
<1>3. /\ op \in Ops \cup {"none"}
      /\ op = "delete" => ~Included(v)
      /\ op \in {"create", "update"} =>
            Included(v) /\ (proj.own # "detached" \/ Retained(proj) \/ proj.status = "absent")
      /\ proj.own = "detached" /\ proj.status = "converged" => op = "none"
  <2>1. CASE proj.status = "absent" \/ Retained(proj)
    <3>1. op = IF Included(v) THEN "create" ELSE "none"
      BY <2>1 DEF Operation
    <3> QED BY <2>1, <3>1 DEF Ops, Retained
  <2>2. CASE ~(proj.status = "absent" \/ Retained(proj)) /\ proj.own = "detached"
    <3>1. op = "none"
      BY <2>2 DEF Operation
    <3> QED BY <3>1
  <2>3. CASE ~(proj.status = "absent" \/ Retained(proj)) /\ proj.own # "detached" /\ ~Included(v)
    <3>1. op = "delete"
      BY <2>3 DEF Operation
    <3> QED BY <2>3, <3>1 DEF Ops
  <2>4. CASE ~(proj.status = "absent" \/ Retained(proj)) /\ proj.own # "detached" /\ Included(v)
    <3>1. op \in {"create", "update", "none"}
      BY <2>4 DEF Operation
    <3> QED BY <2>4, <3>1 DEF Ops
  <2> QED BY <2>1, <2>2, <2>3, <2>4
<1>4. Evaluate(proj, v).op = op /\ Evaluate(proj, v).want = want
  BY DEF Evaluate, new
<1>5. want \in Desired /\ (want # NoCopy => want = new /\ Included(v))
  BY <1>2, ConstantRows
<1>6. /\ op \in {"create", "update"}
      /\ proj.status = "absent" => proj.own = "attached"
      => want # NoCopy
  BY <1>2, <1>3
<1> HIDE DEF op, want
<1> QED BY <1>2, <1>3, <1>4, <1>5, <1>6

\* The recovery operation of an evaluation.
LEMMA RecoveryIs ==
    ASSUME NEW v, NEW op
    PROVE  /\ Recovery(v, op) \in Ops \cup {"none"}
           /\ Recovery(v, op) = "delete" => ~Included(v)
  BY DEF Recovery, Ops

\* Refreshed evidence: the projection is for the version that was read.
LEMMA RefreshIs ==
    ASSUME TypeOK, NEW r \in Reconcilers, recon[r].version \in Versions, RefreshEvidence(r)
    PROVE  LET v == recon[r].version
           IN  /\ proj' \in Projection /\ proj'.basis = v /\ effect' = effect
               /\ proj'.want = Evaluate(proj, v).want
               /\ proj'.rec = "delete" => ~Included(v)
               /\ proj'.own = proj.own /\ proj'.gen = proj.gen
               /\ proj'.status \in {"held", "failed"} /\ Blocked
               /\ EditHold(proj') => EditHold(proj)
<1> DEFINE v == recon[r].version
           res == Evaluate(proj, v)
           rec == Recovery(v, res.op)
           status == IF proj.own = "ambiguous" \/ EditHold(proj) THEN "held" ELSE "failed"
           code == IF rec # "none" /\ Dead(effect) = {} /\ proj.code # "none"
                   THEN proj.code ELSE "other"
<1>1. proj \in Projection /\ proj.code \in {"none", "edit_hold", "other"}
  BY DEF TypeOK, Projection
<1>2. /\ proj' = [proj EXCEPT !.basis = v, !.rec = rec, !.want = res.want, !.status = status,
                              !.code = code]
      /\ effect' = effect /\ Blocked
  BY DEF RefreshEvidence
<1>3. res.want \in Desired
  BY EvaluateIs
<1>4. rec \in Ops \cup {"none"} /\ (rec = "delete" => ~Included(v))
  BY RecoveryIs
<1>5. status \in {"held", "failed"} /\ code \in {"none", "edit_hold", "other"}
      /\ (status = "held" /\ proj.own = "attached" => EditHold(proj))
  BY <1>1
<1> HIDE DEF res, rec, status, code
<1>6. /\ proj' \in Projection /\ proj'.basis = v /\ proj'.want = res.want /\ proj'.rec = rec
      /\ proj'.own = proj.own /\ proj'.gen = proj.gen /\ proj'.status = status
  BY <1>1, <1>2, <1>3, <1>4, <1>5 DEF Projection
<1>7. EditHold(proj') => EditHold(proj)
  BY <1>5, <1>6 DEF EditHold
<1> QED BY <1>2, <1>4, <1>5, <1>6, <1>7 DEF res

\* An intent: the projection is for the version that was read, and so is its effect.
LEMMA IntendIs ==
    ASSUME TypeOK, NEW r \in Reconcilers, recon[r].version \in Versions, Intend(r)
    PROVE  LET v == recon[r].version
               res == Evaluate(proj, v)
           IN  /\ proj' \in Projection /\ proj'.basis = v /\ proj'.want = res.want
               /\ proj'.rec = "none" /\ proj'.code = "none"
               /\ proj'.own = proj.own /\ proj'.gen = proj.gen
               /\ proj'.status \in {"pending", "deleted", "converged"}
               /\ res.op = "none" /\ proj.status = "converged" => proj'.status = "converged"
               /\ proj.status = "absent" \/ ~Blocked
               /\ \/ res.op = "none" /\ effect' = effect
                  \/ res.op # "none" /\ Added(effect, effect', res.op, v, res.want)
<1> DEFINE v == recon[r].version
           res == Evaluate(proj, v)
           status == IF res.op # "none" THEN "pending"
                     ELSE IF Retained(proj) THEN "deleted" ELSE "converged"
<1>1. proj \in Projection /\ effect \in [Ids -> Effect]
  BY DEF TypeOK
<1>2. /\ proj' = [proj EXCEPT !.basis = v, !.want = res.want, !.status = status,
                              !.rec = "none", !.code = "none"]
      /\ proj.status = "absent" \/ ~Blocked
  BY DEF Intend
<1>3. res.want \in Desired /\ res.op \in Ops \cup {"none"}
  BY EvaluateIs
<1>4. /\ status \in {"pending", "deleted", "converged"}
      /\ res.op = "none" /\ proj.status = "converged" => status = "converged"
  BY DEF Retained
<1>5. \/ res.op = "none" /\ effect' = effect
      \/ res.op # "none" /\ Added(effect, effect', res.op, v, res.want)
  <2>1. CASE res.op = "none"
    BY <2>1 DEF Intend
  <2>2. CASE res.op # "none"
    <3>1. Free(effect) # {}
      BY <2>2 DEF Intend
    <3>2. PICK first \in SUBSET Queued(effect) :
             effect' = Insert(effect, NewEffect(res.op, v, res.want, "plain"), first)
      BY <2>2 DEF Intend
    <3>3. first \in SUBSET Ids /\ res.op \in Ops
      BY <1>3, <2>2 DEF Queued
    <3> HIDE DEF res
    <3> QED BY <1>1, <1>3, <2>2, <3>1, <3>2, <3>3, InsertIs
  <2> QED BY <2>1, <2>2
<1> HIDE DEF res, status
<1>6. /\ proj' \in Projection /\ proj'.basis = v /\ proj'.want = res.want
      /\ proj'.rec = "none" /\ proj'.code = "none" /\ proj'.status = status
      /\ proj'.own = proj.own /\ proj'.gen = proj.gen
  BY <1>1, <1>2, <1>3, <1>4 DEF Projection
<1> QED BY <1>2, <1>4, <1>5, <1>6 DEF res

\* A recovery intent is the projection's own recovery evidence.
LEMMA RecoverIs ==
    ASSUME TypeOK, proj.rec # "none", NEW fx \in [Ids -> Effect], Recover(fx)
    PROVE  /\ Added(fx, effect', proj.rec, proj.basis, proj.want)
           /\ proj' \in Projection /\ proj'.rec = "none" /\ proj'.code = "none"
           /\ proj'.status = "retrying" /\ proj'.own = proj.own /\ proj'.gen = proj.gen
           /\ proj'.want = proj.want /\ proj'.basis = proj.basis
<1>1. proj \in Projection
  BY DEF TypeOK
<1>2. proj.rec \in Ops /\ proj.basis \in Versions \cup {0} /\ proj.want \in Desired
  BY <1>1 DEF Projection
<1>3. /\ Free(fx) # {}
      /\ effect' = AppendEffect(fx, NewEffect(proj.rec, proj.basis, proj.want, "ambiguous"))
      /\ proj' = [proj EXCEPT !.rec = "none", !.status = "retrying", !.code = "none"]
  BY DEF Recover
<1>4. Added(fx, effect', proj.rec, proj.basis, proj.want)
  BY <1>2, <1>3, AppendIs
<1> QED BY <1>1, <1>3, <1>4 DEF Projection

\* A projection that is to be reconciled again changes in its status only.
LEMMA ReconsiderIs ==
    ASSUME TypeOK, NEW status \in {"failed", "held"}, Reconsider(status)
    PROVE  /\ proj' \in Projection /\ proj'.status = status /\ proj'.code = "other"
           /\ proj'.own = proj.own /\ proj'.gen = proj.gen /\ proj'.rec = proj.rec
           /\ proj'.want = proj.want /\ proj'.basis = proj.basis
           /\ wake' = TRUE
<1>1. proj \in Projection /\ proj' = [proj EXCEPT !.status = status, !.code = "other"]
      /\ wake' = TRUE
  BY DEF TypeOK, Reconsider
<1> QED BY <1>1 DEF Projection

\* A dead effect that is replayed is the projection's own intent.
LEMMA ReplayIs ==
    ASSUME TypeOK, NEW d \in Ids, Replayable(d),
           effect' = [effect EXCEPT ![d] = [@ EXCEPT !.state = "retry", !.tries = 0,
                                                     !.mode = "ambiguous"]],
           proj' = [proj EXCEPT !.rec = "none", !.status = "retrying", !.code = "none"]
    PROVE  /\ effect' \in [Ids -> Effect] /\ effect'[d].state = "retry"
           /\ Kept(effect'[d], effect[d])
           /\ \A x \in Ids \ {d} : effect'[x] = effect[x]
           /\ proj' \in Projection /\ proj'.rec = "none" /\ proj'.code = "none"
           /\ proj'.status = "retrying" /\ proj'.own = proj.own /\ proj'.gen = proj.gen
           /\ proj'.want = proj.want /\ proj'.basis = proj.basis
           /\ effect[d].op # "delete" => effect[d].want.gen = proj.gen
<1> DEFINE new == [effect[d] EXCEPT !.state = "retry", !.tries = 0, !.mode = "ambiguous"]
<1>1. proj \in Projection /\ effect \in [Ids -> Effect] /\ effect[d] \in Effect
  BY DEF TypeOK
<1>2. new \in Effect /\ Kept(new, effect[d]) /\ new.state = "retry"
  BY <1>1 DEF Effect, Kept, Unfinished
<1>3. effect' = [effect EXCEPT ![d] = new]
  BY <1>1
<1> HIDE DEF new
<1>4. /\ effect' \in [Ids -> Effect] /\ effect'[d] = new
      /\ \A x \in Ids \ {d} : effect'[x] = effect[x]
  BY <1>1, <1>2, <1>3
<1>5. /\ proj' \in Projection /\ proj'.rec = "none" /\ proj'.code = "none"
      /\ proj'.status = "retrying" /\ proj'.own = proj.own /\ proj'.gen = proj.gen
      /\ proj'.want = proj.want /\ proj'.basis = proj.basis
  BY <1>1 DEF Projection
<1>6. effect[d].op # "delete" => effect[d].want.gen = proj.gen
  BY DEF Replayable, OwnEvidence
<1> QED BY <1>2, <1>4, <1>5, <1>6

\* The verifier's verdicts on a copy: held as foreign, held for a decision, or repaired.
LEMMA HoldForeignIs ==
    ASSUME TypeOK, HoldForeign
    PROVE  /\ proj' \in Projection /\ proj'.status = "held" /\ proj'.own = "ambiguous"
           /\ proj'.rec = "update" /\ proj'.gen = proj.gen
           /\ proj'.want = proj.want /\ proj'.basis = proj.basis
           /\ effect' = effect /\ notice' = notice
<1>1. /\ proj \in Projection /\ check.rev \in Nat
      /\ proj' = [proj EXCEPT !.status = "held", !.own = "ambiguous", !.rec = "update",
                              !.code = "other", !.etag = check.rev]
      /\ effect' = effect /\ notice' = notice
  BY DEF TypeOK, HoldForeign, Check
<1> QED BY <1>1 DEF Projection, Ops

\* See HoldForeignIs.
LEMMA HoldEditIs ==
    ASSUME TypeOK, HoldEdit
    PROVE  /\ proj' \in Projection /\ proj'.status = "held" /\ proj'.own = proj.own
           /\ proj'.rec \in {"create", "update"} /\ proj'.gen = proj.gen
           /\ proj'.want = proj.want /\ proj'.basis = proj.basis
           /\ effect' = effect /\ notice' = "unread"
<1> DEFINE rec == IF check.sight = "missing" THEN "create" ELSE "update"
           etag == IF check.sight = "drifted" THEN check.rev ELSE proj.etag
<1>1. /\ proj \in Projection /\ check.rev \in Nat /\ proj.etag \in Nat
      /\ proj' = [proj EXCEPT !.status = "held", !.code = "edit_hold", !.rec = rec, !.etag = etag]
      /\ effect' = effect /\ notice' = "unread"
  BY DEF TypeOK, HoldEdit, Check, Projection
<1>2. rec \in {"create", "update"} /\ etag \in Nat
  BY <1>1
<1> HIDE DEF rec, etag
<1> QED BY <1>1, <1>2 DEF Projection, Ops

\* See HoldForeignIs.
LEMMA RepairIs ==
    ASSUME TypeOK, Repair
    PROVE  /\ \E op \in {"create", "update"} :
                 Added(effect, effect', op, check.basis, proj'.want)
           /\ proj.want # NoCopy /\ proj'.want # NoCopy /\ proj'.want.body = proj.want.body
           /\ proj'.want.gen = proj'.gen
           /\ proj' \in Projection /\ proj'.status = "pending" /\ proj'.rec = "none"
           /\ proj'.code = "other" /\ proj'.own = proj.own /\ proj'.basis = proj.basis
           /\ notice' = notice
<1> DEFINE op == IF check.sight = "missing" THEN "create" ELSE "update"
           next == IF check.sight = "missing" THEN proj.gen + 1 ELSE proj.gen
           want == [proj.want EXCEPT !.gen = next]
           etag == IF check.sight = "drifted" THEN check.rev ELSE 0
<1>1. /\ proj \in Projection /\ check.rev \in Nat /\ check.basis \in Versions \cup {0}
      /\ effect \in [Ids -> Effect] /\ proj.want \in Desired
  BY DEF TypeOK, Check, Projection
<1>2. /\ OwnEvidence /\ next \in Gens /\ Free(effect) # {}
      /\ effect' = AppendEffect(effect, NewEffect(op, check.basis, want, "plain"))
      /\ proj' = [proj EXCEPT !.gen = next, !.want = want, !.status = "pending",
                              !.rec = "none", !.code = "other", !.etag = etag]
      /\ notice' = notice
  BY DEF Repair
<1>3. op \in {"create", "update"} /\ etag \in Nat
  BY <1>1
<1> HIDE DEF op, next, etag
<1>4. proj.want \in [body : Bodies, gen : Gens] /\ proj.want # NoCopy
  BY <1>1, <1>2 DEF OwnEvidence, Desired
<1>5. /\ want \in [body : Bodies, gen : Gens]
      /\ want.body = proj.want.body /\ want.gen = next
  BY <1>2, <1>4
<1>6. want # NoCopy /\ want \in Desired
  BY <1>5, CopyAssumption DEF NoCopy, Gens, Desired
<1> HIDE DEF want
<1>7. Added(effect, effect', op, check.basis, want)
  BY <1>1, <1>2, <1>3, <1>6, AppendIs DEF Ops
<1>8. /\ proj' \in Projection /\ proj'.want = want /\ proj'.gen = next
      /\ proj'.status = "pending" /\ proj'.rec = "none" /\ proj'.code = "other"
      /\ proj'.own = proj.own /\ proj'.basis = proj.basis
  BY <1>1, <1>2, <1>3, <1>6 DEF Projection
<1> QED BY <1>2, <1>3, <1>4, <1>5, <1>6, <1>7, <1>8

\* What a verdict does, in one statement: the projection and its effects stay, the
\* copy is held, or it is repaired, and the last two only while nothing is under way.
LEMMA SettleIs ==
    ASSUME TypeOK, Settle
    PROVE  /\ ~Locked /\ check.pc = "seen" /\ check' = NoCheck
           /\ \/ UNCHANGED <<proj, effect, notice>>
              \/ StillCurrent /\ HoldForeign
              \/ StillCurrent /\ HoldEdit
              \/ StillCurrent /\ Repair
  BY DEF Settle

\* What a provider write leaves is an event.
LEMMA WrittenIs ==
    ASSUME TypeOK, NEW w \in Workers, worker[w].job \in Ids,
           dest' = [dest EXCEPT ![proj.gen] = Written(w)]
    PROVE  /\ dest' \in [Gens -> Event] /\ dest'[proj.gen] = Written(w)
           /\ \A g \in Gens \ {proj.gen} : dest'[g] = dest[g]
<1>1. dest \in [Gens -> Event] /\ proj.gen \in Gens /\ effect[worker[w].job].want \in Desired
  BY DEF TypeOK, Projection, Effect
<1>2. Target \in Event /\ Target.rev + 1 \in Nat
  BY <1>1 DEF Target, Event
<1>3. Written(w) \in Event
  <2>1. CASE worker[w].call = "delete"
    <3>1. [Target EXCEPT !.st = "gone"] \in Event
      BY <1>2 DEF Event
    <3> QED BY <1>2, <2>1, <3>1 DEF Written
  <2>2. CASE worker[w].call # "delete"
    <3> DEFINE want == effect[worker[w].job].want
    <3>1. want.body \in Bodies \cup {"none", "edited"} /\ want.gen \in Gens \cup {0}
      BY <1>1 DEF Desired, NoCopy
    <3>2. Written(w) = [st |-> "live", body |-> want.body, mark |-> want.gen,
                        rev |-> Target.rev + 1]
      BY <2>2 DEF Written
    <3> HIDE DEF want
    <3> QED BY <1>2, <3>1, <3>2 DEF Event
  <2> QED BY <2>1, <2>2
<1> QED BY <1>1, <1>3

-----------------------------------------------------------------------------
(* A step of an executor has one of the outcomes above.                    *)

\* A worker that acts outside of a transaction finds none under way.
LEMMA Unlocked ==
    ASSUME ~Locked, NEW w \in Workers
    PROVE  ~Busy(w)
  BY DEF Locked, Busy

\* The first provider call of an effect, or its success when nothing is to be deleted.
LEMMA StartOutcome ==
    ASSUME Base, NEW w \in Workers, worker[w].job \in Ids, ~Locked, Holder(w),
           policy = "active", CurrentBasis(worker[w].job), Start(w)
    PROVE  Outcome(w) /\ UNCHANGED <<conn, wake, dest, used>>
<1> DEFINE e == worker[w].job
<1>1. effect[e].op \in Ops /\ proj.etag \in Nat
  BY DEF Base, Shape, TypeOK, Effect, Projection
<1>2. \A v \in Workers : Busy(v) => v = w
  BY Unlocked
<1>3. UNCHANGED <<conn, wake, dest, used>>
  BY DEF Start
<1>4. \/ Stage(w, "lookup", effect[e].op, 0) /\ UNCHANGED <<proj, effect>>
      \/ Stage(w, "write", effect[e].op, proj.etag) /\ UNCHANGED <<proj, effect>>
      \/ effect[e].op = "update" /\ Stage(w, "write", "create", 0) /\ UNCHANGED <<proj, effect>>
      \/ Succeed(w, 0)
  BY DEF Start
<1>5. CASE Stage(w, "lookup", effect[e].op, 0) /\ UNCHANGED <<proj, effect>>
  <2>1. Goes(w)
    BY <1>1, <1>5 DEF Goes
  <2> QED BY <1>2, <1>3, <2>1 DEF Outcome
<1>6. CASE Stage(w, "write", effect[e].op, proj.etag) /\ UNCHANGED <<proj, effect>>
  <2>1. Goes(w)
    BY <1>1, <1>6 DEF Goes
  <2> QED BY <1>2, <1>3, <2>1 DEF Outcome
<1>7. CASE effect[e].op = "update" /\ Stage(w, "write", "create", 0) /\ UNCHANGED <<proj, effect>>
  <2>1. "create" \in Ops /\ "create" # "delete" /\ effect[e].op # "delete"
    BY <1>7 DEF Ops
  <2>2. Goes(w)
    BY <1>7, <2>1 DEF Goes
  <2> QED BY <1>2, <1>3, <2>2 DEF Outcome
<1>8. CASE Succeed(w, 0)
  BY <1>2, <1>3, <1>8 DEF Outcome
<1> QED BY <1>4, <1>5, <1>6, <1>7, <1>8

\* The executor's checks before its first call.
LEMMA BeginOutcome ==
    ASSUME Base, NEW w \in Workers, Begin(w)
    PROVE  /\ worker[w].job \in Ids /\ Outcome(w) /\ dest' = dest
           /\ conn' = conn /\ used' = used /\ wake' \in BOOLEAN /\ UNCHANGED Elsewhere
<1>1. /\ worker[w].job \in Ids /\ ~Locked /\ wake \in BOOLEAN
      /\ \A v \in Workers : Busy(v) => v = w
  BY Unlocked DEF Begin, Base, Shape, Working, TypeOK
<1>2. UNCHANGED Elsewhere
  BY DEF Begin
<1>3. CASE ~Holder(w)
  <2>1. Release(w) /\ UNCHANGED <<conn, wake, proj, effect, dest, used>>
    BY <1>3 DEF Begin
  <2> QED BY <1>1, <1>2, <2>1 DEF Outcome
<1>4. CASE Holder(w) /\ policy = "paused"
  <2>1. Defer(w)
    BY <1>4 DEF Begin
  <2>2. UNCHANGED <<conn, wake, dest, used>>
    BY <2>1 DEF Defer
  <2> QED BY <1>1, <1>2, <1>4, <2>1, <2>2 DEF Outcome
<1>5. CASE Holder(w) /\ policy # "paused" /\ conn # "on"
  <2>1. Fail(w, FALSE, FALSE) /\ UNCHANGED <<conn, wake, dest, used>>
    BY <1>5 DEF Begin
  <2> QED BY <1>1, <1>2, <1>5, <2>1 DEF Outcome
<1>6. CASE Holder(w) /\ policy # "paused" /\ conn = "on" /\ ~CurrentBasis(worker[w].job)
  <2>1. Supersede(w)
    BY <1>6 DEF Begin
  <2>2. wake' = TRUE /\ UNCHANGED <<conn, dest, used>>
    BY <2>1 DEF Supersede
  <2> QED BY <1>1, <1>2, <1>6, <2>1, <2>2 DEF Outcome
<1>7. CASE Holder(w) /\ policy # "paused" /\ conn = "on" /\ CurrentBasis(worker[w].job)
  <2>1. Start(w) /\ policy = "active"
    BY <1>7 DEF Begin
  <2> QED BY <1>1, <1>2, <1>7, <2>1, StartOutcome
<1> QED BY <1>3, <1>4, <1>5, <1>6, <1>7

\* The facts a busy worker can rely on.
LEMMA BusyFacts ==
    ASSUME Base, NEW w \in Workers, Busy(w)
    PROVE  /\ worker[w].job \in Ids /\ effect[worker[w].job].op \in Ops
           /\ Target \in Event /\ Target.rev \in Nat /\ wake \in BOOLEAN
           /\ Holder(w) /\ policy = "active" /\ CurrentBasis(worker[w].job)
           /\ worker[w].call = "delete" <=> effect[worker[w].job].op = "delete"
           /\ \A v \in Workers : Busy(v) => v = w
<1>1. worker[w].job \in Ids
  BY DEF Base, Shape, Working, Busy
<1>2. effect[worker[w].job].op \in Ops
  BY <1>1 DEF Base, Shape, TypeOK, Effect
<1>3. Target \in Event
  BY DEF Target, Base, Shape, TypeOK, Projection
<1>4. Target.rev \in Nat
  BY <1>3 DEF Event
<1>5. Transaction(w) /\ wake \in BOOLEAN
  BY DEF Base, Exclusive, Shape, TypeOK
<1> QED BY <1>1, <1>2, <1>3, <1>4, <1>5 DEF Transaction

\* The provider's answer to a lookup.
LEMMA LookupOutcome ==
    ASSUME Base, NEW w \in Workers, Lookup(w)
    PROVE  /\ Busy(w) /\ Outcome(w) /\ UNCHANGED <<conn, wake, dest, used>> /\ UNCHANGED Elsewhere
<1> DEFINE e == worker[w].job
           op == effect[e].op
           next == IF worker[w].pc = "reread" THEN "rewrite" ELSE "write"
           call == IF op = "delete" THEN "delete" ELSE "update"
<1>1. Busy(w) /\ UNCHANGED <<conn, wake, dest, used>> /\ UNCHANGED Elsewhere
  BY DEF Lookup, Busy
<1>2. next \in {"lookup", "write", "reread", "rewrite"} /\ call \in Ops
      /\ (call = "delete" <=> op = "delete")
  BY DEF Ops
<1>3. \/ op = "create" /\ Stage(w, next, "create", 0) /\ UNCHANGED <<proj, effect>>
      \/ Succeed(w, 0)
      \/ op \in {"update", "create"} /\ Replace(w)
      \/ HoldAmbiguous(w)
      \/ Stage(w, next, call, Target.rev) /\ UNCHANGED <<proj, effect>>
  BY DEF Lookup
<1> HIDE DEF next, call
<1>4. CASE op = "create" /\ Stage(w, next, "create", 0) /\ UNCHANGED <<proj, effect>>
  <2>1. "create" \in Ops /\ ("create" = "delete" <=> op = "delete")
    BY <1>4 DEF Ops
  <2>2. Goes(w)
    BY <1>1, <1>2, <1>4, <2>1, BusyFacts DEF Goes
  <2> QED BY <1>1, <2>2, BusyFacts DEF Outcome
<1>5. CASE Succeed(w, 0)
  BY <1>1, <1>5, BusyFacts DEF Outcome
<1>6. CASE op \in {"update", "create"} /\ Replace(w)
  BY <1>1, <1>6, BusyFacts DEF Outcome
<1>7. CASE HoldAmbiguous(w)
  BY <1>1, <1>7, BusyFacts DEF Outcome
<1>8. CASE Stage(w, next, call, Target.rev) /\ UNCHANGED <<proj, effect>>
  <2>1. Goes(w)
    BY <1>1, <1>2, <1>8, BusyFacts DEF Goes
  <2> QED BY <1>1, <2>1, BusyFacts DEF Outcome
<1> QED BY <1>3, <1>4, <1>5, <1>6, <1>7, <1>8

\* The provider's answer to a write.
LEMMA WriteOutcome ==
    ASSUME Base, NEW w \in Workers, Write(w)
    PROVE  /\ Busy(w) /\ Outcome(w) /\ UNCHANGED <<conn, wake, used>> /\ UNCHANGED Elsewhere
           /\ dest' = dest \/ dest' = [dest EXCEPT ![proj.gen] = Written(w)]
<1> DEFINE e == worker[w].job
<1>1. Busy(w) /\ UNCHANGED <<conn, wake, used>> /\ UNCHANGED Elsewhere
  BY DEF Write, Writing, Busy
<1>2. dest' = dest \/ dest' = [dest EXCEPT ![proj.gen] = Written(w)]
  BY DEF Write
<1>3. \/ Succeed(w, Target.rev + 1)
      \/ /\ effect[e].op = "update" /\ Stage(w, "reread", "update", 0)
         /\ UNCHANGED <<proj, effect>>
      \/ Fail(w, FALSE, FALSE)
      \/ HoldAmbiguous(w)
  BY DEF Write
<1>4. CASE Succeed(w, Target.rev + 1)
  <2>1. Target.rev + 1 \in Nat
    BY <1>1, BusyFacts
  <2> QED BY <1>1, <1>2, <1>4, <2>1, BusyFacts DEF Outcome
<1>5. CASE effect[e].op = "update" /\ Stage(w, "reread", "update", 0) /\ UNCHANGED <<proj, effect>>
  <2>1. "update" \in Ops /\ ("update" = "delete" <=> effect[e].op = "delete")
    BY <1>5 DEF Ops
  <2>2. Goes(w)
    BY <1>1, <1>5, <2>1, BusyFacts DEF Goes
  <2> QED BY <1>1, <1>2, <2>2, BusyFacts DEF Outcome
<1>6. CASE Fail(w, FALSE, FALSE)
  BY <1>1, <1>2, <1>6, BusyFacts DEF Outcome
<1>7. CASE HoldAmbiguous(w)
  BY <1>1, <1>2, <1>7, BusyFacts DEF Outcome
<1> QED BY <1>3, <1>4, <1>5, <1>6, <1>7

\* Every executor step after taking an effect has one of the outcomes, and changes the
\* destination only by the write that the worker is at.
LEMMA ExecutorIs ==
    ASSUME Base, NEW w \in Workers, Executes(w)
    PROVE  /\ worker[w].job \in Ids /\ Outcome(w) /\ UNCHANGED Elsewhere
           /\ dest' = dest \/ (Busy(w) /\ dest' = [dest EXCEPT ![proj.gen] = Written(w)])
           /\ conn' \in {"on", "source_off", "destination_off"} /\ wake' \in BOOLEAN
           /\ used' = used \/ (used.faults < MaxFaults /\ used' = [used EXCEPT !.faults = @ + 1])
<1>0. conn \in {"on", "source_off", "destination_off"} /\ wake \in BOOLEAN
  BY DEF Base, Shape, TypeOK
<1>1. CASE Begin(w)
  BY <1>0, <1>1, BeginOutcome
<1>2. CASE Lookup(w)
  BY <1>0, <1>2, LookupOutcome, BusyFacts
<1>3. CASE Write(w)
  BY <1>0, <1>3, WriteOutcome, BusyFacts
<1>4. CASE Dies(w)
  <2>1. worker[w].job \in Ids
    BY <1>4 DEF Dies, Base, Shape, Working
  <2>2. Outcome(w)
    BY <1>4 DEF Dies, Outcome
  <2>3. /\ UNCHANGED Elsewhere /\ UNCHANGED <<conn, wake>>
        /\ used.faults < MaxFaults /\ used' = [used EXCEPT !.faults = @ + 1]
        /\ dest' = dest \/ (Writing(w) /\ dest' = [dest EXCEPT ![proj.gen] = Written(w)])
    BY <1>4 DEF Dies
  <2>4. Writing(w) => Busy(w)
    BY DEF Writing, Busy
  <2> QED BY <1>0, <2>1, <2>2, <2>3, <2>4
<1>5. ASSUME NEW kind \in Faults, CallFails(w, kind)
      PROVE  /\ worker[w].job \in Ids /\ Outcome(w) /\ UNCHANGED Elsewhere
             /\ dest' = dest \/ (Busy(w) /\ dest' = [dest EXCEPT ![proj.gen] = Written(w)])
             /\ conn' \in {"on", "source_off", "destination_off"} /\ wake' \in BOOLEAN
             /\ used.faults < MaxFaults /\ used' = [used EXCEPT !.faults = @ + 1]
  <2>1. Busy(w)
    BY <1>5 DEF CallFails, Busy
  <2>2. Fail(w, kind \notin {"rejected", "auth"}, Uncertain(kind))
    BY <1>5 DEF CallFails
  <2>3. (kind \notin {"rejected", "auth"}) \in BOOLEAN /\ Uncertain(kind) \in BOOLEAN
    BY DEF Uncertain
  <2>4. Outcome(w)
    <3> DEFINE retryable == kind \notin {"rejected", "auth"}
               ambiguous == Uncertain(kind)
    <3>1. retryable \in BOOLEAN /\ ambiguous \in BOOLEAN /\ Fail(w, retryable, ambiguous)
      BY <2>2, <2>3
    <3> HIDE DEF retryable, ambiguous
    <3> QED BY <2>1, <3>1, BusyFacts DEF Outcome
  <2>5. /\ dest' \in {dest, [dest EXCEPT ![proj.gen] = Written(w)]}
        /\ conn' \in {conn, "destination_off"} /\ wake' = wake /\ UNCHANGED Elsewhere
        /\ used.faults < MaxFaults /\ used' = [used EXCEPT !.faults = @ + 1]
    BY <1>5 DEF CallFails
  <2> QED BY <1>0, <2>1, <2>4, <2>5, BusyFacts
<1> QED BY <1>1, <1>2, <1>3, <1>4, <1>5 DEF Executes

-----------------------------------------------------------------------------
(* The first two layers: the shape of the state, and one transaction at a  *)
(* time.                                                                   *)

\* The rows after a step: of their type, every lease counted.
Rows == proj' \in Projection /\ effect' \in [Ids -> Effect] /\ Counted'

\* Finishing an effect and adding one keep the rows in order.
LEMMA FinishRows ==
    ASSUME Shape, NEW e \in Ids
    PROVE  /\ Finish(effect, e) \in [Ids -> Effect]
           /\ \A x \in Ids : Finish(effect, e)[x].state = "leased" => Finish(effect, e)[x].tries >= 1
<1>1. effect \in [Ids -> Effect]
  BY DEF Shape, TypeOK
<1> DEFINE fx == Finish(effect, e)
<1>2. fx \in [Ids -> Effect] /\ fx[e] = NoEffect /\ \A x \in Ids \ {e} : Same(fx[x], effect[x])
  BY <1>1, FinishIs
<1>3. NoEffect.state # "leased"
  BY DEF NoEffect
<1> HIDE DEF fx
<1>4. \A x \in Ids : fx[x].state = "leased" => fx[x].tries >= 1
  BY <1>2, <1>3 DEF Same, Shape, Counted
<1> QED BY <1>2, <1>4 DEF fx

\* See FinishRows.
LEMMA AddedRows ==
    ASSUME NEW fx \in [Ids -> Effect], \A x \in Ids : fx[x].state = "leased" => fx[x].tries >= 1,
           NEW op, NEW basis, NEW want, Added(fx, effect', op, basis, want)
    PROVE  effect' \in [Ids -> Effect] /\ Counted'
<1>1. PICK i \in Free(fx) :
         effect'[i].state = "pending" /\ \A x \in Ids \ {i} : Same(effect'[x], fx[x])
  BY DEF Added
<1>2. Counted'
  BY <1>1 DEF Counted, Same
<1> QED BY <1>2 DEF Added

\* The outcomes of an executor's step.
LEMMA OutcomeRows ==
    ASSUME Base, NEW w \in Workers, worker[w].job \in Ids, Outcome(w)
    PROVE  Rows /\ worker' \in [Workers -> Worker] /\ Working'
<1> DEFINE e == worker[w].job
<1>0. Shape /\ TypeOK /\ Working /\ Counted /\ proj \in Projection /\ effect \in [Ids -> Effect]
  BY DEF Base, Shape, TypeOK
<1>1. ASSUME Release(w)
      PROVE  worker' \in [Workers -> Worker] /\ Working'
  <2>1. worker' \in [Workers -> Worker] /\ worker'[w] = Rest
        /\ \A v \in Workers \ {w} : worker'[v] = worker[v]
    BY <1>0, <1>1, ReleaseIs
  <2> QED BY <1>0, <2>1 DEF Working, Rest
<1>2. ASSUME effect' \in [Ids -> Effect], effect'[e].state # "leased",
             \A x \in Ids \ {e} : effect'[x] = effect[x]
      PROVE  Counted'
  BY <1>0, <1>2 DEF Counted
<1>3. CASE Release(w) /\ UNCHANGED <<proj, effect>>
  BY <1>0, <1>1, <1>3 DEF Rows, Counted
<1>4. CASE Holder(w) /\ Defer(w)
  <2>1. /\ effect' \in [Ids -> Effect] /\ effect'[e].state = "retry"
        /\ \A x \in Ids \ {e} : effect'[x] = effect[x]
    BY <1>0, <1>4, DeferIs
  <2>2. Release(w) /\ proj' = proj
    BY <1>4 DEF Defer
  <2>3. Counted'
    BY <1>2, <2>1
  <2> QED BY <1>0, <1>1, <2>1, <2>2, <2>3 DEF Rows
<1>5. ASSUME NEW retryable, NEW ambiguous, Fail(w, retryable, ambiguous)
      PROVE  Rows /\ worker' \in [Workers -> Worker] /\ Working'
  <2>1. /\ effect' \in [Ids -> Effect] /\ effect'[e].state \in {"dead", "retry"}
        /\ \A x \in Ids \ {e} : effect'[x] = effect[x]
        /\ proj' \in Projection /\ Release(w)
    BY <1>0, <1>5, FailIs
  <2>2. Counted'
    BY <1>2, <2>1
  <2> QED BY <1>1, <2>1, <2>2 DEF Rows
<1>6. ASSUME effect' = Finish(effect, e)
      PROVE  effect' \in [Ids -> Effect] /\ Counted'
  BY <1>0, <1>6, FinishRows DEF Counted
<1>7. CASE Supersede(w)
  <2>1. effect' = Finish(effect, e) /\ proj' \in Projection
    BY <1>0, <1>7, SupersedeIs
  <2>2. Release(w)
    BY <1>7 DEF Supersede
  <2> QED BY <1>1, <1>6, <2>1, <2>2 DEF Rows
<1>8. CASE HoldAmbiguous(w)
  <2>1. /\ effect' \in [Ids -> Effect] /\ effect'[e].state = "dead"
        /\ \A x \in Ids \ {e} : effect'[x] = effect[x]
        /\ proj' \in Projection /\ Release(w)
    BY <1>0, <1>8, HoldAmbiguousIs
  <2>2. Counted'
    BY <1>2, <2>1
  <2> QED BY <1>1, <2>1, <2>2 DEF Rows
<1>9. ASSUME NEW rev \in Nat, Succeed(w, rev)
      PROVE  Rows /\ worker' \in [Workers -> Worker] /\ Working'
  <2>1. effect' = Finish(effect, e) /\ proj' \in Projection /\ Release(w)
    BY <1>0, <1>9, SucceedIs
  <2> QED BY <1>1, <1>6, <2>1 DEF Rows
<1>10. CASE Replace(w)
  <2>1. CASE effect' = Finish(effect, e) /\ proj' = proj /\ Release(w)
    BY <1>0, <1>1, <1>6, <2>1 DEF Rows
  <2>2. CASE Fail(w, FALSE, FALSE)
    BY <1>5, <2>2
  <2>3. CASE /\ Added(Finish(effect, e), effect', "create", effect[e].basis, proj'.want)
             /\ proj' \in Projection /\ Release(w)
    <3>1. effect' \in [Ids -> Effect] /\ Counted'
      BY <1>0, <2>3, FinishRows, AddedRows
    <3> QED BY <1>1, <2>3, <3>1 DEF Rows
  <2> QED BY <1>0, <1>10, <2>1, <2>2, <2>3, ReplaceIs
<1>11. CASE Goes(w)
  <2>1. PICK pc \in {"lookup", "write", "reread", "rewrite"}, call \in Ops, rev \in Nat :
           Stage(w, pc, call, rev)
    BY <1>11 DEF Goes
  <2>2. /\ worker' \in [Workers -> Worker] /\ worker'[w].job = e
        /\ \A v \in Workers \ {w} : worker'[v] = worker[v]
    BY <1>0, <2>1, StageIs
  <2>3. Working'
    BY <1>0, <2>2 DEF Working
  <2>4. proj' = proj /\ effect' = effect
    BY <1>11 DEF Goes
  <2> QED BY <1>0, <2>2, <2>3, <2>4 DEF Rows, Counted
<1> QED BY <1>3, <1>4, <1>5, <1>7, <1>8, <1>9, <1>10, <1>11 DEF Outcome

\* The transaction of a reconcile pass.
LEMMA CommitRows ==
    ASSUME Base, NEW r \in Reconcilers, Commit(r)
    PROVE  Rows
<1>0. /\ Shape /\ TypeOK /\ Counted /\ proj \in Projection /\ effect \in [Ids -> Effect]
      /\ recon[r].version \in Versions
  BY DEF Base, Shape, TypeOK, Reading, Commit
<1>1. CASE RefreshEvidence(r)
  <2>1. proj' \in Projection /\ effect' = effect
    BY <1>0, <1>1, RefreshIs
  <2> QED BY <1>0, <2>1 DEF Rows, Counted
<1>2. CASE Intend(r)
  <2>1. proj' \in Projection
    BY <1>0, <1>2, IntendIs
  <2>2. \/ effect' = effect
        \/ \E op, want : Added(effect, effect', op, recon[r].version, want)
    BY <1>0, <1>2, IntendIs
  <2>3. CASE effect' = effect
    BY <1>0, <2>1, <2>3 DEF Rows, Counted
  <2>4. ASSUME NEW op, NEW want, Added(effect, effect', op, recon[r].version, want)
        PROVE  Rows
    <3>1. \A x \in Ids : effect[x].state = "leased" => effect[x].tries >= 1
      BY <1>0 DEF Counted
    <3>2. effect' \in [Ids -> Effect] /\ Counted'
      BY <1>0, <2>4, <3>1, AddedRows
    <3> QED BY <2>1, <3>2 DEF Rows
  <2> QED BY <2>2, <2>3, <2>4
<1>3. CASE Ignore(r)
  BY <1>0, <1>3 DEF Ignore, Rows, Counted
<1> QED BY <1>1, <1>2, <1>3 DEF Commit

\* The verifier's transaction.
LEMMA SettleRows ==
    ASSUME Base, Settle
    PROVE  Rows /\ notice' \in {"none", "unread", "acknowledged", "resolved"}
<1>0. /\ Shape /\ TypeOK /\ Counted /\ proj \in Projection /\ effect \in [Ids -> Effect]
      /\ notice \in {"none", "unread", "acknowledged", "resolved"}
  BY DEF Base, Shape, TypeOK
<1>1. CASE UNCHANGED <<proj, effect, notice>>
  BY <1>0, <1>1 DEF Rows, Counted
<1>2. CASE HoldForeign
  <2>1. proj' \in Projection /\ effect' = effect /\ notice' = notice
    BY <1>0, <1>2, HoldForeignIs
  <2> QED BY <1>0, <2>1 DEF Rows, Counted
<1>3. CASE HoldEdit
  <2>1. proj' \in Projection /\ effect' = effect /\ notice' = "unread"
    BY <1>0, <1>3, HoldEditIs
  <2> QED BY <1>0, <2>1 DEF Rows, Counted
<1>4. CASE Repair
  <2>1. proj' \in Projection /\ notice' = notice
        /\ \E op \in {"create", "update"} : Added(effect, effect', op, check.basis, proj'.want)
    BY <1>0, <1>4, RepairIs
  <2>2. \A x \in Ids : effect[x].state = "leased" => effect[x].tries >= 1
    BY <1>0 DEF Counted
  <2>3. effect' \in [Ids -> Effect] /\ Counted'
    BY <1>0, <2>1, <2>2, AddedRows
  <2> QED BY <1>0, <2>1, <2>3 DEF Rows
<1> QED BY <1>0, <1>1, <1>2, <1>3, <1>4, SettleIs

\* A person's retry.
LEMMA RetryRows ==
    ASSUME Base, RetryBlocked
    PROVE  Rows /\ wake' \in BOOLEAN
<1>0. /\ Shape /\ TypeOK /\ Counted /\ proj \in Projection /\ effect \in [Ids -> Effect]
      /\ wake \in BOOLEAN /\ \A x \in Ids : effect[x].state = "leased" => effect[x].tries >= 1
  BY DEF Base, Shape, TypeOK, Counted
<1>1. ASSUME NEW d \in Ids, RetryDead(d)
      PROVE  Rows /\ wake' \in BOOLEAN
  <2>1. CASE Replayable(d)
    <3>1. /\ effect' = [effect EXCEPT ![d] = [@ EXCEPT !.state = "retry", !.tries = 0,
                                                       !.mode = "ambiguous"]]
          /\ proj' = [proj EXCEPT !.rec = "none", !.status = "retrying", !.code = "none"]
          /\ wake' = wake
      BY <1>1, <2>1 DEF RetryDead
    <3>2. /\ effect' \in [Ids -> Effect] /\ effect'[d].state = "retry"
          /\ \A x \in Ids \ {d} : effect'[x] = effect[x]
          /\ proj' \in Projection
      BY <1>0, <2>1, <3>1, ReplayIs
    <3>3. Counted'
      BY <1>0, <3>2 DEF Counted
    <3> QED BY <1>0, <3>1, <3>2, <3>3 DEF Rows
  <2>2. CASE proj.rec # "none" /\ Recover(Finish(effect, d)) /\ UNCHANGED wake
    <3> DEFINE fx == Finish(effect, d)
    <3>1. fx \in [Ids -> Effect] /\ \A x \in Ids : fx[x].state = "leased" => fx[x].tries >= 1
      BY <1>0, FinishRows
    <3> HIDE DEF fx
    <3>2. Added(fx, effect', proj.rec, proj.basis, proj.want) /\ proj' \in Projection
      BY <1>0, <2>2, <3>1, RecoverIs DEF fx
    <3>3. effect' \in [Ids -> Effect] /\ Counted'
      BY <3>1, <3>2, AddedRows
    <3> QED BY <1>0, <2>2, <3>2, <3>3 DEF Rows
  <2>3. CASE Reconsider("failed") /\ effect' = Finish(effect, d)
    <3>1. proj' \in Projection /\ wake' = TRUE
      BY <1>0, <2>3, ReconsiderIs
    <3>2. effect' \in [Ids -> Effect] /\ Counted'
      BY <1>0, <2>3, FinishRows DEF Counted
    <3> QED BY <3>1, <3>2 DEF Rows
  <2> QED BY <1>1, <2>1, <2>2, <2>3 DEF RetryDead
<1>2. CASE RetryHold
  <2>1. CASE proj.rec # "none" /\ Recover(effect) /\ UNCHANGED wake
    <3>1. Added(effect, effect', proj.rec, proj.basis, proj.want) /\ proj' \in Projection
      BY <1>0, <2>1, RecoverIs
    <3>2. effect' \in [Ids -> Effect] /\ Counted'
      BY <1>0, <3>1, AddedRows
    <3> QED BY <1>0, <2>1, <3>1, <3>2 DEF Rows
  <2>2. CASE Reconsider("held") /\ UNCHANGED effect
    <3>1. proj' \in Projection /\ wake' = TRUE
      BY <1>0, <2>2, ReconsiderIs
    <3> QED BY <1>0, <2>2, <3>1 DEF Rows, Counted
  <2> QED BY <1>2, <2>1, <2>2 DEF RetryHold
<1> QED BY <1>1, <1>2 DEF RetryBlocked

\* A person's decision about a held edit.
LEMMA DecisionRows ==
    ASSUME Base, Keep \/ Restore
    PROVE  Rows
<1>0. /\ TypeOK /\ proj \in Projection /\ effect \in [Ids -> Effect] /\ Counted
      /\ \A x \in Ids : effect[x].state = "leased" => effect[x].tries >= 1
  BY DEF Base, Shape, TypeOK, Counted
<1>1. CASE Keep
  <2>1. effect' = effect /\ proj' = [proj EXCEPT !.own = "detached", !.status = "converged",
                                                 !.rec = "none", !.code = "none"]
    BY <1>1 DEF Keep
  <2>2. proj' \in Projection
    BY <1>0, <2>1 DEF Projection
  <2> QED BY <1>0, <2>1, <2>2 DEF Rows, Counted
<1>2. CASE Restore
  <2>1. proj.rec # "none" /\ Recover(effect)
    BY <1>2 DEF Restore
  <2>2. Added(effect, effect', proj.rec, proj.basis, proj.want) /\ proj' \in Projection
    BY <1>0, <2>1, RecoverIs
  <2>3. effect' \in [Ids -> Effect] /\ Counted'
    BY <1>0, <2>2, AddedRows
  <2> QED BY <2>2, <2>3 DEF Rows
<1> QED BY <1>1, <1>2

\* Every spent fault, touch, pause and outage stays within its bound.
LEMMA Spending ==
    ASSUME TypeOK,
           \/ used' = used
           \/ used.faults < MaxFaults /\ used' = [used EXCEPT !.faults = @ + 1]
           \/ used.touches < MaxTouches /\ used' = [used EXCEPT !.touches = @ + 1]
           \/ used.pauses < MaxPauses /\ used' = [used EXCEPT !.pauses = @ + 1]
           \/ used.outages < MaxOutages /\ used' = [used EXCEPT !.outages = @ + 1]
    PROVE  used' \in [faults : 0..MaxFaults, touches : 0..MaxTouches,
                      pauses : 0..MaxPauses, outages : 0..MaxOutages]
<1>1. used \in [faults : 0..MaxFaults, touches : 0..MaxTouches,
                pauses : 0..MaxPauses, outages : 0..MaxOutages]
  BY DEF TypeOK
<1>2. /\ used.faults < MaxFaults => used.faults + 1 \in 0..MaxFaults
      /\ used.touches < MaxTouches => used.touches + 1 \in 0..MaxTouches
      /\ used.pauses < MaxPauses => used.pauses + 1 \in 0..MaxPauses
      /\ used.outages < MaxOutages => used.outages + 1 \in 0..MaxOutages
  <2>1. \A m \in Nat : \A n \in 0..m : n < m => n + 1 \in 0..m
    OBVIOUS
  <2>2. /\ used.faults \in 0..MaxFaults /\ used.touches \in 0..MaxTouches
        /\ used.pauses \in 0..MaxPauses /\ used.outages \in 0..MaxOutages
    BY <1>1
  <2>3. MaxFaults \in Nat /\ MaxTouches \in Nat /\ MaxPauses \in Nat /\ MaxOutages \in Nat
    BY CopyAssumption
  <2> QED BY <2>1, <2>2, <2>3
<1> QED BY <1>1, <1>2

\* The verifier's local state.
LEMMA CheckTyped ==
    ASSUME TypeOK, Load \/ Look
    PROVE  check' \in Check
<1>0. check \in Check /\ proj \in Projection /\ dest \in [Gens -> Event]
  BY DEF TypeOK
<1>1. CASE Load
  <2>1. proj.gen \in Gens /\ proj.etag \in Nat /\ proj.want \in Desired
        /\ proj.basis \in Versions \cup {0}
    BY <1>0 DEF Projection
  <2>2. check' = [NoCheck EXCEPT !.pc = "loaded", !.gen = proj.gen, !.etag = proj.etag,
                                 !.want = proj.want, !.basis = proj.basis]
    BY <1>1 DEF Load
  <2> QED BY <2>1, <2>2, ConstantRows DEF Check
<1>2. CASE Look
  <2>1. check.gen \in Gens
    BY <1>0 DEF Check
  <2>2. dest[check.gen].rev \in Nat
    BY <1>0, <2>1 DEF Event
  <2>3. \/ check' = NoCheck
        \/ \E s \in Sights :
              check' = [check EXCEPT !.pc = "seen", !.sight = s, !.rev = dest[check.gen].rev]
    BY <1>2 DEF Look, Sights
  <2>4. ASSUME NEW s \in Sights,
               check' = [check EXCEPT !.pc = "seen", !.sight = s, !.rev = dest[check.gen].rev]
        PROVE  check' \in Check
    BY <1>0, <2>2, <2>4 DEF Check
  <2> QED BY <2>3, <2>4, ConstantRows
<1> QED BY <1>1, <1>2

\* Every step of the system keeps the shape of the state.
LEMMA NextShape ==
    ASSUME Base, [Next]_vars
    PROVE  Shape'
<1>0. /\ Shape /\ TypeOK /\ Working /\ Reading /\ Counted
      /\ source \in [version : Versions, horizon : {"inside", "outside"}]
      /\ policy \in {"active", "paused"} /\ conn \in {"on", "source_off", "destination_off"}
      /\ wake \in BOOLEAN /\ proj \in Projection /\ effect \in [Ids -> Effect]
      /\ dest \in [Gens -> Event] /\ worker \in [Workers -> Worker]
      /\ recon \in [Reconcilers -> Pass] /\ check \in Check
      /\ notice \in {"none", "unread", "acknowledged", "resolved"}
  BY DEF Base, Shape, TypeOK
<1>1. ASSUME NEW r \in Reconcilers, Read(r) PROVE Shape'
  <2>1. /\ recon' \in [Reconcilers -> Pass] /\ Reading'
        /\ wake' \in BOOLEAN
    <3>1. source.version \in Versions /\ Queued(effect) \in SUBSET Ids
      BY <1>0 DEF Queued
    <3> DEFINE new == [pc |-> "read", version |-> source.version, mark |-> Queued(effect)]
    <3>2. new \in Pass /\ new.version \in Versions
      BY <3>1 DEF Pass
    <3>3. wake' = FALSE /\ (recon' = recon \/ recon' = [recon EXCEPT ![r] = new])
      BY <1>1 DEF Read
    <3> HIDE DEF new
    <3> QED BY <1>0, <3>2, <3>3 DEF Reading
  <2>2. UNCHANGED <<source, policy, conn, proj, effect, dest, worker, check, notice, used>>
    BY <1>1 DEF Read
  <2> QED BY <1>0, <2>1, <2>2 DEF Shape, TypeOK, Working, Counted
<1>2. ASSUME NEW r \in Reconcilers, recon' = [recon EXCEPT ![r] = NoPass]
      PROVE  recon' \in [Reconcilers -> Pass] /\ Reading'
  BY <1>0, <1>2, ConstantRows DEF Reading, NoPass
<1>3. ASSUME NEW r \in Reconcilers, Commit(r) PROVE Shape'
  <2>1. Rows
    BY <1>3, CommitRows
  <2>2. /\ recon' = [recon EXCEPT ![r] = NoPass]
        /\ UNCHANGED <<source, policy, conn, wake, dest, worker, check, notice, used>>
    BY <1>3 DEF Commit
  <2>3. recon' \in [Reconcilers -> Pass] /\ Reading'
    BY <1>2, <2>2
  <2> QED BY <1>0, <2>1, <2>2, <2>3 DEF Shape, TypeOK, Working, Rows
<1>4. ASSUME NEW r \in Reconcilers, PassDies(r) PROVE Shape'
  <2>1. /\ recon' = [recon EXCEPT ![r] = NoPass] /\ wake' = TRUE
        /\ used.faults < MaxFaults /\ used' = [used EXCEPT !.faults = @ + 1]
        /\ UNCHANGED <<source, policy, conn, proj, effect, dest, worker, check, notice>>
    BY <1>4 DEF PassDies
  <2>2. recon' \in [Reconcilers -> Pass] /\ Reading'
    BY <1>2, <2>1
  <2> QED BY <1>0, <2>1, <2>2, Spending DEF Shape, TypeOK, Working, Counted
<1>5. ASSUME NEW w \in Workers, NEW e \in Ids, Lease(w, e) PROVE Shape'
  <2>1. /\ effect' \in [Ids -> Effect] /\ effect'[e].tries >= 1
        /\ \A x \in Ids \ {e} : effect'[x] = effect[x]
        /\ worker' \in [Workers -> Worker] /\ worker'[w].job = e
        /\ \A v \in Workers \ {w} : worker'[v] = worker[v]
    BY <1>0, <1>5, LeaseIs
  <2>2. /\ UNCHANGED <<conn, wake, proj, dest, source, policy, recon, check, notice>>
        /\ used' = used \/ (used.faults < MaxFaults /\ used' = [used EXCEPT !.faults = @ + 1])
    BY <1>5 DEF Lease, Elsewhere
  <2>3. Counted' /\ Working' /\ Reading'
    BY <1>0, <2>1, <2>2 DEF Counted, Working, Reading
  <2> QED BY <1>0, <2>1, <2>2, <2>3, Spending DEF Shape, TypeOK
<1>6. ASSUME NEW w \in Workers, Executes(w) PROVE Shape'
  <2>1. Rows /\ worker' \in [Workers -> Worker] /\ Working'
    BY <1>6, ExecutorIs, OutcomeRows
  <2>2. dest' \in [Gens -> Event]
    BY <1>0, <1>6, ExecutorIs, WrittenIs
  <2>3. used' \in [faults : 0..MaxFaults, touches : 0..MaxTouches,
                   pauses : 0..MaxPauses, outages : 0..MaxOutages]
    BY <1>0, <1>6, ExecutorIs, Spending
  <2>4. /\ conn' \in {"on", "source_off", "destination_off"} /\ wake' \in BOOLEAN
        /\ UNCHANGED <<source, policy, recon, check, notice>>
    BY <1>6, ExecutorIs DEF Elsewhere
  <2>5. Reading'
    BY <1>0, <2>4 DEF Reading
  <2> QED BY <1>0, <2>1, <2>2, <2>3, <2>4, <2>5 DEF Shape, TypeOK, Rows
<1>7. CASE Load \/ Look
  <2>1. check' \in Check
    BY <1>0, <1>7, CheckTyped
  <2>2. UNCHANGED <<source, policy, conn, wake, proj, effect, dest, worker, recon, notice, used>>
    BY <1>7 DEF Load, Look
  <2> QED BY <1>0, <2>1, <2>2 DEF Shape, TypeOK, Working, Reading, Counted
<1>8. CASE Settle
  <2>1. Rows /\ notice' \in {"none", "unread", "acknowledged", "resolved"}
    BY <1>8, SettleRows
  <2>2. check' = NoCheck /\ UNCHANGED <<source, policy, conn, wake, dest, worker, recon, used>>
    BY <1>8 DEF Settle
  <2> QED BY <1>0, <2>1, <2>2, ConstantRows DEF Shape, TypeOK, Working, Reading, Rows
<1>9. ASSUME NEW kind \in Faults, LookFails(kind) PROVE Shape'
  <2>1. /\ check' = NoCheck /\ conn' \in {conn, "destination_off"}
        /\ used.faults < MaxFaults /\ used' = [used EXCEPT !.faults = @ + 1]
        /\ UNCHANGED <<source, policy, wake, proj, effect, dest, worker, recon, notice>>
    BY <1>9 DEF LookFails
  <2> QED BY <1>0, <2>1, ConstantRows, Spending DEF Shape, TypeOK, Working, Reading, Counted
<1>10. CASE Machine
  BY <1>1, <1>3, <1>4, <1>5, <1>6, <1>7, <1>8, <1>9, <1>10 DEF Machine, Execute, Executes
<1>11. CASE Pause \/ Resume \/ Acknowledge
  <2>1. /\ UNCHANGED <<source, conn, proj, effect, dest, worker, recon, check>>
        /\ policy' \in {"active", "paused"} /\ wake' \in BOOLEAN
        /\ notice' \in {"none", "unread", "acknowledged", "resolved"}
        /\ used' = used \/ (used.pauses < MaxPauses /\ used' = [used EXCEPT !.pauses = @ + 1])
    BY <1>0, <1>11 DEF Pause, Resume, Acknowledge
  <2> QED BY <1>0, <2>1, Spending DEF Shape, TypeOK, Working, Reading, Counted
<1>12. CASE RetryBlocked
  <2>1. Rows /\ wake' \in BOOLEAN
    BY <1>12, RetryRows
  <2>2. UNCHANGED <<source, policy, conn, dest, worker, recon, check, notice, used>>
    BY <1>12 DEF RetryBlocked
  <2> QED BY <1>0, <2>1, <2>2 DEF Shape, TypeOK, Working, Reading, Rows
<1>13. CASE Keep \/ Restore
  <2>1. Rows
    BY <1>13, DecisionRows
  <2>2. /\ notice' = "resolved"
        /\ UNCHANGED <<source, policy, conn, wake, dest, worker, recon, check, used>>
    BY <1>13 DEF Keep, Restore
  <2> QED BY <1>0, <2>1, <2>2 DEF Shape, TypeOK, Working, Reading, Rows
<1>14. CASE SourceChanges \/ AgesOut
  <2>1. source' \in [version : Versions, horizon : {"inside", "outside"}]
    <3>1. source.version < MaxVersion => source.version + 1 \in Versions
      BY <1>0, CopyAssumption DEF Versions
    <3>2. CASE SourceChanges
      BY <1>0, <3>1, <3>2 DEF SourceChanges
    <3>3. CASE AgesOut
      BY <1>0, <3>3 DEF AgesOut
    <3> QED BY <1>14, <3>2, <3>3
  <2>2. UNCHANGED <<policy, conn, wake, proj, effect, dest, worker, recon, check, notice, used>>
    BY <1>14 DEF SourceChanges, AgesOut
  <2> QED BY <1>0, <2>1, <2>2 DEF Shape, TypeOK, Working, Reading, Counted
<1>15. CASE Touch
  <2>1. dest' \in [Gens -> Event]
    <3>1. PICK g \in Gens :
            \/ dest' = [dest EXCEPT ![g] = [dest[g] EXCEPT !.body = "edited", !.rev = dest[g].rev + 1]]
            \/ dest' = [dest EXCEPT ![g] = [dest[g] EXCEPT !.st = "gone"]]
            \/ dest' = [dest EXCEPT ![g] = [dest[g] EXCEPT !.body = "edited", !.mark = 0,
                                                           !.rev = dest[g].rev + 1]]
      BY <1>0, <1>15 DEF Touch
    <3>2. dest[g] \in Event /\ dest[g].rev + 1 \in Nat
      BY <1>0 DEF Event
    <3>3. /\ [dest[g] EXCEPT !.body = "edited", !.rev = dest[g].rev + 1] \in Event
          /\ [dest[g] EXCEPT !.st = "gone"] \in Event
          /\ [dest[g] EXCEPT !.body = "edited", !.mark = 0, !.rev = dest[g].rev + 1] \in Event
      BY <3>2 DEF Event
    <3> QED BY <1>0, <3>1, <3>3
  <2>2. /\ UNCHANGED <<source, policy, conn, wake, proj, effect, worker, recon, check, notice>>
        /\ used.touches < MaxTouches /\ used' = [used EXCEPT !.touches = @ + 1]
    BY <1>15 DEF Touch
  <2> QED BY <1>0, <2>1, <2>2, Spending DEF Shape, TypeOK, Working, Reading, Counted
<1>16. CASE Wakeup \/ Outage \/ Reconnect
  <2>1. /\ UNCHANGED <<source, policy, proj, effect, dest, worker, recon, check, notice>>
        /\ wake' \in BOOLEAN /\ conn' \in {"on", "source_off", "destination_off"}
        /\ used' = used \/ (used.outages < MaxOutages /\ used' = [used EXCEPT !.outages = @ + 1])
    BY <1>0, <1>16 DEF Wakeup, Outage, Reconnect
  <2> QED BY <1>0, <2>1, Spending DEF Shape, TypeOK, Working, Reading, Counted
<1>17. CASE UNCHANGED vars
  BY <1>0, <1>17, Spending DEF vars, Shape, TypeOK, Working, Reading, Counted
<1> QED BY <1>10, <1>11, <1>12, <1>13, <1>14, <1>15, <1>16, <1>17
        DEF Next, Person, Surroundings

\* An executor's outcome leaves no other transaction under way.
LEMMA OutcomeExclusive ==
    ASSUME Base, NEW w \in Workers, worker[w].job \in Ids, Outcome(w), UNCHANGED <<source, policy>>
    PROVE  Exclusive'
<1>0. Shape /\ TypeOK /\ Exclusive
  BY DEF Base, Shape
<1>1. ASSUME Release(w), \A v \in Workers : Busy(v) => v = w
      PROVE  Exclusive'
  <2>1. worker'[w] = Rest /\ \A v \in Workers \ {w} : worker'[v] = worker[v]
    BY <1>0, <1>1, ReleaseIs
  <2>2. \A v \in Workers : ~Busy(v)'
    BY <1>1, <2>1 DEF Busy, Rest
  <2> QED BY <2>2 DEF Exclusive
<1>2. CASE Release(w) /\ UNCHANGED <<proj, effect>>
  <2>1. worker'[w] = Rest /\ \A v \in Workers \ {w} : worker'[v] = worker[v]
    BY <1>0, <1>2, ReleaseIs
  <2>2. ASSUME NEW v \in Workers, Busy(v)'
        PROVE  Transaction(v)'
    <3>1. v # w /\ worker'[v] = worker[v] /\ Busy(v)
      BY <2>1, <2>2 DEF Busy, Rest
    <3>2. Transaction(v)
      BY <1>0, <3>1 DEF Exclusive
    <3>3. \A u \in Workers : Busy(u)' => u = v
      BY <2>1, <3>2 DEF Transaction, Busy, Rest
    <3> QED BY <1>2, <3>1, <3>2, <3>3 DEF Transaction, Holder, CurrentBasis
  <2> QED BY <2>2 DEF Exclusive
<1>3. CASE Holder(w) /\ Goes(w) /\ \A v \in Workers : Busy(v) => v = w
  <2>1. PICK pc \in {"lookup", "write", "reread", "rewrite"}, call \in Ops, rev \in Nat :
           Stage(w, pc, call, rev) /\ (call = "delete" <=> effect[worker[w].job].op = "delete")
    BY <1>3 DEF Goes
  <2>2. /\ worker'[w].call = call /\ worker'[w].job = worker[w].job
        /\ \A v \in Workers \ {w} : worker'[v] = worker[v]
    BY <1>0, <2>1, StageIs
  <2>3. policy = "active" /\ CurrentBasis(worker[w].job) /\ UNCHANGED <<proj, effect>>
    BY <1>3 DEF Goes
  <2>4. \A v \in Workers : Busy(v)' => v = w
    BY <1>3, <2>2 DEF Busy
  <2>5. Transaction(w)'
    BY <1>3, <2>1, <2>2, <2>3, <2>4 DEF Transaction, Holder, CurrentBasis
  <2> QED BY <2>4, <2>5 DEF Exclusive
<1>4. ASSUME \/ Defer(w) \/ Supersede(w) \/ HoldAmbiguous(w) \/ Replace(w)
             \/ \E retryable, ambiguous \in BOOLEAN : Fail(w, retryable, ambiguous)
             \/ \E rev \in Nat : Succeed(w, rev)
      PROVE  Release(w)
  BY <1>4 DEF Defer, Supersede, HoldAmbiguous, Replace, Fail, Succeed
<1> QED BY <1>1, <1>2, <1>3, <1>4 DEF Outcome

\* Every step keeps to one transaction at a time.
LEMMA NextExclusive ==
    ASSUME Base, [Next]_vars
    PROVE  Exclusive'
<1>0. Shape /\ TypeOK /\ Exclusive
  BY DEF Base, Shape
<1>1. ASSUME ~Locked, worker' = worker
      PROVE  Exclusive'
  BY <1>1, Unlocked DEF Exclusive, Busy
<1>2. ASSUME UNCHANGED <<policy, proj, effect, worker>>, source'.version = source.version
      PROVE  Exclusive'
  BY <1>0, <1>2 DEF Exclusive, Busy, Transaction, Holder, CurrentBasis
<1>3. ASSUME NEW r \in Reconcilers, Read(r) \/ Commit(r) \/ PassDies(r) PROVE Exclusive'
  BY <1>1, <1>2, <1>3 DEF Read, Commit, PassDies
<1>4. ASSUME NEW w \in Workers, NEW e \in Ids, Lease(w, e) PROVE Exclusive'
  <2>1. /\ worker'[w].pc = "leased" /\ \A v \in Workers \ {w} : worker'[v] = worker[v]
        /\ ~Locked
    BY <1>0, <1>4, LeaseIs DEF Lease
  <2>2. \A v \in Workers : ~Busy(v)'
    BY <2>1, Unlocked DEF Busy
  <2> QED BY <2>2 DEF Exclusive
<1>5. ASSUME NEW w \in Workers, Executes(w) PROVE Exclusive'
  <2>1. UNCHANGED <<source, policy>>
    BY <1>5, ExecutorIs DEF Elsewhere
  <2> QED BY <1>5, <2>1, ExecutorIs, OutcomeExclusive
<1>6. CASE Load \/ Look \/ Settle \/ \E kind \in Faults : LookFails(kind)
  BY <1>1, <1>2, <1>6 DEF Load, Look, Settle, LookFails
<1>7. CASE Machine
  BY <1>3, <1>4, <1>5, <1>6, <1>7 DEF Machine, Execute, Executes
<1>8. CASE Resume
  <2>1. \A w \in Workers : ~Busy(w)
    BY <1>0, <1>8 DEF Resume, Exclusive, Transaction
  <2> QED BY <1>8, <2>1 DEF Resume, Exclusive, Busy
<1>9. CASE Person
  BY <1>1, <1>2, <1>8, <1>9 DEF Person, Pause, RetryBlocked, Acknowledge, Keep, Restore
<1>10. CASE Surroundings
  <2>1. CASE AgesOut
    <3>1. source'.version = source.version
      BY <1>0, <2>1 DEF AgesOut, TypeOK
    <3> QED BY <1>2, <2>1, <3>1 DEF AgesOut
  <2> QED BY <1>1, <1>2, <1>10, <2>1
          DEF Surroundings, SourceChanges, Wakeup, Touch, Outage, Reconnect
<1>11. CASE UNCHANGED vars
  BY <1>2, <1>11 DEF vars
<1> QED BY <1>7, <1>9, <1>10, <1>11 DEF Next

\* Both layers hold at the start.
LEMMA InitBase == Init => Base
<1> SUFFICES ASSUME Init PROVE Base
  OBVIOUS
<1>1. source \in [version : Versions, horizon : {"inside", "outside"}]
  BY CopyAssumption DEF Init, Versions
<1>2. used \in [faults : 0..MaxFaults, touches : 0..MaxTouches,
                pauses : 0..MaxPauses, outages : 0..MaxOutages]
  BY CopyAssumption DEF Init
<1>3. TypeOK
  BY <1>1, <1>2, ConstantRows DEF Init, TypeOK
<1>4. Working /\ Reading /\ Counted /\ Exclusive
  BY DEF Init, Working, Reading, Counted, Exclusive, Busy, Rest, NoPass, NoEffect
<1> QED BY <1>3, <1>4 DEF Base, Shape

\* The rows keep their shape, and at most one executor is between its checks and its
\* commit, on an effect that it holds and for the source as it is.
THEOREM BaseInvariant == Spec => []Base
<1>1. Base /\ [Next]_vars => Base'
  BY NextShape, NextExclusive DEF Base
<1> QED BY <1>1, InitBase, PTL DEF Spec

\* TypeOK: the shape of the rows and of the processes' local state.
THEOREM TypeCorrect == Spec => []TypeOK
<1>1. Base => TypeOK
  BY DEF Base, Shape
<1> QED BY <1>1, BaseInvariant, PTL

-----------------------------------------------------------------------------
(* A pause is a boundary, and a held edit waits.                           *)

\* An executor's write: only a worker that is in its transaction changes the
\* destination, and only under the id of the current generation.
LEMMA WroteIs ==
    ASSUME Base, [Next]_vars, NEW g \in Gens, Wrote(g)
    PROVE  \E w \in Workers : /\ Executes(w) /\ Busy(w) /\ g = proj.gen
                              /\ dest'[g] = Written(w) /\ worker[w].job \in Ids
<1>0. TypeOK
  BY DEF Base, Shape
<1>1. dest' # dest /\ worker' # worker
  BY DEF Wrote
<1>2. PICK w \in Workers : Executes(w)
  <2>1. ~(UNCHANGED vars) /\ ~Person /\ ~Surroundings
    BY <1>1 DEF vars, Person, Pause, Resume, RetryBlocked, Acknowledge, Keep, Restore,
                Surroundings, SourceChanges, AgesOut, Wakeup, Touch, Outage, Reconnect
  <2>2. Machine
    BY <2>1 DEF Next
  <2>3. \A r \in Reconcilers : ~Read(r) /\ ~Commit(r) /\ ~PassDies(r)
    BY <1>1 DEF Read, Commit, PassDies
  <2>4. ~Load /\ ~Look /\ ~Settle /\ \A kind \in Faults : ~LookFails(kind)
    BY <1>1 DEF Load, Look, Settle, LookFails
  <2>5. \A v \in Workers, e \in Ids : ~Lease(v, e)
    BY <1>1 DEF Lease
  <2> QED BY <2>2, <2>3, <2>4, <2>5 DEF Machine, Execute, Executes
<1>3. Busy(w) /\ dest' = [dest EXCEPT ![proj.gen] = Written(w)] /\ worker[w].job \in Ids
  BY <1>1, <1>2, ExecutorIs
<1>4. dest'[proj.gen] = Written(w) /\ \A h \in Gens \ {proj.gen} : dest'[h] = dest[h]
  BY <1>0, <1>3, WrittenIs
<1> QED BY <1>2, <1>3, <1>4 DEF Wrote

\* PauseIsBoundary: once the pause of a policy has returned, no provider write of it
\* is made, because the executor holds the policy row across its calls.
THEOREM PauseHolds == Spec => PauseIsBoundary
<1>1. Base /\ [Next]_vars => [\A g \in Gens : Wrote(g) => policy = "active"]_vars
  <2> SUFFICES ASSUME Base, [Next]_vars, NEW g \in Gens, Wrote(g)
               PROVE  policy = "active"
    OBVIOUS
  <2> QED BY WroteIs, BusyFacts
<1> QED BY <1>1, BaseInvariant, PTL DEF Spec, PauseIsBoundary

\* An effect that its holder works on is not finished.
LEMMA HolderWaits ==
    ASSUME NEW w \in Workers, worker[w].job \in Ids, Holder(w)
    PROVE  worker[w].job \in Waiting(effect)
  BY DEF Holder, Waiting, Unfinished

\* Every outcome of an executor's step leaves a copy that is not held for a decision.
LEMMA OutcomeHold ==
    ASSUME Base, HoldWaits, NEW w \in Workers, worker[w].job \in Ids, Outcome(w), notice' = notice
    PROVE  HoldWaits'
<1> DEFINE e == worker[w].job
<1>0. TypeOK /\ Counted
  BY DEF Base, Shape
<1>1. ASSUME proj' = proj, ~EditHold(proj) PROVE HoldWaits'
  BY <1>1 DEF HoldWaits
<1>2. ASSUME proj'.code # "edit_hold" PROVE HoldWaits'
  BY <1>2 DEF HoldWaits, EditHold
<1>3. CASE Release(w) /\ UNCHANGED <<proj, effect>>
  BY <1>3 DEF HoldWaits, Open, Waiting
<1>4. ASSUME Holder(w) PROVE ~EditHold(proj)
  BY <1>4, HolderWaits DEF HoldWaits
<1>5. CASE Holder(w) /\ Defer(w)
  <2>1. proj' = proj
    BY <1>5 DEF Defer
  <2> QED BY <1>1, <1>4, <1>5, <2>1
<1>6. ASSUME NEW retryable, NEW ambiguous, Fail(w, retryable, ambiguous) PROVE HoldWaits'
  BY <1>0, <1>2, <1>6, FailIs
<1>7. CASE Supersede(w)
  BY <1>0, <1>2, <1>7, SupersedeIs
<1>8. CASE HoldAmbiguous(w)
  BY <1>0, <1>2, <1>8, HoldAmbiguousIs
<1>9. ASSUME NEW rev \in Nat, Succeed(w, rev) PROVE HoldWaits'
  BY <1>0, <1>2, <1>9, SucceedIs
<1>10. CASE Holder(w) /\ Replace(w)
  <2>1. \/ proj' = proj
        \/ Fail(w, FALSE, FALSE)
        \/ proj'.code = "other"
    BY <1>0, <1>10, ReplaceIs
  <2> QED BY <1>1, <1>2, <1>4, <1>6, <1>10, <2>1
<1>11. CASE Holder(w) /\ Goes(w)
  <2>1. proj' = proj
    BY <1>11 DEF Goes
  <2> QED BY <1>1, <1>4, <1>11, <2>1
<1> QED BY <1>3, <1>5, <1>6, <1>7, <1>8, <1>9, <1>10, <1>11 DEF Outcome

\* Every step keeps a held edit waiting.
LEMMA NextHold ==
    ASSUME Base, HoldWaits, [Next]_vars
    PROVE  HoldWaits'
<1>0. TypeOK /\ Reading /\ proj \in Projection
  BY DEF Base, Shape, TypeOK
<1>1. ASSUME UNCHANGED <<proj, effect>>, notice' = notice \/ notice' = "acknowledged"
      PROVE  HoldWaits'
  BY <1>1 DEF HoldWaits, Open, Waiting
<1>2. ASSUME proj'.code # "edit_hold" PROVE HoldWaits'
  BY <1>2 DEF HoldWaits, EditHold
<1>3. ASSUME NEW r \in Reconcilers, Commit(r) PROVE HoldWaits'
  <2>1. recon[r].version \in Versions /\ notice' = notice
    BY <1>0, <1>3 DEF Reading, Commit
  <2>2. CASE RefreshEvidence(r)
    <3>1. (EditHold(proj') => EditHold(proj)) /\ effect' = effect
      BY <1>0, <2>1, <2>2, RefreshIs
    <3> QED BY <2>1, <3>1 DEF HoldWaits, Open, Waiting
  <2>3. CASE Intend(r)
    BY <1>0, <1>2, <2>1, <2>3, IntendIs
  <2>4. CASE Ignore(r)
    BY <1>1, <2>1, <2>4 DEF Ignore
  <2> QED BY <1>3, <2>2, <2>3, <2>4 DEF Commit
<1>4. ASSUME NEW r \in Reconcilers, Read(r) \/ PassDies(r) PROVE HoldWaits'
  BY <1>1, <1>4 DEF Read, PassDies
<1>5. ASSUME NEW w \in Workers, NEW e \in Ids, Lease(w, e) PROVE HoldWaits'
  <2>1. e \in Waiting(effect) /\ proj' = proj
    BY <1>0, <1>5, LeaseIs DEF Waiting, Lease
  <2> QED BY <2>1 DEF HoldWaits
<1>6. ASSUME NEW w \in Workers, Executes(w) PROVE HoldWaits'
  <2>1. notice' = notice
    BY <1>6, ExecutorIs DEF Elsewhere
  <2> QED BY <1>6, <2>1, ExecutorIs, OutcomeHold
<1>7. CASE Settle
  <2>1. CASE UNCHANGED <<proj, effect, notice>>
    BY <1>1, <2>1
  <2>2. CASE HoldForeign
    <3>1. proj'.own = "ambiguous"
      BY <1>0, <2>2, HoldForeignIs
    <3> QED BY <3>1 DEF HoldWaits, EditHold
  <2>3. CASE StillCurrent /\ HoldEdit
    <3>1. effect' = effect /\ notice' = "unread"
      BY <1>0, <2>3, HoldEditIs
    <3> QED BY <2>3, <3>1 DEF StillCurrent, HoldWaits, Waiting, Open
  <2>4. CASE Repair
    BY <1>0, <1>2, <2>4, RepairIs
  <2> QED BY <1>0, <1>7, <2>1, <2>2, <2>3, <2>4, SettleIs
<1>8. CASE Load \/ Look \/ \E kind \in Faults : LookFails(kind)
  BY <1>1, <1>8 DEF Load, Look, LookFails
<1>9. CASE Machine
  BY <1>3, <1>4, <1>5, <1>6, <1>7, <1>8, <1>9 DEF Machine, Execute, Executes
<1>10. CASE RetryBlocked
  <2>1. proj'.code = "other" \/ proj' = [proj EXCEPT !.rec = "none", !.status = "retrying",
                                                     !.code = "none"]
    BY <1>0, <1>10, ReconsiderIs DEF RetryBlocked, RetryDead, RetryHold, Recover
  <2>2. proj'.code # "edit_hold"
    BY <1>0, <2>1 DEF Projection
  <2> QED BY <1>2, <2>2
<1>11. CASE Keep \/ Restore
  <2>1. \/ proj' = [proj EXCEPT !.own = "detached", !.status = "converged",
                                !.rec = "none", !.code = "none"]
        \/ proj' = [proj EXCEPT !.rec = "none", !.status = "retrying", !.code = "none"]
    BY <1>11 DEF Keep, Restore, Recover
  <2>2. proj'.code # "edit_hold"
    BY <1>0, <2>1 DEF Projection
  <2> QED BY <1>2, <2>2
<1>12. CASE Pause \/ Resume \/ Acknowledge \/ Surroundings
  BY <1>1, <1>12 DEF Pause, Resume, Acknowledge, Surroundings, SourceChanges, AgesOut, Wakeup,
                     Touch, Outage, Reconnect
<1>13. CASE UNCHANGED vars
  BY <1>1, <1>13 DEF vars
<1> QED BY <1>9, <1>10, <1>11, <1>12, <1>13 DEF Next, Person

\* HoldWaits: while a held edit waits for its decision, nothing is under way that could
\* overwrite it, and the notice that asks for the decision is open.
THEOREM HoldWaitsHolds == Spec => []HoldWaits
<1>1. Init => HoldWaits
  BY DEF Init, HoldWaits, EditHold, NoProjection
<1>2. Base /\ HoldWaits /\ [Next]_vars => HoldWaits'
  BY NextHold
<1> QED BY <1>1, <1>2, BaseInvariant, PTL DEF Spec

-----------------------------------------------------------------------------
(* The third layer: an intent is the version it was planned for.           *)

\* Finishing an effect, adding one and recording progress keep the intents.
LEMMA FinishIntact ==
    ASSUME NEW fx \in [Ids -> Effect], AllIntact(fx), NEW e \in Ids
    PROVE  AllIntact(Finish(fx, e))
<1> DEFINE gx == Finish(fx, e)
<1>1. gx[e] = NoEffect /\ \A x \in Ids \ {e} : Same(gx[x], fx[x])
  BY FinishIs
<1>2. NoEffect.state = "none"
  BY DEF NoEffect
<1> HIDE DEF gx
<1>3. AllIntact(gx)
  BY <1>1, <1>2 DEF AllIntact, Same, Kept
<1> QED BY <1>3 DEF gx

\* See FinishIntact.
LEMMA AddedIntact ==
    ASSUME NEW fx \in [Ids -> Effect], AllIntact(fx), NEW gx,
           NEW op, NEW basis, NEW want, Intact(op, basis, want), Added(fx, gx, op, basis, want)
    PROVE  AllIntact(gx)
<1>1. PICK i \in Free(fx) : /\ gx[i].op = op /\ gx[i].basis = basis /\ gx[i].want = want
                            /\ \A x \in Ids \ {i} : Same(gx[x], fx[x])
  BY DEF Added
<1> QED BY <1>1 DEF AllIntact, Same, Kept

\* See FinishIntact.
LEMMA KeptIntact ==
    ASSUME AllIntact(effect), NEW e \in Ids, effect[e].state # "none",
           Kept(effect'[e], effect[e]), \A x \in Ids \ {e} : effect'[x] = effect[x]
    PROVE  AllIntact(effect')
  BY DEF AllIntact, Kept

\* An executor's outcome leaves intents as they were planned.
LEMMA OutcomeTruthful ==
    ASSUME Base, Truthful, NEW w \in Workers, worker[w].job \in Ids, Outcome(w), check' = check
    PROVE  Truthful'
<1> DEFINE e == worker[w].job
<1>0. /\ TypeOK /\ Counted /\ effect \in [Ids -> Effect] /\ AllIntact(effect)
      /\ Planned(proj.want, proj.basis)
  BY DEF Base, Shape, TypeOK, Truthful
<1>1. ASSUME AllIntact(effect'), Planned(proj'.want, proj'.basis),
             proj' = proj \/ proj'.status # "absent"
      PROVE  Truthful'
  BY <1>1 DEF Truthful
<1>2. Holder(w) => effect[e].state # "none"
  BY DEF Holder
<1>3. AllIntact(Finish(effect, e))
  BY <1>0, FinishIntact
<1>4. CASE UNCHANGED <<proj, effect>>
  BY <1>0, <1>1, <1>4
<1>5. CASE Holder(w) /\ Defer(w)
  <2>1. AllIntact(effect')
    BY <1>0, <1>2, <1>5, DeferIs, KeptIntact
  <2>2. proj' = proj
    BY <1>5 DEF Defer
  <2> QED BY <1>0, <1>1, <2>1, <2>2
<1>6. ASSUME NEW retryable, NEW ambiguous, Holder(w), Fail(w, retryable, ambiguous)
      PROVE  Truthful'
  <2>1. AllIntact(effect')
    BY <1>0, <1>2, <1>6, FailIs, KeptIntact
  <2>2. proj'.want = proj.want /\ proj'.basis = proj.basis /\ proj'.status \in {"failed", "retrying"}
    BY <1>0, <1>6, FailIs
  <2> QED BY <1>0, <1>1, <2>1, <2>2
<1>7. CASE Supersede(w)
  <2>1. effect' = Finish(effect, e) /\ proj'.want = proj.want /\ proj'.basis = proj.basis
        /\ proj'.status = "failed"
    BY <1>0, <1>7, SupersedeIs
  <2> QED BY <1>0, <1>1, <1>3, <2>1
<1>8. CASE Holder(w) /\ HoldAmbiguous(w)
  <2>1. AllIntact(effect')
    BY <1>0, <1>2, <1>8, HoldAmbiguousIs, KeptIntact
  <2>2. proj'.want = proj.want /\ proj'.basis = proj.basis /\ proj'.status = "held"
    BY <1>0, <1>8, HoldAmbiguousIs
  <2> QED BY <1>0, <1>1, <2>1, <2>2
<1>9. ASSUME NEW rev \in Nat, Succeed(w, rev) PROVE Truthful'
  <2>1. effect' = Finish(effect, e) /\ proj'.want = proj.want /\ proj'.basis = proj.basis
        /\ proj'.status \in {"deleted", "converged"}
    BY <1>0, <1>9, SucceedIs
  <2> QED BY <1>0, <1>1, <1>3, <2>1
<1>10. CASE Holder(w) /\ effect[e].op # "delete" /\ Replace(w)
  <2>1. CASE effect' = Finish(effect, e) /\ proj' = proj
    BY <1>0, <1>1, <1>3, <2>1
  <2>2. CASE Fail(w, FALSE, FALSE)
    BY <1>6, <1>10, <2>2
  <2>3. CASE /\ effect[e].want = proj.want /\ proj.want # NoCopy
             /\ Added(Finish(effect, e), effect', "create", effect[e].basis, proj'.want)
             /\ proj'.want # NoCopy /\ proj'.want.body = proj.want.body
             /\ proj'.status = "pending" /\ proj'.basis = proj.basis
    <3>1. Intact("create", effect[e].basis, proj'.want)
      BY <1>0, <1>2, <1>10, <2>3 DEF AllIntact, Intact, Planned
    <3>2. Finish(effect, e) \in [Ids -> Effect]
      BY <1>0, FinishIs
    <3>3. AllIntact(effect')
      BY <1>3, <2>3, <3>1, <3>2, AddedIntact
    <3>4. Planned(proj'.want, proj'.basis)
      BY <1>0, <2>3 DEF Planned
    <3> QED BY <1>1, <2>3, <3>3, <3>4
  <2> QED BY <1>0, <1>10, <2>1, <2>2, <2>3, ReplaceIs
<1>11. CASE Goes(w)
  BY <1>4, <1>11 DEF Goes
<1> QED BY <1>4, <1>5, <1>6, <1>7, <1>8, <1>9, <1>10, <1>11 DEF Outcome

\* A recovery intent is as true as the evidence it is made of.
LEMMA RecoverTruthful ==
    ASSUME Base, Truthful, proj.rec # "none", RecoveryEvidence, NEW fx \in [Ids -> Effect],
           AllIntact(fx), Recover(fx), check' = check
    PROVE  Truthful'
<1>0. TypeOK
  BY DEF Base, Shape
<1>1. /\ Added(fx, effect', proj.rec, proj.basis, proj.want)
      /\ proj'.want = proj.want /\ proj'.basis = proj.basis /\ proj'.status = "retrying"
  BY <1>0, RecoverIs
<1>2. Intact(proj.rec, proj.basis, proj.want)
  BY DEF RecoveryEvidence, OwnEvidence, Truthful, Intact
<1>3. AllIntact(effect')
  BY <1>1, <1>2, AddedIntact
<1> QED BY <1>1, <1>3 DEF Truthful

\* A person's retry adds nothing but what the projection stands for.
LEMMA RetryTruthful ==
    ASSUME Base, Truthful, RetryBlocked
    PROVE  Truthful'
<1>0. /\ TypeOK /\ effect \in [Ids -> Effect] /\ AllIntact(effect) /\ check' = check
      /\ Planned(proj.want, proj.basis)
  BY DEF Base, Shape, TypeOK, Truthful, RetryBlocked
<1>1. ASSUME NEW d \in Ids, RetryDead(d) PROVE Truthful'
  <2>0. effect[d].state # "none" /\ AllIntact(Finish(effect, d)) /\ Finish(effect, d) \in [Ids -> Effect]
    BY <1>0, <1>1, FinishIntact, FinishIs DEF RetryDead, Dead
  <2>1. CASE Replayable(d)
    <3>1. /\ effect' = [effect EXCEPT ![d] = [@ EXCEPT !.state = "retry", !.tries = 0,
                                                       !.mode = "ambiguous"]]
          /\ proj' = [proj EXCEPT !.rec = "none", !.status = "retrying", !.code = "none"]
      BY <1>1, <2>1 DEF RetryDead
    <3>2. /\ Kept(effect'[d], effect[d]) /\ \A x \in Ids \ {d} : effect'[x] = effect[x]
          /\ proj'.status = "retrying" /\ proj'.want = proj.want /\ proj'.basis = proj.basis
      BY <1>0, <2>1, <3>1, ReplayIs
    <3>3. AllIntact(effect')
      BY <1>0, <2>0, <3>2, KeptIntact
    <3> QED BY <1>0, <3>2, <3>3 DEF Truthful
  <2>2. CASE proj.rec # "none" /\ RecoveryEvidence /\ Recover(Finish(effect, d))
    BY <1>0, <2>0, <2>2, RecoverTruthful
  <2>3. CASE Reconsider("failed") /\ effect' = Finish(effect, d)
    <3>1. proj'.status = "failed" /\ proj'.want = proj.want /\ proj'.basis = proj.basis
      BY <1>0, <2>3, ReconsiderIs
    <3> QED BY <1>0, <2>0, <2>3, <3>1 DEF Truthful
  <2> QED BY <1>1, <2>1, <2>2, <2>3 DEF RetryDead
<1>2. CASE RetryHold
  <2>1. CASE proj.rec # "none" /\ RecoveryEvidence /\ Recover(effect)
    BY <1>0, <2>1, RecoverTruthful
  <2>2. CASE Reconsider("held") /\ UNCHANGED effect
    <3>1. proj'.status = "held" /\ proj'.want = proj.want /\ proj'.basis = proj.basis
      BY <1>0, <2>2, ReconsiderIs
    <3> QED BY <1>0, <2>2, <3>1 DEF Truthful
  <2> QED BY <1>2, <2>1, <2>2 DEF RetryHold
<1> QED BY <1>1, <1>2 DEF RetryBlocked

\* The verifier repairs a copy with the content it was planned with.
LEMMA SettleTruthful ==
    ASSUME Base, Truthful, Settle
    PROVE  Truthful'
<1>0. /\ TypeOK /\ effect \in [Ids -> Effect] /\ AllIntact(effect)
      /\ Planned(proj.want, proj.basis) /\ check' = NoCheck
  BY DEF Base, Shape, TypeOK, Truthful, Settle
<1>1. Planned(NoCheck.want, NoCheck.basis)
  BY DEF Planned, NoCheck
<1>2. ASSUME AllIntact(effect'), Planned(proj'.want, proj'.basis),
             proj' = proj \/ proj'.status # "absent"
      PROVE  Truthful'
  BY <1>0, <1>1, <1>2 DEF Truthful
<1>3. CASE UNCHANGED <<proj, effect, notice>>
  BY <1>0, <1>2, <1>3
<1>4. CASE HoldForeign
  <2>1. effect' = effect /\ proj'.want = proj.want /\ proj'.basis = proj.basis
        /\ proj'.status = "held"
    BY <1>0, <1>4, HoldForeignIs
  <2> QED BY <1>0, <1>2, <2>1
<1>5. CASE HoldEdit
  <2>1. effect' = effect /\ proj'.want = proj.want /\ proj'.basis = proj.basis
        /\ proj'.status = "held"
    BY <1>0, <1>5, HoldEditIs
  <2> QED BY <1>0, <1>2, <2>1
<1>6. CASE StillCurrent /\ Repair
  <2>1. PICK op \in {"create", "update"} : Added(effect, effect', op, check.basis, proj'.want)
    BY <1>0, <1>6, RepairIs
  <2>2. /\ proj.want # NoCopy /\ proj'.want # NoCopy /\ proj'.want.body = proj.want.body
        /\ proj'.status = "pending" /\ proj'.basis = proj.basis
    BY <1>0, <1>6, RepairIs
  <2>3. proj.want = check.want /\ Planned(check.want, check.basis)
    BY <1>6 DEF StillCurrent, Truthful
  <2>4. Intact(op, check.basis, proj'.want)
    BY <2>2, <2>3 DEF Intact, Planned
  <2>5. AllIntact(effect')
    BY <1>0, <2>1, <2>4, AddedIntact
  <2>6. Planned(proj'.want, proj'.basis)
    BY <1>0, <2>2 DEF Planned
  <2> QED BY <1>2, <2>2, <2>5, <2>6
<1> QED BY <1>0, <1>3, <1>4, <1>5, <1>6, SettleIs

\* A reconcile pass plans the version it has read.
LEMMA CommitTruthful ==
    ASSUME Base, Truthful, NEW r \in Reconcilers, Commit(r)
    PROVE  Truthful'
<1> DEFINE v == recon[r].version
           res == Evaluate(proj, v)
<1>0. /\ TypeOK /\ effect \in [Ids -> Effect] /\ AllIntact(effect) /\ v \in Versions
      /\ check' = check /\ Planned(check.want, check.basis)
      /\ proj.status = "absent" => proj.own = "attached"
  BY DEF Base, Shape, TypeOK, Truthful, Commit, Reading
<1>1. Planned(res.want, v)
  BY <1>0, EvaluateIs DEF Planned
<1>2. res.op \in {"create", "update"} => res.want # NoCopy
  BY <1>0, EvaluateIs
<1>3. res.op \in Ops \cup {"none"}
  BY <1>0, EvaluateIs
<1>4. CASE RefreshEvidence(r)
  <2>1. /\ proj'.basis = v /\ effect' = effect /\ proj'.want = res.want
        /\ proj'.status \in {"held", "failed"}
    BY <1>0, <1>4, RefreshIs
  <2> QED BY <1>0, <1>1, <2>1 DEF Truthful
<1>5. CASE Intend(r)
  <2>1. /\ proj'.basis = v /\ proj'.want = res.want
        /\ proj'.status \in {"pending", "deleted", "converged"}
        /\ effect' = effect \/ (res.op # "none" /\ Added(effect, effect', res.op, v, res.want))
    BY <1>0, <1>5, IntendIs
  <2> HIDE DEF res
  <2>2. res.op # "none" => Intact(res.op, v, res.want)
    BY <1>1, <1>2, <1>3 DEF Intact, Ops
  <2>3. AllIntact(effect')
    BY <1>0, <2>1, <2>2, AddedIntact
  <2> QED BY <1>0, <1>1, <2>1, <2>3 DEF Truthful
<1>6. CASE Ignore(r)
  BY <1>0, <1>6 DEF Ignore, Truthful
<1> QED BY <1>4, <1>5, <1>6 DEF Commit

\* Every step keeps the content of every intent.
LEMMA NextTruthful ==
    ASSUME Base, Truthful, [Next]_vars
    PROVE  Truthful'
<1>0. /\ TypeOK /\ effect \in [Ids -> Effect] /\ AllIntact(effect) /\ proj \in Projection
      /\ Planned(proj.want, proj.basis) /\ check \in Check
  BY DEF Base, Shape, TypeOK, Truthful
<1>1. ASSUME UNCHANGED <<proj, effect, check>> PROVE Truthful'
  BY <1>1 DEF Truthful
<1>2. Planned(NoCheck.want, NoCheck.basis)
  BY DEF Planned, NoCheck
<1>3. ASSUME NEW w \in Workers, NEW e \in Ids, Lease(w, e) PROVE Truthful'
  <2>1. /\ effect[e].state # "none" /\ Kept(effect'[e], effect[e])
        /\ \A x \in Ids \ {e} : effect'[x] = effect[x]
    BY <1>0, <1>3, LeaseIs DEF Unfinished
  <2>2. proj' = proj /\ check' = check
    BY <1>3 DEF Lease, Elsewhere
  <2>3. AllIntact(effect')
    BY <1>0, <2>1, KeptIntact
  <2> QED BY <2>2, <2>3 DEF Truthful
<1>4. ASSUME NEW w \in Workers, Executes(w) PROVE Truthful'
  <2>1. check' = check
    BY <1>4, ExecutorIs DEF Elsewhere
  <2> QED BY <1>4, <2>1, ExecutorIs, OutcomeTruthful
<1>5. CASE Load
  <2>1. check'.want = proj.want /\ check'.basis = proj.basis /\ UNCHANGED <<proj, effect>>
    BY <1>5 DEF Load, NoCheck
  <2> QED BY <1>0, <2>1 DEF Truthful
<1>6. CASE Look
  <2>1. UNCHANGED <<proj, effect>>
    BY <1>6 DEF Look
  <2>2. check' = NoCheck \/ (check'.want = check.want /\ check'.basis = check.basis)
    BY <1>0, <1>6 DEF Look, Check
  <2> QED BY <1>2, <2>1, <2>2 DEF Truthful
<1>7. ASSUME NEW kind \in Faults, LookFails(kind) PROVE Truthful'
  BY <1>2, <1>7 DEF LookFails, Truthful
<1>8. ASSUME NEW r \in Reconcilers, Read(r) \/ PassDies(r) PROVE Truthful'
  BY <1>1, <1>8 DEF Read, PassDies
<1>9. CASE Machine
  BY <1>3, <1>4, <1>5, <1>6, <1>7, <1>8, <1>9, CommitTruthful, SettleTruthful
     DEF Machine, Execute, Executes
<1>10. CASE Keep
  <2>1. /\ effect' = effect /\ check' = check
        /\ proj' = [proj EXCEPT !.own = "detached", !.status = "converged",
                                !.rec = "none", !.code = "none"]
    BY <1>10 DEF Keep
  <2>2. proj'.want = proj.want /\ proj'.basis = proj.basis /\ proj'.status = "converged"
    BY <1>0, <2>1 DEF Projection
  <2> QED BY <1>0, <2>1, <2>2 DEF Truthful
<1>11. CASE Restore
  BY <1>0, <1>11, RecoverTruthful DEF Restore
<1>12. CASE Pause \/ Resume \/ Acknowledge \/ Surroundings
  BY <1>1, <1>12 DEF Pause, Resume, Acknowledge, Surroundings, SourceChanges, AgesOut, Wakeup,
                     Touch, Outage, Reconnect
<1>13. CASE UNCHANGED vars
  BY <1>1, <1>13 DEF vars
<1> QED BY <1>9, <1>10, <1>11, <1>12, <1>13, RetryTruthful DEF Next, Person

\* Intents are true to the version they were planned for, whoever replays, repairs or
\* replaces them.
THEOREM TruthfulInvariant == Spec => []Truthful
<1>1. Init => Truthful
  BY DEF Init, Truthful, AllIntact, NoEffect, NoProjection, NoCheck, Planned
<1>2. Base /\ Truthful /\ [Next]_vars => Truthful'
  BY NextTruthful
<1> QED BY <1>1, <1>2, BaseInvariant, PTL DEF Spec

\* WritesAreCurrent: what is written is the source as it is observed at that moment,
\* however long the effect waited, whoever took it over and whatever failed before.
THEOREM WritesHold == Spec => WritesAreCurrent
<1>1. Base /\ Truthful /\ [Next]_vars =>
         [\A g \in Gens : Wrote(g) /\ dest'[g].st = "live" => dest'[g].body = Copy[source.version]]_vars
  <2> SUFFICES ASSUME Base, Truthful, [Next]_vars, NEW g \in Gens, Wrote(g), dest'[g].st = "live"
               PROVE  dest'[g].body = Copy[source.version]
    OBVIOUS
  <2>1. PICK w \in Workers : /\ Busy(w) /\ g = proj.gen /\ dest'[g] = Written(w)
                             /\ worker[w].job \in Ids
    BY WroteIs
  <2> DEFINE e == worker[w].job
  <2>2. /\ Holder(w) /\ CurrentBasis(e) /\ Target \in Event
        /\ worker[w].call = "delete" <=> effect[e].op = "delete"
    BY <2>1, BusyFacts
  <2>3. CASE worker[w].call = "delete"
    <3>1. CASE Target.st = "live"
      <4>1. Written(w).st = "gone"
        BY <2>2, <2>3, <3>1 DEF Written, Event
      <4> QED BY <2>1, <4>1
    <3>2. CASE Target.st # "live"
      BY <2>1, <2>3, <3>2 DEF Written
    <3> QED BY <3>1, <3>2
  <2>4. CASE worker[w].call # "delete"
    <3>1. dest'[g].body = effect[e].want.body
      BY <2>1, <2>4 DEF Written
    <3>2. effect[e].want # NoCopy /\ effect[e].want.body = Copy[effect[e].basis]
      BY <2>1, <2>2, <2>4 DEF Holder, Truthful, AllIntact, Intact, Planned
    <3> QED BY <2>2, <3>1, <3>2 DEF CurrentBasis
  <2> QED BY <2>3, <2>4
<1> QED BY <1>1, BaseInvariant, TruthfulInvariant, PTL DEF Spec, WritesAreCurrent

-----------------------------------------------------------------------------
(* The fourth layer: an intent is marked with the current generation.      *)

\* Versions and bases are naturals.
LEMMA VersionFacts ==
    ASSUME TypeOK
    PROVE  /\ source.version \in Nat /\ source.version \in Versions
           /\ proj.basis \in Nat /\ check.basis \in Nat
           /\ \A e \in Ids : effect[e].basis \in Nat /\ effect[e].want \in Desired
           /\ \A r \in Reconcilers : recon[r].version \in Nat
<1>1. Versions \cup {0} \subseteq Nat
  BY CopyAssumption DEF Versions
<1>2. source.version \in Versions
  BY DEF TypeOK
<1>3. proj.basis \in Versions \cup {0} /\ check.basis \in Versions \cup {0}
  BY DEF TypeOK, Projection, Check
<1>4. \A e \in Ids : effect[e].basis \in Versions \cup {0} /\ effect[e].want \in Desired
  BY DEF TypeOK, Effect
<1>5. \A r \in Reconcilers : recon[r].version \in Versions \cup {0}
  BY DEF TypeOK, Pass
<1> QED BY <1>1, <1>2, <1>3, <1>4, <1>5

\* A desired copy that is wanted is of a selected version.
LEMMA WantedIsSelected ==
    ASSUME NEW want \in Desired, want # NoCopy
    PROVE  want.body # "none"
  BY DEF Desired, Bodies

\* Finishing an effect, adding one and recording progress keep the others fitting.
LEMMA FinishFit ==
    ASSUME NEW fx \in [Ids -> Effect], NEW e \in Ids, NEW gen, NEW v, AllFit(fx, gen, v)
    PROVE  AllFit(Finish(fx, e), gen, v)
<1> DEFINE gx == Finish(fx, e)
<1>1. gx[e] = NoEffect /\ \A x \in Ids \ {e} : Same(gx[x], fx[x])
  BY FinishIs
<1>2. Fits(NoEffect, gen, v)
  BY DEF NoEffect, Fits, Unfinished
<1> HIDE DEF gx
<1>3. \A x \in Ids \ {e} : Fits(gx[x], gen, v)
  BY <1>1 DEF AllFit, Fits, Same, Kept
<1>4. AllFit(gx, gen, v)
  BY <1>1, <1>2, <1>3 DEF AllFit
<1> QED BY <1>4 DEF gx

\* See FinishFit.
LEMMA AddedFit ==
    ASSUME NEW fx \in [Ids -> Effect], NEW gx, NEW gen, NEW v, AllFit(fx, gen, v),
           NEW op, NEW basis, NEW want, Added(fx, gx, op, basis, want), basis <= v,
           op = "delete" => Copy[basis] = "none", op # "delete" => want.gen = gen
    PROVE  AllFit(gx, gen, v)
<1>1. PICK i \in Free(fx) : /\ gx[i].op = op /\ gx[i].basis = basis /\ gx[i].want = want
                            /\ \A x \in Ids \ {i} : Same(gx[x], fx[x])
  BY DEF Added
<1>2. Fits(gx[i], gen, v)
  BY <1>1 DEF Fits
<1>3. \A x \in Ids \ {i} : Fits(gx[x], gen, v)
  BY <1>1 DEF AllFit, Fits, Same, Kept
<1> QED BY <1>2, <1>3 DEF AllFit

\* See FinishFit.
LEMMA KeptFit ==
    ASSUME NEW e \in Ids, NEW gen, NEW v, AllFit(effect, gen, v),
           effect[e].state \in Unfinished \/ (effect[e].state # "none" /\
              (effect[e].op # "delete" => effect[e].want.gen = gen)),
           Kept(effect'[e], effect[e]), \A x \in Ids \ {e} : effect'[x] = effect[x]
    PROVE  AllFit(effect', gen, v)
<1>1. effect[e].state # "none"
  BY DEF Unfinished
<1>2. Fits(effect[e], gen, v)
  BY DEF AllFit
<1>3. Fits(effect'[e], gen, v)
  BY <1>1, <1>2 DEF Fits, Kept
<1> QED BY <1>3 DEF AllFit

\* A new generation disturbs nothing when no intent of the current version waits.
LEMMA NewGenerationFit ==
    ASSUME NEW fx, NEW gen, NEW new, NEW v, AllFit(fx, gen, v),
           \A x \in Ids : fx[x].state \in Unfinished /\ fx[x].op # "delete" => fx[x].basis # v
    PROVE  AllFit(fx, new, v)
  BY DEF AllFit, Fits

\* While the occurrence is inside the horizon, a deletion and a creation of the same
\* version never wait together.
LEMMA DeletedIsAlone ==
    ASSUME Base, Truthful, Fitting, NEW e \in Ids, effect[e].state # "none",
           effect[e].op = "delete", effect[e].basis = source.version
    PROVE  \A x \in Ids : effect[x].state \in Unfinished /\ effect[x].op # "delete"
                             => effect[x].basis # source.version
<1>0. TypeOK
  BY DEF Base, Shape
<1>1. Copy[source.version] = "none"
  BY DEF Fitting, AllFit, Fits
<1> SUFFICES ASSUME NEW x \in Ids, effect[x].state \in Unfinished, effect[x].op # "delete",
                    effect[x].basis = source.version
             PROVE  FALSE
  OBVIOUS
<1>2. effect[x].state # "none"
  BY DEF Unfinished
<1>3. effect[x].want # NoCopy /\ effect[x].want.body = Copy[source.version]
  BY <1>2 DEF Truthful, AllIntact, Intact, Planned
<1>4. effect[x].want \in Desired
  BY <1>0, VersionFacts
<1> QED BY <1>1, <1>3, <1>4, WantedIsSelected

\* An executor's outcome keeps every intent fitting.
LEMMA OutcomeFitting ==
    ASSUME Base, Truthful, Fitting, NEW w \in Workers, worker[w].job \in Ids, Outcome(w),
           UNCHANGED <<source, recon, check>>
    PROVE  Fitting'
<1> DEFINE e == worker[w].job
           v == source.version
<1>0. /\ TypeOK /\ Counted /\ effect \in [Ids -> Effect] /\ AllFit(effect, proj.gen, v)
      /\ AllFit(Finish(effect, e), proj.gen, v) /\ v \in Nat /\ effect[e].basis \in Nat
  BY FinishFit, VersionFacts DEF Base, Shape, TypeOK, Fitting
<1>1. ASSUME AllFit(effect', proj'.gen, v), proj'.basis = proj.basis,
             proj'.rec = proj.rec \/ proj'.rec = "none"
      PROVE  Fitting'
  BY <1>1 DEF Fitting, Sources
<1>2. Holder(w) => effect[e].state \in Unfinished /\ effect[e].state # "none"
  BY DEF Holder, Unfinished
<1>4. CASE UNCHANGED <<proj, effect>>
  BY <1>0, <1>1, <1>4
<1>5. CASE Holder(w) /\ Defer(w)
  <2>1. AllFit(effect', proj.gen, v)
    BY <1>0, <1>2, <1>5, DeferIs, KeptFit
  <2>2. proj' = proj
    BY <1>5 DEF Defer
  <2> QED BY <1>1, <2>1, <2>2
<1>6. ASSUME NEW retryable, NEW ambiguous, Holder(w), Fail(w, retryable, ambiguous)
      PROVE  Fitting'
  <2>1. AllFit(effect', proj.gen, v)
    BY <1>0, <1>2, <1>6, FailIs, KeptFit
  <2>2. proj'.gen = proj.gen /\ proj'.basis = proj.basis /\ proj'.rec = proj.rec
    BY <1>0, <1>6, FailIs
  <2> QED BY <1>1, <2>1, <2>2
<1>7. CASE Supersede(w)
  <2>1. effect' = Finish(effect, e) /\ proj'.gen = proj.gen /\ proj'.basis = proj.basis
        /\ proj'.rec = proj.rec
    BY <1>0, <1>7, SupersedeIs
  <2> QED BY <1>0, <1>1, <2>1
<1>8. CASE Holder(w) /\ HoldAmbiguous(w)
  <2>1. AllFit(effect', proj.gen, v)
    BY <1>0, <1>2, <1>8, HoldAmbiguousIs, KeptFit
  <2>2. proj'.gen = proj.gen /\ proj'.basis = proj.basis /\ proj'.rec = proj.rec
    BY <1>0, <1>8, HoldAmbiguousIs
  <2> QED BY <1>1, <2>1, <2>2
<1>9. ASSUME NEW rev \in Nat, Holder(w), CurrentBasis(e), Succeed(w, rev) PROVE Fitting'
  <2>1. effect' = Finish(effect, e) /\ proj'.basis = proj.basis /\ proj'.rec = "none"
    BY <1>0, <1>9, SucceedIs
  <2>2. CASE effect[e].op # "delete"
    <3>1. proj'.gen = proj.gen
      BY <1>0, <1>9, <2>2, SucceedIs
    <3> QED BY <1>0, <1>1, <2>1, <3>1
  <2>3. CASE effect[e].op = "delete"
    <3>1. \A x \in Ids : effect[x].state \in Unfinished /\ effect[x].op # "delete"
                            => effect[x].basis # v
      BY <1>2, <1>9, <2>3, DeletedIsAlone DEF CurrentBasis
    <3>2. AllFit(effect, proj'.gen, v)
      BY <1>0, <3>1, NewGenerationFit
    <3>3. AllFit(Finish(effect, e), proj'.gen, v)
      BY <1>0, <3>2, FinishFit
    <3> QED BY <1>1, <2>1, <3>3
  <2> QED BY <2>2, <2>3
<1>10. CASE Holder(w) /\ effect[e].op # "delete" /\ Replace(w)
  <2>1. CASE effect' = Finish(effect, e) /\ proj' = proj
    BY <1>0, <1>1, <2>1
  <2>2. CASE Fail(w, FALSE, FALSE)
    BY <1>6, <1>10, <2>2
  <2>3. CASE /\ Waiting(effect) \ {e} = {}
             /\ Added(Finish(effect, e), effect', "create", effect[e].basis, proj'.want)
             /\ proj'.want.gen = proj'.gen
             /\ proj'.rec = "none" /\ proj'.basis = proj.basis
    <3> DEFINE fx == Finish(effect, e)
    <3>1. fx \in [Ids -> Effect] /\ fx[e] = NoEffect /\ \A x \in Ids \ {e} : Same(fx[x], effect[x])
      BY <1>0, FinishIs
    <3>2. NoEffect.state \notin Unfinished
      BY DEF NoEffect, Unfinished
    <3>3. AllFit(fx, proj.gen, v)
      BY <1>0
    <3>4. Added(fx, effect', "create", effect[e].basis, proj'.want)
      BY <2>3
    <3> HIDE DEF fx
    <3>5. \A x \in Ids : fx[x].state \notin Unfinished
      BY <2>3, <3>1, <3>2 DEF Waiting, Same
    <3>6. AllFit(fx, proj'.gen, v)
      BY <3>3, <3>5, NewGenerationFit
    <3>7. effect[e].basis <= v
      BY <1>0, <1>2, <1>10 DEF AllFit, Fits
    <3>8. AllFit(effect', proj'.gen, v)
      BY <2>3, <3>1, <3>4, <3>6, <3>7, AddedFit
    <3> QED BY <1>1, <2>3, <3>8
  <2> QED BY <1>0, <1>10, <2>1, <2>2, <2>3, ReplaceIs
<1>11. CASE Goes(w)
  BY <1>4, <1>11 DEF Goes
<1> QED BY <1>4, <1>5, <1>6, <1>7, <1>8, <1>9, <1>10, <1>11 DEF Outcome

\* A recovery intent fits: it is the current version with the current markers.
LEMMA RecoverFitting ==
    ASSUME Base, Fitting, proj.rec # "none", RecoveryEvidence, NEW fx \in [Ids -> Effect],
           AllFit(fx, proj.gen, source.version), Recover(fx), UNCHANGED <<source, recon, check>>
    PROVE  Fitting'
<1>0. TypeOK
  BY DEF Base, Shape
<1>1. /\ Added(fx, effect', proj.rec, proj.basis, proj.want) /\ proj'.gen = proj.gen
      /\ proj'.basis = proj.basis /\ proj'.rec = "none"
  BY <1>0, RecoverIs
<1>2. /\ proj.basis <= source.version
      /\ proj.rec = "delete" => Copy[proj.basis] = "none"
      /\ proj.rec # "delete" => proj.want.gen = proj.gen
  BY DEF Fitting, Sources, RecoveryEvidence, OwnEvidence
<1>3. AllFit(effect', proj.gen, source.version)
  BY <1>1, <1>2, AddedFit
<1> QED BY <1>1, <1>3 DEF Fitting, Sources

\* A person's retry.
LEMMA RetryFitting ==
    ASSUME Base, Fitting, RetryBlocked
    PROVE  Fitting'
<1>0. /\ TypeOK /\ effect \in [Ids -> Effect] /\ AllFit(effect, proj.gen, source.version)
      /\ UNCHANGED <<source, recon, check>>
  BY DEF Base, Shape, TypeOK, Fitting, RetryBlocked
<1>1. ASSUME NEW d \in Ids, RetryDead(d) PROVE Fitting'
  <2>0. /\ effect[d].state # "none" /\ AllFit(Finish(effect, d), proj.gen, source.version)
        /\ Finish(effect, d) \in [Ids -> Effect]
    BY <1>0, <1>1, FinishFit, FinishIs DEF RetryDead, Dead
  <2>1. CASE Replayable(d)
    <3>1. /\ effect' = [effect EXCEPT ![d] = [@ EXCEPT !.state = "retry", !.tries = 0,
                                                       !.mode = "ambiguous"]]
          /\ proj' = [proj EXCEPT !.rec = "none", !.status = "retrying", !.code = "none"]
      BY <1>1, <2>1 DEF RetryDead
    <3>2. /\ Kept(effect'[d], effect[d]) /\ \A x \in Ids \ {d} : effect'[x] = effect[x]
          /\ proj'.gen = proj.gen /\ proj'.rec = "none" /\ proj'.basis = proj.basis
          /\ effect[d].op # "delete" => effect[d].want.gen = proj.gen
      BY <1>0, <2>1, <3>1, ReplayIs
    <3>3. AllFit(effect', proj.gen, source.version)
      BY <1>0, <2>0, <3>2, KeptFit
    <3> QED BY <1>0, <3>2, <3>3 DEF Fitting, Sources
  <2>2. CASE proj.rec # "none" /\ RecoveryEvidence /\ Recover(Finish(effect, d))
    BY <1>0, <2>0, <2>2, RecoverFitting
  <2>3. CASE Reconsider("failed") /\ effect' = Finish(effect, d)
    <3>1. proj'.gen = proj.gen /\ proj'.rec = proj.rec /\ proj'.basis = proj.basis
      BY <1>0, <2>3, ReconsiderIs
    <3> QED BY <1>0, <2>0, <2>3, <3>1 DEF Fitting, Sources
  <2> QED BY <1>1, <2>1, <2>2, <2>3 DEF RetryDead
<1>2. CASE RetryHold
  <2>1. CASE proj.rec # "none" /\ RecoveryEvidence /\ Recover(effect)
    BY <1>0, <2>1, RecoverFitting
  <2>2. CASE Reconsider("held") /\ UNCHANGED effect
    <3>1. proj'.gen = proj.gen /\ proj'.rec = proj.rec /\ proj'.basis = proj.basis
      BY <1>0, <2>2, ReconsiderIs
    <3> QED BY <1>0, <2>2, <3>1 DEF Fitting, Sources
  <2> QED BY <1>2, <2>1, <2>2 DEF RetryHold
<1> QED BY <1>1, <1>2 DEF RetryBlocked

\* The verifier starts a new generation only when nothing of the old one waits.
LEMMA SettleFitting ==
    ASSUME Base, Fitting, Settle
    PROVE  Fitting'
<1> DEFINE v == source.version
<1>0. /\ TypeOK /\ effect \in [Ids -> Effect] /\ AllFit(effect, proj.gen, v) /\ check' = NoCheck
      /\ UNCHANGED <<source, recon>> /\ v \in Nat
  BY VersionFacts DEF Base, Shape, TypeOK, Fitting, Settle
<1>1. NoCheck.basis <= v
  BY <1>0 DEF NoCheck
<1>2. ASSUME AllFit(effect', proj'.gen, v), proj'.basis = proj.basis,
             proj'.rec = proj.rec \/ proj'.rec # "delete"
      PROVE  Fitting'
  BY <1>0, <1>1, <1>2 DEF Fitting, Sources
<1>3. CASE UNCHANGED <<proj, effect, notice>>
  BY <1>0, <1>2, <1>3
<1>4. CASE HoldForeign
  <2>1. effect' = effect /\ proj'.gen = proj.gen /\ proj'.basis = proj.basis
        /\ proj'.rec = "update"
    BY <1>0, <1>4, HoldForeignIs
  <2> QED BY <1>0, <1>2, <2>1
<1>5. CASE HoldEdit
  <2>1. effect' = effect /\ proj'.gen = proj.gen /\ proj'.basis = proj.basis
        /\ proj'.rec \in {"create", "update"}
    BY <1>0, <1>5, HoldEditIs
  <2> QED BY <1>0, <1>2, <2>1
<1>6. CASE StillCurrent /\ Repair
  <2>1. PICK op \in {"create", "update"} : Added(effect, effect', op, check.basis, proj'.want)
    BY <1>0, <1>6, RepairIs
  <2>2. proj'.want.gen = proj'.gen /\ proj'.rec = "none" /\ proj'.basis = proj.basis
    BY <1>0, <1>6, RepairIs
  <2>3. \A x \in Ids : effect[x].state \notin Unfinished
    BY <1>6 DEF StillCurrent, Waiting
  <2>4. AllFit(effect, proj'.gen, v)
    BY <1>0, <2>3, NewGenerationFit
  <2>5. check.basis <= v
    BY DEF Fitting, Sources
  <2>6. AllFit(effect', proj'.gen, v)
    BY <1>0, <2>1, <2>2, <2>4, <2>5, AddedFit
  <2> QED BY <1>2, <2>2, <2>6
<1> QED BY <1>0, <1>3, <1>4, <1>5, <1>6, SettleIs

\* A reconcile pass inside the horizon deletes only what is not selected.
LEMMA CommitFitting ==
    ASSUME Base, Truthful, Fitting, Inside, NEW r \in Reconcilers, Commit(r)
    PROVE  Fitting'
<1> DEFINE v == recon[r].version
           res == Evaluate(proj, v)
<1>0. /\ TypeOK /\ effect \in [Ids -> Effect] /\ AllFit(effect, proj.gen, source.version)
      /\ v \in Versions /\ v <= source.version /\ UNCHANGED <<source, check>>
      /\ proj.status = "absent" => proj.own = "attached"
  BY DEF Base, Shape, TypeOK, Truthful, Fitting, Sources, Commit, Reading
<1>1. \A q \in Reconcilers : recon'[q].version <= source.version
  <2>1. recon' = [recon EXCEPT ![r] = NoPass] /\ recon \in [Reconcilers -> Pass]
    BY <1>0 DEF Commit, TypeOK
  <2>2. NoPass.version <= source.version
    BY <1>0, VersionFacts DEF NoPass
  <2> QED BY <2>1, <2>2 DEF Fitting, Sources
<1>2. ~Included(v) => Copy[v] = "none"
  BY DEF Inside, Included
<1>3. res.op \in Ops \cup {"none"}
  BY <1>0, EvaluateIs
<1>4. res.op \in {"create", "update"} => res.want.gen = proj.gen
  <2>1. res.op \in {"create", "update"} => res.want # NoCopy
    BY <1>0, EvaluateIs
  <2>2. res.want # NoCopy => res.want.gen = proj.gen
    BY <1>0, EvaluateIs
  <2> QED BY <2>1, <2>2
<1>5. CASE RefreshEvidence(r)
  <2>1. /\ proj'.basis = v /\ effect' = effect /\ proj'.gen = proj.gen
        /\ proj'.rec = "delete" => ~Included(v)
    BY <1>0, <1>5, RefreshIs
  <2> QED BY <1>0, <1>1, <1>2, <2>1 DEF Fitting, Sources
<1>6. CASE Intend(r)
  <2>1. /\ proj'.basis = v /\ proj'.rec = "none" /\ proj'.gen = proj.gen
        /\ effect' = effect \/ (res.op # "none" /\ Added(effect, effect', res.op, v, res.want))
    BY <1>0, <1>6, IntendIs
  <2>2. res.op = "delete" => ~Included(v)
    BY <1>0, EvaluateIs
  <2>3. res.op # "none" => res.op = "delete" \/ res.op \in {"create", "update"}
    BY <1>3 DEF Ops
  <2> HIDE DEF res
  <2>4. AllFit(effect', proj.gen, source.version)
    BY <1>0, <1>2, <1>4, <2>1, <2>2, <2>3, AddedFit
  <2> QED BY <1>0, <1>1, <2>1, <2>4 DEF Fitting, Sources
<1>7. CASE Ignore(r)
  BY <1>0, <1>1, <1>7 DEF Ignore, Fitting, Sources
<1> QED BY <1>5, <1>6, <1>7 DEF Commit

\* Every step inside the horizon keeps the intents fitting.
LEMMA NextFitting ==
    ASSUME Base, Truthful, Fitting, Inside, [Next]_vars
    PROVE  Fitting'
<1> DEFINE v == source.version
<1>0. /\ TypeOK /\ effect \in [Ids -> Effect] /\ AllFit(effect, proj.gen, v) /\ Sources
      /\ proj \in Projection /\ check \in Check /\ recon \in [Reconcilers -> Pass] /\ v \in Nat
  BY VersionFacts DEF Base, Shape, TypeOK, Fitting
<1>1. ASSUME UNCHANGED <<proj, effect, check, recon>>, source'.version = source.version
      PROVE  Fitting'
  BY <1>0, <1>1 DEF Fitting, Sources
<1>2. ASSUME UNCHANGED <<source, proj, effect, recon>>, check'.basis <= source.version
      PROVE  Fitting'
  BY <1>0, <1>2 DEF Fitting, Sources
<1>3. NoCheck.basis <= v /\ NoPass.version <= v
  BY <1>0 DEF NoCheck, NoPass
<1>4. ASSUME NEW w \in Workers, NEW e \in Ids, Lease(w, e) PROVE Fitting'
  <2>1. /\ effect[e].state \in Unfinished /\ Kept(effect'[e], effect[e])
        /\ \A x \in Ids \ {e} : effect'[x] = effect[x]
    BY <1>0, <1>4, LeaseIs
  <2>2. UNCHANGED <<proj, source, recon, check>>
    BY <1>4 DEF Lease, Elsewhere
  <2>3. AllFit(effect', proj.gen, v)
    BY <1>0, <2>1, KeptFit
  <2> QED BY <1>0, <2>2, <2>3 DEF Fitting, Sources
<1>5. ASSUME NEW w \in Workers, Executes(w) PROVE Fitting'
  <2>1. UNCHANGED <<source, recon, check>>
    BY <1>5, ExecutorIs DEF Elsewhere
  <2> QED BY <1>5, <2>1, ExecutorIs, OutcomeFitting
<1>6. ASSUME NEW r \in Reconcilers, Read(r) \/ PassDies(r) PROVE Fitting'
  <2>1. UNCHANGED <<source, proj, effect, check>>
    BY <1>6 DEF Read, PassDies
  <2>2. \/ recon' = recon
        \/ recon' = [recon EXCEPT ![r] = NoPass]
        \/ recon' = [recon EXCEPT ![r] = [pc |-> "read", version |-> v, mark |-> Queued(effect)]]
    BY <1>6 DEF Read, PassDies
  <2>3. \A q \in Reconcilers : recon[q].version <= v
    BY <1>0 DEF Sources
  <2>4. \A q \in Reconcilers : recon'[q].version <= v
    BY <1>0, <1>3, <2>2, <2>3
  <2> QED BY <1>0, <2>1, <2>4 DEF Fitting, Sources
<1>7. CASE Load
  <2>1. check'.basis = proj.basis /\ UNCHANGED <<source, proj, effect, recon>>
    BY <1>7 DEF Load, NoCheck
  <2> QED BY <1>0, <1>2, <2>1 DEF Sources
<1>8. CASE Look
  <2>1. UNCHANGED <<source, proj, effect, recon>>
    BY <1>8 DEF Look
  <2>2. check' = NoCheck \/ check'.basis = check.basis
    BY <1>0, <1>8 DEF Look, Check
  <2> QED BY <1>0, <1>2, <1>3, <2>1, <2>2 DEF Sources
<1>9. ASSUME NEW kind \in Faults, LookFails(kind) PROVE Fitting'
  BY <1>2, <1>3, <1>9 DEF LookFails
<1>10. CASE Machine
  BY <1>4, <1>5, <1>6, <1>7, <1>8, <1>9, <1>10, CommitFitting, SettleFitting
     DEF Machine, Execute, Executes
<1>11. CASE Keep
  <2>1. /\ UNCHANGED <<source, effect, check, recon>>
        /\ proj' = [proj EXCEPT !.own = "detached", !.status = "converged",
                                !.rec = "none", !.code = "none"]
    BY <1>11 DEF Keep
  <2>2. proj'.gen = proj.gen /\ proj'.basis = proj.basis /\ proj'.rec = "none"
    BY <1>0, <2>1 DEF Projection
  <2> QED BY <1>0, <2>1, <2>2 DEF Fitting, Sources
<1>12. CASE Restore
  BY <1>0, <1>12, RecoverFitting DEF Restore
<1>13. CASE SourceChanges
  <2>1. /\ source'.version = v + 1 /\ UNCHANGED <<proj, effect, check, recon>>
    BY <1>0, <1>13 DEF SourceChanges, TypeOK
  <2>2. \A x \in Ids : effect[x].basis \in Nat
    BY <1>0, VersionFacts
  <2>3. AllFit(effect, proj.gen, v + 1)
    <3> SUFFICES ASSUME NEW x \in Ids PROVE Fits(effect[x], proj.gen, v + 1)
      BY DEF AllFit
    <3>1. Fits(effect[x], proj.gen, v)
      BY <1>0 DEF AllFit
    <3>2. effect[x].basis <= v => effect[x].basis <= v + 1 /\ effect[x].basis # v + 1
      BY <1>0, <2>2
    <3>3. effect[x].state \in Unfinished => effect[x].state # "none"
      BY DEF Unfinished
    <3> QED BY <3>1, <3>2, <3>3 DEF Fits
  <2>4. /\ proj.basis <= v + 1 /\ check.basis <= v + 1
        /\ \A r \in Reconcilers : recon[r].version <= v + 1
    BY <1>0, VersionFacts DEF Sources
  <2> HIDE DEF v
  <2> QED BY <1>0, <2>1, <2>3, <2>4 DEF Fitting, Sources
<1>14. CASE AgesOut
  <2>1. source'.version = source.version
    BY <1>0, <1>14 DEF AgesOut, TypeOK
  <2> QED BY <1>1, <1>14, <2>1 DEF AgesOut
<1>15. CASE Pause \/ Resume \/ Acknowledge \/ Wakeup \/ Touch \/ Outage \/ Reconnect
  BY <1>1, <1>15 DEF Pause, Resume, Acknowledge, Wakeup, Touch, Outage, Reconnect
<1>16. CASE UNCHANGED vars
  BY <1>1, <1>16 DEF vars
<1> QED BY <1>10, <1>11, <1>12, <1>13, <1>14, <1>15, <1>16, RetryFitting
        DEF Next, Person, Surroundings

\* Fitting intents leave matching markers.
LEMMA NextMarkers ==
    ASSUME Base, Truthful, Fitting, MarkersMatch, [Next]_vars
    PROVE  MarkersMatch'
<1>0. TypeOK /\ dest \in [Gens -> Event] /\ proj.gen \in Gens
  BY DEF Base, Shape, TypeOK, Projection
<1>1. CASE dest' = dest
  BY <1>1 DEF MarkersMatch
<1>2. CASE Touch
  <2>1. PICK g \in Gens :
          /\ dest[g].st = "live"
          /\ \/ dest' = [dest EXCEPT ![g] = [dest[g] EXCEPT !.body = "edited", !.rev = dest[g].rev + 1]]
             \/ dest' = [dest EXCEPT ![g] = [dest[g] EXCEPT !.st = "gone"]]
             \/ dest' = [dest EXCEPT ![g] = [dest[g] EXCEPT !.body = "edited", !.mark = 0,
                                                            !.rev = dest[g].rev + 1]]
    BY <1>0, <1>2 DEF Touch
  <2>2. \A h \in Gens \ {g} : dest'[h] = dest[h]
    BY <1>0, <2>1
  <2>3. dest[g] \in Event
    BY <1>0
  <2>4. dest'[g].mark \in {0, dest[g].mark}
    <3> DEFINE edit == [dest[g] EXCEPT !.body = "edited", !.rev = dest[g].rev + 1]
               gone == [dest[g] EXCEPT !.st = "gone"]
               strip == [dest[g] EXCEPT !.body = "edited", !.mark = 0, !.rev = dest[g].rev + 1]
    <3>1. edit.mark = dest[g].mark /\ gone.mark = dest[g].mark /\ strip.mark = 0
      BY <2>3 DEF Event
    <3>2. dest' \in {[dest EXCEPT ![g] = edit], [dest EXCEPT ![g] = gone], [dest EXCEPT ![g] = strip]}
      BY <2>1
    <3> HIDE DEF edit, gone, strip
    <3> QED BY <1>0, <3>1, <3>2
  <2> QED BY <2>1, <2>2, <2>4 DEF MarkersMatch
<1>3. ASSUME NEW w \in Workers, Executes(w), dest' # dest
      PROVE  MarkersMatch'
  <2> DEFINE e == worker[w].job
  <2>1. Busy(w) /\ e \in Ids /\ dest' = [dest EXCEPT ![proj.gen] = Written(w)]
    BY <1>3, ExecutorIs
  <2>2. dest'[proj.gen] = Written(w) /\ \A h \in Gens \ {proj.gen} : dest'[h] = dest[h]
    BY <1>0, <2>1, WrittenIs
  <2>3. /\ Holder(w) /\ CurrentBasis(e) /\ Target \in Event
        /\ worker[w].call = "delete" <=> effect[e].op = "delete"
    BY <2>1, BusyFacts
  <2>4. Written(w).st = "live" => Written(w).mark \in {0, proj.gen}
    <3>1. CASE worker[w].call # "delete"
      <4>1. Written(w).mark = effect[e].want.gen
        BY <3>1 DEF Written
      <4>2. Fits(effect[e], proj.gen, source.version)
        BY <2>1 DEF Fitting, AllFit
      <4>3. effect[e].want.gen = proj.gen
        BY <2>3, <3>1, <4>2 DEF Holder, CurrentBasis, Fits, Unfinished
      <4> QED BY <4>1, <4>3
    <3>2. CASE worker[w].call = "delete" /\ Target.st = "live"
      BY <2>3, <3>2 DEF Written, Event
    <3>3. CASE worker[w].call = "delete" /\ Target.st # "live"
      BY <3>3 DEF Written
    <3> QED BY <3>1, <3>2, <3>3
  <2> QED BY <2>2, <2>4 DEF MarkersMatch
<1>4. CASE dest' # dest /\ ~Touch
  <2>1. ~(UNCHANGED vars) /\ ~Person /\ ~Surroundings
    BY <1>4 DEF vars, Person, Pause, Resume, RetryBlocked, Acknowledge, Keep, Restore,
                Surroundings, SourceChanges, AgesOut, Wakeup, Outage, Reconnect
  <2>2. Machine
    BY <2>1 DEF Next
  <2>3. \A r \in Reconcilers : ~Read(r) /\ ~Commit(r) /\ ~PassDies(r)
    BY <1>4 DEF Read, Commit, PassDies
  <2>4. ~Load /\ ~Look /\ ~Settle /\ \A kind \in Faults : ~LookFails(kind)
    BY <1>4 DEF Load, Look, Settle, LookFails
  <2>5. \A v \in Workers, e \in Ids : ~Lease(v, e)
    BY <1>4 DEF Lease
  <2>6. PICK w \in Workers : Executes(w)
    BY <2>2, <2>3, <2>4, <2>5 DEF Machine, Execute, Executes
  <2> QED BY <1>3, <1>4, <2>6
<1> QED BY <1>1, <1>2, <1>4

\* Inside the horizon, whatever waits for the current version has the current markers.
THEOREM FittingInvariant == Spec /\ []Inside => []Fitting
<1>1. Init => Fitting
  <2> SUFFICES ASSUME Init PROVE Fitting
    OBVIOUS
  <2>1. AllFit(effect, proj.gen, source.version)
    BY DEF Init, AllFit, Fits, NoEffect, Unfinished
  <2>2. Sources
    BY DEF Init, Sources, NoPass, NoCheck, NoProjection
  <2> QED BY <2>1, <2>2 DEF Fitting
<1>2. Base /\ Truthful /\ Inside /\ Fitting /\ [Next]_vars => Fitting'
  BY NextFitting
<1> QED BY <1>1, <1>2, BaseInvariant, TruthfulInvariant, PTL DEF Spec

\* MarkersMatch: as long as the occurrence is inside the policy's horizon, a copy carries
\* the markers of the generation whose id it has, whichever intents overtook each other.
THEOREM MarkersHold == Spec /\ []Inside => []MarkersMatch
<1>1. Init => MarkersMatch
  BY DEF Init, MarkersMatch, NoEvent
<1>2. Base /\ Truthful /\ Fitting /\ MarkersMatch /\ [Next]_vars => MarkersMatch'
  BY NextMarkers
<1> QED BY <1>1, <1>2, BaseInvariant, TruthfulInvariant, FittingInvariant, PTL DEF Spec

-----------------------------------------------------------------------------
(* A detached copy stays detached.                                         *)

\* No effect is dead while an edit waits for its decision.
NoDeadHold == EditHold(proj) => Dead(effect) = {}

\* A row that is neither unfinished nor dead is free.
LEMMA NothingQueued ==
    ASSUME TypeOK, Waiting(effect) = {}, Dead(effect) = {}
    PROVE  Queued(effect) = {}
  BY DEF TypeOK, Effect, Waiting, Dead, Queued

\* Every step keeps a detached copy detached, settled and unwritten.
LEMMA NextSettled ==
    ASSUME Base, HoldWaits, Settled, NoDeadHold, [Next]_vars
    PROVE  Settled' /\ (proj.own = "detached" => proj'.own = "detached" /\ \A g \in Gens : ~Wrote(g))
<1>0. TypeOK /\ Reading /\ proj \in Projection /\ effect \in [Ids -> Effect]
  BY DEF Base, Shape, TypeOK
<1>1. CASE proj.own = "detached"
  <2>0. /\ proj.status = "converged" /\ Waiting(effect) = {} /\ Dead(effect) = {}
        /\ Queued(effect) = {} /\ ~EditHold(proj) /\ ~Blocked /\ ~StillCurrent
        /\ \A e \in Ids : effect[e].state = "none"
    BY <1>1 DEF Settled, Queued, Waiting, Dead, Unfinished, EditHold, Blocked, StillCurrent
  <2>1. \A w \in Workers : worker[w].job \in Ids => ~Holder(w)
    BY <2>0 DEF Holder
  <2>2. \A w \in Workers : ~Busy(w)
    <3>1. \A w \in Workers : Busy(w) => worker[w].job \in Ids /\ Holder(w)
      BY BusyFacts
    <3> QED BY <2>1, <3>1
  <2>3. \A g \in Gens : ~Wrote(g)
    BY <2>2, WroteIs
  <2>4. ASSUME proj'.own = "detached", proj'.status = "converged", effect' = effect
        PROVE  Settled' /\ proj'.own = "detached"
    BY <2>0, <2>4 DEF Settled, Queued
  <2>5. ASSUME UNCHANGED <<proj, effect>>
        PROVE  Settled' /\ proj'.own = "detached"
    BY <1>1, <2>0, <2>4, <2>5
  <2>6. ASSUME NEW r \in Reconcilers, Commit(r)
        PROVE  Settled' /\ proj'.own = "detached"
    <3> DEFINE v == recon[r].version
    <3>1. v \in Versions
      BY <1>0, <2>6 DEF Reading, Commit
    <3>2. Evaluate(proj, v).op = "none"
      BY <1>0, <1>1, <2>0, <3>1, EvaluateIs
    <3>3. ~RefreshEvidence(r)
      BY <2>0 DEF RefreshEvidence
    <3>4. CASE Intend(r)
      <4>1. proj'.own = proj.own /\ proj'.status = "converged" /\ effect' = effect
        BY <1>0, <2>0, <3>1, <3>2, <3>4, IntendIs
      <4> QED BY <1>1, <2>4, <4>1
    <3>5. CASE Ignore(r)
      BY <2>5, <3>5 DEF Ignore
    <3> QED BY <2>6, <3>3, <3>4, <3>5 DEF Commit
  <2>7. ASSUME NEW w \in Workers, Executes(w)
        PROVE  Settled' /\ proj'.own = "detached"
    <3>1. UNCHANGED <<proj, effect>>
      BY <2>1, <2>7, ExecutorIs DEF Outcome
    <3> QED BY <2>5, <3>1
  <2>8. \A w \in Workers, e \in Ids : ~Lease(w, e)
    BY <2>0 DEF Lease, Abandoned
  <2>9. ASSUME Settle
        PROVE  Settled' /\ proj'.own = "detached"
    BY <1>0, <2>0, <2>5, <2>9, SettleIs
  <2>10. ~RetryBlocked /\ ~Keep /\ ~Restore
    BY <1>1, <2>0 DEF RetryBlocked, RetryDead, RetryHold, Keep, Restore
  <2>11. ASSUME NEW r \in Reconcilers, Read(r) \/ PassDies(r)
         PROVE  Settled' /\ proj'.own = "detached"
    BY <2>5, <2>11 DEF Read, PassDies
  <2>12. ASSUME Load \/ Look \/ \E kind \in Faults : LookFails(kind)
        PROVE  Settled' /\ proj'.own = "detached"
    BY <2>5, <2>12 DEF Load, Look, LookFails
  <2>13. ASSUME Pause \/ Resume \/ Acknowledge \/ Surroundings \/ UNCHANGED vars
        PROVE  Settled' /\ proj'.own = "detached"
    BY <2>5, <2>13 DEF Pause, Resume, Acknowledge, Surroundings, SourceChanges, AgesOut, Wakeup,
                       Touch, Outage, Reconnect, vars
  <2>14. Settled' /\ proj'.own = "detached"
    BY <2>6, <2>7, <2>8, <2>9, <2>10, <2>11, <2>12, <2>13
       DEF Next, Machine, Person, Execute, Executes
  <2> QED BY <2>3, <2>14
<1>2. CASE proj.own # "detached"
  <2>1. ASSUME proj' = proj \/ proj'.own # "detached" PROVE Settled'
    BY <1>2, <2>1 DEF Settled
  <2>2. ASSUME proj'.own = proj.own PROVE Settled'
    BY <1>2, <2>2 DEF Settled
  <2>3. ASSUME NEW r \in Reconcilers, Commit(r) PROVE Settled'
    <3>1. recon[r].version \in Versions
      BY <1>0, <2>3 DEF Reading, Commit
    <3>2. CASE RefreshEvidence(r)
      BY <1>0, <2>2, <3>1, <3>2, RefreshIs
    <3>3. CASE Intend(r)
      BY <1>0, <2>2, <3>1, <3>3, IntendIs
    <3>4. CASE Ignore(r)
      BY <2>1, <3>4 DEF Ignore
    <3> QED BY <2>3, <3>2, <3>3, <3>4 DEF Commit
  <2>4. ASSUME NEW w \in Workers, Executes(w) PROVE Settled'
    <3>1. worker[w].job \in Ids /\ Outcome(w)
      BY <2>4, ExecutorIs
    <3>2. CASE UNCHANGED <<proj, effect>>
      BY <2>1, <3>2
    <3>3. CASE Defer(w) \/ Goes(w)
      BY <2>1, <3>3 DEF Defer, Goes
    <3>4. ASSUME NEW retryable, NEW ambiguous, Fail(w, retryable, ambiguous) PROVE Settled'
      BY <1>0, <2>2, <3>1, <3>4, FailIs
    <3>5. CASE Supersede(w)
      BY <1>0, <2>2, <3>5, SupersedeIs
    <3>6. CASE HoldAmbiguous(w)
      <4>1. proj'.own = "ambiguous"
        BY <1>0, <3>1, <3>6, HoldAmbiguousIs
      <4> QED BY <2>1, <4>1
    <3>7. ASSUME NEW rev \in Nat, Succeed(w, rev) PROVE Settled'
      <4>1. proj'.own = proj.own \/ proj'.own = "attached"
        BY <1>0, <3>7, SucceedIs
      <4> QED BY <2>1, <2>2, <4>1
    <3>8. CASE Replace(w)
      <4>1. proj' = proj \/ Fail(w, FALSE, FALSE) \/ proj'.own = proj.own
        BY <1>0, <3>1, <3>8, ReplaceIs
      <4> QED BY <2>1, <2>2, <3>4, <4>1
    <3> QED BY <3>1, <3>2, <3>3, <3>4, <3>5, <3>6, <3>7, <3>8 DEF Outcome
  <2>5. ASSUME Settle PROVE Settled'
    <3>1. \/ proj' = proj \/ proj'.own = "ambiguous" \/ proj'.own = proj.own
      BY <1>0, <2>5, SettleIs, HoldForeignIs, HoldEditIs, RepairIs
    <3> QED BY <2>1, <2>2, <3>1
  <2>6. ASSUME RetryBlocked \/ Restore PROVE Settled'
    <3>1. proj'.own = proj.own
      BY <1>0, <2>6, ReconsiderIs DEF RetryBlocked, RetryDead, RetryHold, Restore, Recover,
                                      Projection
    <3> QED BY <2>2, <3>1
  <2>7. ASSUME Keep PROVE Settled'
    <3>1. EditHold(proj) /\ effect' = effect
          /\ proj' = [proj EXCEPT !.own = "detached", !.status = "converged",
                                  !.rec = "none", !.code = "none"]
      BY <2>7 DEF Keep
    <3>2. Queued(effect) = {}
      BY <1>0, <3>1, NothingQueued DEF HoldWaits, NoDeadHold
    <3>3. proj'.status = "converged"
      BY <1>0, <3>1 DEF Projection
    <3> QED BY <3>1, <3>2, <3>3 DEF Settled, Queued
  <2>8. ASSUME NEW r \in Reconcilers, Read(r) \/ PassDies(r) PROVE Settled'
    BY <2>1, <2>8 DEF Read, PassDies
  <2>9. ASSUME NEW w \in Workers, NEW e \in Ids, Lease(w, e) PROVE Settled'
    BY <2>1, <2>9 DEF Lease
  <2>10. ASSUME Load \/ Look \/ \E kind \in Faults : LookFails(kind) PROVE Settled'
    BY <2>1, <2>10 DEF Load, Look, LookFails
  <2>11. ASSUME Pause \/ Resume \/ Acknowledge \/ Surroundings \/ UNCHANGED vars PROVE Settled'
    BY <2>1, <2>11 DEF Pause, Resume, Acknowledge, Surroundings, SourceChanges, AgesOut, Wakeup,
                       Touch, Outage, Reconnect, vars
  <2>12. Settled'
    BY <2>3, <2>4, <2>5, <2>6, <2>7, <2>8, <2>9, <2>10, <2>11
       DEF Next, Machine, Person, Execute, Executes
  <2> QED BY <1>2, <2>12
<1> QED BY <1>1, <1>2

\* DetachedIsFinal: a copy that was kept and detached is never attached or written again,
\* as long as no dead effect is left over when an edit waits for its decision.
THEOREM DetachedHolds == Spec /\ []NoDeadHold => DetachedIsFinal
<1>1. Init => Settled
  BY DEF Init, Settled, NoProjection
<1>2. Base /\ HoldWaits /\ NoDeadHold /\ Settled /\ [Next]_vars =>
         /\ Settled'
         /\ [proj.own = "detached" => proj'.own = "detached" /\ \A g \in Gens : ~Wrote(g)]_vars
  BY NextSettled
<1> QED BY <1>1, <1>2, BaseInvariant, HoldWaitsHolds, PTL DEF Spec, DetachedIsFinal
=============================================================================
