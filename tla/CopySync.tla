------------------------------ MODULE CopySync ------------------------------
(***************************************************************************)
(* The life of one managed copy: a source occurrence, the projection that  *)
(* records its copy, the outbox of provider effects and the destination    *)
(* calendar, as driven by                                                  *)
(*   - the reconciler           (server/src/sync/reconciliation.ts),       *)
(*   - the outbox executor      (server/src/sync/effects.ts),              *)
(*   - the destination verifier (server/src/sync/verification.ts),         *)
(*   - notices and their resolution (server/src/sync/notices.ts),          *)
(*   - pause, resume and retry  (server/src/policy/service.ts).            *)
(*                                                                         *)
(* A database transaction is one step, except the executor's: it holds the *)
(* policy, effect, projection and source rows locked across its provider   *)
(* calls, and each call is a step of its own.  Run-after delays are not    *)
(* modelled: a waiting effect may be taken at any time.                    *)
(***************************************************************************)
EXTENDS Naturals

CONSTANTS
    Workers, Reconcilers,
    MaxVersion,   \* the source occurrence is observed in versions 1 .. MaxVersion
    Copy,         \* Copy[v]: version v after selection and privacy, or "none" if not selected
    MayAge,       \* whether the occurrence may leave the policy's horizon
    OnEdit, OnDelete,  \* the policy's destination-edit behaviour: "repair" or "hold"
    MaxAttempts,  \* attempts after which an effect is dead (10 in the code)
    MaxQueue,     \* bound: effects of the projection that are not finished
    MaxGen,       \* bound: generations of the copy
    Faults,       \* the provider and process faults that may happen
    MaxFaults,    \* bound: how many of them
    MaxTouches,   \* bound: direct changes of the copy on the destination calendar
    MaxPauses,    \* bound: pauses of the policy
    MaxOutages,   \* bound: disconnections and role changes
    NoWorker

AllFaults == {"refused", "rejected", "auth", "lost", "applied", "died", "stall"}

ASSUME CopyAssumption ==
    /\ MaxVersion \in Nat \ {0} /\ MaxAttempts \in Nat \ {0}
    /\ MaxQueue \in Nat \ {0} /\ MaxGen \in Nat \ {0}
    /\ MaxFaults \in Nat /\ MaxTouches \in Nat /\ MaxPauses \in Nat /\ MaxOutages \in Nat
    /\ DOMAIN Copy = 1..MaxVersion
    /\ \A v \in 1..MaxVersion : Copy[v] # "edited"
    /\ OnEdit \in {"repair", "hold"} /\ OnDelete \in {"repair", "hold"}
    /\ MayAge \in BOOLEAN
    /\ Faults \subseteq AllFaults
    /\ NoWorker \notin Workers

VARIABLES
    source,   \* [version, horizon]: the observation row, and whether its time is in the horizon
    policy,   \* "active" or "paused"
    conn,     \* "on", "source_off" or "destination_off"
    wake,     \* a reconcile_policy job waits in the queue
    proj,     \* the projections row
    effect,   \* effect[e]: the outbox_effects rows that are not finished
    dest,     \* dest[g]: the event under the managed id of generation g
    worker,   \* worker[w]: the executor of each worker process
    recon,    \* recon[r]: reconcile passes between their reads and their commit
    check,    \* the verifier between its load, its provider read and its commit
    notice,   \* the latest notice of a held destination edit
    used      \* [faults, touches, pauses, outages]: how much of each bound is used

vars == <<source, policy, conn, wake, proj, effect, dest, worker, recon, check, notice, used>>

Versions == 1..MaxVersion
Gens == 1..MaxGen
Ids == 1..MaxQueue
Bodies == {Copy[v] : v \in Versions} \ {"none"}
Ops == {"create", "update", "delete"}
Unfinished == {"pending", "leased", "retry"}

\* desired_state with desired_hash: the transformed content and its generation marker.
NoCopy == [body |-> "none", gen |-> 0]
Desired == [body : Bodies, gen : Gens] \cup {NoCopy}

\* A destination event: its content, the generation its private ownership markers
\* name (0: none, or another owner's) and its revision.
Event == [st : {"never", "live", "gone"}, body : Bodies \cup {"none", "edited"},
          mark : Gens \cup {0}, rev : Nat]
NoEvent == [st |-> "never", body |-> "none", mark |-> 0, rev |-> 0]

\* destination_event_id and destination_etag are set and cleared together: etag 0
\* is the null of both, and the id is otherwise the managed id of the generation.
Projection ==
    [status : {"absent", "pending", "retrying", "converged", "failed", "held", "deleted"},
     own    : {"attached", "ambiguous", "detached"},
     basis  : Versions \cup {0},        \* source_basis_hash
     gen    : Gens,
     etag   : Nat,
     want   : Desired,
     rec    : Ops \cup {"none"},        \* recovery_operation
     code   : {"none", "edit_hold", "other"}]   \* safe_error_code

NoProjection == [status |-> "absent", own |-> "attached", basis |-> 0, gen |-> 1,
                 etag |-> 0, want |-> NoCopy, rec |-> "none", code |-> "none"]

Effect ==
    [state  : Unfinished \cup {"none", "dead"},
     op     : Ops,
     basis  : Versions \cup {0},
     want   : Desired,
     mode   : {"plain", "ambiguous"},   \* ambiguous: an earlier attempt may have been applied
     tries  : Nat,                      \* attempt_count
     owner  : Workers \cup {NoWorker},
     before : SUBSET Ids]               \* the unfinished effects ordered before this one

NoEffect == [state |-> "none", op |-> "create", basis |-> 0, want |-> NoCopy, mode |-> "plain",
             tries |-> 0, owner |-> NoWorker, before |-> {}]

\* reread and rewrite are the second lookup and write of an update that met a 404.
Worker == [pc : {"idle", "leased", "lookup", "write", "reread", "rewrite"},
           job : Ids \cup {0}, call : Ops, rev : Nat]
Rest == [pc |-> "idle", job |-> 0, call |-> "create", rev |-> 0]

Pass == [pc : {"idle", "read"}, version : Versions \cup {0}, mark : SUBSET Ids]
NoPass == [pc |-> "idle", version |-> 0, mark |-> {}]

Sights == {"missing", "foreign", "drifted"}
Check == [pc : {"idle", "loaded", "seen"}, gen : Gens, etag : Nat, want : Desired,
          basis : Versions \cup {0}, sight : Sights, rev : Nat]
NoCheck == [pc |-> "idle", gen |-> 1, etag |-> 0, want |-> NoCopy, basis |-> 0,
            sight |-> "missing", rev |-> 0]

Init ==
    /\ source = [version |-> 1, horizon |-> "inside"]
    /\ policy = "active" /\ conn = "on" /\ wake = TRUE
    /\ proj = NoProjection
    /\ effect = [e \in Ids |-> NoEffect]
    /\ dest = [g \in Gens |-> NoEvent]
    /\ worker = [w \in Workers |-> Rest]
    /\ recon = [r \in Reconcilers |-> NoPass]
    /\ check = NoCheck
    /\ notice = "none"
    /\ used = [faults |-> 0, touches |-> 0, pauses |-> 0, outages |-> 0]

-----------------------------------------------------------------------------
(* The outbox as a value: finishing an effect and inserting one.           *)

Queued(fx) == {e \in Ids : fx[e].state # "none"}
Waiting(fx) == {e \in Ids : fx[e].state \in Unfinished}
Dead(fx) == {e \in Ids : fx[e].state = "dead"}
Free(fx) == Ids \ Queued(fx)

\* A succeeded or superseded effect blocks nobody and is only ever cleaned up.
Finish(fx, e) ==
    [x \in Ids |-> IF x = e THEN NoEffect ELSE [fx[x] EXCEPT !.before = @ \ {e}]]

NewEffect(op, basis, want, mode) ==
    [NoEffect EXCEPT !.state = "pending", !.op = op, !.basis = basis, !.want = want, !.mode = mode]

\* Insert an effect after those in first and before all others of the projection.
Insert(fx, new, first) ==
    LET e == CHOOSE i \in Free(fx) : \A j \in Free(fx) : i <= j
    IN  [x \in Ids |->
           IF x = e THEN [new EXCEPT !.before = first]
           ELSE IF x \in Queued(fx) \ first THEN [fx[x] EXCEPT !.before = @ \cup {e}]
           ELSE fx[x]]

AppendEffect(fx, new) == Insert(fx, new, Queued(fx))

\* The executor's transaction holds the policy, effect, projection and source rows.
Locked == \E w \in Workers : worker[w].pc \notin {"idle", "leased"}

Has(p) == p.etag # 0

\* isDestinationEditHold: a held copy that waits for a person's decision.
EditHold(p) == p.status = "held" /\ p.own = "attached" /\ p.code = "edit_hold"

-----------------------------------------------------------------------------
(* The reconciler.                                                         *)

Included(v) == source.horizon = "inside" /\ Copy[v] # "none"

\* A deleted copy's row is a retained identity: the evaluator sees no projection.
Retained(p) == p.status = "deleted" /\ ~Has(p)

\* Mutant: a detached copy is evaluated like an attached one.
OperationForgetsDetach(p, v, new) ==
    IF p.status = "absent" \/ Retained(p) THEN (IF Included(v) THEN "create" ELSE "none")
    ELSE IF ~Included(v)                  THEN "delete"
    ELSE IF ~Has(p)                       THEN "create"
    ELSE IF p.want \notin {NoCopy, new}   THEN "update"
    ELSE "none"

\* Mutant: a copy that exists is not compared with the new desired copy.
OperationForgetsUpdate(p, v, new) ==
    IF p.status = "absent" \/ Retained(p) THEN (IF Included(v) THEN "create" ELSE "none")
    ELSE IF p.own = "detached"            THEN "none"
    ELSE IF ~Included(v)                  THEN "delete"
    ELSE IF ~Has(p)                       THEN "create"
    ELSE "none"

\* evaluatePolicy's operation; an ambiguous copy is shadow-evaluated as attached.
\* Observations and policies are valid here: the selection 'invalid', which also asks
\* for no operation, is not represented.
Operation(p, v, new) ==
    IF p.status = "absent" \/ Retained(p) THEN (IF Included(v) THEN "create" ELSE "none")
    ELSE IF p.own = "detached"            THEN "none"
    ELSE IF ~Included(v)                  THEN "delete"
    ELSE IF ~Has(p)                       THEN "create"
    ELSE IF p.want \notin {NoCopy, new}   THEN "update"
    ELSE "none"

\* evaluatePolicy for version v: the operation and the desired copy.
Evaluate(p, v) ==
    LET new == [body |-> Copy[v], gen |-> p.gen]
    IN  [op   |-> Operation(p, v, new),
         want |-> IF Included(v) /\ (p.own # "detached" \/ Retained(p)) THEN new ELSE NoCopy]

\* recoveryOperationForResult.
Recovery(v, op) ==
    IF Included(v) THEN (IF op = "create" THEN "create" ELSE "update")
    ELSE IF op = "delete" THEN "delete" ELSE "none"

\* A reconcile_policy job starts: nothing happens while the policy is paused or a
\* connection is not authorised; otherwise the observations are read.
Read(r) ==
    /\ wake /\ recon[r].pc = "idle"
    /\ wake' = FALSE
    /\ IF policy = "active" /\ conn = "on"
       THEN recon' = [recon EXCEPT ![r] = [pc |-> "read", version |-> source.version,
                                           mark |-> Queued(effect)]]
       ELSE UNCHANGED recon
    /\ UNCHANGED <<source, policy, conn, proj, effect, dest, worker, check, notice, used>>

\* A projection whose next step is a person's, or that has a dead effect.
Blocked == Dead(effect) # {} \/ proj.own = "ambiguous" \/ EditHold(proj)

\* reconcileObservation of a blocked projection: refresh the recovery evidence only.
RefreshEvidence(r) ==
    LET v == recon[r].version
        res == Evaluate(proj, v)
        rec == Recovery(v, res.op)
    IN  /\ proj.status # "absent" /\ Blocked
        /\ proj' = [proj EXCEPT
               !.basis = v, !.rec = rec, !.want = res.want,
               !.status = IF proj.own = "ambiguous" \/ EditHold(proj) THEN "held" ELSE "failed",
               !.code = IF rec # "none" /\ Dead(effect) = {} /\ @ # "none" THEN @ ELSE "other"]
        /\ UNCHANGED effect

\* reconcileObservation otherwise: the projection and its effect in one transaction.
\* created_at is when the transaction began, so effects inserted since the pass
\* began may be ordered on either side of the new one.
Intend(r) ==
    LET v == recon[r].version
        res == Evaluate(proj, v)
        status == IF res.op # "none" THEN "pending"
                  ELSE IF Retained(proj) THEN "deleted" ELSE "converged"
    IN  /\ proj.status = "absent" \/ ~Blocked
        /\ proj.status # "absent" \/ res.op # "none"
        /\ proj' = [proj EXCEPT !.basis = v, !.want = res.want, !.status = status,
                                !.rec = "none", !.code = "none"]
        /\ IF res.op = "none" THEN UNCHANGED effect
           ELSE /\ Free(effect) # {}
                /\ \E first \in SUBSET Queued(effect) :
                      /\ recon[r].mark \cap Queued(effect) \subseteq first
                      /\ \A e \in first : effect[e].before \subseteq first
                      /\ effect' = Insert(effect, NewEffect(res.op, v, res.want, "plain"), first)

\* No projection and nothing to do.
Ignore(r) ==
    /\ proj.status = "absent" /\ ~Included(recon[r].version)
    /\ UNCHANGED <<proj, effect>>

\* The transaction of the pass that reconciles the occurrence.  Pausing or
\* disconnecting since Read does not stop it.
Commit(r) ==
    /\ recon[r].pc = "read" /\ ~Locked
    /\ RefreshEvidence(r) \/ Intend(r) \/ Ignore(r)
    /\ recon' = [recon EXCEPT ![r] = NoPass]
    /\ UNCHANGED <<source, policy, conn, wake, dest, worker, check, notice, used>>

\* The worker of a pass dies: the job comes back (module JobQueue).
PassDies(r) ==
    /\ recon[r].pc = "read" /\ "died" \in Faults /\ used.faults < MaxFaults
    /\ used' = [used EXCEPT !.faults = @ + 1]
    /\ recon' = [recon EXCEPT ![r] = NoPass]
    /\ wake' = TRUE
    /\ UNCHANGED <<source, policy, conn, proj, effect, dest, worker, check, notice>>

-----------------------------------------------------------------------------
(* The outbox executor.                                                    *)

\* The rows an executor step leaves alone.
Elsewhere == <<source, policy, recon, check, notice>>

Release(w) == worker' = [worker EXCEPT ![w] = Rest]
Stage(w, pc, call, rev) ==
    worker' = [worker EXCEPT ![w] = [@ EXCEPT !.pc = pc, !.call = call, !.rev = rev]]

\* Mutant: the leases of dead workers are never reaped.
AbandonedNever(e) == FALSE

\* A leased effect whose worker is no longer at it.
Abandoned(e) ==
    /\ effect[e].state = "leased"
    /\ worker[effect[e].owner].pc = "idle" \/ worker[effect[e].owner].job # e

\* Nothing of the same projection is ordered before a leased effect.
Head(e) == effect[e].before = {}

\* Mutant: lease() does not count the attempt that defer() takes back.
LeaseUncounted(w, e) ==
    /\ worker[w].pc = "idle" /\ ~Locked
    /\ Head(e)
    /\ \/ effect[e].state \in {"pending", "retry"} /\ UNCHANGED used
       \/ Abandoned(e) /\ UNCHANGED used
       \/ /\ effect[e].state = "leased" /\ ~Abandoned(e)
          /\ "stall" \in Faults /\ used.faults < MaxFaults
          /\ used' = [used EXCEPT !.faults = @ + 1]
    /\ effect' = [effect EXCEPT ![e] = [@ EXCEPT
           !.state = "leased", !.owner = w,
           !.mode = IF effect[e].state = "leased" THEN "ambiguous" ELSE effect[e].mode]]
    /\ worker' = [worker EXCEPT ![w] = [Rest EXCEPT !.pc = "leased", !.job = e]]
    /\ UNCHANGED <<conn, wake, proj, dest>> /\ UNCHANGED Elsewhere

\* lease(): an expired lease comes back as ambiguous; the head effect is taken.
\* The lease of a worker that is at it runs out only through a "stall".
Lease(w, e) ==
    /\ worker[w].pc = "idle" /\ ~Locked
    /\ Head(e)
    /\ \/ effect[e].state \in {"pending", "retry"} /\ UNCHANGED used
       \/ Abandoned(e) /\ UNCHANGED used
       \/ /\ effect[e].state = "leased" /\ ~Abandoned(e)
          /\ "stall" \in Faults /\ used.faults < MaxFaults
          /\ used' = [used EXCEPT !.faults = @ + 1]
    /\ effect' = [effect EXCEPT ![e] = [@ EXCEPT
           !.state = "leased", !.owner = w, !.tries = effect[e].tries + 1,
           !.mode = IF effect[e].state = "leased" THEN "ambiguous" ELSE effect[e].mode]]
    /\ worker' = [worker EXCEPT ![w] = [Rest EXCEPT !.pc = "leased", !.job = e]]
    /\ UNCHANGED <<conn, wake, proj, dest>> /\ UNCHANGED Elsewhere

\* The row still belongs to this worker's lease.
Holder(w) == LET e == worker[w].job IN effect[e].state = "leased" /\ effect[e].owner = w

\* defer(): the effect waits for resume; the attempt does not count.
Defer(w) ==
    LET e == worker[w].job
    IN  /\ effect' = [effect EXCEPT ![e] = [@ EXCEPT
               !.state = "retry", !.tries = effect[e].tries - 1, !.owner = NoWorker,
               !.mode = "plain"]]
        /\ Release(w)
        /\ UNCHANGED <<conn, wake, proj, dest, used>>

\* fail(): back to retry, or dead when the error is final or attempts are used up.
Fail(w, retryable, ambiguous) ==
    LET e == worker[w].job
        dead == ~retryable \/ effect[e].tries >= MaxAttempts
    IN  /\ effect' = [effect EXCEPT ![e] = [@ EXCEPT
               !.state = IF dead THEN "dead" ELSE "retry", !.owner = NoWorker,
               !.mode = IF ambiguous THEN "ambiguous" ELSE effect[e].mode]]
        /\ proj' = [proj EXCEPT !.status = IF dead THEN "failed" ELSE "retrying", !.code = "other"]
        /\ Release(w)

\* The source or the projection changed after the effect was planned.
Supersede(w) ==
    /\ effect' = Finish(effect, worker[w].job)
    /\ proj' = [proj EXCEPT !.status = "failed", !.code = "other"]
    /\ wake' = TRUE
    /\ Release(w)
    /\ UNCHANGED <<conn, dest, used>>

\* holdAmbiguous(): dead, and the copy is held for review.
HoldAmbiguous(w) ==
    /\ effect' = [effect EXCEPT ![worker[w].job] = [@ EXCEPT
           !.state = "dead", !.owner = NoWorker, !.mode = "ambiguous"]]
    /\ proj' = [proj EXCEPT !.own = "ambiguous", !.status = "held", !.code = "other"]
    /\ Release(w)

\* succeed(): the outcome of the effect's operation at revision rev.
Succeed(w, rev) ==
    LET e == worker[w].job
    IN  /\ effect[e].op = "delete" => proj.gen < MaxGen
        /\ effect' = Finish(effect, e)
        /\ proj' = IF effect[e].op = "delete"
                   THEN [proj EXCEPT !.rec = "none", !.etag = 0, !.gen = @ + 1,
                                     !.status = "deleted", !.code = "none"]
                   ELSE [proj EXCEPT !.rec = "none", !.etag = rev, !.status = "converged",
                                     !.own = "attached", !.code = "none"]
        /\ Release(w)

\* Mutant: the effect is trusted whatever the source is by now.
CurrentBasisAny(e) == effect[e].basis = proj.basis

\* The effect was planned for the source as it is now and as the projection knows it.
CurrentBasis(e) == effect[e].basis = proj.basis /\ effect[e].basis = source.version

\* The calls an effect needs: a lookup first when the operation is a create or the
\* effect is ambiguous, else the write itself; a delete of nothing needs none.
Start(w) ==
    LET e == worker[w].job
        asks == effect[e].op = "create" \/ effect[e].mode = "ambiguous"
        id == Has(proj) \/ effect[e].op = "create"
              \/ (effect[e].op = "delete" /\ effect[e].mode = "ambiguous")
    IN  /\ UNCHANGED <<conn, wake, dest, used>>
        /\ \/ /\ id /\ asks
              /\ Stage(w, "lookup", effect[e].op, 0) /\ UNCHANGED <<proj, effect>>
           \/ /\ id /\ ~asks
              /\ Stage(w, "write", effect[e].op, proj.etag) /\ UNCHANGED <<proj, effect>>
           \/ /\ ~id /\ effect[e].op = "update"
              /\ Stage(w, "write", "create", 0) /\ UNCHANGED <<proj, effect>>
           \/ /\ ~id /\ effect[e].op = "delete"
              /\ Succeed(w, 0)

\* executeOneLocked up to its first provider call.
Begin(w) ==
    /\ worker[w].pc = "leased" /\ ~Locked
    /\ \/ /\ ~Holder(w)
          /\ Release(w)
          /\ UNCHANGED <<conn, wake, proj, effect, dest, used>>
       \/ /\ Holder(w) /\ policy = "paused"
          /\ Defer(w)
       \/ /\ Holder(w) /\ policy = "active" /\ conn # "on"
          /\ Fail(w, FALSE, FALSE)
          /\ UNCHANGED <<conn, wake, dest, used>>
       \/ /\ Holder(w) /\ policy = "active" /\ conn = "on" /\ ~CurrentBasis(worker[w].job)
          /\ Supersede(w)
       \/ /\ Holder(w) /\ policy = "active" /\ conn = "on" /\ CurrentBasis(worker[w].job)
          /\ Start(w)
    /\ UNCHANGED Elsewhere

\* Mutant: the generation advances without the provenance of the desired copy.
ReplaceOldMarkers(w) ==
    LET e == worker[w].job
    IN  /\ proj.gen < MaxGen
        /\ effect' = AppendEffect(Finish(effect, e),
                         NewEffect("create", effect[e].basis, proj.want, "plain"))
        /\ proj' = [proj EXCEPT !.gen = @ + 1, !.etag = 0,
                                !.status = "pending", !.rec = "none", !.code = "other"]
        /\ Release(w)

\* scheduleReplacementAfterMissing(): a newer intent takes over, stale evidence is
\* refused, and otherwise a create of the next generation replaces the effect.
Replace(w) ==
    LET e == worker[w].job
        others == Waiting(effect) \ {e}
        fresh == proj.want # NoCopy /\ proj.want.gen = proj.gen /\ effect[e].want = proj.want
        want == [proj.want EXCEPT !.gen = @ + 1]
    IN  \/ /\ others # {}
           /\ effect' = Finish(effect, e)
           /\ Release(w) /\ UNCHANGED proj
        \/ /\ others = {} /\ ~fresh
           /\ Fail(w, FALSE, FALSE)
        \/ /\ others = {} /\ fresh /\ proj.gen < MaxGen
           /\ effect' = AppendEffect(Finish(effect, e),
                            NewEffect("create", effect[e].basis, want, "plain"))
           /\ proj' = [proj EXCEPT !.gen = @ + 1, !.etag = 0, !.want = want,
                                   !.status = "pending", !.rec = "none", !.code = "other"]
           /\ Release(w)

\* The event under the managed id of the current generation.
Target == dest[proj.gen]

\* Mutant: any event under the managed id is taken for the managed copy.
BelongsAny == TRUE

\* eventBelongsToProjection, for that event.
Belongs == Target.mark = proj.gen

\* The provider's getEvent before a write.
Lookup(w) ==
    LET e == worker[w].job
        op == effect[e].op
        next == IF worker[w].pc = "reread" THEN "rewrite" ELSE "write"
    IN  /\ worker[w].pc \in {"lookup", "reread"}
        /\ \/ /\ Target.st # "live" /\ op = "create" /\ effect[e].mode = "plain"
              /\ Stage(w, next, "create", 0) /\ UNCHANGED <<proj, effect>>
           \/ /\ Target.st # "live" /\ op = "delete"
              /\ Succeed(w, 0)
           \/ /\ Target.st # "live"
              /\ op = "update" \/ (op = "create" /\ effect[e].mode = "ambiguous")
              /\ Replace(w)
           \/ /\ Target.st = "live" /\ ~Belongs
              /\ HoldAmbiguous(w)
           \/ /\ Target.st = "live" /\ Belongs
              /\ Stage(w, next, IF op = "delete" THEN "delete" ELSE "update", Target.rev)
              /\ UNCHANGED <<proj, effect>>
        /\ UNCHANGED <<conn, wake, dest, used>> /\ UNCHANGED Elsewhere

\* The write that worker w is about to make would be carried out by the provider.
Accepted(w) ==
    CASE worker[w].call = "create" -> Target.st = "never"
      [] worker[w].call = "update" -> Target.st = "live" /\ worker[w].rev = Target.rev
      [] OTHER                     -> Target.st # "live" \/ worker[w].rev = Target.rev

\* What it leaves under the id of the current generation.
Written(w) ==
    LET want == effect[worker[w].job].want
    IN  IF worker[w].call = "delete"
        THEN IF Target.st = "live" THEN [Target EXCEPT !.st = "gone"] ELSE Target
        ELSE [st |-> "live", body |-> want.body, mark |-> want.gen, rev |-> Target.rev + 1]

Writing(w) == worker[w].pc \in {"write", "rewrite"}

\* The provider's createEvent, updateEvent or deleteEvent, answered.
Write(w) ==
    /\ Writing(w)
    /\ \/ /\ Accepted(w)
          /\ dest' = [dest EXCEPT ![proj.gen] = Written(w)]
          /\ Succeed(w, Target.rev + 1)
       \/ /\ worker[w].call = "update" /\ Target.st # "live"
          /\ IF worker[w].pc = "write" /\ effect[worker[w].job].op = "update"
             THEN Stage(w, "reread", "update", 0) /\ UNCHANGED <<proj, effect>>
             ELSE Fail(w, FALSE, FALSE)
          /\ UNCHANGED dest
       \/ /\ ~Accepted(w)
          /\ worker[w].call = "update" => Target.st = "live"
          /\ HoldAmbiguous(w)
          /\ UNCHANGED dest
    /\ UNCHANGED <<conn, wake, used>> /\ UNCHANGED Elsewhere

\* The errors after which a write may or may not have been applied.
Uncertain(kind) == kind \in {"lost", "applied"}

\* A provider or token call of the executor fails: throttled ("refused"), rejected
\* for good, unauthorised, or (writes only) without an answer, whether the write
\* was lost on the way or applied.
CallFails(w, kind) ==
    /\ kind \in Faults /\ used.faults < MaxFaults
    /\ worker[w].pc \notin {"idle", "leased"}
    /\ kind \in {"lost", "applied"} => Writing(w)
    /\ kind = "applied" => Accepted(w)
    /\ used' = [used EXCEPT !.faults = @ + 1]
    /\ dest' = IF kind = "applied" THEN [dest EXCEPT ![proj.gen] = Written(w)] ELSE dest
    /\ conn' = IF kind = "auth" THEN "destination_off" ELSE conn
    /\ Fail(w, kind \notin {"rejected", "auth"}, Uncertain(kind))
    /\ UNCHANGED wake /\ UNCHANGED Elsewhere

\* The worker process dies: before a call, or after its write was applied.  The
\* transaction rolls back and the effect stays leased until the lease runs out.
Dies(w) ==
    /\ "died" \in Faults /\ used.faults < MaxFaults
    /\ worker[w].pc # "idle"
    /\ used' = [used EXCEPT !.faults = @ + 1]
    /\ \/ UNCHANGED dest
       \/ Writing(w) /\ Accepted(w) /\ dest' = [dest EXCEPT ![proj.gen] = Written(w)]
    /\ Release(w)
    /\ UNCHANGED <<conn, wake, proj, effect>> /\ UNCHANGED Elsewhere

-----------------------------------------------------------------------------
(* The destination verifier.                                               *)

\* claimDue and loadTarget: a converged, attached copy with complete evidence.
Load ==
    /\ check.pc = "idle"
    /\ policy = "active" /\ conn # "destination_off"
    /\ proj.status = "converged" /\ proj.own = "attached" /\ Has(proj) /\ proj.want # NoCopy
    /\ check' = [NoCheck EXCEPT !.pc = "loaded", !.gen = proj.gen, !.etag = proj.etag,
                                !.want = proj.want, !.basis = proj.basis]
    /\ UNCHANGED <<source, policy, conn, wake, proj, effect, dest, worker, recon, notice, used>>

\* getEvent and classifyDestinationVerification; a current copy needs nothing.
Look ==
    /\ check.pc = "loaded"
    /\ LET seen == dest[check.gen]
           now(s) == [check EXCEPT !.pc = "seen", !.sight = s, !.rev = seen.rev]
       IN  \/ /\ seen.st # "live"
              /\ check' = now("missing")
           \/ /\ seen.st = "live" /\ seen.mark # check.gen
              /\ check' = now("foreign")
           \/ /\ seen.st = "live" /\ seen.mark = check.gen /\ seen.rev # check.etag
              /\ check' = now("drifted")
           \/ /\ seen.st = "live" /\ seen.mark = check.gen /\ seen.rev = check.etag
              /\ check' = NoCheck
    /\ UNCHANGED <<source, policy, conn, wake, proj, effect, dest, worker, recon, notice, used>>

\* The verifier's read fails, or its worker dies before the verdict is applied.
LookFails(kind) ==
    /\ check.pc # "idle" /\ used.faults < MaxFaults
    /\ kind \in Faults \cap {"refused", "auth", "died"}
    /\ check.pc = "seen" => kind = "died"
    /\ used' = [used EXCEPT !.faults = @ + 1]
    /\ conn' = IF kind = "auth" THEN "destination_off" ELSE conn
    /\ check' = NoCheck
    /\ UNCHANGED <<source, policy, wake, proj, effect, dest, worker, recon, notice>>

\* Mutant: the projection is not read again before a verdict is applied.
StillCurrentUnchecked == proj.status = "converged" /\ Waiting(effect) = {}

\* Mutant: an unfinished effect does not stop the verifier.
StillCurrentBusy ==
    /\ policy = "active"
    /\ proj.status = "converged" /\ proj.own = "attached"
    /\ proj.gen = check.gen /\ proj.etag = check.etag /\ proj.want = check.want

\* The projection is still the one that was loaded and no effect of it is unfinished.
StillCurrent ==
    /\ policy = "active"
    /\ proj.status = "converged" /\ proj.own = "attached"
    /\ proj.gen = check.gen /\ proj.etag = check.etag /\ proj.want = check.want
    /\ Waiting(effect) = {}

\* The desired copy carries the marker of the projection's own generation.
OwnEvidence == proj.want # NoCopy /\ proj.want.gen = proj.gen

\* holdOwnershipMismatch.
HoldForeign ==
    /\ check.sight = "foreign"
    /\ proj' = [proj EXCEPT !.status = "held", !.own = "ambiguous", !.rec = "update",
                            !.code = "other", !.etag = check.rev]
    /\ UNCHANGED <<effect, notice>>

\* planDestinationEditResponse.
Response == IF check.sight = "drifted" THEN OnEdit ELSE OnDelete

\* holdDestinationEdit: frozen for a decision, with a notice that asks for it.
HoldEdit ==
    /\ check.sight # "foreign" /\ Response = "hold" /\ OwnEvidence
    /\ proj' = [proj EXCEPT !.status = "held", !.code = "edit_hold",
           !.rec = IF check.sight = "missing" THEN "create" ELSE "update",
           !.etag = IF check.sight = "drifted" THEN check.rev ELSE @]
    /\ notice' = "unread"
    /\ UNCHANGED effect

\* scheduleRepair and destinationRepairGeneration: a missing copy comes back in the
\* next generation, an edited one is written over at the revision that was seen.
Repair ==
    LET next == IF check.sight = "missing" THEN proj.gen + 1 ELSE proj.gen
        want == [proj.want EXCEPT !.gen = next]
    IN  /\ check.sight # "foreign" /\ Response = "repair" /\ OwnEvidence
        /\ next \in Gens /\ Free(effect) # {}
        /\ effect' = AppendEffect(effect,
               NewEffect(IF check.sight = "missing" THEN "create" ELSE "update",
                         check.basis, want, "plain"))
        /\ proj' = [proj EXCEPT !.gen = next, !.want = want, !.status = "pending",
                                !.rec = "none", !.code = "other",
                                !.etag = IF check.sight = "drifted" THEN check.rev ELSE 0]
        /\ UNCHANGED notice

\* The verifier's transaction.
Settle ==
    /\ check.pc = "seen" /\ ~Locked
    /\ \/ StillCurrent /\ (HoldForeign \/ HoldEdit \/ Repair)
       \/ ~(StillCurrent /\ (check.sight = "foreign" \/ OwnEvidence))
          /\ UNCHANGED <<proj, effect, notice>>
    /\ check' = NoCheck
    /\ UNCHANGED <<source, policy, conn, wake, dest, worker, recon, used>>

-----------------------------------------------------------------------------
(* People: pause and resume, retry, and the decision about a held edit.    *)

\* Mutant: pausing does not wait for the row lock of a running effect.
PauseAnyTime ==
    /\ policy = "active" /\ used.pauses < MaxPauses
    /\ policy' = "paused"
    /\ used' = [used EXCEPT !.pauses = @ + 1]
    /\ UNCHANGED <<source, conn, wake, proj, effect, dest, worker, recon, check, notice>>

\* setPaused(true).
Pause ==
    /\ policy = "active" /\ used.pauses < MaxPauses
    /\ ~Locked
    /\ policy' = "paused"
    /\ used' = [used EXCEPT !.pauses = @ + 1]
    /\ UNCHANGED <<source, conn, wake, proj, effect, dest, worker, recon, check, notice>>

\* setPaused(false): both calendars must be usable; a reconcile job is queued.
Resume ==
    /\ policy = "paused" /\ conn = "on"
    /\ policy' = "active" /\ wake' = TRUE
    /\ UNCHANGED <<source, conn, proj, effect, dest, worker, recon, check, notice, used>>

\* The oldest dead effect can be replayed as it is.
Replayable(d) ==
    /\ CurrentBasis(d)
    /\ IF effect[d].op = "delete" THEN proj.want = NoCopy
       ELSE effect[d].want = proj.want /\ OwnEvidence

\* A projection has recovery evidence for its recovery operation.
RecoveryEvidence == IF proj.rec = "delete" THEN proj.want = NoCopy ELSE OwnEvidence

\* The recovery intent of retryBlocked and of a restore decision.
Recover(fx) ==
    /\ Free(fx) # {}
    /\ effect' = AppendEffect(fx, NewEffect(proj.rec, proj.basis, proj.want, "ambiguous"))
    /\ proj' = [proj EXCEPT !.rec = "none", !.status = "retrying", !.code = "none"]

\* Reconcile instead of replaying: the evidence no longer fits.
Reconsider(status) ==
    /\ proj' = [proj EXCEPT !.status = status, !.code = "other"]
    /\ wake' = TRUE

\* retryBlocked with a dead effect d, the oldest.
RetryDead(d) ==
    LET fx == Finish(effect, d)
    IN  /\ d \in Dead(effect) /\ effect[d].before \cap Dead(effect) = {}
        /\ \/ /\ Replayable(d)
              /\ effect' = [effect EXCEPT ![d] = [@ EXCEPT !.state = "retry", !.tries = 0,
                                                           !.mode = "ambiguous"]]
              /\ proj' = [proj EXCEPT !.rec = "none", !.status = "retrying", !.code = "none"]
              /\ UNCHANGED wake
           \/ /\ ~Replayable(d)
              /\ proj.rec # "none" /\ proj.basis = source.version /\ RecoveryEvidence
              /\ Recover(fx) /\ UNCHANGED wake
           \/ /\ ~Replayable(d)
              /\ ~(proj.rec # "none" /\ proj.basis = source.version /\ RecoveryEvidence)
              /\ Reconsider("failed") /\ effect' = fx

\* retryBlocked without one: only an ambiguous hold has anything to recover.
RetryHold ==
    /\ Dead(effect) = {}
    /\ proj.status = "held" /\ proj.own = "ambiguous" /\ proj.rec # "none"
    /\ \/ /\ proj.basis = source.version /\ RecoveryEvidence
          /\ Recover(effect) /\ UNCHANGED wake
       \/ /\ proj.basis # source.version
          /\ Reconsider("held") /\ UNCHANGED effect

RetryBlocked ==
    /\ ~Locked
    /\ (\E d \in Ids : RetryDead(d)) \/ RetryHold
    /\ UNCHANGED <<source, policy, conn, dest, worker, recon, check, notice, used>>

Open == notice \in {"unread", "acknowledged"}

Acknowledge ==
    /\ notice = "unread" /\ notice' = "acknowledged"
    /\ UNCHANGED <<source, policy, conn, wake, proj, effect, dest, worker, recon, check, used>>

\* resolve(keep_and_detach): the person's copy is theirs from now on.
Keep ==
    /\ Open /\ EditHold(proj) /\ ~Locked
    /\ proj' = [proj EXCEPT !.own = "detached", !.status = "converged",
                            !.rec = "none", !.code = "none"]
    /\ notice' = "resolved"
    /\ UNCHANGED <<source, policy, conn, wake, effect, dest, worker, recon, check, used>>

\* resolve(restore) on evidence that is current.  Otherwise hold_stale is thrown, which
\* also rolls back the reconcile job that was enqueued just before: nothing changes.
Restore ==
    /\ Open /\ EditHold(proj) /\ ~Locked
    /\ proj.rec # "none" /\ proj.basis = source.version /\ RecoveryEvidence
    /\ Recover(effect)
    /\ notice' = "resolved"
    /\ UNCHANGED <<source, policy, conn, wake, dest, worker, recon, check, used>>

-----------------------------------------------------------------------------
(* The surroundings: the source, the destination calendar, connections.    *)

\* A later observation of the occurrence is stored (sync/coordinator.ts).
SourceChanges ==
    /\ source.version < MaxVersion /\ ~Locked
    /\ source' = [source EXCEPT !.version = @ + 1]
    /\ UNCHANGED <<policy, conn, wake, proj, effect, dest, worker, recon, check, notice, used>>

\* Time passes and the occurrence leaves the policy's horizon.
AgesOut ==
    /\ MayAge /\ source.horizon = "inside"
    /\ source' = [source EXCEPT !.horizon = "outside"]
    /\ UNCHANGED <<policy, conn, wake, proj, effect, dest, worker, recon, check, notice, used>>

\* A reconcile_policy job is queued: by the end of a calendar sync, by the
\* scheduler's safety window or by a person.
Wakeup ==
    /\ ~wake /\ wake' = TRUE
    /\ UNCHANGED <<source, policy, conn, proj, effect, dest, worker, recon, check, notice, used>>

\* Someone edits the copy, deletes it, or replaces it by an event without the
\* ownership markers, directly on the destination calendar.
Touch ==
    /\ used.touches < MaxTouches
    /\ used' = [used EXCEPT !.touches = @ + 1]
    /\ \E g \in Gens :
          /\ dest[g].st = "live"
          /\ \/ dest' = [dest EXCEPT ![g] = [@ EXCEPT !.body = "edited", !.rev = dest[g].rev + 1]]
             \/ dest' = [dest EXCEPT ![g] = [@ EXCEPT !.st = "gone"]]
             \/ dest' = [dest EXCEPT ![g] = [@ EXCEPT !.body = "edited", !.mark = 0,
                                                      !.rev = dest[g].rev + 1]]
    /\ UNCHANGED <<source, policy, conn, wake, proj, effect, worker, recon, check, notice>>

\* A connection is lost or its role changed, and later restored.
Outage ==
    /\ conn = "on" /\ used.outages < MaxOutages
    /\ used' = [used EXCEPT !.outages = @ + 1]
    /\ conn' \in {"source_off", "destination_off"}
    /\ UNCHANGED <<source, policy, wake, proj, effect, dest, worker, recon, check, notice>>

Reconnect ==
    /\ conn # "on" /\ conn' = "on"
    /\ UNCHANGED <<source, policy, wake, proj, effect, dest, worker, recon, check, notice, used>>

-----------------------------------------------------------------------------
Execute(w) == (\E e \in Ids : Lease(w, e)) \/ Begin(w) \/ Lookup(w) \/ Write(w)

Machine ==
    \/ \E r \in Reconcilers : Read(r) \/ Commit(r) \/ PassDies(r)
    \/ \E w \in Workers : \/ Execute(w) \/ Dies(w)
                          \/ \E kind \in Faults : CallFails(w, kind)
    \/ Load \/ Look \/ Settle \/ \E kind \in Faults : LookFails(kind)

Person == Pause \/ Resume \/ RetryBlocked \/ Acknowledge \/ Keep \/ Restore

Surroundings == SourceChanges \/ AgesOut \/ Wakeup \/ Touch \/ Outage \/ Reconnect

Next == Machine \/ Person \/ Surroundings

Spec == Init /\ [][Next]_vars

\* The scheduler queues reconcile and verify jobs in every window (Wakeup, Load),
\* a queued job and a leased effect are worked on (module JobQueue), provider calls
\* end within 20 seconds, and paused policies and lost connections come back.
\* Nothing is assumed of people or of the source.
FairSpec ==
    /\ Spec
    /\ WF_vars(Wakeup) /\ WF_vars(Load) /\ WF_vars(Look) /\ WF_vars(Settle)
    /\ \A r \in Reconcilers : WF_vars(Read(r)) /\ WF_vars(Commit(r))
    /\ \A w \in Workers : WF_vars(Execute(w))
    /\ WF_vars(Reconnect) /\ WF_vars(Resume)

-----------------------------------------------------------------------------
(* Properties.                                                             *)

\* The shape of the rows and of the processes' local state.
TypeOK ==
    /\ source \in [version : Versions, horizon : {"inside", "outside"}]
    /\ policy \in {"active", "paused"}
    /\ conn \in {"on", "source_off", "destination_off"}
    /\ wake \in BOOLEAN
    /\ proj \in Projection
    /\ effect \in [Ids -> Effect]
    /\ dest \in [Gens -> Event]
    /\ worker \in [Workers -> Worker]
    /\ recon \in [Reconcilers -> Pass]
    /\ check \in Check
    /\ notice \in {"none", "unread", "acknowledged", "resolved"}
    /\ used \in [faults : 0..MaxFaults, touches : 0..MaxTouches,
                 pauses : 0..MaxPauses, outages : 0..MaxOutages]

\* The executor changed the destination in this step.
Wrote(g) == worker' # worker /\ dest'[g] # dest[g]

\* The policy row lock is held across the provider write: nothing is written after
\* pause has returned (effects.ts: "pause a strict execution boundary").
PauseIsBoundary == [][\A g \in Gens : Wrote(g) => policy = "active"]_vars

\* What is written is the source as it is observed at that moment, however long the
\* effect waited and whoever took it over: a stale intent never reaches the provider.
WritesAreCurrent ==
    [][\A g \in Gens : Wrote(g) /\ dest'[g].st = "live" => dest'[g].body = Copy[source.version]]_vars

\* An event without the projection's markers is never overwritten or deleted.
ForeignIsSafe == [][\A g \in Gens : dest[g].st = "live" /\ dest[g].mark = 0 => ~Wrote(g)]_vars

\* A copy carries the markers of the generation whose id it has, so that it can
\* always be recognised again.
MarkersMatch == \A g \in Gens : dest[g].st = "live" => dest[g].mark \in {0, g}

\* While a held edit waits for its decision nothing is under way that could
\* overwrite it, and the notice that asks for the decision is open.
HoldWaits == EditHold(proj) => Waiting(effect) = {} /\ Open

\* A copy that was kept and detached is never attached or written again.
DetachedIsFinal ==
    [][proj.own = "detached" => proj'.own = "detached" /\ \A g \in Gens : ~Wrote(g)]_vars

\* A projection that reports "converged" for the current source, with nothing under
\* way and no direct change on the destination, has a copy with the current content.
ConvergedIsTrue ==
    /\ proj.status = "converged" /\ proj.own = "attached" /\ Has(proj)
    /\ Waiting(effect) = {} /\ proj.basis = source.version
    /\ Target.st = "live" /\ Target.rev = proj.etag
    => Target.body = Copy[source.version]

\* A managed copy is only ever found under the current generation's id: no earlier
\* generation is left behind on the calendar.
NoCopyLeftBehind == \A g \in Gens : dest[g].st = "live" /\ dest[g].mark # 0 => g = proj.gen

\* The destination shows what the source and the policy ask for.
Shown ==
    IF Included(source.version)
    THEN proj.status = "converged" /\ Target.st = "live" /\ Target.body = Copy[source.version]
    ELSE \A g \in Gens : dest[g].st = "live" => dest[g].mark = 0

\* Unless a person has to decide or to retry, the copy comes to agree with the source
\* and stays so, whatever failed, was edited or was lost in between: it is brought back
\* while the occurrence is selected and deleted when it is not.  The code keeps the
\* second half only of copies whose create was answered (run copy_removed).
Converges == <>[](Blocked \/ proj.own = "detached" \/ Shown)
=============================================================================
