------------------------------ MODULE JobQueue ------------------------------
(***************************************************************************)
(* The PostgreSQL-backed job queue (server/src/jobs/queue.ts), the leased- *)
(* job runner with its heartbeat (server/src/jobs/leased-job.ts), the      *)
(* worker loop (server/src/commands/worker.ts) and the retention sweep of  *)
(* the scheduler (server/src/scheduler.ts).                                *)
(*                                                                         *)
(* Every database transaction is one step.  Wall-clock time is abstracted  *)
(* to two facts per row: whether its lease has run out and whether its     *)
(* run_after has come.  An owner is one incarnation of a worker process:   *)
(* the owner string holds a random token, so a restarted worker is a new   *)
(* owner and a crashed owner never acts again.                             *)
(***************************************************************************)
EXTENDS Naturals

CONSTANTS
    Jobs,         \* row identities available to the model
    Keys,         \* deduplication keys
    OnceKeys,     \* the keys the scheduler passes to enqueueOnce (one time window each)
    Owners,       \* worker incarnations
    MayCrash,     \* the incarnations that may crash
    MaxAttempts,  \* attempts after which a failure is final (10 in the code)
    AttemptCap,   \* bound of the model: no lease runs out from this attempt on
    NoKey, NoOwner, NoJob

ASSUME QueueAssumption ==
    /\ OnceKeys \subseteq Keys
    /\ MayCrash \subseteq Owners
    /\ MaxAttempts \in Nat \ {0}
    /\ AttemptCap \in Nat
    /\ NoKey \notin Keys
    /\ NoOwner \notin Owners
    /\ NoJob \notin Jobs

VARIABLES
    row,      \* row[j]: the scheduled_jobs row j, or an absent one
    worker,   \* worker[o]: what incarnation o is doing
    closed,   \* the windows that are over: the scheduler never asks for them again
    created   \* history: how many rows were ever inserted for each windowed key

vars == <<row, worker, closed, created>>

Live == {"pending", "leased", "retry"}
Terminal == {"succeeded", "dead"}
Outcomes == {"ok", "retryable", "fatal"}

Row == [key      : Keys \cup {NoKey},
        state    : Live \cup Terminal \cup {"absent"},
        owner    : Owners \cup {NoOwner},
        attempts : Nat,
        expires  : {"never", "later", "past"},   \* lease_expires_at
        after    : {"past", "later"}]            \* run_after

Worker == [pc      : {"idle", "dispatch", "confirm", "record", "gone"},
           job     : Jobs \cup {NoJob},
           attempt : Nat,                    \* LeasedJob.attemptCount
           beat    : {"held", "lost"},       \* the heartbeat's ownershipLost
           outcome : Outcomes]

NoRow == [key |-> NoKey, state |-> "absent", owner |-> NoOwner,
          attempts |-> 0, expires |-> "never", after |-> "later"]

Idle == [pc |-> "idle", job |-> NoJob, attempt |-> 0, beat |-> "held", outcome |-> "ok"]

Init ==
    /\ row = [j \in Jobs |-> NoRow]
    /\ worker = [o \in Owners |-> Idle]
    /\ closed = {}
    /\ created = [k \in OnceKeys |-> 0]

-----------------------------------------------------------------------------
(* Enqueueing.                                                             *)

Fresh(k) == [key |-> k, state |-> "pending", owner |-> NoOwner,
             attempts |-> 0, expires |-> "never", after |-> "past"]

\* Mutant: an index that forgets that a "retry" row is still live.
IndexWithoutRetry(k) == {j \in Jobs : row[j].key = k /\ row[j].state \in {"pending", "leased"}}

\* The partial unique index scheduled_jobs_active_dedupe_idx sees live rows only.
LiveWith(k) == {j \in Jobs : row[j].key = k /\ row[j].state \in Live}

\* Mutant: the lookup uses the partial index and misses completed rows.
RetainedLiveOnly(k) == LiveWith(k)

\* The history lookup of enqueueOnce sees retained terminal rows too.
RetainedWith(k) == {j \in Jobs : row[j].key = k /\ row[j].state # "absent"}

\* enqueue: insert ... on conflict do nothing.  A conflict is a stuttering step.
Enqueue(k) ==
    /\ k \notin OnceKeys
    /\ LiveWith(k) = {}
    /\ \E j \in Jobs :
          /\ row[j].state = "absent"
          /\ row' = [row EXCEPT ![j] = Fresh(k)]
    /\ UNCHANGED <<worker, closed, created>>

\* enqueueOnce under its advisory lock: never again while any row is retained.
EnqueueOnce(k) ==
    /\ k \in OnceKeys \ closed
    /\ RetainedWith(k) = {}
    /\ \E j \in Jobs :
          /\ row[j].state = "absent"
          /\ row' = [row EXCEPT ![j] = Fresh(k)]
    /\ created' = [created EXCEPT ![k] = @ + 1]
    /\ UNCHANGED <<worker, closed>>

-----------------------------------------------------------------------------
(* Leasing.                                                                *)

Expired(r) == r.state = "leased" /\ r.expires = "past"

\* The first statement of lease(): expired leases return to "retry".
Reaped(r) == IF Expired(r)
             THEN [r EXCEPT !.state = "retry", !.owner = NoOwner, !.expires = "never"]
             ELSE r

Leasable(r) == r.state \in {"pending", "retry"} /\ r.after = "past"

\* The second update of lease(): the row is the owner's for one lease period.
Taken(r, o) == [r EXCEPT !.state = "leased", !.owner = o,
                         !.attempts = @ + 1, !.expires = "later"]

\* Mutant: lease() returns the attempt count it read, not the one it wrote.
LeaseOldCount(o, j) ==
    /\ worker[o].pc = "idle"
    /\ Leasable(Reaped(row[j]))
    /\ row' = [i \in Jobs |-> IF i = j THEN Taken(row[i], o) ELSE Reaped(row[i])]
    /\ worker' = [worker EXCEPT ![o] = [pc |-> "dispatch", job |-> j,
                      attempt |-> row[j].attempts, beat |-> "held", outcome |-> "ok"]]
    /\ UNCHANGED <<closed, created>>

\* lease(owner, 1, seconds): one transaction reaps, picks one due row and takes it.
Lease(o, j) ==
    /\ worker[o].pc = "idle"
    /\ Leasable(Reaped(row[j]))
    /\ row' = [i \in Jobs |-> IF i = j THEN Taken(row[i], o) ELSE Reaped(row[i])]
    /\ worker' = [worker EXCEPT ![o] = [pc |-> "dispatch", job |-> j,
                      attempt |-> row[j].attempts + 1, beat |-> "held", outcome |-> "ok"]]
    /\ UNCHANGED <<closed, created>>

-----------------------------------------------------------------------------
(* Running a leased job.                                                   *)

\* Mutant: the lease_owner condition is missing.
HoldsAnyLease(o, j) == row[j].state = "leased"

\* The where clause shared by renew() and transition().
Holds(o, j) == row[j].state = "leased" /\ row[j].owner = o

\* renew(): the lease starts again from now.
Renewed(r) == [r EXCEPT !.expires = "later"]

\* A heartbeat's renew(); a failing database call leaves everything as it was.
Heartbeat(o) ==
    /\ worker[o].pc = "dispatch"
    /\ worker[o].beat = "held"
    /\ LET j == worker[o].job
       IN  \/ /\ Holds(o, j)
              /\ row' = [row EXCEPT ![j] = Renewed(@)]
              /\ UNCHANGED worker
           \/ /\ ~Holds(o, j)
              /\ worker' = [worker EXCEPT ![o] = [@ EXCEPT !.beat = "lost"]]
              /\ UNCHANGED row
    /\ UNCHANGED <<closed, created>>

\* dispatch(job) returns, or throws a retryable or a non-retryable error.
DispatchEnds(o, outcome) ==
    /\ worker[o].pc = "dispatch"
    /\ worker' = [worker EXCEPT ![o] = [@ EXCEPT !.pc = "confirm", !.outcome = outcome]]
    /\ UNCHANGED <<row, closed, created>>

\* Mutant: a worker drops a lease that it believes has run out.
ConfirmUnlessExpired(o) ==
    /\ worker[o].pc = "confirm"
    /\ LET j == worker[o].job
       IN  \/ /\ worker[o].beat = "held" /\ Holds(o, j) /\ row[j].expires = "later"
              /\ worker' = [worker EXCEPT ![o] = [@ EXCEPT !.pc = "record"]]
           \/ /\ worker[o].beat = "lost" \/ ~Holds(o, j) \/ row[j].expires = "past"
              /\ worker' = [worker EXCEPT ![o] = Idle]
    /\ UNCHANGED <<row, closed, created>>

\* stopAndConfirmOwnership(): a lost lease ends the job with no transition.
Confirm(o) ==
    /\ worker[o].pc = "confirm"
    /\ LET j == worker[o].job
       IN  \/ /\ worker[o].beat = "held" /\ Holds(o, j)
              /\ row' = [row EXCEPT ![j] = Renewed(@)]
              /\ worker' = [worker EXCEPT ![o] = [@ EXCEPT !.pc = "record"]]
           \/ /\ worker[o].beat = "lost" \/ ~Holds(o, j)
              /\ worker' = [worker EXCEPT ![o] = Idle]
              /\ UNCHANGED row
    /\ UNCHANGED <<closed, created>>

\* Mutant: a state the table's check constraint does not list.
RecordedAsFailed(r, w) ==
    [r EXCEPT !.state = IF w.outcome = "ok" THEN "succeeded" ELSE "failed",
              !.owner = NoOwner, !.expires = "never"]

\* Mutant: a failed attempt is not counted.
RecordedUncounted(r, w) ==
    [r EXCEPT
        !.state = IF w.outcome = "ok" THEN "succeeded"
                  ELSE IF w.outcome = "fatal" \/ w.attempt >= MaxAttempts THEN "dead"
                  ELSE "retry",
        !.attempts = 0,
        !.owner = NoOwner,
        !.expires = "never",
        !.after = IF w.outcome = "ok" THEN @ ELSE "later"]

\* The values succeed() and fail() write.
Recorded(r, w) ==
    [r EXCEPT
        !.state = IF w.outcome = "ok" THEN "succeeded"
                  ELSE IF w.outcome = "fatal" \/ w.attempt >= MaxAttempts THEN "dead"
                  ELSE "retry",
        !.owner = NoOwner,
        !.expires = "never",
        !.after = IF w.outcome = "ok" THEN @ ELSE "later"]

\* transition(): conditional on the lease, else JobLeaseLostError.
Record(o) ==
    /\ worker[o].pc = "record"
    /\ LET j == worker[o].job
       IN  \/ /\ Holds(o, j)
              /\ row' = [row EXCEPT ![j] = Recorded(@, worker[o])]
           \/ /\ ~Holds(o, j)
              /\ UNCHANGED row
    /\ worker' = [worker EXCEPT ![o] = Idle]
    /\ UNCHANGED <<closed, created>>

\* The process dies; its rows stay leased until they expire.
Crash(o) ==
    /\ o \in MayCrash
    /\ worker[o].pc # "gone"
    /\ worker' = [worker EXCEPT ![o] = [Idle EXCEPT !.pc = "gone"]]
    /\ UNCHANGED <<row, closed, created>>

-----------------------------------------------------------------------------
(* Time and the retention sweep.                                           *)

\* The lease of a live worker runs out when its heartbeats fail for a whole lease
\* period; AttemptCap bounds how often.  The lease of a gone worker always does.
LeaseRunsOut(j) ==
    /\ row[j].state = "leased"
    /\ row[j].expires = "later"
    /\ row[j].attempts < AttemptCap \/ worker[row[j].owner].pc = "gone"
    /\ row' = [row EXCEPT ![j] = [@ EXCEPT !.expires = "past"]]
    /\ UNCHANGED <<worker, closed, created>>

BackoffEnds(j) ==
    /\ row[j].state = "retry"
    /\ row[j].after = "later"
    /\ row' = [row EXCEPT ![j] = [@ EXCEPT !.after = "past"]]
    /\ UNCHANGED <<worker, closed, created>>

WindowEnds(k) ==
    /\ k \in OnceKeys \ closed
    /\ closed' = closed \cup {k}
    /\ UNCHANGED <<row, worker, created>>

\* Mutant: the sweep also deletes old rows that still wait for a retry.
CleanupUnfinished(j) ==
    /\ row[j].state \in Terminal \cup {"retry"}
    /\ row[j].key \in OnceKeys => row[j].key \in closed
    /\ row' = [row EXCEPT ![j] = NoRow]
    /\ UNCHANGED <<worker, closed, created>>

\* Scheduler.cleanup deletes terminal rows seven days after they were written,
\* long after the (at most one hour long) window of a windowed key is over.
Cleanup(j) ==
    /\ row[j].state \in Terminal
    /\ row[j].key \in OnceKeys => row[j].key \in closed
    /\ row' = [row EXCEPT ![j] = NoRow]
    /\ UNCHANGED <<worker, closed, created>>

-----------------------------------------------------------------------------
RunStep(o) ==
    \/ \E outcome \in Outcomes : DispatchEnds(o, outcome)
    \/ Confirm(o)
    \/ Record(o)

Clock ==
    \/ \E j \in Jobs : LeaseRunsOut(j) \/ BackoffEnds(j) \/ Cleanup(j)
    \/ \E k \in Keys : WindowEnds(k)

Next ==
    \/ \E k \in Keys : Enqueue(k) \/ EnqueueOnce(k)
    \/ \E o \in Owners : \/ \E j \in Jobs : Lease(o, j)
                         \/ RunStep(o) \/ Heartbeat(o) \/ Crash(o)
    \/ Clock

Spec == Init /\ [][Next]_vars

\* Every dispatch of a live worker ends (each provider call is cut off after 20
\* seconds); lease() takes the oldest run_after first, so a due row that is due
\* again and again is taken in the end (strong fairness per row); time passes:
\* backoffs end, and so does the lease of an incarnation that is gone.
FairSpec ==
    /\ Spec
    /\ \A o \in Owners : WF_vars(RunStep(o))
    /\ \A j \in Jobs : SF_vars(\E o \in Owners \ MayCrash : Lease(o, j))
    /\ \A j \in Jobs : WF_vars(BackoffEnds(j))
    /\ \A j \in Jobs : WF_vars(/\ row[j].owner \in Owners
                               /\ worker[row[j].owner].pc = "gone"
                               /\ LeaseRunsOut(j))

-----------------------------------------------------------------------------
(* Properties.                                                             *)

\* The shape of every row and of every worker (jobs/queue.ts, leased-job.ts).
TypeOK ==
    /\ row \in [Jobs -> Row]
    /\ worker \in [Owners -> Worker]
    /\ closed \subseteq OnceKeys
    /\ created \in [OnceKeys -> Nat]

\* A key never has two live rows, whatever reaping, retrying and enqueueing
\* interleave: "retry" and "leased" rows still block enqueue.
OneLivePerKey ==
    \A i, j \in Jobs :
        /\ row[i].state \in Live /\ row[j].state \in Live
        /\ row[i].key = row[j].key
        => i = j

\* enqueueOnce keeps a windowed job from being recreated after it completed,
\* across schedulers, crashes and the retention sweep.
WindowRunsOnce == \A k \in OnceKeys : created[k] <= 1

\* While a worker's lease is current, the attempt it will report to fail() is
\* the attempt of the row, so the dead-letter decision is never made on the
\* count of an earlier lease.
AttemptIsCurrent ==
    \A o \in Owners, j \in Jobs :
        /\ worker[o].pc \in {"dispatch", "confirm", "record"}
        /\ worker[o].job = j
        /\ Holds(o, j)
        => worker[o].attempt = row[j].attempts

\* A lease is held by an incarnation that is running that very job, or by one
\* that is gone: no lease is orphaned while its worker lives on.
LeaseHasRunner ==
    \A j \in Jobs :
        row[j].state = "leased" =>
            /\ row[j].owner \in Owners
            /\ LET w == worker[row[j].owner]
               IN  w.pc = "gone" \/ (w.pc # "idle" /\ w.job = j)

\* A worker whose lease was taken over records nothing: an outcome is written
\* only by the lease's holder, about the attempt it ran, and a recorded outcome
\* is never changed.
OutcomeFromHolder ==
    [][\A j \in Jobs :
          /\ row[j].state \in Terminal => row'[j] = row[j] \/ row'[j] = NoRow
          /\ row[j].state # row'[j].state /\ row'[j].state \in Terminal =>
                \E o \in Owners : /\ worker[o].pc = "record"
                                  /\ worker[o].job = j
                                  /\ Holds(o, j)
                                  /\ worker[o].attempt = row[j].attempts]_vars

\* A row seen without its lease.
Phase(r) == IF r.state = "absent" THEN "none"
            ELSE IF r.state \in Live THEN "open" ELSE r.state

Contract == INSTANCE JobContract WITH
    phase <- [j \in Jobs |-> Phase(row[j])],
    under <- [j \in Jobs |-> row[j].key]

\* Workers, leases and crashes implement the abstract job table.
ImplementsContract == Contract!Spec

\* Every job that is enqueued is eventually settled: crashes, lost leases and
\* retries only delay its outcome.
JobsSettle == \A j \in Jobs : row[j].state \in Live ~> row[j].state \notin Live
=============================================================================
