------------------------------ MODULE Planning ------------------------------
(***************************************************************************)
(* One smart-meeting rule (server/src/planning): preview and activation,   *)
(* the reconciler that places each occurrence in its window, suggestions,  *)
(* and the worker that brings the calendar in line, one planned event at a *)
(* time.                                                                   *)
(*                                                                         *)
(* Time is counted in slots: slot s starts at s and ends at s + 1.  The    *)
(* windows of the occurrences follow each other.  apply() holds the row    *)
(* locks of the planned event and of its rule across its provider calls,   *)
(* so one worker at most is at work on a rule and everybody else's         *)
(* transaction waits for it (Locked); only the calendar moves meanwhile.   *)
(*                                                                         *)
(* An availability boundary is the case of a slot that never changes.      *)
(***************************************************************************)
EXTENDS Naturals, FiniteSets, FiniteSetsExt

CONSTANTS
    Windows,      \* number of cadence windows that are looked at
    Width,        \* slots of a window
    Count,        \* occurrence_count: windows planned ahead
    Lock,         \* lock_before_minutes, in slots
    Policies,     \* conflict policies a rule may have
    Troubles,     \* what may go wrong or come in between
    MaxPasses,    \* bound: reconcile() passes at a time
    MaxIntent,    \* bound: intent sequence
    MaxGen,       \* bound: generation
    MaxTroubles,  \* bound: troubles, all together
    MaxChanges    \* bound: changes of availability

\* Provider and process faults, changes made by hand, pauses, an unusable target calendar.
Faults == {"refused", "rejected", "applied", "died"}
Kinds == Faults \cup {"touch", "pause", "outage"}

ASSUME PlanningAssumption ==
    /\ Windows \in Nat \ {0} /\ Width \in Nat \ {0} /\ Count \in Nat \ {0} /\ Lock \in Nat
    /\ Policies \subseteq {"auto_move", "suggest", "keep_with_warning"}
    /\ Troubles \subseteq Kinds
    /\ MaxPasses \in Nat /\ MaxIntent \in Nat \ {0} /\ MaxGen \in Nat \ {0}
    /\ MaxTroubles \in Nat /\ MaxChanges \in Nat

VARIABLES
    now,      \* the time
    free,     \* slots that nobody is busy in
    policy,   \* the draft's conflict policy
    preview,  \* the planning_previews row
    rule,     \* status of the planning_rules row
    row,      \* row[o]: the planned_events row
    sugs,     \* planning_suggestions
    jobs,     \* apply_planned_event jobs: <<occurrence, intent>>
    recon,    \* the inputs that running reconcile() passes have read
    worker,   \* a running apply()
    dest,     \* dest[o][g]: the event with the id planningEventId(o, g)
    target,   \* whether the target calendar can be written
    had,      \* had[k]: troubles of kind k so far
    changes   \* changes of availability so far

vars == <<now, free, policy, preview, rule, row, sugs, jobs, recon, worker, dest, target, had, changes>>
db == <<preview, rule, row, sugs, jobs>>

Occurrences == 1..Windows
Slots == 1..(Windows * Width)
End == Windows * Width + 1
Times == 0..End
None == 0                       \* no desired event
Intents == 0..MaxIntent
Gens == 1..MaxGen

Row == [st : {"absent", "pending_create", "pending_update", "pending_delete", "converged",
              "held", "unmet", "skipped", "deleted"},
        intent : Intents, gen : Gens,
        id : {"none", "set"},                \* destination_event_id
        want : Slots \cup {None},            \* desired_state and its hash
        err : {"none", "target_unavailable", "ownership_mismatch", "other"},
        skip : {"no", "yes"}]                \* reason_code suggestion_skip_accepted
NoRow == [st |-> "absent", intent |-> 0, gen |-> 1, id |-> "none", want |-> None,
          err |-> "none", skip |-> "no"]

\* The check constraint of planned_events.
RowCheck(r) ==
    r.want = None <=> r.st \in {"absent", "unmet", "skipped", "pending_delete", "deleted"}

\* basis_hash covers the desired event (with its generation and intent) and the proposal.
Suggestion == [occ : Occurrences, want : Slots \cup {None}, intent : Intents, gen : Gens,
               to : Slots \cup {None}, st : {"pending", "accepted", "dismissed", "expired"}]

Event == [st : {"absent", "live", "gone"}, slot : Slots \cup {None}, intent : Intents,
          own : {"ours", "foreign"}]
NoEvent == [st |-> "absent", slot |-> None, intent |-> 0, own |-> "ours"]

\* What a pass or a preview has read: the time and who is free.
Inputs == [st : {"none", "read"}, at : Times, free : SUBSET Slots]
NoInputs == [st |-> "none", at |-> 0, free |-> {}]

Worker == [pc : {"idle", "looked"}, occ : Occurrences, found : Event]
Resting == [pc |-> "idle", occ |-> 1, found |-> NoEvent]

Locked == worker.pc # "idle"

Init ==
    /\ now = 0 /\ free = Slots
    /\ policy \in Policies
    /\ preview = NoInputs /\ rule = "none"
    /\ row = [o \in Occurrences |-> NoRow]
    /\ sugs = {} /\ jobs = {}
    /\ recon = {} /\ worker = Resting
    /\ dest = [o \in Occurrences |-> [g \in Gens |-> NoEvent]]
    /\ target = "on"
    /\ had = [k \in Kinds |-> 0] /\ changes = 0

\* Something of kind k goes wrong, within the bound.
Trouble(k) ==
    /\ k \in Troubles
    /\ MapThenSumSet(LAMBDA q : had[q], Kinds) < MaxTroubles
    /\ had' = [had EXCEPT ![k] = @ + 1]
    /\ UNCHANGED changes

-----------------------------------------------------------------------------
(* The planner.                                                            *)

Window(o) == ((o - 1) * Width + 1)..(o * Width)

\* rollingDraft: the first window that is not over.
Cycle(t) == IF t = 0 THEN 1 ELSE ((t - 1) \div Width) + 1
Horizon(t) == {o \in Occurrences : Cycle(t) <= o /\ o < Cycle(t) + Count}

\* chooseMeetingSlot: a free slot of the window that leaves the lock time, by preference.
Candidates(o, in) == {s \in Window(o) \cap in.free : s >= in.at + Lock}
Planned(o, in) == IF Candidates(o, in) = {} THEN None ELSE Min(Candidates(o, in))

\* insideNoMoveWindow and eventHasEnded of a desired event.
NoMove(slot, t) == slot # None /\ slot > t /\ slot <= t + Lock
Ended(slot, t) == slot # None /\ slot + 1 <= t
Begun(slot, t) == slot # None /\ slot <= t

-----------------------------------------------------------------------------
(* Preview and activation.                                                 *)

\* prepare() fails unless the target calendar can be written.
Preview ==
    /\ rule = "none" /\ target = "on"
    /\ preview' = [st |-> "read", at |-> now, free |-> free]
    /\ UNCHANGED <<now, free, policy, rule, row, sugs, jobs, recon, worker, dest, target, had, changes>>

\* Mutant: a window with no free time waits for an event too.
FreshAlways(p) == [NoRow EXCEPT !.st = "pending_create", !.intent = 1, !.want = p]

\* insertOccurrence, and the same insertion in activate().
Fresh(p) == [NoRow EXCEPT !.st = IF p = None THEN "unmet" ELSE "pending_create",
                          !.intent = IF p = None THEN 0 ELSE 1, !.want = p]

\* The inputs must not have changed since the preview and no proposal may have begun.
Activate ==
    /\ rule = "none" /\ preview.st = "read" /\ target = "on"
    /\ preview.free = free
    /\ LET in == preview
           due == Horizon(in.at)
       IN  /\ \A o \in due : ~Begun(Planned(o, in), now)
           /\ row' = [o \in Occurrences |-> IF o \in due THEN Fresh(Planned(o, in)) ELSE NoRow]
           /\ jobs' = {<<o, 1>> : o \in {d \in due : Planned(d, in) # None}}
    /\ rule' = "active" /\ preview' = NoInputs
    /\ UNCHANGED <<now, free, policy, sugs, recon, worker, dest, target, had, changes>>

-----------------------------------------------------------------------------
(* Reconciliation.                                                         *)

\* Scheduled, requested or after a resume: the inputs are read outside a transaction.
Read ==
    /\ rule = "active" /\ target = "on"
    /\ Cardinality(recon) < MaxPasses
    /\ recon' = recon \cup {[st |-> "read", at |-> now, free |-> free]}
    /\ UNCHANGED <<now, free, policy, db, worker, dest, target, had, changes>>

Pending(r) == r.st \in {"pending_create", "pending_update"}
ToWrite(r) == IF r.id = "set" THEN "pending_update" ELSE "pending_create"

\* An unchanged occurrence waits for nothing but a target calendar.
Reopened(r) ==
    IF r.st = "held" /\ r.err = "target_unavailable"
    THEN [r EXCEPT !.st = ToWrite(r), !.err = "none"] ELSE r

\* A suggestion is made instead of a move.
Suggests(r) == policy = "suggest" /\ r.id = "set" /\ r.st = "converged"

\* A change that a person has to decide about.
MustHold(r, p, t) ==
    /\ r.id = "set"
    /\ \/ NoMove(r.want, t)
       \/ ~Suggests(r) /\ (policy = "keep_with_warning" \/ p = None)

\* Mutant: a new desired event keeps the intent of the old one.
MovedSameIntent(r, p) ==
    [r EXCEPT !.want = p, !.st = IF p = None THEN "unmet" ELSE ToWrite(r),
              !.err = IF p = None THEN "other" ELSE "none", !.skip = "no"]

\* Mutant: a moved meeting is created anew and the old one forgotten.
MovedAnew(r, p) ==
    [r EXCEPT !.intent = @ + 1, !.want = p, !.st = IF p = None THEN "unmet" ELSE "pending_create",
              !.id = "none", !.gen = IF @ < MaxGen THEN @ + 1 ELSE @, !.err = "none", !.skip = "no"]

\* The last branch of updateOccurrence: a new intent.
Moved(r, p) ==
    [r EXCEPT !.intent = @ + 1, !.want = p, !.st = IF p = None THEN "unmet" ELSE ToWrite(r),
              !.err = IF p = None THEN "other" ELSE "none", !.skip = "no"]

\* desired_hash is equal (it was computed with the row's own generation and intent).
Same(r, p) == p = r.want /\ r.st # "unmet"

\* updateOccurrence.
Updated(r, p, t) ==
    CASE r.st = "skipped" -> r
      [] r.st # "skipped" /\ Same(r, p) -> Reopened(r)
      [] r.st # "skipped" /\ ~Same(r, p) /\ MustHold(r, p, t) ->
             [r EXCEPT !.st = "held", !.err = "other", !.skip = "no"]
      [] r.st # "skipped" /\ ~Same(r, p) /\ ~MustHold(r, p, t) ->
             IF Suggests(r) THEN r ELSE Moved(r, p)

\* A row whose occurrence has left the horizon.
Left(r, t) ==
    CASE r.st \in {"absent", "pending_delete"} -> r
      [] r.st \notin {"absent", "pending_delete"} /\ Ended(r.want, t) ->
             [r EXCEPT !.st = "deleted", !.want = None, !.err = "none", !.skip = "no"]
      [] r.st \notin {"absent", "pending_delete"} /\ ~Ended(r.want, t) ->
             IF r.id = "set" /\ r.st # "deleted"
             THEN [r EXCEPT !.st = "pending_delete", !.intent = @ + 1, !.want = None,
                            !.err = "none", !.skip = "no"]
             ELSE IF r.id = "none"
             THEN [r EXCEPT !.st = "deleted", !.want = None, !.skip = "no"]
             ELSE r

Reconciled(o, in) ==
    IF o \notin Horizon(in.at) THEN Left(row[o], in.at)
    ELSE IF row[o].st = "absent" THEN Fresh(Planned(o, in))
    ELSE Updated(row[o], Planned(o, in), in.at)

\* Mutant: a new or reopened intent is not queued.
WakesDeletions(o, in) ==
    LET r == Reconciled(o, in)
    IN  r.st = "pending_delete" /\ r.err # "ownership_mismatch" /\ o \notin Horizon(in.at)

\* enqueueApply: for each new intent, and again for a waiting one that met no error.
Wakes(o, in) ==
    LET r == Reconciled(o, in)
    IN  \/ Pending(r) /\ r.err = "none"
        \/ r.st = "pending_delete" /\ r.err # "ownership_mismatch" /\ o \notin Horizon(in.at)

\* The suggestion for a converged event, unless the same one was ever made before.
Proposed(o, in) ==
    LET r == row[o]  p == Planned(o, in)
    IN  [occ |-> o, want |-> r.want, intent |-> r.intent, gen |-> r.gen, to |-> p,
         st |-> "pending"]
Proposes(o, in) ==
    /\ o \in Horizon(in.at) /\ Suggests(row[o])
    /\ ~Same(row[o], Planned(o, in)) /\ ~NoMove(row[o].want, in.at)
    /\ \A s \in sugs : [s EXCEPT !.st = "pending"] # Proposed(o, in)

\* The new rows pass the check; a late pass may hold a row whose event is over or going.
Valid(in) == \A o \in Occurrences : RowCheck(Reconciled(o, in))

\* The transaction of reconcile(): nothing if the rule is no longer active, or if the
\* database rejects a row (the job then reads its inputs again).
Commit(in) ==
    /\ in \in recon /\ ~Locked
    /\ \/ /\ rule = "active" /\ Valid(in)
          /\ \A o \in Occurrences : Reconciled(o, in).intent \in Intents
          /\ row' = [o \in Occurrences |-> Reconciled(o, in)]
          /\ jobs' = jobs \cup {<<o, row'[o].intent>> :
                                   o \in {d \in Occurrences : Wakes(d, in)}}
          /\ sugs' = sugs \cup {Proposed(o, in) :
                                   o \in {d \in Occurrences : Proposes(d, in)}}
       \/ (rule # "active" \/ ~Valid(in)) /\ UNCHANGED <<row, jobs, sugs>>
    /\ recon' = recon \ {in}
    /\ UNCHANGED <<now, free, policy, preview, rule, worker, dest, target, had, changes>>

-----------------------------------------------------------------------------
(* Decisions about suggestions, and the life of the rule.                  *)

Basis(s) == row[s.occ].want = s.want /\ row[s.occ].intent = s.intent /\ row[s.occ].gen = s.gen

Inputs0 == [st |-> "read", at |-> now, free |-> free]

\* What the planner would propose for o now; an occurrence out of the horizon is not found.
Latest(o) == IF o \in Horizon(now) THEN Planned(o, Inputs0) ELSE None

\* resolveSuggestion(accept): the basis, the no-move window and the plan are checked again.
Accept(s) ==
    LET o == s.occ  r == row[s.occ]
    IN  /\ s \in sugs /\ s.st = "pending" /\ rule = "active" /\ ~Locked /\ target = "on"
        /\ Basis(s) /\ ~NoMove(r.want, now) /\ Latest(o) = s.to
        /\ r.intent < MaxIntent
        /\ row' = [row EXCEPT ![o] = [r EXCEPT !.intent = r.intent + 1, !.want = s.to, !.err = "none",
               !.st = IF s.to # None THEN ToWrite(r)
                      ELSE IF r.id = "set" THEN "pending_delete" ELSE "skipped",
               !.skip = IF s.to = None THEN "yes" ELSE "no"]]
        /\ jobs' = jobs \cup {<<o, r.intent + 1>>}
        /\ sugs' = {IF t = s THEN [t EXCEPT !.st = "accepted"]
                    ELSE IF t.occ = o /\ t.st = "pending" THEN [t EXCEPT !.st = "expired"]
                    ELSE t : t \in sugs}
        /\ UNCHANGED <<now, free, policy, preview, rule, recon, worker, dest, target, had, changes>>

\* resolveSuggestion(dismiss), or the scheduler's expiry after fourteen days.
Drop(s, st) ==
    /\ s \in sugs /\ s.st = "pending"
    /\ st = "dismissed" => rule = "active" /\ ~Locked
    /\ sugs' = (sugs \ {s}) \cup {[s EXCEPT !.st = st]}
    /\ UNCHANGED <<now, free, policy, preview, rule, row, jobs, recon, worker, dest, target, had, changes>>

\* setPaused(true).
Pause ==
    /\ rule = "active" /\ ~Locked /\ Trouble("pause")
    /\ rule' = "paused"
    /\ UNCHANGED <<now, free, policy, preview, row, sugs, jobs, recon, worker, dest, target>>

\* setPaused(false), of an active rule too: pending events are queued again.
Resume ==
    /\ rule \in {"active", "paused"} /\ ~Locked
    /\ rule' = "active"
    /\ jobs' = jobs \cup {<<o, row[o].intent>> :
                  o \in {d \in Occurrences : Pending(row[d]) \/ row[d].st = "pending_delete"}}
    /\ UNCHANGED <<now, free, policy, preview, row, sugs, recon, worker, dest, target, had, changes>>

\* Mutant: events that are held or being moved are forgotten.
ToCleanUpSettled(r) == r.st \in {"pending_delete", "converged"}

\* An event that removal has to clean up: it may exist and is not over, or is already going.
ToCleanUp(r) ==
    \/ r.st = "pending_delete"
    \/ /\ r.want # None /\ ~Ended(r.want, now)
       /\ r.id = "set" \/ Pending(r)

\* remove().
Remove ==
    LET cleanup == {o \in Occurrences : ToCleanUp(row[o])}
    IN  /\ rule \in {"active", "paused", "deleting"} /\ ~Locked
        /\ \A o \in cleanup : row[o].intent < MaxIntent
        /\ row' = [o \in Occurrences |->
               IF o \in cleanup
               THEN [row[o] EXCEPT !.st = "pending_delete", !.intent = @ + 1, !.want = None,
                                   !.err = "none", !.skip = "no"]
               ELSE IF row[o].st = "absent" THEN row[o]
               ELSE [row[o] EXCEPT !.st = "deleted", !.want = None, !.skip = "no"]]
        /\ jobs' = jobs \cup {<<o, row[o].intent + 1>> : o \in cleanup}
        /\ sugs' = {IF t.st = "pending" THEN [t EXCEPT !.st = "expired"] ELSE t : t \in sugs}
        /\ rule' = IF cleanup = {} THEN "deleted" ELSE "deleting"
        /\ UNCHANGED <<now, free, policy, preview, recon, worker, dest, target, had, changes>>

-----------------------------------------------------------------------------
(* Applying an intent.                                                     *)

Rest == <<now, free, policy, preview, sugs, recon>>

\* The rule and the row still want what the job was queued for.
Due(o, i) ==
    /\ row[o].intent = i
    /\ (Pending(row[o]) /\ rule = "active") \/ row[o].st = "pending_delete"

\* An outdated job ends without doing anything.
Ignore(o, i) ==
    /\ <<o, i>> \in jobs /\ ~Locked /\ ~Due(o, i)
    /\ jobs' = jobs \ {<<o, i>>}
    /\ UNCHANGED <<Rest, rule, row, worker, dest, target, had, changes>>

\* hold(): a deletion stays pending.
Held(r, err) == [r EXCEPT !.st = IF r.st = "pending_delete" THEN r.st ELSE "held", !.err = err]

\* A failed job that may be tried again: it waits for its next attempt, or is dead if this
\* was its tenth.
Retried(j) == {jobs, jobs \ {j}}

\* No target calendar: a write is held, a deletion is retried.
Unavailable(o, i) ==
    /\ <<o, i>> \in jobs /\ ~Locked /\ Due(o, i) /\ target = "off"
    /\ row' = [row EXCEPT ![o] = Held(row[o], "target_unavailable")]
    /\ IF row[o].st = "pending_delete" THEN jobs' \in Retried(<<o, i>>)
       ELSE jobs' = jobs \ {<<o, i>>}
    /\ UNCHANGED <<Rest, rule, worker, dest, target, had, changes>>

\* The grant no longer gives a token: the broker marks the connection in a transaction of
\* its own, apply()'s is rolled back, and the job is dead, not to be tried again.
Unauthorised(o, i) ==
    /\ <<o, i>> \in jobs /\ ~Locked /\ Due(o, i) /\ target = "on"
    /\ Trouble("outage")
    /\ target' = "off"
    /\ jobs' = jobs \ {<<o, i>>}
    /\ UNCHANGED <<Rest, rule, row, worker, dest>>

Here(o) == dest[o][row[o].gen]

\* The lookup by the deterministic id; the row locks are held from here on.
LookUp(o, i) ==
    /\ <<o, i>> \in jobs /\ ~Locked /\ Due(o, i) /\ target = "on"
    /\ worker' = [pc |-> "looked", occ |-> o, found |-> Here(o)]
    /\ UNCHANGED <<Rest, rule, row, jobs, dest, target, had, changes>>

Job == <<worker.occ, row[worker.occ].intent>>

\* The row and the job when the worker is done: the job is over (done or dead) or retried.
Outcome(r, again) ==
    /\ row' = [row EXCEPT ![worker.occ] = r]
    /\ IF again THEN jobs' \in Retried(Job) ELSE jobs' = jobs \ {Job}
    /\ worker' = Resting
    /\ UNCHANGED <<Rest, target>>

\* belongs(): the ownership markers name this planned event and generation.
Belongs(e) == e.own = "ours"

Seen == worker.found.st = "live"
Mine == row[worker.occ]

\* An event under our id that is not ours is left alone; its deletion is dead work.
NotOurs ==
    /\ Locked /\ Seen /\ ~Belongs(worker.found)
    /\ Outcome(Held(Mine, "ownership_mismatch"), FALSE)
    /\ UNCHANGED <<rule, dest, had, changes>>

\* Mutant: the rule is gone as soon as one of its events is.
RuleAfterFirst(o) == IF rule = "deleting" THEN "deleted" ELSE rule

\* Mutant: the remaining deletions are counted before this one is recorded.
RuleAfterOthers(o) ==
    IF rule = "deleting" /\ \A q \in Occurrences : row[q].st # "pending_delete"
    THEN "deleted" ELSE rule

\* The rule is deleted with the last pending deletion.
RuleAfter(o) ==
    IF rule = "deleting" /\ \A q \in Occurrences \ {o} : row[q].st # "pending_delete"
    THEN "deleted" ELSE rule

Erased(o) ==
    IF Here(o).st = "live"
    THEN [dest EXCEPT ![o][row[o].gen] = [Here(o) EXCEPT !.st = "gone"]] ELSE dest

\* The event is still as it was looked up: the revision precondition holds.
Unchanged == Here(worker.occ) = worker.found

\* Nothing to delete, or a delete that the provider confirms.
Delete ==
    LET o == worker.occ
    IN  /\ Locked /\ Mine.st = "pending_delete"
        /\ \/ ~Seen /\ UNCHANGED dest
           \/ /\ Seen /\ Belongs(worker.found) /\ (Unchanged \/ Here(o).st = "gone")
              /\ dest' = Erased(o)
        /\ Outcome([Mine EXCEPT !.st = IF Mine.skip = "yes" THEN "skipped" ELSE "deleted",
                                !.id = "none", !.err = "none"], FALSE)
        /\ rule' = RuleAfter(o)
        /\ UNCHANGED <<had, changes>>

\* The event already carries this intent: an earlier attempt got through.
Recognise ==
    /\ Locked /\ Pending(Mine) /\ Seen /\ Belongs(worker.found)
    /\ worker.found.intent = Mine.intent
    /\ Outcome([Mine EXCEPT !.st = "converged", !.id = "set", !.err = "none"], FALSE)
    /\ UNCHANGED <<rule, dest, had, changes>>

\* A known event that is missing is replaced under the id of the next generation.
Replaced(r) == IF ~Seen /\ r.id = "set" THEN [r EXCEPT !.gen = @ + 1, !.id = "none"] ELSE r

\* The event has to be written.  (An event whose intent is ahead of the row's, which is
\* held, needs a database restored from a backup.)
ToBeWritten ==
    /\ Locked /\ Pending(Mine)
    /\ Seen => Belongs(worker.found) /\ worker.found.intent < Mine.intent
    /\ Replaced(Mine).gen \in Gens

\* The meeting has reached its start.
TooLate ==
    /\ ToBeWritten /\ Begun(Mine.want, now)
    /\ Outcome(Held(Replaced(Mine), "other"), FALSE)
    /\ UNCHANGED <<rule, dest, had, changes>>

\* What the provider accepts: an unchanged event, or an id that was never used.
Accepted == IF Seen THEN Unchanged ELSE dest[worker.occ][Replaced(Mine).gen].st = "absent"

Written == [dest EXCEPT ![worker.occ][Replaced(Mine).gen] =
               [st |-> "live", slot |-> Mine.want, intent |-> Mine.intent, own |-> "ours"]]

Write ==
    /\ ToBeWritten /\ ~Begun(Mine.want, now) /\ Accepted
    /\ dest' = Written
    /\ Outcome([Replaced(Mine) EXCEPT !.st = "converged", !.id = "set", !.err = "none"], FALSE)
    /\ UNCHANGED <<rule, had, changes>>

\* The event that was looked up has been deleted since: an update finds nothing (not found
\* or gone, which no retry can mend).  The error is recorded, the row stays as it is and
\* the job is dead.
Missing ==
    /\ ToBeWritten /\ ~Begun(Mine.want, now) /\ Seen /\ Here(worker.occ).st = "gone"
    /\ Outcome([Mine EXCEPT !.err = "other"], FALSE)
    /\ UNCHANGED <<rule, dest, had, changes>>

\* precondition_failed, by an event changed since the lookup or an id used before: a write
\* is held, a deletion looks again.
Precondition ==
    /\ \/ /\ ToBeWritten /\ ~Begun(Mine.want, now) /\ ~Accepted
          /\ Seen => Here(worker.occ).st = "live"
       \/ /\ Locked /\ Mine.st = "pending_delete" /\ Seen /\ Belongs(worker.found)
          /\ ~Unchanged /\ Here(worker.occ).st = "live"
    /\ Outcome(Held(IF Pending(Mine) THEN Replaced(Mine) ELSE Mine, "other"),
               Mine.st = "pending_delete")
    /\ UNCHANGED <<rule, dest, had, changes>>

\* The lookup fails: the error is recorded and the job retried, or dead at once after a
\* failure that cannot pass.
Unreached(o, i) ==
    /\ <<o, i>> \in jobs /\ ~Locked /\ Due(o, i) /\ target = "on"
    /\ \/ Trouble("refused") /\ jobs' \in Retried(<<o, i>>)
       \/ Trouble("rejected") /\ jobs' = jobs \ {<<o, i>>}
    /\ row' = [row EXCEPT ![o].err = "other"]
    /\ UNCHANGED <<Rest, rule, worker, dest, target>>

\* The provider call fails, done or not: an error is recorded and the job is retried, or
\* dead at once after a failure that cannot pass.  A process that dies rolls its
\* transaction back and its job is leased again.
Fault(kind) ==
    /\ Locked /\ Trouble(kind)
    /\ \/ ToBeWritten /\ ~Begun(Mine.want, now)
       \/ Mine.st = "pending_delete" /\ Seen /\ Belongs(worker.found)
    /\ \/ UNCHANGED dest
       \/ kind \in {"applied", "died"} /\ Pending(Mine) /\ Accepted /\ dest' = Written
       \/ /\ kind \in {"applied", "died"} /\ ~Pending(Mine) /\ Unchanged
          /\ dest' = Erased(worker.occ)
    /\ LET r == IF Pending(Mine) THEN Replaced(Mine) ELSE Mine
       IN  Outcome(IF kind = "died" THEN Mine ELSE [r EXCEPT !.err = "other"],
                   kind # "rejected")
    /\ UNCHANGED rule

-----------------------------------------------------------------------------
(* The surroundings.                                                       *)

Tick ==
    /\ now < End /\ now' = now + 1
    /\ UNCHANGED <<free, policy, db, recon, worker, dest, target, had, changes>>

\* Somebody's calendar changes.
Availability(s) ==
    /\ changes < MaxChanges /\ changes' = changes + 1
    /\ free' = IF s \in free THEN free \ {s} ELSE free \cup {s}
    /\ UNCHANGED <<now, policy, db, recon, worker, dest, target, had>>

\* Somebody edits the event by hand, strips its markers, or deletes it.
Touch(o, g) ==
    /\ dest[o][g].st = "live" /\ Trouble("touch")
    /\ \E e \in {[dest[o][g] EXCEPT !.slot = None], [dest[o][g] EXCEPT !.own = "foreign"],
                 [dest[o][g] EXCEPT !.st = "gone"]} :
          dest' = [dest EXCEPT ![o][g] = e]
    /\ UNCHANGED <<now, free, policy, db, recon, worker, target>>

Outage ==
    /\ target = "on" /\ Trouble("outage")
    /\ target' = "off"
    /\ UNCHANGED <<now, free, policy, db, recon, worker, dest>>

Restored ==
    /\ target = "off" /\ target' = "on"
    /\ UNCHANGED <<now, free, policy, db, recon, worker, dest, had, changes>>

-----------------------------------------------------------------------------
Apply ==
    \/ \E j \in jobs : Ignore(j[1], j[2]) \/ Unavailable(j[1], j[2]) \/ LookUp(j[1], j[2])
    \/ NotOurs \/ Delete \/ Recognise \/ TooLate \/ Write \/ Missing \/ Precondition

Decide ==
    \E s \in sugs : Accept(s) \/ Drop(s, "dismissed") \/ Drop(s, "expired")

Surroundings ==
    \/ Tick \/ Outage \/ Restored
    \/ \E s \in Slots : Availability(s)
    \/ \E o \in Occurrences, g \in Gens : Touch(o, g)

Next ==
    \/ Preview \/ Activate \/ Read \/ Apply
    \/ \E in \in recon : Commit(in)
    \/ Decide \/ Pause \/ Resume \/ Remove
    \/ \E j \in jobs : Unreached(j[1], j[2]) \/ Unauthorised(j[1], j[2])
    \/ \E kind \in Faults : Fault(kind)
    \/ Surroundings

Spec == Init /\ [][Next]_vars

\* Workers keep leasing jobs (module JobQueue), the scheduler's windows queue reconcile
\* passes of an active rule, and a calendar that failed is usable again one day.
FairSpec ==
    /\ Spec
    /\ WF_vars(Apply) /\ WF_vars(Read) /\ WF_vars(\E in \in recon : Commit(in)) /\ WF_vars(Restored)

-----------------------------------------------------------------------------
(* Properties.                                                             *)

\* The shape of the rows, the suggestions, the jobs and the calendar; activation, apply(),
\* decisions and removal never run into the check constraint of planned_events.
TypeOK ==
    /\ now \in Times /\ free \subseteq Slots /\ policy \in Policies
    /\ preview \in Inputs /\ recon \subseteq Inputs
    /\ rule \in {"none", "active", "paused", "deleting", "deleted"}
    /\ row \in [Occurrences -> Row]
    /\ \A o \in Occurrences : RowCheck(row[o])
    /\ sugs \subseteq Suggestion
    /\ jobs \subseteq Occurrences \X Intents
    /\ worker \in Worker
    /\ dest \in [Occurrences -> [Gens -> Event]]
    /\ target \in {"on", "off"}
    /\ had \in [Kinds -> Nat] /\ changes \in 0..MaxChanges

Live(o, g) == dest[o][g].st = "live" /\ dest[o][g].own = "ours"

\* However often an event was lost, recreated and retried, an occurrence has at most one
\* event on the calendar.
OneMeeting ==
    \A o \in Occurrences : Cardinality({g \in Gens : Live(o, g)}) <= 1

\* A row that says "converged" has its event on the calendar at the time it says, unless
\* somebody changed it there.
ConvergedIsTrue ==
    \A o \in Occurrences :
        row[o].st = "converged" /\ had["touch"] = 0 =>
            /\ Live(o, row[o].gen) /\ row[o].id = "set"
            /\ Here(o).slot = row[o].want /\ Here(o).intent = row[o].intent

\* Meetings that are still to come.
Coming(o) == \E g \in Gens : Live(o, g) /\ dest[o][g].slot # None /\ ~Begun(dest[o][g].slot, now)

\* Every provider call was answered.
Answered == had["applied"] + had["died"] = 0

\* A row is given up while its meeting is still to come only if the time it should have
\* been moved to is over: remove() and the horizon go by desired_state, not by the event.
\* (A create that got through unanswered and whose window then became unmet is forgotten:
\* remove() looks for events that are pending or known by id.)
GivenUpLate ==
    [][\A o \in Occurrences :
           Answered /\ row[o].st # "deleted" /\ row'[o].st = "deleted" =>
               (~Coming(o))' \/ Ended(row[o].want, now)]_vars

\* When a rule is gone, so are all its events but those whose rows were given up, which
\* keep their ids.
RemovalCleansUp ==
    rule = "deleted" /\ Answered =>
        \A o \in Occurrences, g \in Gens :
            Live(o, g) => g = row[o].gen /\ row[o].st = "deleted" /\ row[o].id = "set"

\* Something has gone wrong with the event of o for good: its job is dead, and nothing but
\* a person queues another.
Stranded(o) ==
    /\ <<o, row[o].intent>> \notin jobs
    /\ \E k \in Kinds : had[k] > 0

\* Removal completes: the rule ends up deleted, unless the job of one of its deletions is
\* dead: after a foreign event, ten failures or one that cannot pass.  (The scheduler queues
\* reconcile passes of active rules only, so no pass queues the deletion again.)
RemovalCompletes ==
    rule = "deleting" ~>
        \/ rule = "deleted"
        \/ \E o \in Occurrences : row[o].st = "pending_delete" /\ Stranded(o)

\* The bound on intents, not the code, keeps a pass from its commit.
Cut == \E in \in recon, o \in Occurrences : Reconciled(o, in).intent \notin Intents

\* Under an active rule no intent waits for ever: it is settled, or its job is dead and the
\* row says so with an error.  (A job that died without recording one is queued again.)
IntentsSettle ==
    \A o \in Occurrences :
        (rule = "active" /\ Pending(row[o])) ~>
            \/ rule # "active" \/ ~Pending(row[o])
            \/ row[o].err # "none" /\ Stranded(o)
            \/ Cut
=============================================================================
