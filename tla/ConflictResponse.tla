-------------------------- MODULE ConflictResponse --------------------------
(***************************************************************************)
(* Declining work invitations that collide with private time (server/src/  *)
(* conflict-response): a reconcile pass reads the mirrored invitations and *)
(* the private free/busy times and reserves declines within a budget; a    *)
(* job per reservation locks it with its rule, checks everything again and *)
(* sends a conditional PATCH that it verifies by reading.  Around them the *)
(* rule is paused, resumed, retired and replaced, invitations are answered *)
(* and moved at the provider, and the calendar is synced.                  *)
(*                                                                         *)
(* All rules here answer for one provider calendar; at most one of them is *)
(* live, which CalendarProtection shows.  An invitation is its revision    *)
(* and the user's answer; the hash of a mirrored invitation stands for     *)
(* both.  Busy times that overlap an invitation are a number, 0 for none.  *)
(***************************************************************************)
EXTENDS Naturals, Sequences, FiniteSets

CONSTANTS
    Rules,
    Invitations,   \* numbered in the order in which they begin
    Touched,       \* the invitations whose times, private or not, change
    Unrevised,     \* invitations that the provider lists without a revision
    Start,         \* Start[i]: when invitation i begins
    Budget,        \* MAX_AUTOMATIC_DECLINES_PER_24_HOURS
    Window,        \* the 24 hours
    Passes,        \* reconcile passes that may run at the same time
    Workers,       \* apply jobs that may run at the same time
    MaxTime, MaxBusy,                  \* bounds of the instance
    MaxRevision    \* the last revision that somebody else gives an invitation

ASSUME ResponseAssumption ==
    /\ IsFiniteSet(Rules) /\ IsFiniteSet(Invitations)
    /\ Invitations \subseteq Nat /\ Unrevised \subseteq Invitations /\ Touched \subseteq Invitations
    /\ Start \in [Invitations -> Nat]
    /\ {Budget, Window, MaxTime, MaxRevision, MaxBusy} \subseteq Nat

VARIABLES
    remote,    \* remote[i]: invitation i at the provider
    mirror,    \* mirror[i]: its source_observations row
    busy,      \* busy[i]: the private busy times that overlap it
    rule,      \* rule[r]: the status of a conflict_response_rules row
    action,    \* action[r][i]: the invitation_response_actions row
    jobs,      \* live apply_invitation_response jobs
    facts,     \* invitation_response.declined audit facts: when each was written
    wire,      \* PATCH requests without an answer that may still take effect
    pass,      \* pass[p]: what a reconcile pass knows
    worker,    \* worker[w]: how far an apply job is
    clock,
    declines   \* history: when each decline that Planipus caused took effect

vars == <<remote, mirror, busy, rule, action, jobs, facts, wire, pass, worker, clock, declines>>

Times == 0..MaxTime
Answers == {"needsAction", "declined", "accepted"}
Versions == [revision : Nat, answer : Answers]

\* conflictActionBasisDocument: the version of the invitation and the busy times.
Bases == [revision : Nat, busy : Nat]
Actions == [status : {"none", "pending", "held", "applied", "superseded"}, basis : Bases]
NoBasis == [revision |-> 0, busy |-> 0]
NoAction == [status |-> "none", basis |-> NoBasis]
Jobs == [rule : Rules, invitation : Invitations, basis : Bases]
Requests == [invitation : Invitations, match : Nat]

Idle == [pc |-> "idle"]
PassStates == {Idle} \cup [pc : {"prepared"}, rule : Rules, now : Times,
                           basis : [Invitations -> Bases]]
WorkerStates == {Idle} \cup [pc : {"availability", "read", "verify", "committed"}, job : Jobs]
                         \cup [pc : {"patch"}, job : Jobs, match : Nat]

Init ==
    /\ remote = [i \in Invitations |-> [revision |-> 1, answer |-> "needsAction"]]
    /\ mirror = remote
    /\ busy \in [Invitations -> 0..1] /\ \A i \in Invitations \ Touched : busy[i] = 1
    /\ rule = [r \in Rules |-> "none"]
    /\ action = [r \in Rules |-> [i \in Invitations |-> NoAction]]
    /\ jobs = {} /\ wire = {}
    /\ facts = <<>> /\ declines = <<>>
    /\ pass = [p \in Passes |-> Idle]
    /\ worker = [w \in Workers |-> Idle]
    /\ clock = 0

-----------------------------------------------------------------------------
(* Locks.  An apply transaction locks its action, its rule and then the    *)
(* mirrored invitation, and keeps them across its provider calls.          *)

Holding == {"availability", "read", "patch", "verify"}
RuleFree(r) == \A w \in Workers : worker[w].pc \in Holding => worker[w].job.rule # r
MirrorFree(i) == \A w \in Workers : worker[w].pc \in Holding => worker[w].job.invitation # i

Live(r) == rule[r] \in {"active", "paused"}
Pending == {ri \in Rules \X Invitations : action[ri[1]][ri[2]].status = "pending"}

\* The rule's actions in the given statuses change to another one.
Move(r, from, to) ==
    action' = [action EXCEPT ![r] = [i \in Invitations |->
        IF action[r][i].status \in from THEN [action[r][i] EXCEPT !.status = to] ELSE action[r][i]]]

-----------------------------------------------------------------------------
(* Reconciliation.                                                         *)

\* workInvitationCandidate and isEligibleWorkInvitation
Eligible(i, now) == mirror[i].answer = "needsAction" /\ Start[i] > now

\* What a pass finds out about an invitation; without busy times it is no conflict.
BasisOf(i, now) ==
    IF Eligible(i, now) /\ busy[i] > 0 THEN [revision |-> mirror[i].revision, busy |-> busy[i]]
    ELSE NoBasis

\* prepareConflictResponseInput: everything is read without a lock.
Prepare(p, r) ==
    /\ pass[p].pc = "idle" /\ rule[r] = "active"
    /\ pass' = [pass EXCEPT ![p] = [pc |-> "prepared", rule |-> r, now |-> clock,
                                    basis |-> [i \in Invitations |-> BasisOf(i, clock)]]]
    /\ UNCHANGED <<remote, mirror, busy, rule, action, jobs, facts, wire, worker, clock, declines>>

\* recordRuleFailure: the calendars, the sync or the free/busy query failed.
PrepareFails(r) ==
    /\ rule[r] = "active" /\ RuleFree(r)
    /\ Move(r, {"pending"}, "held")
    /\ UNCHANGED <<remote, mirror, busy, rule, jobs, facts, wire, pass, worker, clock, declines>>

\* The entries of a history that lie in the window.
Recent(history, now) == {k \in DOMAIN history : history[k] + Window >= now}

\* countRecentAppliedDeclines
Declined(now) == Cardinality(Recent(facts, now))

Conflicts(p) == {i \in Invitations : pass[p].basis[i].busy > 0}

\* What is still to be decided: not applied for this very basis.
Open(p) ==
    {i \in Conflicts(p) :
        action[pass[p].rule][i] # [status |-> "applied", basis |-> pass[p].basis[i]]}

\* Mutant: the budget is compared with what was applied, not with what is reserved.
ReservableUnlessSpent(p, S) ==
    S = IF Declined(pass[p].now) < Budget THEN Open(p) \ Unrevised ELSE {}

\* The loop over the conflicts: S holds the first ones, in the order of their start, and
\* as many of them as the budget has room for.
Reservable(p, S) ==
    LET wanted == Open(p) \ Unrevised
        reserved == Declined(pass[p].now) + Cardinality(S)
    IN  /\ S \subseteq wanted /\ \A i \in S, j \in wanted : j < i => j \in S
        /\ S # {} => reserved <= Budget
        /\ S # wanted => reserved >= Budget

\* The transaction that writes the actions; it waits for the rule's lock.
Commit(p) ==
    LET r == pass[p].rule
        basis == pass[p].basis
    IN  /\ pass[p].pc = "prepared" /\ RuleFree(r)
        /\ pass' = [pass EXCEPT ![p] = Idle]
        /\ IF rule[r] # "active" THEN UNCHANGED <<action, jobs>>
           ELSE \E S \in SUBSET Invitations :
                /\ Reservable(p, S)
                /\ action' = [action EXCEPT ![r] = [i \in Invitations |->
                      CASE i \in S -> [status |-> "pending", basis |-> basis[i]]
                        [] i \in Open(p) \ S -> [status |-> "held", basis |-> basis[i]]
                        [] i \notin Conflicts(p) /\ action[r][i].status \in {"pending", "held"} ->
                               [action[r][i] EXCEPT !.status = "superseded"]
                        [] OTHER -> action[r][i]]]
                \* enqueue adds nothing while the same job is live
                /\ jobs' = jobs \cup {[rule |-> r, invitation |-> i, basis |-> basis[i]] : i \in S}
        /\ UNCHANGED <<remote, mirror, busy, rule, facts, wire, worker, clock, declines>>

-----------------------------------------------------------------------------
(* Applying a reservation, one transaction across several provider calls.  *)

\* The transaction commits; the job is completed in a later one.
Settles(w, j, status) ==
    /\ action' = [action EXCEPT ![j.rule][j.invitation].status = status]
    /\ worker' = [worker EXCEPT ![w] = [pc |-> "committed", job |-> j]]

Untouched == <<remote, mirror, busy, rule, jobs, pass, clock, declines>>

\* The reservation is still the one the job was made for.
Current(j) ==
    /\ rule[j.rule] = "active"
    /\ action[j.rule][j.invitation] = [status |-> "pending", basis |-> j.basis]

\* A worker takes a job, possibly one whose worker lost its lease; the reads up to the
\* first provider call.  Writes may be disabled and calendars unusable: then it is held.
Begin(w, j) ==
    /\ worker[w].pc = "idle" /\ j \in jobs /\ RuleFree(j.rule)
    /\ \/ /\ ~Current(j)
          /\ worker' = [worker EXCEPT ![w] = [pc |-> "committed", job |-> j]]
          /\ UNCHANGED action
       \/ /\ Current(j) /\ MirrorFree(j.invitation)
          /\ \/ Settles(w, j, "held")
             \/ IF Eligible(j.invitation, clock) /\ mirror[j.invitation].revision = j.basis.revision
                THEN /\ worker' = [worker EXCEPT ![w] = [pc |-> "availability", job |-> j]]
                     /\ UNCHANGED action
                ELSE Settles(w, j, "superseded")
    /\ UNCHANGED <<Untouched, facts, wire>>

\* queryOpaqueAvailability for the exact interval.
AskAvailability(w) ==
    /\ worker[w].pc = "availability"
    /\ LET j == worker[w].job
       IN  IF busy[j.invitation] = 0 THEN Settles(w, j, "superseded")
           ELSE worker' = [worker EXCEPT ![w] = [pc |-> "read", job |-> j]] /\ UNCHANGED action
    /\ UNCHANGED <<Untouched, facts, wire>>

\* The action is applied: the row, the rule and the audit fact of the decline.
Applied(w) ==
    /\ Settles(w, worker[w].job, "applied")
    /\ facts' = Append(facts, clock)

\* Mutant: the PATCH is conditional on what was read last, not on what was evaluated.
AsEvaluatedNow(w) == remote[worker[w].job.invitation].answer = "needsAction"

\* The invitation still is what the pass evaluated.
AsEvaluated(w) ==
    remote[worker[w].job.invitation] =
        [revision |-> worker[w].job.basis.revision, answer |-> "needsAction"]

\* declineInvitation, the first GET.
ReadInvitation(w) ==
    /\ worker[w].pc = "read"
    /\ LET j == worker[w].job
       IN  \/ /\ remote[j.invitation].answer = "declined"
              /\ Applied(w)
           \/ /\ remote[j.invitation].answer # "declined"
              /\ IF AsEvaluated(w)
                 THEN /\ worker' = [worker EXCEPT ![w] =
                            [pc |-> "patch", job |-> j, match |-> remote[j.invitation].revision]]
                      /\ UNCHANGED action
                 ELSE Settles(w, j, "held")
              /\ UNCHANGED facts
    /\ UNCHANGED <<Untouched, wire>>

\* The provider takes a PATCH whose If-Match names the revision it has.
Takes(m) ==
    /\ remote[m.invitation].revision = m.match
    /\ remote' = [remote EXCEPT ![m.invitation] = [revision |-> m.match + 1, answer |-> "declined"]]
    /\ declines' = Append(declines, clock)

Awaits(w) == worker' = [worker EXCEPT ![w] = [pc |-> "verify", job |-> worker[w].job]]

\* declineInvitation, the PATCH: answered, refused with 412, or not answered at all.
Patch(w) ==
    LET j == worker[w].job
        m == [invitation |-> j.invitation, match |-> worker[w].match]
    IN  /\ worker[w].pc = "patch"
        /\ \/ Takes(m) /\ Awaits(w) /\ UNCHANGED <<action, wire>>
           \/ /\ remote[j.invitation].revision # m.match
              /\ Settles(w, j, "held") /\ UNCHANGED <<remote, declines, wire>>
           \/ wire' = wire \cup {m} /\ Awaits(w) /\ UNCHANGED <<remote, declines, action>>
        /\ UNCHANGED <<mirror, busy, rule, jobs, facts, pass, clock>>

\* Mutant: an answered PATCH is believed, and so is one without an answer.
VerifyNot(w) ==
    /\ worker[w].pc = "verify" /\ Applied(w)
    /\ UNCHANGED <<Untouched, wire>>

\* verifyDeclinedInvitation: only a declined invitation counts; an unanswered one is
\* ambiguous (Retry), any other answer is the user's.
Verify(w) ==
    /\ worker[w].pc = "verify"
    /\ LET j == worker[w].job
       IN  \/ remote[j.invitation].answer = "declined" /\ Applied(w)
           \/ remote[j.invitation].answer = "accepted" /\ Settles(w, j, "held") /\ UNCHANGED facts
    /\ UNCHANGED <<Untouched, wire>>

\* A provider call fails for good: free/busy out of bounds, the invitation missing or
\* cancelled, the write forbidden.  After a PATCH only the invitation itself can be refused.
Refused(w) ==
    /\ worker[w].pc \in Holding
    /\ Settles(w, worker[w].job, "held")
    /\ UNCHANGED <<Untouched, facts, wire>>

\* A retryable or ambiguous failure, or the worker dies: the transaction is rolled back.
\* The job runs again, unless this was its last attempt.
Retry(w) ==
    /\ worker[w].pc \in Holding
    /\ worker' = [worker EXCEPT ![w] = Idle]
    /\ jobs' \in {jobs, jobs \ {worker[w].job}}
    /\ UNCHANGED <<remote, mirror, busy, rule, action, facts, wire, pass, clock, declines>>

\* The worker completes the job, or dies before it does.
Finish(w) ==
    /\ worker[w].pc = "committed"
    /\ worker' = [worker EXCEPT ![w] = Idle]
    /\ jobs' \in {jobs, jobs \ {worker[w].job}}
    /\ UNCHANGED <<remote, mirror, busy, rule, action, facts, wire, pass, clock, declines>>

\* An unanswered PATCH reaches the provider late, or is refused or lost.
Land(m) ==
    /\ m \in wire
    /\ wire' = wire \ {m}
    /\ Takes(m) \/ UNCHANGED <<remote, declines>>
    /\ UNCHANGED <<mirror, busy, rule, action, jobs, facts, pass, worker, clock>>

-----------------------------------------------------------------------------
(* The rule.                                                               *)

Activate(r) ==
    /\ rule[r] = "none" /\ \A s \in Rules : ~Live(s)
    /\ rule' = [rule EXCEPT ![r] = "active"]
    /\ UNCHANGED <<remote, mirror, busy, action, jobs, facts, wire, pass, worker, clock, declines>>

\* Mutant: the rule's row is not locked, so a pause does not wait for an apply.
PauseAtOnce(r) ==
    /\ Live(r)
    /\ rule' = [rule EXCEPT ![r] = "paused"]
    /\ Move(r, {"pending"}, "held")
    /\ UNCHANGED <<remote, mirror, busy, jobs, facts, wire, pass, worker, clock, declines>>

Pause(r) ==
    /\ Live(r) /\ RuleFree(r)
    /\ rule' = [rule EXCEPT ![r] = "paused"]
    /\ Move(r, {"pending"}, "held")
    /\ UNCHANGED <<remote, mirror, busy, jobs, facts, wire, pass, worker, clock, declines>>

Resume(r) ==
    /\ Live(r) /\ RuleFree(r)
    /\ rule' = [rule EXCEPT ![r] = "active"]
    /\ UNCHANGED <<remote, mirror, busy, action, jobs, facts, wire, pass, worker, clock, declines>>

Remove(r) ==
    /\ Live(r) /\ RuleFree(r)
    /\ rule' = [rule EXCEPT ![r] = "deleted"]
    /\ Move(r, {"pending", "held"}, "superseded")
    /\ UNCHANGED <<remote, mirror, busy, jobs, facts, wire, pass, worker, clock, declines>>

-----------------------------------------------------------------------------
(* The user's calendars and the sync of the work calendar.                 *)

\* The user answers in the calendar, or the organizer moves the meeting.
Change(i, answer) ==
    /\ remote[i].revision < MaxRevision
    /\ remote' = [remote EXCEPT ![i] = [revision |-> remote[i].revision + 1, answer |-> answer]]
    /\ UNCHANGED <<mirror, busy, rule, action, jobs, facts, wire, pass, worker, clock, declines>>

PrivateChange(i, b) ==
    /\ b # busy[i]
    /\ busy' = [busy EXCEPT ![i] = b]
    /\ UNCHANGED <<remote, mirror, rule, action, jobs, facts, wire, pass, worker, clock, declines>>

\* sync_calendar writes the observation, which an apply may hold locked.
Sync(i) ==
    /\ MirrorFree(i) /\ mirror[i] # remote[i]
    /\ mirror' = [mirror EXCEPT ![i] = remote[i]]
    /\ UNCHANGED <<remote, busy, rule, action, jobs, facts, wire, pass, worker, clock, declines>>

Tick ==
    /\ clock < MaxTime
    /\ clock' = clock + 1
    /\ UNCHANGED <<remote, mirror, busy, rule, action, jobs, facts, wire, pass, worker, declines>>

-----------------------------------------------------------------------------
Progress(w) == AskAvailability(w) \/ ReadInvitation(w) \/ Patch(w) \/ Verify(w) \/ Finish(w)

Next ==
    \/ \E p \in Passes : (\E r \in Rules : Prepare(p, r)) \/ Commit(p)
    \/ \E w \in Workers : (\E j \in jobs : Begin(w, j)) \/ Progress(w) \/ Refused(w) \/ Retry(w)
    \/ \E m \in wire : Land(m)
    \/ \E r \in Rules : PrepareFails(r) \/ Activate(r) \/ Pause(r) \/ Resume(r) \/ Remove(r)
    \/ \E i \in Touched : \/ \E answer \in Answers : Change(i, answer)
                          \/ \E b \in 0..MaxBusy : PrivateChange(i, b)
    \/ \E i \in Invitations : Sync(i)
    \/ Tick

Spec == Init /\ [][Next]_vars

-----------------------------------------------------------------------------
(* Properties.                                                             *)

\* The shape of the rows, the jobs and the processes.
TypeOK ==
    /\ remote \in [Invitations -> Versions] /\ mirror \in [Invitations -> Versions]
    /\ busy \in [Invitations -> Nat]
    /\ rule \in [Rules -> {"none", "active", "paused", "deleted"}]
    /\ action \in [Rules -> [Invitations -> Actions]]
    /\ jobs \subseteq Jobs /\ wire \subseteq Requests
    /\ facts \in Seq(Times) /\ declines \in Seq(Times) /\ clock \in Times
    /\ pass \in [Passes -> PassStates] /\ worker \in [Workers -> WorkerStates]

\* The safety budget: what was applied in the last 24 hours and what is reserved never
\* exceed it, across rules that follow each other on the calendar, overlapping passes,
\* repeated jobs and rescheduled invitations whose action is used again.
WithinBudget == Declined(clock) + Cardinality(Pending) <= Budget

\* Pause, retirement and a newer evaluation wait for an apply that is under way: what it
\* checked in the database still holds when it sends its PATCH and when it commits.
ApplyKeepsItsGround ==
    \A w \in Workers : worker[w].pc \in Holding =>
        Current(worker[w].job) /\ mirror[worker[w].job.invitation].revision = worker[w].job.basis.revision

\* Planipus declines only the version of an invitation that it has mirrored, while that
\* is unanswered: one that was moved or answered since, even after the job's own checks,
\* is left alone, also when the PATCH arrives late.
DeclinesAsMirrored ==
    [][\A i \in Invitations : remote'[i] # remote[i] /\ declines' # declines =>
          remote[i] = mirror[i] /\ remote[i].answer = "needsAction"]_vars

\* An action counts as applied only when the provider has a later revision than the
\* evaluated one, as an answer gives it: never on the strength of a request that may have
\* been lost.  (An organizer's change also gives one; DeclinesAsMirrored tells them apart.)
AppliedIsAnswered ==
    \A r \in Rules, i \in Invitations :
        action[r][i].status = "applied" => remote[i].revision > action[r][i].basis.revision

\* At most 20 automatic declines are applied in a rolling window: the same budget,
\* counted at the provider.
DeclinesWithinBudget == Cardinality(Recent(declines, clock)) <= Budget
=============================================================================
