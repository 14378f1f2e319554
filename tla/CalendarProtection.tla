------------------------- MODULE CalendarProtection -------------------------
(***************************************************************************)
(* Which features may use which calendar at the same time, and the locks   *)
(* that decide it: activating and resuming a bridge (policy/service.ts),   *)
(* activating, resuming and retiring a conflict-response rule (conflict-   *)
(* response/service.ts), activating a planning rule (planning/service.ts)  *)
(* and giving up an account's right to read events (providers/google/      *)
(* oauth.ts), all through lockProtectedSourceCalendars.                    *)
(*                                                                         *)
(* A transaction runs at read committed: every statement sees what others  *)
(* have committed by then, so each read is a step of its own and only the  *)
(* locks keep two decisions apart.  The records live in different tables   *)
(* that no constraint relates; the one index that would help, unique over  *)
(* live rules per response calendar, is left out: the locks must do        *)
(* without it.  Whether a calendar can be read or written follows from the *)
(* role of its connection: discovery sets both flags from the role, giving *)
(* up the role clears them.                                                *)
(* Rows of endpoints are locked only under the advisory lock of the        *)
(* endpoint and are left out.                                              *)
(***************************************************************************)
EXTENDS Naturals, FiniteSets

CONSTANTS
    Endpoints,     \* calendars as each connection sees them
    Identities,    \* the calendars behind them; delegated accounts share one
    Connections,
    Identity,      \* Identity[e]: the provider calendar behind e
    Connection,    \* Connection[e]: the connection e belongs to
    Policies, Source, Destination,       \* bridges and the endpoints they join
    Rules, Response, Availability,       \* conflict-response rules and their endpoints
    Plans, Target,                       \* planning rules and the endpoints they write
    Grants,        \* Grants[c]: the roles that are asked for at connection c
    Txs,           \* requests that may be served at the same time
    Rank,          \* the sort order of the advisory lock keys
    NoTx

Roles == {"availability", "source", "destination", "both"}
Reads == {"source", "both"}
Writes == {"destination", "both"}

AdvisoryKeys == ({"endpoint"} \X Endpoints) \cup ({"identity"} \X Identities)
                  \cup ({"response"} \X Identities)
RowKeys == ({"policy"} \X Policies) \cup ({"rule"} \X Rules) \cup ({"plan"} \X Plans)
             \cup ({"connection"} \X Connections)

ASSUME ProtectionAssumption ==
    /\ Identity \in [Endpoints -> Identities]
    /\ Connection \in [Endpoints -> Connections]
    /\ Source \in [Policies -> Endpoints] /\ Destination \in [Policies -> Endpoints]
    /\ Response \in [Rules -> Endpoints] /\ Availability \in [Rules -> SUBSET Endpoints]
    /\ Target \in [Plans -> Endpoints]
    /\ Grants \in [Connections -> SUBSET Roles]
    /\ Rank \in [AdvisoryKeys -> Nat]
    /\ \A j, k \in AdvisoryKeys : Rank[j] = Rank[k] => j = k
    /\ NoTx \notin Txs
    /\ IsFiniteSet(Txs)     \* the connection pool bounds them

VARIABLES
    policy,   \* policy[p]: the status of sync_policies row p; "none" while it is a preview
    rule,     \* rule[r]: the status of conflict_response_rules row r
    plan,     \* plan[q]: the status of planning_rules row q
    role,     \* role[c]: provider_connections.intended_role
    auth,     \* auth[c]: provider_connections.status
    holder,   \* holder[k]: the transaction that holds lock k
    tx        \* tx[t]: what a request is doing

vars == <<policy, rule, plan, role, auth, holder, tx>>

\* An operation on one record; "narrow" carries the role the account is given.
Ops == ([kind : {"bridge", "unpause"}, of : Policies]
         \cup [kind : {"reply", "resume", "retire"}, of : Rules]
         \cup [kind : {"plan"}, of : Plans])
         \cup [kind : {"narrow"}, of : Connections, to : Roles]

Idle == [pc |-> "idle"]
Working == [pc : {"row", "lock", "verify", "write"}, op : Ops]
             \cup [pc : {"broker"}, op : Ops, on : Connections]

Init ==
    /\ policy = [p \in Policies |-> "none"]
    /\ rule = [r \in Rules |-> "none"]
    /\ plan = [q \in Plans |-> "none"]
    /\ role \in [Connections -> Roles] /\ \A c \in Connections : role[c] \in Grants[c]
    /\ auth = [c \in Connections |-> "active"]
    /\ holder = [k \in AdvisoryKeys \cup RowKeys |-> NoTx]
    /\ tx = [t \in Txs |-> Idle]

-----------------------------------------------------------------------------
(* The calendars an operation is about.                                    *)

LiveRule(r) == rule[r] \in {"active", "paused"}
Stored(p) == policy[p] \in {"active", "paused"}

\* The provider calendars a rule promises not to copy.
ProtectedBy(r) == {Identity[e] : e \in Availability[r]}
Ends(p) == {Identity[Source[p]], Identity[Destination[p]]}

\* requirePolicyCalendars
PolicyCalendars(p) ==
    /\ auth[Connection[Source[p]]] = "active" /\ role[Connection[Source[p]]] \in Reads
    /\ auth[Connection[Destination[p]]] = "active"
    /\ role[Connection[Destination[p]]] \in Writes
    /\ Identity[Source[p]] # Identity[Destination[p]]

\* loadConflictCalendarSelection
RuleCalendars(r) ==
    /\ auth[Connection[Response[r]]] = "active" /\ role[Connection[Response[r]]] = "both"
    /\ \A e \in Availability[r] : /\ auth[Connection[e]] = "active"
                                  /\ role[Connection[e]] # "destination"
                                  /\ Identity[e] # Identity[Response[r]]
    /\ \A d, e \in Availability[r] : Identity[d] = Identity[e] => d = e

\* Mutant: only the local endpoints are locked, as before delegated accounts were known.
NeedsEndpoints(op) ==
    {<<"endpoint", e>> : e \in
        CASE op.kind \in {"bridge", "unpause"} -> {Source[op.of], Destination[op.of]}
          [] op.kind \in {"reply", "resume", "retire"} -> {Response[op.of]} \cup Availability[op.of]
          [] op.kind = "plan" -> {Target[op.of]}
          [] op.kind = "narrow" -> {e \in Endpoints : Connection[e] = op.of}}

\* The keys an operation passes to lockProtectedSourceCalendars.
Needs(op) ==
    CASE op.kind \in {"bridge", "unpause"} ->
             ({"endpoint"} \X {Source[op.of], Destination[op.of]})
               \cup ({"identity"} \X Ends(op.of))
      [] op.kind \in {"reply", "resume", "retire"} ->
             {<<"response", Identity[Response[op.of]]>>, <<"endpoint", Response[op.of]>>}
               \cup ({"endpoint"} \X Availability[op.of])
               \cup ({"identity"} \X ProtectedBy(op.of))
      [] op.kind = "plan" -> {<<"endpoint", Target[op.of]>>}
      [] op.kind = "narrow" -> {"endpoint"} \X {e \in Endpoints : Connection[e] = op.of}

\* The row that the first statement locks: the preview, the record or the connection.
RowOf(op) ==
    CASE op.kind \in {"bridge", "unpause"} -> <<"policy", op.of>>
      [] op.kind \in {"reply", "resume", "retire"} -> <<"rule", op.of>>
      [] op.kind = "plan" -> <<"plan", op.of>>
      [] op.kind = "narrow" -> <<"connection", op.of>>

-----------------------------------------------------------------------------
(* Transactions.                                                           *)

Records == <<policy, rule, plan, role, auth>>

At(t, pc) == tx[t].pc = pc
Goes(t, pc) == tx' = [tx EXCEPT ![t] = [pc |-> pc, op |-> tx[t].op]]

\* Commit or rollback: every lock of the transaction is released.
Finishes(t) ==
    /\ tx' = [tx EXCEPT ![t] = Idle]
    /\ holder' = [k \in DOMAIN holder |-> IF holder[k] = t THEN NoTx ELSE holder[k]]

\* A request arrives.
Begin(t, op) ==
    /\ At(t, "idle")
    /\ op.kind = "narrow" => op.to \in Grants[op.of]
    /\ tx' = [tx EXCEPT ![t] = [pc |-> "row", op |-> op]]
    /\ UNCHANGED <<Records, holder>>

\* removesEventReadAccess
RemovesEventReadAccess(from, to) == from \in Reads /\ to \notin Reads

\* What the first reads require of the record and its calendars.
Admitted(op) ==
    CASE op.kind = "bridge" -> policy[op.of] = "none" /\ PolicyCalendars(op.of)
      [] op.kind = "unpause" -> Stored(op.of)
      [] op.kind = "reply" -> rule[op.of] = "none" /\ RuleCalendars(op.of)
      [] op.kind = "resume" -> LiveRule(op.of) /\ RuleCalendars(op.of)
      [] op.kind = "retire" -> LiveRule(op.of)
      [] op.kind = "plan" -> plan[op.of] = "none"
      [] op.kind = "narrow" -> RemovesEventReadAccess(role[op.of], op.to)

\* select ... for update, then the reads that decide which locks are needed.
TakeRow(t) ==
    /\ At(t, "row") /\ holder[RowOf(tx[t].op)] = NoTx
    /\ IF Admitted(tx[t].op)
       THEN /\ holder' = [holder EXCEPT ![RowOf(tx[t].op)] = t]
            /\ Goes(t, "lock")
       ELSE Finishes(t)
    /\ UNCHANGED Records

Missing(op, t) == {k \in Needs(op) : holder[k] # t}

\* Mutant: the keys are locked in the order of the request.
NextKeysAny(t) == Missing(tx[t].op, t)

\* Keys are sorted, so the next one is the smallest that is missing.
NextKeys(t) ==
    LET missing == Missing(tx[t].op, t)
    IN  {k \in missing : \A j \in missing : Rank[k] <= Rank[j]}

\* pg_advisory_xact_lock on one key.
TakeKey(t) ==
    /\ At(t, "lock")
    /\ \E k \in NextKeys(t) : holder[k] = NoTx /\ holder' = [holder EXCEPT ![k] = t]
    /\ UNCHANGED <<Records, tx>>

-----------------------------------------------------------------------------
(* What is read under the locks.                                           *)

\* requireNoConflictResponseRule
Unprotected(p) == \A r \in Rules : LiveRule(r) => ProtectedBy(r) \cap Ends(p) = {}

\* requireNoCopyPolicies: no bridge into a protected calendar, none active out of one.
NoCopyPolicies(r) ==
    \A p \in Policies :
        /\ Stored(p) => Identity[Destination[p]] \notin ProtectedBy(r)
        /\ policy[p] = "active" => Identity[Source[p]] \notin ProtectedBy(r)

\* Mutant: the lookup goes by the local endpoint instead of the provider's calendar.
NoOtherRuleHere(r) == \A s \in Rules : LiveRule(s) => Response[s] # Response[r]

\* The lookup of a live rule for the same response calendar.  The unique index over
\* response_provider_identity that backs it is left out: the locks do without it.
NoOtherRule(r) == \A s \in Rules : LiveRule(s) => Identity[Response[s]] # Identity[Response[r]]

\* Mutant: giving up a role asks about bridges only.
UnneededByBridges(op) ==
    \A p \in Policies : Stored(p) => Connection[Source[p]] # op.of

\* prepareEventReadRemoval refuses while something still needs the account.  References
\* by old projections and actions, which refuse more, are left out.
Unneeded(op) ==
    /\ \A p \in Policies : Stored(p) =>
          /\ Connection[Source[p]] # op.of
          /\ op.to = "availability" => Connection[Destination[p]] # op.of
    /\ \A q \in Plans : plan[q] = "active" /\ op.to = "availability" => Connection[Target[q]] # op.of
    /\ \A r \in Rules : LiveRule(r) => Connection[Response[r]] # op.of

\* The first check after the locks.
Allowed(op) ==
    CASE op.kind \in {"bridge", "unpause"} -> Unprotected(op.of)
      [] op.kind = "reply" -> NoOtherRule(op.of)
      [] op.kind = "resume" -> NoCopyPolicies(op.of)
      [] op.kind = "retire" -> TRUE
      [] op.kind = "plan" -> /\ auth[Connection[Target[op.of]]] = "active"
                             /\ role[Connection[Target[op.of]]] \in Writes
      [] op.kind = "narrow" -> Unneeded(op)

Check(t) ==
    /\ At(t, "lock") /\ Missing(tx[t].op, t) = {}
    /\ LET op == tx[t].op
       IN  IF ~Allowed(op) THEN Finishes(t)
           ELSE /\ Goes(t, IF op.kind \in {"bridge", "unpause", "reply"} THEN "verify" ELSE "write")
                /\ UNCHANGED holder
    /\ UNCHANGED Records

\* The calendars are loaded again, and a new rule asks for bridges.
StillValid(op) ==
    IF op.kind = "reply" THEN RuleCalendars(op.of) /\ NoCopyPolicies(op.of)
    ELSE PolicyCalendars(op.of)

\* A new rule then asks the provider for free/busy, with its locks held; the token of a
\* connection may turn out to be unusable.
Verify(t) ==
    /\ At(t, "verify")
    /\ LET op == tx[t].op
       IN  IF ~StillValid(op) THEN Finishes(t)
           ELSE /\ \/ Goes(t, "write")
                   \/ /\ op.kind = "reply"
                      /\ \E e \in Availability[op.of] :
                            tx' = [tx EXCEPT ![t] = [pc |-> "broker", op |-> op, on |-> Connection[e]]]
                /\ UNCHANGED holder
    /\ UNCHANGED Records

\* The token broker marks the connection over a database session of its own, which waits
\* for the connection's row; then the activation fails.
Broker(t) ==
    /\ At(t, "broker") /\ holder[<<"connection", tx[t].on>>] = NoTx
    /\ auth' = [auth EXCEPT ![tx[t].on] = "action_required"]
    /\ Finishes(t)
    /\ UNCHANGED <<policy, rule, plan, role>>

\* The last statements and the commit.
Write(t) ==
    /\ At(t, "write")
    /\ LET op == tx[t].op
       IN  /\ policy' = IF op.kind \in {"bridge", "unpause"}
                        THEN [policy EXCEPT ![op.of] = "active"] ELSE policy
           /\ rule' = CASE op.kind \in {"reply", "resume"} -> [rule EXCEPT ![op.of] = "active"]
                        [] op.kind = "retire" -> [rule EXCEPT ![op.of] = "deleted"]
                        [] OTHER -> rule
           /\ plan' = IF op.kind = "plan" THEN [plan EXCEPT ![op.of] = "active"] ELSE plan
           /\ role' = IF op.kind = "narrow" THEN [role EXCEPT ![op.of] = op.to] ELSE role
           /\ auth' = IF op.kind = "narrow" THEN [auth EXCEPT ![op.of] = "active"] ELSE auth
    /\ Finishes(t)

\* A lost session, a failing provider call or an error: everything is rolled back.
Fail(t) ==
    /\ ~At(t, "idle")
    /\ Finishes(t)
    /\ UNCHANGED Records

\* The lock the running statement of t asks for, if it does.
Awaited(t) ==
    CASE At(t, "row") -> {RowOf(tx[t].op)}
      [] At(t, "lock") -> NextKeys(t)
      [] At(t, "broker") -> {<<"connection", tx[t].on>>}
      [] OTHER -> {}

WaitsFor(t, u) == u # t /\ \E k \in Awaited(t) : holder[k] = u

\* statement_timeout: a statement that waits for a lock for 30 seconds fails.
Timeout(t) ==
    /\ \E u \in Txs : WaitsFor(t, u)
    /\ Finishes(t)
    /\ UNCHANGED Records

-----------------------------------------------------------------------------
(* Requests that wait for no advisory lock, one transaction each.          *)

PausePolicy(p) ==
    /\ Stored(p) /\ holder[<<"policy", p>>] = NoTx
    /\ policy' = [policy EXCEPT ![p] = "paused"]
    /\ UNCHANGED <<rule, plan, role, auth, holder, tx>>

PauseRule(r) ==
    /\ LiveRule(r) /\ holder[<<"rule", r>>] = NoTx
    /\ rule' = [rule EXCEPT ![r] = "paused"]
    /\ UNCHANGED <<policy, plan, role, auth, holder, tx>>

\* The OAuth callback, for a role that takes no event reads away.
Reauthorize(c, to) ==
    /\ ~RemovesEventReadAccess(role[c], to) /\ holder[<<"connection", c>>] = NoTx
    /\ role' = [role EXCEPT ![c] = to]
    /\ auth' = [auth EXCEPT ![c] = "active"]
    /\ UNCHANGED <<policy, rule, plan, holder, tx>>

-----------------------------------------------------------------------------
Step(t) ==
    \/ TakeRow(t) \/ TakeKey(t)
    \/ Check(t) \/ Verify(t) \/ Broker(t) \/ Write(t) \/ Timeout(t)

Next ==
    \/ \E t \in Txs : (\E op \in Ops : Begin(t, op)) \/ Step(t) \/ Fail(t)
    \/ \E p \in Policies : PausePolicy(p)
    \/ \E r \in Rules : PauseRule(r)
    \/ \E c \in Connections : \E to \in Grants[c] : Reauthorize(c, to)

Spec == Init /\ [][Next]_vars

-----------------------------------------------------------------------------
(* Properties.                                                             *)

\* The shape of the records, the locks and the requests.
TypeOK ==
    /\ policy \in [Policies -> {"none", "active", "paused"}]
    /\ rule \in [Rules -> {"none", "active", "paused", "deleted"}]
    /\ plan \in [Plans -> {"none", "active"}]
    /\ role \in [Connections -> Roles]
    /\ auth \in [Connections -> {"active", "action_required"}]
    /\ holder \in [AdvisoryKeys \cup RowKeys -> Txs \cup {NoTx}]
    /\ tx \in [Txs -> Working \cup {Idle}]

\* The no-copy promise: while a rule stands, paused or not, no bridge carries events out
\* of a calendar it protects and none, not even a paused one, leads into it, whichever
\* of its endpoints the bridge names and however the two activations interleave.
NoCopy ==
    \A r \in Rules, p \in Policies :
        LiveRule(r) =>
            /\ policy[p] = "active" => Identity[Source[p]] \notin ProtectedBy(r)
            /\ Stored(p) => Identity[Destination[p]] \notin ProtectedBy(r)

\* One rule at most answers the invitations of a provider calendar, by the locks and the
\* lookup under them.
OneController ==
    \A r, s \in Rules :
        LiveRule(r) /\ LiveRule(s) /\ Identity[Response[r]] = Identity[Response[s]] => r = s

\* An account that no longer reads events is not the source of a bridge and answers no
\* invitations: a role given up and a feature activated at the same time exclude each other.
ReadersKeepRole ==
    /\ \A p \in Policies : Stored(p) => role[Connection[Source[p]]] \in Reads
    /\ \A r \in Rules : LiveRule(r) => role[Connection[Response[r]]] \in Reads

\* Sorted keys: transactions never wait for each other in a circle, as far as the
\* database can see.
NoDeadlock ==
    \A S \in (SUBSET Txs) \ {{}} : \E t \in S : At(t, "broker") \/ \A u \in S : ~WaitsFor(t, u)
=============================================================================
