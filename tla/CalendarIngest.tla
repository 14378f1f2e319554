--------------------------- MODULE CalendarIngest ---------------------------
(***************************************************************************)
(* Reading one source calendar (server/src/sync/coordinator.ts): the sync  *)
(* cursor, full and incremental listings in pages, the observations they   *)
(* leave behind, and the purge of both when an account gives up the right  *)
(* to read events (server/src/providers/google/oauth.ts).                  *)
(*                                                                         *)
(* The provider is external.  It numbers the changes of the calendar; a    *)
(* sync token is such a number and promises every later change.  Passes    *)
(* of the same calendar normally exclude each other (one live job per      *)
(* deduplication key), but a worker that lost its lease goes on while the  *)
(* next one works: two Passes model that.                                  *)
(***************************************************************************)
EXTENDS Naturals, FiniteSets, FiniteSetsExt

CONSTANTS
    Events,     \* occurrences of the calendar
    Passes,     \* sync passes that may overlap
    MaxClock,   \* bound: changes of the calendar
    MaxResets,  \* bound: expiries of tokens and horizons, releases that change the query
    MaxFaults,  \* bound: failed or abandoned passes
    MaxPurges   \* bound: times the account gives up its read role

ASSUME IngestAssumption ==
    /\ IsFiniteSet(Events)
    /\ MaxClock \in Nat /\ MaxResets \in Nat
    /\ MaxFaults \in Nat /\ MaxPurges \in Nat

VARIABLES
    clock,    \* changes of the calendar so far
    remote,   \* remote[e]: what the provider has, and the change that made it so
    floor,    \* the provider answers 410 to sync tokens below this
    auth,     \* "ok", "off" (authorisation lost) or "narrow" (no right to read events)
    cursor,   \* the sync_cursors row of the query in use
    oldGen,   \* the highest generation among the rows of earlier queries
    obs,      \* obs[e]: the source_observations row
    pass,     \* pass[p]: the local state of a running syncCalendar
    used      \* [faults, purges, resets]: how much of each bound is used

vars == <<clock, remote, floor, auth, cursor, oldGen, obs, pass, used>>

NoToken == MaxClock + 1
Tokens == 0..NoToken

\* st "none": never existed, or not stored; "outside": moved out of the horizon of the
\* listing, or deleted so long ago that the provider no longer lists it.
Remote == [st : {"none", "live", "cancelled", "outside"}, at : 0..MaxClock]
Observation == [st : {"none", "live", "tomb"}, at : 0..MaxClock, gen : Nat]
NoObservation == [st |-> "none", at |-> 0, gen |-> 0]

Cursor == [st : {"absent", "full_required", "syncing", "ready", "action_required"},
           token : Tokens, gen : Nat,
           full : {"fresh", "due"}]          \* last_full_sync_at, 24 hours ago or not
NoCursor == [st |-> "absent", token |-> NoToken, gen |-> 0, full |-> "due"]

\* row: whether the cursor row the pass has read still exists.
Pass == [pc : {"idle", "opened", "list", "fetch", "store", "final"},
         row : {"here", "deleted"},
         token : Tokens, gen : Nat, full : {"fresh", "due"},
         next : 0..MaxClock,                 \* the provider's next sync token
         todo : SUBSET Events,               \* still to be listed
         page : [Events -> Remote]]          \* the page in hand; "none" for the others

Blank == [e \in Events |-> [st |-> "none", at |-> 0]]
Rest == [pc |-> "idle", row |-> "here", token |-> NoToken, gen |-> 0, full |-> "due",
         next |-> 0, todo |-> {}, page |-> Blank]

Init ==
    /\ clock = 0 /\ floor = 0 /\ auth = "ok"
    /\ remote = Blank
    /\ cursor = NoCursor /\ oldGen = 0
    /\ obs = [e \in Events |-> NoObservation]
    /\ pass = [p \in Passes |-> Rest]
    /\ used = [faults |-> 0, purges |-> 0, resets |-> 0]

Spend(what, bound) ==
    /\ used[what] < bound
    /\ used' = [used EXCEPT ![what] = @ + 1]

-----------------------------------------------------------------------------
(* Opening a pass.                                                         *)

\* Mutant: a new cursor starts again at generation one.
NextGenerationRestarts == 1

\* Generations are calendar-wide: above every observation and every earlier cursor.
NextGeneration == Max({oldGen} \cup {obs[e].gen : e \in Events}) + 1

\* The cursor is read, or created, under the connection's row lock.
Open(p) ==
    /\ pass[p].pc = "idle" /\ auth = "ok"
    /\ LET row == IF cursor.st = "absent"
                  THEN [NoCursor EXCEPT !.st = "full_required", !.gen = NextGeneration]
                  ELSE cursor
       IN  /\ cursor' = row
           /\ pass' = [pass EXCEPT ![p] = [Rest EXCEPT !.pc = "opened", !.token = row.token,
                                                       !.gen = row.gen, !.full = row.full]]
    /\ UNCHANGED <<clock, remote, floor, auth, oldGen, obs, used>>

Owned(p) == pass[p].row = "here"
Incremental(p) == pass[p].token # NoToken

\* The horizon is due for a full scan: drop the token unless another pass has
\* replaced it, and let the retried job start over.
Refresh(p) ==
    /\ pass[p].pc = "opened" /\ Incremental(p) /\ pass[p].full = "due"
    /\ cursor' = IF Owned(p) /\ cursor.token = pass[p].token
                 THEN [cursor EXCEPT !.token = NoToken, !.gen = @ + 1, !.st = "full_required"]
                 ELSE cursor
    /\ pass' = [pass EXCEPT ![p] = Rest]
    /\ UNCHANGED <<clock, remote, floor, auth, oldGen, obs, used>>

\* A cursor that was polled less than a minute ago is left alone: then nothing happens.
Start(p) ==
    /\ pass[p].pc = "opened" /\ (Incremental(p) => pass[p].full = "fresh")
    /\ cursor' = IF Owned(p) THEN [cursor EXCEPT !.st = "syncing"] ELSE cursor
    /\ pass' = [pass EXCEPT ![p] = [@ EXCEPT !.pc = "list"]]
    /\ UNCHANGED <<clock, remote, floor, auth, oldGen, obs, used>>

-----------------------------------------------------------------------------
(* Listing and storing pages.                                              *)

\* What a listing has to return: the changes after the token, or everything inside the
\* horizon, cancelled events included (showDeleted).
Listing(p) ==
    IF Incremental(p) THEN {e \in Events : remote[e].at > pass[p].token}
    ELSE {e \in Events : remote[e].st \in {"live", "cancelled"}}

Left(p) == IF pass[p].pc = "list" THEN Listing(p) ELSE pass[p].todo

\* Mutant: the page token is ignored, the first page ends the listing.
FetchOnePage(p) ==
    /\ pass[p].pc = "list" /\ (Incremental(p) => pass[p].token >= floor)
    /\ \E shown \in SUBSET Left(p) :
          /\ shown = {} => Left(p) = {}
          /\ pass' = [pass EXCEPT ![p] = [@ EXCEPT
                 !.pc = "store", !.next = clock, !.todo = {},
                 !.page = [e \in Events |-> IF e \in shown THEN remote[e] ELSE Blank[e]]]]
    /\ UNCHANGED <<clock, remote, floor, auth, oldGen, cursor, obs, used>>

\* listEvents: one page shows events as they are now.  The first page fixes the
\* sync token that the last one will carry.
Fetch(p) ==
    /\ pass[p].pc \in {"list", "fetch"}
    /\ pass[p].pc = "list" /\ Incremental(p) => pass[p].token >= floor
    /\ \E shown \in SUBSET Left(p) :
          /\ shown = {} => Left(p) = {}
          /\ pass' = [pass EXCEPT ![p] = [@ EXCEPT
                 !.pc = "store",
                 !.next = IF pass[p].pc = "list" THEN clock ELSE pass[p].next,
                 !.todo = Left(p) \ shown,
                 !.page = [e \in Events |-> IF e \in shown THEN remote[e] ELSE Blank[e]]]]
    /\ UNCHANGED <<clock, remote, floor, auth, oldGen, cursor, obs, used>>

\* Mutant: an expired token is reported but kept.
GoneKeepsToken(p) ==
    /\ pass[p].pc = "list" /\ Incremental(p) /\ pass[p].token < floor
    /\ cursor' = IF Owned(p) THEN [cursor EXCEPT !.st = "full_required"] ELSE cursor
    /\ pass' = [pass EXCEPT ![p] = Rest]
    /\ UNCHANGED <<clock, remote, floor, auth, oldGen, obs, used>>

\* HTTP 410: the token is dropped and the generation advances, whatever the cursor says now.
Gone(p) ==
    /\ pass[p].pc = "list" /\ Incremental(p) /\ pass[p].token < floor
    /\ cursor' = IF Owned(p)
                 THEN [cursor EXCEPT !.token = NoToken, !.gen = @ + 1, !.st = "full_required"]
                 ELSE cursor
    /\ pass' = [pass EXCEPT ![p] = Rest]
    /\ UNCHANGED <<clock, remote, floor, auth, oldGen, obs, used>>

\* The cursor after an error inside the listing.
Failed(p) == IF Owned(p) THEN [cursor EXCEPT !.st = "action_required"] ELSE cursor

\* Mutant: the connection is not checked again before a page is stored.
MayStoreAlways == TRUE

\* persistObservationPage locks the connection and checks its authority again.
MayStore == auth = "ok"

\* Mutant: the provider's lifecycle is stored as it came.
StoredVerbatim(p, e) ==
    LET seen == pass[p].page[e]
    IN  IF seen.st = "none" THEN obs[e]
        ELSE [st |-> seen.st, at |-> seen.at, gen |-> pass[p].gen]

\* The row that a page leaves for e: a tombstone unless the event is confirmed, stamped
\* with the generation of the pass.
Stored(p, e) ==
    LET seen == pass[p].page[e]
    IN  IF seen.st = "none" THEN obs[e]
        ELSE [st |-> IF seen.st = "cancelled" THEN "tomb" ELSE "live", at |-> seen.at,
              gen |-> pass[p].gen]

Persist(p) ==
    /\ pass[p].pc = "store"
    /\ \/ /\ MayStore
          /\ obs' = [e \in Events |-> Stored(p, e)]
          /\ pass' = [pass EXCEPT ![p] = [@ EXCEPT
                 !.pc = IF pass[p].todo = {} THEN "final" ELSE "fetch", !.page = Blank]]
          /\ UNCHANGED cursor
       \/ /\ ~MayStore
          /\ cursor' = Failed(p)
          /\ pass' = [pass EXCEPT ![p] = Rest]
          /\ UNCHANGED obs
    /\ UNCHANGED <<clock, remote, floor, auth, oldGen, used>>

\* A listing call or its token fails: the error is recorded and the job retried.
FetchFails(p) ==
    /\ pass[p].pc \in {"list", "fetch"} /\ Spend("faults", MaxFaults)
    /\ cursor' = Failed(p)
    /\ pass' = [pass EXCEPT ![p] = Rest]
    /\ UNCHANGED <<clock, remote, floor, auth, oldGen, obs>>

\* The worker dies, or the provider returned no final token: nothing is recorded.
Dies(p) ==
    /\ pass[p].pc # "idle" /\ Spend("faults", MaxFaults)
    /\ pass' = [pass EXCEPT ![p] = Rest]
    /\ UNCHANGED <<clock, remote, floor, auth, oldGen, cursor, obs>>

-----------------------------------------------------------------------------
(* The final transaction.                                                  *)

\* Mutant: rows of the pass's own generation count as unseen.
UnseenInclusive(p, e) == ~Incremental(p) /\ obs[e].st # "none" /\ obs[e].gen <= pass[p].gen

\* A complete full scan did not touch this row in the pass's generation.
Unseen(p, e) == ~Incremental(p) /\ obs[e].st # "none" /\ obs[e].gen < pass[p].gen

\* Tombstones for what a full scan did not see, and the cursor moves on; a pass whose
\* authority is gone or whose cursor row was deleted moves nothing.
Finish(p) ==
    /\ pass[p].pc = "final"
    /\ IF auth = "ok"
       THEN /\ obs' = [e \in Events |->
                  IF Unseen(p, e) THEN [obs[e] EXCEPT !.st = "tomb", !.gen = pass[p].gen]
                  ELSE obs[e]]
            /\ cursor' = IF Owned(p)
                  THEN [cursor EXCEPT !.token = pass[p].next, !.st = "ready",
                                      !.full = IF Incremental(p) THEN @ ELSE "fresh"]
                  ELSE cursor
       ELSE UNCHANGED <<obs, cursor>>
    /\ pass' = [pass EXCEPT ![p] = Rest]
    /\ UNCHANGED <<clock, remote, floor, auth, oldGen, used>>

-----------------------------------------------------------------------------
(* The surroundings.                                                       *)

\* An event is created or changed, cancelled, or leaves the horizon.
RemoteChange(e) ==
    /\ clock < MaxClock
    /\ clock' = clock + 1
    /\ \/ remote' = [remote EXCEPT ![e] = [st |-> "live", at |-> clock + 1]]
       \/ /\ remote[e].st = "live"
          /\ \E st \in {"cancelled", "outside"} :
                remote' = [remote EXCEPT ![e] = [st |-> st, at |-> clock + 1]]
    /\ UNCHANGED <<floor, auth, cursor, oldGen, obs, pass, used>>

\* The provider forgets old sync tokens.
TokensExpire ==
    /\ floor < clock /\ floor' = clock
    /\ Spend("resets", MaxResets)
    /\ UNCHANGED <<clock, remote, auth, cursor, oldGen, obs, pass>>

\* A day has passed since the last full scan.
DayPasses ==
    /\ cursor.full = "fresh"
    /\ Spend("resets", MaxResets)
    /\ cursor' = [cursor EXCEPT !.full = "due"]
    /\ UNCHANGED <<clock, remote, floor, auth, oldGen, obs, pass>>

\* A token refresh or a provider call finds the authorisation gone.
Revoked ==
    /\ auth = "ok" /\ Spend("faults", MaxFaults)
    /\ auth' = "off"
    /\ UNCHANGED <<clock, remote, floor, cursor, oldGen, obs, pass>>

\* prepareEventReadRemoval: the role loses the right to read events and everything
\* that was read is deleted, under the connection's row lock.
Purge ==
    /\ auth # "narrow" /\ Spend("purges", MaxPurges)
    /\ auth' = "narrow"
    /\ obs' = [e \in Events |-> NoObservation]
    /\ cursor' = NoCursor /\ oldGen' = 0
    /\ pass' = [p \in Passes |-> IF pass[p].pc = "idle" THEN pass[p]
                                 ELSE [pass[p] EXCEPT !.row = "deleted"]]
    /\ UNCHANGED <<clock, remote, floor>>

\* The server restarts with a release that lists events by another query: the cursor of
\* the old fingerprint stays behind, unused.
Upgrade ==
    /\ cursor.st # "absent"
    /\ Spend("resets", MaxResets)
    /\ oldGen' = Max({oldGen, cursor.gen})
    /\ cursor' = NoCursor
    /\ pass' = [p \in Passes |-> Rest]
    /\ UNCHANGED <<clock, remote, floor, auth, obs>>

\* The account is authorised again, with a role that reads events.
Grant ==
    /\ auth # "ok" /\ auth' = "ok"
    /\ UNCHANGED <<clock, remote, floor, cursor, oldGen, obs, pass, used>>

-----------------------------------------------------------------------------
Advance(p) ==
    \/ Open(p) \/ Refresh(p) \/ Start(p)
    \/ Fetch(p) \/ Gone(p) \/ Persist(p) \/ Finish(p)

Surroundings ==
    \/ \E e \in Events : RemoteChange(e)
    \/ TokensExpire \/ DayPasses \/ Revoked \/ Purge \/ Upgrade \/ Grant

Next ==
    \/ \E p \in Passes : Advance(p) \/ FetchFails(p) \/ Dies(p)
    \/ Surroundings

Spec == Init /\ [][Next]_vars

\* The scheduler queues a sync of every readable calendar in every window and a failed
\* job is retried (module JobQueue), so some pass always goes on; people reconnect.
FairSpec == Spec /\ (\A p \in Passes : WF_vars(Advance(p))) /\ WF_vars(Grant)

-----------------------------------------------------------------------------
(* Properties.                                                             *)

\* The shape of the calendar, the rows and the passes.
TypeOK ==
    /\ clock \in 0..MaxClock /\ floor \in 0..MaxClock
    /\ remote \in [Events -> Remote]
    /\ auth \in {"ok", "off", "narrow"}
    /\ cursor \in Cursor /\ oldGen \in Nat
    /\ obs \in [Events -> Observation]
    /\ pass \in [Passes -> Pass]
    /\ used \in [faults : 0..MaxFaults, purges : 0..MaxPurges,
                resets : 0..MaxResets]

\* The observation of e says what the provider says.  An event outside the horizon
\* may be known as it is or not at all.
Agrees(e) ==
    CASE remote[e].st = "live" -> obs[e].st = "live" /\ obs[e].at = remote[e].at
      [] remote[e].st = "outside" -> obs[e].st = "live" => obs[e].at = remote[e].at
      [] OTHER -> obs[e].st # "live"

Settled(e) == cursor.token # NoToken /\ remote[e].at <= cursor.token

\* The cursor never runs ahead of the observations: a change inside the horizon that the
\* provider will not send again has been stored, through pages, crashes, expired tokens,
\* upgrades and role changes.
NothingMissed ==
    \A e \in Events : Settled(e) /\ remote[e].st # "outside" => Agrees(e)

\* The generation of the next full scan: the cursor's own when its token is gone, else the
\* one that dropping the token will start.
NextScan == IF cursor.token = NoToken THEN cursor.gen ELSE cursor.gen + 1

\* The next full scan reaches every stored row, that is, its generation is above the row's
\* (the scan tombstones strictly lower generations), however the cursor came to be.  The
\* exception is a row stored by a scan of that very generation, which is under way or was
\* interrupted: the scan begun again does not reach it, the one after that does.
NextScanReaches ==
    cursor.st # "absent" =>
        \A e \in Events :
            \/ obs[e].gen < NextScan
            \/ /\ cursor.token = NoToken /\ obs[e].gen = NextScan
               /\ \/ used.faults > 0
                  \/ \E p \in Passes : pass[p].pc # "idle" /\ pass[p].gen = NextScan

\* No event content reappears after the purge until the account reads events again,
\* although a pass may be in flight.
PurgedStaysPurged ==
    auth = "narrow" => cursor.st = "absent" /\ \A e \in Events : obs[e].st = "none"

\* Absence is inferred only for events that the complete scan could not see: an event
\* that was there all the time is never tombstoned.
AbsenceIsReal ==
    [][\A p \in Passes, e \in Events :
          /\ pass[p].pc = "final" /\ pass'[p].pc = "idle"
          /\ obs[e].st = "live" /\ obs'[e].st = "tomb"
          => ~(remote[e].st = "live" /\ remote[e].at <= pass[p].next)]_vars

\* Once the calendar is quiet and readable the observations agree with it for good, inside
\* the horizon.
MirrorsCalendar ==
    <>[](auth = "ok" /\ \A e \in Events : remote[e].st # "outside" => Agrees(e))
=============================================================================
