------------------------ MODULE CalendarIngestProofs ------------------------
(***************************************************************************)
(* Proofs about CalendarIngest for any number of events, passes, changes,  *)
(* faults, resets and purges.                                              *)
(*                                                                         *)
(* Two of the results hold whatever passes overlap.  The others are about  *)
(* what the cursor promises and need what the job queue gives while its    *)
(* leases last: one pass of a calendar at a time.                          *)
(***************************************************************************)
EXTENDS CalendarIngest, FiniteSetTheorems, TLAPS

Active(p) == pass[p].pc # "idle"

\* One live job per deduplication key: no two passes of the calendar are under way.
OneAtATime == \A p, q \in Passes : Active(p) /\ Active(q) => p = q

-----------------------------------------------------------------------------
(* The next generation.                                                    *)

\* A finite set of naturals has a largest element.
LEMMA Largest ==
    ASSUME NEW S, IsFiniteSet(S), S # {}, NEW f \in [S -> Nat]
    PROVE  \E x \in S : \A y \in S : f[y] <= f[x]
<1> SUFFICES ASSUME \A x \in S : \E y \in S : f[x] < f[y] PROVE FALSE
  OBVIOUS
<1> DEFINE Endless == {U \in SUBSET S : U # {} /\ \A x \in U : \E y \in U : f[x] < f[y]}
<1>1. IsWellFoundedOn(StrictSubsetOrdering(S), SUBSET S)
  BY FS_StrictSubsetOrderingWellFounded, FS_FiniteSubsetsOfFinite
<1>2. S \in Endless /\ Endless \subseteq SUBSET S
  OBVIOUS
<1>3. PICK U \in Endless : \A V \in Endless : ~(<<V, U>> \in StrictSubsetOrdering(S))
  <2> HIDE DEF Endless
  <2> QED BY <1>1, <1>2, WFMin
<1>4. PICK x \in U : TRUE
  OBVIOUS
<1> DEFINE V == {y \in U : f[x] < f[y]}
<1>5. V \in Endless
  OBVIOUS
<1>6. V \subseteq U /\ V # U /\ U \in SUBSET S
  <2>1. ~(f[x] < f[x])
    OBVIOUS
  <2> QED BY <1>4, <2>1
<1> HIDE DEF V, Endless
<1> QED BY <1>3, <1>5, <1>6 DEF StrictSubsetOrdering

\* Max picks an upper bound of a set that has one among its elements.
LEMMA MaxIs ==
    ASSUME NEW S \in SUBSET Nat, NEW x \in S, \A y \in S : y <= x
    PROVE  Max(S) \in S /\ \A y \in S : y <= Max(S)
<1>1. \E m \in S : \A y \in S : m >= y
  OBVIOUS
<1>2. Max(S) \in S /\ \A y \in S : Max(S) >= y
  BY <1>1 DEF Max
<1> QED BY <1>2

\* The generation of a new cursor is above every observation and every earlier cursor.
LEMMA NextGenerationAbove ==
    ASSUME oldGen \in Nat, obs \in [Events -> Observation]
    PROVE  /\ NextGeneration \in Nat /\ oldGen < NextGeneration
           /\ \A e \in Events : obs[e].gen < NextGeneration
<1> DEFINE f == [e \in Events |-> obs[e].gen]
           S == {oldGen} \cup {obs[e].gen : e \in Events}
<1>1. f \in [Events -> Nat] /\ S \in SUBSET Nat
  BY DEF Observation
<1>2. \E x \in S : \A y \in S : y <= x
  <2>1. CASE Events = {}
    BY <2>1
  <2>2. CASE Events # {}
    <3>1. PICK e \in Events : \A d \in Events : f[d] <= f[e]
      <4> HIDE DEF f
      <4> QED BY <1>1, <2>2, Largest, IngestAssumption
    <3>2. obs[e].gen \in Nat /\ \A d \in Events : obs[d].gen <= obs[e].gen
      BY <1>1, <3>1
    <3>3. CASE oldGen <= obs[e].gen
      BY <3>2, <3>3
    <3>4. CASE ~(oldGen <= obs[e].gen)
      <4>1. \A d \in Events : obs[d].gen <= oldGen
        BY <1>1, <3>2, <3>4 DEF Observation
      <4> QED BY <4>1
    <3> QED BY <3>3, <3>4
  <2> QED BY <2>1, <2>2
<1>3. Max(S) \in S /\ \A y \in S : y <= Max(S)
  <2> HIDE DEF S
  <2> QED BY <1>1, <1>2, MaxIs
<1>4. NextGeneration = Max(S) + 1
  BY DEF NextGeneration
<1>5. Max(S) \in Nat
  BY <1>1, <1>3
<1>6. oldGen \in S /\ \A e \in Events : obs[e].gen \in S /\ obs[e].gen \in Nat
  BY <1>1
<1> HIDE DEF S
<1> QED BY <1>3, <1>4, <1>5, <1>6

-----------------------------------------------------------------------------
(* The shape of the state.                                                 *)

\* The rows and passes a step may create are well-formed.
LEMMA Shapes ==
    /\ Blank \in [Events -> Remote]
    /\ Rest \in Pass /\ NoCursor \in Cursor /\ NoObservation \in Observation
<1>1. Blank \in [Events -> Remote]
  BY IngestAssumption DEF Blank, Remote
<1>2. NoToken \in Tokens
  BY IngestAssumption DEF NoToken, Tokens
<1>3. Rest \in Pass
  BY <1>1, <1>2, IngestAssumption DEF Rest, Pass
<1>4. NoCursor \in Cursor
  BY <1>2 DEF NoCursor, Cursor
<1>5. NoObservation \in Observation
  BY IngestAssumption DEF NoObservation, Observation
<1> QED BY <1>1, <1>3, <1>4, <1>5

\* Every step counts against its bound at most once.
LEMMA SpendShape ==
    ASSUME TypeOK, NEW what \in {"faults", "purges", "resets"}, NEW bound,
           Spend(what, bound), what = "faults" => bound = MaxFaults,
           what = "purges" => bound = MaxPurges, what = "resets" => bound = MaxResets
    PROVE  used' \in [faults : 0..MaxFaults, purges : 0..MaxPurges, resets : 0..MaxResets]
  BY IngestAssumption DEF TypeOK, Spend

\* A pass that opens finds or creates a well-formed cursor.
LEMMA OpenShape ==
    ASSUME TypeOK, NEW p \in Passes, Open(p)
    PROVE  TypeOK'
<1> DEFINE row == IF cursor.st = "absent"
                  THEN [NoCursor EXCEPT !.st = "full_required", !.gen = NextGeneration]
                  ELSE cursor
<1>1. row \in Cursor
  BY Shapes, NextGenerationAbove DEF TypeOK, Cursor
<1>2. /\ cursor' = row
      /\ pass' = [pass EXCEPT ![p] = [Rest EXCEPT !.pc = "opened", !.token = row.token,
                                                  !.gen = row.gen, !.full = row.full]]
  BY DEF Open
<1>3. [Rest EXCEPT !.pc = "opened", !.token = row.token, !.gen = row.gen, !.full = row.full] \in Pass
  <2> HIDE DEF row
  <2> QED BY <1>1, Shapes DEF Cursor, Pass
<1> HIDE DEF row
<1> QED BY <1>1, <1>2, <1>3 DEF Open, TypeOK

\* What a page does to its pass.
LEMMA FetchIs ==
    ASSUME TypeOK, NEW p \in Passes, Fetch(p)
    PROVE  /\ \E shown \in SUBSET Left(p) :
                 /\ pass'[p].todo = Left(p) \ shown
                 /\ \A e \in Events :
                       pass'[p].page[e] = IF e \in shown THEN remote[e] ELSE Blank[e]
           /\ pass'[p].next = IF pass[p].pc = "list" THEN clock ELSE pass[p].next
           /\ pass'[p].pc = "store" /\ pass'[p].row = pass[p].row
           /\ pass'[p].token = pass[p].token /\ pass'[p].gen = pass[p].gen
           /\ pass' \in [Passes -> Pass]
           /\ \A q \in Passes \ {p} : pass'[q] = pass[q]
<1> DEFINE page(shown) == [e \in Events |-> IF e \in shown THEN remote[e] ELSE Blank[e]]
           next == IF pass[p].pc = "list" THEN clock ELSE pass[p].next
<1>0. pass \in [Passes -> Pass]
  BY DEF TypeOK
<1>1. PICK shown \in SUBSET Left(p) :
          pass' = [pass EXCEPT ![p] = [@ EXCEPT
                 !.pc = "store",
                 !.next = IF pass[p].pc = "list" THEN clock ELSE pass[p].next,
                 !.todo = Left(p) \ shown,
                 !.page = [e \in Events |-> IF e \in shown THEN remote[e] ELSE Blank[e]]]]
  BY DEF Fetch
<1>2. pass[p] \in Pass /\ Left(p) \in SUBSET Events
  BY <1>0 DEF TypeOK, Left, Listing, Pass
<1>3. page(shown) \in [Events -> Remote]
  BY Shapes DEF TypeOK
<1>4. next \in 0..MaxClock
  BY <1>2 DEF TypeOK, Pass
<1>5. /\ pass'[p].pc = "store" /\ pass'[p].row = pass[p].row
      /\ pass'[p].token = pass[p].token /\ pass'[p].gen = pass[p].gen
      /\ pass'[p].full = pass[p].full /\ pass'[p].todo = Left(p) \ shown
      /\ pass'[p].page = page(shown) /\ pass'[p].next = next
      /\ DOMAIN pass'[p] = DOMAIN pass[p]
  BY <1>0, <1>1, <1>2 DEF Pass
<1>6. pass'[p] \in Pass
  <2> HIDE DEF page, next
  <2>1. pass'[p] = [pass[p] EXCEPT !.pc = "store", !.next = next,
                                   !.todo = Left(p) \ shown, !.page = page(shown)]
    BY <1>0, <1>1 DEF page, next
  <2> QED BY <1>2, <1>3, <1>4, <2>1 DEF Pass
<1>7. \A e \in Events : pass'[p].page[e] = IF e \in shown THEN remote[e] ELSE Blank[e]
  BY <1>5
<1>8. pass' \in [Passes -> Pass] /\ \A q \in Passes \ {p} : pass'[q] = pass[q]
  BY <1>0, <1>1, <1>6
<1> HIDE DEF page
<1> QED BY <1>1, <1>5, <1>7, <1>8

\* A page leaves the pass well-formed.
LEMMA FetchShape ==
    ASSUME TypeOK, NEW p \in Passes, Fetch(p)
    PROVE  TypeOK'
  BY FetchIs DEF Fetch, TypeOK

\* Storing a page keeps rows well-formed: the lifecycle is translated, never copied.
LEMMA PersistShape ==
    ASSUME TypeOK, NEW p \in Passes, Persist(p)
    PROVE  TypeOK'
<1>1. pass[p] \in Pass /\ pass \in [Passes -> Pass]
  BY DEF TypeOK
<1>2. CASE MayStore
  <2>1. /\ obs' = [e \in Events |-> Stored(p, e)] /\ cursor' = cursor
        /\ pass' = [pass EXCEPT ![p] = [@ EXCEPT
               !.pc = IF pass[p].todo = {} THEN "final" ELSE "fetch", !.page = Blank]]
    BY <1>2 DEF Persist
  <2>2. \A e \in Events : Stored(p, e) \in Observation
    BY <1>1 DEF Stored, TypeOK, Observation, Pass, Remote
  <2>3. [pass[p] EXCEPT !.pc = IF pass[p].todo = {} THEN "final" ELSE "fetch", !.page = Blank] \in Pass
    BY <1>1, Shapes DEF Pass
  <2> QED BY <2>1, <2>2, <2>3 DEF Persist, TypeOK
<1>3. CASE ~MayStore
  <2>1. Failed(p) \in Cursor
    BY DEF Failed, Cursor, TypeOK
  <2> QED BY <1>3, <2>1, Shapes DEF Persist, TypeOK
<1> QED BY <1>2, <1>3

\* So does the last transaction of a pass.
LEMMA FinishShape ==
    ASSUME TypeOK, NEW p \in Passes, Finish(p)
    PROVE  TypeOK'
<1>1. pass[p] \in Pass
  BY DEF TypeOK
<1>2. CASE auth = "ok"
  <2>1. \A e \in Events : [obs[e] EXCEPT !.st = "tomb", !.gen = pass[p].gen] \in Observation
    <3>1. pass[p].gen \in Nat /\ \A e \in Events : obs[e] \in Observation
      BY <1>1 DEF TypeOK, Pass
    <3> QED BY <3>1 DEF Observation
  <2>2. obs' \in [Events -> Observation]
    BY <1>2, <2>1 DEF Finish, TypeOK
  <2>3. [cursor EXCEPT !.token = pass[p].next, !.st = "ready",
                       !.full = IF Incremental(p) THEN @ ELSE "fresh"] \in Cursor
    <3>1. pass[p].next \in Tokens /\ cursor \in Cursor
      BY <1>1, IngestAssumption DEF TypeOK, Pass, Tokens, NoToken
    <3> QED BY <3>1 DEF Cursor
  <2>4. cursor' \in Cursor
    BY <1>2, <2>3 DEF Finish, TypeOK
  <2> QED BY <2>2, <2>4, Shapes DEF Finish, TypeOK
<1>3. CASE auth # "ok"
  BY <1>3, Shapes DEF Finish, TypeOK
<1> QED BY <1>2, <1>3

\* Every step keeps the shape of the calendar, the rows and the passes.
LEMMA NextShape == TypeOK /\ [Next]_vars => TypeOK'
<1> SUFFICES ASSUME TypeOK, [Next]_vars PROVE TypeOK'
  OBVIOUS
<1>1. CASE UNCHANGED vars
  BY <1>1 DEF vars, TypeOK
<1>2. ASSUME NEW p \in Passes, Advance(p) PROVE TypeOK'
  <2>0. cursor \in Cursor /\ NoToken \in Tokens
    BY IngestAssumption DEF TypeOK, NoToken, Tokens
  <2>1. pass[p] \in Pass /\ pass \in [Passes -> Pass]
    BY DEF TypeOK
  <2>2. CASE Open(p) BY <2>2, OpenShape
  <2>3. CASE Refresh(p)
    <3>1. [cursor EXCEPT !.token = NoToken, !.gen = @ + 1, !.st = "full_required"] \in Cursor
      <4>1. cursor.gen + 1 \in Nat
        BY <2>0 DEF Cursor
      <4> QED BY <2>0, <4>1 DEF Cursor
    <3>2. cursor' \in Cursor
      BY <2>0, <2>3, <3>1 DEF Refresh
    <3> QED BY <2>3, <3>2, Shapes DEF Refresh, TypeOK
  <2>4. CASE Start(p)
    <3>1. cursor' \in Cursor
      BY <2>4 DEF Start, TypeOK, Cursor
    <3>2. [pass[p] EXCEPT !.pc = "list"] \in Pass
      BY <2>1 DEF Pass
    <3> QED BY <2>4, <3>1, <3>2 DEF Start, TypeOK
  <2>5. CASE Fetch(p) BY <2>5, FetchShape
  <2>6. CASE Gone(p)
    <3>1. [cursor EXCEPT !.token = NoToken, !.gen = @ + 1, !.st = "full_required"] \in Cursor
      <4>1. cursor.gen + 1 \in Nat
        BY <2>0 DEF Cursor
      <4> QED BY <2>0, <4>1 DEF Cursor
    <3>2. cursor' \in Cursor
      BY <2>0, <2>6, <3>1 DEF Gone
    <3> QED BY <2>6, <3>2, Shapes DEF Gone, TypeOK
  <2>7. CASE Persist(p) BY <2>7, PersistShape
  <2>8. CASE Finish(p) BY <2>8, FinishShape
  <2> QED BY <1>2, <2>2, <2>3, <2>4, <2>5, <2>6, <2>7, <2>8 DEF Advance
<1>3. ASSUME NEW p \in Passes, FetchFails(p) PROVE TypeOK'
  <2>1. Failed(p) \in Cursor
    BY DEF Failed, Cursor, TypeOK
  <2> QED BY <1>3, <2>1, Shapes, SpendShape DEF FetchFails, TypeOK
<1>4. ASSUME NEW p \in Passes, Dies(p) PROVE TypeOK'
  BY <1>4, Shapes, SpendShape DEF Dies, TypeOK
<1>5. ASSUME NEW e \in Events, RemoteChange(e) PROVE TypeOK'
  <2>1. clock' \in 0..MaxClock /\ clock' = clock + 1
    BY <1>5, IngestAssumption DEF RemoteChange, TypeOK
  <2>2. \A st \in {"live", "cancelled", "outside"} : [st |-> st, at |-> clock + 1] \in Remote
    BY <2>1 DEF Remote
  <2>3. remote' \in [Events -> Remote]
    BY <1>5, <2>2 DEF RemoteChange, TypeOK
  <2> QED BY <1>5, <2>1, <2>3 DEF RemoteChange, TypeOK
<1>6. CASE TokensExpire
  BY <1>6, SpendShape DEF TokensExpire, TypeOK
<1>7. CASE DayPasses
  <2>1. cursor' \in Cursor
    BY <1>7 DEF DayPasses, TypeOK, Cursor
  <2> QED BY <1>7, <2>1, SpendShape DEF DayPasses, TypeOK
<1>8. CASE Revoked
  BY <1>8, SpendShape DEF Revoked, TypeOK
<1>9. CASE Purge
  <2>1. \A p \in Passes : [pass[p] EXCEPT !.row = "deleted"] \in Pass
    BY DEF TypeOK, Pass
  <2>2. pass' \in [Passes -> Pass]
    BY <1>9, <2>1 DEF Purge, TypeOK
  <2> QED BY <1>9, <2>2, Shapes, SpendShape DEF Purge, TypeOK
<1>10. CASE Upgrade
  <2>1. oldGen \in Nat /\ cursor.gen \in Nat
    BY DEF TypeOK, Cursor
  <2>2. Max({oldGen, cursor.gen}) \in Nat
    <3> DEFINE S == {oldGen, cursor.gen}
    <3>1. S \in SUBSET Nat /\ \E x \in S : \A y \in S : y <= x
      BY <2>1
    <3> HIDE DEF S
    <3>2. Max(S) \in Nat
      BY <3>1, MaxIs
    <3> QED BY <3>2 DEF S
  <2> QED BY <1>10, <2>2, Shapes, SpendShape DEF Upgrade, TypeOK
<1>11. CASE Grant
  BY <1>11 DEF Grant, TypeOK
<1> QED BY <1>1, <1>2, <1>3, <1>4, <1>5, <1>6, <1>7, <1>8, <1>9, <1>10, <1>11 DEF Next, Surroundings

\* The calendar, the rows and the passes keep their shape, whatever passes overlap and
\* however often the account, the tokens and the query change.
THEOREM TypeCorrect == Spec => []TypeOK
<1>1. Init => TypeOK
  BY Shapes, IngestAssumption DEF Init, TypeOK
<1> QED BY <1>1, NextShape, PTL DEF Spec

-----------------------------------------------------------------------------
(* After a purge.                                                          *)

\* While the account may not read events there is no cursor and no observation, and a
\* pass that is still under way has lost its cursor row, so it can write nothing back.
Clean ==
    auth = "narrow" =>
        /\ cursor = NoCursor
        /\ \A e \in Events : obs[e].st = "none"
        /\ \A p \in Passes : Active(p) => ~Owned(p)

\* Every step keeps a purged account clean, whatever passes are in flight.
LEMMA NextClean == TypeOK /\ Clean /\ [Next]_vars => Clean'
<1> SUFFICES ASSUME TypeOK, Clean, [Next]_vars, auth' = "narrow"
             PROVE  /\ cursor' = NoCursor
                    /\ \A e \in Events : obs'[e].st = "none"
                    /\ \A p \in Passes : Active(p)' => ~Owned(p)'
  BY DEF Clean
<1>0. pass \in [Passes -> Pass]
  BY DEF TypeOK
<1>1. CASE UNCHANGED vars
  BY <1>1 DEF vars, Clean, Active, Owned
<1>2. ASSUME NEW p \in Passes, auth = "narrow", obs' = obs, Active(p),
             pass' = [pass EXCEPT ![p] = Rest] \/ pass' = [pass EXCEPT ![p] = [@ EXCEPT !.pc = "list"]],
             cursor' = cursor \/ Owned(p)
      PROVE  /\ cursor' = NoCursor
             /\ \A e \in Events : obs'[e].st = "none"
             /\ \A q \in Passes : Active(q)' => ~Owned(q)'
  <2>1. \A q \in Passes \ {p} : pass'[q] = pass[q]
    BY <1>0, <1>2
  <2>2. ~Active(p)' \/ pass'[p].row = pass[p].row
    BY <1>0, <1>2 DEF Active, Rest, Pass
  <2> QED BY <1>2, <2>1, <2>2 DEF Clean, Active, Owned
<1>3. ASSUME NEW p \in Passes, Advance(p)
      PROVE  /\ cursor' = NoCursor
             /\ \A e \in Events : obs'[e].st = "none"
             /\ \A q \in Passes : Active(q)' => ~Owned(q)'
  <2>0. auth = "narrow"
    BY <1>3 DEF Advance, Open, Refresh, Start, Fetch, Gone, Persist, Finish
  <2>1. CASE Open(p) BY <2>0, <2>1 DEF Open
  <2>2. CASE Refresh(p) BY <1>2, <2>0, <2>2 DEF Refresh, Active
  <2>3. CASE Start(p) BY <1>2, <2>0, <2>3 DEF Start, Active
  <2>4. CASE Fetch(p)
    <3>1. /\ pass'[p].row = pass[p].row /\ cursor' = cursor /\ obs' = obs
          /\ \A q \in Passes \ {p} : pass'[q] = pass[q]
      BY <2>4, FetchIs DEF Fetch
    <3>2. Active(p)
      BY <2>4 DEF Fetch, Active
    <3> QED BY <2>0, <3>1, <3>2 DEF Clean, Active, Owned
  <2>5. CASE Gone(p) BY <1>2, <2>0, <2>5 DEF Gone, Active
  <2>6. CASE Persist(p) BY <1>2, <2>0, <2>6 DEF Persist, MayStore, Failed, Active
  <2>7. CASE Finish(p) BY <1>2, <2>0, <2>7 DEF Finish, Active
  <2> QED BY <1>3, <2>1, <2>2, <2>3, <2>4, <2>5, <2>6, <2>7 DEF Advance
<1>4. ASSUME NEW p \in Passes, FetchFails(p)
      PROVE  /\ cursor' = NoCursor
             /\ \A e \in Events : obs'[e].st = "none"
             /\ \A q \in Passes : Active(q)' => ~Owned(q)'
  BY <1>2, <1>4 DEF FetchFails, Failed, Active
<1>5. ASSUME NEW p \in Passes, Dies(p)
      PROVE  /\ cursor' = NoCursor
             /\ \A e \in Events : obs'[e].st = "none"
             /\ \A q \in Passes : Active(q)' => ~Owned(q)'
  BY <1>2, <1>5 DEF Dies, Active
<1>6. CASE (\E e \in Events : RemoteChange(e)) \/ TokensExpire
  BY <1>6 DEF RemoteChange, TokensExpire, Clean, Active, Owned
<1>7. CASE DayPasses
  BY <1>7 DEF DayPasses, Clean, NoCursor
<1>8. CASE Purge
  <2>1. \A p \in Passes : Active(p)' => pass'[p].row = "deleted"
    BY <1>0, <1>8 DEF Purge, Active, Pass
  <2>2. \A e \in Events : obs'[e].st = "none"
    BY <1>8 DEF Purge, NoObservation
  <2> QED BY <1>8, <2>1, <2>2 DEF Purge, Owned
<1>9. CASE Upgrade
  BY <1>9 DEF Upgrade, Clean, NoCursor
<1>10. CASE Revoked \/ Grant
  BY <1>10 DEF Revoked, Grant
<1> QED BY <1>1, <1>3, <1>4, <1>5, <1>6, <1>7, <1>8, <1>9, <1>10 DEF Next, Surroundings

\* prepareEventReadRemoval deletes what was read, and no pass brings any of it back before
\* the account is granted the right again, however many passes overlap the purge.
THEOREM PurgeHolds == Spec => []PurgedStaysPurged
<1>1. Init => Clean
  BY DEF Init, Clean
<1>2. Clean => PurgedStaysPurged
  BY DEF Clean, PurgedStaysPurged, NoCursor
<1> QED BY <1>1, <1>2, NextClean, TypeCorrect, PTL DEF Spec

-----------------------------------------------------------------------------
(* What the cursor promises while passes exclude each other.               *)

\* A cursor never promises changes that have not happened, and what was never in the
\* calendar was never observed.
WellFormed ==
    /\ cursor.st = "absent" => cursor = NoCursor
    /\ cursor.token # NoToken => cursor.token <= clock
    /\ \A e \in Events : /\ remote[e].at <= clock
                         /\ remote[e].st = "none" => obs[e].st = "none"

\* A pass whose cursor row exists works for that very row; one whose row was deleted is
\* alone with what it has stored since.
Linked(p) ==
    /\ Owned(p) => /\ cursor.st # "absent"
                   /\ pass[p].gen = cursor.gen /\ pass[p].token = cursor.token
    /\ ~Owned(p) => /\ cursor.st = "absent"
                    /\ \A e \in Events : obs[e].st # "none" => obs[e].gen = pass[p].gen

Listed == {"store", "fetch", "final"}

\* The page in hand shows an event as it is, or the event changed after the listing began.
Paged(p) ==
    /\ pass[p].pc \in {"fetch", "final"} => \A e \in Events : pass[p].page[e].st = "none"
    /\ pass[p].pc = "final" => pass[p].todo = {}
    /\ Incremental(p) => pass[p].token <= clock
    /\ pass[p].pc \in Listed =>
          /\ pass[p].next <= clock
          /\ Incremental(p) => pass[p].token <= pass[p].next
          /\ \A e \in Events : pass[p].page[e].st # "none" =>
                \/ pass[p].page[e] = remote[e]
                \/ remote[e].at > pass[p].next /\ remote[e].st # "none"

\* What the listing's token will promise is still to come, in the page, or stored; a full
\* scan has stamped it with its generation.
Covered(p) ==
    pass[p].pc \in Listed /\ Owned(p) =>
        \A e \in Events :
            remote[e].at <= pass[p].next /\ remote[e].st \in {"live", "cancelled"} =>
                \/ e \in pass[p].todo
                \/ pass[p].page[e].st # "none"
                \/ Agrees(e) /\ (Incremental(p) \/ obs[e].gen = pass[p].gen)

PassOK(p) == Active(p) => Linked(p) /\ Paged(p) /\ Covered(p)

Passing == \A p \in Passes : PassOK(p)

\* No row is ahead of the cursor.
Bounded == cursor.st # "absent" => \A e \in Events : obs[e].gen <= cursor.gen

IInv == WellFormed /\ Passing /\ NothingMissed /\ Bounded

\* The other passes are idle while one is under way.
LEMMA OnlyPass ==
    ASSUME OneAtATime', NEW p \in Passes, PassOK(p)', Active(p)'
    PROVE  Passing'
  BY DEF OneAtATime, Passing, PassOK, Active

\* When the pass under way ends, no pass is left.
LEMMA NoPass ==
    ASSUME TypeOK, OneAtATime, NEW p \in Passes, Active(p), pass' = [pass EXCEPT ![p] = Rest]
    PROVE  Passing'
<1>1. \A q \in Passes : pass'[q].pc = "idle"
  BY DEF TypeOK, OneAtATime, Active, Rest
<1> QED BY <1>1 DEF Passing, PassOK, Active

\* A pass that ends without storing anything keeps the promises of the cursor when it
\* leaves the cursor's token and generation alone, or drops the token and raises the
\* generation.
LEMMA QuietEnd ==
    ASSUME TypeOK, IInv, OneAtATime, NEW p \in Passes, Active(p),
           pass' = [pass EXCEPT ![p] = Rest],
           UNCHANGED <<clock, remote, obs>>,
           cursor' \in Cursor,
           \/ cursor' = cursor
           \/ /\ Owned(p) /\ cursor'.st # "absent"
              /\ \/ cursor'.token = cursor.token /\ cursor'.gen = cursor.gen
                 \/ cursor'.token = NoToken /\ cursor'.gen = cursor.gen + 1
    PROVE  IInv'
<1>1. Passing'
  BY NoPass
<1>2. CASE cursor' = cursor
  BY <1>1, <1>2 DEF IInv, WellFormed, NothingMissed, Bounded, Agrees, Settled
<1>3. ASSUME Owned(p), cursor'.st # "absent",
             \/ cursor'.token = cursor.token /\ cursor'.gen = cursor.gen
             \/ cursor'.token = NoToken /\ cursor'.gen = cursor.gen + 1
      PROVE  IInv'
  <2>1. cursor.st # "absent"
    BY <1>3 DEF IInv, Passing, PassOK, Linked
  <2>2. WellFormed'
    BY <1>3 DEF IInv, WellFormed
  <2>3. NothingMissed'
    BY <1>3 DEF IInv, NothingMissed, Settled, Agrees
  <2>4. Bounded'
    <3>1. cursor.gen \in Nat /\ cursor'.gen \in Nat /\ \A e \in Events : obs[e].gen \in Nat
      BY DEF TypeOK, Cursor, Observation
    <3>2. cursor.gen <= cursor'.gen
      BY <1>3, <3>1
    <3> QED BY <2>1, <3>1, <3>2 DEF IInv, Bounded
  <2> QED BY <1>1, <2>2, <2>3, <2>4 DEF IInv
<1> QED BY <1>2, <1>3

\* Open: a new cursor has no token and a generation above every row.
LEMMA OpenKeeps ==
    ASSUME TypeOK, IInv, OneAtATime', NEW p \in Passes, Open(p)
    PROVE  IInv'
<1> DEFINE row == IF cursor.st = "absent"
                  THEN [NoCursor EXCEPT !.st = "full_required", !.gen = NextGeneration]
                  ELSE cursor
<1>1. /\ cursor' = row
      /\ pass' = [pass EXCEPT ![p] = [Rest EXCEPT !.pc = "opened", !.token = row.token,
                                                  !.gen = row.gen, !.full = row.full]]
      /\ UNCHANGED <<clock, remote, obs>>
  BY DEF Open
<1>2. /\ pass'[p].pc = "opened" /\ pass'[p].row = "here"
      /\ pass'[p].token = row.token /\ pass'[p].gen = row.gen
  BY <1>1 DEF TypeOK, Rest
<1>3. \/ row = cursor /\ cursor.st # "absent"
      \/ /\ cursor.st = "absent" /\ row.st = "full_required" /\ row.token = NoToken
         /\ row.gen = NextGeneration
  BY DEF NoCursor
<1> HIDE DEF row
<1>4. Passing'
  <2>1. Active(p)' /\ Owned(p)' /\ row.st # "absent"
    BY <1>2, <1>3 DEF Active, Owned
  <2>2. Linked(p)'
    BY <1>1, <1>2, <2>1 DEF Linked
  <2>3. Paged(p)' /\ Covered(p)'
    BY <1>1, <1>2, <1>3 DEF Paged, Covered, Listed, Incremental, IInv, WellFormed
  <2> QED BY <2>1, <2>2, <2>3, OnlyPass DEF PassOK
<1>5. WellFormed' /\ NothingMissed'
  BY <1>1, <1>3 DEF IInv, WellFormed, NothingMissed, Settled, Agrees
<1>6. Bounded'
  <2>1. CASE row = cursor /\ cursor.st # "absent"
    BY <1>1, <2>1 DEF IInv, Bounded
  <2>2. CASE row.gen = NextGeneration
    <3>1. \A e \in Events : obs[e].gen < NextGeneration /\ obs[e].gen \in Nat /\ NextGeneration \in Nat
      BY NextGenerationAbove DEF TypeOK, Observation
    <3> QED BY <1>1, <2>2, <3>1 DEF Bounded
  <2> QED BY <1>3, <2>1, <2>2
<1> QED BY <1>4, <1>5, <1>6 DEF IInv

\* Start: only the status of the cursor and the place of the pass change.
LEMMA StartKeeps ==
    ASSUME TypeOK, IInv, OneAtATime', NEW p \in Passes, Start(p)
    PROVE  IInv'
<1>1. /\ pass'[p].pc = "list" /\ pass'[p].row = pass[p].row
      /\ pass'[p].token = pass[p].token /\ pass'[p].gen = pass[p].gen
      /\ UNCHANGED <<clock, remote, obs>>
  BY DEF Start, TypeOK, Pass
<1>2. /\ cursor'.token = cursor.token /\ cursor'.gen = cursor.gen
      /\ cursor' = cursor \/ (cursor'.st # "absent" /\ Owned(p))
  BY DEF Start, TypeOK, Cursor
<1>3. Linked(p) /\ Paged(p)
  BY DEF IInv, Passing, PassOK, Active, Start
<1>4. cursor'.st = "absent" <=> cursor.st = "absent"
  BY <1>2, <1>3 DEF Linked
<1>5. Passing'
  <2>1. Active(p)' /\ Paged(p)' /\ Covered(p)'
    BY <1>1, <1>3 DEF Active, Paged, Covered, Listed, Incremental
  <2>2. Linked(p)'
    BY <1>1, <1>2, <1>3, <1>4 DEF Linked, Owned
  <2> QED BY <2>1, <2>2, OnlyPass DEF PassOK
<1>6. WellFormed' /\ NothingMissed' /\ Bounded'
  BY <1>1, <1>2, <1>4 DEF IInv, WellFormed, NothingMissed, Settled, Agrees, Bounded
<1> QED BY <1>5, <1>6 DEF IInv

\* Fetch: what the listing's token will promise is in the listing, unless the token the
\* pass began with had promised it already.
LEMMA FetchKeeps ==
    ASSUME TypeOK, IInv, OneAtATime', NEW p \in Passes, Fetch(p)
    PROVE  IInv'
<1>1. PICK shown \in SUBSET Left(p) :
          /\ pass'[p].todo = Left(p) \ shown
          /\ \A e \in Events : pass'[p].page[e] = IF e \in shown THEN remote[e] ELSE Blank[e]
  BY FetchIs
<1>2. /\ pass'[p].next = IF pass[p].pc = "list" THEN clock ELSE pass[p].next
      /\ pass'[p].pc = "store" /\ pass'[p].row = pass[p].row
      /\ pass'[p].token = pass[p].token /\ pass'[p].gen = pass[p].gen
  BY FetchIs
<1>3. UNCHANGED <<clock, remote, cursor, obs>> /\ pass[p].pc \in {"list", "fetch"}
  BY DEF Fetch
<1>4. Linked(p) /\ Paged(p) /\ Covered(p) /\ Active(p)'
  BY <1>2, <1>3 DEF IInv, Passing, PassOK, Active
<1>5. Linked(p)'
  BY <1>2, <1>3, <1>4 DEF Linked, Owned
<1>6. clock \in Nat /\ pass[p].next \in Nat /\ pass[p].token \in Nat /\ NoToken \in Nat
      /\ \A e \in Events : remote[e].at \in Nat
  BY IngestAssumption DEF TypeOK, Pass, Tokens, NoToken, Remote
<1>7. Paged(p)'
  <2>1. pass'[p].next <= clock
    BY <1>2, <1>3, <1>4, <1>6 DEF Paged, Listed
  <2>2. Incremental(p) => pass[p].token <= pass'[p].next
    <3>1. CASE pass[p].pc = "list"
      BY <1>2, <1>4, <3>1 DEF Paged
    <3>2. CASE pass[p].pc = "fetch"
      BY <1>2, <1>4, <3>2 DEF Paged, Listed
    <3> QED BY <1>3, <3>1, <3>2
  <2>3. \A e \in Events : pass'[p].page[e].st # "none" => pass'[p].page[e] = remote[e]
    BY <1>1 DEF Blank
  <2> QED BY <1>2, <1>3, <1>4, <2>1, <2>2, <2>3 DEF Paged, Incremental
<1>8. Covered(p)'
  <2> SUFFICES ASSUME Owned(p), NEW e \in Events, remote[e].at <= pass'[p].next,
                      remote[e].st \in {"live", "cancelled"}, e \notin pass'[p].todo,
                      pass'[p].page[e].st = "none"
               PROVE  Agrees(e) /\ (Incremental(p) \/ obs[e].gen = pass[p].gen)
    BY <1>2, <1>3 DEF Covered, Owned, Agrees, Incremental
  <2>1. e \notin Left(p)
    BY <1>1
  <2>2. CASE pass[p].pc = "list"
    <3>1. Incremental(p) /\ ~(remote[e].at > pass[p].token)
      BY <2>1, <2>2 DEF Left, Listing
    <3>2. cursor.token = pass[p].token /\ cursor.token # NoToken
      BY <1>4, <3>1 DEF Linked, Incremental
    <3>3. Settled(e)
      BY <1>6, <3>1, <3>2 DEF Settled
    <3> QED BY <3>1, <3>3 DEF IInv, NothingMissed
  <2>3. CASE pass[p].pc = "fetch"
    BY <1>2, <1>4, <2>1, <2>3 DEF Covered, Paged, Left, Listed
  <2> QED BY <1>3, <2>2, <2>3
<1>9. Passing'
  BY <1>4, <1>5, <1>7, <1>8, OnlyPass DEF PassOK
<1> QED BY <1>3, <1>9 DEF IInv, WellFormed, NothingMissed, Bounded, Settled, Agrees

\* Persist: a row that is written shows its event as it is or as it was when the event had
\* not yet changed for the last time, and then no token promises that change.
LEMMA StoreKeeps ==
    ASSUME TypeOK, IInv, OneAtATime', NEW p \in Passes, Persist(p), MayStore
    PROVE  IInv'
<1>1. /\ \A e \in Events : obs'[e] = Stored(p, e)
      /\ pass'[p].pc = IF pass[p].todo = {} THEN "final" ELSE "fetch"
      /\ pass'[p].page = Blank
      /\ pass'[p].row = pass[p].row /\ pass'[p].token = pass[p].token
      /\ pass'[p].gen = pass[p].gen /\ pass'[p].next = pass[p].next
      /\ pass'[p].todo = pass[p].todo
      /\ UNCHANGED <<clock, remote, cursor>> /\ pass[p].pc = "store"
  <2>1. /\ obs' = [e \in Events |-> Stored(p, e)]
        /\ pass' = [pass EXCEPT ![p] = [@ EXCEPT
               !.pc = IF pass[p].todo = {} THEN "final" ELSE "fetch", !.page = Blank]]
        /\ UNCHANGED <<clock, remote, cursor>> /\ pass[p].pc = "store"
    BY DEF Persist
  <2>2. pass \in [Passes -> Pass] /\ pass[p] \in Pass
    BY DEF TypeOK
  <2>3. \A e \in Events : obs'[e] = Stored(p, e)
    BY <2>1
  <2>4. /\ pass'[p].pc = IF pass[p].todo = {} THEN "final" ELSE "fetch"
        /\ pass'[p].page = Blank
        /\ pass'[p].row = pass[p].row /\ pass'[p].token = pass[p].token
        /\ pass'[p].gen = pass[p].gen /\ pass'[p].next = pass[p].next
        /\ pass'[p].todo = pass[p].todo
    BY <2>1, <2>2 DEF Pass
  <2> QED BY <2>1, <2>3, <2>4
<1>2. Linked(p) /\ Paged(p) /\ Covered(p) /\ pass'[p].pc \in {"final", "fetch"} /\ Active(p)'
  BY <1>1 DEF IInv, Passing, PassOK, Active
<1>3. clock \in Nat /\ pass[p].next \in Nat /\ cursor.token \in Nat
      /\ \A e \in Events : remote[e].at \in Nat /\ remote[e].st \in {"none", "live", "cancelled", "outside"}
  BY IngestAssumption DEF TypeOK, Pass, Cursor, Tokens, NoToken, Remote
<1>4. \A e \in Events :
          \/ pass[p].page[e].st = "none" /\ obs'[e] = obs[e]
          \/ /\ pass[p].page[e].st # "none"
             /\ obs'[e].st = IF pass[p].page[e].st = "cancelled" THEN "tomb" ELSE "live"
             /\ obs'[e].at = pass[p].page[e].at /\ obs'[e].gen = pass[p].gen
  <2> SUFFICES ASSUME NEW e \in Events
               PROVE  \/ pass[p].page[e].st = "none" /\ obs'[e] = obs[e]
                      \/ /\ pass[p].page[e].st # "none"
                         /\ obs'[e].st = IF pass[p].page[e].st = "cancelled" THEN "tomb" ELSE "live"
                         /\ obs'[e].at = pass[p].page[e].at /\ obs'[e].gen = pass[p].gen
    OBVIOUS
  <2>1. CASE pass[p].page[e].st = "none"
    BY <1>1, <2>1 DEF Stored
  <2>2. CASE pass[p].page[e].st # "none"
    <3>1. obs'[e] = [st |-> IF pass[p].page[e].st = "cancelled" THEN "tomb" ELSE "live",
                     at |-> pass[p].page[e].at, gen |-> pass[p].gen]
      BY <1>1, <2>2 DEF Stored
    <3> QED BY <2>2, <3>1
  <2> QED BY <2>1, <2>2
<1>5. ASSUME NEW e \in Events, remote[e].at <= pass[p].next, remote[e].st # "outside",
             pass[p].page[e].st # "none"
      PROVE  Agrees(e)' /\ obs'[e].gen = pass[p].gen
  <2>1. pass[p].page[e] = remote[e]
    BY <1>1, <1>2, <1>3, <1>5 DEF Paged, Listed
  <2>2. /\ obs'[e].st = IF remote[e].st = "cancelled" THEN "tomb" ELSE "live"
        /\ obs'[e].at = remote[e].at /\ obs'[e].gen = pass[p].gen
        /\ remote[e].st \in {"live", "cancelled"} /\ remote' = remote
    BY <1>1, <1>3, <1>4, <1>5, <2>1
  <2> QED BY <2>2 DEF Agrees
<1>6. Linked(p)'
  BY <1>1, <1>2, <1>4 DEF Linked, Owned
<1>7. Paged(p)'
  BY <1>1, <1>2 DEF Paged, Listed, Blank, Incremental
<1>8. Covered(p)'
  <2> SUFFICES ASSUME Owned(p), NEW e \in Events, remote[e].at <= pass[p].next,
                      remote[e].st \in {"live", "cancelled"}, e \notin pass[p].todo
               PROVE  Agrees(e)' /\ (Incremental(p) \/ obs'[e].gen = pass[p].gen)
    BY <1>1 DEF Covered, Owned, Incremental
  <2>1. CASE pass[p].page[e].st # "none"
    BY <1>5, <2>1
  <2>2. CASE pass[p].page[e].st = "none"
    <3>1. obs'[e] = obs[e] /\ remote' = remote
      BY <1>1, <1>4, <2>2
    <3>2. Agrees(e) /\ (Incremental(p) \/ obs[e].gen = pass[p].gen)
      BY <1>1, <1>2, <2>2 DEF Covered, Listed
    <3> QED BY <3>1, <3>2 DEF Agrees
  <2> QED BY <2>1, <2>2
<1>9. Passing'
  BY <1>2, <1>6, <1>7, <1>8, OnlyPass DEF PassOK
<1>10. WellFormed'
  BY <1>1, <1>2, <1>3, <1>4 DEF IInv, WellFormed, Paged, Listed
<1>11. NothingMissed'
  <2> SUFFICES ASSUME NEW e \in Events, Settled(e), remote[e].st # "outside"
               PROVE  Agrees(e)'
    BY <1>1 DEF NothingMissed, Settled
  <2>1. Agrees(e)
    BY DEF IInv, NothingMissed
  <2>2. CASE pass[p].page[e].st = "none"
    <3>1. obs'[e] = obs[e] /\ remote' = remote
      BY <1>1, <1>4, <2>2
    <3> QED BY <2>1, <3>1 DEF Agrees
  <2>3. CASE pass[p].page[e].st # "none"
    <3>1. cursor.st # "absent" /\ Owned(p) /\ pass[p].token = cursor.token
      BY <1>2 DEF Settled, Linked, IInv, WellFormed, NoCursor
    <3>2. remote[e].at <= pass[p].next
      BY <1>1, <1>2, <1>3, <3>1 DEF Settled, Paged, Listed, Incremental
    <3> QED BY <1>5, <2>3, <3>2
  <2> QED BY <2>2, <2>3
<1>12. Bounded'
  <2> SUFFICES ASSUME cursor.st # "absent", NEW e \in Events PROVE obs'[e].gen <= cursor.gen
    BY <1>1 DEF Bounded
  <2>1. pass[p].gen = cursor.gen /\ cursor.gen \in Nat
    BY <1>2 DEF Linked, TypeOK, Cursor
  <2> QED BY <1>4, <2>1 DEF IInv, Bounded
<1> QED BY <1>9, <1>10, <1>11, <1>12 DEF IInv

\* Finish: the cursor moves to a token whose promises the pass has kept, and a full scan
\* tombstones only rows it has not stamped.
LEMMA FinishKeeps ==
    ASSUME TypeOK, IInv, OneAtATime, NEW p \in Passes, Finish(p)
    PROVE  IInv'
<1>1. /\ pass[p].pc = "final" /\ Active(p) /\ pass' = [pass EXCEPT ![p] = Rest]
      /\ UNCHANGED <<clock, remote>>
  BY DEF Finish, Active
<1>2. Linked(p) /\ Paged(p) /\ Covered(p)
  BY <1>1 DEF IInv, Passing, PassOK
<1>3. Passing'
  BY <1>1, NoPass
<1>4. CASE auth # "ok"
  <2>1. obs' = obs /\ cursor' = cursor
    BY <1>4 DEF Finish
  <2> QED BY <1>1, <1>3, <2>1 DEF IInv, WellFormed, NothingMissed, Bounded, Settled, Agrees
<1>5. CASE auth = "ok"
  <2>1. \A e \in Events :
            \/ ~Unseen(p, e) /\ obs'[e] = obs[e]
            \/ /\ Unseen(p, e) /\ obs'[e].st = "tomb" /\ obs'[e].gen = pass[p].gen
               /\ obs[e].st # "none"
    <3>1. obs' = [e \in Events |->
                     IF Unseen(p, e) THEN [obs[e] EXCEPT !.st = "tomb", !.gen = pass[p].gen]
                     ELSE obs[e]]
      BY <1>5 DEF Finish
    <3>2. \A e \in Events : obs[e] \in Observation
      BY DEF TypeOK
    <3> SUFFICES ASSUME NEW e \in Events
                 PROVE  \/ ~Unseen(p, e) /\ obs'[e] = obs[e]
                        \/ /\ Unseen(p, e) /\ obs'[e].st = "tomb" /\ obs'[e].gen = pass[p].gen
                           /\ obs[e].st # "none"
      OBVIOUS
    <3>3. CASE ~Unseen(p, e)
      BY <3>1, <3>3
    <3>4. CASE Unseen(p, e)
      <4>1. obs'[e] = [obs[e] EXCEPT !.st = "tomb", !.gen = pass[p].gen] /\ obs[e].st # "none"
        BY <3>1, <3>4 DEF Unseen
      <4> QED BY <3>2, <3>4, <4>1 DEF Observation
    <3> QED BY <3>3, <3>4
  <2>2. \/ ~Owned(p) /\ cursor' = cursor /\ cursor.token = NoToken /\ cursor.st = "absent"
        \/ /\ Owned(p) /\ cursor'.token = pass[p].next /\ cursor'.st = "ready"
           /\ cursor'.gen = cursor.gen
    <3>1. CASE Owned(p)
      <4>1. cursor' = [cursor EXCEPT !.token = pass[p].next, !.st = "ready",
                                     !.full = IF Incremental(p) THEN @ ELSE "fresh"]
        BY <1>5, <3>1 DEF Finish
      <4>2. cursor \in Cursor
        BY DEF TypeOK
      <4>3. cursor'.token = pass[p].next /\ cursor'.st = "ready" /\ cursor'.gen = cursor.gen
        BY <4>1, <4>2 DEF Cursor
      <4> QED BY <3>1, <4>3
    <3>2. CASE ~Owned(p)
      <4>1. cursor' = cursor
        BY <1>5, <3>2 DEF Finish
      <4>2. cursor.st = "absent"
        BY <1>2, <3>2 DEF Linked
      <4>3. cursor.token = NoToken
        BY <4>2 DEF IInv, WellFormed, NoCursor
      <4> QED BY <3>2, <4>1, <4>2, <4>3
    <3> QED BY <3>1, <3>2
  <2>3. WellFormed'
    <3>1. pass[p].next <= clock
      BY <1>1, <1>2 DEF Paged, Listed
    <3> QED BY <1>1, <2>1, <2>2, <3>1 DEF IInv, WellFormed
  <2>4. NothingMissed'
    <3> SUFFICES ASSUME NEW e \in Events, Settled(e)', remote[e].st # "outside"
                 PROVE  Agrees(e)'
      BY <1>1 DEF NothingMissed
    <3>1. Owned(p) /\ remote[e].at <= pass[p].next /\ remote' = remote
      BY <1>1, <2>2 DEF Settled, NoToken
    <3>2. CASE remote[e].st \in {"live", "cancelled"}
      <4>1. Agrees(e) /\ (Incremental(p) \/ obs[e].gen = pass[p].gen)
        BY <1>1, <1>2, <3>1, <3>2 DEF Covered, Paged, Listed
      <4>2. ~Unseen(p, e)
        BY <4>1 DEF Unseen, TypeOK, Observation
      <4>3. obs'[e] = obs[e]
        BY <2>1, <4>2
      <4> QED BY <3>1, <4>1, <4>3 DEF Agrees
    <3>3. CASE remote[e].st = "none"
      <4>1. obs'[e].st # "live"
        BY <2>1, <3>3 DEF IInv, WellFormed
      <4> QED BY <3>1, <3>3, <4>1 DEF Agrees
    <3>4. remote[e].st \in {"none", "live", "cancelled", "outside"}
      BY DEF TypeOK, Remote
    <3> QED BY <3>2, <3>3, <3>4
  <2>5. Bounded'
    <3> SUFFICES ASSUME cursor'.st # "absent", NEW e \in Events PROVE obs'[e].gen <= cursor'.gen
      BY DEF Bounded
    <3>1. /\ Owned(p) /\ cursor'.gen = cursor.gen /\ cursor.st # "absent"
          /\ pass[p].gen = cursor.gen /\ cursor.gen \in Nat
      BY <1>2, <2>2 DEF Linked, TypeOK, Cursor
    <3> QED BY <2>1, <3>1 DEF IInv, Bounded
  <2> QED BY <1>3, <2>3, <2>4, <2>5 DEF IInv
<1> QED BY <1>4, <1>5

\* RemoteChange: a new change lies beyond every token and every listing.
LEMMA RemoteChangeKeeps ==
    ASSUME TypeOK, IInv, NEW e \in Events, RemoteChange(e)
    PROVE  IInv'
<1>1. /\ clock' = clock + 1 /\ UNCHANGED <<cursor, obs, pass>>
      /\ remote'[e].at = clock + 1 /\ remote'[e].st # "none"
      /\ \A d \in Events \ {e} : remote'[d] = remote[d]
  BY DEF RemoteChange, TypeOK
<1>2. clock \in Nat /\ cursor.token \in Nat /\ (\A p \in Passes : pass[p].next \in Nat /\ pass[p].token \in Nat)
      /\ \A d \in Events : remote[d].at \in Nat
  BY IngestAssumption DEF TypeOK, Pass, Cursor, Tokens, NoToken, Remote
<1>3. \A d \in Events \ {e} : Agrees(d)' <=> Agrees(d)
  BY <1>1 DEF Agrees
<1>4. WellFormed'
  BY <1>1, <1>2 DEF IInv, WellFormed
<1>5. NothingMissed'
  <2>1. ~Settled(e)'
    BY <1>1, <1>2 DEF Settled, IInv, WellFormed
  <2>2. \A d \in Events \ {e} : Settled(d)' => Settled(d)
    BY <1>1 DEF Settled
  <2> QED BY <1>1, <1>3, <2>1, <2>2 DEF IInv, NothingMissed
<1>6. Bounded'
  BY <1>1 DEF IInv, Bounded
<1>7. Passing'
  <2> SUFFICES ASSUME NEW p \in Passes, Active(p)
               PROVE  Linked(p)' /\ Paged(p)' /\ Covered(p)'
    BY <1>1 DEF Passing, PassOK, Active
  <2>1. Linked(p) /\ Paged(p) /\ Covered(p)
    BY DEF IInv, Passing, PassOK
  <2>2. Linked(p)'
    BY <1>1, <2>1 DEF Linked, Owned
  <2>3. pass[p].pc \in Listed => remote'[e].at > pass[p].next
    BY <1>1, <1>2, <2>1 DEF Paged
  <2>4. Paged(p)'
    <3>1. \A d \in Events : pass[p].pc \in Listed /\ pass[p].page[d].st # "none" =>
              \/ pass[p].page[d] = remote'[d]
              \/ remote'[d].at > pass[p].next /\ remote'[d].st # "none"
      BY <1>1, <2>1, <2>3 DEF Paged
    <3>2. pass[p].pc \in Listed => pass[p].next <= clock + 1
      BY <1>2, <2>1 DEF Paged
    <3>3. Incremental(p) => pass[p].token <= clock + 1
      BY <1>2, <2>1 DEF Paged
    <3> QED BY <1>1, <2>1, <3>1, <3>2, <3>3 DEF Paged, Incremental
  <2>5. Covered(p)'
    <3>1. pass[p].pc \in Listed => ~(remote'[e].at <= pass[p].next)
      BY <1>1, <1>2, <2>3
    <3> QED BY <1>1, <1>3, <2>1, <3>1 DEF Covered, Owned, Incremental
  <2> QED BY <2>2, <2>4, <2>5
<1> QED BY <1>4, <1>5, <1>6, <1>7 DEF IInv

\* Purge and Upgrade leave no cursor, and no pass that could move one.
LEMMA PurgeKeeps ==
    ASSUME TypeOK, IInv, Purge
    PROVE  IInv'
<1>1. /\ cursor' = NoCursor /\ UNCHANGED <<clock, remote>>
      /\ \A e \in Events : obs'[e].st = "none"
  BY DEF Purge, NoObservation
<1>2. ASSUME NEW p \in Passes, Active(p)'
      PROVE  /\ pass'[p].row = "deleted" /\ Active(p)
             /\ pass'[p].pc = pass[p].pc /\ pass'[p].next = pass[p].next
             /\ pass'[p].token = pass[p].token /\ pass'[p].page = pass[p].page
             /\ pass'[p].todo = pass[p].todo
  <2>1. pass'[p] = IF pass[p].pc = "idle" THEN pass[p] ELSE [pass[p] EXCEPT !.row = "deleted"]
    BY DEF Purge
  <2>2. pass[p].pc # "idle" /\ pass[p] \in Pass
    BY <1>2, <2>1 DEF Active, TypeOK
  <2> QED BY <2>1, <2>2 DEF Active, Pass
<1>3. cursor'.st = "absent" /\ cursor'.token = NoToken
  BY <1>1 DEF NoCursor
<1>4. Passing'
  <2> SUFFICES ASSUME NEW p \in Passes, Active(p)' PROVE Linked(p)' /\ Paged(p)' /\ Covered(p)'
    BY DEF Passing, PassOK
  <2>1. Paged(p)
    BY <1>2 DEF IInv, Passing, PassOK
  <2>2. ~Owned(p)'
    BY <1>2 DEF Owned
  <2>3. Linked(p)' /\ Covered(p)'
    BY <1>1, <1>3, <2>2 DEF Linked, Covered
  <2>4. Paged(p)'
    BY <1>1, <1>2, <2>1 DEF Paged, Incremental
  <2> QED BY <2>3, <2>4
<1>5. WellFormed' /\ NothingMissed' /\ Bounded'
  BY <1>1, <1>3 DEF IInv, WellFormed, NothingMissed, Settled, Bounded
<1> QED BY <1>4, <1>5 DEF IInv

\* Every step keeps the invariant while passes exclude each other.
LEMMA NextInv == TypeOK /\ TypeOK' /\ IInv /\ OneAtATime /\ OneAtATime' /\ [Next]_vars => IInv'
<1> SUFFICES ASSUME TypeOK, TypeOK', IInv, OneAtATime, OneAtATime', [Next]_vars PROVE IInv'
  OBVIOUS
<1>0. cursor \in Cursor /\ cursor' \in Cursor
  BY DEF TypeOK
<1>1. ASSUME UNCHANGED <<clock, remote, cursor, obs, pass>> PROVE IInv'
  BY <1>1 DEF IInv, WellFormed, Passing, PassOK, Active, Linked, Paged, Covered, Owned, Incremental,
              NothingMissed, Bounded, Settled, Agrees
<1>2. ASSUME NEW p \in Passes, Advance(p) PROVE IInv'
  <2>1. CASE Open(p) BY <2>1, OpenKeeps
  <2>2. CASE Refresh(p)
    <3>1. \/ cursor' = cursor
          \/ /\ Owned(p) /\ cursor'.st # "absent"
             /\ cursor'.token = NoToken /\ cursor'.gen = cursor.gen + 1
      BY <1>0, <2>2 DEF Refresh, Cursor
    <3> QED BY <1>0, <2>2, <3>1, QuietEnd DEF Refresh, Active
  <2>3. CASE Start(p) BY <2>3, StartKeeps
  <2>4. CASE Fetch(p) BY <2>4, FetchKeeps
  <2>5. CASE Gone(p)
    <3>1. \/ cursor' = cursor
          \/ /\ Owned(p) /\ cursor'.st # "absent"
             /\ cursor'.token = NoToken /\ cursor'.gen = cursor.gen + 1
      BY <1>0, <2>5 DEF Gone, Cursor
    <3> QED BY <1>0, <2>5, <3>1, QuietEnd DEF Gone, Active
  <2>6. CASE Persist(p) /\ MayStore BY <2>6, StoreKeeps
  <2>7. CASE Persist(p) /\ ~MayStore
    <3>1. \/ cursor' = cursor
          \/ /\ Owned(p) /\ cursor'.st # "absent"
             /\ cursor'.token = cursor.token /\ cursor'.gen = cursor.gen
      BY <1>0, <2>7 DEF Persist, Failed, Cursor
    <3> QED BY <1>0, <2>7, <3>1, QuietEnd DEF Persist, Active
  <2>8. CASE Finish(p) BY <2>8, FinishKeeps
  <2> QED BY <1>2, <2>1, <2>2, <2>3, <2>4, <2>5, <2>6, <2>7, <2>8 DEF Advance
<1>3. ASSUME NEW p \in Passes, FetchFails(p) PROVE IInv'
  <2>1. \/ cursor' = cursor
        \/ /\ Owned(p) /\ cursor'.st # "absent"
           /\ cursor'.token = cursor.token /\ cursor'.gen = cursor.gen
    BY <1>0, <1>3 DEF FetchFails, Failed, Cursor
  <2> QED BY <1>0, <1>3, <2>1, QuietEnd DEF FetchFails, Active
<1>4. ASSUME NEW p \in Passes, Dies(p) PROVE IInv'
  BY <1>0, <1>4, QuietEnd DEF Dies, Active
<1>5. ASSUME NEW e \in Events, RemoteChange(e) PROVE IInv'
  BY <1>5, RemoteChangeKeeps
<1>6. CASE TokensExpire \/ Revoked \/ Grant
  BY <1>1, <1>6 DEF TokensExpire, Revoked, Grant
<1>7. CASE DayPasses
  <2>1. /\ UNCHANGED <<clock, remote, obs, pass>>
        /\ cursor'.st = cursor.st /\ cursor'.token = cursor.token /\ cursor'.gen = cursor.gen
    BY <1>0, <1>7 DEF DayPasses, Cursor
  <2>2. cursor.st # "absent"
    BY <1>7 DEF DayPasses, IInv, WellFormed, NoCursor
  <2> QED BY <2>1, <2>2
          DEF IInv, WellFormed, Passing, PassOK, Active, Linked, Paged, Covered, Owned, Incremental,
              NothingMissed, Bounded, Settled, Agrees
<1>8. CASE Purge BY <1>8, PurgeKeeps
<1>9. CASE Upgrade
  <2>1. /\ cursor'.st = "absent" /\ cursor'.token = NoToken /\ cursor' = NoCursor
        /\ UNCHANGED <<clock, remote, obs>>
    BY <1>9 DEF Upgrade, NoCursor
  <2>2. \A p \in Passes : ~Active(p)'
    BY <1>9 DEF Upgrade, Active, Rest
  <2> QED BY <2>1, <2>2 DEF IInv, WellFormed, Passing, PassOK, NothingMissed, Bounded, Settled
<1> QED BY <1>1, <1>2, <1>3, <1>4, <1>5, <1>6, <1>7, <1>8, <1>9 DEF Next, Surroundings, vars

\* An empty calendar that was never read satisfies the invariant.
LEMMA InitInv == Init => IInv
<1> SUFFICES ASSUME Init PROVE IInv
  OBVIOUS
<1>1. /\ cursor.st = "absent" /\ cursor.token = NoToken /\ cursor = NoCursor
      /\ clock = 0 /\ \A e \in Events : remote[e].at = 0 /\ obs[e].st = "none"
  BY DEF Init, NoCursor, Blank, NoObservation
<1>2. \A p \in Passes : ~Active(p)
  BY DEF Init, Active, Rest
<1> QED BY <1>1, <1>2 DEF IInv, WellFormed, Passing, PassOK, NothingMissed, Bounded, Settled

\* While passes exclude each other, rows, cursor and listing stay in step.
THEOREM Invariance == Spec /\ []OneAtATime => []IInv
  BY InitInv, NextInv, TypeCorrect, PTL DEF Spec

\* With one pass at a time the cursor never runs ahead of the observations: pages, crashes,
\* expired tokens, failed listings, upgrades and role changes lose no change for good.
THEOREM NothingMissedHolds == Spec /\ []OneAtATime => []NothingMissed
<1>1. IInv => NothingMissed
  BY DEF IInv
<1> QED BY <1>1, Invariance, PTL

\* Before a full scan begins every row is of an earlier generation, unless a scan was
\* interrupted; an account that cannot be read lost its authorisation or its cursor.
Waiting ==
    cursor.st # "absent" /\ cursor.token = NoToken /\ (\A p \in Passes : ~Active(p))
Fresh ==
    /\ Waiting /\ used.faults = 0 => \A e \in Events : obs[e].gen < cursor.gen
    /\ auth # "ok" => used.faults > 0 \/ cursor.st = "absent"

\* The count of faults never falls.
LEMMA FaultsGrow ==
    ASSUME TypeOK, [Next]_vars
    PROVE  used.faults \in Nat /\ used'.faults \in Nat /\ used'.faults >= used.faults
<1>1. used \in [faults : 0..MaxFaults, purges : 0..MaxPurges, resets : 0..MaxResets]
  BY DEF TypeOK
<1>2. used.faults \in Nat
  BY <1>1, IngestAssumption
<1>3. ASSUME NEW k \in {"faults", "purges", "resets"}, NEW b, Spend(k, b)
      PROVE  used'.faults = IF k = "faults" THEN used.faults + 1 ELSE used.faults
  BY <1>1, <1>3 DEF Spend
<1>4. used' = used \/ \E k \in {"faults", "purges", "resets"} : \E b : Spend(k, b)
  BY DEF Next, Advance, Open, Refresh, Start, Fetch, Gone, Persist, Finish, FetchFails, Dies, Surroundings,
         RemoteChange, TokensExpire, DayPasses, Revoked, Purge, Upgrade, Grant, vars
<1> QED BY <1>2, <1>3, <1>4

\* A fault is counted.
LEMMA FaultCounts ==
    ASSUME TypeOK, Spend("faults", MaxFaults)
    PROVE  used'.faults > 0
<1>1. used \in [faults : 0..MaxFaults, purges : 0..MaxPurges, resets : 0..MaxResets]
  BY DEF TypeOK
<1>2. used'.faults = used.faults + 1 /\ used.faults \in Nat
  BY <1>1, IngestAssumption DEF Spend
<1> QED BY <1>2

\* Dropping the token starts a generation above every row; a scan that ends without its
\* token has met a fault, or has no cursor left.
LEMMA NextFresh ==
    ASSUME TypeOK, TypeOK', IInv, IInv', OneAtATime, Fresh, [Next]_vars
    PROVE  Fresh'
<1>0. /\ cursor \in Cursor /\ cursor' \in Cursor /\ cursor.gen \in Nat
      /\ \A e \in Events : obs[e].gen \in Nat
      /\ used.faults \in Nat /\ used'.faults \in Nat /\ used'.faults >= used.faults
  BY FaultsGrow DEF TypeOK, Cursor, Observation
<1>1. ASSUME NEW p \in Passes, Active(p), ~Owned(p)
      PROVE  cursor.st = "absent"
  BY <1>1 DEF IInv, Passing, PassOK, Linked
<1>2. ASSUME UNCHANGED <<obs, pass, auth>>, cursor'.st = cursor.st, cursor'.token = cursor.token,
             cursor'.gen = cursor.gen
      PROVE  Fresh'
  <2>1. Waiting' => Waiting
    BY <1>2 DEF Waiting, Active
  <2>2. used'.faults = 0 => used.faults = 0
    BY <1>0
  <2>3. used.faults > 0 => used'.faults > 0
    BY <1>0
  <2> QED BY <1>2, <2>1, <2>2, <2>3 DEF Fresh
<1>3. ASSUME cursor'.st = "absent" PROVE Fresh'
  BY <1>3 DEF Fresh, Waiting
<1>4. ASSUME used'.faults > 0 PROVE Fresh'
  BY <1>0, <1>4 DEF Fresh
<1>5. ASSUME auth' = auth, auth = "ok", ~Waiting' PROVE Fresh'
  BY <1>5 DEF Fresh
<1>6. ASSUME NEW p \in Passes, Active(p), auth' = auth, ~Waiting',
             cursor' = cursor \/ Owned(p)
      PROVE  Fresh'
  <2>1. auth # "ok" => used'.faults > 0 \/ cursor.st = "absent"
    BY <1>0 DEF Fresh
  <2>2. cursor.st = "absent" => ~Owned(p)
    BY <1>6 DEF IInv, Passing, PassOK, Linked
  <2> QED BY <1>3, <1>6, <2>1, <2>2 DEF Fresh
<1>7. ASSUME NEW p \in Passes, Active(p), auth' = auth, obs' = obs,
             \/ ~Owned(p) /\ cursor' = cursor
             \/ Owned(p) /\ cursor'.st # "absent" /\ cursor'.gen = cursor.gen + 1
      PROVE  Fresh'
  <2>1. CASE ~Owned(p) /\ cursor' = cursor
    BY <1>1, <1>3, <1>7, <2>1
  <2>2. CASE Owned(p) /\ cursor'.st # "absent" /\ cursor'.gen = cursor.gen + 1
    <3>1. cursor.st # "absent"
      BY <1>7, <2>2 DEF IInv, Passing, PassOK, Linked
    <3>2. \A e \in Events : obs'[e].gen < cursor'.gen
      BY <1>0, <1>7, <2>2, <3>1 DEF IInv, Bounded
    <3>3. auth' # "ok" => used'.faults > 0
      BY <1>0, <1>7, <3>1 DEF Fresh
    <3> QED BY <3>2, <3>3 DEF Fresh
  <2> QED BY <1>7, <2>1, <2>2
<1>8. ASSUME NEW p \in Passes, Advance(p) PROVE Fresh'
  <2>0. pass \in [Passes -> Pass] /\ auth' = auth
    BY <1>8 DEF TypeOK, Advance, Open, Refresh, Start, Fetch, Gone, Persist, Finish
  <2>1. CASE Open(p)
    <3>1. Active(p)' /\ auth = "ok"
      BY <2>0, <2>1 DEF Open, Active, Rest
    <3> QED BY <1>5, <2>0, <3>1 DEF Waiting
  <2>2. CASE Refresh(p)
    <3>1. Active(p) /\ obs' = obs
      BY <2>2 DEF Refresh, Active
    <3>2. Owned(p) => cursor.token = pass[p].token
      BY <3>1 DEF IInv, Passing, PassOK, Linked
    <3>3. Owned(p) => cursor'.st # "absent" /\ cursor'.gen = cursor.gen + 1
      BY <1>0, <2>2, <3>2 DEF Refresh, Cursor
    <3>4. ~Owned(p) => cursor' = cursor
      BY <2>2 DEF Refresh
    <3> QED BY <1>7, <2>0, <3>1, <3>3, <3>4
  <2>3. CASE Start(p)
    <3>1. Active(p) /\ Active(p)' /\ (cursor' = cursor \/ Owned(p))
      BY <2>0, <2>3 DEF Start, Active
    <3> QED BY <1>6, <2>0, <3>1 DEF Waiting
  <2>4. CASE Fetch(p)
    <3>1. Active(p) /\ Active(p)' /\ cursor' = cursor
      BY <2>0, <2>4, FetchIs DEF Fetch, Active
    <3> QED BY <1>6, <2>0, <3>1 DEF Waiting
  <2>5. CASE Gone(p)
    <3>1. Active(p) /\ obs' = obs
      BY <2>5 DEF Gone, Active
    <3>2. Owned(p) => cursor'.st # "absent" /\ cursor'.gen = cursor.gen + 1
      BY <1>0, <2>5 DEF Gone, Cursor
    <3>3. ~Owned(p) => cursor' = cursor
      BY <2>5 DEF Gone
    <3> QED BY <1>7, <2>0, <3>1, <3>2, <3>3
  <2>6. CASE Persist(p) /\ MayStore
    <3>1. Active(p) /\ cursor' = cursor
      BY <2>6 DEF Persist, Active
    <3>2. pass' = [pass EXCEPT ![p] = [pass[p] EXCEPT
              !.pc = IF pass[p].todo = {} THEN "final" ELSE "fetch", !.page = Blank]]
      BY <2>6 DEF Persist
    <3>3. pass'[p].pc = IF pass[p].todo = {} THEN "final" ELSE "fetch"
      BY <2>0, <3>2 DEF Pass
    <3>4. Active(p)'
      BY <3>3 DEF Active
    <3> QED BY <1>6, <2>0, <3>1, <3>4 DEF Waiting
  <2>7. CASE (Persist(p) \/ Finish(p)) /\ auth # "ok"
    <3>1. Active(p) /\ (cursor' = cursor \/ Owned(p))
      BY <2>7 DEF Persist, Finish, Active, MayStore, Failed
    <3>2. used.faults > 0 \/ cursor.st = "absent"
      BY <2>7 DEF Fresh
    <3>3. cursor.st = "absent" => cursor' = cursor
      BY <3>1 DEF IInv, Passing, PassOK, Linked
    <3> QED BY <1>0, <1>3, <1>4, <3>2, <3>3
  <2>8. CASE Finish(p) /\ auth = "ok"
    <3>1. Active(p)
      BY <2>8 DEF Finish, Active
    <3>2. CASE Owned(p)
      <4>1. cursor'.token = pass[p].next
        BY <1>0, <2>8, <3>2 DEF Finish, Cursor
      <4>2. pass[p].next # NoToken
        BY <2>0, IngestAssumption DEF Pass, NoToken
      <4> QED BY <1>5, <2>0, <2>8, <4>1, <4>2 DEF Waiting
    <3>3. CASE ~Owned(p)
      BY <1>1, <1>3, <2>8, <3>1, <3>3 DEF Finish
    <3> QED BY <3>2, <3>3
  <2> QED BY <1>8, <2>1, <2>2, <2>3, <2>4, <2>5, <2>6, <2>7, <2>8 DEF Advance, MayStore
<1>9. ASSUME NEW p \in Passes, FetchFails(p) \/ Dies(p) PROVE Fresh'
  BY <1>4, <1>9, FaultCounts DEF FetchFails, Dies
<1>10. ASSUME NEW e \in Events, RemoteChange(e) PROVE Fresh'
  BY <1>2, <1>10 DEF RemoteChange
<1>11. CASE TokensExpire
  BY <1>2, <1>11 DEF TokensExpire
<1>12. CASE DayPasses
  <2>1. cursor'.st = cursor.st /\ cursor'.token = cursor.token /\ cursor'.gen = cursor.gen
    BY <1>0, <1>12 DEF DayPasses, Cursor
  <2> QED BY <1>2, <1>12, <2>1 DEF DayPasses
<1>13. CASE Revoked
  BY <1>4, <1>13, FaultCounts DEF Revoked
<1>14. CASE Purge \/ Upgrade
  BY <1>3, <1>14 DEF Purge, Upgrade, NoCursor
<1>15. CASE Grant
  <2>1. auth' = "ok" /\ (Waiting' => Waiting) /\ UNCHANGED <<obs, cursor, used>>
    BY <1>15 DEF Grant, Waiting, Active
  <2> QED BY <2>1 DEF Fresh
<1>16. CASE UNCHANGED vars
  BY <1>2, <1>16 DEF vars
<1> QED BY <1>8, <1>9, <1>10, <1>11, <1>12, <1>13, <1>14, <1>15, <1>16 DEF Next, Surroundings

\* With one pass at a time the generation of the next full scan is above every row's, so
\* that the scan tombstones what it does not see, except for rows of a scan of that
\* generation that is under way or was interrupted: a new cursor, a dropped token and an
\* expired one start above every stored generation.
THEOREM NextScanHolds == Spec /\ []OneAtATime => []NextScanReaches
<1>1. Init => Fresh
  BY DEF Init, Fresh, Waiting, NoCursor
<1>2. ASSUME TypeOK, IInv, Fresh PROVE NextScanReaches
  <2> SUFFICES ASSUME cursor.st # "absent", NEW e \in Events
               PROVE  \/ obs[e].gen < NextScan
                      \/ /\ cursor.token = NoToken /\ obs[e].gen = NextScan
                         /\ \/ used.faults > 0
                            \/ \E p \in Passes : pass[p].pc # "idle" /\ pass[p].gen = NextScan
    BY DEF NextScanReaches
  <2>1. /\ obs[e].gen \in Nat /\ cursor.gen \in Nat /\ obs[e].gen <= cursor.gen
        /\ used.faults \in Nat
    BY <1>2, IngestAssumption DEF TypeOK, Observation, Cursor, IInv, Bounded
  <2>2. CASE cursor.token # NoToken
    BY <2>1, <2>2 DEF NextScan
  <2>3. CASE cursor.token = NoToken /\ ~Waiting
    <3>1. PICK p \in Passes : Active(p)
      BY <2>3 DEF Waiting
    <3>2. pass[p].gen = cursor.gen
      BY <1>2, <3>1 DEF IInv, Passing, PassOK, Linked
    <3> QED BY <2>1, <2>3, <3>1, <3>2 DEF NextScan, Active
  <2>4. CASE cursor.token = NoToken /\ Waiting
    BY <1>2, <2>1, <2>4 DEF NextScan, Fresh
  <2> QED BY <2>2, <2>3, <2>4
<1> QED BY <1>1, <1>2, NextFresh, Invariance, TypeCorrect, PTL DEF Spec

\* With one pass at a time the final transaction of a full scan tombstones no event that was
\* in the calendar when the listing began and has not changed since.
THEOREM AbsenceHolds == Spec /\ []OneAtATime => AbsenceIsReal
<1>1. ASSUME TypeOK, IInv, [Next]_vars, NEW p \in Passes, NEW e \in Events,
             pass[p].pc = "final", pass'[p].pc = "idle", obs[e].st = "live", obs'[e].st = "tomb",
             remote[e].st = "live", remote[e].at <= pass[p].next
      PROVE  FALSE
  <2>0. pass \in [Passes -> Pass]
    BY <1>1 DEF TypeOK
  <2>1. PICK q \in Passes : Persist(q) \/ Finish(q)
    <3>1. obs' # obs
      BY <1>1
    <3>2. ~Surroundings
      <4>1. ~Purge
        BY <1>1 DEF Purge, NoObservation
      <4> QED BY <3>1, <4>1 DEF Surroundings, RemoteChange, TokensExpire, DayPasses, Revoked, Upgrade, Grant
    <3>3. \A q \in Passes : ~FetchFails(q) /\ ~Dies(q)
      BY <3>1 DEF FetchFails, Dies
    <3>4. PICK q \in Passes : Advance(q)
      BY <1>1, <3>1, <3>2, <3>3 DEF Next, vars
    <3> QED BY <3>1, <3>4 DEF Advance, Open, Refresh, Start, Fetch, Gone
  <2>2. q = p /\ Finish(p)
    BY <1>1, <2>0, <2>1 DEF Persist, Finish
  <2>3. auth = "ok" /\ Unseen(p, e)
    BY <1>1, <2>2 DEF Finish
  <2>4. PassOK(p) /\ Active(p)
    BY <1>1 DEF IInv, Passing, Active
  <2>5. obs[e].gen # pass[p].gen /\ ~Incremental(p)
    <3>1. obs[e].gen \in Nat
      BY <1>1 DEF TypeOK, Observation
    <3> QED BY <2>3, <3>1 DEF Unseen
  <2>6. CASE Owned(p)
    BY <1>1, <2>4, <2>5, <2>6 DEF PassOK, Covered, Paged, Listed
  <2>7. CASE ~Owned(p)
    BY <1>1, <2>4, <2>5, <2>7 DEF PassOK, Linked
  <2> QED BY <2>6, <2>7
<1>2. TypeOK /\ IInv /\ [Next]_vars =>
          [\A p \in Passes, e \in Events :
              /\ pass[p].pc = "final" /\ pass'[p].pc = "idle"
              /\ obs[e].st = "live" /\ obs'[e].st = "tomb"
              => ~(remote[e].st = "live" /\ remote[e].at <= pass[p].next)]_vars
  BY <1>1
<1> QED BY <1>2, TypeCorrect, Invariance, PTL DEF Spec, AbsenceIsReal
=============================================================================
