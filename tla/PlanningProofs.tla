--------------------------- MODULE PlanningProofs ---------------------------
(***************************************************************************)
(* Theorems about one smart-meeting rule (module Planning), for any number *)
(* and width of windows, any lock time and every bound.                    *)
(*                                                                         *)
(* The invariant says which generations of an event id have been used (Ids),*)
(* what a worker that holds the row locks still knows of the event it      *)
(* looked up (Looks), that an intent number stands for one desired time    *)
(* (Numbered), that an answered rule knows its events by id (Known), and   *)
(* which rows a rule may still have (Ending).                              *)
(***************************************************************************)
EXTENDS Planning, TLAPS, FiniteSetTheorems, WellFoundedInduction, NaturalsInduction

-----------------------------------------------------------------------------
(* The invariant.                                                          *)

\* Statuses of a row that a job may be at work on.
Underway == {"pending_create", "pending_update", "pending_delete"}

\* The shape; a worker is at work on a row that waits for it; no rule has no rows.
Base ==
    /\ TypeOK
    /\ Locked => Mine.st \in Underway
    /\ rule = "none" => \A o \in Occurrences : row[o] = NoRow

\* A row that does not exist is blank; a row without a plan or a person's skip knows no id.
Blank ==
    /\ \A o \in Occurrences : row[o].st = "absent" => row[o] = NoRow
    /\ \A o \in Occurrences : row[o].st \in {"unmet", "skipped"} => row[o].id = "none"

\* The passes looked at the clock in the past.
Past == \A in \in recon : in.at <= now

\* The ids of earlier generations are used up, at most the next one is taken, which
\* happens only once the current one is used up; an id that is stored has been used.
Ids ==
    \A o \in Occurrences :
        /\ \A g \in Gens : g < row[o].gen => dest[o][g].st = "gone"
        /\ \A g \in Gens : g > row[o].gen + 1 => dest[o][g].st = "absent"
        /\ \A g \in Gens : g = row[o].gen + 1 /\ dest[o][g].st # "absent" => Here(o).st = "gone"
        /\ row[o].id = "set" => Here(o).st # "absent"

\* Under the row locks the event a worker found changes by hand only.
Looks ==
    Locked =>
        /\ worker.found.st # "live" => Here(worker.occ).st = worker.found.st
        /\ worker.found.st = "live" => Here(worker.occ).st # "absent"
        /\ had["touch"] = 0 => Here(worker.occ) = worker.found

\* No event is ahead of its row, and an event that nobody touched and that carries the
\* row's intent is at the time the row wants.
Numbered ==
    \A o \in Occurrences, g \in Gens :
        /\ dest[o][g].intent <= row[o].intent
        /\ /\ had["touch"] = 0 /\ dest[o][g].st = "live"
           /\ dest[o][g].intent = row[o].intent /\ row[o].want # None
           => dest[o][g].slot = row[o].want

\* Where every call was answered, a live event is the one whose id its row has.
Known ==
    Answered => \A o \in Occurrences, g \in Gens :
                    Live(o, g) => g = row[o].gen /\ row[o].id = "set"

\* A removed rule has no rows but ended ones and those to delete, a deleted one only ended ones.
Ending ==
    /\ rule \in {"deleting", "deleted"} =>
          \A o \in Occurrences : row[o].st \in {"absent", "deleted", "skipped", "pending_delete"}
    /\ rule = "deleted" => \A o \in Occurrences : row[o].st # "pending_delete"

IInv == Base /\ Blank /\ Past /\ Ids /\ Looks /\ Numbered /\ ConvergedIsTrue /\ Known /\ Ending

-----------------------------------------------------------------------------
(* Slots and windows.                                                      *)

\* There is a last slot, and the clock stops behind it.
LEMMA EndIsNat == Windows * Width \in Nat /\ End \in Nat
  BY PlanningAssumption DEF End

\* A window lies between the first and the last slot.
LEMMA WindowSlots == \A o \in Occurrences : Window(o) \subseteq Slots
<1> SUFFICES ASSUME NEW o \in Occurrences, NEW s \in Window(o)
             PROVE  s \in Slots
  OBVIOUS
<1>1. Windows \in Nat /\ Width \in Nat /\ o \in Nat /\ 1 <= o /\ o <= Windows
  BY PlanningAssumption DEF Occurrences
<1>2. /\ Windows * Width \in Int /\ o * Width \in Int /\ (o - 1) * Width \in Int
      /\ 0 <= (o - 1) * Width /\ o * Width <= Windows * Width
  <2>1. o - 1 \in Nat /\ Windows - o \in Nat
    BY <1>1
  <2>2. (o - 1) * Width \in Nat /\ (Windows - o) * Width \in Nat
    BY <1>1, <2>1
  <2>3. Windows * Width = o * Width + (Windows - o) * Width
    BY <1>1
  <2> QED BY <1>1, <2>2, <2>3
<1>3. s \in Int /\ (o - 1) * Width + 1 <= s /\ s <= o * Width
  BY <1>2 DEF Window
<1> QED BY <1>2, <1>3 DEF Slots

\* A set of numbers that is not empty has a least element, which Min returns.
LEMMA LeastIsIn == ASSUME NEW S \in SUBSET Nat, S # {}
                   PROVE  Min(S) \in S
<1>1. \E x \in S : \A y \in S : ~(<<y, x>> \in OpToRel(<, Nat))
  BY NatLessThanWellFounded, WFMin
<1>2. ASSUME NEW x \in Nat, NEW y \in Nat, y < x
      PROVE  <<y, x>> \in OpToRel(<, Nat)
  BY <1>2 DEF OpToRel
<1>3. \E x \in S : \A y \in S : x <= y
  <2>1. PICK x \in S : \A y \in S : ~(<<y, x>> \in OpToRel(<, Nat))
    BY <1>1
  <2>2. \A y \in S : ~(y < x)
    BY <1>2, <2>1
  <2> QED BY <2>2
<1> QED BY <1>3 DEF Min

\* chooseMeetingSlot proposes a slot or nothing.
LEMMA PlannedTyped == \A o \in Occurrences, in \in Inputs : Planned(o, in) \in Slots \cup {None}
<1> SUFFICES ASSUME NEW o \in Occurrences, NEW in \in Inputs, Candidates(o, in) # {}
             PROVE  Min(Candidates(o, in)) \in Slots
  BY DEF Planned
<1>1. Candidates(o, in) \subseteq Slots
  BY WindowSlots DEF Candidates
<1>2. Slots \subseteq Nat
  BY EndIsNat DEF Slots
<1> QED BY <1>1, <1>2, LeastIsIn

-----------------------------------------------------------------------------
(* Rows keep their shape.                                                  *)

\* A new row starts with its first intent, or with none.
LEMMA FreshTyped == \A p \in Slots \cup {None} : Fresh(p) \in Row /\ RowCheck(Fresh(p))
<1> SUFFICES ASSUME NEW p \in Slots \cup {None} PROVE Fresh(p) \in Row /\ RowCheck(Fresh(p))
  OBVIOUS
<1>1. 0 \in Intents /\ 1 \in Intents /\ 1 \in Gens
  BY PlanningAssumption DEF Intents, Gens
<1> QED BY <1>1 DEF Fresh, NoRow, Row, RowCheck, None

\* What a pass makes of a row has the shape of a row as long as its intent has.
LEMMA ReconciledTyped ==
    ASSUME NEW o \in Occurrences, NEW in \in Inputs, row[o] \in Row,
           Reconciled(o, in).intent \in Intents
    PROVE  Reconciled(o, in) \in Row
<1> DEFINE r == row[o]  p == Planned(o, in)
<1>1. p \in Slots \cup {None}
  BY PlannedTyped
<1>2. ASSUME NEW q \in {Left(r, in.at), Updated(r, p, in.at)}, q.intent \in Intents
      PROVE  q \in Row
  <2>1. CASE q = r
    BY <2>1
  <2>2. CASE q = Reopened(r)
    BY <2>2 DEF Reopened, ToWrite, Row
  <2>3. CASE q = [r EXCEPT !.st = "held", !.err = "other", !.skip = "no"]
    BY <2>3 DEF Row
  <2>4. CASE q = Moved(r, p)
    BY <1>1, <1>2, <2>4 DEF Moved, ToWrite, Row
  <2>5. CASE q = [r EXCEPT !.st = "deleted", !.want = None, !.err = "none", !.skip = "no"]
    BY <2>5 DEF Row, None
  <2>6. CASE q = [r EXCEPT !.st = "pending_delete", !.intent = @ + 1, !.want = None,
                           !.err = "none", !.skip = "no"]
    BY <1>2, <2>6 DEF Row, None
  <2>7. CASE q = [r EXCEPT !.st = "deleted", !.want = None, !.skip = "no"]
    BY <2>7 DEF Row, None
  <2>8. q = Left(r, in.at) => q = r \/ \/ q = [r EXCEPT !.st = "deleted", !.want = None, !.err = "none", !.skip = "no"]
                              \/ q = [r EXCEPT !.st = "pending_delete", !.intent = @ + 1, !.want = None,
                                               !.err = "none", !.skip = "no"]
                              \/ q = [r EXCEPT !.st = "deleted", !.want = None, !.skip = "no"]
    BY Zenon DEF Left
  <2>9. q = Updated(r, p, in.at) =>
          \/ q = r \/ q = Reopened(r) \/ q = Moved(r, p)
          \/ q = [r EXCEPT !.st = "held", !.err = "other", !.skip = "no"]
    BY Zenon DEF Updated
  <2> QED BY <1>2, <2>1, <2>2, <2>3, <2>4, <2>5, <2>6, <2>7, <2>8, <2>9
<1> QED BY <1>1, <1>2, FreshTyped DEF Reconciled

\* Counting a trouble changes no other counter, and none goes down.
LEMMA TroubleCounts ==
    ASSUME NEW k \in Kinds, had \in [Kinds -> Nat], Trouble(k)
    PROVE  /\ had' \in [Kinds -> Nat] /\ changes' = changes
           /\ had'[k] > 0 /\ \A q \in Kinds : had'[q] >= had[q]
  BY DEF Trouble

\* Somebody reads, previews or activates: the shape is kept.
LEMMA PlanTyped ==
    ASSUME TypeOK, Preview \/ Activate \/ Read \/ \E in \in recon : Commit(in)
    PROVE  TypeOK'
<1> USE DEF TypeOK
<1>1. [st |-> "read", at |-> now, free |-> free] \in Inputs /\ NoInputs \in Inputs
  BY EndIsNat DEF Inputs, NoInputs, Times
<1>2. CASE Preview
  BY <1>1, <1>2 DEF Preview
<1>3. CASE Read
  BY <1>1, <1>3 DEF Read, db
<1>4. CASE Activate
  <2>1. \A o \in Occurrences : row'[o] \in Row /\ RowCheck(row'[o])
    <3>1. NoRow \in Row /\ RowCheck(NoRow)
      BY PlanningAssumption DEF NoRow, Row, RowCheck, Intents, Gens, None
    <3> QED BY <1>4, <3>1, FreshTyped, PlannedTyped DEF Activate
  <2>2. row' = [o \in Occurrences |-> row'[o]]
    BY <1>4 DEF Activate
  <2>3. jobs' \subseteq Occurrences \X Intents
    <3>1. 1 \in Intents
      BY PlanningAssumption DEF Intents
    <3> QED BY <1>4, <3>1 DEF Activate, Horizon
  <2> QED BY <1>1, <1>4, <2>1, <2>2, <2>3 DEF Activate
<1>5. ASSUME NEW in \in recon, Commit(in)
      PROVE  TypeOK'
  <2>0. in \in Inputs
    OBVIOUS
  <2>1. CASE UNCHANGED <<row, jobs, sugs>>
    BY <1>5, <2>1 DEF Commit
  <2>2. CASE /\ rule = "active" /\ Valid(in)
             /\ \A o \in Occurrences : Reconciled(o, in).intent \in Intents
             /\ row' = [o \in Occurrences |-> Reconciled(o, in)]
             /\ jobs' = jobs \cup {<<o, row'[o].intent>> :
                                      o \in {d \in Occurrences : Wakes(d, in)}}
             /\ sugs' = sugs \cup {Proposed(o, in) :
                                      o \in {d \in Occurrences : Proposes(d, in)}}
    <3>1. \A o \in Occurrences : row'[o] \in Row /\ RowCheck(row'[o])
      BY <2>0, <2>2, ReconciledTyped DEF Valid
    <3>2. row' \in [Occurrences -> Row]
      BY <2>2, <3>1
    <3>3. jobs' \subseteq Occurrences \X Intents
      BY <2>2, <3>1 DEF Row
    <3>4. \A o \in Occurrences : Proposed(o, in) \in Suggestion
      BY <2>0, PlannedTyped DEF Proposed, Suggestion, Row
    <3>5. sugs' \subseteq Suggestion
      BY <2>2, <3>4
    <3>6. recon' \subseteq Inputs
      BY <1>5 DEF Commit
    <3> QED BY <1>5, <3>1, <3>2, <3>3, <3>5, <3>6 DEF Commit
  <2> QED BY <1>5, <2>1, <2>2 DEF Commit
<1> QED BY <1>2, <1>3, <1>4, <1>5

\* Decisions and the life of the rule keep the shape.
LEMMA DecideTyped ==
    ASSUME TypeOK, Decide \/ Pause \/ Resume \/ Remove
    PROVE  TypeOK'
<1> USE DEF TypeOK
<1>1. ASSUME NEW s \in sugs, Accept(s)
      PROVE  TypeOK'
  <2> DEFINE o == s.occ  r == row[s.occ]  q == row'[s.occ]
  <2>1. s \in Suggestion /\ o \in Occurrences /\ r \in Row /\ RowCheck(r)
    BY DEF Suggestion
  <2>2. r.intent + 1 \in Intents
    BY <1>1, <2>1, PlanningAssumption DEF Accept, Row, Intents
  <2>3. row' = [row EXCEPT ![o] = q] /\ q \in Row /\ RowCheck(q)
    <3> DEFINE new == [r EXCEPT !.intent = r.intent + 1, !.want = s.to, !.err = "none",
                           !.st = IF s.to # None THEN ToWrite(r)
                                  ELSE IF r.id = "set" THEN "pending_delete" ELSE "skipped",
                           !.skip = IF s.to = None THEN "yes" ELSE "no"]
    <3>1. row' = [row EXCEPT ![o] = new]
      BY <1>1 DEF Accept
    <3>2. row \in [Occurrences -> Row] /\ s.to \in Slots \cup {None}
      BY <2>1 DEF Suggestion
    <3>3. new \in Row /\ RowCheck(new)
      BY <2>1, <2>2, <3>2 DEF Row, RowCheck, ToWrite, None
    <3> HIDE DEF new
    <3> QED BY <2>1, <3>1, <3>2, <3>3
  <2>4. jobs' \subseteq Occurrences \X Intents
    BY <1>1, <2>1, <2>2 DEF Accept
  <2>5. sugs' \subseteq Suggestion
    <3>1. sugs' = {IF t = s THEN [t EXCEPT !.st = "accepted"]
                   ELSE IF t.occ = o /\ t.st = "pending" THEN [t EXCEPT !.st = "expired"]
                   ELSE t : t \in sugs}
      BY <1>1 DEF Accept
    <3>2. \A t \in sugs : /\ t \in Suggestion /\ [t EXCEPT !.st = "accepted"] \in Suggestion
                          /\ [t EXCEPT !.st = "expired"] \in Suggestion
      BY DEF Suggestion
    <3> QED BY <3>1, <3>2
  <2> HIDE DEF q
  <2>6. row' \in [Occurrences -> Row] /\ \A d \in Occurrences : RowCheck(row'[d])
    BY <2>1, <2>3
  <2> QED BY <1>1, <2>4, <2>5, <2>6 DEF Accept
<1>2. ASSUME NEW s \in sugs, NEW st \in {"dismissed", "expired"}, Drop(s, st)
      PROVE  TypeOK'
  <2>1. [s EXCEPT !.st = st] \in Suggestion
    BY DEF Suggestion
  <2> QED BY <1>2, <2>1 DEF Drop
<1>3. CASE Pause
  BY <1>3, TroubleCounts DEF Pause, Kinds
<1>4. CASE Resume
  <2>1. jobs' \subseteq Occurrences \X Intents
    BY <1>4 DEF Resume, Row
  <2> QED BY <1>4, <2>1 DEF Resume
<1>5. CASE Remove
  <2> DEFINE Clean == {o \in Occurrences : ToCleanUp(row[o])}
  <2>1. /\ \A o \in Clean : row[o].intent < MaxIntent
        /\ row' = [o \in Occurrences |->
               IF o \in Clean
               THEN [row[o] EXCEPT !.st = "pending_delete", !.intent = @ + 1, !.want = None,
                                   !.err = "none", !.skip = "no"]
               ELSE IF row[o].st = "absent" THEN row[o]
               ELSE [row[o] EXCEPT !.st = "deleted", !.want = None, !.skip = "no"]]
        /\ jobs' = jobs \cup {<<o, row[o].intent + 1>> : o \in Clean}
        /\ sugs' = {IF t.st = "pending" THEN [t EXCEPT !.st = "expired"] ELSE t : t \in sugs}
        /\ rule' \in {"deleted", "deleting"}
    BY <1>5, Zenon DEF Remove
  <2>2. \A o \in Occurrences : row[o] \in Row /\ RowCheck(row[o])
    OBVIOUS
  <2> Clean \subseteq Occurrences
    OBVIOUS
  <2> HIDE DEF Clean, TypeOK
  <2>3. \A o \in Clean : row[o].intent + 1 \in Intents
    <3>1. \A o \in Clean : row[o].intent \in Intents
      BY <2>2 DEF Row
    <3>2. \A i \in Intents : i < MaxIntent => i + 1 \in Intents
      BY PlanningAssumption DEF Intents
    <3> QED BY <2>1, <3>1, <3>2
  <2>4. \A o \in Occurrences : row'[o] \in Row /\ RowCheck(row'[o])
    <3> SUFFICES ASSUME NEW o \in Occurrences PROVE row'[o] \in Row /\ RowCheck(row'[o])
      OBVIOUS
    <3>1. CASE o \in Clean
      <4>1. row'[o] = [row[o] EXCEPT !.st = "pending_delete", !.intent = @ + 1, !.want = None,
                                     !.err = "none", !.skip = "no"]
        BY <2>1, <3>1
      <4>2. row[o] \in Row /\ row[o].intent + 1 \in Intents
        BY <2>2, <2>3, <3>1
      <4> QED BY <4>1, <4>2 DEF Row, RowCheck, None
    <3>2. CASE o \notin Clean /\ row[o].st # "absent"
      <4>1. row'[o] = [row[o] EXCEPT !.st = "deleted", !.want = None, !.skip = "no"]
        BY <2>1, <3>2
      <4> QED BY <2>2, <4>1 DEF Row, RowCheck, None
    <3>3. CASE o \notin Clean /\ row[o].st = "absent"
      BY <2>1, <2>2, <3>3
    <3> QED BY <3>1, <3>2, <3>3
  <2>5. row' \in [Occurrences -> Row]
    BY <2>1, <2>4
  <2>6. jobs' \subseteq Occurrences \X Intents
    <3>1. jobs' = jobs \cup {<<o, row[o].intent + 1>> : o \in Clean}
      BY <2>1
    <3>2. \A o \in Clean : <<o, row[o].intent + 1>> \in Occurrences \X Intents
      BY <2>3
    <3> QED BY <3>1, <3>2 DEF TypeOK
  <2>7. sugs' \subseteq Suggestion
    <3>1. \A t \in sugs : t \in Suggestion /\ [t EXCEPT !.st = "expired"] \in Suggestion
      BY DEF Suggestion, TypeOK
    <3> QED BY <2>1, <3>1
  <2> QED BY <1>5, <2>1, <2>4, <2>5, <2>6, <2>7 DEF Remove, TypeOK
<1> QED BY <1>1, <1>2, <1>3, <1>4, <1>5 DEF Decide

\* The rows that apply() writes, and what it writes to the calendar, have their shape.
LEMMA WorkTyped ==
    ASSUME TypeOK, NEW err \in {"none", "target_unavailable", "ownership_mismatch", "other"}
    PROVE  /\ worker.occ \in Occurrences /\ Mine \in Row /\ RowCheck(Mine)
           /\ \A o \in Occurrences : Here(o) \in Event
           /\ \A r \in Row : /\ RowCheck(r) /\ r.st \in Underway
                             => Held(r, err) \in Row /\ RowCheck(Held(r, err))
           /\ Replaced(Mine).gen \in Gens => Replaced(Mine) \in Row /\ RowCheck(Replaced(Mine))
           /\ Replaced(Mine).st = Mine.st
           /\ Replaced(Mine).gen \in Gens => Written \in [Occurrences -> [Gens -> Event]]
           /\ \A o \in Occurrences : Erased(o) \in [Occurrences -> [Gens -> Event]]
<1> USE DEF TypeOK
<1>1. worker.occ \in Occurrences /\ Mine \in Row /\ RowCheck(Mine)
  BY DEF Worker, Mine
<1>2. \A o \in Occurrences : row[o].gen \in Gens /\ Here(o) \in Event
  BY DEF Here, Row
<1>3. ASSUME NEW r \in Row, RowCheck(r), r.st \in Underway
      PROVE  Held(r, err) \in Row /\ RowCheck(Held(r, err))
  BY <1>3 DEF Held, Row, RowCheck, None, Underway
<1>4. Replaced(Mine).gen \in Gens => Replaced(Mine) \in Row /\ RowCheck(Replaced(Mine))
  BY <1>1 DEF Replaced, Row, RowCheck
<1>5. Replaced(Mine).st = Mine.st
  BY <1>1 DEF Replaced, Row
<1>6. Replaced(Mine).gen \in Gens => Written \in [Occurrences -> [Gens -> Event]]
  <2>1. [st |-> "live", slot |-> Mine.want, intent |-> Mine.intent, own |-> "ours"] \in Event
    BY <1>1 DEF Row, Event
  <2> QED BY <1>1, <2>1 DEF Written
<1>7. ASSUME NEW o \in Occurrences
      PROVE  Erased(o) \in [Occurrences -> [Gens -> Event]]
  <2>1. [Here(o) EXCEPT !.st = "gone"] \in Event
    BY <1>2 DEF Event
  <2> QED BY <1>2, <2>1 DEF Erased
<1> QED BY <1>1, <1>2, <1>3, <1>4, <1>5, <1>6, <1>7

\* An outcome with a row of the right shape keeps the shape.
LEMMA OutcomeTyped ==
    ASSUME TypeOK, NEW r \in Row, RowCheck(r), NEW b \in BOOLEAN, Outcome(r, b),
           rule' \in {"none", "active", "paused", "deleting", "deleted"},
           dest' \in [Occurrences -> [Gens -> Event]],
           had' \in [Kinds -> Nat], changes' = changes
    PROVE  TypeOK'
<1> USE DEF TypeOK
<1>1. worker.occ \in Occurrences
  BY DEF Worker
<1>2. row' \in [Occurrences -> Row] /\ \A o \in Occurrences : RowCheck(row'[o])
  BY <1>1 DEF Outcome
<1>3. Resting \in Worker
  BY PlanningAssumption DEF Resting, Worker, NoEvent, Event, Occurrences, Intents, None
<1>4. worker' \in Worker /\ jobs' \subseteq Occurrences \X Intents
  BY <1>3 DEF Outcome, Retried
<1> QED BY <1>2, <1>4 DEF Outcome, Rest

\* Applying an intent keeps the shape.
LEMMA ApplyTyped ==
    ASSUME TypeOK, Locked => Mine.st \in Underway,
           \/ Apply
           \/ \E j \in jobs : Unreached(j[1], j[2]) \/ Unauthorised(j[1], j[2])
           \/ \E kind \in Faults : Fault(kind)
    PROVE  TypeOK'
<1>0. /\ rule \in {"none", "active", "paused", "deleting", "deleted"}
      /\ dest \in [Occurrences -> [Gens -> Event]] /\ had \in [Kinds -> Nat]
      /\ row \in [Occurrences -> Row] /\ \A o \in Occurrences : RowCheck(row[o])
      /\ jobs \subseteq Occurrences \X Intents
  BY DEF TypeOK
<1>1. ASSUME NEW j \in jobs, Ignore(j[1], j[2])
      PROVE  TypeOK'
  BY <1>1 DEF Ignore, TypeOK, Rest
<1>2. ASSUME NEW j \in jobs, Unavailable(j[1], j[2])
      PROVE  TypeOK'
  <2>1. j[1] \in Occurrences /\ row[j[1]].st \in Underway
    BY <1>0, <1>2 DEF Unavailable, Due, Pending, Underway
  <2>2. Held(row[j[1]], "target_unavailable") \in Row /\ RowCheck(Held(row[j[1]], "target_unavailable"))
    BY <1>0, <2>1, WorkTyped
  <2>3. row' \in [Occurrences -> Row] /\ \A o \in Occurrences : RowCheck(row'[o])
    BY <1>0, <1>2, <2>1, <2>2 DEF Unavailable
  <2>4. jobs' \subseteq Occurrences \X Intents
    BY <1>0, <1>2 DEF Unavailable, Retried
  <2> QED BY <1>2, <2>3, <2>4 DEF Unavailable, TypeOK, Rest
<1>3. ASSUME NEW j \in jobs, LookUp(j[1], j[2])
      PROVE  TypeOK'
  <2>1. j[1] \in Occurrences /\ Here(j[1]) \in Event
    BY <1>0, WorkTyped
  <2>2. worker' \in Worker
    BY <1>3, <2>1 DEF LookUp, Worker
  <2> QED BY <1>3, <2>2 DEF LookUp, TypeOK, Rest
<1>4. CASE NotOurs
  <2>1. Held(Mine, "ownership_mismatch") \in Row /\ RowCheck(Held(Mine, "ownership_mismatch"))
    BY <1>4, WorkTyped DEF NotOurs
  <2> QED BY <1>0, <1>4, <2>1, OutcomeTyped DEF NotOurs
<1>5. CASE Delete
  <2> DEFINE r == [Mine EXCEPT !.st = IF Mine.skip = "yes" THEN "skipped" ELSE "deleted",
                               !.id = "none", !.err = "none"]
  <2>1. r \in Row /\ RowCheck(r)
    <3>1. Mine \in Row /\ RowCheck(Mine) /\ Mine.st = "pending_delete"
      BY <1>5, WorkTyped DEF Delete
    <3> QED BY <3>1 DEF Row, RowCheck
  <2>2. dest' \in [Occurrences -> [Gens -> Event]]
    BY <1>0, <1>5, WorkTyped DEF Delete
  <2>3. rule' \in {"none", "active", "paused", "deleting", "deleted"}
    BY <1>0, <1>5 DEF Delete, RuleAfter
  <2>4. Outcome(r, FALSE) /\ UNCHANGED <<had, changes>>
    BY <1>5 DEF Delete
  <2> HIDE DEF r
  <2> QED BY <1>0, <2>1, <2>2, <2>3, <2>4, OutcomeTyped
<1>6. CASE Recognise
  <2> DEFINE r == [Mine EXCEPT !.st = "converged", !.id = "set", !.err = "none"]
  <2>1. r \in Row /\ RowCheck(r)
    <3>1. Mine \in Row /\ RowCheck(Mine) /\ Mine.st \in {"pending_create", "pending_update"}
      BY <1>6, WorkTyped DEF Recognise, Pending
    <3> QED BY <3>1 DEF Row, RowCheck
  <2>2. Outcome(r, FALSE) /\ UNCHANGED <<rule, dest, had, changes>>
    BY <1>6 DEF Recognise
  <2> HIDE DEF r
  <2> QED BY <1>0, <2>1, <2>2, OutcomeTyped
<1>7. CASE TooLate
  <2>1. Replaced(Mine) \in Row /\ RowCheck(Replaced(Mine)) /\ Replaced(Mine).st \in Underway
    BY <1>7, WorkTyped DEF TooLate, ToBeWritten
  <2>2. Held(Replaced(Mine), "other") \in Row /\ RowCheck(Held(Replaced(Mine), "other"))
    BY <2>1, WorkTyped
  <2> QED BY <1>0, <1>7, <2>2, OutcomeTyped DEF TooLate
<1>8. CASE Write
  <2> DEFINE r == [Replaced(Mine) EXCEPT !.st = "converged", !.id = "set", !.err = "none"]
  <2>1. Replaced(Mine) \in Row /\ RowCheck(Replaced(Mine)) /\ Pending(Replaced(Mine))
    BY <1>8, WorkTyped DEF Write, ToBeWritten, Pending
  <2>2. r \in Row /\ RowCheck(r)
    BY <2>1 DEF Row, RowCheck, Pending
  <2>3. Outcome(r, FALSE) /\ UNCHANGED <<rule, had, changes>>
    BY <1>8 DEF Write
  <2>4. dest' \in [Occurrences -> [Gens -> Event]]
    BY <1>8, WorkTyped DEF Write, ToBeWritten
  <2> HIDE DEF r
  <2> QED BY <1>0, <2>2, <2>3, <2>4, OutcomeTyped
<1>9. CASE Precondition
  <2> DEFINE m == IF Pending(Mine) THEN Replaced(Mine) ELSE Mine
  <2>1. m \in Row /\ RowCheck(m) /\ m.st \in Underway
    BY <1>9, WorkTyped DEF Precondition, ToBeWritten, Pending
  <2>2. Held(m, "other") \in Row /\ RowCheck(Held(m, "other"))
    BY <2>1, WorkTyped
  <2>3. Outcome(Held(m, "other"), Mine.st = "pending_delete") /\ UNCHANGED <<rule, dest, had, changes>>
    BY <1>9 DEF Precondition
  <2> HIDE DEF m
  <2> QED BY <1>0, <2>2, <2>3, OutcomeTyped
<1>10. ASSUME NEW j \in jobs, Unreached(j[1], j[2])
       PROVE  TypeOK'
  <2>1. had' \in [Kinds -> Nat] /\ changes' = changes
    BY <1>0, <1>10, TroubleCounts DEF Unreached, Kinds, Faults
  <2>2. j[1] \in Occurrences
    BY <1>0
  <2>3. row' \in [Occurrences -> Row] /\ \A o \in Occurrences : RowCheck(row'[o])
    <3>1. row' = [row EXCEPT ![j[1]] = [row[j[1]] EXCEPT !.err = "other"]]
      BY <1>0, <1>10, <2>2 DEF Unreached
    <3>2. [row[j[1]] EXCEPT !.err = "other"] \in Row /\ RowCheck([row[j[1]] EXCEPT !.err = "other"])
      <4>1. \A r \in Row : RowCheck(r) =>
                [r EXCEPT !.err = "other"] \in Row /\ RowCheck([r EXCEPT !.err = "other"])
        BY DEF Row, RowCheck
      <4> QED BY <1>0, <2>2, <4>1
    <3> QED BY <1>0, <2>2, <3>1, <3>2
  <2>4. jobs' \subseteq Occurrences \X Intents
    BY <1>0, <1>10 DEF Unreached, Retried
  <2> QED BY <1>10, <2>1, <2>3, <2>4 DEF Unreached, TypeOK, Rest
<1>11. ASSUME NEW kind \in Faults, Fault(kind)
       PROVE  TypeOK'
  <2> DEFINE m == IF Pending(Mine) THEN Replaced(Mine) ELSE Mine
             r == IF kind = "died" THEN Mine ELSE [m EXCEPT !.err = "other"]
  <2>0. ToBeWritten \/ Mine.st = "pending_delete"
    BY <1>11 DEF Fault
  <2>1. m \in Row /\ RowCheck(m) /\ Mine \in Row /\ RowCheck(Mine)
    BY <2>0, WorkTyped DEF ToBeWritten, Pending
  <2>2. r \in Row /\ RowCheck(r)
    <3> HIDE DEF m
    <3> QED BY <2>1 DEF Row, RowCheck
  <2>3. dest' \in [Occurrences -> [Gens -> Event]]
    <3>1. Pending(Mine) => Replaced(Mine).gen \in Gens
      BY <2>0 DEF ToBeWritten, Pending
    <3> QED BY <1>0, <1>11, <3>1, WorkTyped DEF Fault
  <2>4. had' \in [Kinds -> Nat] /\ changes' = changes
    BY <1>0, <1>11, TroubleCounts DEF Fault, Kinds
  <2>5. Outcome(r, kind # "rejected") /\ rule' = rule
    BY <1>11 DEF Fault
  <2> HIDE DEF r
  <2> QED BY <1>0, <2>2, <2>3, <2>4, <2>5, OutcomeTyped
<1>12. ASSUME NEW j \in jobs, Unauthorised(j[1], j[2])
       PROVE  TypeOK'
  <2>1. had' \in [Kinds -> Nat] /\ changes' = changes
    BY <1>0, <1>12, TroubleCounts DEF Unauthorised, Kinds
  <2> QED BY <1>12, <2>1 DEF Unauthorised, TypeOK, Rest
<1>13. CASE Missing
  <2> DEFINE r == [Mine EXCEPT !.err = "other"]
  <2>1. r \in Row /\ RowCheck(r)
    <3>1. Mine \in Row /\ RowCheck(Mine)
      BY WorkTyped
    <3> QED BY <3>1 DEF Row, RowCheck
  <2>2. Outcome(r, FALSE) /\ UNCHANGED <<rule, dest, had, changes>>
    BY <1>13 DEF Missing
  <2> HIDE DEF r
  <2> QED BY <1>0, <2>1, <2>2, OutcomeTyped
<1> QED BY <1>1, <1>2, <1>3, <1>4, <1>5, <1>6, <1>7, <1>8, <1>9, <1>10, <1>11, <1>12, <1>13 DEF Apply

\* The surroundings keep the shape.
LEMMA SurroundingsTyped == ASSUME TypeOK, Surroundings PROVE TypeOK'
<1> USE DEF TypeOK
<1>1. CASE Tick
  BY <1>1, EndIsNat DEF Tick, db, Times
<1>2. CASE Outage
  BY <1>2, TroubleCounts DEF Outage, db, Kinds
<1>3. CASE Restored
  BY <1>3 DEF Restored, db
<1>4. ASSUME NEW s \in Slots, Availability(s)
      PROVE  TypeOK'
  BY <1>4, PlanningAssumption DEF Availability, db
<1>5. ASSUME NEW o \in Occurrences, NEW g \in Gens, Touch(o, g)
      PROVE  TypeOK'
  <2>1. PICK e \in {[dest[o][g] EXCEPT !.slot = None], [dest[o][g] EXCEPT !.own = "foreign"],
                    [dest[o][g] EXCEPT !.st = "gone"]} : dest' = [dest EXCEPT ![o][g] = e]
    BY <1>5 DEF Touch
  <2>2. e \in Event
    <3>1. dest[o][g] \in Event
      OBVIOUS
    <3> QED BY <2>1, <3>1 DEF Event, None
  <2>3. dest' \in [Occurrences -> [Gens -> Event]]
    BY <2>1, <2>2
  <2>4. had' \in [Kinds -> Nat] /\ changes' = changes
    BY <1>5, TroubleCounts DEF Touch, Kinds
  <2> QED BY <1>5, <2>3, <2>4 DEF Touch, db
<1> QED BY <1>1, <1>2, <1>3, <1>4, <1>5 DEF Surroundings

\* Every step keeps the shape, the worker's row and the blank rows of a rule to come.
LEMMA NextBase == Base /\ [Next]_vars => Base'
<1> SUFFICES ASSUME Base, [Next]_vars PROVE Base'
  OBVIOUS
<1>0. TypeOK /\ (Locked => Mine.st \in Underway) /\ (rule = "none" => \A o \in Occurrences : row[o] = NoRow)
  BY DEF Base
<1>1. TypeOK'
  <2>1. CASE UNCHANGED vars
    BY <1>0, <2>1 DEF vars, TypeOK
  <2> QED BY <1>0, <2>1, PlanTyped, DecideTyped, ApplyTyped, SurroundingsTyped DEF Next
<1>2. (Locked => Mine.st \in Underway)'
  <2> USE DEF Locked, Mine
  <2>1. worker' = worker /\ row' = row => (Locked => Mine.st \in Underway)'
    BY <1>0
  <2>2. worker'.pc = "idle" => (Locked => Mine.st \in Underway)'
    OBVIOUS
  <2>3. ASSUME NEW j \in jobs, LookUp(j[1], j[2])
        PROVE  (Locked => Mine.st \in Underway)'
    BY <2>3 DEF LookUp, Due, Pending, Underway
  <2>4. Activate => worker'.pc = "idle"
    BY <1>0 DEF Activate, NoRow, Underway, TypeOK, Worker
  <2>5. ASSUME NEW in \in recon, Commit(in)
        PROVE  worker'.pc = "idle"
    BY <2>5 DEF Commit
  <2>6. ASSUME NEW s \in sugs, Accept(s) \/ Drop(s, "dismissed") \/ Drop(s, "expired")
        PROVE  worker'.pc = "idle" \/ (worker' = worker /\ row' = row)
    BY <2>6 DEF Accept, Drop
  <2>7. Preview \/ Read \/ Pause \/ Resume \/ Surroundings \/ UNCHANGED vars => worker' = worker /\ row' = row
    BY DEF Preview, Read, Pause, Resume, Surroundings, Tick, Outage, Restored, Availability, Touch, db, vars
  <2>8. Remove => worker'.pc = "idle"
    BY DEF Remove
  <2>9. ASSUME NEW j \in jobs, \/ Ignore(j[1], j[2]) \/ Unavailable(j[1], j[2])
                               \/ Unreached(j[1], j[2]) \/ Unauthorised(j[1], j[2])
        PROVE  worker'.pc = "idle"
    BY <2>9 DEF Ignore, Unavailable, Unreached, Unauthorised
  <2>10. NotOurs \/ Delete \/ Recognise \/ TooLate \/ Write \/ Missing \/ Precondition => worker'.pc = "idle"
    BY DEF NotOurs, Delete, Recognise, TooLate, Write, Missing, Precondition, Outcome, Resting
  <2>11. ASSUME NEW kind \in Faults, Fault(kind)
         PROVE  worker'.pc = "idle"
    BY <2>11 DEF Fault, Outcome, Resting
  <2> HIDE DEF Locked, Mine
  <2> QED BY <2>1, <2>2, <2>3, <2>4, <2>5, <2>6, <2>7, <2>8, <2>9, <2>10, <2>11 DEF Next, Apply, Decide
<1>3. (rule = "none" => \A o \in Occurrences : row[o] = NoRow)'
  <2> SUFFICES ASSUME rule' = "none" PROVE \A o \in Occurrences : row'[o] = NoRow
    OBVIOUS
  <2>1. rule' = rule /\ row' = row => \A o \in Occurrences : row'[o] = NoRow
    BY <1>0
  <2>2. ASSUME rule = "none", NEW o \in Occurrences, NEW i
        PROVE  ~Due(o, i)
    BY <1>0, <2>2 DEF Due, Pending, NoRow
  <2>3. rule = "none" => ~Locked
    BY <1>0 DEF Mine, NoRow, Underway, TypeOK, Worker
  <2>4. Preview \/ Read \/ Surroundings \/ UNCHANGED vars => rule' = rule /\ row' = row
    BY DEF Preview, Read, Surroundings, Tick, Outage, Restored, Availability, Touch, db, vars
  <2>5. ~Activate /\ ~Pause /\ ~Resume /\ ~Remove
    BY DEF Activate, Pause, Resume, Remove
  <2>6. ASSUME NEW in \in recon, Commit(in)
        PROVE  rule' = rule /\ row' = row
    BY <2>6 DEF Commit
  <2>7. ASSUME NEW s \in sugs, Accept(s) \/ Drop(s, "dismissed") \/ Drop(s, "expired")
        PROVE  rule' = rule /\ row' = row
    BY <2>7 DEF Accept, Drop
  <2>8. ASSUME NEW j \in jobs,
               \/ Ignore(j[1], j[2]) \/ Unavailable(j[1], j[2]) \/ Unreached(j[1], j[2])
               \/ Unauthorised(j[1], j[2]) \/ LookUp(j[1], j[2])
        PROVE  rule' = rule /\ row' = row
    <3>1. j[1] \in Occurrences
      BY <1>0 DEF TypeOK
    <3> QED BY <2>2, <2>8, <3>1 DEF Ignore, Unavailable, Unreached, Unauthorised, LookUp
  <2>9. NotOurs \/ Delete \/ Recognise \/ TooLate \/ Write \/ Missing \/ Precondition => FALSE
    BY <2>3 DEF NotOurs, Delete, Recognise, TooLate, Write, Missing, Precondition, ToBeWritten, RuleAfter
  <2>10. ASSUME NEW kind \in Faults, Fault(kind)
         PROVE  FALSE
    BY <2>3, <2>10 DEF Fault
  <2> QED BY <2>1, <2>4, <2>5, <2>6, <2>7, <2>8, <2>9, <2>10 DEF Next, Apply, Decide
<1> QED BY <1>1, <1>2, <1>3 DEF Base

\* A rule that nobody has previewed has the shape.
LEMMA InitBase == Init => Base
<1> SUFFICES ASSUME Init PROVE Base
  OBVIOUS
<1>1. NoRow \in Row /\ RowCheck(NoRow) /\ NoEvent \in Event /\ Resting \in Worker
  BY PlanningAssumption DEF NoRow, Row, RowCheck, NoEvent, Event, Resting, Worker, Intents, Gens,
                            Occurrences, None
<1>2. NoInputs \in Inputs /\ 0 \in Times
  BY EndIsNat DEF NoInputs, Inputs, Times
<1>3. TypeOK
  BY <1>1, <1>2, PlanningAssumption DEF Init, TypeOK
<1> QED BY <1>3 DEF Init, Base, Locked, Resting

\* TypeOK: rows, suggestions, jobs and calendar keep their shape, and no transaction but a
\* late pass runs into the check constraint of planned_events.
THEOREM TypeCorrect == Spec => []TypeOK
<1>1. Spec => []Base
  BY InitBase, NextBase, PTL DEF Spec
<1>2. Base => TypeOK
  BY DEF Base
<1> QED BY <1>1, <1>2, PTL

-----------------------------------------------------------------------------
(* Steps that leave the calendar alone.                                    *)

\* The part of the invariant about rows, worker and calendar.
Agreed == Blank /\ Ids /\ Looks /\ Numbered /\ ConvergedIsTrue /\ Known

\* A row is planned anew: it keeps its event, and another desired time has another intent.
Keeps(r, q) ==
    /\ q.id = r.id /\ q.gen = r.gen /\ q.intent >= r.intent
    /\ q.intent = r.intent => q.want \in {r.want, None}
    /\ q.st = "converged" => r.st = "converged" /\ q.want = r.want /\ q.intent = r.intent
    /\ q.st = "absent" => q = NoRow
    /\ q.st \in {"unmet", "skipped"} => q.id = "none"

\* Planning rows anew keeps rows and calendar in agreement.
LEMMA KeepsAgreed ==
    ASSUME Base, Base', Agreed, \A o \in Occurrences : Keeps(row[o], row'[o]), dest' = dest,
           \A k \in Kinds : had'[k] >= had[k], worker'.pc = "idle"
    PROVE  Agreed'
<1>0. /\ row \in [Occurrences -> Row] /\ row' \in [Occurrences -> Row] /\ had \in [Kinds -> Nat]
      /\ dest \in [Occurrences -> [Gens -> Event]] /\ had' \in [Kinds -> Nat]
  BY DEF Base, TypeOK
<1>1. /\ \A o \in Occurrences : row[o].gen \in Gens /\ row[o].intent \in Nat /\ row'[o].intent \in Nat
      /\ \A o \in Occurrences, g \in Gens : dest[o][g].intent \in Nat
  BY <1>0, PlanningAssumption DEF Row, Event, Intents
<1>2. /\ had'["touch"] = 0 => had["touch"] = 0
      /\ Answered' => Answered
  BY <1>0 DEF Kinds, Faults, Answered
<1>3. Blank'
  BY DEF Keeps, Blank
<1>4. Ids'
  BY DEF Keeps, Agreed, Ids, Here
<1>5. Looks'
  BY DEF Looks, Locked
<1>6. Numbered'
  <2> SUFFICES ASSUME NEW o \in Occurrences, NEW g \in Gens
               PROVE  /\ dest[o][g].intent <= row'[o].intent
                      /\ /\ had'["touch"] = 0 /\ dest[o][g].st = "live"
                         /\ dest[o][g].intent = row'[o].intent /\ row'[o].want # None
                         => dest[o][g].slot = row'[o].want
    BY DEF Numbered
  <2>1. /\ dest[o][g].intent <= row[o].intent
        /\ /\ had["touch"] = 0 /\ dest[o][g].st = "live"
           /\ dest[o][g].intent = row[o].intent /\ row[o].want # None
           => dest[o][g].slot = row[o].want
    BY DEF Agreed, Numbered
  <2> QED BY <1>1, <1>2, <2>1 DEF Keeps
<1>7. ConvergedIsTrue'
  BY <1>2 DEF Keeps, Agreed, ConvergedIsTrue, Live, Here
<1>8. Known'
  BY <1>2 DEF Keeps, Agreed, Known, Live
<1> QED BY <1>3, <1>4, <1>5, <1>6, <1>7, <1>8 DEF Agreed

\* updateOccurrence, insertOccurrence and the rows that left the horizon plan anew.
LEMMA ReconciledKeeps ==
    ASSUME Base, Blank, NEW o \in Occurrences, NEW in \in Inputs
    PROVE  Keeps(row[o], Reconciled(o, in))
<1> DEFINE r == row[o]  p == Planned(o, in)
<1>0. r \in Row /\ r.intent \in Nat /\ RowCheck(r)
  BY PlanningAssumption DEF Base, TypeOK, Row, Intents
<1>b. (r.st = "absent" => r = NoRow) /\ (r.st \in {"unmet", "skipped"} => r.id = "none")
  BY DEF Blank
<1>1. CASE o \notin Horizon(in.at)
  <2>1. Reconciled(o, in) = Left(r, in.at)
    BY <1>1 DEF Reconciled
  <2>2. Keeps(r, Left(r, in.at))
    BY <1>0, <1>b DEF Left, Keeps, Row
  <2> QED BY <2>1, <2>2
<1>2. CASE o \in Horizon(in.at) /\ r.st = "absent"
  <2>1. Reconciled(o, in) = Fresh(p)
    BY <1>2 DEF Reconciled
  <2>2. r = NoRow
    BY <1>2, <1>b
  <2>3. Keeps(NoRow, Fresh(p))
    BY DEF Keeps, Fresh, NoRow, None
  <2> QED BY <2>1, <2>2, <2>3
<1>3. CASE o \in Horizon(in.at) /\ r.st # "absent"
  <2>1. Reconciled(o, in) = Updated(r, p, in.at)
    BY <1>3 DEF Reconciled
  <2>2. Keeps(r, r) /\ Keeps(r, Reopened(r))
    BY <1>0, <1>b, <1>3 DEF Keeps, Reopened, ToWrite, Row
  <2>3. Keeps(r, [r EXCEPT !.st = "held", !.err = "other", !.skip = "no"])
    BY <1>0 DEF Keeps, Row
  <2>4. ~Suggests(r) /\ ~MustHold(r, p, in.at) => Keeps(r, Moved(r, p))
    <3>1. ~Suggests(r) /\ ~MustHold(r, p, in.at) => (p = None => r.id # "set")
      BY DEF MustHold
    <3> QED BY <1>0, <3>1 DEF Keeps, Moved, ToWrite, Row
  <2> QED BY <2>1, <2>2, <2>3, <2>4 DEF Updated
<1> QED BY <1>1, <1>2, <1>3

\* Steps that change neither rows nor calendar nor the worker keep them in agreement.
LEMMA StillAgreed ==
    ASSUME Base, Base', Agreed, UNCHANGED <<row, dest, worker>>, \A k \in Kinds : had'[k] >= had[k]
    PROVE  Agreed'
<1>0. had \in [Kinds -> Nat] /\ had' \in [Kinds -> Nat]
  BY DEF Base, TypeOK
<1>1. /\ had'["touch"] = 0 => had["touch"] = 0
      /\ Answered' => Answered
  BY <1>0 DEF Kinds, Faults, Answered
<1>2. Blank' /\ Ids'
  BY DEF Agreed, Blank, Ids, Here
<1>3. Looks'
  BY <1>1 DEF Agreed, Looks, Here, Locked
<1>4. Numbered'
  BY <1>1 DEF Agreed, Numbered
<1>5. ConvergedIsTrue' /\ Known'
  BY <1>1 DEF Agreed, ConvergedIsTrue, Known, Live, Here
<1> QED BY <1>2, <1>3, <1>4, <1>5 DEF Agreed

\* Activation, reconcile passes, decisions, removal, an unusable target and a failed
\* lookup keep rows and calendar in agreement.
LEMMA PlanAgreed ==
    ASSUME Base, Base', Agreed,
           \/ Activate \/ Decide \/ Remove
           \/ \E in \in recon : Commit(in)
           \/ \E j \in jobs : Unavailable(j[1], j[2]) \/ Unreached(j[1], j[2])
           \/ NotOurs
    PROVE  Agreed'
<1>0. /\ row \in [Occurrences -> Row] /\ had \in [Kinds -> Nat] /\ Blank
      /\ \A o \in Occurrences : row[o].intent \in Nat
      /\ jobs \subseteq Occurrences \X Intents /\ worker.occ \in Occurrences
      /\ recon \subseteq Inputs /\ sugs \subseteq Suggestion
  BY PlanningAssumption DEF Base, TypeOK, Row, Intents, Worker, Agreed
<1>h. had' = had => \A k \in Kinds : had'[k] >= had[k]
  BY <1>0
<1>k. ASSUME NEW o \in Occurrences PROVE Keeps(row[o], row[o])
  BY <1>0 DEF Keeps, Blank
<1>l. ASSUME NEW o \in Occurrences, row[o].st \in Underway,
             NEW err \in {"none", "target_unavailable", "ownership_mismatch", "other"}
      PROVE  Keeps(row[o], Held(row[o], err))
  BY <1>0, <1>l DEF Keeps, Held, Row, Underway
<1>1. CASE Activate
  <2>1. \A o \in Occurrences : row[o] = NoRow
    BY <1>1 DEF Activate, Base
  <2>2. Keeps(NoRow, NoRow) /\ \A p \in Slots \cup {None} : Keeps(NoRow, Fresh(p))
    BY DEF Keeps, Fresh, NoRow, None
  <2>3. preview \in Inputs
    BY DEF Base, TypeOK
  <2>4. \A o \in Occurrences : row'[o] = NoRow \/ \E p \in Slots \cup {None} : row'[o] = Fresh(p)
    BY <1>1, <2>3, PlannedTyped DEF Activate
  <2>5. worker'.pc = "idle"
    <3>1. ~Locked
      BY <1>0, <2>1 DEF Base, Mine, NoRow, Underway
    <3> QED BY <1>1, <3>1 DEF Activate, Locked
  <2>6. dest' = dest /\ had' = had
    BY <1>1 DEF Activate
  <2>7. \A o \in Occurrences : Keeps(row[o], row'[o])
    BY <2>1, <2>2, <2>4
  <2> QED BY <1>h, <2>5, <2>6, <2>7, KeepsAgreed
<1>2. ASSUME NEW in \in recon, Commit(in)
      PROVE  Agreed'
  <2>1. \A o \in Occurrences : row'[o] = row[o] \/ row'[o] = Reconciled(o, in)
    BY <1>2 DEF Commit
  <2>2. dest' = dest /\ had' = had /\ worker'.pc = "idle"
    BY <1>2 DEF Commit, Locked
  <2>3. \A o \in Occurrences : Keeps(row[o], row'[o])
    BY <1>0, <1>k, <2>1, ReconciledKeeps
  <2> QED BY <1>h, <2>2, <2>3, KeepsAgreed
<1>3. ASSUME NEW s \in sugs, Accept(s)
      PROVE  Agreed'
  <2> DEFINE r == row[s.occ]
             new == [r EXCEPT !.intent = r.intent + 1, !.want = s.to, !.err = "none",
                         !.st = IF s.to # None THEN ToWrite(r)
                                ELSE IF r.id = "set" THEN "pending_delete" ELSE "skipped",
                         !.skip = IF s.to = None THEN "yes" ELSE "no"]
  <2>1. s.occ \in Occurrences /\ row' = [row EXCEPT ![s.occ] = new]
    BY <1>0, <1>3 DEF Accept, Suggestion
  <2>2. r \in Row /\ r.intent \in Nat
    BY <1>0, <2>1
  <2>3. Keeps(r, new)
    BY <2>2 DEF Keeps, Row, ToWrite
  <2>4. dest' = dest /\ had' = had /\ worker'.pc = "idle"
    BY <1>3 DEF Accept, Locked
  <2> HIDE DEF new
  <2>5. \A o \in Occurrences : Keeps(row[o], row'[o])
    BY <1>0, <1>k, <2>1, <2>3
  <2> QED BY <1>h, <2>4, <2>5, KeepsAgreed
<1>4. ASSUME NEW s \in sugs, Drop(s, "dismissed") \/ Drop(s, "expired")
      PROVE  Agreed'
  BY <1>h, <1>4, StillAgreed DEF Drop
<1>5. CASE Remove
  <2>1. \A o \in Occurrences :
          \/ row'[o] = [row[o] EXCEPT !.st = "pending_delete", !.intent = @ + 1, !.want = None,
                                      !.err = "none", !.skip = "no"]
          \/ row'[o] = row[o]
          \/ row'[o] = [row[o] EXCEPT !.st = "deleted", !.want = None, !.skip = "no"]
    BY <1>5 DEF Remove
  <2>2. ASSUME NEW o \in Occurrences
        PROVE  /\ Keeps(row[o], [row[o] EXCEPT !.st = "pending_delete", !.intent = @ + 1, !.want = None,
                                               !.err = "none", !.skip = "no"])
               /\ Keeps(row[o], [row[o] EXCEPT !.st = "deleted", !.want = None, !.skip = "no"])
    <3>1. row[o] \in Row /\ row[o].intent \in Nat
      BY <1>0
    <3> QED BY <3>1 DEF Keeps, Row
  <2>3. \A o \in Occurrences : Keeps(row[o], row'[o])
    BY <1>k, <2>1, <2>2
  <2>4. dest' = dest /\ had' = had /\ worker'.pc = "idle"
    BY <1>5 DEF Remove, Locked
  <2> QED BY <1>h, <2>3, <2>4, KeepsAgreed
<1>6. ASSUME NEW j \in jobs, Unavailable(j[1], j[2])
      PROVE  Agreed'
  <2>1. j[1] \in Occurrences /\ row[j[1]].st \in Underway
    BY <1>0, <1>6 DEF Unavailable, Due, Pending, Underway
  <2>2. row' = [row EXCEPT ![j[1]] = Held(row[j[1]], "target_unavailable")]
    BY <1>6 DEF Unavailable
  <2>3. dest' = dest /\ had' = had /\ worker'.pc = "idle"
    BY <1>6 DEF Unavailable, Locked
  <2>4. \A o \in Occurrences : Keeps(row[o], row'[o])
    BY <1>0, <1>k, <1>l, <2>1, <2>2
  <2> QED BY <1>h, <2>3, <2>4, KeepsAgreed
<1>7. ASSUME NEW j \in jobs, Unreached(j[1], j[2])
      PROVE  Agreed'
  <2>1. j[1] \in Occurrences /\ row[j[1]].st \in Underway
    BY <1>0, <1>7 DEF Unreached, Due, Pending, Underway
  <2>2. row' = [row EXCEPT ![j[1]] = [row[j[1]] EXCEPT !.err = "other"]]
    BY <1>0, <1>7, <2>1 DEF Unreached
  <2>3. Keeps(row[j[1]], [row[j[1]] EXCEPT !.err = "other"])
    <3>1. row[j[1]] \in Row /\ row[j[1]].intent \in Nat
      BY <1>0, <2>1
    <3> QED BY <2>1, <3>1 DEF Keeps, Row, Underway
  <2>4. dest' = dest /\ worker'.pc = "idle" /\ \A k \in Kinds : had'[k] >= had[k]
    BY <1>0, <1>7, TroubleCounts DEF Unreached, Locked, Kinds, Faults
  <2>5. \A o \in Occurrences : Keeps(row[o], row'[o])
    BY <1>0, <1>k, <2>1, <2>2, <2>3
  <2> QED BY <2>4, <2>5, KeepsAgreed
<1>8. CASE NotOurs
  <2>1. row' = [row EXCEPT ![worker.occ] = Held(row[worker.occ], "ownership_mismatch")]
    BY <1>8 DEF NotOurs, Outcome, Mine
  <2>2. row[worker.occ].st \in Underway
    BY <1>8 DEF NotOurs, Base, Mine
  <2>3. dest' = dest /\ had' = had /\ worker'.pc = "idle"
    BY <1>8 DEF NotOurs, Outcome, Resting
  <2>4. \A o \in Occurrences : Keeps(row[o], row'[o])
    BY <1>0, <1>k, <1>l, <2>1, <2>2
  <2> QED BY <1>h, <2>3, <2>4, KeepsAgreed
<1> QED BY <1>1, <1>2, <1>3, <1>4, <1>5, <1>6, <1>7, <1>8 DEF Decide

-----------------------------------------------------------------------------
(* Steps of the worker that holds the row locks.                           *)

\* Agreement, one occurrence at a time.
At(o) ==
    /\ row[o].st = "absent" => row[o] = NoRow
    /\ row[o].st \in {"unmet", "skipped"} => row[o].id = "none"
    /\ \A g \in Gens : g < row[o].gen => dest[o][g].st = "gone"
    /\ \A g \in Gens : g > row[o].gen + 1 => dest[o][g].st = "absent"
    /\ \A g \in Gens : g = row[o].gen + 1 /\ dest[o][g].st # "absent" => Here(o).st = "gone"
    /\ row[o].id = "set" => Here(o).st # "absent"
    /\ \A g \in Gens : dest[o][g].intent <= row[o].intent
    /\ \A g \in Gens : /\ had["touch"] = 0 /\ dest[o][g].st = "live"
                       /\ dest[o][g].intent = row[o].intent /\ row[o].want # None
                       => dest[o][g].slot = row[o].want
    /\ row[o].st = "converged" /\ had["touch"] = 0 =>
          /\ Live(o, row[o].gen) /\ row[o].id = "set"
          /\ Here(o).slot = row[o].want /\ Here(o).intent = row[o].intent
    /\ Answered => \A g \in Gens : Live(o, g) => g = row[o].gen /\ row[o].id = "set"

\* Nothing else is in the agreement but what the worker has found.
LEMMA AgreedAt == Agreed <=> Looks /\ \A o \in Occurrences : At(o)
  BY DEF Agreed, Blank, Ids, Numbered, ConvergedIsTrue, Known, At

\* A worker that ends concerns its own occurrence only.
LEMMA WorkAgreed ==
    ASSUME Base, Base', Agreed, NEW o \in Occurrences, At(o)', worker'.pc = "idle",
           \A d \in Occurrences \ {o} : row'[d] = row[d] /\ dest'[d] = dest[d],
           \A k \in Kinds : had'[k] >= had[k]
    PROVE  Agreed'
<1>0. had \in [Kinds -> Nat] /\ had' \in [Kinds -> Nat]
  BY DEF Base, TypeOK
<1>1. /\ had'["touch"] = 0 => had["touch"] = 0
      /\ Answered' => Answered
  BY <1>0 DEF Kinds, Faults, Answered
<1>2. ASSUME NEW d \in Occurrences \ {o} PROVE At(d)'
  <2>1. At(d) /\ row'[d] = row[d] /\ dest'[d] = dest[d]
    BY AgreedAt
  <2> QED BY <1>1, <2>1 DEF At, Here, Live
<1>3. Looks'
  BY DEF Looks, Locked
<1>4. (\A d \in Occurrences : At(d))'
  BY <1>2
<1> QED BY <1>3, <1>4 DEF Agreed, Blank, Ids, Numbered, ConvergedIsTrue, Known, At

\* What a worker knows of its row and its event.
LEMMA WorkFacts ==
    ASSUME Base, Agreed, Locked
    PROVE  /\ worker.occ \in Occurrences /\ Mine = row[worker.occ] /\ Mine \in Row
           /\ Mine.gen \in Gens /\ Mine.gen \in Nat /\ Mine.intent \in Nat /\ Mine.st \in Underway
           /\ Here(worker.occ) = dest[worker.occ][Mine.gen]
           /\ Pending(Mine) => Mine.want # None
           /\ At(worker.occ)
           /\ ~Seen => Here(worker.occ).st = worker.found.st /\ Here(worker.occ).st # "live"
           /\ Seen => Here(worker.occ).st # "absent"
           /\ had["touch"] = 0 => Here(worker.occ) = worker.found
           /\ \A g \in Gens : dest[worker.occ][g] \in Event /\ dest[worker.occ][g].intent \in Nat
<1>1. worker \in Worker /\ row \in [Occurrences -> Row] /\ dest \in [Occurrences -> [Gens -> Event]]
  BY DEF Base, TypeOK
<1>2. worker.occ \in Occurrences /\ Mine = row[worker.occ] /\ Mine \in Row /\ Here(worker.occ) = dest[worker.occ][Mine.gen]
  BY <1>1 DEF Worker, Mine, Here
<1>3. Mine.gen \in Gens /\ Mine.gen \in Nat /\ Mine.intent \in Nat
  BY <1>2, PlanningAssumption DEF Row, Gens, Intents
<1>4. Mine.st \in Underway /\ (Pending(Mine) => Mine.want # None)
  BY <1>2 DEF Base, TypeOK, RowCheck, Pending
<1>5. At(worker.occ) /\ Looks
  BY <1>2, AgreedAt
<1>6. \A g \in Gens : dest[worker.occ][g] \in Event /\ dest[worker.occ][g].intent \in Nat
  BY <1>1, <1>2, PlanningAssumption DEF Event, Intents
<1> QED BY <1>2, <1>3, <1>4, <1>5, <1>6 DEF Looks, Seen

\* Generations are numbers.
LEMMA GenOrder ==
    \A a, b \in Gens :
        /\ a \in Nat /\ b \in Nat /\ (a < b \/ a = b \/ a > b)
        /\ (a < b + 1 => a < b \/ a = b) /\ (a > b => a = b + 1 \/ a > b + 1)
        /\ (a = b + 1 => a > b) /\ (a > b + 1 => a > b) /\ ~(a < a) /\ ~(a > a)
        /\ ~(a < b /\ a > b)
        /\ \A c \in Gens : (a < b /\ c = b + 1 => a < c) /\ (a > b + 1 /\ c = b + 1 => a > c)
  BY PlanningAssumption DEF Gens

\* A replaced row moves to the next id, and the one it leaves is used up.
LEMMA ReplacedIs ==
    ASSUME Base, Agreed, Locked
    PROVE  /\ Replaced(Mine).intent = Mine.intent /\ Replaced(Mine).want = Mine.want
           /\ Replaced(Mine).st = Mine.st
           /\ \/ Replaced(Mine) = Mine /\ (Seen \/ Mine.id = "none")
              \/ /\ Replaced(Mine).gen = Mine.gen + 1 /\ Replaced(Mine).id = "none"
                 /\ Here(worker.occ).st = "gone" /\ ~Seen
<1>1. Mine \in Row /\ Mine.id \in {"none", "set"}
  BY WorkFacts DEF Row
<1>2. CASE ~Seen /\ Mine.id = "set"
  <2>1. Replaced(Mine) = [Mine EXCEPT !.gen = @ + 1, !.id = "none"]
    BY <1>2 DEF Replaced
  <2>2. Here(worker.occ).st = "gone"
    <3>1. Here(worker.occ) \in Event
      BY WorkFacts
    <3>2. Here(worker.occ).st \in {"absent", "live", "gone"}
      BY <3>1 DEF Event
    <3>3. Here(worker.occ).st # "live" /\ Here(worker.occ).st # "absent"
      BY <1>2, WorkFacts DEF At
    <3> QED BY <3>2, <3>3
  <2> QED BY <1>1, <1>2, <2>1, <2>2 DEF Row
<1>3. CASE Seen \/ Mine.id = "none"
  BY <1>1, <1>3 DEF Replaced, Row
<1> QED BY <1>1, <1>2, <1>3

\* A worker that gives up without a write leaves its occurrence in agreement.
LEMMA ReplacedAt ==
    ASSUME Base, Base', Agreed, Locked, dest' = dest, \A k \in Kinds : had'[k] >= had[k],
           NEW o, o = worker.occ, NEW q, row'[o] = q, q.st \in Underway \cup {"held"},
           q.intent = Mine.intent, q.want = Mine.want,
           \/ q.gen = Mine.gen /\ q.id = Mine.id
           \/ q.gen = Replaced(Mine).gen /\ q.id = Replaced(Mine).id
    PROVE  At(o)'
<1>0. had \in [Kinds -> Nat] /\ had' \in [Kinds -> Nat]
  BY DEF Base, TypeOK
<1>1. /\ had'["touch"] = 0 => had["touch"] = 0
      /\ Answered' => Answered
  BY <1>0 DEF Kinds, Faults, Answered
<1>2. /\ o \in Occurrences /\ At(o) /\ row[o] = Mine /\ Mine.gen \in Nat /\ Gens \subseteq Nat
      /\ Here(o) = dest[o][Mine.gen] /\ Mine.gen \in Gens
  BY WorkFacts, PlanningAssumption DEF Gens
<1>3. q.st \notin {"absent", "unmet", "skipped", "converged"}
  BY DEF Underway
<1>4. \/ q.gen = Mine.gen /\ q.id = Mine.id
      \/ q.gen = Mine.gen + 1 /\ q.id = "none" /\ Here(o).st = "gone"
  BY ReplacedIs
<1>5. CASE q.gen = Mine.gen /\ q.id = Mine.id
  BY <1>1, <1>2, <1>3, <1>5 DEF At, Here, Live
<1>6. CASE q.gen = Mine.gen + 1 /\ q.id = "none" /\ Here(o).st = "gone"
  <2>1. \A g \in Gens : g < q.gen => dest[o][g].st = "gone"
    <3>1. \A g \in Gens : g < Mine.gen + 1 => g < Mine.gen \/ g = Mine.gen
      BY <1>2, GenOrder
    <3>2. \A g \in Gens : g < Mine.gen => dest[o][g].st = "gone"
      BY <1>2 DEF At
    <3> QED BY <1>2, <1>6, <3>1, <3>2
  <2>2. \A g \in Gens : g >= q.gen + 1 => dest[o][g].st = "absent"
    BY <1>2, <1>6 DEF At
  <2>3. Answered => \A g \in Gens : ~Live(o, g)
    BY <1>2, <1>6 DEF At, Live
  <2>4. /\ \A g \in Gens : dest[o][g].intent <= Mine.intent
        /\ \A g \in Gens : /\ had["touch"] = 0 /\ dest[o][g].st = "live"
                           /\ dest[o][g].intent = Mine.intent /\ Mine.want # None
                           => dest[o][g].slot = Mine.want
    BY <1>2 DEF At
  <2> QED BY <1>1, <1>2, <1>3, <1>6, <2>1, <2>2, <2>3, <2>4 DEF At, Here, Live
<1> QED BY <1>4, <1>5, <1>6

\* A write goes to the only id that is or may become the occurrence's: every earlier one is
\* used up and no later one is taken.
LEMMA WriteFits ==
    ASSUME Base, Agreed, ToBeWritten, Accepted
    PROVE  /\ Replaced(Mine).gen \in Gens
           /\ \A g \in Gens : g < Replaced(Mine).gen => dest[worker.occ][g].st = "gone"
           /\ \A g \in Gens : g > Replaced(Mine).gen => dest[worker.occ][g].st = "absent"
<1> DEFINE o == worker.occ  G == Replaced(Mine).gen
<1>1. Locked /\ Pending(Mine) /\ G \in Gens
  BY DEF ToBeWritten
<1>2. /\ o \in Occurrences /\ At(o) /\ row[o] = Mine /\ Mine.gen \in Nat /\ Gens \subseteq Nat
      /\ Here(o) = dest[o][Mine.gen] /\ Mine.gen \in Gens
  BY <1>1, WorkFacts, PlanningAssumption DEF Gens
<1>3. /\ \A g \in Gens : g < Mine.gen => dest[o][g].st = "gone"
      /\ \A g \in Gens : g > Mine.gen + 1 => dest[o][g].st = "absent"
      /\ \A g \in Gens : g = Mine.gen + 1 /\ dest[o][g].st # "absent" => Here(o).st = "gone"
  BY <1>2 DEF At
<1>4. CASE Replaced(Mine) = Mine
  <2>1. Here(o).st # "gone"
    <3>1. CASE Seen
      BY <3>1 DEF Accepted, Unchanged, Seen
    <3>2. CASE ~Seen
      BY <1>2, <1>4, <3>2 DEF Accepted
    <3> QED BY <3>1, <3>2
  <2>2. \A g \in Gens : g > Mine.gen => g = Mine.gen + 1 \/ g > Mine.gen + 1
    BY <1>2, GenOrder
  <2> QED BY <1>1, <1>3, <1>4, <2>1, <2>2
<1>5. CASE G = Mine.gen + 1 /\ Here(o).st = "gone"
  <2>1. \A g \in Gens : g < Mine.gen + 1 => g < Mine.gen \/ g = Mine.gen
    BY <1>2, GenOrder
  <2> QED BY <1>1, <1>2, <1>3, <1>5, <2>1
<1> QED BY <1>1, <1>4, <1>5, ReplacedIs

\* A write, answered or not, leaves its occurrence in agreement.
LEMMA WrittenAt ==
    ASSUME Base, Base', Agreed, ToBeWritten, Accepted, dest' = Written,
           \A k \in Kinds : had'[k] >= had[k], NEW o, o = worker.occ, NEW q, row'[o] = q,
           q.intent = Mine.intent, q.want = Mine.want,
           \/ q.gen = Replaced(Mine).gen /\ q.id = "set" /\ q.st = "converged"
           \/ /\ ~Answered' /\ q.st \in Underway
              /\ \/ q.gen = Replaced(Mine).gen /\ q.id = Replaced(Mine).id
                 \/ q.gen = Mine.gen /\ q.id = Mine.id
    PROVE  At(o)'
<1> PICK G : G = Replaced(Mine).gen
  OBVIOUS
<1> DEFINE e == [st |-> "live", slot |-> Mine.want, intent |-> Mine.intent, own |-> "ours"]
<1>0. had \in [Kinds -> Nat] /\ had' \in [Kinds -> Nat] /\ dest \in [Occurrences -> [Gens -> Event]]
  BY DEF Base, TypeOK
<1>1. had'["touch"] = 0 => had["touch"] = 0
  BY <1>0 DEF Kinds, Faults
<1>2. /\ o \in Occurrences /\ At(o) /\ row[o] = Mine /\ Mine.gen \in Nat /\ Gens \subseteq Nat
      /\ Here(o) = dest[o][Mine.gen] /\ Mine.gen \in Gens /\ Mine.intent \in Nat
  BY WorkFacts, PlanningAssumption DEF Gens, ToBeWritten
<1>3. /\ G \in Gens
      /\ \A g \in Gens : g < G => dest[o][g].st = "gone"
      /\ \A g \in Gens : g > G => dest[o][g].st = "absent"
  BY WriteFits
<1>4. dest'[o][G] = e /\ \A g \in Gens \ {G} : dest'[o][g] = dest[o][g]
  BY <1>0, <1>2, <1>3 DEF Written
<1>5. /\ \A g \in Gens : g < G => dest'[o][g].st = "gone"
      /\ \A g \in Gens : g > G => dest'[o][g].st = "absent"
      /\ dest'[o][G].st = "live"
  BY <1>2, <1>3, <1>4
<1>6. /\ \A g \in Gens : dest'[o][g].intent <= Mine.intent
      /\ \A g \in Gens : dest'[o][g].st = "live" => g = G /\ dest'[o][g].slot = Mine.want
  <2>1. \A g \in Gens : dest[o][g].intent <= Mine.intent
    BY <1>2 DEF At
  <2>2. \A g \in Gens : g = G \/ g < G \/ g > G
    BY <1>3, GenOrder
  <2>3. \A g \in Gens : dest'[o][g].st = "live" => g = G
    BY <1>5, <2>2
  <2> QED BY <1>2, <1>4, <2>1, <2>3
<1>7. \/ q.gen = G /\ q.id = "set" /\ q.st = "converged"
      \/ ~Answered' /\ q.st \in Underway /\ q.gen = G
      \/ /\ ~Answered' /\ q.st \in Underway /\ G = Mine.gen + 1 /\ q.gen = Mine.gen
         /\ Here(o).st = "gone"
  BY ReplacedIs DEF ToBeWritten
<1>8. CASE q.gen = G /\ (q.st = "converged" => q.id = "set") /\ q.st \in Underway \cup {"converged"}
           /\ (~Answered' \/ q.id = "set")
  <2>1. Here(o)' = dest'[o][G] /\ (\A g \in Gens : Live(o, g)' => g = G) /\ Live(o, G)'
    BY <1>4, <1>6, <1>8 DEF Here, Live
  <2>2. dest'[o][G].slot = q.want /\ dest'[o][G].intent = q.intent
    BY <1>4
  <2>3. \A g \in Gens : g = G + 1 => g > G
    BY <1>3, GenOrder
  <2>4. \A g \in Gens : g > G + 1 => g > G
    BY <1>3, GenOrder
  <2>5. q.st \notin {"absent", "unmet", "skipped"}
    BY <1>8 DEF Underway
  <2> QED BY <1>5, <1>6, <1>8, <2>1, <2>2, <2>3, <2>4, <2>5 DEF At
<1>9. CASE /\ ~Answered' /\ q.st \in Underway /\ G = Mine.gen + 1 /\ q.gen = Mine.gen
           /\ Here(o).st = "gone"
  <2>1. Here(o)' = dest[o][Mine.gen] /\ Here(o)'.st = "gone"
    BY <1>2, <1>3, <1>4, <1>9 DEF Here
  <2>2. \A g \in Gens : g < Mine.gen => g < G
    BY <1>2, <1>3, <1>9, GenOrder
  <2>3. \A g \in Gens : g > Mine.gen + 1 => g > G
    BY <1>2, <1>3, <1>9, GenOrder
  <2>4. q.st \notin {"absent", "unmet", "skipped", "converged"}
    BY <1>9 DEF Underway
  <2> QED BY <1>5, <1>6, <1>9, <2>1, <2>2, <2>3, <2>4 DEF At
<1> QED BY <1>7, <1>8, <1>9 DEF Underway

\* A deletion leaves its occurrence in agreement: the event it saw is gone, or there was
\* none, so that the row may forget the id.
LEMMA ErasedAt ==
    ASSUME Base, Base', Agreed, Locked, Mine.st = "pending_delete",
           \A k \in Kinds : had'[k] >= had[k], NEW o, o = worker.occ, NEW q, row'[o] = q,
           dest' = dest \/ dest' = Erased(o),
           q.gen = Mine.gen, q.intent = Mine.intent, q.want = Mine.want,
           \/ q.id = Mine.id /\ q.st = "pending_delete"
           \/ /\ q.id = "none" /\ q.st \in {"skipped", "deleted"}
              /\ dest'[o][Mine.gen].st # "live"
    PROVE  At(o)'
<1>0. had \in [Kinds -> Nat] /\ had' \in [Kinds -> Nat] /\ dest \in [Occurrences -> [Gens -> Event]]
  BY DEF Base, TypeOK
<1>1. (had'["touch"] = 0 => had["touch"] = 0) /\ (Answered' => Answered)
  BY <1>0 DEF Kinds, Faults, Answered
<1>2. /\ o \in Occurrences /\ At(o) /\ row[o] = Mine /\ Here(o) = dest[o][Mine.gen] /\ Mine.gen \in Gens
  BY WorkFacts
<1>3. \A g \in Gens : /\ dest'[o][g].intent = dest[o][g].intent /\ dest'[o][g].slot = dest[o][g].slot
                      /\ dest'[o][g].own = dest[o][g].own
                      /\ \/ dest'[o][g].st = dest[o][g].st
                         \/ dest[o][g].st = "live" /\ dest'[o][g].st = "gone"
  <2>1. CASE dest' = dest
    BY <2>1
  <2>2. CASE dest' = Erased(o) /\ Here(o).st = "live"
    <3>1. dest' = [dest EXCEPT ![o][Mine.gen] = [Here(o) EXCEPT !.st = "gone"]]
      BY <1>2, <2>2 DEF Erased
    <3>2. Here(o) \in Event
      BY <1>0, <1>2
    <3>3. dest'[o][Mine.gen] = [Here(o) EXCEPT !.st = "gone"]
          /\ \A g \in Gens \ {Mine.gen} : dest'[o][g] = dest[o][g]
      BY <1>0, <1>2, <3>1
    <3>4. /\ dest'[o][Mine.gen].intent = Here(o).intent /\ dest'[o][Mine.gen].slot = Here(o).slot
          /\ dest'[o][Mine.gen].own = Here(o).own /\ dest'[o][Mine.gen].st = "gone"
      BY <3>2, <3>3 DEF Event
    <3> QED
      <4> SUFFICES ASSUME NEW g \in Gens
                   PROVE  /\ dest'[o][g].intent = dest[o][g].intent /\ dest'[o][g].slot = dest[o][g].slot
                          /\ dest'[o][g].own = dest[o][g].own
                          /\ \/ dest'[o][g].st = dest[o][g].st
                             \/ dest[o][g].st = "live" /\ dest'[o][g].st = "gone"
        OBVIOUS
      <4>1. CASE g = Mine.gen
        BY <1>2, <2>2, <3>4, <4>1
      <4>2. CASE g # Mine.gen
        BY <3>3, <4>2
      <4> QED BY <4>1, <4>2
  <2>3. CASE dest' = Erased(o) /\ Here(o).st # "live"
    BY <2>3 DEF Erased
  <2> QED BY <2>1, <2>2, <2>3
<1>4. (Answered => \A g \in Gens : Live(o, g) => g = Mine.gen /\ Mine.id = "set")
  BY <1>2 DEF At
<1>5. Answered' => \A g \in Gens : Live(o, g)' => g = q.gen /\ q.id = "set"
  <2> SUFFICES ASSUME Answered', NEW g \in Gens, Live(o, g)' PROVE g = q.gen /\ q.id = "set"
    OBVIOUS
  <2>1. Live(o, g) /\ dest'[o][g].st = "live"
    BY <1>3 DEF Live
  <2> QED BY <1>1, <1>4, <2>1
<1>6. q.st \notin {"absent", "unmet", "converged"} /\ (q.st = "skipped" => q.id = "none")
  OBVIOUS
<1>7. /\ \A g \in Gens : g < q.gen => dest'[o][g].st = "gone"
      /\ \A g \in Gens : g > q.gen + 1 => dest'[o][g].st = "absent"
      /\ \A g \in Gens : g = q.gen + 1 /\ dest'[o][g].st # "absent" => Here(o)'.st = "gone"
      /\ q.id = "set" => Here(o)'.st # "absent"
  BY <1>2, <1>3 DEF At, Here
<1>8. /\ \A g \in Gens : dest'[o][g].intent <= q.intent
      /\ \A g \in Gens : /\ had'["touch"] = 0 /\ dest'[o][g].st = "live"
                         /\ dest'[o][g].intent = q.intent /\ q.want # None
                         => dest'[o][g].slot = q.want
  BY <1>1, <1>2, <1>3 DEF At
<1> QED BY <1>5, <1>6, <1>7, <1>8 DEF At

\* A recognised event is the one the row wants, unless somebody changed it.
LEMMA RecognisedAt ==
    ASSUME Base, Agreed, Recognise, NEW o, o = worker.occ
    PROVE  At(o)'
<1>1. Locked /\ Pending(Mine) /\ Seen /\ Belongs(worker.found) /\ worker.found.intent = Mine.intent
  BY DEF Recognise
<1>2. /\ o \in Occurrences /\ At(o) /\ row[o] = Mine /\ Here(o) = dest[o][Mine.gen] /\ Mine.gen \in Gens
      /\ Mine \in Row /\ Mine.want # None /\ Here(o).st # "absent"
      /\ had["touch"] = 0 => Here(o) = worker.found
  BY <1>1, WorkFacts
<1>3. PICK q : q = [Mine EXCEPT !.st = "converged", !.id = "set", !.err = "none"]
  OBVIOUS
<1>4. row'[o] = q /\ dest' = dest /\ had' = had
  <2>1. row \in [Occurrences -> Row]
    BY DEF Base, TypeOK
  <2> QED BY <1>2, <1>3, <2>1 DEF Recognise, Outcome
<1>5. q.st = "converged" /\ q.id = "set" /\ q.gen = Mine.gen /\ q.intent = Mine.intent /\ q.want = Mine.want
  BY <1>2, <1>3 DEF Row
<1>6. had["touch"] = 0 => /\ Live(o, Mine.gen) /\ Here(o).slot = Mine.want
                          /\ Here(o).intent = Mine.intent
  BY <1>1, <1>2 DEF Live, Seen, Belongs, At
<1>7. Here(o)' = Here(o) /\ (Answered' <=> Answered) /\ \A g \in Gens : Live(o, g)' <=> Live(o, g)
  BY <1>2, <1>4, <1>5 DEF Here, Live, Answered
<1> QED BY <1>2, <1>4, <1>5, <1>6, <1>7 DEF At

\* The worker's own steps keep rows and calendar in agreement.
LEMMA ApplyAgreed ==
    ASSUME Base, Base', Agreed,
           \/ Delete \/ Recognise \/ TooLate \/ Write \/ Missing \/ Precondition
           \/ \E kind \in Faults : Fault(kind)
    PROVE  Agreed'
<1>0. /\ row \in [Occurrences -> Row] /\ had \in [Kinds -> Nat] /\ worker.occ \in Occurrences
      /\ dest \in [Occurrences -> [Gens -> Event]]
  BY DEF Base, TypeOK, Worker
<1>l. Locked
  BY DEF Delete, Recognise, TooLate, Write, Missing, Precondition, Fault, ToBeWritten
<1>m. Mine \in Row /\ Mine = row[worker.occ]
  BY <1>l, WorkFacts
<1>h. had' = had => \A k \in Kinds : had'[k] >= had[k]
  BY <1>0
<1>o. ASSUME NEW r, NEW b, Outcome(r, b)
      PROVE  /\ row'[worker.occ] = r /\ worker'.pc = "idle"
             /\ \A d \in Occurrences \ {worker.occ} : row'[d] = row[d]
  BY <1>0, <1>o DEF Outcome, Resting
<1>d. /\ \A d \in Occurrences \ {worker.occ} : Written[d] = dest[d] /\ Erased(worker.occ)[d] = dest[d]
  BY <1>0 DEF Written, Erased
<1>p. PICK o \in Occurrences : o = worker.occ
  BY <1>0
<1>1. CASE Delete
  <2> DEFINE q == [Mine EXCEPT !.st = IF Mine.skip = "yes" THEN "skipped" ELSE "deleted",
                               !.id = "none", !.err = "none"]
  <2>1. Outcome(q, FALSE) /\ Mine.st = "pending_delete" /\ had' = had
    BY <1>1 DEF Delete
  <2>2. q.gen = Mine.gen /\ q.intent = Mine.intent /\ q.want = Mine.want /\ q.id = "none" /\ q.st \in {"skipped", "deleted"}
    BY <1>m DEF Row
  <2>3. (dest' = dest \/ dest' = Erased(o)) /\ dest'[o][Mine.gen].st # "live"
    <3>1. CASE ~Seen /\ dest' = dest
      BY <1>l, <1>p, <3>1, WorkFacts
    <3>2. CASE dest' = Erased(o) /\ Here(o).st = "live"
      <4>1. dest' = [dest EXCEPT ![o][Mine.gen] = [Here(o) EXCEPT !.st = "gone"]]
        BY <1>m, <1>p, <3>2 DEF Erased
      <4>2. Mine.gen \in Gens /\ Here(o) \in Event
        BY <1>l, <1>p, WorkFacts
      <4> QED BY <1>0, <1>p, <3>2, <4>1, <4>2 DEF Event
    <3>3. CASE dest' = Erased(o) /\ Here(o).st # "live"
      BY <1>m, <1>p, <3>3 DEF Erased, Here
    <3> QED BY <1>1, <1>p, <3>1, <3>2, <3>3 DEF Delete
  <2> HIDE DEF q
  <2>4. row'[o] = q /\ worker'.pc = "idle" /\ \A d \in Occurrences \ {o} : row'[d] = row[d] /\ dest'[d] = dest[d]
    BY <1>o, <1>d, <1>p, <2>1, <2>3
  <2>5. At(o)'
    BY <1>h, <1>l, <1>p, <2>1, <2>2, <2>3, <2>4, ErasedAt
  <2> QED BY <1>h, <2>1, <2>4, <2>5, WorkAgreed
<1>2. CASE Recognise
  <2>1. At(o)'
    BY <1>2, <1>p, RecognisedAt
  <2>2. worker'.pc = "idle" /\ had' = had /\ \A d \in Occurrences \ {o} : row'[d] = row[d] /\ dest'[d] = dest[d]
    BY <1>2, <1>o, <1>p DEF Recognise
  <2> QED BY <1>h, <2>1, <2>2, WorkAgreed
<1>3. CASE TooLate \/ Precondition
  <2>1. PICK m \in {Mine, Replaced(Mine)}, b \in BOOLEAN : Outcome(Held(m, "other"), b)
    BY <1>3 DEF TooLate, Precondition
  <2>2. dest' = dest /\ had' = had
    BY <1>3 DEF TooLate, Precondition
  <2> DEFINE q == Held(m, "other")
  <2>3. /\ q.st \in Underway \cup {"held"} /\ q.gen = m.gen /\ q.id = m.id
        /\ q.intent = Mine.intent /\ q.want = Mine.want
    <3>1. /\ m.intent = Mine.intent /\ m.want = Mine.want
      BY <1>l, ReplacedIs
    <3>2. m = Mine \/ m = [Mine EXCEPT !.gen = @ + 1, !.id = "none"]
      BY DEF Replaced
    <3> QED BY <1>m, <3>1, <3>2 DEF Held, Row, Underway
  <2> HIDE DEF q
  <2>4. row'[o] = q /\ worker'.pc = "idle" /\ \A d \in Occurrences \ {o} : row'[d] = row[d] /\ dest'[d] = dest[d]
    BY <1>o, <1>p, <2>1, <2>2 DEF q
  <2>5. At(o)'
    BY <1>h, <1>l, <1>p, <2>2, <2>3, <2>4, ReplacedAt
  <2> QED BY <1>h, <2>2, <2>4, <2>5, WorkAgreed
<1>4. CASE Write
  <2> DEFINE q == [Replaced(Mine) EXCEPT !.st = "converged", !.id = "set", !.err = "none"]
  <2>1. Outcome(q, FALSE) /\ had' = had /\ dest' = Written /\ ToBeWritten /\ Accepted
    BY <1>4 DEF Write
  <2>2. Replaced(Mine) \in Row
    BY <2>1, WorkTyped DEF Base, ToBeWritten
  <2>3. q.gen = Replaced(Mine).gen /\ q.intent = Replaced(Mine).intent /\ q.want = Replaced(Mine).want /\ q.id = "set" /\ q.st = "converged"
    BY <2>2 DEF Row
  <2>4. q.intent = Mine.intent /\ q.want = Mine.want
    BY <1>l, <2>3, ReplacedIs
  <2> HIDE DEF q
  <2>5. row'[o] = q /\ worker'.pc = "idle" /\ \A d \in Occurrences \ {o} : row'[d] = row[d] /\ dest'[d] = dest[d]
    BY <1>o, <1>d, <1>p, <2>1
  <2>6. At(o)'
    BY <1>h, <1>p, <2>1, <2>3, <2>4, <2>5, WrittenAt
  <2> QED BY <1>h, <2>1, <2>5, <2>6, WorkAgreed
<1>6. CASE Missing
  <2>1. PICK q : q = [Mine EXCEPT !.err = "other"]
    OBVIOUS
  <2>2. Outcome(q, FALSE) /\ Pending(Mine) /\ dest' = dest /\ had' = had
    BY <1>6, <2>1 DEF Missing, ToBeWritten
  <2>3. /\ q.st \in Underway \cup {"held"} /\ q.gen = Mine.gen /\ q.id = Mine.id
        /\ q.intent = Mine.intent /\ q.want = Mine.want
    BY <1>m, <2>1, <2>2 DEF Row, Underway, Pending
  <2>4. row'[o] = q /\ worker'.pc = "idle" /\ \A d \in Occurrences \ {o} : row'[d] = row[d] /\ dest'[d] = dest[d]
    BY <1>o, <1>p, <2>2
  <2>5. At(o)'
    BY <1>h, <1>l, <1>p, <2>2, <2>3, <2>4, ReplacedAt
  <2> QED BY <1>h, <2>2, <2>4, <2>5, WorkAgreed
<1>5. ASSUME NEW kind \in Faults, Fault(kind)
      PROVE  Agreed'
  <2> DEFINE m == IF Pending(Mine) THEN Replaced(Mine) ELSE Mine
             q == IF kind = "died" THEN Mine ELSE [m EXCEPT !.err = "other"]
  <2>1. Outcome(q, kind # "rejected") /\ Trouble(kind)
    BY <1>5 DEF Fault
  <2>2. had'[kind] > 0 /\ (\A k \in Kinds : had'[k] >= had[k]) /\ had' \in [Kinds -> Nat]
    BY <1>0, <2>1, TroubleCounts DEF Kinds
  <2>3. kind \in {"applied", "died"} => ~Answered'
    BY <2>2 DEF Answered, Kinds, Faults
  <2>4. ToBeWritten \/ Mine.st = "pending_delete"
    BY <1>5 DEF Fault
  <2>5. /\ Mine.st \in Underway /\ (Pending(Mine) <=> Mine.st # "pending_delete")
        /\ (Pending(Mine) => ToBeWritten)
    BY <1>l, <2>4, WorkFacts DEF Pending, Underway, ToBeWritten
  <2>6. m \in Row /\ m.intent = Mine.intent /\ m.want = Mine.want /\ m.st = Mine.st
    BY <1>l, <1>m, <2>5, WorkTyped, ReplacedIs DEF Base, ToBeWritten
  <2>7. /\ q.st = Mine.st /\ q.intent = Mine.intent /\ q.want = Mine.want
        /\ \/ q.gen = Mine.gen /\ q.id = Mine.id
           \/ q.gen = m.gen /\ q.id = m.id
    <3> HIDE DEF m
    <3> QED BY <1>m, <2>6 DEF Row
  <2> HIDE DEF q
  <2>8. row'[o] = q /\ worker'.pc = "idle" /\ \A d \in Occurrences \ {o} : row'[d] = row[d]
    BY <1>o, <1>p, <2>1
  <2>9. CASE dest' = dest
    <3>1. At(o)'
      BY <1>l, <1>p, <2>2, <2>5, <2>7, <2>8, <2>9, ReplacedAt
    <3> QED BY <2>2, <2>8, <2>9, <3>1, WorkAgreed
  <2>10. CASE kind \in {"applied", "died"} /\ Pending(Mine) /\ Accepted /\ dest' = Written
    <3>1. At(o)'
      BY <1>p, <2>2, <2>3, <2>5, <2>7, <2>8, <2>10, WrittenAt
    <3>2. \A d \in Occurrences \ {o} : dest'[d] = dest[d]
      BY <1>d, <1>p, <2>10
    <3> QED BY <2>2, <2>8, <3>1, <3>2, WorkAgreed
  <2>11. CASE ~Pending(Mine) /\ dest' = Erased(worker.occ)
    <3>1. At(o)'
      BY <1>l, <1>p, <2>2, <2>5, <2>7, <2>8, <2>11, ErasedAt
    <3>2. \A d \in Occurrences \ {o} : dest'[d] = dest[d]
      BY <1>d, <1>p, <2>11
    <3> QED BY <2>2, <2>8, <3>1, <3>2, WorkAgreed
  <2> QED BY <1>5, <2>9, <2>10, <2>11 DEF Fault
<1> QED BY <1>1, <1>2, <1>3, <1>4, <1>5, <1>6

\* The lookup sees the event of the row.
LEMMA LookUpAgreed ==
    ASSUME Base, Agreed, NEW j \in jobs, LookUp(j[1], j[2])
    PROVE  Agreed'
<1>1. worker' = [pc |-> "looked", occ |-> j[1], found |-> Here(j[1])] /\ UNCHANGED <<row, dest, had>>
  BY DEF LookUp
<1>2. Blank' /\ Ids' /\ Numbered' /\ ConvergedIsTrue' /\ Known'
  BY <1>1 DEF Agreed, Blank, Ids, Numbered, ConvergedIsTrue, Known, Here, Live, Answered
<1>3. Looks'
  BY <1>1 DEF Looks, Here
<1> QED BY <1>2, <1>3 DEF Agreed

\* A change by hand takes an event away or alters it, and nothing is promised any more
\* about untouched events.
LEMMA TouchAgreed ==
    ASSUME Base, Base', Agreed, NEW o \in Occurrences, NEW g \in Gens, Touch(o, g)
    PROVE  Agreed'
<1>0. had \in [Kinds -> Nat] /\ dest \in [Occurrences -> [Gens -> Event]] /\ worker.occ \in Occurrences
      /\ \A d \in Occurrences : row[d].gen \in Gens
  BY DEF Base, TypeOK, Worker, Row
<1>1. had'["touch"] # 0 /\ (Answered' => Answered) /\ UNCHANGED <<row, worker>>
  <2>1. Trouble("touch") /\ had' \in [Kinds -> Nat]
    BY DEF Touch, Base, TypeOK
  <2>2. had'["touch"] > 0 /\ \A k \in Kinds : had'[k] >= had[k]
    BY <1>0, <2>1, TroubleCounts DEF Kinds
  <2> QED BY <1>0, <2>1, <2>2 DEF Answered, Kinds, Faults, Touch, db
<1>2. \A d \in Occurrences, h \in Gens :
          /\ dest'[d][h].intent = dest[d][h].intent
          /\ dest'[d][h].own = "ours" => dest[d][h].own = "ours"
          /\ dest'[d][h].st = dest[d][h].st \/ (dest[d][h].st = "live" /\ dest'[d][h].st = "gone")
  <2>1. dest[o][g] \in Event /\ dest[o][g].st = "live"
    BY <1>0 DEF Touch
  <2>2. PICK e \in {[dest[o][g] EXCEPT !.slot = None], [dest[o][g] EXCEPT !.own = "foreign"],
                    [dest[o][g] EXCEPT !.st = "gone"]} : dest' = [dest EXCEPT ![o][g] = e]
    BY DEF Touch
  <2>3. e.intent = dest[o][g].intent /\ (e.own = "ours" => dest[o][g].own = "ours") /\ e.st \in {"live", "gone"}
    BY <2>1, <2>2 DEF Event
  <2>4. \A d \in Occurrences, h \in Gens : dest'[d][h] = IF d = o /\ h = g THEN e ELSE dest[d][h]
    BY <1>0, <2>2
  <2> QED BY <2>1, <2>3, <2>4
<1>3. Blank' /\ Ids'
  <2>1. Blank'
    BY <1>1 DEF Agreed, Blank
  <2>2. ASSUME NEW d \in Occurrences
        PROVE  /\ \A h \in Gens : h < row[d].gen => dest'[d][h].st = "gone"
               /\ \A h \in Gens : h > row[d].gen + 1 => dest'[d][h].st = "absent"
               /\ \A h \in Gens : h = row[d].gen + 1 /\ dest'[d][h].st # "absent" => dest'[d][row[d].gen].st = "gone"
               /\ row[d].id = "set" => dest'[d][row[d].gen].st # "absent"
    <3>1. /\ \A h \in Gens : h < row[d].gen => dest[d][h].st = "gone"
          /\ \A h \in Gens : h > row[d].gen + 1 => dest[d][h].st = "absent"
          /\ \A h \in Gens : h = row[d].gen + 1 /\ dest[d][h].st # "absent" => dest[d][row[d].gen].st = "gone"
          /\ row[d].id = "set" => dest[d][row[d].gen].st # "absent"
      BY DEF Agreed, Ids, Here
    <3>2. row[d].gen \in Gens
      BY <1>0
    <3> QED BY <1>2, <3>1, <3>2
  <2>3. Ids'
    BY <1>1, <2>2 DEF Ids, Here
  <2> QED BY <2>1, <2>3
<1>4. Looks'
  BY <1>0, <1>1, <1>2 DEF Agreed, Looks, Here, Locked
<1>5. Numbered'
  BY <1>1, <1>2 DEF Agreed, Numbered
<1>6. ConvergedIsTrue'
  BY <1>1 DEF ConvergedIsTrue
<1>7. Known'
  BY <1>1, <1>2 DEF Agreed, Known, Live
<1> QED BY <1>3, <1>4, <1>5, <1>6, <1>7 DEF Agreed

\* Every step keeps rows, worker and calendar in agreement.
LEMMA NextAgreed == Base /\ Base' /\ Agreed /\ [Next]_vars => Agreed'
<1> SUFFICES ASSUME Base, Base', Agreed, [Next]_vars PROVE Agreed'
  OBVIOUS
<1>0. had \in [Kinds -> Nat]
  BY DEF Base, TypeOK
<1>1. had' = had => \A k \in Kinds : had'[k] >= had[k]
  BY <1>0
<1>2. CASE Preview \/ Read \/ Pause \/ Resume \/ Tick \/ Outage \/ Restored \/ (\E s \in Slots : Availability(s))
           \/ (\E j \in jobs : Ignore(j[1], j[2]) \/ Unauthorised(j[1], j[2])) \/ UNCHANGED vars
  <2>1. UNCHANGED <<row, dest, worker>>
    BY <1>2 DEF Preview, Read, Pause, Resume, Tick, Outage, Restored, Availability, Ignore,
                Unauthorised, db, vars
  <2>2. had' = had \/ Trouble("pause") \/ Trouble("outage")
    BY <1>2 DEF Preview, Read, Pause, Resume, Tick, Outage, Restored, Availability, Ignore,
                Unauthorised, vars
  <2>3. \A k \in Kinds : had'[k] >= had[k]
    BY <1>0, <1>1, <2>2, TroubleCounts DEF Kinds
  <2> QED BY <2>1, <2>3, StillAgreed
<1> QED BY <1>2, PlanAgreed, ApplyAgreed, LookUpAgreed, TouchAgreed DEF Next, Apply, Surroundings

-----------------------------------------------------------------------------
(* Passes, and the end of a rule.                                          *)

\* Inputs stay in the past.
LEMMA NextPast == Base /\ Base' /\ Past /\ [Next]_vars => Past'
<1> SUFFICES ASSUME Base, Base', Past, [Next]_vars PROVE Past'
  OBVIOUS
<1>1. now \in Nat /\ now' \in Nat /\ recon \subseteq Inputs /\ \A in \in recon : in.at \in Nat
  BY EndIsNat DEF Base, TypeOK, Times, Inputs
<1>2. Tick => Past'
  BY <1>1 DEF Tick, Past
<1>3. Read => Past'
  BY <1>1 DEF Read, Past
<1>4. ASSUME NEW in \in recon, Commit(in)
      PROVE  Past'
  BY <1>4 DEF Commit, Past
<1>5. UNCHANGED <<now, recon>> => Past'
  BY DEF Past
<1>6. Preview \/ Activate \/ Decide \/ Pause \/ Resume \/ Remove \/ Outage \/ Restored \/ UNCHANGED vars
        => UNCHANGED <<now, recon>>
  BY DEF Preview, Activate, Decide, Accept, Drop, Pause, Resume, Remove, Outage, Restored, vars
<1>7. (\/ Apply \/ \E kind \in Faults : Fault(kind)
       \/ \E j \in jobs : Unreached(j[1], j[2]) \/ Unauthorised(j[1], j[2]))
        => UNCHANGED <<now, recon>>
  <2> DEFINE Same0 == UNCHANGED <<now, recon>>
  <2>1. \A r, b : Outcome(r, b) => Same0
    BY DEF Outcome, Rest
  <2>2. \A j \in jobs : (\/ Ignore(j[1], j[2]) \/ Unavailable(j[1], j[2]) \/ LookUp(j[1], j[2])
                         \/ Unreached(j[1], j[2]) \/ Unauthorised(j[1], j[2])) => Same0
    BY DEF Ignore, Unavailable, LookUp, Unreached, Unauthorised, Rest
  <2> HIDE DEF Same0
  <2>3. NotOurs \/ Delete \/ Recognise \/ TooLate \/ Write \/ Missing \/ Precondition => Same0
    BY <2>1 DEF NotOurs, Delete, Recognise, TooLate, Write, Missing, Precondition
  <2>4. \A kind \in Faults : Fault(kind) => Same0
    BY <2>1 DEF Fault
  <2> QED BY <2>2, <2>3, <2>4 DEF Apply, Same0
<1>8. (\E s \in Slots : Availability(s)) \/ (\E o \in Occurrences, g \in Gens : Touch(o, g))
        => UNCHANGED <<now, recon>>
  BY DEF Availability, Touch
<1> QED BY <1>2, <1>3, <1>4, <1>5, <1>6, <1>7, <1>8 DEF Next, Surroundings

\* A rule that is going has only ended rows and rows to delete.
LEMMA NextEnding == Base /\ Base' /\ Ending /\ [Next]_vars => Ending'
<1> SUFFICES ASSUME Base, Base', Ending, [Next]_vars PROVE Ending'
  OBVIOUS
<1> DEFINE Ended0 == {"absent", "deleted", "skipped"}
<1>0. /\ row \in [Occurrences -> Row] /\ jobs \subseteq Occurrences \X Intents /\ worker.occ \in Occurrences
      /\ Locked => row[worker.occ].st \in Underway
      /\ Mine = row[worker.occ]
  BY DEF Base, TypeOK, Worker, Mine
<1>1. UNCHANGED <<rule, row>> => Ending'
  BY DEF Ending
<1>2. rule' \notin {"deleting", "deleted"} => Ending'
  BY DEF Ending
<1>3. ASSUME rule' = rule, NEW o \in Occurrences, row[o].st = "pending_delete",
             row'[o].st = "pending_delete", \A d \in Occurrences \ {o} : row'[d] = row[d]
      PROVE  Ending'
  BY <1>3 DEF Ending
<1>4. rule \in {"deleting", "deleted"} => \A o \in Occurrences : ~Pending(row[o])
  BY DEF Ending, Pending
<1>5. (\/ Preview \/ Read \/ Surroundings \/ UNCHANGED vars
       \/ \E j \in jobs : Ignore(j[1], j[2]) \/ LookUp(j[1], j[2]) \/ Unauthorised(j[1], j[2]))
        => UNCHANGED <<rule, row>>
  BY DEF Preview, Read, Surroundings, Tick, Outage, Restored, Availability, Touch, Ignore, LookUp,
         Unauthorised, db, vars
<1>6. Activate \/ Pause \/ Resume => rule' \notin {"deleting", "deleted"}
  BY DEF Activate, Pause, Resume
<1>7. ASSUME NEW in \in recon, Commit(in)
      PROVE  Ending'
  BY <1>1, <1>2, <1>7 DEF Commit
<1>8. ASSUME NEW s \in sugs, Accept(s) \/ Drop(s, "dismissed") \/ Drop(s, "expired")
      PROVE  Ending'
  BY <1>1, <1>2, <1>8 DEF Accept, Drop
<1>9. CASE Remove
  <2> DEFINE Clean == {o \in Occurrences : ToCleanUp(row[o])}
  <2>1. /\ row' = [o \in Occurrences |->
               IF o \in Clean
               THEN [row[o] EXCEPT !.st = "pending_delete", !.intent = @ + 1, !.want = None,
                                   !.err = "none", !.skip = "no"]
               ELSE IF row[o].st = "absent" THEN row[o]
               ELSE [row[o] EXCEPT !.st = "deleted", !.want = None, !.skip = "no"]]
        /\ rule' = IF Clean = {} THEN "deleted" ELSE "deleting"
    BY <1>9, Zenon DEF Remove
  <2>2. \A r \in Row : /\ [r EXCEPT !.st = "pending_delete", !.intent = @ + 1, !.want = None,
                                    !.err = "none", !.skip = "no"].st = "pending_delete"
                       /\ [r EXCEPT !.st = "deleted", !.want = None, !.skip = "no"].st = "deleted"
    BY DEF Row
  <2> HIDE DEF Clean
  <2>3. \A o \in Occurrences : IF o \in Clean THEN row'[o].st = "pending_delete"
                               ELSE row'[o].st \in {"absent", "deleted"}
    BY <1>0, <2>1, <2>2
  <2> QED BY <2>1, <2>3 DEF Ending
<1>10. ASSUME NEW j \in jobs, Unavailable(j[1], j[2]) \/ Unreached(j[1], j[2])
       PROVE  Ending'
  <2>1. j[1] \in Occurrences /\ rule' = rule /\ Due(j[1], j[2]) /\ \A d \in Occurrences \ {j[1]} : row'[d] = row[d]
    BY <1>0, <1>10 DEF Unavailable, Unreached
  <2>2. rule \in {"deleting", "deleted"} => row[j[1]].st = "pending_delete"
    BY <2>1 DEF Due
  <2>3. row[j[1]].st = "pending_delete" => row'[j[1]].st = "pending_delete"
    <3>1. row[j[1]] \in Row
      BY <1>0, <2>1
    <3>2. row'[j[1]] \in {Held(row[j[1]], "target_unavailable"), [row[j[1]] EXCEPT !.err = "other"]}
      BY <1>0, <1>10, <2>1 DEF Unavailable, Unreached
    <3> QED BY <3>1, <3>2 DEF Held, Row
  <2> QED BY <1>2, <1>3, <2>1, <2>2, <2>3
<1>11. ASSUME NEW r, NEW b, Outcome(r, b), Locked, rule' = rule, Mine.st = "pending_delete" => r.st = "pending_delete"
       PROVE  Ending'
  <2>1. row'[worker.occ] = r /\ \A d \in Occurrences \ {worker.occ} : row'[d] = row[d]
    BY <1>0, <1>11 DEF Outcome
  <2>2. rule \in {"deleting", "deleted"} => Mine.st = "pending_delete"
    BY <1>0, <1>4, <1>11 DEF Underway, Pending
  <2> QED BY <1>0, <1>2, <1>3, <1>11, <2>1, <2>2
<1>12. /\ \A e : Mine.st = "pending_delete" => Held(Mine, e).st = "pending_delete" /\ [Mine EXCEPT !.err = e].st = "pending_delete"
  BY <1>0 DEF Held, Row
<1>13. CASE NotOurs
  BY <1>11, <1>12, <1>13 DEF NotOurs
<1>14. CASE Recognise \/ TooLate \/ Write \/ Missing
  <2>1. rule' = rule /\ Pending(Mine) /\ Locked
    BY <1>14 DEF Recognise, TooLate, Write, Missing, ToBeWritten
  <2> QED BY <1>0, <1>2, <1>4, <2>1
<1>15. CASE Precondition
  <2>1. Locked /\ rule' = rule
    BY <1>15 DEF Precondition, ToBeWritten
  <2> DEFINE m == IF Pending(Mine) THEN Replaced(Mine) ELSE Mine
  <2>2. Outcome(Held(m, "other"), Mine.st = "pending_delete")
    BY <1>15 DEF Precondition
  <2>3. Mine.st = "pending_delete" => Held(m, "other").st = "pending_delete"
    BY <1>12 DEF Pending
  <2> HIDE DEF m
  <2> QED BY <1>11, <2>1, <2>2, <2>3
<1>16. ASSUME NEW kind \in Faults, Fault(kind)
       PROVE  Ending'
  <2>1. Locked /\ rule' = rule
    BY <1>16 DEF Fault
  <2> DEFINE m == IF Pending(Mine) THEN Replaced(Mine) ELSE Mine
             r == IF kind = "died" THEN Mine ELSE [m EXCEPT !.err = "other"]
  <2>2. Outcome(r, kind # "rejected")
    BY <1>16 DEF Fault
  <2>3. Mine.st = "pending_delete" => r.st = "pending_delete"
    BY <1>12 DEF Pending
  <2> HIDE DEF r
  <2> QED BY <1>11, <2>1, <2>2, <2>3
<1>17. CASE Delete
  <2>1. \A d \in Occurrences \ {worker.occ} : row'[d] = row[d]
    BY <1>0, <1>17 DEF Delete, Outcome
  <2>2. row'[worker.occ].st \in {"skipped", "deleted"}
    <3>1. row'[worker.occ] = [Mine EXCEPT !.st = IF Mine.skip = "yes" THEN "skipped" ELSE "deleted",
                                          !.id = "none", !.err = "none"]
      BY <1>0, <1>17 DEF Delete, Outcome
    <3> QED BY <1>0, <3>1 DEF Row
  <2>3. rule' = RuleAfter(worker.occ)
    BY <1>17 DEF Delete
  <2>4. CASE rule' = rule
    BY <2>1, <2>2, <2>4 DEF Ending
  <2>5. CASE rule = "deleting" /\ rule' = "deleted" /\ \A d \in Occurrences \ {worker.occ} : row[d].st # "pending_delete"
    BY <2>1, <2>2, <2>5 DEF Ending
  <2> QED BY <2>3, <2>4, <2>5 DEF RuleAfter
<1> QED BY <1>1, <1>2, <1>5, <1>6, <1>7, <1>8, <1>9, <1>10, <1>13, <1>14, <1>15, <1>16, <1>17
        DEF Next, Apply, Decide

-----------------------------------------------------------------------------
(* The theorems.                                                           *)

\* A rule that nobody has previewed has no events.
LEMMA InitInv == Init => IInv
<1> SUFFICES ASSUME Init PROVE IInv
  OBVIOUS
<1>1. Base
  BY InitBase
<1>2. /\ \A o \in Occurrences : row[o] = NoRow /\ \A g \in Gens : dest[o][g] = NoEvent
      /\ ~Locked /\ recon = {} /\ rule = "none" /\ 1 \in Gens
  BY PlanningAssumption DEF Init, Locked, Resting, Gens
<1>3. \A o \in Occurrences : Here(o) = NoEvent
  BY <1>2 DEF Here, NoRow
<1>4. Blank /\ Past /\ Looks /\ Ending
  BY <1>2 DEF Blank, Past, Looks, Ending, NoRow
<1>5. Ids /\ Numbered
  BY <1>2, <1>3, PlanningAssumption DEF Ids, Numbered, NoRow, NoEvent, Gens
<1>6. ConvergedIsTrue /\ Known
  BY <1>2 DEF ConvergedIsTrue, Known, Live, NoRow, NoEvent
<1> QED BY <1>1, <1>4, <1>5, <1>6 DEF IInv

\* Rows, passes, worker, calendar and rule stay in agreement.
THEOREM Invariance == Spec => []IInv
<1>1. IInv <=> Base /\ Past /\ Agreed /\ Ending
  BY DEF IInv, Agreed
<1>2. IInv /\ [Next]_vars => IInv'
  <2> SUFFICES ASSUME IInv, [Next]_vars PROVE IInv'
    OBVIOUS
  <2>1. Base' /\ Past' /\ Agreed' /\ Ending'
    BY <1>1, NextBase, NextPast, NextAgreed, NextEnding
  <2> QED BY <2>1 DEF IInv, Agreed
<1> QED BY InitInv, <1>2, PTL DEF Spec

\* OneMeeting: an occurrence has at most one event on the calendar, however often events
\* were lost, recreated and retried: a new id is taken only once the last one is used up.
THEOREM OneMeetingHolds == Spec => []OneMeeting
<1>1. IInv => OneMeeting
  <2> SUFFICES ASSUME IInv, NEW o \in Occurrences
               PROVE  Cardinality({g \in Gens : Live(o, g)}) <= 1
    BY DEF OneMeeting
  <2> DEFINE S == {g \in Gens : Live(o, g)}
  <2>1. \A g, h \in S : g = h
    <3>0. row[o].gen \in Gens
      BY DEF IInv, Base, TypeOK, Row
    <3>1. ASSUME NEW g \in Gens, Live(o, g)
          PROVE  /\ g = row[o].gen \/ g = row[o].gen + 1
                 /\ g = row[o].gen + 1 => Here(o).st = "gone"
      <4>1. ~(g < row[o].gen) /\ ~(g > row[o].gen + 1)
        BY <3>1 DEF IInv, Ids, Live
      <4>2. g = row[o].gen \/ g = row[o].gen + 1
        BY <3>0, <4>1, GenOrder
      <4> QED BY <3>1, <4>2 DEF IInv, Ids, Live
    <3>2. Live(o, row[o].gen) => Here(o).st # "gone"
      BY DEF Live, Here
    <3> QED BY <3>1, <3>2
  <2>2. CASE S = {}
    BY <2>2, FS_EmptySet
  <2>3. ASSUME NEW g \in S
        PROVE  Cardinality(S) <= 1
    <3>1. S = {g}
      BY <2>1
    <3>2. Cardinality({g}) = 1
      BY FS_Singleton
    <3> HIDE DEF S
    <3> QED BY <3>1, <3>2
  <2> QED BY <2>2, <2>3
<1> QED BY Invariance, <1>1, PTL

\* ConvergedIsTrue: a row that reports "converged" has its event on the calendar at the
\* time it says and with its intent, unless somebody changed it there.
THEOREM ConvergedHolds == Spec => []ConvergedIsTrue
<1>1. IInv => ConvergedIsTrue
  BY DEF IInv
<1> QED BY Invariance, <1>1, PTL

\* RemovalCleansUp: when a rule is gone and every call was answered, the only events left
\* are those whose rows were given up.
THEOREM RemovalHolds == Spec => []RemovalCleansUp
<1>1. IInv => RemovalCleansUp
  <2> SUFFICES ASSUME IInv, rule = "deleted", Answered, NEW o \in Occurrences, NEW g \in Gens, Live(o, g)
               PROVE  g = row[o].gen /\ row[o].st = "deleted" /\ row[o].id = "set"
    BY DEF RemovalCleansUp
  <2>1. g = row[o].gen /\ row[o].id = "set"
    BY DEF IInv, Known
  <2>2. row[o].st \in {"absent", "deleted", "skipped"}
    BY DEF IInv, Ending
  <2>3. row[o].st # "absent" /\ row[o].st # "skipped"
    BY <2>1 DEF IInv, Blank, NoRow
  <2> QED BY <2>1, <2>2, <2>3
<1> QED BY Invariance, <1>1, PTL

\* GivenUpLate: as long as every call is answered, removal, the horizon and apply() give a
\* row up before its meeting only when the time of a pending move is over.
THEOREM GivenUpHolds == Spec => GivenUpLate
<1>1. ASSUME IInv, IInv', [Next]_vars, NEW o \in Occurrences,
             Answered, row[o].st # "deleted", row'[o].st = "deleted"
      PROVE  (~Coming(o))' \/ Ended(row[o].want, now)
  <2>0. /\ row \in [Occurrences -> Row] /\ jobs \subseteq Occurrences \X Intents /\ worker.occ \in Occurrences
        /\ Mine = row[worker.occ] /\ recon \subseteq Inputs /\ sugs \subseteq Suggestion /\ now \in Nat
        /\ row[o] \in Row
    BY <1>1, EndIsNat DEF IInv, Base, TypeOK, Worker, Mine, Times
  <2>1. ASSUME row'[o].id = "none", Answered'
        PROVE  (~Coming(o))'
    BY <1>1, <2>1 DEF IInv, Known, Coming
  <2>2. row' = row => FALSE
    BY <1>1
  <2>3. Preview \/ Read \/ Pause \/ Resume \/ Surroundings \/ UNCHANGED vars
           \/ (\E j \in jobs : Ignore(j[1], j[2]) \/ LookUp(j[1], j[2]) \/ Unauthorised(j[1], j[2]))
        => row' = row
    BY DEF Preview, Read, Pause, Resume, Surroundings, Tick, Outage, Restored, Availability, Touch, Ignore,
           LookUp, Unauthorised, db, vars
  <2>4. ~Activate
    <3>1. ASSUME Activate PROVE row'[o].st # "deleted"
      BY <3>1 DEF Activate, Fresh, NoRow
    <3> QED BY <1>1, <3>1
  <2>5. ASSUME NEW in \in recon, Commit(in)
        PROVE  (~Coming(o))' \/ Ended(row[o].want, now)
    <3>1. row'[o] = Reconciled(o, in) /\ had' = had
      BY <2>2, <2>5 DEF Commit
    <3>2. in.at <= now /\ in.at \in Nat /\ in \in Inputs
      BY <1>1, <2>0, EndIsNat DEF IInv, Past, Inputs, Times
    <3>3. row'[o].id = row[o].id
      BY <1>1, <3>1, <3>2, ReconciledKeeps DEF IInv, Keeps
    <3>4. o \notin Horizon(in.at) => row'[o].id = "none" \/ Ended(row[o].want, in.at)
      <4>1. o \notin Horizon(in.at) => row'[o] = Left(row[o], in.at)
        BY <3>1 DEF Reconciled
      <4> QED BY <1>1, <2>0, <3>3, <4>1 DEF Left, Row
    <3>5. o \in Horizon(in.at) => FALSE
      <4>1. \A p : Fresh(p).st # "deleted"
        BY DEF Fresh, NoRow
      <4>2. \A p : Updated(row[o], p, in.at).st # "deleted"
        BY <1>1, <2>0 DEF Updated, Reopened, Moved, ToWrite, Row
      <4> QED BY <1>1, <3>1, <4>1, <4>2 DEF Reconciled
    <3>6. Ended(row[o].want, in.at) => Ended(row[o].want, now)
      <4>1. row[o].want \in Nat
        BY <2>0, EndIsNat DEF Row, Slots, None
      <4> QED BY <2>0, <3>2, <4>1 DEF Ended
    <3>7. Answered'
      BY <1>1, <3>1 DEF Answered
    <3> QED BY <2>1, <3>4, <3>5, <3>6, <3>7
  <2>6. ASSUME NEW s \in sugs, Accept(s) \/ Drop(s, "dismissed") \/ Drop(s, "expired")
        PROVE  FALSE
    <3>1. Accept(s)
      BY <2>2, <2>6 DEF Drop
    <3>2. s.occ \in Occurrences /\ row[s.occ] \in Row
      BY <2>0 DEF Suggestion
    <3>3. row'[s.occ].st # "deleted" /\ \A d \in Occurrences \ {s.occ} : row'[d] = row[d]
      BY <2>0, <3>1, <3>2 DEF Accept, ToWrite, Row
    <3> QED BY <1>1, <3>3
  <2>7. ASSUME Remove
        PROVE  (~Coming(o))' \/ Ended(row[o].want, now)
    <3>1. ~ToCleanUp(row[o]) /\ row'[o] = [row[o] EXCEPT !.st = "deleted", !.want = None, !.skip = "no"] /\ had' = had
      <4>1. /\ had' = had
            /\ row'[o] = IF ToCleanUp(row[o])
                         THEN [row[o] EXCEPT !.st = "pending_delete", !.intent = @ + 1, !.want = None,
                                             !.err = "none", !.skip = "no"]
                         ELSE IF row[o].st = "absent" THEN row[o]
                         ELSE [row[o] EXCEPT !.st = "deleted", !.want = None, !.skip = "no"]
        BY <2>7 DEF Remove
      <4>2. [row[o] EXCEPT !.st = "pending_delete", !.intent = @ + 1, !.want = None,
                           !.err = "none", !.skip = "no"].st = "pending_delete"
        BY <2>0 DEF Row
      <4> QED BY <1>1, <4>1, <4>2
    <3>2. row'[o].id = row[o].id /\ row[o].id \in {"none", "set"}
      BY <2>0, <3>1 DEF Row
    <3>3. row[o].id = "set" => row[o].want # None
      <4>1. RowCheck(row[o]) /\ row[o].st # "pending_delete"
        BY <1>1, <3>1 DEF IInv, Base, TypeOK, ToCleanUp
      <4>2. row[o].id = "set" => row[o].st \notin {"absent", "unmet", "skipped"}
        BY <1>1 DEF IInv, Blank, NoRow
      <4> QED BY <1>1, <4>1, <4>2 DEF RowCheck
    <3>4. row[o].id = "set" => Ended(row[o].want, now)
      BY <3>1, <3>3 DEF ToCleanUp
    <3>5. Answered'
      BY <1>1, <3>1 DEF Answered
    <3> QED BY <2>1, <3>2, <3>4, <3>5
  <2>8. ASSUME NEW j \in jobs, Unavailable(j[1], j[2]) \/ Unreached(j[1], j[2])
        PROVE  FALSE
    <3>1. j[1] \in Occurrences /\ row[j[1]] \in Row /\ \A d \in Occurrences \ {j[1]} : row'[d] = row[d]
      BY <2>0, <2>8 DEF Unavailable, Unreached
    <3>2. row'[j[1]] \in {Held(row[j[1]], "target_unavailable"), [row[j[1]] EXCEPT !.err = "other"]}
      BY <2>0, <2>8, <3>1 DEF Unavailable, Unreached
    <3>3. row'[j[1]].st = "deleted" => row[j[1]].st = "deleted"
      BY <3>1, <3>2 DEF Held, Row
    <3> QED BY <1>1, <3>1, <3>3
  <2>9. ASSUME NEW r, NEW b, Outcome(r, b), r.st # "deleted"
        PROVE  FALSE
    BY <1>1, <2>0, <2>9 DEF Outcome
  <2>10. ASSUME NotOurs \/ Recognise \/ TooLate \/ Write \/ Missing \/ Precondition PROVE FALSE
    <3>1. Locked
      BY <2>10 DEF NotOurs, Recognise, TooLate, Write, Missing, Precondition, ToBeWritten
    <3>2. Mine \in Row /\ Mine.st \in Underway /\ Replaced(Mine).st \in Underway
      BY <1>1, <2>0, <3>1, WorkTyped DEF IInv, Base
    <3>3. \A r, e : r.st # "deleted" => Held(r, e).st # "deleted"
      BY DEF Held
    <3>4. [Mine EXCEPT !.st = "converged", !.id = "set", !.err = "none"].st # "deleted"
      BY <3>2 DEF Row
    <3>5. Write => [Replaced(Mine) EXCEPT !.st = "converged", !.id = "set", !.err = "none"].st # "deleted"
      BY <1>1, WorkTyped DEF Write, ToBeWritten, IInv, Base, Row
    <3>6. Mine.st # "deleted" /\ Replaced(Mine).st # "deleted"
      BY <3>2 DEF Underway
    <3>7. [Mine EXCEPT !.err = "other"].st # "deleted"
      BY <3>2, <3>6 DEF Row
    <3> QED BY <2>9, <2>10, <3>3, <3>4, <3>5, <3>6, <3>7
            DEF NotOurs, Recognise, TooLate, Write, Missing, Precondition
  <2>11. ASSUME NEW kind \in Faults, Fault(kind) PROVE FALSE
    <3> DEFINE m == IF Pending(Mine) THEN Replaced(Mine) ELSE Mine
               r == IF kind = "died" THEN Mine ELSE [m EXCEPT !.err = "other"]
    <3>1. Outcome(r, kind # "rejected") /\ Locked /\ (Pending(Mine) => Replaced(Mine).gen \in Gens)
      BY <2>11 DEF Fault, ToBeWritten, Pending
    <3>2. Mine \in Row /\ m \in Row /\ Mine.st \in Underway /\ m.st \in Underway
      BY <1>1, <2>0, <3>1, WorkTyped DEF IInv, Base
    <3>3. r.st # "deleted"
      <4> HIDE DEF m
      <4> QED BY <3>2 DEF Row, Underway
    <3> HIDE DEF r
    <3> QED BY <2>9, <3>1, <3>3
  <2>12. ASSUME Delete
         PROVE  (~Coming(o))'
    <3> DEFINE q == [Mine EXCEPT !.st = IF Mine.skip = "yes" THEN "skipped" ELSE "deleted",
                                 !.id = "none", !.err = "none"]
    <3>1. Outcome(q, FALSE) /\ had' = had
      BY <2>12 DEF Delete
    <3>2. q.id = "none"
      BY <2>0 DEF Row
    <3> HIDE DEF q
    <3>3. row'[o] = q
      BY <1>1, <2>0, <3>1 DEF Outcome
    <3>4. Answered'
      BY <1>1, <3>1 DEF Answered
    <3> QED BY <2>1, <3>2, <3>3, <3>4
  <2> QED BY <1>1, <2>2, <2>3, <2>4, <2>5, <2>6, <2>7, <2>8, <2>10, <2>11, <2>12 DEF Next, Apply, Decide
<1>2. IInv /\ IInv' /\ [Next]_vars =>
        [\A o \in Occurrences :
            Answered /\ row[o].st # "deleted" /\ row'[o].st = "deleted" =>
                (~Coming(o))' \/ Ended(row[o].want, now)]_vars
  BY <1>1
<1> QED BY Invariance, <1>2, PTL DEF Spec, GivenUpLate
=============================================================================
