---------------------------- MODULE JobContract ----------------------------
(***************************************************************************)
(* What the scheduled-job table promises the rest of the server, with no   *)
(* worker, lease, clock or heartbeat in sight: a job is opened under a     *)
(* deduplication key that no other open job has, it is closed exactly once *)
(* (as succeeded or as dead) and is then only ever forgotten.              *)
(***************************************************************************)
CONSTANTS Jobs,   \* row identities
          Keys,   \* deduplication keys
          NoKey   \* the key of a row that does not exist

VARIABLES phase,  \* phase[j]: "none", "open", "succeeded" or "dead"
          under   \* under[j]: the key job j was opened under

vars == <<phase, under>>

Init ==
    /\ phase = [j \in Jobs |-> "none"]
    /\ under = [j \in Jobs |-> NoKey]

Open(j, k) ==
    /\ phase[j] = "none"
    /\ \A i \in Jobs : ~(phase[i] = "open" /\ under[i] = k)
    /\ phase' = [phase EXCEPT ![j] = "open"]
    /\ under' = [under EXCEPT ![j] = k]

Close(j, verdict) ==
    /\ phase[j] = "open"
    /\ phase' = [phase EXCEPT ![j] = verdict]
    /\ UNCHANGED under

Forget(j) ==
    /\ phase[j] \in {"succeeded", "dead"}
    /\ phase' = [phase EXCEPT ![j] = "none"]
    /\ under' = [under EXCEPT ![j] = NoKey]

Next ==
    \E j \in Jobs :
        \/ \E k \in Keys : Open(j, k)
        \/ \E verdict \in {"succeeded", "dead"} : Close(j, verdict)
        \/ Forget(j)

Spec == Init /\ [][Next]_vars
=============================================================================
