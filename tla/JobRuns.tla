------------------------------- MODULE JobRuns -------------------------------
(***************************************************************************)
(* What the job queue of the Go services promises to the handlers of jobs  *)
(* (src/reference/go-v2/internal/jobs/jobs.go): a job may be begun several *)
(* times, but it is in the hands of one worker at a time, and a settled    *)
(* job is not begun again.  A worker that outlasts its lease is not known  *)
(* to be alive: each lease that ends in somebody's hands lets one worker   *)
(* more in, and the late one may still settle the job or put it back.      *)
(***************************************************************************)
EXTENDS Naturals, FiniteSets

CONSTANTS Jobs, Workers

VARIABLES status, \* "absent", "pending" or "settled"
          hands,  \* the workers that execute each job
          late    \* how many leases of it ended in somebody's hands

Init ==
    /\ status = [j \in Jobs |-> "absent"]
    /\ hands = [j \in Jobs |-> {}]
    /\ late = [j \in Jobs |-> 0]

Add(j) ==
    /\ status[j] = "absent"
    /\ status' = [status EXCEPT ![j] = "pending"]
    /\ UNCHANGED <<hands, late>>

\* A worker that executes no job begins one that nobody has, but for those that
\* outlasted their leases.
Begin(w, j) ==
    /\ status[j] = "pending" /\ Cardinality(hands[j]) <= late[j]
    /\ \A i \in Jobs : w \notin hands[i]
    /\ hands' = [hands EXCEPT ![j] = @ \cup {w}]
    /\ UNCHANGED <<status, late>>

\* The leases of these jobs end while workers have them.
Outlast(S) ==
    /\ \A j \in S : status[j] = "pending" /\ hands[j] # {}
    /\ late' = [j \in Jobs |-> IF j \in S THEN late[j] + 1 ELSE late[j]]
    /\ UNCHANGED <<status, hands>>

\* The worker settles the job, puts it back, or is lost and leaves it as it is.
Leave(w, j) ==
    /\ w \in hands[j]
    /\ hands' = [hands EXCEPT ![j] = @ \ {w}]
    /\ \E s \in {status[j], "pending", "settled"} : status' = [status EXCEPT ![j] = s]
    /\ UNCHANGED late

Next ==
    \/ \E j \in Jobs : Add(j) \/ \E w \in Workers : Begin(w, j) \/ Leave(w, j)
    \/ \E S \in SUBSET Jobs : Outlast(S)

Spec == Init /\ [][Next]_<<status, hands, late>>

\* A job has one worker more at most than leases that were outlasted, and none
\* more unless it is pending.
OneHand ==
    \A j \in Jobs :
        Cardinality(hands[j]) <= IF status[j] = "pending" THEN late[j] + 1 ELSE late[j]
=============================================================================
