------------------------------ MODULE JobQueue ------------------------------
(***************************************************************************)
(* The durable job queue of the Go services                                *)
(* (src/reference/go-v2/internal/jobs/jobs.go): producers enqueue rows,    *)
(* the goroutines of the runners claim, execute and record them, and a     *)
(* rescue returns the rows whose worker died.                              *)
(*                                                                         *)
(* Time is counted in ticks while a row is locked.  Nothing is assumed of  *)
(* the pace of a worker: the deadline of a handler's context does not stop *)
(* the handler, and the write of its result has none.  A worker may be     *)
(* alive when the rescue takes its row, and its late result is written     *)
(* over whatever the row has become.  Kinds, queues and priorities choose  *)
(* among the rows that are due; here any choice is possible.               *)
(***************************************************************************)
EXTENDS Naturals, FiniteSets

CONSTANTS Workers,     \* the goroutines of all runners
          Keys,        \* unique keys
          None,        \* no unique key
          MaxAttempts, \* max_attempts of a job (8)
          Timeout,     \* the deadline of a handler (10 minutes)
          Grace,       \* what the rescue adds to it (5 minutes)
          MaxJobs,     \* bound: rows ever inserted
          MaxLosses,   \* bound: runs lost by a crash or a failed write
          MaxSnoozes,  \* bound: once a job was snoozed so often, none is
          MaxLate      \* bound: once a job's workers outlasted so many leases,
                       \* none does

ASSUME JobQueueAssumption ==
    /\ IsFiniteSet(Workers)
    /\ None \notin Keys
    /\ MaxAttempts \in Nat \ {0}
    /\ Timeout \in Nat
    /\ Grace \in Nat
    /\ MaxJobs \in Nat
    /\ MaxLosses \in Nat
    /\ MaxSnoozes \in Nat
    /\ MaxLate \in Nat

Jobs == 1 .. MaxJobs

VARIABLES
    state,   \* state of each row, "none" before it is inserted
    key,     \* unique_key
    attempt, \* attempt
    due,     \* the available rows whose run_at has passed
    age,     \* ticks since locked_at, of a running row
    runs,    \* history: how often each job was claimed
    snoozes, \* history: how often it was snoozed
    retries, \* history: how often it was put back after an error
    rescues, \* history: how often it was rescued
    late,    \* history: how often its lease ended while a worker had it
    losses,  \* history: runs that ended without a result
    work     \* the job of each worker, 0 for none, and its Attempt as claimed

row == <<state, key, attempt, due, age>>
history == <<runs, snoozes, retries, rescues, late, losses>>
vars == <<row, history, work>>

States == {"none", "available", "running", "completed", "failed", "pruned"}
Finished == {"completed", "failed"}

Idle == [job |-> 0, attempt |-> 0]
Work == {Idle} \cup [job : Jobs, attempt : Nat]

Lease == Timeout + Grace

TypeOK ==
    /\ state \in [Jobs -> States]
    /\ key \in [Jobs -> Keys \cup {None}]
    /\ attempt \in [Jobs -> Nat]
    /\ due \subseteq Jobs
    /\ age \in [Jobs -> 0 .. Lease + 1]
    /\ runs \in [Jobs -> Nat]
    /\ snoozes \in [Jobs -> Nat]
    /\ retries \in [Jobs -> Nat]
    /\ rescues \in [Jobs -> Nat]
    /\ late \in [Jobs -> Nat]
    /\ losses \in Nat
    /\ work \in [Workers -> Work]

Init ==
    /\ state = [j \in Jobs |-> "none"]
    /\ key = [j \in Jobs |-> None]
    /\ attempt = [j \in Jobs |-> 0]
    /\ due = {}
    /\ age = [j \in Jobs |-> 0]
    /\ runs = [j \in Jobs |-> 0]
    /\ snoozes = [j \in Jobs |-> 0]
    /\ retries = [j \in Jobs |-> 0]
    /\ rescues = [j \in Jobs |-> 0]
    /\ late = [j \in Jobs |-> 0]
    /\ losses = 0
    /\ work = [w \in Workers |-> Idle]

-----------------------------------------------------------------------------
(* Producers *)

Active(j) == state[j] \in {"available", "running"}

\* Mutation: only jobs that wait for a worker keep their key.
EnqueueWhileRunning(k) ==
    /\ \A i \in Jobs : key[i] = k => state[i] # "available"
    /\ \E j \in Jobs :
        /\ state[j] = "none" /\ \A i \in Jobs : i < j => state[i] # "none"
        /\ state' = [state EXCEPT ![j] = "available"]
        /\ key' = [key EXCEPT ![j] = k]
        /\ due' = due \cup {j}
    /\ UNCHANGED <<attempt, age, history, work>>

\* The row appears with the producer's transaction.  With a key that a pending
\* or running job has, nothing is inserted.
Enqueue(k) ==
    /\ k # None => \A i \in Jobs : key[i] = k => ~Active(i)
    /\ \E j \in Jobs :
        /\ state[j] = "none" /\ \A i \in Jobs : i < j => state[i] # "none"
        /\ state' = [state EXCEPT ![j] = "available"]
        /\ key' = [key EXCEPT ![j] = k]
        /\ due' = due \cup {j}
    /\ UNCHANGED <<attempt, age, history, work>>

\* run_at passes.
Due(j) ==
    /\ state[j] = "available" /\ j \notin due
    /\ due' = due \cup {j}
    /\ UNCHANGED <<state, key, attempt, age, history, work>>

-----------------------------------------------------------------------------
(* Workers *)

\* UPDATE ... FOR UPDATE SKIP LOCKED, for one of the rows it returns: each is
\* given to a free worker at once.
claim(w, j) ==
    /\ work[w] = Idle
    /\ state[j] = "available" /\ j \in due
    /\ state' = [state EXCEPT ![j] = "running"]
    /\ attempt' = [attempt EXCEPT ![j] = @ + 1]
    /\ due' = due \ {j}
    /\ runs' = [runs EXCEPT ![j] = @ + 1]
    /\ work' = [work EXCEPT ![w] = [job |-> j, attempt |-> attempt[j] + 1]]
    /\ UNCHANGED <<key, age, snoozes, retries, rescues, late, losses>>

\* The workers that have a job.
HandsOf(j) == {w \in Workers : work[w].job = j}

\* What the handler returned is known to its worker alone until the UPDATE of
\* the row, so that the two are one step, at any age of the row.  The UPDATE
\* names the row by its id alone: it is written whatever the row has become,
\* unless it was pruned.
Record(w, newState) ==
    /\ work[w] # Idle
    /\ state' = [state EXCEPT ![work[w].job] = IF @ = "pruned" THEN @ ELSE newState]
    /\ due' = due \ {work[w].job}
    /\ age' = [age EXCEPT ![work[w].job] = 0]
    /\ work' = [work EXCEPT ![w] = Idle]
    /\ UNCHANGED <<key, runs, rescues, late, losses>>

Complete(w) ==
    /\ Record(w, "completed")
    /\ UNCHANGED <<attempt, snoozes, retries>>

\* A permanent error, or any error or panic of the last attempt.
Fail(w) ==
    /\ Record(w, "failed")
    /\ UNCHANGED <<attempt, snoozes, retries>>

\* Another pending or running job has the key of j: the index refuses to make j
\* pending again.
KeyIsTaken(j) ==
    key[j] # None /\ \E i \in Jobs : i # j /\ Active(i) /\ key[i] = key[j]

CanReturn(j) == state[j] # "pruned" /\ ~KeyIsTaken(j)

\* Mutation: one attempt too many is given back.
SnoozeTwice(w) ==
    LET j == work[w].job IN
    /\ Record(w, "available") /\ CanReturn(j)
    /\ \A i \in Jobs : snoozes[i] < MaxSnoozes
    /\ attempt' = [attempt EXCEPT ![j] = @ - 2]
    /\ snoozes' = [snoozes EXCEPT ![j] = @ + 1]
    /\ UNCHANGED retries

\* The attempt is given back.
Snooze(w) ==
    LET j == work[w].job IN
    /\ Record(w, "available") /\ CanReturn(j)
    /\ \A i \in Jobs : snoozes[i] < MaxSnoozes
    /\ attempt' = [attempt EXCEPT ![j] = @ - 1]
    /\ snoozes' = [snoozes EXCEPT ![j] = @ + 1]
    /\ UNCHANGED retries

\* Mutation: off by one.
LastAttemptByOne(w) == work[w].attempt > MaxAttempts

LastAttempt(w) == work[w].attempt >= MaxAttempts

Retry(w) ==
    LET j == work[w].job IN
    /\ Record(w, "available") /\ CanReturn(j)
    /\ ~LastAttempt(w)
    /\ retries' = [retries EXCEPT ![j] = @ + 1]
    /\ UNCHANGED <<attempt, snoozes>>

\* The UPDATE of a snooze or a retry finds no row, or the index refuses it and the
\* error is logged: nothing is written.
Refuse(w) ==
    /\ work[w] # Idle /\ ~CanReturn(work[w].job)
    /\ work' = [work EXCEPT ![w] = Idle]
    /\ UNCHANGED <<row, history>>

\* The process dies, or the UPDATE fails and is logged: the row stays running.
Lose(w) ==
    /\ work[w] # Idle
    /\ losses < MaxLosses
    /\ losses' = losses + 1
    /\ work' = [work EXCEPT ![w] = Idle]
    /\ UNCHANGED <<row, runs, snoozes, retries, rescues, late>>

-----------------------------------------------------------------------------
(* Time, rescue and pruning *)

Expiring(j) == state[j] = "running" /\ age[j] = Lease

Outlasted(j) == Expiring(j) /\ HandsOf(j) # {}

\* A worker may outlast the lease of its job; only the bound ends that.
Tick ==
    /\ \E j \in Jobs : state[j] = "running" /\ age[j] <= Lease
    /\ (\E j \in Jobs : Outlasted(j)) => \A j \in Jobs : late[j] < MaxLate
    /\ age' = [j \in Jobs |-> IF state[j] = "running" /\ age[j] <= Lease
                              THEN age[j] + 1 ELSE age[j]]
    /\ late' = [j \in Jobs |-> IF Outlasted(j) THEN late[j] + 1 ELSE late[j]]
    /\ UNCHANGED <<state, key, attempt, due, runs, snoozes, retries, rescues, losses, work>>

\* Mutation: without the grace that is added to the handlers' timeout.
StuckAtTimeout(j) == state[j] = "running" /\ age[j] >= Timeout

\* Mutation: rows without attempts left are not rescued.
StuckWithAttempts(j) ==
    state[j] = "running" /\ age[j] > Lease /\ attempt[j] < MaxAttempts

Stuck(j) == state[j] = "running" /\ age[j] > Lease

\* One UPDATE of all rows whose lease has ended; their attempts are not
\* compared with max_attempts.
rescue ==
    /\ \E j \in Jobs : Stuck(j)
    /\ state' = [j \in Jobs |-> IF Stuck(j) THEN "available" ELSE state[j]]
    /\ due' = due \cup {j \in Jobs : Stuck(j)}
    /\ age' = [j \in Jobs |-> IF Stuck(j) THEN 0 ELSE age[j]]
    /\ rescues' = [j \in Jobs |-> IF Stuck(j) THEN rescues[j] + 1 ELSE rescues[j]]
    /\ UNCHANGED <<key, attempt, runs, snoozes, retries, late, losses, work>>

\* The completed rows that are old enough are deleted; failed ones are kept.
Prune(S) ==
    /\ S # {} /\ \A j \in S : state[j] = "completed"
    /\ state' = [j \in Jobs |-> IF j \in S THEN "pruned" ELSE state[j]]
    /\ UNCHANGED <<key, attempt, due, age, history, work>>

-----------------------------------------------------------------------------

Execute(w) == Complete(w) \/ Snooze(w) \/ Fail(w) \/ Retry(w) \/ Refuse(w)

Claim(j) == \E w \in Workers : claim(w, j)

Next ==
    \/ \E k \in Keys \cup {None} : Enqueue(k)
    \/ \E j \in Jobs : Due(j) \/ Claim(j)
    \/ \E w \in Workers : Execute(w) \/ Lose(w)
    \/ Tick \/ rescue
    \/ \E S \in SUBSET Jobs : Prune(S)

\* Time passes, the runners poll and rescue for ever, and a worker runs its job
\* to the end, however long it takes.
Fairness ==
    /\ WF_vars(Tick) /\ WF_vars(rescue)
    /\ \A j \in Jobs : WF_vars(Due(j)) /\ WF_vars(Claim(j))
    /\ \A w \in Workers : WF_vars(Execute(w))

Spec == Init /\ [][Next]_vars /\ Fairness

-----------------------------------------------------------------------------
(* Properties *)

\* A job has one worker more at most than leases that its workers outlasted, and
\* no worker more once it has ended: the rescue alone gives a job to a second
\* worker, never before the lease of the first one, and a late result that puts
\* the job back lets nobody in beside the workers that are still there.
OneWorkerPerJob ==
    \A j \in Jobs :
        /\ Cardinality(HandsOf(j)) <= late[j] + 1
        /\ state[j] \in Finished => Cardinality(HandsOf(j)) <= late[j]

\* max_attempts bounds the runs of a job, except for those that were snoozed and
\* those that were rescued, though late results put a job back that others have
\* or have ended, and give back attempts that others were counted for.
RunsAreBounded ==
    \A j \in Jobs : runs[j] <= MaxAttempts + snoozes[j] + rescues[j]

\* While a worker has a job, another pending or running one has its key only if
\* a worker outlasted its lease: of no other job is the result refused by the
\* index on the keys.
ResultsAreTaken ==
    \A w \in Workers :
        work[w] # Idle /\ KeyIsTaken(work[w].job) => late[work[w].job] > 0

\* A job that is completed or failed is put back by a late result only: one that
\* no worker outlasted is not run again.
FinishedStaysFinished ==
    [][\A j \in Jobs :
          state[j] \in Finished /\ late[j] = 0 => state'[j] \in Finished \cup {"pruned"}]_vars

\* The promise (JobRuns): a job is in the hands of one worker at a time and is
\* never begun again after it was settled, but for the leases that were outlasted.
Status == [j \in Jobs |-> CASE state[j] = "none" -> "absent"
                            [] Active(j) -> "pending"
                            [] OTHER -> "settled"]
Hands == [j \in Jobs |-> HandsOf(j)]

Promise == INSTANCE JobRuns WITH status <- Status, hands <- Hands

Implements == Promise!Spec

\* Every job ends in the end, also if workers die with it.
JobsSettle ==
    \A j \in Jobs : Active(j) ~> state[j] \in Finished

\* "Workers claim, run, and complete or retry with exponential backoff; jobs
\* that exhaust their attempts stay as 'failed' for inspection": a job that has
\* used up its attempts is not available again.
ExhaustedIsNotRetried ==
    \A j \in Jobs : attempt[j] >= MaxAttempts => state[j] # "available"
=============================================================================
