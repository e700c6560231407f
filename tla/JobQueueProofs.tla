--------------------------- MODULE JobQueueProofs ---------------------------
(* What holds of JobQueue for any number of workers, jobs, losses and outlasted *)
(* leases.                                                                      *)
EXTENDS JobQueue, FiniteSetTheorems, TLAPS

-----------------------------------------------------------------------------
(* The inductive invariant *)

Busy(w) == work[w] # Idle

\* The workers that have a job and may still put it back after an error.
Early(j) == {w \in HandsOf(j) : work[w].attempt < MaxAttempts}

\* While the lease lasts one worker is let in beside those that outlasted others.
Held(j) ==
    /\ state[j] = "running" /\ age[j] <= Lease => Cardinality(HandsOf(j)) <= late[j] + 1
    /\ ~(state[j] = "running" /\ age[j] <= Lease) => Cardinality(HandsOf(j)) <= late[j]
    /\ state[j] # "running" => age[j] = 0

\* A run is an attempt or was given back.  The workers that have the job and the
\* retries were attempts, and those of them that could be put back were not the
\* last one.  A job comes into the queue once, by its retries and its rescues,
\* and was not begun before.
Accounts(j) ==
    /\ runs[j] = attempt[j] + snoozes[j]
    /\ Cardinality(HandsOf(j)) + retries[j] <= attempt[j]
    /\ Cardinality(Early(j)) + retries[j] < MaxAttempts
    /\ attempt[j] <= 1 + retries[j] + rescues[j]
    /\ state[j] \in {"none", "available"} => attempt[j] <= retries[j] + rescues[j]
    /\ state[j] = "none" => attempt[j] = 0

\* No two pending or running jobs have the same key.
KeysAreUnique == \A j \in Jobs : Active(j) => ~KeyIsTaken(j)

IInv == TypeOK /\ (\A j \in Jobs : Held(j) /\ Accounts(j)) /\ KeysAreUnique

-----------------------------------------------------------------------------
(* Workers and jobs *)

LEMMA IdleType == Idle \in Work /\ \A j \in Jobs : j # Idle.job
  BY JobQueueAssumption DEF Idle, Work, Jobs

\* What a worker has.
LEMMA WorkType ==
    ASSUME TypeOK, NEW w \in Workers, Busy(w)
    PROVE  work[w].job \in Jobs /\ work[w].attempt \in Nat
  BY DEF TypeOK, Work, Busy

\* The workers of a job, and the early ones among them, are finitely many.
LEMMA HandsAreFinite ==
    ASSUME NEW j
    PROVE  /\ IsFiniteSet(HandsOf(j)) /\ IsFiniteSet(Early(j))
           /\ Cardinality(HandsOf(j)) \in Nat /\ Cardinality(Early(j)) \in Nat
           /\ Cardinality(Early(j)) <= Cardinality(HandsOf(j))
<1>1. HandsOf(j) \subseteq Workers /\ Early(j) \subseteq HandsOf(j)
  BY DEF HandsOf, Early
<1>2. IsFiniteSet(HandsOf(j)) /\ IsFiniteSet(Early(j))
  BY <1>1, JobQueueAssumption, FS_Subset
<1> QED BY <1>1, <1>2, FS_Subset, FS_CardinalityType

LEMMA NextHandsAreFinite ==
    ASSUME NEW j
    PROVE  Cardinality(HandsOf(j)') \in Nat /\ Cardinality(Early(j)') \in Nat
<1>1. HandsOf(j)' \subseteq Workers /\ Early(j)' \subseteq Workers
  BY DEF HandsOf, Early
<1> QED BY <1>1, JobQueueAssumption, FS_Subset, FS_CardinalityType

\* A worker that leaves its job is missing there, and nowhere else.
LEMMA Leaves ==
    ASSUME TypeOK, NEW w \in Workers, NEW j \in Jobs, j = work[w].job,
           work' = [work EXCEPT ![w] = Idle]
    PROVE  /\ w \in HandsOf(j) /\ HandsOf(j)' = HandsOf(j) \ {w}
           /\ Early(j)' = Early(j) \ {w}
           /\ \A i \in Jobs \ {j} : HandsOf(i)' = HandsOf(i) /\ Early(i)' = Early(i)
           /\ Cardinality(HandsOf(j)') = Cardinality(HandsOf(j)) - 1
           /\ Cardinality(HandsOf(j)) > 0
           /\ Cardinality(Early(j)') <= Cardinality(Early(j))
           /\ work[w].attempt < MaxAttempts =>
                 Cardinality(Early(j)') = Cardinality(Early(j)) - 1
<1>1. \A v \in Workers : work'[v] = IF v = w THEN Idle ELSE work[v]
  BY DEF TypeOK
<1>2. HandsOf(j)' = HandsOf(j) \ {w} /\ w \in HandsOf(j)
  BY <1>1, IdleType DEF HandsOf
<1>3. Early(j)' = Early(j) \ {w}
  BY <1>1, <1>2 DEF Early
<1>4. ASSUME NEW i \in Jobs \ {j} PROVE HandsOf(i)' = HandsOf(i) /\ Early(i)' = Early(i)
  <2>1. HandsOf(i)' = HandsOf(i) /\ w \notin HandsOf(i)
    BY <1>1, IdleType DEF HandsOf
  <2> QED BY <1>1, <2>1 DEF Early, HandsOf
<1>5. /\ Cardinality(HandsOf(j) \ {w}) = Cardinality(HandsOf(j)) - 1
      /\ Cardinality(HandsOf(j)) > 0
  <2>1. HandsOf(j) # {} 
    BY <1>2
  <2> QED BY <1>2, <2>1, HandsAreFinite, FS_RemoveElement, FS_EmptySet
<1>6. /\ w \in Early(j) => Cardinality(Early(j) \ {w}) = Cardinality(Early(j)) - 1
      /\ w \notin Early(j) => Early(j) \ {w} = Early(j)
  <2>1. IsFiniteSet(Early(j))
    BY HandsAreFinite
  <2>2. w \in Early(j) => Cardinality(Early(j) \ {w}) = Cardinality(Early(j)) - 1
    BY <2>1, FS_RemoveElement
  <2> QED BY <2>2
<1>7. work[w].attempt < MaxAttempts => w \in Early(j)
  BY <1>2 DEF Early
<1> QED BY <1>2, <1>3, <1>4, <1>5, <1>6, <1>7, HandsAreFinite

-----------------------------------------------------------------------------
(* The initial states *)

LEMMA InitInvariant == Init => IInv
<1> SUFFICES ASSUME Init PROVE IInv
  OBVIOUS
<1>1. TypeOK
  BY IdleType, JobQueueAssumption DEF Init, TypeOK, States, Lease
<1>2. \A w \in Workers : work[w] = Idle
  BY DEF Init
<1>3. \A j \in Jobs : Cardinality(HandsOf(j)) = 0 /\ Cardinality(Early(j)) = 0
  <2>1. \A j \in Jobs : HandsOf(j) = {} /\ Early(j) = {}
    BY <1>2, IdleType DEF HandsOf, Early
  <2> QED BY <2>1, FS_EmptySet
<1>4. \A j \in Jobs : Held(j) /\ Accounts(j)
  BY <1>3, JobQueueAssumption DEF Init, Held, Accounts
<1>5. KeysAreUnique
  BY DEF Init, KeysAreUnique, Active
<1> QED BY <1>1, <1>4, <1>5 DEF IInv

-----------------------------------------------------------------------------
(* Steps *)

LEMMA EnqueueKeeps == ASSUME IInv, NEW k \in Keys \cup {None}, Enqueue(k) PROVE IInv'
<1> USE DEF IInv
<1>1. PICK j \in Jobs :
         /\ state[j] = "none"
         /\ state' = [state EXCEPT ![j] = "available"]
         /\ key' = [key EXCEPT ![j] = k]
         /\ due' = due \cup {j}
  BY DEF Enqueue
<1>2. UNCHANGED <<attempt, age, runs, snoozes, retries, rescues, late, losses, work>>
  BY DEF Enqueue, history
<1>3. /\ state'[j] = "available" /\ key'[j] = k
      /\ \A i \in Jobs \ {j} : state'[i] = state[i] /\ key'[i] = key[i]
  BY <1>1 DEF TypeOK
<1>4. TypeOK'
  BY <1>1, <1>2 DEF TypeOK, States
<1>5. \A i \in Jobs : HandsOf(i)' = HandsOf(i) /\ Early(i)' = Early(i)
  BY <1>2 DEF HandsOf, Early
<1>6. \A i \in Jobs : Held(i)'
  BY <1>1, <1>2, <1>3, <1>5 DEF Held
<1>7. \A i \in Jobs : Accounts(i)'
  BY <1>1, <1>2, <1>3, <1>5 DEF Accounts
<1>8. KeysAreUnique'
  <2>1. \A i \in Jobs : Active(i)' => i = j \/ Active(i)
    BY <1>3 DEF Active
  <2>2. k # None => \A i \in Jobs : key[i] = k => ~Active(i)
    BY DEF Enqueue
  <2> QED BY <1>3, <2>1, <2>2 DEF KeysAreUnique, KeyIsTaken
<1> QED BY <1>4, <1>6, <1>7, <1>8

\* A worker that begins a job is one more there, and nowhere else.
LEMMA Begins ==
    ASSUME IInv, NEW w \in Workers, NEW j \in Jobs, claim(w, j)
    PROVE  /\ w \notin HandsOf(j) /\ HandsOf(j)' = HandsOf(j) \cup {w}
           /\ Cardinality(HandsOf(j)') = Cardinality(HandsOf(j)) + 1
           /\ Cardinality(Early(j)') <= Cardinality(Early(j)) + 1
           /\ attempt[j] + 1 >= MaxAttempts => Early(j)' = Early(j)
           /\ \A i \in Jobs \ {j} : HandsOf(i)' = HandsOf(i) /\ Early(i)' = Early(i)
<1> DEFINE a == [job |-> j, attempt |-> attempt[j] + 1]
<1>1. work[w] = Idle /\ work' = [work EXCEPT ![w] = a]
  BY DEF claim
<1>2. \A v \in Workers : work'[v] = IF v = w THEN a ELSE work[v]
  BY <1>1 DEF IInv, TypeOK
<1>3. w \notin HandsOf(j) /\ HandsOf(j)' = HandsOf(j) \cup {w}
  BY <1>1, <1>2, IdleType DEF HandsOf
<1>4. /\ a.attempt < MaxAttempts => Early(j)' = Early(j) \cup {w}
      /\ ~(a.attempt < MaxAttempts) => Early(j)' = Early(j)
  <2>1. work'[w].attempt = a.attempt /\ \A v \in HandsOf(j) : work'[v] = work[v]
    BY <1>2, <1>3 DEF HandsOf
  <2> HIDE DEF a
  <2> QED BY <1>3, <2>1 DEF Early
<1>5. \A i \in Jobs \ {j} : HandsOf(i)' = HandsOf(i) /\ Early(i)' = Early(i)
  <2>1. \A i \in Jobs \ {j} : HandsOf(i)' = HandsOf(i) /\ w \notin HandsOf(i)
    BY <1>1, <1>2, IdleType DEF HandsOf
  <2> QED BY <1>2, <2>1 DEF Early, HandsOf
<1>6. Cardinality(HandsOf(j) \cup {w}) = Cardinality(HandsOf(j)) + 1
  BY <1>3, HandsAreFinite, FS_AddElement
<1>7. Cardinality(Early(j) \cup {w}) <= Cardinality(Early(j)) + 1
  <2>1. w \notin Early(j) /\ IsFiniteSet(Early(j))
    BY <1>3, HandsAreFinite DEF Early
  <2>2. Cardinality(Early(j) \cup {w}) = Cardinality(Early(j)) + 1
    BY <2>1, FS_AddElement
  <2>3. Cardinality(Early(j)) \in Nat
    BY HandsAreFinite
  <2> QED BY <2>2, <2>3
<1>8. attempt[j] + 1 >= MaxAttempts => ~(a.attempt < MaxAttempts)
  BY JobQueueAssumption DEF IInv, TypeOK
<1> QED BY <1>3, <1>4, <1>5, <1>6, <1>7, <1>8, HandsAreFinite

LEMMA ClaimKeeps ==
    ASSUME IInv, NEW w \in Workers, NEW j \in Jobs, claim(w, j) PROVE IInv'
<1>1. /\ state[j] = "available"
      /\ state' = [state EXCEPT ![j] = "running"]
      /\ attempt' = [attempt EXCEPT ![j] = @ + 1]
      /\ runs' = [runs EXCEPT ![j] = @ + 1]
      /\ due' = due \ {j}
      /\ work' = [work EXCEPT ![w] = [job |-> j, attempt |-> attempt[j] + 1]]
      /\ UNCHANGED <<key, age, snoozes, retries, rescues, late, losses>>
  BY DEF claim
<1>2. /\ attempt[j] \in Nat /\ runs[j] \in Nat /\ snoozes[j] \in Nat
      /\ rescues[j] \in Nat /\ retries[j] \in Nat /\ late[j] \in Nat
  BY DEF IInv, TypeOK
<1>3. [job |-> j, attempt |-> attempt[j] + 1] \in Work
  BY <1>2 DEF Work
<1>4. /\ state'[j] = "running" /\ attempt'[j] = attempt[j] + 1 /\ runs'[j] = runs[j] + 1
      /\ \A i \in Jobs \ {j} :
            state'[i] = state[i] /\ attempt'[i] = attempt[i] /\ runs'[i] = runs[i]
  BY <1>1 DEF IInv, TypeOK
<1>5. TypeOK'
  BY <1>1, <1>2, <1>3 DEF IInv, TypeOK, States
<1>6. ASSUME NEW i \in Jobs \ {j} PROVE Held(i)' /\ Accounts(i)'
  BY <1>1, <1>4, Begins DEF IInv, Held, Accounts
<1>7. Held(j) /\ Accounts(j)
  BY DEF IInv
<1>8. Held(j)'
  <2>1. Cardinality(HandsOf(j)) <= late[j]
    BY <1>1, <1>7 DEF Held
  <2>2. Cardinality(HandsOf(j)') = Cardinality(HandsOf(j)) + 1 /\ age[j] = 0
    BY Begins, <1>1 DEF IInv, Held
  <2>3. age'[j] <= Lease /\ late'[j] = late[j]
    BY <1>1, <2>2, JobQueueAssumption DEF Lease
  <2> QED BY <1>2, <1>4, <2>1, <2>2, <2>3, HandsAreFinite DEF Held
<1>9. Accounts(j)'
  <2>1. /\ runs'[j] = attempt'[j] + snoozes'[j]
        /\ attempt'[j] <= 1 + retries'[j] + rescues'[j]
        /\ state'[j] \notin {"none", "available"}
    BY <1>1, <1>2, <1>4, <1>7 DEF Accounts
  <2>2. Cardinality(HandsOf(j)') + retries'[j] <= attempt'[j]
    BY <1>1, <1>2, <1>4, <1>7, Begins, HandsAreFinite DEF Accounts
  <2>3. Cardinality(Early(j)') + retries'[j] < MaxAttempts
    <3>1. CASE attempt[j] + 1 >= MaxAttempts
      BY <1>1, <1>7, <3>1, Begins DEF Accounts
    <3>2. CASE attempt[j] + 1 < MaxAttempts
      <4>1. /\ Cardinality(Early(j)') <= Cardinality(Early(j)) + 1
            /\ Cardinality(Early(j)) <= Cardinality(HandsOf(j))
            /\ Cardinality(HandsOf(j)) + retries[j] <= attempt[j]
            /\ retries'[j] = retries[j]
        BY <1>1, <1>7, Begins, HandsAreFinite DEF Accounts
      <4>2. Cardinality(Early(j)) \in Nat /\ Cardinality(HandsOf(j)) \in Nat
        BY HandsAreFinite
      <4>3. Cardinality(Early(j)') \in Nat
        BY NextHandsAreFinite
      <4> QED BY <1>2, <3>2, <4>1, <4>2, <4>3, JobQueueAssumption
    <3> QED BY <1>2, <3>1, <3>2, JobQueueAssumption
  <2> QED BY <2>1, <2>2, <2>3 DEF Accounts
<1>10. KeysAreUnique'
  <2>1. \A i \in Jobs : Active(i)' <=> Active(i)
    BY <1>1, <1>4 DEF Active
  <2> QED BY <1>1, <2>1 DEF IInv, KeysAreUnique, KeyIsTaken
<1> QED BY <1>5, <1>6, <1>8, <1>9, <1>10 DEF IInv

\* The end of a run, whatever becomes of the row: it is left as it is, or written
\* to a state that is not running.
Ends(w, j) ==
    /\ Busy(w) /\ j = work[w].job /\ work' = [work EXCEPT ![w] = Idle]
    /\ due' \subseteq Jobs
    /\ state' \in [Jobs -> States] /\ age' \in [Jobs -> 0 .. Lease + 1]
    /\ \A i \in Jobs \ {j} : state'[i] = state[i] /\ age'[i] = age[i]
    /\ \/ state'[j] # "running" /\ age'[j] = 0
       \/ state'[j] = state[j] /\ age'[j] = age[j]
    /\ UNCHANGED <<key, runs, rescues, late>>

\* A run that ends keeps the invariant, if its job's counters still agree and its
\* key is free when it comes back.
LEMMA EndKeeps ==
    ASSUME IInv, NEW w \in Workers, NEW j \in Jobs, Ends(w, j),
           attempt' \in [Jobs -> Nat], snoozes' \in [Jobs -> Nat], retries' \in [Jobs -> Nat],
           losses' \in Nat,
           \A i \in Jobs \ {j} : /\ attempt'[i] = attempt[i] /\ snoozes'[i] = snoozes[i]
                                 /\ retries'[i] = retries[i],
           state'[j] \in {"available", "running"} => Active(j) \/ ~KeyIsTaken(j),
           Accounts(j)'
    PROVE  IInv'
<1>1. TypeOK'
  BY IdleType DEF IInv, TypeOK, Ends
<1>2. /\ \A i \in Jobs \ {j} : HandsOf(i)' = HandsOf(i) /\ Early(i)' = Early(i)
      /\ Cardinality(HandsOf(j)') = Cardinality(HandsOf(j)) - 1
  BY Leaves DEF IInv, Ends
<1>3. ASSUME NEW i \in Jobs \ {j} PROVE Held(i)' /\ Accounts(i)'
  BY <1>2 DEF IInv, Ends, Held, Accounts
<1>4. Held(j)'
  <2>1. Cardinality(HandsOf(j)) <= late[j] + 1 /\ late'[j] = late[j] /\ late[j] \in Nat
    BY HandsAreFinite DEF IInv, Held, TypeOK, Ends
  <2>2. Cardinality(HandsOf(j)') <= late'[j]
    BY <1>2, <2>1, HandsAreFinite
  <2>3. state'[j] # "running" => age'[j] = 0
    BY DEF Ends, IInv, Held
  <2>4. Cardinality(HandsOf(j)') <= late'[j] + 1
    BY <2>1, <2>2, NextHandsAreFinite
  <2> QED BY <2>2, <2>3, <2>4 DEF Held
<1>5. KeysAreUnique'
  <2>1. \A i \in Jobs \ {j} : Active(i)' <=> Active(i)
    BY DEF Ends, Active
  <2>2. Active(j)' => Active(j) \/ ~KeyIsTaken(j)
    BY DEF Active
  <2>3. key' = key
    BY DEF Ends
  <2>4. ASSUME NEW i \in Jobs, NEW k \in Jobs, i # k, Active(i)', Active(k)', key[i] = key[k]
        PROVE  key[i] = None
    <3>1. CASE i # j /\ k # j
      BY <2>1, <2>4, <3>1 DEF IInv, KeysAreUnique, KeyIsTaken
    <3>2. CASE i = j
      BY <2>1, <2>2, <2>4, <3>2 DEF IInv, KeysAreUnique, KeyIsTaken
    <3>3. CASE k = j
      BY <2>1, <2>2, <2>4, <3>3 DEF IInv, KeysAreUnique, KeyIsTaken
    <3> QED BY <3>1, <3>2, <3>3
  <2> QED BY <2>3, <2>4 DEF KeysAreUnique, KeyIsTaken
<1>6. \A i \in Jobs : Held(i)' /\ Accounts(i)'
  BY <1>3, <1>4
<1> QED BY <1>1, <1>5, <1>6 DEF IInv

\* The UPDATE ends a run.
LEMMA RecordEnds ==
    ASSUME IInv, NEW w \in Workers, NEW s \in {"available", "completed", "failed"}, Record(w, s)
    PROVE  \E j \in Jobs : /\ Ends(w, j) /\ losses' = losses
                           /\ state'[j] = IF state[j] = "pruned" THEN "pruned" ELSE s
<1>1. Busy(w)
  BY DEF Record, Busy
<1>2. PICK j \in Jobs : j = work[w].job
  BY <1>1, WorkType DEF IInv
<1>3. due' \subseteq Jobs /\ state' \in [Jobs -> States]
  BY DEF Record, IInv, TypeOK, States
<1>4. age' \in [Jobs -> 0 .. Lease + 1]
  <2>1. 0 \in 0 .. Lease + 1
    BY JobQueueAssumption DEF Lease
  <2> QED BY <2>1 DEF Record, IInv, TypeOK
<1>5. /\ state'[j] = IF state[j] = "pruned" THEN "pruned" ELSE s
      /\ age'[j] = 0
      /\ \A i \in Jobs \ {j} : state'[i] = state[i] /\ age'[i] = age[i]
  BY <1>2 DEF Record, IInv, TypeOK
<1> QED BY <1>1, <1>2, <1>3, <1>4, <1>5 DEF Record, Ends

\* The numbers of a worker's job, before and after it leaves.
LEMMA Counted ==
    ASSUME IInv, NEW w \in Workers, NEW j \in Jobs, Ends(w, j)
    PROVE  /\ attempt[j] \in Nat /\ runs[j] \in Nat /\ snoozes[j] \in Nat
           /\ retries[j] \in Nat /\ rescues[j] \in Nat
           /\ Accounts(j) /\ runs'[j] = runs[j] /\ rescues'[j] = rescues[j]
           /\ Cardinality(HandsOf(j)') = Cardinality(HandsOf(j)) - 1
           /\ Cardinality(HandsOf(j)) > 0
           /\ Cardinality(Early(j)') <= Cardinality(Early(j))
           /\ work[w].attempt < MaxAttempts =>
                 Cardinality(Early(j)') = Cardinality(Early(j)) - 1
           /\ Cardinality(HandsOf(j)) \in Nat /\ Cardinality(Early(j)) \in Nat
           /\ Cardinality(HandsOf(j)') \in Nat /\ Cardinality(Early(j)') \in Nat
  BY Leaves, HandsAreFinite, NextHandsAreFinite DEF IInv, TypeOK, Ends

\* A run that ends without giving its job back.
LEMMA EndsForGood ==
    ASSUME IInv, NEW w \in Workers, NEW j \in Jobs, Ends(w, j),
           UNCHANGED <<attempt, snoozes, retries>>, losses' \in Nat,
           state'[j] = state[j] \/ state'[j] \in Finished \cup {"pruned"}
    PROVE  IInv'
<1>1. Accounts(j)'
  BY Counted, JobQueueAssumption DEF Accounts, Finished
<1>2. attempt' \in [Jobs -> Nat] /\ snoozes' \in [Jobs -> Nat] /\ retries' \in [Jobs -> Nat]
  BY DEF IInv, TypeOK
<1>3. state'[j] \in {"available", "running"} => Active(j)
  BY DEF Active, Finished
<1> QED BY <1>1, <1>2, <1>3, EndKeeps

LEMMA ExecuteKeeps == ASSUME IInv, NEW w \in Workers, Execute(w) PROVE IInv'
<1>1. losses \in Nat
  BY DEF IInv, TypeOK
<1>2. ASSUME NEW s \in Finished, Record(w, s), UNCHANGED <<attempt, snoozes, retries>>
      PROVE  IInv'
  <2>1. s \in {"available", "completed", "failed"}
    BY DEF Finished
  <2>2. PICK j \in Jobs : /\ Ends(w, j) /\ losses' = losses
                          /\ state'[j] = IF state[j] = "pruned" THEN "pruned" ELSE s
    BY <1>2, <2>1, RecordEnds
  <2> QED BY <1>1, <1>2, <2>2, EndsForGood
<1>3. CASE Complete(w)
  BY <1>2, <1>3 DEF Complete, Finished
<1>4. CASE Fail(w)
  BY <1>2, <1>4 DEF Fail, Finished
<1>5. CASE Snooze(w)
  <2>1. PICK j \in Jobs : /\ Ends(w, j) /\ losses' = losses
                          /\ state'[j] = IF state[j] = "pruned" THEN "pruned" ELSE "available"
    BY <1>5, RecordEnds DEF Snooze
  <2>2. /\ attempt' = [attempt EXCEPT ![j] = @ - 1]
        /\ snoozes' = [snoozes EXCEPT ![j] = @ + 1]
        /\ retries' = retries /\ CanReturn(j)
    BY <1>5, <2>1 DEF Snooze, Ends
  <2>3. /\ attempt[j] > 0
        /\ attempt'[j] = attempt[j] - 1 /\ snoozes'[j] = snoozes[j] + 1
        /\ \A i \in Jobs \ {j} : attempt'[i] = attempt[i] /\ snoozes'[i] = snoozes[i]
    BY <2>1, <2>2, Counted DEF IInv, TypeOK, Accounts
  <2>4. attempt' \in [Jobs -> Nat] /\ snoozes' \in [Jobs -> Nat] /\ retries' \in [Jobs -> Nat]
    BY <2>1, <2>2, <2>3, Counted DEF IInv, TypeOK
  <2>5. Accounts(j)'
    BY <2>1, <2>2, <2>3, Counted, JobQueueAssumption DEF Accounts
  <2> QED BY <1>1, <2>1, <2>2, <2>3, <2>4, <2>5, EndKeeps DEF CanReturn
<1>6. CASE Retry(w)
  <2>1. PICK j \in Jobs : /\ Ends(w, j) /\ losses' = losses
                          /\ state'[j] = IF state[j] = "pruned" THEN "pruned" ELSE "available"
    BY <1>6, RecordEnds DEF Retry
  <2>2. /\ retries' = [retries EXCEPT ![j] = @ + 1]
        /\ UNCHANGED <<attempt, snoozes>> /\ CanReturn(j)
    BY <1>6, <2>1 DEF Retry, Ends
  <2>3. work[w].attempt < MaxAttempts
    BY <1>6, <2>1, WorkType, JobQueueAssumption DEF Retry, LastAttempt, Ends, IInv
  <2>4. /\ retries'[j] = retries[j] + 1
        /\ \A i \in Jobs \ {j} : retries'[i] = retries[i]
    BY <2>2 DEF IInv, TypeOK
  <2>5. attempt' \in [Jobs -> Nat] /\ snoozes' \in [Jobs -> Nat] /\ retries' \in [Jobs -> Nat]
    BY <2>2 DEF IInv, TypeOK
  <2>6. Accounts(j)'
    BY <2>1, <2>2, <2>3, <2>4, Counted, JobQueueAssumption DEF Accounts
  <2> QED BY <1>1, <2>1, <2>2, <2>4, <2>5, <2>6, EndKeeps DEF CanReturn
<1>7. CASE Refuse(w)
  <2>1. Busy(w) /\ work' = [work EXCEPT ![w] = Idle] /\ UNCHANGED <<row, history>>
    BY <1>7 DEF Refuse, Busy
  <2>2. PICK j \in Jobs : j = work[w].job
    BY <2>1, WorkType DEF IInv
  <2>3. Ends(w, j)
    BY <2>1, <2>2 DEF Ends, row, history, IInv, TypeOK
  <2> QED BY <1>1, <2>1, <2>3, EndsForGood DEF row, history
<1> QED BY <1>3, <1>4, <1>5, <1>6, <1>7 DEF Execute

LEMMA LoseKeeps == ASSUME IInv, NEW w \in Workers, Lose(w) PROVE IInv'
<1>1. /\ Busy(w) /\ work' = [work EXCEPT ![w] = Idle] /\ losses' = losses + 1
      /\ UNCHANGED <<row, runs, snoozes, retries, rescues, late>>
  BY DEF Lose, Busy
<1>2. PICK j \in Jobs : j = work[w].job
  BY <1>1, WorkType DEF IInv
<1>3. Ends(w, j)
  BY <1>1, <1>2 DEF Ends, row, IInv, TypeOK
<1>4. losses' \in Nat
  BY <1>1 DEF IInv, TypeOK
<1> QED BY <1>1, <1>3, <1>4, EndsForGood DEF row

LEMMA TickKeeps == ASSUME IInv, Tick PROVE IInv'
<1>1. UNCHANGED <<state, key, attempt, due, runs, snoozes, retries, rescues, losses, work>>
  BY DEF Tick
<1>2. Lease \in Nat
  BY JobQueueAssumption DEF Lease
<1>3. \A j \in Jobs : age[j] \in 0 .. Lease + 1 /\ late[j] \in Nat
  BY DEF IInv, TypeOK
<1>4. \A j \in Jobs :
         /\ age'[j] = IF state[j] = "running" /\ age[j] <= Lease THEN age[j] + 1 ELSE age[j]
         /\ late'[j] = IF Outlasted(j) THEN late[j] + 1 ELSE late[j]
  BY DEF Tick
<1>5. TypeOK'
  <2>1. age' \in [Jobs -> 0 .. Lease + 1] /\ late' \in [Jobs -> Nat]
    BY <1>2, <1>3 DEF Tick
  <2> QED BY <1>1, <2>1 DEF IInv, TypeOK
<1>6. \A j \in Jobs : HandsOf(j)' = HandsOf(j) /\ Early(j)' = Early(j)
  BY <1>1 DEF HandsOf, Early
<1>7. ASSUME NEW j \in Jobs PROVE Held(j)'
  <2>1. Held(j) /\ late[j] \in Nat /\ age[j] \in Nat /\ Cardinality(HandsOf(j)) \in Nat
    BY <1>3, HandsAreFinite DEF IInv
  <2>2. HandsOf(j) = {} => Cardinality(HandsOf(j)) = 0
    BY FS_EmptySet
  <2> QED BY <1>1, <1>2, <1>4, <1>6, <2>1, <2>2 DEF Held, Outlasted, Expiring
<1>8. \A j \in Jobs : Accounts(j)'
  BY <1>1, <1>6 DEF IInv, Accounts
<1>9. KeysAreUnique'
  BY <1>1 DEF IInv, KeysAreUnique, KeyIsTaken, Active
<1> QED BY <1>5, <1>7, <1>8, <1>9 DEF IInv

LEMMA RescueKeeps == ASSUME IInv, rescue PROVE IInv'
<1>1. UNCHANGED <<key, attempt, runs, snoozes, retries, late, losses, work>>
  BY DEF rescue
<1>2. \A j \in Jobs :
         IF Stuck(j) THEN state'[j] = "available" /\ rescues'[j] = rescues[j] + 1 /\ age'[j] = 0
                     ELSE state'[j] = state[j] /\ rescues'[j] = rescues[j] /\ age'[j] = age[j]
  BY DEF rescue
<1>3. \A j \in Jobs : Stuck(j) => state[j] = "running" /\ age[j] > Lease
  BY DEF Stuck
<1>4. TypeOK'
  <2>1. /\ state' \in [Jobs -> States] /\ rescues' \in [Jobs -> Nat] /\ due' \subseteq Jobs
    BY DEF rescue, IInv, TypeOK, States
  <2>2. age' \in [Jobs -> 0 .. Lease + 1]
    <3>1. 0 \in 0 .. Lease + 1
      BY JobQueueAssumption DEF Lease
    <3> QED BY <3>1 DEF rescue, IInv, TypeOK
  <2> QED BY <1>1, <2>1, <2>2 DEF IInv, TypeOK
<1>5. \A j \in Jobs : HandsOf(j)' = HandsOf(j) /\ Early(j)' = Early(j)
  BY <1>1 DEF HandsOf, Early
<1>6. ASSUME NEW j \in Jobs PROVE Held(j)' /\ Accounts(j)'
  <2>1. /\ Held(j) /\ Accounts(j) /\ attempt[j] \in Nat /\ rescues[j] \in Nat
        /\ retries[j] \in Nat /\ age[j] \in Nat /\ Lease \in Nat
    BY JobQueueAssumption DEF IInv, TypeOK, Lease
  <2>2. CASE Stuck(j)
    <3>1. Held(j)'
      BY <1>1, <1>2, <1>3, <1>5, <2>1, <2>2 DEF Held
    <3>2. Accounts(j)'
      BY <1>1, <1>2, <1>3, <1>5, <2>1, <2>2 DEF Accounts
    <3> QED BY <3>1, <3>2
  <2>3. CASE ~Stuck(j)
    BY <1>1, <1>2, <1>5, <2>1, <2>3 DEF Held, Accounts
  <2> QED BY <2>2, <2>3
<1>7. KeysAreUnique'
  <2>1. \A j \in Jobs : Active(j)' <=> Active(j)
    BY <1>2, <1>3 DEF Active
  <2> QED BY <1>1, <2>1 DEF IInv, KeysAreUnique, KeyIsTaken
<1> QED BY <1>4, <1>6, <1>7 DEF IInv

LEMMA PruneKeeps == ASSUME IInv, NEW S \in SUBSET Jobs, Prune(S) PROVE IInv'
<1>1. UNCHANGED <<key, attempt, due, age, runs, snoozes, retries, rescues, late, losses, work>>
  BY DEF Prune, history
<1>2. \A j \in Jobs : \/ state'[j] = state[j]
                      \/ state[j] = "completed" /\ state'[j] = "pruned"
  BY DEF Prune
<1>3. TypeOK'
  <2>1. state' \in [Jobs -> States]
    BY DEF Prune, IInv, TypeOK, States
  <2> QED BY <1>1, <2>1 DEF IInv, TypeOK
<1>4. \A j \in Jobs : HandsOf(j)' = HandsOf(j) /\ Early(j)' = Early(j)
  BY <1>1 DEF HandsOf, Early
<1>5. \A j \in Jobs : Held(j)' /\ Accounts(j)'
  BY <1>1, <1>2, <1>4 DEF IInv, Held, Accounts
<1>6. KeysAreUnique'
  BY <1>1, <1>2 DEF IInv, KeysAreUnique, KeyIsTaken, Active
<1> QED BY <1>3, <1>5, <1>6 DEF IInv

LEMMA IdleKeeps ==
    ASSUME IInv, UNCHANGED vars \/ \E j \in Jobs : Due(j) PROVE IInv'
<1>1. /\ UNCHANGED <<state, key, attempt, age, work>>
      /\ UNCHANGED <<runs, snoozes, retries, rescues, late, losses>>
  BY DEF Due, vars, row, history
<1>2. due' \subseteq Jobs
  BY DEF Due, vars, row, IInv, TypeOK
<1>3. \A j \in Jobs : HandsOf(j)' = HandsOf(j) /\ Early(j)' = Early(j)
  BY <1>1 DEF HandsOf, Early
<1>4. \A j \in Jobs : Held(j)' /\ Accounts(j)'
  BY <1>1, <1>3 DEF IInv, Held, Accounts
<1>5. KeysAreUnique' /\ TypeOK'
  BY <1>1, <1>2 DEF IInv, KeysAreUnique, KeyIsTaken, Active, TypeOK
<1> QED BY <1>4, <1>5 DEF IInv

-----------------------------------------------------------------------------
(* Theorems *)

LEMMA Inductive == IInv /\ [Next]_vars => IInv'
  BY EnqueueKeeps, ClaimKeeps, ExecuteKeeps, LoseKeeps, TickKeeps, RescueKeeps, PruneKeeps,
     IdleKeeps
  DEF Next, Claim

\* The inductive invariant holds of the specification.
THEOREM Invariance == Spec => []IInv
  BY InitInvariant, Inductive, PTL DEF Spec

\* The rows and the workers keep their types; no attempt is given back twice, also
\* by results that come late.
THEOREM TypeCorrect == Spec => []TypeOK
<1>1. IInv => TypeOK
  BY DEF IInv
<1> QED BY <1>1, Invariance, PTL

\* A job has one worker more at most than leases that its workers outlasted, and
\* no more than those once it has ended, whatever workers die, however late the
\* results are and whatever rows are rescued.
THEOREM ExecutionIsExclusive == Spec => []OneWorkerPerJob
<1>1. IInv => OneWorkerPerJob
  <2> SUFFICES ASSUME IInv, NEW j \in Jobs
               PROVE  /\ Cardinality(HandsOf(j)) <= late[j] + 1
                      /\ state[j] \in Finished => Cardinality(HandsOf(j)) <= late[j]
    BY DEF OneWorkerPerJob
  <2>1. Held(j) /\ late[j] \in Nat /\ Cardinality(HandsOf(j)) \in Nat
    BY HandsAreFinite DEF IInv, TypeOK
  <2> QED BY <2>1 DEF Held, Finished
<1> QED BY <1>1, Invariance, PTL

\* A job is run at most max_attempts times more than it was snoozed and rescued,
\* also when late results put it back.
THEOREM RunsStayBounded == Spec => []RunsAreBounded
<1>1. IInv => RunsAreBounded
  <2> SUFFICES ASSUME IInv, NEW j \in Jobs
               PROVE  runs[j] <= MaxAttempts + snoozes[j] + rescues[j]
    BY DEF RunsAreBounded
  <2>1. /\ Accounts(j) /\ attempt[j] \in Nat /\ rescues[j] \in Nat /\ snoozes[j] \in Nat
        /\ retries[j] \in Nat /\ Cardinality(Early(j)) \in Nat
    BY HandsAreFinite DEF IInv, TypeOK
  <2> QED BY <2>1, JobQueueAssumption DEF Accounts
<1> QED BY <1>1, Invariance, PTL

\* The index on the keys refuses the result of no job but those whose lease a
\* worker outlasted.
THEOREM ResultsStayTaken == Spec => []ResultsAreTaken
<1>1. IInv => ResultsAreTaken
  <2> SUFFICES ASSUME IInv, NEW w \in Workers, Busy(w), KeyIsTaken(work[w].job)
               PROVE  late[work[w].job] > 0
    BY DEF ResultsAreTaken, Busy
  <2>1. PICK j \in Jobs : j = work[w].job
    BY WorkType DEF IInv
  <2>2. state[j] # "running"
    BY <2>1 DEF IInv, KeysAreUnique, Active
  <2>3. Cardinality(HandsOf(j)) <= late[j]
    BY <2>2 DEF IInv, Held
  <2>4. Cardinality(HandsOf(j)) # 0
    <3>1. HandsOf(j) # {} /\ IsFiniteSet(HandsOf(j))
      BY <2>1, HandsAreFinite DEF HandsOf
    <3> QED BY <3>1, FS_EmptySet
  <2> QED BY <2>1, <2>3, <2>4, HandsAreFinite DEF IInv, TypeOK
<1> QED BY <1>1, Invariance, PTL

\* A job that is completed or failed is made pending again by the late result of a
\* worker that outlasted its lease, and by nothing else.
THEOREM NoRerun == Spec => FinishedStaysFinished
<1> DEFINE Kept == \A j \in Jobs : state[j] \in Finished /\ late[j] = 0
                                      => state'[j] \in Finished \cup {"pruned"}
<1>1. IInv /\ [Next]_vars => [Kept]_vars
  <2> SUFFICES ASSUME IInv, Next PROVE Kept
    BY DEF IInv
  <2>1. ASSUME NEW k \in Keys \cup {None}, Enqueue(k) PROVE Kept
    BY <2>1 DEF Enqueue, Finished, IInv, TypeOK
  <2>2. ASSUME NEW j \in Jobs, NEW w \in Workers, claim(w, j) PROVE Kept
    BY <2>2 DEF claim, Finished, IInv, TypeOK
  <2>3. ASSUME NEW w \in Workers, NEW j \in Jobs, Ends(w, j) PROVE Kept
    <3>1. state[j] \in Finished => late[j] > 0
      <4>1. state[j] \in Finished => Cardinality(HandsOf(j)) <= late[j]
        BY DEF IInv, Held, Finished
      <4> QED BY <2>3, <4>1, Counted DEF IInv, TypeOK
    <3> QED BY <2>3, <3>1 DEF Ends, IInv, TypeOK
  <2>4. ASSUME NEW w \in Workers, Execute(w) PROVE Kept
    <3>1. CASE \E s \in {"available", "completed", "failed"} : Record(w, s)
      BY <2>3, <3>1, RecordEnds
    <3>2. CASE UNCHANGED state
      BY <3>2
    <3> QED BY <2>4, <3>1, <3>2 DEF Execute, Complete, Fail, Snooze, Retry, Refuse, row
  <2>5. ASSUME rescue PROVE Kept
    BY <2>5 DEF rescue, Stuck, Finished
  <2>6. ASSUME NEW S \in SUBSET Jobs, Prune(S) PROVE Kept
    BY <2>6 DEF Prune
  <2>7. ASSUME UNCHANGED state PROVE Kept
    BY <2>7
  <2> QED BY <2>1, <2>2, <2>4, <2>5, <2>6, <2>7 DEF Next, Claim, Due, Lose, Tick, row
<1> QED BY <1>1, Invariance, PTL DEF Spec, FinishedStaysFinished

-----------------------------------------------------------------------------
(* The promise *)

\* The promise counts as the model does.
LEMMA SameCardinality == \A S : Promise!Cardinality(S) = Cardinality(S)
  BY DEF Promise!Cardinality, Cardinality

\* The end of a run, as the promise sees it.
LEMMA EndsPromise ==
    ASSUME IInv, NEW w \in Workers, NEW j \in Jobs, Ends(w, j), state[j] # "none",
           state'[j] # "none"
    PROVE  Promise!Next
<1>1. w \in Hands[j] /\ Hands' = [Hands EXCEPT ![j] = @ \ {w}]
  BY Leaves DEF Hands, Ends, IInv
<1>2. \E s \in {Status[j], "pending", "settled"} : Status' = [Status EXCEPT ![j] = s]
  <2>1. PICK s : s = Status'[j]
    OBVIOUS
  <2>2. s \in {"pending", "settled"}
    BY <2>1 DEF Status, Active
  <2>3. \A i \in Jobs \ {j} : Status'[i] = Status[i]
    BY DEF Ends, Status, Active
  <2>4. Status' = [Status EXCEPT ![j] = s]
    <3>1. Status = [i \in Jobs |-> Status[i]] /\ Status' = [i \in Jobs |-> Status'[i]]
      BY DEF Status
    <3> QED BY <2>1, <2>3, <3>1
  <2> QED BY <2>2, <2>4
<1>3. late' = late
  BY DEF Ends
<1>4. Promise!Leave(w, j)
  BY <1>1, <1>2, <1>3 DEF Promise!Leave
<1> QED BY <1>4 DEF Promise!Next

\* The row of a worker's job was inserted.
LEMMA KnownRow ==
    ASSUME IInv, NEW w \in Workers, NEW j \in Jobs, Ends(w, j)
    PROVE  state[j] # "none"
  BY Counted DEF Accounts

LEMMA PromiseSteps ==
    ASSUME IInv, [Next]_vars
    PROVE  [Promise!Next]_<<Status, Hands, late>>
<1> DEFINE Same == UNCHANGED <<Status, Hands, late>>
<1>1. ASSUME NEW k \in Keys \cup {None}, Enqueue(k) PROVE Promise!Next
  <2>1. PICK j \in Jobs : /\ state[j] = "none" /\ state' = [state EXCEPT ![j] = "available"]
                          /\ work' = work /\ late' = late
    BY <1>1 DEF Enqueue, history
  <2>2. Status[j] = "absent" /\ Status' = [Status EXCEPT ![j] = "pending"]
    BY <2>1 DEF Status, Active, IInv, TypeOK
  <2>3. Hands' = Hands
    BY <2>1 DEF Hands, HandsOf
  <2>4. Promise!Add(j)
    BY <2>1, <2>2, <2>3 DEF Promise!Add
  <2> QED BY <2>4 DEF Promise!Next
<1>2. ASSUME NEW j \in Jobs, NEW w \in Workers, claim(w, j) PROVE Promise!Next
  <2>1. /\ work[w] = Idle /\ state[j] = "available" /\ late' = late
        /\ state' = [state EXCEPT ![j] = "running"]
    BY <1>2 DEF claim
  <2>2. Status[j] = "pending" /\ Status' = Status
    BY <2>1 DEF Status, Active, IInv, TypeOK
  <2>3. Cardinality(Hands[j]) <= late[j]
    BY <2>1 DEF Hands, IInv, Held
  <2>4. \A i \in Jobs : w \notin Hands[i]
    BY <2>1, IdleType DEF Hands, HandsOf
  <2>5. Hands' = [Hands EXCEPT ![j] = @ \cup {w}]
    BY <1>2, Begins DEF Hands
  <2>6. Promise!Begin(w, j)
    <3>1. UNCHANGED <<Status, late>>
      BY <2>1, <2>2
    <3> QED BY <2>2, <2>3, <2>4, <2>5, <3>1, SameCardinality DEF Promise!Begin
  <2> QED BY <2>6 DEF Promise!Next
<1>3. ASSUME NEW w \in Workers, NEW j \in Jobs, Ends(w, j), state'[j] # "none" PROVE Promise!Next
  BY <1>3, KnownRow, EndsPromise
<1>4. ASSUME NEW w \in Workers, Busy(w), work' = [work EXCEPT ![w] = Idle],
             UNCHANGED row, UNCHANGED <<runs, rescues, late>>
      PROVE  Promise!Next
  <2>1. PICK j \in Jobs : j = work[w].job
    BY <1>4, WorkType DEF IInv
  <2>2. Ends(w, j)
    BY <1>4, <2>1 DEF Ends, row, IInv, TypeOK
  <2>3. state'[j] # "none"
    BY <1>4, <2>2, KnownRow DEF row
  <2> QED BY <1>3, <2>2, <2>3
<1>5. ASSUME NEW w \in Workers, Execute(w) PROVE Promise!Next
  <2>1. ASSUME NEW s \in {"available", "completed", "failed"}, Record(w, s) PROVE Promise!Next
    BY <1>3, <2>1, RecordEnds
  <2>2. CASE Refuse(w)
    BY <1>4, <2>2 DEF Refuse, Busy, row, history
  <2> QED BY <1>5, <2>1, <2>2 DEF Execute, Complete, Fail, Snooze, Retry
<1>6. ASSUME NEW w \in Workers, Lose(w) PROVE Promise!Next
  BY <1>4, <1>6 DEF Lose, Busy
<1>7. ASSUME Tick PROVE Promise!Next
  <2>1. state' = state /\ work' = work
        /\ late' = [j \in Jobs |-> IF Outlasted(j) THEN late[j] + 1 ELSE late[j]]
    BY <1>7 DEF Tick
  <2>2. PICK S \in SUBSET Jobs : S = {j \in Jobs : Outlasted(j)}
    OBVIOUS
  <2>3. \A j \in S : Status[j] = "pending" /\ Hands[j] # {}
    BY <2>2 DEF Status, Active, Hands, Outlasted, Expiring
  <2>4. late' = [j \in Jobs |-> IF j \in S THEN late[j] + 1 ELSE late[j]]
    BY <2>1, <2>2
  <2>5. UNCHANGED <<Status, Hands>>
    BY <2>1 DEF Status, Active, Hands, HandsOf
  <2>6. Promise!Outlast(S)
    BY <2>3, <2>4, <2>5 DEF Promise!Outlast
  <2> QED BY <2>6 DEF Promise!Next
<1>8. ASSUME rescue PROVE Same
  BY <1>8 DEF rescue, Stuck, Status, Active, Hands, HandsOf, IInv, TypeOK
<1>9. ASSUME NEW S \in SUBSET Jobs, Prune(S) PROVE Same
  BY <1>9 DEF Prune, Status, Active, Hands, HandsOf, IInv, TypeOK, history
<1>10. ASSUME UNCHANGED <<state, work, late>> PROVE Same
  BY <1>10 DEF Status, Active, Hands, HandsOf
<1> QED BY <1>1, <1>2, <1>5, <1>6, <1>7, <1>8, <1>9, <1>10
        DEF Next, Claim, Due, row, history, vars

\* A job is in the hands of one worker at a time and is not begun again after it was
\* settled, but for the leases that a worker outlasted, whatever workers die, however
\* late the results are and whatever rows are rescued (claim, execute, rescue).
THEOREM QueueImplements == Spec => Implements
<1>1. Init => Promise!Init
  <2> SUFFICES ASSUME Init PROVE Promise!Init
    OBVIOUS
  <2>1. Status = [j \in Jobs |-> "absent"]
    <3>1. \A j \in Jobs : state[j] = "none"
      BY DEF Init
    <3>2. \A j \in Jobs : Status[j] = "absent"
      BY <3>1 DEF Status, Active
    <3> QED BY <3>2 DEF Status
  <2>2. \A j \in Jobs : HandsOf(j) = {}
    BY IdleType DEF Init, HandsOf
  <2>3. Hands = [j \in Jobs |-> {}] /\ late = [j \in Jobs |-> 0]
    BY <2>2 DEF Hands, Init
  <2> QED BY <2>1, <2>3 DEF Promise!Init
<1> QED BY <1>1, InitInvariant, Inductive, PromiseSteps, PTL DEF Spec, Implements, Promise!Spec
=============================================================================
