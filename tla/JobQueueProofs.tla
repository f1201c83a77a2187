--------------------------- MODULE JobQueueProofs ---------------------------
(***************************************************************************)
(* The queue and the deliveries it runs, for every number of jobs,         *)
(* processes and names.  Where a theorem says so, as long as no            *)
(* administrator retries or cancels jobs: the lease of a job, what its     *)
(* result means, and that a settled delivery is not posted again.          *)
(***************************************************************************)
EXTENDS Delivery, FiniteSetTheorems, TLAPS

\* Rows and processes: the part of QueueTypeOK that the leases rest on.
LeaseTypeOK ==
    /\ jobs \in [Jobs -> JobRows]
    /\ procs \in [Procs -> ProcStates]
    /\ \A p \in Procs : procs[p].age <= HandlerTimeout
    /\ name \in [Procs -> Names]

\* What makes OneRunnerPerJob inductive: a process holds the lease of its job,
\* and the lease is no older than the run.
LeaseInv ==
    /\ LeaseTypeOK
    /\ requests = {}
    /\ RunnerHoldsLease
    /\ OneRunnerPerJob
    /\ \A p \in Procs : procs[p].job # NoJob => jobs[procs[p].job].age <= procs[p].age

-----------------------------------------------------------------------------
\* A handler's context ends before its lease: no job that somebody runs can be
\* claimed, neither as ready nor as stale (pollAndProcess).
LEMMA RunIsNotClaimable ==
    ASSUME LeaseInv, NEW p \in Procs, NEW j \in Jobs, Stale(p, j) \/ Ready(j)
    PROVE  \A q \in Procs : ~Running(q, j)
  <1> SUFFICES ASSUME NEW q \in Procs, Running(q, j) PROVE FALSE
    OBVIOUS
  <1>1. procs[q].job = j /\ j # NoJob
    BY QueueNamesAssumption DEF Running
  <1>2. jobs[j].status = "running"
    BY <1>1 DEF LeaseInv, RunnerHoldsLease
  <1>3. jobs[j].age <= procs[q].age /\ procs[q].age <= HandlerTimeout
    BY <1>1 DEF LeaseInv, LeaseTypeOK
  <1>4. jobs[j].age \in Nat /\ procs[q].age \in Nat
    BY DEF LeaseInv, LeaseTypeOK, JobRows, ProcStates
  <1>5. ~(jobs[j].age > Lease)
    BY <1>3, <1>4, LeaseAssumption
  <1> QED  BY <1>2, <1>5 DEF Stale, Ready

\* fail's backoff is a delay: 2 ^ n is the number of subsets of 1 .. n, which is
\* how the provers learn that a power of two is a natural number.
LEMMA BackoffIsADelay ==
    ASSUME NEW attempts \in Nat PROVE Backoff(attempts) \in Nat
  <1> DEFINE n == IF attempts < BackoffCap THEN attempts ELSE BackoffCap
  <1>1. n \in Nat
    BY QueueBoundsAssumption
  <1> HIDE DEF n
  <1>2. IsFiniteSet(1 .. n) /\ Cardinality(1 .. n) = n
    BY <1>1, FS_Interval
  <1>3. IsFiniteSet(SUBSET (1 .. n)) /\ Cardinality(SUBSET (1 .. n)) = 2 ^ n
    BY <1>2, FS_SUBSET
  <1>4. 2 ^ n \in Nat
    BY <1>3, FS_CardinalityType
  <1> QED  BY <1>4 DEF Backoff, n

\* The rows that the operations write are rows, with the fields they write.
LEMMA WrittenRows ==
    ASSUME NEW r \in JobRows
    PROVE  /\ [r EXCEPT !.status = "queued"] \in JobRows
           /\ \A s \in JobStatus : Unlocked(r, s) \in JobRows
           /\ \A s \in JobStatus, d \in Nat : [Unlocked(r, s) EXCEPT !.delay = d] \in JobRows
  <1>1. [r EXCEPT !.status = "queued"] \in JobRows
    BY DEF JobRows, JobStatus
  <1>2. ASSUME NEW s \in JobStatus PROVE Unlocked(r, s) \in JobRows
    BY DEF JobRows, Unlocked
  <1>3. ASSUME NEW s \in JobStatus, NEW d \in Nat
        PROVE  [Unlocked(r, s) EXCEPT !.delay = d] \in JobRows
    <2>1. Unlocked(r, s) \in JobRows
      BY <1>2
    <2> QED  BY <2>1 DEF JobRows
  <1> QED  BY <1>1, <1>2, <1>3

\* A claimed row is a row, and the lease of the process that claims it.
LEMMA ClaimedRow ==
    ASSUME NEW r \in JobRows, NEW n \in Names
    PROVE  /\ Leased(r, n) \in JobRows
           /\ Leased(r, n).status = "running" /\ Leased(r, n).lockedBy = n
           /\ Leased(r, n).age = 0 /\ Leased(r, n).attempts = r.attempts + 1
  <1> DEFINE k == r.attempts + 1
             q == [r EXCEPT !.status = "running", !.lockedBy = n, !.age = 0, !.attempts = k]
  <1>1. Leased(r, n) = q
    BY DEF Leased
  <1>2. k \in Nat
    BY DEF JobRows
  <1> HIDE DEF k
  <1>3. q.status = "running" /\ q.lockedBy = n /\ q.age = 0 /\ q.attempts = k
    BY DEF JobRows
  <1>4. q \in JobRows
    BY <1>2 DEF JobRows, JobStatus
  <1> QED  BY <1>1, <1>3, <1>4 DEF k

\* A process that has finished, failed, crashed or restarted is idle or down.
LEMMA FreeProcess == \A q \in {Idle, Down} : q \in ProcStates /\ q.job = NoJob /\ q.age = 0
  <1>1. Idle \in ProcStates /\ Idle.job = NoJob /\ Idle.age = 0
    BY DEF Idle, ProcStates
  <1>2. Down \in ProcStates /\ Down.job = NoJob /\ Down.age = 0
    BY DEF Down, ProcStates
  <1> QED  BY <1>1, <1>2

\* A process gives up the job in its hands: what it writes to the job's row, and
\* under which name it goes on, disturbs nobody else.
LEMMA ReleaseKeepsLease ==
    ASSUME LeaseInv, NEW p \in Procs, NEW q \in {Idle, Down}, NEW n \in Names,
           procs' = [procs EXCEPT ![p] = q],
           name' = [name EXCEPT ![p] = n],
           UNCHANGED requests,
           \/ UNCHANGED jobs
           \/ /\ procs[p].job # NoJob
              /\ \E r \in JobRows : jobs' = [jobs EXCEPT ![procs[p].job] = r]
    PROVE  LeaseInv'
  <1>1. q \in ProcStates /\ q.job = NoJob /\ q.age = 0
    BY FreeProcess
  <1>2. LeaseTypeOK
    BY DEF LeaseInv
  <1>3. LeaseTypeOK'
    <2>1. jobs' \in [Jobs -> JobRows]
      <3>1. CASE UNCHANGED jobs
        BY <1>2, <3>1 DEF LeaseTypeOK
      <3>2. CASE /\ procs[p].job # NoJob
                 /\ \E r \in JobRows : jobs' = [jobs EXCEPT ![procs[p].job] = r]
        BY <1>2, <3>2 DEF LeaseTypeOK
      <3> QED  BY <3>1, <3>2
    <2>2. procs' \in [Procs -> ProcStates] /\ name' \in [Procs -> Names]
      BY <1>1, <1>2 DEF LeaseTypeOK
    <2>3. \A u \in Procs : procs'[u].age <= HandlerTimeout
      BY <1>1, <1>2, LeaseAssumption DEF LeaseTypeOK
    <2> QED  BY <2>1, <2>2, <2>3 DEF LeaseTypeOK
  <1>4. ASSUME NEW u \in Procs, procs'[u].job # NoJob
        PROVE  /\ u # p /\ procs'[u] = procs[u] /\ name'[u] = name[u]
               /\ jobs'[procs[u].job] = jobs[procs[u].job]
    <2>1. u # p /\ procs'[u] = procs[u] /\ name'[u] = name[u]
      BY <1>1, <1>2, <1>4 DEF LeaseTypeOK
    <2>2. procs[u].job \in Jobs /\ procs[p].job \in Jobs \cup {NoJob}
      BY <1>2, <1>4, <2>1 DEF LeaseTypeOK, ProcStates
    <2>3. procs[u].job # procs[p].job
      BY <2>1, <2>2 DEF LeaseInv, OneRunnerPerJob, Running
    <2> QED  BY <1>2, <2>1, <2>2, <2>3 DEF LeaseTypeOK
  <1>5. RunnerHoldsLease'
    BY <1>4 DEF LeaseInv, RunnerHoldsLease
  <1>6. OneRunnerPerJob'
    <2> SUFFICES ASSUME NEW j \in Jobs, NEW u \in Procs, NEW v \in Procs,
                        procs'[u].job = j, procs'[v].job = j
                 PROVE  u = v
      BY DEF OneRunnerPerJob, Running
    <2>1. j # NoJob
      BY QueueNamesAssumption
    <2>2. procs[u].job = j /\ procs[v].job = j
      BY <1>4, <2>1
    <2> QED  BY <2>2 DEF LeaseInv, OneRunnerPerJob, Running
  <1>7. \A u \in Procs : procs'[u].job # NoJob => jobs'[procs'[u].job].age <= procs'[u].age
    BY <1>4 DEF LeaseInv
  <1> QED  BY <1>3, <1>5, <1>6, <1>7 DEF LeaseInv

\* Without administrators, every step preserves LeaseInv.
LEMMA LeaseStep ==
    ASSUME ~AdminOps PROVE LeaseInv /\ [QueueNext]_queueVars => LeaseInv'
  <1> SUFFICES ASSUME LeaseInv, [QueueNext]_queueVars PROVE LeaseInv'
    OBVIOUS
  <1>1. /\ LeaseTypeOK
        /\ \A j \in Jobs : jobs[j] \in JobRows
        /\ \A p \in Procs : procs[p] \in ProcStates /\ procs[p].job \in Jobs \cup {NoJob}
                            /\ procs[p].attempts \in Nat /\ procs[p].age \in Nat
                            /\ name[p] \in Names
    BY DEF LeaseInv, LeaseTypeOK, ProcStates
  <1>2. ASSUME NEW p \in Procs, NEW j \in Jobs, Claim(p, j) PROVE LeaseInv'
    <2> DEFINE row == Leased(jobs[j], name[p])
               run == [up |-> TRUE, job |-> j, attempts |-> jobs[j].attempts + 1, age |-> 0]
    <2>1. /\ jobs' = [jobs EXCEPT ![j] = row] /\ procs' = [procs EXCEPT ![p] = run]
          /\ UNCHANGED <<name, requests>>
          /\ procs[p].job = NoJob /\ (Stale(p, j) \/ Ready(j))
      BY <1>2 DEF Claim
    <2>2. /\ row \in JobRows /\ row.status = "running" /\ row.lockedBy = name[p]
          /\ row.age = 0 /\ row.attempts = jobs[j].attempts + 1
      BY <1>1, ClaimedRow
    <2>3. /\ run \in ProcStates /\ run.job = j /\ run.age = 0
          /\ run.attempts = jobs[j].attempts + 1
      BY <1>1 DEF JobRows, ProcStates
    <2> HIDE DEF row, run
    <2>4. \A q \in Procs : procs[q].job # j
      BY <2>1, RunIsNotClaimable DEF Running
    <2>5. /\ jobs'[j] = row /\ procs'[p] = run
          /\ \A i \in Jobs : i # j => jobs'[i] = jobs[i]
          /\ \A q \in Procs : q # p => procs'[q] = procs[q]
      BY <1>1, <2>1 DEF LeaseTypeOK
    <2>6. LeaseTypeOK'
      <3>1. jobs' \in [Jobs -> JobRows] /\ procs' \in [Procs -> ProcStates]
        BY <1>1, <2>1, <2>2, <2>3 DEF LeaseTypeOK
      <3>2. \A q \in Procs : procs'[q].age <= HandlerTimeout
        BY <1>1, <2>3, <2>5, LeaseAssumption DEF LeaseTypeOK
      <3> QED  BY <1>1, <2>1, <3>1, <3>2 DEF LeaseTypeOK
    <2>7. ASSUME NEW q \in Procs, q # p, procs'[q].job # NoJob
          PROVE  procs'[q] = procs[q] /\ jobs'[procs[q].job] = jobs[procs[q].job]
                 /\ procs[q].job # j
      BY <1>1, <2>4, <2>5, <2>7
    <2>8. RunnerHoldsLease'
      <3> SUFFICES ASSUME NEW q \in Procs, procs'[q].job # NoJob
                   PROVE  /\ jobs'[procs'[q].job].status = "running"
                          /\ jobs'[procs'[q].job].lockedBy = name'[q]
                          /\ jobs'[procs'[q].job].attempts = procs'[q].attempts
        BY DEF RunnerHoldsLease
      <3>1. CASE q = p
        BY <2>1, <2>2, <2>3, <2>5, <3>1
      <3>2. CASE q # p
        BY <2>1, <2>7, <3>2 DEF LeaseInv, RunnerHoldsLease
      <3> QED  BY <3>1, <3>2
    <2>9. OneRunnerPerJob'
      <3> SUFFICES ASSUME NEW i \in Jobs, NEW u \in Procs, NEW v \in Procs,
                          procs'[u].job = i, procs'[v].job = i
                   PROVE  u = v
        BY DEF OneRunnerPerJob, Running
      <3>1. CASE i = j
        BY <2>4, <2>5, <3>1
      <3>2. CASE i # j
        <4>1. u # p /\ v # p
          BY <2>3, <2>5, <3>2
        <4> QED  BY <2>5, <4>1 DEF LeaseInv, OneRunnerPerJob, Running
      <3> QED  BY <3>1, <3>2
    <2>10. \A q \in Procs : procs'[q].job # NoJob => jobs'[procs'[q].job].age <= procs'[q].age
      <3> SUFFICES ASSUME NEW q \in Procs, procs'[q].job # NoJob
                   PROVE  jobs'[procs'[q].job].age <= procs'[q].age
        OBVIOUS
      <3>1. CASE q = p
        BY <2>2, <2>3, <2>5, <3>1
      <3>2. CASE q # p
        BY <2>7, <3>2 DEF LeaseInv
      <3> QED  BY <3>1, <3>2
    <2> QED  BY <2>1, <2>6, <2>8, <2>9, <2>10 DEF LeaseInv
  <1>3. ASSUME NEW p \in Procs, Complete(p) PROVE LeaseInv'
    <2>1. \E r \in JobRows : jobs' = [jobs EXCEPT ![procs[p].job] = r]
      BY <1>1, <1>3, WrittenRows DEF Complete, JobStatus
    <2>2. name' = [name EXCEPT ![p] = name[p]]
      BY <1>1, <1>3 DEF Complete, LeaseTypeOK
    <2> QED  BY <1>1, <1>3, <2>1, <2>2, ReleaseKeepsLease DEF Complete
  <1>4. ASSUME NEW p \in Procs, Fail(p) PROVE LeaseInv'
    <2>1. Backoff(procs[p].attempts) \in Nat
      BY <1>1, BackoffIsADelay
    <2>2. \E r \in JobRows : jobs' = [jobs EXCEPT ![procs[p].job] = r]
      <3> DEFINE j == procs[p].job
                 r == IF GivenUp(p) THEN Unlocked(jobs[j], "failed")
                      ELSE [Unlocked(jobs[j], "retry") EXCEPT !.delay = Backoff(procs[p].attempts)]
      <3>1. j \in Jobs
        BY <1>1, <1>4 DEF Fail
      <3>2. jobs' = [jobs EXCEPT ![j] = r]
        BY <1>1, <1>4 DEF Fail
      <3>3. {"failed", "retry"} \subseteq JobStatus
        BY DEF JobStatus
      <3>4. r \in JobRows
        BY <1>1, <2>1, <3>1, <3>3, WrittenRows
      <3> QED  BY <3>2, <3>4
    <2>3. name' = [name EXCEPT ![p] = name[p]]
      BY <1>1, <1>4 DEF Fail, LeaseTypeOK
    <2> QED  BY <1>1, <1>4, <2>2, <2>3, ReleaseKeepsLease DEF Fail
  <1>5. ASSUME NEW p \in Procs, StatusWriteLost(p) \/ Crash(p) PROVE LeaseInv'
    <2>1. \E q \in {Idle, Down} : procs' = [procs EXCEPT ![p] = q]
      BY <1>5 DEF StatusWriteLost, Crash
    <2>2. UNCHANGED <<jobs, requests>> /\ name' = [name EXCEPT ![p] = name[p]]
      BY <1>1, <1>5 DEF StatusWriteLost, Crash, LeaseTypeOK
    <2> QED  BY <1>1, <2>1, <2>2, ReleaseKeepsLease
  <1>6. ASSUME NEW p \in Procs, Restart(p) PROVE LeaseInv'
    <2>1. \E n \in Names : name' = [name EXCEPT ![p] = n]
      BY <1>1, <1>6 DEF Restart
    <2> QED  BY <1>6, <2>1, ReleaseKeepsLease DEF Restart
  <1>7. ASSUME NEW j \in Jobs, EnqueueJob(j) PROVE LeaseInv'
    <2> DEFINE row == [jobs[j] EXCEPT !.status = "queued"]
    <2>1. /\ jobs' = [jobs EXCEPT ![j] = row] /\ UNCHANGED <<procs, name, requests>>
          /\ jobs[j].status = "none"
      BY <1>7 DEF EnqueueJob
    <2>2. row \in JobRows
      BY <1>1, WrittenRows
    <2> HIDE DEF row
    <2>3. LeaseTypeOK'
      BY <1>1, <2>1, <2>2 DEF LeaseTypeOK
    <2>4. \A q \in Procs : procs[q].job # NoJob => jobs'[procs[q].job] = jobs[procs[q].job]
      <3> SUFFICES ASSUME NEW q \in Procs, procs[q].job # NoJob
                   PROVE  jobs'[procs[q].job] = jobs[procs[q].job]
        OBVIOUS
      <3>1. procs[q].job \in Jobs /\ procs[q].job # j
        BY <1>1, <2>1 DEF LeaseInv, RunnerHoldsLease
      <3> QED  BY <1>1, <2>1, <3>1 DEF LeaseTypeOK
    <2> QED  BY <2>1, <2>3, <2>4 DEF LeaseInv, RunnerHoldsLease, OneRunnerPerJob, Running
  <1>8. ASSUME NEW j \in Jobs,
               \/ AdminRetryRead(j) \/ AdminCancelRead(j) \/ AdminRetryJob(j) \/ AdminCancelJob(j)
        PROVE  LeaseInv'
    BY <1>8 DEF AdminRetryRead, AdminCancelRead, AdminRetryJob, AdminCancelJob, AdminRead,
                AdminWrite, LeaseInv
  <1>9. CASE Tick
    <2>1. /\ UNCHANGED <<name, requests>> /\ InTime
          /\ \A p \in Procs : procs'[p] = IF procs[p].job # NoJob
                                THEN [procs[p] EXCEPT !.age = @ + 1] ELSE procs[p]
          /\ procs' = [p \in Procs |-> procs'[p]]
      BY <1>9 DEF Tick
    <2>2. ASSUME NEW p \in Procs
          PROVE  /\ procs'[p] \in ProcStates /\ procs'[p].job = procs[p].job
                 /\ procs'[p].attempts = procs[p].attempts
                 /\ procs'[p].age = IF procs[p].job # NoJob THEN procs[p].age + 1 ELSE procs[p].age
      BY <1>1, <2>1 DEF ProcStates
    <2>3. ASSUME NEW j \in Jobs
          PROVE  /\ jobs'[j] \in JobRows /\ jobs'[j].status = jobs[j].status
                 /\ jobs'[j].lockedBy = jobs[j].lockedBy /\ jobs'[j].attempts = jobs[j].attempts
                 /\ jobs'[j].age <= jobs[j].age + 1
      <3> DEFINE a == IF jobs[j].status = "running" /\ jobs[j].age <= Lease
                      THEN jobs[j].age + 1 ELSE jobs[j].age
                 d == IF jobs[j].delay > 0 THEN jobs[j].delay - 1 ELSE jobs[j].delay
      <3>1. jobs'[j] = [jobs[j] EXCEPT !.age = a, !.delay = d]
        BY <1>1, <1>9 DEF Tick, JobRows
      <3>2. a \in Nat /\ a <= jobs[j].age + 1 /\ d \in Nat
        BY <1>1 DEF JobRows
      <3> HIDE DEF a, d
      <3> QED  BY <1>1, <3>1, <3>2 DEF JobRows
    <2>4. jobs' = [j \in Jobs |-> jobs'[j]]
      BY <1>9 DEF Tick
    <2>5. LeaseTypeOK'
      <3>1. jobs' \in [Jobs -> JobRows]
        BY <2>3, <2>4
      <3>2. procs' \in [Procs -> ProcStates]
        BY <2>1, <2>2
      <3>3. ASSUME NEW p \in Procs PROVE procs'[p].age <= HandlerTimeout
        <4>1. CASE procs[p].job # NoJob
          <5>1. procs[p].age < HandlerTimeout
            BY <2>1, <4>1 DEF InTime
          <5> QED  BY <1>1, <2>2, <4>1, <5>1, LeaseAssumption
        <4>2. CASE procs[p].job = NoJob
          BY <1>1, <2>2, <4>2 DEF LeaseTypeOK
        <4> QED  BY <4>1, <4>2
      <3> QED  BY <1>1, <2>1, <3>1, <3>2, <3>3 DEF LeaseTypeOK
    <2>6. RunnerHoldsLease'
      BY <1>1, <2>1, <2>2, <2>3 DEF LeaseInv, RunnerHoldsLease
    <2>7. OneRunnerPerJob'
      BY <2>2 DEF LeaseInv, OneRunnerPerJob, Running
    <2>8. ASSUME NEW p \in Procs, procs'[p].job # NoJob
          PROVE  jobs'[procs'[p].job].age <= procs'[p].age
      <3> DEFINE j == procs[p].job
      <3>1. j \in Jobs /\ j # NoJob /\ procs'[p].job = j
        BY <1>1, <2>2, <2>8
      <3>2. jobs[j].age <= procs[p].age
        BY <3>1 DEF LeaseInv
      <3>3. jobs'[j].age <= jobs[j].age + 1 /\ procs'[p].age = procs[p].age + 1
        BY <2>2, <2>3, <3>1
      <3>4. jobs'[j].age \in Nat /\ jobs[j].age \in Nat /\ procs[p].age \in Nat
        BY <1>1, <2>3, <3>1 DEF JobRows
      <3> HIDE DEF j
      <3>5. jobs'[j].age <= procs'[p].age
        BY <3>2, <3>3, <3>4
      <3> QED  BY <3>1, <3>5
    <2> QED  BY <2>1, <2>5, <2>6, <2>7, <2>8 DEF LeaseInv
  <1>10. CASE UNCHANGED queueVars
    BY <1>10 DEF queueVars, LeaseInv, LeaseTypeOK, RunnerHoldsLease, OneRunnerPerJob, Running
  <1> QED
    BY <1>2, <1>3, <1>4, <1>5, <1>6, <1>7, <1>8, <1>9, <1>10 DEF QueueNext, ProcStep, JobStep

\* Initially nobody holds a job.
LEMMA LeaseInit == QueueInit => LeaseInv
  <1> SUFFICES ASSUME QueueInit PROVE LeaseInv
    OBVIOUS
  <1>1. \A p \in Procs : procs[p] \in ProcStates /\ procs[p].job = NoJob /\ procs[p].age = 0
    BY FreeProcess DEF QueueInit
  <1>2. LeaseTypeOK
    <2>1. jobs \in [Jobs -> JobRows]
      BY DEF QueueInit, JobRows, JobStatus
    <2>2. procs \in [Procs -> ProcStates]
      BY <1>1 DEF QueueInit
    <2>3. \A p \in Procs : procs[p].age <= HandlerTimeout
      BY <1>1, LeaseAssumption
    <2> QED  BY <2>1, <2>2, <2>3, QueueNamesAssumption DEF QueueInit, LeaseTypeOK
  <1> QED
    BY <1>1, <1>2, QueueNamesAssumption
       DEF LeaseInv, RunnerHoldsLease, OneRunnerPerJob, Running, QueueInit

\* As long as no administrator retries or cancels a job, a job is in the hands of
\* at most one process, for any number of workers on any hosts, through crashes,
\* restarts under other names and lost status writes (pollAndProcess).
THEOREM NobodySharesAJob == ASSUME ~AdminOps PROVE QueueSpec => []OneRunnerPerJob
  <1>1. LeaseInv => OneRunnerPerJob
    BY DEF LeaseInv
  <1>2. LeaseInv /\ [QueueNext]_queueVars => LeaseInv'
    BY LeaseStep
  <1> QED  BY <1>1, <1>2, LeaseInit, PTL DEF QueueSpec

\* Under the same condition what a process holds is what the table says, so that
\* fail decides on the attempt that was really made (fail, complete).
THEOREM RunnersHoldTheirLease == ASSUME ~AdminOps PROVE QueueSpec => []RunnerHoldsLease
  <1>1. LeaseInv => RunnerHoldsLease
    BY DEF LeaseInv
  <1>2. LeaseInv /\ [QueueNext]_queueVars => LeaseInv'
    BY LeaseStep
  <1> QED  BY <1>1, <1>2, LeaseInit, PTL DEF QueueSpec

\* Without administrators a result is final: only rows in the hands of their
\* process are written, and those are running (complete, fail, pollAndProcess).
THEOREM SuccessStays == ASSUME ~AdminOps PROVE QueueSpec => SuccessIsFinal
  <1>1. LeaseInv /\ [QueueNext]_queueVars
            => [\A j \in Jobs : jobs[j].status = "success" => jobs'[j].status = "success"]_queueVars
    <2> SUFFICES ASSUME LeaseInv, QueueNext, NEW j \in Jobs, jobs[j].status = "success"
                 PROVE  jobs'[j].status = "success"
      OBVIOUS
    <2>1. jobs \in [Jobs -> JobRows] /\ requests = {}
      BY DEF LeaseInv, LeaseTypeOK
    <2>2. \A p \in Procs : procs[p].job # NoJob => procs[p].job # j
      BY DEF LeaseInv, RunnerHoldsLease
    <2>3. ASSUME NEW p \in Procs, ProcStep(p) PROVE jobs'[j] = jobs[j]
      BY <2>1, <2>2, <2>3
         DEF ProcStep, Claim, Stale, Ready, Complete, Fail, StatusWriteLost, Crash, Restart
    <2>4. ASSUME NEW i \in Jobs, JobStep(i) PROVE jobs'[j] = jobs[j]
      BY <2>1, <2>4 DEF JobStep, EnqueueJob, AdminRetryRead, AdminCancelRead, AdminRead,
                        AdminRetryJob, AdminCancelJob, AdminWrite
    <2>5. CASE Tick
      <3> DEFINE a == IF jobs[j].status = "running" /\ jobs[j].age <= Lease
                      THEN jobs[j].age + 1 ELSE jobs[j].age
                 d == IF jobs[j].delay > 0 THEN jobs[j].delay - 1 ELSE jobs[j].delay
      <3>1. jobs'[j] = [jobs[j] EXCEPT !.age = a, !.delay = d]
        BY <2>1, <2>5 DEF Tick, JobRows
      <3> HIDE DEF a, d
      <3> QED  BY <2>1, <3>1 DEF JobRows
    <2> QED  BY <2>3, <2>4, <2>5 DEF QueueNext
  <1>2. LeaseInv /\ [QueueNext]_queueVars => LeaseInv'
    BY LeaseStep
  <1> QED  BY <1>1, <1>2, LeaseInit, PTL DEF QueueSpec, SuccessIsFinal

-----------------------------------------------------------------------------
\* What NotGivenUpEarly needs, administrators or not: the attempt a process
\* decides on is not ahead of the row, which only counts up.
AttemptsInv ==
    /\ LeaseTypeOK
    /\ \A p \in Procs : procs[p].job # NoJob => procs[p].attempts <= jobs[procs[p].job].attempts
    /\ NotGivenUpEarly

\* The row of a job after a step: its attempts have not gone down, and it has
\* not failed early.
RowMoves(j) ==
    /\ jobs'[j] \in JobRows
    /\ jobs'[j].attempts >= jobs[j].attempts
    /\ jobs'[j].status = "failed" =>
          jobs[j].status = "failed" \/ jobs[j].attempts >= MaxAttempts

\* What a process holds after a step: nothing, what it held, or what it claimed.
ProcMoves(p) ==
    /\ procs'[p] \in ProcStates /\ procs'[p].age <= HandlerTimeout
    /\ \/ procs'[p].job = NoJob
       \/ procs'[p].job = procs[p].job /\ procs'[p].attempts = procs[p].attempts
       \/ procs'[p].job # NoJob /\ procs'[p].attempts = jobs'[procs'[p].job].attempts

\* One row is written with the same attempts.
LEMMA WriteMoves ==
    ASSUME AttemptsInv, NEW j \in Jobs, NEW r \in JobRows, jobs' = [jobs EXCEPT ![j] = r],
           r.attempts = jobs[j].attempts,
           r.status = "failed" => jobs[j].attempts >= MaxAttempts
    PROVE  jobs' \in [Jobs -> JobRows] /\ \A i \in Jobs : RowMoves(i)
  <1>1. jobs \in [Jobs -> JobRows]
    BY DEF AttemptsInv, LeaseTypeOK
  <1>2. \A i \in Jobs : jobs[i].attempts \in Nat
    BY <1>1 DEF JobRows
  <1> QED  BY <1>1, <1>2 DEF RowMoves

\* A process lets go of its job.
LEMMA FreeMoves ==
    ASSUME AttemptsInv, NEW p \in Procs, NEW q \in {Idle, Down}, procs' = [procs EXCEPT ![p] = q]
    PROVE  procs' \in [Procs -> ProcStates] /\ \A u \in Procs : ProcMoves(u)
  <1>1. procs \in [Procs -> ProcStates] /\ \A u \in Procs : procs[u].age <= HandlerTimeout
    BY DEF AttemptsInv, LeaseTypeOK
  <1>2. q \in ProcStates /\ q.job = NoJob /\ q.age = 0
    BY FreeProcess
  <1> QED  BY <1>1, <1>2, LeaseAssumption DEF ProcMoves

\* Rows with other fields written keep their attempts.
LEMMA AttemptsOfRows ==
    ASSUME NEW r \in JobRows, NEW s \in JobStatus
    PROVE  /\ Unlocked(r, s) \in JobRows /\ [r EXCEPT !.status = s] \in JobRows
           /\ Unlocked(r, s).attempts = r.attempts /\ Unlocked(r, s).status = s
           /\ [r EXCEPT !.status = s].attempts = r.attempts
           /\ [r EXCEPT !.status = s].status = s
           /\ \A d \in Nat : /\ [Unlocked(r, s) EXCEPT !.delay = d] \in JobRows
                             /\ [Unlocked(r, s) EXCEPT !.delay = d].attempts = r.attempts
                             /\ [Unlocked(r, s) EXCEPT !.delay = d].status = s
  <1>1. Unlocked(r, s) \in JobRows
    BY WrittenRows
  <1>2. Unlocked(r, s).attempts = r.attempts /\ Unlocked(r, s).status = s
    BY DEF JobRows, Unlocked
  <1>3. /\ [r EXCEPT !.status = s] \in JobRows
        /\ [r EXCEPT !.status = s].attempts = r.attempts
        /\ [r EXCEPT !.status = s].status = s
    BY DEF JobRows
  <1>4. ASSUME NEW d \in Nat
        PROVE  /\ [Unlocked(r, s) EXCEPT !.delay = d] \in JobRows
               /\ [Unlocked(r, s) EXCEPT !.delay = d].attempts = r.attempts
               /\ [Unlocked(r, s) EXCEPT !.delay = d].status = s
    BY <1>1, <1>2 DEF JobRows
  <1> QED  BY <1>1, <1>2, <1>3, <1>4

\* Every step moves rows and processes in these ways only.
LEMMA AttemptsMoves ==
    ASSUME AttemptsInv, [QueueNext]_queueVars
    PROVE  /\ jobs' \in [Jobs -> JobRows] /\ \A j \in Jobs : RowMoves(j)
           /\ procs' \in [Procs -> ProcStates] /\ \A p \in Procs : ProcMoves(p)
           /\ name' \in [Procs -> Names]
  <1>1. /\ jobs \in [Jobs -> JobRows] /\ procs \in [Procs -> ProcStates]
        /\ \A j \in Jobs : jobs[j] \in JobRows /\ jobs[j].attempts \in Nat
        /\ \A p \in Procs : /\ procs[p] \in ProcStates /\ procs[p].job \in Jobs \cup {NoJob}
                            /\ procs[p].attempts \in Nat /\ procs[p].age \in Nat
                            /\ procs[p].age <= HandlerTimeout
        /\ name \in [Procs -> Names]
    BY DEF AttemptsInv, LeaseTypeOK, ProcStates, JobRows
  <1>2. UNCHANGED jobs => jobs' \in [Jobs -> JobRows] /\ \A j \in Jobs : RowMoves(j)
    BY <1>1 DEF RowMoves
  <1>3. UNCHANGED procs => procs' \in [Procs -> ProcStates] /\ \A p \in Procs : ProcMoves(p)
    BY <1>1 DEF ProcMoves
  <1>4. ASSUME NEW p \in Procs, NEW j \in Jobs, Claim(p, j)
        PROVE  /\ jobs' \in [Jobs -> JobRows] /\ \A i \in Jobs : RowMoves(i)
               /\ procs' \in [Procs -> ProcStates] /\ \A u \in Procs : ProcMoves(u)
               /\ UNCHANGED name
    <2> DEFINE row == Leased(jobs[j], name[p])
               n == jobs[j].attempts + 1
               r == [up |-> TRUE, job |-> j, attempts |-> n, age |-> 0]
    <2>1. jobs' = [jobs EXCEPT ![j] = row] /\ procs' = [procs EXCEPT ![p] = r] /\ UNCHANGED name
      BY <1>4 DEF Claim
    <2>2. row \in JobRows /\ row.status = "running" /\ row.attempts = n /\ n \in Nat
      BY <1>1, ClaimedRow
    <2>3. n >= jobs[j].attempts
      BY <1>1
    <2> HIDE DEF n
    <2>4. r \in ProcStates /\ r.job = j /\ r.attempts = n /\ r.age = 0
      BY <2>2 DEF ProcStates
    <2> HIDE DEF row, r
    <2>5. jobs' \in [Jobs -> JobRows] /\ \A i \in Jobs : RowMoves(i)
      BY <1>1, <2>1, <2>2, <2>3 DEF RowMoves
    <2>6. procs' \in [Procs -> ProcStates]
      BY <1>1, <2>1, <2>4
    <2>7. ASSUME NEW u \in Procs PROVE ProcMoves(u)
      <3>1. CASE u = p
        <4>1. procs'[p] = r /\ jobs'[j] = row
          BY <1>1, <2>1
        <4> QED
          BY <2>2, <2>4, <3>1, <4>1, LeaseAssumption, QueueNamesAssumption DEF ProcMoves
      <3>2. CASE u # p
        <4>1. procs'[u] = procs[u]
          BY <1>1, <2>1, <3>2
        <4> QED  BY <1>1, <4>1 DEF ProcMoves
      <3> QED  BY <3>1, <3>2
    <2> QED  BY <2>1, <2>5, <2>6, <2>7
  <1>5. ASSUME NEW p \in Procs, Complete(p) \/ Fail(p)
        PROVE  /\ jobs' \in [Jobs -> JobRows] /\ \A i \in Jobs : RowMoves(i)
               /\ procs' \in [Procs -> ProcStates] /\ \A u \in Procs : ProcMoves(u)
               /\ UNCHANGED name
    <2>1. PICK j \in Jobs : j = procs[p].job
      BY <1>1, <1>5 DEF Complete, Fail
    <2>2. procs[p].attempts <= jobs[j].attempts
      BY <2>1, QueueNamesAssumption DEF AttemptsInv
    <2>3. Backoff(procs[p].attempts) \in Nat
      BY <1>1, BackoffIsADelay
    <2>4. {"success", "failed", "retry"} \subseteq JobStatus
      BY DEF JobStatus
    <2>5. PICK r \in JobRows : /\ jobs' = [jobs EXCEPT ![j] = r]
                               /\ r.attempts = jobs[j].attempts
                               /\ r.status = "failed" => GivenUp(p)
      <3>1. CASE Complete(p)
        <4>1. jobs' = [jobs EXCEPT ![j] = Unlocked(jobs[j], "success")]
          BY <1>1, <2>1, <3>1 DEF Complete
        <4>2. /\ Unlocked(jobs[j], "success") \in JobRows
              /\ Unlocked(jobs[j], "success").attempts = jobs[j].attempts
              /\ Unlocked(jobs[j], "success").status = "success"
          <5>1. jobs[j] \in JobRows /\ "success" \in JobStatus
            BY <1>1, <2>4
          <5> QED  BY <5>1, AttemptsOfRows
        <4> QED  BY <4>1, <4>2
      <3>2. CASE Fail(p) /\ GivenUp(p)
        <4>1. jobs' = [jobs EXCEPT ![j] = Unlocked(jobs[j], "failed")]
          BY <1>1, <2>1, <3>2 DEF Fail
        <4>2. /\ Unlocked(jobs[j], "failed") \in JobRows
              /\ Unlocked(jobs[j], "failed").attempts = jobs[j].attempts
          <5>1. jobs[j] \in JobRows /\ "failed" \in JobStatus
            BY <1>1, <2>4
          <5> QED  BY <5>1, AttemptsOfRows
        <4> QED  BY <3>2, <4>1, <4>2
      <3>3. CASE Fail(p) /\ ~GivenUp(p)
        <4>1. jobs' = [jobs EXCEPT ![j] = [Unlocked(jobs[j], "retry")
                                           EXCEPT !.delay = Backoff(procs[p].attempts)]]
          BY <1>1, <2>1, <3>3 DEF Fail
        <4>2. PICK d \in Nat : d = Backoff(procs[p].attempts)
          BY <2>3
        <4>3. /\ [Unlocked(jobs[j], "retry") EXCEPT !.delay = d] \in JobRows
              /\ [Unlocked(jobs[j], "retry") EXCEPT !.delay = d].attempts = jobs[j].attempts
              /\ [Unlocked(jobs[j], "retry") EXCEPT !.delay = d].status = "retry"
          <5>1. jobs[j] \in JobRows /\ "retry" \in JobStatus
            BY <1>1, <2>4
          <5> QED  BY <5>1, AttemptsOfRows
        <4> QED  BY <4>1, <4>2, <4>3
      <3> QED  BY <1>5, <3>1, <3>2, <3>3
    <2>6. r.status = "failed" => jobs[j].attempts >= MaxAttempts
      BY <1>1, <2>2, <2>5, QueueBoundsAssumption DEF GivenUp
    <2>7. jobs' \in [Jobs -> JobRows] /\ \A i \in Jobs : RowMoves(i)
      BY <2>5, <2>6, WriteMoves
    <2> QED  BY <1>5, <2>7, FreeMoves DEF Complete, Fail
  <1>6. ASSUME NEW p \in Procs, StatusWriteLost(p) \/ Crash(p) \/ Restart(p)
        PROVE  /\ UNCHANGED jobs /\ name' \in [Procs -> Names]
               /\ procs' \in [Procs -> ProcStates] /\ \A u \in Procs : ProcMoves(u)
    <2>1. \E q \in {Idle, Down} : procs' = [procs EXCEPT ![p] = q]
      BY <1>6 DEF StatusWriteLost, Crash, Restart
    <2>2. UNCHANGED jobs /\ name' \in [Procs -> Names]
      BY <1>1, <1>6 DEF StatusWriteLost, Crash, Restart
    <2> QED  BY <2>1, <2>2, FreeMoves
  <1>7. ASSUME NEW j \in Jobs, JobStep(j)
        PROVE  /\ jobs' \in [Jobs -> JobRows] /\ \A i \in Jobs : RowMoves(i)
               /\ UNCHANGED <<procs, name>>
    <2>1. {"queued", "cancelled"} \subseteq JobStatus
      BY DEF JobStatus
    <2>2. CASE EnqueueJob(j)
      <3>1. jobs' = [jobs EXCEPT ![j] = [jobs[j] EXCEPT !.status = "queued"]]
        BY <2>2 DEF EnqueueJob
      <3>2. /\ [jobs[j] EXCEPT !.status = "queued"] \in JobRows
            /\ [jobs[j] EXCEPT !.status = "queued"].attempts = jobs[j].attempts
            /\ [jobs[j] EXCEPT !.status = "queued"].status = "queued"
        BY <1>1, <2>1, AttemptsOfRows
      <3> QED  BY <2>2, <3>1, <3>2, WriteMoves DEF EnqueueJob
    <2>3. CASE AdminRetryRead(j) \/ AdminCancelRead(j)
      BY <1>2, <2>3 DEF AdminRetryRead, AdminCancelRead, AdminRead
    <2>4. CASE AdminRetryJob(j)
      <3> DEFINE r == [Unlocked(jobs[j], "queued") EXCEPT !.delay = 0]
      <3>1. jobs' = [jobs EXCEPT ![j] = r]
        BY <2>4 DEF AdminRetryJob, AdminWrite
      <3>2. r \in JobRows /\ r.attempts = jobs[j].attempts /\ r.status = "queued"
        <4>1. jobs[j] \in JobRows /\ "queued" \in JobStatus /\ 0 \in Nat
          BY <1>1, <2>1
        <4>2. \A d \in Nat : /\ [Unlocked(jobs[j], "queued") EXCEPT !.delay = d] \in JobRows
                             /\ [Unlocked(jobs[j], "queued") EXCEPT !.delay = d].attempts
                                    = jobs[j].attempts
                             /\ [Unlocked(jobs[j], "queued") EXCEPT !.delay = d].status = "queued"
          BY <4>1, AttemptsOfRows
        <4> QED  BY <4>1, <4>2
      <3> HIDE DEF r
      <3> QED  BY <2>4, <3>1, <3>2, WriteMoves DEF AdminRetryJob, AdminWrite
    <2>5. CASE AdminCancelJob(j)
      <3>1. jobs' = [jobs EXCEPT ![j] = [jobs[j] EXCEPT !.status = "cancelled"]]
        BY <2>5 DEF AdminCancelJob, AdminWrite
      <3>2. /\ [jobs[j] EXCEPT !.status = "cancelled"] \in JobRows
            /\ [jobs[j] EXCEPT !.status = "cancelled"].attempts = jobs[j].attempts
            /\ [jobs[j] EXCEPT !.status = "cancelled"].status = "cancelled"
        BY <1>1, <2>1, AttemptsOfRows
      <3> QED  BY <2>5, <3>1, <3>2, WriteMoves DEF AdminCancelJob, AdminWrite
    <2> QED  BY <1>7, <2>2, <2>3, <2>4, <2>5 DEF JobStep
  <1>8. CASE Tick
    <2>1. UNCHANGED name /\ procs' \in [Procs -> ProcStates] /\ \A p \in Procs : ProcMoves(p)
      <3>1. /\ UNCHANGED name /\ InTime
            /\ procs' = [p \in Procs |-> IF procs[p].job # NoJob
                                         THEN [procs[p] EXCEPT !.age = @ + 1] ELSE procs[p]]
        BY <1>8 DEF Tick
      <3>2. ASSUME NEW p \in Procs
            PROVE  /\ procs'[p] \in ProcStates /\ procs'[p].job = procs[p].job
                   /\ procs'[p].attempts = procs[p].attempts
                   /\ procs'[p].age = IF procs[p].job # NoJob THEN procs[p].age + 1
                                                              ELSE procs[p].age
        BY <1>1, <3>1 DEF ProcStates
      <3>3. ASSUME NEW p \in Procs PROVE procs'[p].age <= HandlerTimeout
        BY <1>1, <3>1, <3>2, LeaseAssumption DEF InTime
      <3> QED  BY <3>1, <3>2, <3>3 DEF ProcMoves
    <2>2. ASSUME NEW j \in Jobs
          PROVE  /\ jobs'[j] \in JobRows /\ jobs'[j].attempts = jobs[j].attempts
                 /\ jobs'[j].status = jobs[j].status
      <3> DEFINE a == IF jobs[j].status = "running" /\ jobs[j].age <= Lease
                      THEN jobs[j].age + 1 ELSE jobs[j].age
                 d == IF jobs[j].delay > 0 THEN jobs[j].delay - 1 ELSE jobs[j].delay
      <3>1. jobs'[j] = [jobs[j] EXCEPT !.age = a, !.delay = d]
        BY <1>1, <1>8 DEF Tick, JobRows
      <3>2. a \in Nat /\ d \in Nat
        BY <1>1 DEF JobRows
      <3> HIDE DEF a, d
      <3> QED  BY <1>1, <3>1, <3>2 DEF JobRows
    <2>3. jobs' = [j \in Jobs |-> jobs'[j]]
      BY <1>8 DEF Tick
    <2> QED  BY <1>1, <2>1, <2>2, <2>3 DEF RowMoves
  <1>9. CASE UNCHANGED queueVars
    BY <1>1, <1>2, <1>3, <1>9 DEF queueVars
  <1>10. ASSUME NEW p \in Procs, ProcStep(p)
         PROVE  /\ jobs' \in [Jobs -> JobRows] /\ \A j \in Jobs : RowMoves(j)
                /\ procs' \in [Procs -> ProcStates] /\ \A u \in Procs : ProcMoves(u)
                /\ name' \in [Procs -> Names]
    <2>1. CASE \E j \in Jobs : Claim(p, j)
      BY <1>1, <1>4, <2>1
    <2>2. CASE Complete(p) \/ Fail(p)
      BY <1>1, <1>5, <2>2
    <2>3. CASE StatusWriteLost(p) \/ Crash(p) \/ Restart(p)
      BY <1>2, <1>6, <2>3
    <2> QED  BY <1>10, <2>1, <2>2, <2>3 DEF ProcStep
  <1>11. ASSUME NEW j \in Jobs, JobStep(j)
         PROVE  /\ jobs' \in [Jobs -> JobRows] /\ \A i \in Jobs : RowMoves(i)
                /\ procs' \in [Procs -> ProcStates] /\ \A u \in Procs : ProcMoves(u)
                /\ name' \in [Procs -> Names]
    BY <1>1, <1>3, <1>7, <1>11
  <1> QED  BY <1>1, <1>8, <1>9, <1>10, <1>11 DEF QueueNext

LEMMA AttemptsInit == QueueInit => AttemptsInv
  <1> SUFFICES ASSUME QueueInit PROVE AttemptsInv
    OBVIOUS
  <1>1. LeaseTypeOK
    BY LeaseInit DEF LeaseInv
  <1>2. /\ \A j \in Jobs : jobs[j].status = "none"
        /\ \A p \in Procs : procs[p].job = NoJob
    BY FreeProcess DEF QueueInit
  <1> QED  BY <1>1, <1>2 DEF AttemptsInv, NotGivenUpEarly

LEMMA AttemptsStep == AttemptsInv /\ [QueueNext]_queueVars => AttemptsInv'
  <1> SUFFICES ASSUME AttemptsInv, [QueueNext]_queueVars PROVE AttemptsInv'
    OBVIOUS
  <1>1. /\ jobs' \in [Jobs -> JobRows] /\ \A j \in Jobs : RowMoves(j)
        /\ procs' \in [Procs -> ProcStates] /\ \A p \in Procs : ProcMoves(p)
        /\ name' \in [Procs -> Names]
    BY AttemptsMoves
  <1>2. /\ \A j \in Jobs : jobs[j].attempts \in Nat /\ jobs'[j].attempts \in Nat
        /\ \A p \in Procs : /\ procs'[p].job \in Jobs \cup {NoJob}
                            /\ procs[p].attempts \in Nat
    BY <1>1 DEF AttemptsInv, LeaseTypeOK, JobRows, ProcStates
  <1>3. LeaseTypeOK'
    BY <1>1 DEF LeaseTypeOK, ProcMoves
  <1>4. ASSUME NEW p \in Procs, procs'[p].job # NoJob
        PROVE  procs'[p].attempts <= jobs'[procs'[p].job].attempts
    <2> DEFINE j == procs'[p].job
    <2>1. j \in Jobs /\ jobs'[j].attempts >= jobs[j].attempts
      BY <1>1, <1>2, <1>4 DEF RowMoves
    <2>2. CASE procs'[p].job = procs[p].job /\ procs'[p].attempts = procs[p].attempts
      <3>1. procs[p].attempts <= jobs[j].attempts
        BY <1>4, <2>2 DEF AttemptsInv
      <3> QED  BY <1>2, <2>1, <2>2, <3>1
    <2>3. CASE procs'[p].attempts = jobs'[procs'[p].job].attempts
      BY <1>2, <2>1, <2>3
    <2> QED  BY <1>1, <1>4, <2>2, <2>3 DEF ProcMoves
  <1>5. NotGivenUpEarly'
    <2> SUFFICES ASSUME NEW j \in Jobs, jobs'[j].status = "failed"
                 PROVE  jobs'[j].attempts >= MaxAttempts
      BY DEF NotGivenUpEarly
    <2>1. RowMoves(j)
      BY <1>1
    <2>2. jobs[j].attempts >= MaxAttempts
      BY <2>1 DEF RowMoves, AttemptsInv, NotGivenUpEarly
    <2> QED  BY <1>2, <2>1, <2>2, QueueBoundsAssumption DEF RowMoves
  <1> QED  BY <1>3, <1>4, <1>5 DEF AttemptsInv

\* No job is given up before its last attempt, whatever administrators, crashes
\* and lost writes have done to it in between (fail).
THEOREM NobodyGivesUpEarly == QueueSpec => []NotGivenUpEarly
  <1>1. AttemptsInv => NotGivenUpEarly
    BY DEF AttemptsInv
  <1> QED  BY <1>1, AttemptsInit, AttemptsStep, PTL DEF QueueSpec

\* The tables of the queue keep their shape, a worker never runs past the end of
\* its context, and no request of an administrator is about a job that is not
\* there (pollAndProcess, adminRetryJob, adminCancelJob).
THEOREM QueueTypeCorrect == QueueSpec => []QueueTypeOK
  <1> DEFINE Rest == /\ requests \subseteq [op : {"retry", "cancel"}, job : Jobs]
                     /\ faults \in 0 .. MaxFaults
  <1>1. QueueInit => Rest
    BY QueueBoundsAssumption DEF QueueInit
  <1>2. Rest /\ [QueueNext]_queueVars => Rest'
    <2> SUFFICES ASSUME Rest, [QueueNext]_queueVars PROVE Rest'
      OBVIOUS
    <2>1. MaxFaults \in Nat
      BY QueueBoundsAssumption
    <2>2. CASE Tick \/ UNCHANGED queueVars
      BY <2>2 DEF Tick, queueVars
    <2>3. ASSUME NEW p \in Procs, ProcStep(p) PROVE Rest'
      <3>1. CASE Fault /\ UNCHANGED requests
        BY <2>1, <3>1 DEF Fault
      <3>2. CASE UNCHANGED <<requests, faults>>
        BY <3>2
      <3> QED  BY <2>3, <3>1, <3>2 DEF ProcStep, Claim, Complete, Fail, StatusWriteLost, Crash,
                                       Restart
    <2>4. ASSUME NEW j \in Jobs, JobStep(j) PROVE Rest'
      BY <2>4 DEF JobStep, EnqueueJob, AdminRetryRead, AdminRetryJob, AdminCancelRead,
                  AdminCancelJob, AdminRead, AdminWrite
    <2> QED  BY <2>2, <2>3, <2>4 DEF QueueNext
  <1>3. AttemptsInv /\ Rest => QueueTypeOK
    BY DEF AttemptsInv, LeaseTypeOK, QueueTypeOK
  <1> HIDE DEF Rest
  <1> QED  BY <1>1, <1>2, <1>3, AttemptsInit, AttemptsStep, PTL DEF QueueSpec

-----------------------------------------------------------------------------
\* Deliveries, as long as no administrator interferes: what a call of Deliver has
\* read stays true for as long as it is under way, for nobody else runs its job.
CallInv(p) ==
    LET j == procs[p].job IN
    /\ phase[p] = "nil" => delivered[j] = TRUE
    /\ phase[p] \in {"post", "accepted", "refused"} => delivered[j] = FALSE
    /\ phase[p] = "accepted" => posts[j] > 0

HandlerTypeOK ==
    /\ phase \in [Procs -> Phases]
    /\ delivered \in [Jobs -> BOOLEAN]
    /\ posts \in [Jobs -> Nat]
    /\ \A p \in Procs : phase[p] = "idle" <=> procs[p].job = NoJob
    /\ \A p \in Procs : procs[p].job # NoJob => procs[p].up

DeliveryInv ==
    /\ LeaseInv
    /\ HandlerTypeOK
    /\ \A p \in Procs : procs[p].job # NoJob => CallInv(p)
    /\ \A j \in Jobs : delivered[j] = TRUE => posts[j] > 0
    /\ \A j \in Jobs : jobs[j].status = "success" => delivered[j] = TRUE

\* To the queue, a step of a delivery is a step of the queue or none at all.
LEMMA DeliveryIsQueueing == [DeliveryNext]_deliveryVars => [QueueNext]_queueVars
  BY DEF DeliveryNext, HandlerStep, Load, Post, PostFails, RecordAnswer, Interrupted,
         WorkerStep, QueueNext, ProcStep, deliveryVars

\* A failed attempt never leaves a job successful.
LEMMA FailIsNoSuccess ==
    ASSUME LeaseInv, NEW p \in Procs, Fail(p), NEW j \in Jobs, jobs[j].status # "success"
    PROVE  jobs'[j].status # "success"
  <1>1. jobs \in [Jobs -> JobRows] /\ \A i \in Jobs : jobs[i] \in JobRows
    BY DEF LeaseInv, LeaseTypeOK
  <1>2. {"failed", "retry"} \subseteq JobStatus
    BY DEF JobStatus
  <1>3. PICK i \in Jobs : i = procs[p].job
    BY DEF Fail, LeaseInv, LeaseTypeOK, ProcStates
  <1>4. Unlocked(jobs[i], "failed").status = "failed"
    BY <1>1, <1>2, AttemptsOfRows
  <1>5. [Unlocked(jobs[i], "retry") EXCEPT !.delay = Backoff(procs[p].attempts)].status = "retry"
    <2>1. Unlocked(jobs[i], "retry").status = "retry" /\ Unlocked(jobs[i], "retry") \in JobRows
      BY <1>1, <1>2, AttemptsOfRows
    <2> QED  BY <2>1 DEF JobRows
  <1>6. jobs'[j] = jobs[j] \/ jobs'[j] = Unlocked(jobs[i], "failed")
        \/ jobs'[j] = [Unlocked(jobs[i], "retry") EXCEPT !.delay = Backoff(procs[p].attempts)]
    BY <1>1, <1>3 DEF Fail
  <1> QED  BY <1>4, <1>5, <1>6

\* A job is marked as successful only by the process that runs it.
LEMMA OnlyCompleteSucceeds ==
    ASSUME LeaseInv, QueueNext, ~AdminOps, NEW j \in Jobs,
           jobs'[j].status = "success", jobs[j].status # "success"
    PROVE  \E p \in Procs : Complete(p) /\ procs[p].job = j
  <1>1. /\ jobs \in [Jobs -> JobRows] /\ requests = {}
        /\ \A i \in Jobs : jobs[i] \in JobRows
        /\ \A p \in Procs : name[p] \in Names /\ procs[p].attempts \in Nat
    BY DEF LeaseInv, LeaseTypeOK, ProcStates
  <1>2. {"queued", "failed", "retry"} \subseteq JobStatus
    BY DEF JobStatus
  <1>3. ASSUME NEW p \in Procs, NEW i \in Jobs, Claim(p, i) PROVE FALSE
    <2>1. jobs' = [jobs EXCEPT ![i] = Leased(jobs[i], name[p])]
      BY <1>3 DEF Claim
    <2>2. Leased(jobs[i], name[p]).status = "running"
      BY <1>1, ClaimedRow
    <2> QED  BY <1>1, <2>1, <2>2
  <1>4. ASSUME NEW p \in Procs, Fail(p) PROVE FALSE
    BY <1>4, FailIsNoSuccess
  <1>5. ASSUME NEW p \in Procs, Complete(p) PROVE procs[p].job = j
    BY <1>1, <1>5 DEF Complete, LeaseInv, LeaseTypeOK, ProcStates
  <1>6. ASSUME NEW p \in Procs, StatusWriteLost(p) \/ Crash(p) \/ Restart(p) PROVE FALSE
    BY <1>6 DEF StatusWriteLost, Crash, Restart
  <1>7. ASSUME NEW i \in Jobs, JobStep(i) PROVE FALSE
    <2>1. CASE EnqueueJob(i)
      <3>1. [jobs[i] EXCEPT !.status = "queued"].status = "queued"
        BY <1>1, <1>2, AttemptsOfRows
      <3> QED  BY <1>1, <2>1, <3>1 DEF EnqueueJob
    <2> QED
      BY <1>1, <1>7, <2>1 DEF JobStep, AdminRetryRead, AdminCancelRead, AdminRead,
                              AdminRetryJob, AdminCancelJob, AdminWrite
  <1>8. ASSUME Tick PROVE FALSE
    <2> DEFINE a == IF jobs[j].status = "running" /\ jobs[j].age <= Lease
                    THEN jobs[j].age + 1 ELSE jobs[j].age
               d == IF jobs[j].delay > 0 THEN jobs[j].delay - 1 ELSE jobs[j].delay
    <2>1. jobs'[j] = [jobs[j] EXCEPT !.age = a, !.delay = d]
      BY <1>1, <1>8 DEF Tick, JobRows
    <2> HIDE DEF a, d
    <2> QED  BY <1>1, <2>1 DEF JobRows
  <1> QED  BY <1>3, <1>4, <1>5, <1>6, <1>7, <1>8 DEF QueueNext, ProcStep

\* A call that is left alone goes on to know what it knew.
LEMMA CallKept ==
    ASSUME NEW p \in Procs, CallInv(p), phase'[p] = phase[p], procs'[p].job = procs[p].job,
           delivered'[procs[p].job] = delivered[procs[p].job],
           posts'[procs[p].job] = posts[procs[p].job]
    PROVE  CallInv(p)'
  BY DEF CallInv

\* Steps of Deliver: the queue stands still, and only the row of the job in the
\* hands of the process changes.
LEMMA HandlerStepKeeps ==
    ASSUME DeliveryInv, LeaseInv', NEW p \in Procs, HandlerStep(p) PROVE DeliveryInv'
  <1>1. UNCHANGED queueVars /\ procs[p].job # NoJob
    BY DEF HandlerStep, Load, Post, PostFails, RecordAnswer, Interrupted, Goto, DeliveryInv,
           HandlerTypeOK
  <1>2. PICK j \in Jobs : j = procs[p].job
    BY <1>1 DEF DeliveryInv, LeaseInv, LeaseTypeOK, ProcStates
  <1>3. UNCHANGED <<jobs, procs>> /\ HandlerTypeOK /\ CallInv(p)
    BY <1>1 DEF queueVars, DeliveryInv
  <1>4. /\ \A q \in Procs : q # p => procs[q].job # j
        /\ jobs[j].status # "success"
    BY <1>1, <1>2 DEF DeliveryInv, LeaseInv, OneRunnerPerJob, Running, RunnerHoldsLease
  <1>5. /\ phase' = [phase EXCEPT ![p] = phase'[p]] /\ phase'[p] \in Phases \ {"idle"}
        /\ delivered' = [delivered EXCEPT ![j] = delivered'[j]] /\ delivered'[j] \in BOOLEAN
        /\ posts' = [posts EXCEPT ![j] = posts'[j]] /\ posts'[j] \in Nat
        /\ posts'[j] >= posts[j]
    <2>1. CASE Load(p)
      BY <1>2, <1>3, <2>1 DEF Load, Goto, HandlerTypeOK, Phases
    <2>2. CASE Post(p)
      <3>1. PICK answer \in {"accepted", "refused"} : phase' = [phase EXCEPT ![p] = answer]
        BY <2>2 DEF Post, Goto
      <3>2. posts' = [posts EXCEPT ![j] = posts[j] + 1] /\ UNCHANGED delivered
        BY <1>2, <1>3, <2>2 DEF Post
      <3>3. posts[j] \in Nat
        BY <1>3 DEF HandlerTypeOK
      <3> QED  BY <1>3, <3>1, <3>2, <3>3 DEF HandlerTypeOK, Phases
    <2>3. CASE PostFails(p)
      BY <1>2, <1>3, <2>3 DEF PostFails, Goto, HandlerTypeOK, Phases
    <2>4. CASE RecordAnswer(p)
      <3>1. PICK to \in {"nil", "error"}, b \in BOOLEAN :
               /\ phase' = [phase EXCEPT ![p] = to]
               /\ delivered' = [delivered EXCEPT ![j] = b] /\ UNCHANGED posts
        BY <1>2, <2>4 DEF RecordAnswer, Goto
      <3> QED  BY <1>3, <3>1 DEF HandlerTypeOK, Phases
    <2>5. CASE Interrupted(p)
      BY <1>2, <1>3, <2>5 DEF Interrupted, HandlerTypeOK, Phases
    <2> QED  BY <2>1, <2>2, <2>3, <2>4, <2>5 DEF HandlerStep
  <1>6. /\ phase'[p] = "nil" => delivered'[j] = TRUE
        /\ phase'[p] \in {"post", "accepted", "refused"} => delivered'[j] = FALSE
        /\ phase'[p] = "accepted" => posts'[j] > 0
        /\ delivered'[j] = TRUE => posts'[j] > 0
    <2>1. delivered[j] \in BOOLEAN /\ posts[j] \in Nat /\ (delivered[j] = TRUE => posts[j] > 0)
      BY <1>3 DEF HandlerTypeOK, DeliveryInv
    <2>2. CASE Load(p)
      BY <1>2, <1>3, <2>1, <2>2 DEF Load, Goto, HandlerTypeOK, CallInv
    <2>3. CASE Post(p)
      <3>1. posts'[j] = posts[j] + 1 /\ delivered'[j] = FALSE /\ phase'[p] \in {"accepted", "refused"}
        BY <1>2, <1>3, <2>1, <2>3 DEF Post, Goto, HandlerTypeOK, CallInv
      <3> QED  BY <2>1, <3>1
    <2>4. CASE PostFails(p)
      BY <1>2, <1>3, <2>1, <2>4 DEF PostFails, Goto, HandlerTypeOK, CallInv
    <2>5. CASE RecordAnswer(p)
      BY <1>2, <1>3, <2>1, <2>5 DEF RecordAnswer, Goto, HandlerTypeOK, CallInv
    <2>6. CASE Interrupted(p)
      BY <1>2, <1>3, <2>1, <2>6 DEF Interrupted, HandlerTypeOK, CallInv
    <2> QED  BY <2>2, <2>3, <2>4, <2>5, <2>6 DEF HandlerStep
  <1>7. HandlerTypeOK'
    BY <1>1, <1>3, <1>5 DEF HandlerTypeOK
  <1>8. ASSUME NEW q \in Procs, procs'[q].job # NoJob PROVE CallInv(q)'
    <2>1. CASE q = p
      BY <1>2, <1>3, <1>6, <2>1 DEF CallInv
    <2>2. CASE q # p
      <3>1. procs[q].job \in Jobs /\ procs[q].job # j /\ CallInv(q)
        BY <1>3, <1>4, <1>8, <2>2 DEF DeliveryInv, LeaseInv, LeaseTypeOK, ProcStates
      <3> QED  BY <1>3, <1>5, <2>2, <3>1, CallKept DEF HandlerTypeOK
    <2> QED  BY <2>1, <2>2
  <1>9. \A i \in Jobs : delivered'[i] = TRUE => posts'[i] > 0
    BY <1>3, <1>5, <1>6 DEF HandlerTypeOK, DeliveryInv
  <1>10. \A i \in Jobs : jobs'[i].status = "success" => delivered'[i] = TRUE
    BY <1>3, <1>4, <1>5 DEF HandlerTypeOK, DeliveryInv
  <1> QED  BY <1>7, <1>8, <1>9, <1>10 DEF DeliveryInv

\* Steps of a worker: it enters a call, or leaves it.
LEMMA WorkerStepKeeps ==
    ASSUME DeliveryInv, LeaseInv', ~AdminOps, NEW p \in Procs, WorkerStep(p),
           UNCHANGED <<delivered, posts>>
    PROVE  DeliveryInv'
  <1>1. /\ HandlerTypeOK /\ LeaseInv
        /\ procs \in [Procs -> ProcStates] /\ procs' \in [Procs -> ProcStates]
    BY DEF DeliveryInv, LeaseInv, LeaseTypeOK
  <1>2. \/ /\ procs'[p].job # NoJob /\ procs'[p].up
           /\ phase' = [phase EXCEPT ![p] = "load"]
           /\ procs' = [procs EXCEPT ![p] = procs'[p]]
        \/ /\ procs'[p].job = NoJob
           /\ phase' = [phase EXCEPT ![p] = "idle"]
           /\ procs' = [procs EXCEPT ![p] = procs'[p]]
    <2>1. CASE (\E j \in Jobs : Claim(p, j)) /\ Enters(p)
      <3>1. PICK j \in Jobs : Claim(p, j)
        BY <2>1
      <3> DEFINE r == [up |-> TRUE, job |-> j, attempts |-> jobs[j].attempts + 1, age |-> 0]
      <3>2. procs' = [procs EXCEPT ![p] = r] /\ r.up = TRUE /\ r.job = j
        BY <3>1 DEF Claim
      <3> HIDE DEF r
      <3>3. procs'[p] = r
        BY <1>1, <3>2
      <3>4. procs'[p].job # NoJob /\ procs'[p].up
        BY <3>2, <3>3, QueueNamesAssumption
      <3> QED  BY <2>1, <3>2, <3>3, <3>4 DEF Enters
    <2>2. ASSUME NEW q \in {Idle, Down}, procs' = [procs EXCEPT ![p] = q], Leaves(p)
          PROVE  /\ procs'[p].job = NoJob
                 /\ phase' = [phase EXCEPT ![p] = "idle"]
                 /\ procs' = [procs EXCEPT ![p] = procs'[p]]
      <3>1. procs'[p] = q /\ q.job = NoJob
        BY <1>1, <2>2, FreeProcess
      <3> QED  BY <2>2, <3>1 DEF Leaves
    <2>3. CASE Restart(p) /\ UNCHANGED phase
      <3>1. phase[p] = "idle"
        BY <1>1, <2>3 DEF Restart, HandlerTypeOK
      <3>2. Leaves(p)
        BY <1>1, <2>3, <3>1 DEF Leaves, HandlerTypeOK
      <3> QED  BY <2>2, <2>3, <3>2 DEF Restart
    <2> QED
      BY <2>1, <2>2, <2>3 DEF WorkerStep, Complete, Fail, StatusWriteLost, Crash
  <1>3. \A q \in Procs : q # p => procs'[q] = procs[q] /\ phase'[q] = phase[q]
    BY <1>1, <1>2 DEF HandlerTypeOK
  <1>4. phase'[p] = IF procs'[p].job = NoJob THEN "idle" ELSE "load"
    BY <1>1, <1>2 DEF HandlerTypeOK
  <1>5. HandlerTypeOK'
    <2>1. phase' \in [Procs -> Phases]
      BY <1>1, <1>2 DEF HandlerTypeOK, Phases
    <2>2. \A q \in Procs : phase'[q] = "idle" <=> procs'[q].job = NoJob
      BY <1>1, <1>3, <1>4 DEF HandlerTypeOK
    <2>3. \A q \in Procs : procs'[q].job # NoJob => procs'[q].up
      BY <1>1, <1>2, <1>3 DEF HandlerTypeOK
    <2> QED  BY <1>1, <2>1, <2>2, <2>3 DEF HandlerTypeOK
  <1>6. ASSUME NEW q \in Procs, procs'[q].job # NoJob PROVE CallInv(q)'
    <2>1. CASE q = p
      BY <1>4, <1>6, <2>1 DEF CallInv
    <2>2. CASE q # p
      BY <1>3, <1>6, <2>2, CallKept DEF DeliveryInv
    <2> QED  BY <2>1, <2>2
  <1>7. ASSUME NEW j \in Jobs, jobs'[j].status = "success" PROVE delivered[j] = TRUE
    <2>1. CASE jobs[j].status = "success"
      BY <2>1 DEF DeliveryInv
    <2>2. CASE jobs[j].status # "success"
      <3>1. QueueNext
        BY DEF WorkerStep, QueueNext, ProcStep
      <3>2. PICK q \in Procs : Complete(q) /\ procs[q].job = j
        BY <1>1, <1>7, <2>2, <3>1, OnlyCompleteSucceeds
      <3>3. q = p
        <4>1. procs'[q].job = NoJob /\ procs[q].job # NoJob
          BY <1>1, <3>2, FreeProcess DEF Complete
        <4> QED  BY <1>3, <4>1
      <3>4. phase[p] = "nil"
        <4>1. ~(\E i \in Jobs : Claim(p, i)) /\ procs[p].up
          BY <1>1, <3>2, <3>3, QueueNamesAssumption DEF Claim, HandlerTypeOK
        <4>2. ~Fail(p) /\ ~StatusWriteLost(p) /\ ~Crash(p)
          <5>1. jobs' # jobs
            BY <1>7, <2>2
          <5>2. ~Fail(p)
            BY <1>1, <1>7, <2>2, <3>2, <3>3, FailIsNoSuccess
          <5> QED  BY <5>1, <5>2 DEF StatusWriteLost, Crash
        <4>3. ~Restart(p)
          BY <4>1 DEF Restart
        <4> QED  BY <4>1, <4>2, <4>3 DEF WorkerStep
      <3> QED  BY <1>1, <3>2, <3>3, <3>4, QueueNamesAssumption DEF DeliveryInv, CallInv
    <2> QED  BY <2>1, <2>2
  <1> QED  BY <1>5, <1>6, <1>7 DEF DeliveryInv

\* Time and new jobs leave every call where it is.
LEMMA QueueStepKeeps ==
    ASSUME DeliveryInv, LeaseInv', ~AdminOps, Tick \/ \E j \in Jobs : JobStep(j),
           UNCHANGED handlerVars
    PROVE  DeliveryInv'
  <1>1. /\ HandlerTypeOK /\ LeaseInv /\ requests = {}
        /\ procs \in [Procs -> ProcStates] /\ \A p \in Procs : procs[p] \in ProcStates
        /\ UNCHANGED <<phase, delivered, posts>>
    BY DEF DeliveryInv, LeaseInv, LeaseTypeOK, handlerVars
  <1>2. ASSUME NEW p \in Procs PROVE procs'[p].job = procs[p].job /\ procs'[p].up = procs[p].up
    <2>1. CASE Tick
      <3>1. procs'[p] = IF procs[p].job # NoJob
                        THEN [procs[p] EXCEPT !.age = procs[p].age + 1] ELSE procs[p]
        BY <2>1 DEF Tick
      <3> QED  BY <1>1, <3>1 DEF ProcStates
    <2>2. CASE \E j \in Jobs : JobStep(j)
      BY <1>1, <2>2 DEF JobStep, EnqueueJob, AdminRetryRead, AdminCancelRead, AdminRead,
                        AdminRetryJob, AdminCancelJob, AdminWrite
    <2> QED  BY <2>1, <2>2
  <1>3. HandlerTypeOK'
    BY <1>1, <1>2 DEF HandlerTypeOK
  <1>4. ASSUME NEW p \in Procs, procs'[p].job # NoJob PROVE CallInv(p)'
    BY <1>1, <1>2, <1>4, CallKept DEF DeliveryInv
  <1>5. ASSUME NEW j \in Jobs, jobs'[j].status = "success" PROVE delivered[j] = TRUE
    <2>1. jobs[j].status = "success"
      <3> SUFFICES ASSUME jobs[j].status # "success" PROVE FALSE
        OBVIOUS
      <3>1. PICK p \in Procs : Complete(p) /\ procs[p].job = j
        BY <1>1, <1>5, OnlyCompleteSucceeds DEF QueueNext
      <3>2. procs'[p].job = NoJob
        BY <1>1, <3>1, FreeProcess DEF Complete
      <3> QED  BY <1>2, <3>1, <3>2, QueueNamesAssumption
    <2> QED  BY <2>1 DEF DeliveryInv
  <1> QED  BY <1>1, <1>3, <1>4, <1>5 DEF DeliveryInv

\* The invariant of the deliveries is inductive.
LEMMA DeliveryStep ==
    ASSUME ~AdminOps PROVE DeliveryInv /\ [DeliveryNext]_deliveryVars => DeliveryInv'
  <1> SUFFICES ASSUME DeliveryInv, [DeliveryNext]_deliveryVars PROVE DeliveryInv'
    OBVIOUS
  <1>1. LeaseInv'
    BY LeaseStep, DeliveryIsQueueing DEF DeliveryInv
  <1>2. CASE UNCHANGED deliveryVars
    BY <1>1, <1>2 DEF deliveryVars, queueVars, handlerVars, DeliveryInv, HandlerTypeOK, CallInv
  <1> QED
    BY <1>1, <1>2, HandlerStepKeeps, WorkerStepKeeps, QueueStepKeeps DEF DeliveryNext

LEMMA DeliveryStart == DeliveryInit => DeliveryInv
  <1> SUFFICES ASSUME DeliveryInit PROVE DeliveryInv
    OBVIOUS
  <1>1. LeaseInv
    BY LeaseInit DEF DeliveryInit
  <1>2. \A p \in Procs : procs[p].job = NoJob
    BY FreeProcess DEF DeliveryInit, QueueInit
  <1>3. \A j \in Jobs : jobs[j].status = "none" /\ delivered[j] = FALSE
    BY DEF DeliveryInit, QueueInit
  <1>4. HandlerTypeOK
    BY <1>2 DEF DeliveryInit, HandlerTypeOK, Phases
  <1> QED  BY <1>1, <1>2, <1>3, <1>4 DEF DeliveryInv

\* A job that succeeded has delivered its event, for any number of events, workers
\* and attempts, through crashes in every phase of a call and lost status writes
\* (Deliver, complete).
THEOREM SuccessIsADelivery == ASSUME ~AdminOps PROVE DeliverySpec => []SuccessMeansDelivered
  <1>1. DeliveryInv => SuccessMeansDelivered
    BY DEF DeliveryInv, SuccessMeansDelivered
  <1> QED  BY <1>1, DeliveryStart, DeliveryStep, PTL DEF DeliverySpec

\* A settled delivery is never posted again and never unsettled, however often its
\* job is retried: a call that has read an unsettled row is the only call under way
\* for it (Deliver).
THEOREM SettledStaysSettled == ASSUME ~AdminOps PROVE DeliverySpec => SettledNotPostedAgain
  <1>1. DeliveryInv /\ [DeliveryNext]_deliveryVars
            => [\A j \in Jobs : delivered[j] => posts'[j] = posts[j] /\ delivered'[j]]_deliveryVars
    <2> SUFFICES ASSUME DeliveryInv, DeliveryNext, NEW j \in Jobs, delivered[j] = TRUE
                 PROVE  posts'[j] = posts[j] /\ delivered'[j] = TRUE
      BY DEF DeliveryInv, HandlerTypeOK
    <2>1. HandlerTypeOK /\ \A p \in Procs : procs[p].job # NoJob => CallInv(p)
      BY DEF DeliveryInv
    <2>2. ASSUME NEW p \in Procs, HandlerStep(p)
          PROVE  posts'[j] = posts[j] /\ delivered'[j] = TRUE
      <3>1. CASE Post(p) \/ RecordAnswer(p)
        <4>1. phase[p] \in {"post", "accepted", "refused"}
          BY <3>1 DEF Post, RecordAnswer, Goto
        <4>2. procs[p].job # NoJob /\ procs[p].job # j
          BY <2>1, <4>1 DEF HandlerTypeOK, CallInv
        <4> QED  BY <2>1, <3>1, <4>2 DEF Post, RecordAnswer, HandlerTypeOK
      <3> QED  BY <2>2, <3>1 DEF HandlerStep, Load, PostFails, Interrupted
    <2> QED  BY <2>2 DEF DeliveryNext, handlerVars
  <1> QED  BY <1>1, DeliveryStart, DeliveryStep, PTL DEF DeliverySpec, SettledNotPostedAgain

\* Deliveries run on the queue as it is: whatever is proved of the queue holds while
\* webhooks are delivered (Process, pollAndProcess).
THEOREM DeliveriesAreQueued == DeliverySpec => QueueSpec
  <1>1. DeliveryInit => QueueInit
    BY DEF DeliveryInit
  <1> QED  BY <1>1, DeliveryIsQueueing, PTL DEF DeliverySpec, QueueSpec

\* Whether or not administrators interfere, a process has a call of Deliver under
\* way exactly while it has a job in its hands, and the tables of webhook_deliveries
\* keep their shape (Deliver, pollAndProcess).
THEOREM DeliveryTypeCorrect == DeliverySpec => []DeliveryTypeOK
  <1>1. DeliveryInit => HandlerTypeOK
    BY FreeProcess DEF DeliveryInit, QueueInit, HandlerTypeOK, Phases, Idle
  <1>2. QueueTypeOK /\ HandlerTypeOK /\ [DeliveryNext]_deliveryVars => HandlerTypeOK'
    <2> SUFFICES ASSUME QueueTypeOK, HandlerTypeOK, [DeliveryNext]_deliveryVars
                 PROVE  HandlerTypeOK'
      OBVIOUS
    <2>1. /\ phase \in [Procs -> Phases] /\ delivered \in [Jobs -> BOOLEAN]
          /\ posts \in [Jobs -> Nat] /\ procs \in [Procs -> ProcStates]
          /\ \A p \in Procs : /\ phase[p] = "idle" <=> procs[p].job = NoJob
                              /\ procs[p].job # NoJob => procs[p].up
                              /\ procs[p].job \in Jobs \cup {NoJob}
      BY DEF HandlerTypeOK, QueueTypeOK, ProcStates
    <2>2. ASSUME NEW p \in Procs, HandlerStep(p) PROVE HandlerTypeOK'
      <3>1. PICK ph \in Phases \ {"idle"} : phase' = [phase EXCEPT ![p] = ph]
        BY <2>2 DEF HandlerStep, Load, Post, PostFails, RecordAnswer, Interrupted, Goto, Phases
      <3>2. UNCHANGED procs /\ phase[p] # "idle"
        BY <2>2 DEF HandlerStep, Load, Post, PostFails, RecordAnswer, Interrupted, Goto, queueVars
      <3>3. delivered' \in [Jobs -> BOOLEAN] /\ posts' \in [Jobs -> Nat]
        <4>1. procs[p].job \in Jobs /\ posts[procs[p].job] + 1 \in Nat
          BY <2>1, <3>2
        <4>2. CASE Post(p)
          BY <2>1, <4>1, <4>2 DEF Post
        <4>3. CASE RecordAnswer(p)
          BY <2>1, <4>3 DEF RecordAnswer
        <4> QED  BY <2>1, <2>2, <4>2, <4>3 DEF HandlerStep, Load, PostFails, Interrupted
      <3> QED  BY <2>1, <3>1, <3>2, <3>3 DEF HandlerTypeOK
    <2>3. ASSUME NEW p \in Procs, NEW r \in ProcStates, NEW ph \in Phases,
                 procs' = [procs EXCEPT ![p] = r], phase' = [phase EXCEPT ![p] = ph],
                 ph = "idle" <=> r.job = NoJob, r.job # NoJob => r.up,
                 UNCHANGED <<delivered, posts>>
          PROVE  HandlerTypeOK'
      BY <2>1, <2>3 DEF HandlerTypeOK
    <2>4. ASSUME NEW p \in Procs, WorkerStep(p), UNCHANGED <<delivered, posts>>
          PROVE  HandlerTypeOK'
      <3>1. ASSUME NEW j \in Jobs, Claim(p, j), Enters(p) PROVE HandlerTypeOK'
        <4> DEFINE n == jobs[j].attempts + 1
                   r == [up |-> TRUE, job |-> j, attempts |-> n, age |-> 0]
        <4>1. n \in Nat
          BY DEF QueueTypeOK, JobRows
        <4> HIDE DEF n
        <4>2. r \in ProcStates /\ r.job # NoJob /\ r.up
          BY <4>1, QueueNamesAssumption DEF ProcStates
        <4>3. procs' = [procs EXCEPT ![p] = r]
          BY <3>1 DEF Claim, n
        <4> HIDE DEF r
        <4> QED  BY <2>3, <2>4, <3>1, <4>2, <4>3 DEF Enters, Phases
      <3>2. ASSUME NEW q \in {Idle, Down}, procs' = [procs EXCEPT ![p] = q], Leaves(p)
            PROVE  HandlerTypeOK'
        BY <2>3, <2>4, <3>2, FreeProcess DEF Leaves, Phases
      <3>3. CASE Restart(p) /\ UNCHANGED phase
        <4>1. procs' = [procs EXCEPT ![p] = Idle] /\ phase[p] = "idle"
          BY <2>1, <3>3 DEF Restart
        <4>2. phase' = [phase EXCEPT ![p] = "idle"]
          BY <2>1, <3>3, <4>1
        <4> QED  BY <2>3, <2>4, <4>1, <4>2, FreeProcess DEF Phases
      <3> QED  BY <2>4, <3>1, <3>2, <3>3 DEF WorkerStep, Complete, Fail, StatusWriteLost, Crash
    <2>5. ASSUME Tick \/ \E j \in Jobs : JobStep(j), UNCHANGED handlerVars PROVE HandlerTypeOK'
      <3>1. ASSUME NEW p \in Procs PROVE procs'[p].job = procs[p].job /\ procs'[p].up = procs[p].up
        <4>1. CASE Tick
          <5>1. procs'[p] = IF procs[p].job # NoJob THEN [procs[p] EXCEPT !.age = @ + 1]
                                                    ELSE procs[p]
            BY <4>1 DEF Tick
          <5>2. procs[p] \in ProcStates
            BY <2>1
          <5> QED  BY <5>1, <5>2 DEF ProcStates
        <4>2. CASE UNCHANGED procs
          BY <4>2
        <4> QED  BY <2>5, <4>1, <4>2 DEF JobStep, EnqueueJob, AdminRetryRead, AdminRetryJob,
                                         AdminCancelRead, AdminCancelJob, AdminRead, AdminWrite
      <3> QED  BY <2>1, <2>5, <3>1 DEF HandlerTypeOK, handlerVars
    <2>6. CASE UNCHANGED deliveryVars
      BY <2>6 DEF deliveryVars, handlerVars, queueVars, HandlerTypeOK
    <2> QED  BY <2>2, <2>4, <2>5, <2>6 DEF DeliveryNext
  <1>3. QueueTypeOK /\ HandlerTypeOK => DeliveryTypeOK
    BY DEF HandlerTypeOK, DeliveryTypeOK
  <1>4. DeliverySpec => []QueueTypeOK
    BY DeliveriesAreQueued, QueueTypeCorrect, PTL
  <1> QED  BY <1>1, <1>2, <1>3, <1>4, PTL DEF DeliverySpec
=============================================================================
