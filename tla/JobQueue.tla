------------------------------ MODULE JobQueue ------------------------------
(***************************************************************************)
(* The job queue every asynchronous operation runs through: table jobs,    *)
(*   platform/queue/queue.go        pollAndProcess, complete, fail         *)
(*   api/handlers_admin_ops.go      adminRetryJob, adminCancelJob          *)
(*   cmd/worker/main.go             enqueueJob, workerName                 *)
(*                                                                         *)
(* A worker process claims one job at a time, runs its handler outside any *)
(* transaction, and writes the result by the job's id alone.  A job left   *)
(* in 'running' is taken back only by a process with the same name, ten    *)
(* minutes after the claim.  Times are kept as ages and delays: Tick moves *)
(* them, and cannot pass the moment at which a handler's context expires.  *)
(***************************************************************************)
EXTENDS Integers

CONSTANTS
    Jobs, Procs, Names,
    NoJob, NoName,
    NameOf,             \* worker-<hostname> of each process; hosts may share one
    KeepsName,          \* a restarted process has the hostname it had before
    AdminOps,           \* administrators retry and cancel jobs
    MaxAttempts,        \* jobs.max_attempts
    BackoffCap,         \* the cap on the exponent of fail's backoff
    Lease,              \* 10 minutes
    HandlerTimeout,     \* 5 minutes
    MaxFaults,          \* bound on crashes and lost status writes
    MaxRuns             \* bound on the attempts after which an admin asks again

ASSUME QueueNamesAssumption ==
    /\ NameOf \in [Procs -> Names]
    /\ NoJob \notin Jobs /\ NoName \notin Names
ASSUME QueueSwitchesAssumption == KeepsName \in BOOLEAN /\ AdminOps \in BOOLEAN
ASSUME QueueBoundsAssumption ==
    /\ MaxAttempts \in Nat \ {0} /\ BackoffCap \in Nat /\ MaxFaults \in Nat
    /\ MaxRuns \in Nat
ASSUME LeaseAssumption ==
    Lease \in Nat /\ HandlerTimeout \in Nat /\ HandlerTimeout <= Lease

VARIABLES
    jobs,       \* rows of jobs
    procs,      \* per worker process: the job in its hands
    name,       \* the name each process runs under
    requests,   \* administrator requests between their read and their write
    faults      \* how many faults have happened

queueVars == <<jobs, procs, name, requests, faults>>

Backoff(attempts) == 2 ^ (IF attempts < BackoffCap THEN attempts ELSE BackoffCap)

JobStatus == {"none", "queued", "running", "retry", "success", "failed", "cancelled"}
JobRows == [status : JobStatus, attempts : Nat, lockedBy : Names \cup {NoName},
            age : Nat, delay : Nat]
ProcStates == [up : BOOLEAN, job : Jobs \cup {NoJob}, attempts : Nat, age : Nat]
Idle == [up |-> TRUE, job |-> NoJob, attempts |-> 0, age |-> 0]
Down == [up |-> FALSE, job |-> NoJob, attempts |-> 0, age |-> 0]

QueueTypeOK ==
    /\ jobs \in [Jobs -> JobRows]
    /\ procs \in [Procs -> ProcStates]
    /\ \A p \in Procs : procs[p].age <= HandlerTimeout
    /\ name \in [Procs -> Names]
    /\ requests \subseteq [op : {"retry", "cancel"}, job : Jobs]
    /\ faults \in 0 .. MaxFaults

QueueInit ==
    /\ jobs = [j \in Jobs |-> [status |-> "none", attempts |-> 0, lockedBy |-> NoName,
                               age |-> 0, delay |-> 0]]
    /\ procs = [p \in Procs |-> Idle]
    /\ name = NameOf
    /\ requests = {}
    /\ faults = 0

-----------------------------------------------------------------------------
EnqueueJob(j) ==
    /\ jobs[j].status = "none"
    /\ jobs' = [jobs EXCEPT ![j].status = "queued"]
    /\ UNCHANGED <<procs, name, requests, faults>>

\* Mutant of Stale: a running job of this name is taken back at once.
StaleAtOnce(p, j) == jobs[j].status = "running" /\ jobs[j].lockedBy = name[p]

\* The lease of a job claimed under this name has run out.
Stale(p, j) ==
    /\ jobs[j].status = "running"
    /\ jobs[j].lockedBy = name[p]
    /\ jobs[j].age > Lease

\* Mutant of Ready: finished jobs are claimed as well.
ReadyAny(j) == jobs[j].status \notin {"none", "running"} /\ jobs[j].delay = 0

Ready(j) == jobs[j].status \in {"queued", "retry"} /\ jobs[j].delay = 0

Leased(r, n) == [r EXCEPT !.status = "running", !.lockedBy = n, !.age = 0,
                          !.attempts = r.attempts + 1]

\* Mutant of Claim: locked_by stays NULL.
ClaimWithoutName(p, j) ==
    /\ procs[p].up /\ procs[p].job = NoJob
    /\ Stale(p, j) \/ Ready(j)
    /\ jobs' = [jobs EXCEPT ![j] = Leased(@, NoName)]
    /\ procs' = [procs EXCEPT ![p] = [up |-> TRUE, job |-> j,
                                      attempts |-> jobs[j].attempts + 1, age |-> 0]]
    /\ UNCHANGED <<name, requests, faults>>

\* UPDATE jobs SET status='running' ... FOR UPDATE SKIP LOCKED.  The order by
\* run_after is left open: any claimable job may be the next.
Claim(p, j) ==
    /\ procs[p].up /\ procs[p].job = NoJob
    /\ Stale(p, j) \/ Ready(j)
    /\ jobs' = [jobs EXCEPT ![j] = Leased(@, name[p])]
    /\ procs' = [procs EXCEPT ![p] = [up |-> TRUE, job |-> j,
                                      attempts |-> jobs[j].attempts + 1, age |-> 0]]
    /\ UNCHANGED <<name, requests, faults>>

\* A row after its handler: locked_by and locked_at are NULL again.
Unlocked(r, status) == [r EXCEPT !.status = status, !.lockedBy = NoName, !.age = 0]

Complete(p) ==
    LET j == procs[p].job IN
    /\ j # NoJob
    /\ jobs' = [jobs EXCEPT ![j] = Unlocked(@, "success")]
    /\ procs' = [procs EXCEPT ![p] = Idle]
    /\ UNCHANGED <<name, requests, faults>>

\* Mutant of GivenUp: off by one.
GivenUpEarly(p) == procs[p].attempts + 1 >= MaxAttempts

GivenUp(p) == procs[p].attempts >= MaxAttempts

\* The handler returned an error, ran into its timeout or is not registered.
Fail(p) ==
    LET j == procs[p].job IN
    /\ j # NoJob
    /\ jobs' = [jobs EXCEPT ![j] =
                  IF GivenUp(p) THEN Unlocked(@, "failed")
                  ELSE [Unlocked(@, "retry") EXCEPT !.delay = Backoff(procs[p].attempts)]]
    /\ procs' = [procs EXCEPT ![p] = Idle]
    /\ UNCHANGED <<name, requests, faults>>

Fault == faults < MaxFaults /\ faults' = faults + 1

\* complete and fail ignore the error of their UPDATE.
StatusWriteLost(p) ==
    /\ Fault
    /\ procs[p].job # NoJob
    /\ procs' = [procs EXCEPT ![p] = Idle]
    /\ UNCHANGED <<jobs, name, requests>>

Crash(p) ==
    /\ Fault
    /\ procs[p].up
    /\ procs' = [procs EXCEPT ![p] = Down]
    /\ UNCHANGED <<jobs, name, requests>>

\* A container that is created anew usually has another hostname.
Restart(p) ==
    /\ ~procs[p].up
    /\ procs' = [procs EXCEPT ![p] = Idle]
    /\ \E n \in IF KeepsName THEN {name[p]} ELSE Names : name' = [name EXCEPT ![p] = n]
    /\ UNCHANGED <<jobs, requests, faults>>

\* context.WithTimeout: no handler runs for longer.
InTime == \A p \in Procs : procs[p].job # NoJob => procs[p].age < HandlerTimeout

\* Any amount of time passes in small steps, but no handler outlives its context.
\* Ages above the lease are all alike.
Tick ==
    /\ InTime
    /\ procs' = [p \in Procs |-> IF procs[p].job # NoJob
                                 THEN [procs[p] EXCEPT !.age = @ + 1] ELSE procs[p]]
    /\ jobs' = [j \in Jobs |->
                  [jobs[j] EXCEPT !.age = IF jobs[j].status = "running" /\ @ <= Lease
                                          THEN @ + 1 ELSE @,
                                  !.delay = IF @ > 0 THEN @ - 1 ELSE @]]
    /\ UNCHANGED <<name, requests, faults>>

-----------------------------------------------------------------------------
\* adminRetryJob and adminCancelJob read the status and then write by id.
AdminRead(op, j, allowed) ==
    /\ AdminOps
    /\ jobs[j].status \in allowed
    /\ requests' = requests \cup {[op |-> op, job |-> j]}
    /\ UNCHANGED <<jobs, procs, name, faults>>

AdminRetryRead(j) ==
    /\ jobs[j].attempts < MaxRuns
    /\ AdminRead("retry", j, JobStatus \ {"none", "running"})
AdminCancelRead(j) == AdminRead("cancel", j, {"queued", "retry"})

AdminWrite(op, j, row) ==
    /\ [op |-> op, job |-> j] \in requests
    /\ requests' = requests \ {[op |-> op, job |-> j]}
    /\ jobs' = [jobs EXCEPT ![j] = row]
    /\ UNCHANGED <<procs, name, faults>>

AdminRetryJob(j) ==
    AdminWrite("retry", j, [Unlocked(jobs[j], "queued") EXCEPT !.delay = 0])
AdminCancelJob(j) ==
    AdminWrite("cancel", j, [jobs[j] EXCEPT !.status = "cancelled"])

-----------------------------------------------------------------------------
ProcStep(p) ==
    \/ \E j \in Jobs : Claim(p, j)
    \/ Complete(p) \/ Fail(p) \/ StatusWriteLost(p)
    \/ Crash(p) \/ Restart(p)

JobStep(j) ==
    \/ EnqueueJob(j)
    \/ AdminRetryRead(j) \/ AdminRetryJob(j)
    \/ AdminCancelRead(j) \/ AdminCancelJob(j)

QueueNext ==
    \/ Tick
    \/ \E p \in Procs : ProcStep(p)
    \/ \E j \in Jobs : JobStep(j)

QueueSpec == QueueInit /\ [][QueueNext]_queueVars

\* Time passes, workers poll every five seconds, a handler ends with its
\* context at the latest, and the supervisor restarts a worker.  The claim is
\* ordered by run_after, so every claimable job has its turn.
QueueFairness ==
    /\ WF_queueVars(Tick)
    /\ \A j \in Jobs : SF_queueVars(\E p \in Procs : Claim(p, j))
    /\ \A p \in Procs : WF_queueVars(Complete(p) \/ Fail(p)) /\ WF_queueVars(Restart(p))

LiveQueueSpec == QueueSpec /\ QueueFairness

-----------------------------------------------------------------------------
Running(p, j) == procs[p].job = j

\* A job is in the hands of at most one process, also when two workers share a
\* hostname and processes crash and restart: a lease outlives every handler
\* (pollAndProcess).
OneRunnerPerJob ==
    \A j \in Jobs : \A p, q \in Procs : Running(p, j) /\ Running(q, j) => p = q

\* What a process holds is what the table says: its job is running under its
\* name and with the attempt number the process will decide on (fail).
RunnerHoldsLease ==
    \A p \in Procs : procs[p].job # NoJob =>
        /\ jobs[procs[p].job].status = "running"
        /\ jobs[procs[p].job].lockedBy = name[p]
        /\ jobs[procs[p].job].attempts = procs[p].attempts

\* No job is given up before all of its attempts have been made, whoever else
\* has touched it in between (fail).
NotGivenUpEarly ==
    \A j \in Jobs : jobs[j].status = "failed" => jobs[j].attempts >= MaxAttempts

\* A result is final: a job that succeeded is never run or failed afterwards
\* (complete and fail write by id alone).
SuccessIsFinal ==
    [][\A j \in Jobs : jobs[j].status = "success" => jobs'[j].status = "success"]_queueVars

\* Every job comes to an end although handlers fail, processes crash and status
\* writes get lost, as long as restarted workers keep their names
\* (pollAndProcess).
EveryJobEnds ==
    \A j \in Jobs : jobs[j].status = "queued" ~> jobs[j].status \in {"success", "failed", "cancelled"}

-----------------------------------------------------------------------------
(* What comments and messages of the code say and the code does not do.    *)

\* "takes the job back, so operations are never lost permanently on a worker
\* crash" (pollAndProcess).
CrashedJobIsTakenBack ==
    \A j \in Jobs : jobs[j].status = "running" ~> jobs[j].status # "running"

\* "cannot retry a running job" (adminRetryJob).
RunningJobIsNotRetried ==
    [][\A j \in Jobs : (jobs[j].status = "running" /\ \E p \in Procs : Running(p, j))
                         => jobs'[j].status # "queued"]_queueVars

\* "only queued or retry jobs can be cancelled" (adminCancelJob).
RunningJobIsNotCancelled ==
    [][\A j \in Jobs : jobs[j].status = "running" => jobs'[j].status # "cancelled"]_queueVars
=============================================================================
