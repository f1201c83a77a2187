---------------------------- MODULE Provisioning ----------------------------
(***************************************************************************)
(* The life of an instance between its row and the provider's machine:     *)
(*   compute/service.go             Provision, Terminate, Rename           *)
(*   cmd/worker/main.go             provisionInstance, syncInstanceByID,   *)
(*                                  terminateInstance, changeSuspension    *)
(*   api/handlers_admin_ops.go      suspend, unsuspend, force terminate    *)
(*                                                                         *)
(* A handler is a run: it reads the row, calls the provider and writes the *)
(* row in separate steps, so that runs of several jobs of an instance      *)
(* interleave.  What the queue does with a job is abstracted from JobQueue *)
(* to: it is run again until it succeeds or is given up, and by one run at *)
(* a time unless DuplicateRuns.  The provider's create call returns no id; *)
(* the machine is found by its name.                                       *)
(***************************************************************************)
EXTENDS Integers, FiniteSets

CONSTANTS
    Insts, Runs, VMs,   \* VMs bounds the machines the provider ever creates
    Names, NameOf,      \* the name an instance is created with
    NoVM, NoInst, Free, Left,
    Ops,                \* the operations customers and administrators use
    Reported,           \* the statuses the provider's answers are mapped to
    DuplicateRuns,      \* a provision job may be run twice at once
    MaxCrashes          \* bound on crashes of a run

ASSUME ProvisioningAssumption ==
    /\ NameOf \in [Insts -> Names]
    /\ NoVM \notin VMs /\ NoInst \notin Insts
    /\ Free \notin Runs /\ Left \notin Runs /\ Free # Left
    /\ Ops \subseteq {"rename", "suspend", "terminate", "request"}
    /\ Reported \subseteq {"provisioning", "active", "suspended", "pending", "deleting", "unknown"}
    /\ DuplicateRuns \in BOOLEAN /\ MaxCrashes \in Nat

VARIABLES
    inst,       \* rows of instances
    vms,        \* machines at the provider
    job,        \* per instance and job type: the queue's view
    run,        \* the handlers under way
    lock,       \* kc:lock:provision:<instance> in Redis
    recorded,   \* instances whose provider_actions row says success
    crashes

provVars == <<inst, vms, job, run, lock, recorded, crashes>>

Kinds == {"provision", "sync", "terminate", "suspend", "unsuspend", "request"}
InstStatus == {"none", "pending", "provisioning", "active", "suspended", "deleting", "deleted", "unknown"}
Steps == {"lock", "load", "create", "mark", "list", "finish", "get", "write", "flag", "destroy"}
IdleRun == [kind |-> "none", inst |-> NoInst, pc |-> "load", name |-> "", vm |-> NoVM]

ProvTypeOK ==
    /\ inst \in [Insts -> [status : InstStatus, deleted : BOOLEAN, vm : VMs \cup {NoVM}, name : Names]]
    /\ vms \in [VMs -> [state : {"none", "up", "gone"}, name : Names \cup {""}, owner : Insts \cup {NoInst}]]
    /\ job \in [Insts -> [Kinds -> {"none", "queued", "running", "done", "failed"}]]
    /\ run \in [Runs -> [kind : Kinds \cup {"none"}, inst : Insts \cup {NoInst}, pc : Steps,
                         name : Names \cup {""}, vm : VMs \cup {NoVM}]]
    /\ lock \in [Insts -> Runs \cup {Free, Left}]
    /\ recorded \subseteq Insts
    /\ crashes \in 0 .. MaxCrashes
    /\ \A r \in Runs : run[r].kind \in {"none", "request"} \/ job[run[r].inst][run[r].kind] # "none"

ProvInit ==
    /\ inst = [i \in Insts |-> [status |-> "none", deleted |-> FALSE, vm |-> NoVM, name |-> NameOf[i]]]
    /\ vms = [v \in VMs |-> [state |-> "none", name |-> "", owner |-> NoInst]]
    /\ job = [i \in Insts |-> [k \in Kinds |-> "none"]]
    /\ run = [r \in Runs |-> IdleRun]
    /\ lock = [i \in Insts |-> Free]
    /\ recorded = {}
    /\ crashes = 0

-----------------------------------------------------------------------------
\* Customers and administrators.

\* compute.Service.Provision: the row and its job in one transaction.
Provision(i) ==
    /\ inst[i].status = "none"
    /\ inst' = [inst EXCEPT ![i].status = "pending"]
    /\ job' = [job EXCEPT ![i]["provision"] = "queued"]
    /\ UNCHANGED <<vms, run, lock, recorded, crashes>>

Visible(i) == inst[i].status # "none" /\ ~inst[i].deleted

Rename(i, name) ==
    /\ "rename" \in Ops
    /\ Visible(i)
    /\ inst' = [inst EXCEPT ![i].name = name]
    /\ UNCHANGED <<vms, job, run, lock, recorded, crashes>>

\* The admin handlers set the status and enqueue the job that repeats it, in
\* two statements of which the second may fail.  (The guard on the job bounds
\* the model: at most one unfinished job of a kind per instance.)
AdminEnqueue(i, kind, from, to) ==
    /\ Visible(i) /\ inst[i].status \in from
    /\ job[i][kind] \in {"none", "done", "failed"}
    /\ inst' = [inst EXCEPT ![i].status = IF to = "" THEN @ ELSE to]
    /\ job' \in {job, [job EXCEPT ![i][kind] = "queued"]}
    /\ UNCHANGED <<vms, run, lock, recorded, crashes>>

AdminSuspendInstance(i) ==
    /\ "suspend" \in Ops
    /\ AdminEnqueue(i, "suspend", InstStatus \ {"suspended", "deleting", "deleted"}, "suspended")
AdminUnsuspendInstance(i) ==
    /\ "suspend" \in Ops
    /\ AdminEnqueue(i, "unsuspend", {"suspended"}, "active")
AdminForceTerminateInstance(i) ==
    /\ "terminate" \in Ops
    /\ AdminEnqueue(i, "terminate", InstStatus \ {"deleting", "deleted"}, "")

-----------------------------------------------------------------------------
\* Runs.  A handler returns nil, or an error after which the job is run again
\* or given up; its lock is released either way.  A crash releases nothing.

Doing(r, kind, pc) == run[r].kind = kind /\ run[r].pc = pc
At(r, pc) == run[r].kind # "none" /\ run[r].pc = pc
Go(r, pc) == run' = [run EXCEPT ![r].pc = pc] /\ UNCHANGED <<job, lock, crashes>>

Return(r, results) ==
    LET i == run[r].inst IN
    /\ run' = [run EXCEPT ![r] = IdleRun]
    /\ \E result \in results :
          job' = IF run[r].kind = "request" THEN job
                 ELSE [job EXCEPT ![i][run[r].kind] = result]
    /\ lock' = [lock EXCEPT ![i] = IF @ = r THEN Free ELSE @]
    /\ UNCHANGED crashes

Nil == {"done"}
Error == {"queued", "failed"}

Start(r, i, kind) ==
    /\ run[r].kind = "none"
    /\ \/ job[i][kind] = "queued"
       \/ DuplicateRuns /\ kind = "provision" /\ job[i][kind] = "running"
    /\ job' = [job EXCEPT ![i][kind] = "running"]
    /\ run' = [run EXCEPT ![r] = [IdleRun EXCEPT
                 !.kind = kind, !.inst = i, !.pc = IF kind = "provision" THEN "lock" ELSE "load"]]
    /\ UNCHANGED <<inst, vms, lock, recorded, crashes>>

Crash(r) ==
    LET i == run[r].inst IN
    /\ crashes < MaxCrashes
    /\ run[r].kind # "none"
    /\ crashes' = crashes + 1
    /\ run' = [run EXCEPT ![r] = IdleRun]
    /\ job' = IF run[r].kind = "request" THEN job ELSE [job EXCEPT ![i][run[r].kind] = "queued"]
    /\ lock' = [lock EXCEPT ![i] = IF @ = r THEN Left ELSE @]
    /\ UNCHANGED <<inst, vms, recorded>>

\* The lock's ten minutes are longer than any handler's five.
LockExpires(i) ==
    /\ lock[i] = Left
    /\ lock' = [lock EXCEPT ![i] = Free]
    /\ UNCHANGED <<inst, vms, job, run, recorded, crashes>>

-----------------------------------------------------------------------------
\* provisionInstance

\* Mutant of AcquireLock: the key is set whether or not it exists.
AcquireLockAnyway(r) ==
    /\ Doing(r, "provision", "lock")
    /\ lock' = [lock EXCEPT ![run[r].inst] = r]
    /\ run' = [run EXCEPT ![r].pc = "load"]
    /\ UNCHANGED <<inst, vms, job, recorded, crashes>>

\* SETNX.  The value is the job's id; the run stands for it, since two runs of one
\* job would mistake each other's key only if it expired while one still runs.
AcquireLock(r) ==
    /\ Doing(r, "provision", "lock")
    /\ \/ /\ lock[run[r].inst] = Free
          /\ lock' = [lock EXCEPT ![run[r].inst] = r]
          /\ run' = [run EXCEPT ![r].pc = "load"]
          /\ UNCHANGED <<job, crashes>>
       \/ /\ lock[run[r].inst] # Free
          /\ Return(r, Error)
    /\ UNCHANGED <<inst, vms, recorded>>

\* A row that has its machine is skipped, or only synced when the action is
\* recorded; any of the look-ups before the create call may fail.
LoadForProvision(r) ==
    LET i == run[r].inst IN
    /\ Doing(r, "provision", "load")
    /\ \/ inst[i].deleted /\ Return(r, Error)
       \/ Visible(i) /\ inst[i].vm # NoVM /\ i \notin recorded /\ Return(r, Nil)
       \/ /\ Visible(i) /\ inst[i].vm # NoVM /\ i \in recorded
          /\ run' = [run EXCEPT ![r] = [@ EXCEPT !.pc = "get", !.vm = inst[i].vm]]
          /\ UNCHANGED <<job, lock, crashes>>
       \/ /\ Visible(i) /\ inst[i].vm = NoVM
          /\ run' = [run EXCEPT ![r] = [@ EXCEPT !.pc = "create", !.name = inst[i].name]]
          /\ UNCHANGED <<job, lock, crashes>>
       \/ Visible(i) /\ inst[i].vm = NoVM /\ Return(r, Error)
    /\ UNCHANGED <<inst, vms, recorded>>

Fresh(v) == vms[v].state = "none"
Machine(r) == [state |-> "up", name |-> run[r].name, owner |-> run[r].inst]

\* ProvisionVM: it works, it fails, or it works and the answer gets lost.  After
\* an error the action row says failed.
ProvisionVM(r) ==
    /\ Doing(r, "provision", "create")
    /\ \/ \E v \in VMs : /\ Fresh(v)
                         /\ vms' = [vms EXCEPT ![v] = Machine(r)]
                         /\ \/ Go(r, "mark") /\ UNCHANGED recorded
                            \/ Return(r, Error) /\ recorded' = recorded \ {run[r].inst}
       \/ UNCHANGED vms /\ Return(r, Error) /\ recorded' = recorded \ {run[r].inst}
    /\ UNCHANGED inst

MarkProvisioning(r) ==
    /\ Doing(r, "provision", "mark")
    /\ inst' = [inst EXCEPT ![run[r].inst].status = "provisioning"]
    /\ Go(r, "list")
    /\ UNCHANGED <<vms, recorded>>

\* Mutant of Matches: any machine of the scope will do.
MatchesAny(name) == {v \in VMs : vms[v].state = "up"}

Matches(name) == {v \in VMs : vms[v].state = "up" /\ vms[v].name = name}
Taken(i, v) == \E k \in Insts \ {i} : inst[k].vm = v

\* Mutant of MapVM: the row's mapping is overwritten.
MapVMAnyway(i, v) == [inst EXCEPT ![i].vm = v]

\* UPDATE instances SET external_vm_id=v WHERE id=i AND external_vm_id IS NULL
MapVM(i, v) == [inst EXCEPT ![i].vm = IF @ = NoVM THEN v ELSE @]

\* The listing is matched by name and the mapping is written; a machine that
\* belongs to another row violates UNIQUE(provider_id, external_vm_id).  The
\* listing may fail or not show the machine yet.  The action row then says
\* success in any case.
ListAndMap(r) ==
    LET i == run[r].inst IN
    /\ Doing(r, "provision", "list")
    /\ \/ \E v \in Matches(run[r].name) : /\ ~Taken(i, v)
                                          /\ inst' = MapVM(i, v)
                                          /\ recorded' = recorded \cup {i}
                                          /\ Go(r, "finish")
       \/ \E v \in Matches(run[r].name) : /\ Taken(i, v)
                                          /\ Return(r, Error)
                                          /\ UNCHANGED <<inst, recorded>>
       \/ recorded' = recorded \cup {i} /\ Go(r, "finish") /\ UNCHANGED inst
    /\ UNCHANGED vms

\* The last statement enqueues sync_instance, or fails.
EnqueueSync(r) ==
    LET i == run[r].inst IN
    /\ Doing(r, "provision", "finish")
    /\ \/ /\ job' = [job EXCEPT ![i]["sync"] = IF @ = "running" THEN @ ELSE "queued",
                                ![i]["provision"] = "done"]
          /\ run' = [run EXCEPT ![r] = IdleRun]
          /\ lock' = [lock EXCEPT ![i] = IF @ = r THEN Free ELSE @]
          /\ UNCHANGED crashes
       \/ Return(r, Error)
    /\ UNCHANGED <<inst, vms, recorded>>

-----------------------------------------------------------------------------
\* syncInstanceByID

LoadForSync(r) ==
    LET i == run[r].inst IN
    /\ Doing(r, "sync", "load")
    /\ \/ inst[i].deleted /\ Return(r, Error)
       \/ /\ Visible(i)
          /\ run' = [run EXCEPT ![r] = [@ EXCEPT !.name = inst[i].name, !.vm = inst[i].vm,
                                          !.pc = IF inst[i].vm = NoVM THEN "list" ELSE "get"]]
          /\ UNCHANGED <<job, lock, crashes>>
    /\ UNCHANGED <<inst, vms, recorded>>

ResolveByName(r) ==
    LET i == run[r].inst IN
    /\ Doing(r, "sync", "list")
    /\ \/ \E v \in Matches(run[r].name) :
            /\ ~Taken(i, v)
            /\ inst' = MapVM(i, v)
            /\ run' = [run EXCEPT ![r] = [@ EXCEPT !.pc = "get", !.vm = v]]
            /\ UNCHANGED <<job, lock, crashes>>
       \/ Return(r, Error) /\ UNCHANGED inst
    /\ UNCHANGED <<vms, recorded>>

\* GetVM, also as the last part of a replayed provision.
GetVM(r) ==
    /\ At(r, "get")
    /\ \/ vms[run[r].vm].state = "up" /\ Go(r, "write")
       \/ Return(r, Error)
    /\ UNCHANGED <<inst, vms, recorded>>

\* The provider's status is written by id alone; the events and notifications
\* that follow may fail.
WriteStatus(r) ==
    /\ run[r].kind \in {"sync", "provision"} /\ run[r].pc = "write"
    /\ \E s \in Reported : inst' = [inst EXCEPT ![run[r].inst].status = s]
    /\ Return(r, Nil \cup Error)
    /\ UNCHANGED <<vms, recorded>>

-----------------------------------------------------------------------------
\* terminateInstance, and compute.Service.Terminate as a request of the API.

LoadForTerminate(r) ==
    LET i == run[r].inst IN
    /\ Doing(r, "terminate", "load")
    /\ \/ inst[i].status = "deleted" /\ Return(r, Nil)
       \/ /\ inst[i].status # "deleted"
          /\ run' = [run EXCEPT ![r] = [@ EXCEPT !.vm = inst[i].vm,
                                          !.pc = IF inst[i].vm = NoVM THEN "write" ELSE "destroy"]]
          /\ UNCHANGED <<job, lock, crashes>>
    /\ UNCHANGED <<inst, vms, recorded>>

\* The request is refused unless the row is mapped and not yet being deleted.
RequestTerminate(r, i) ==
    /\ "request" \in Ops
    /\ run[r].kind = "none"
    /\ Visible(i) /\ inst[i].status \notin {"deleting", "deleted"} /\ inst[i].vm # NoVM
    /\ run' = [run EXCEPT ![r] = [IdleRun EXCEPT !.kind = "request", !.inst = i,
                                                 !.pc = "flag", !.vm = inst[i].vm]]
    /\ UNCHANGED <<inst, vms, job, lock, recorded, crashes>>

FlagDeleting(r) ==
    /\ Doing(r, "request", "flag")
    /\ inst' = [inst EXCEPT ![run[r].inst].status = "deleting"]
    /\ Go(r, "destroy")
    /\ UNCHANGED <<vms, recorded>>

\* The provider's destroy call, like its create call, may work and not say so.
DestroyVM(r) ==
    /\ run[r].kind \in {"terminate", "request"} /\ run[r].pc = "destroy"
    /\ \/ /\ vms' = [vms EXCEPT ![run[r].vm].state = "gone"]
          /\ Go(r, "write") \/ Return(r, Error)
       \/ UNCHANGED vms /\ Return(r, Error)
    /\ UNCHANGED <<inst, recorded>>

WriteDeleted(r) ==
    /\ run[r].kind \in {"terminate", "request"} /\ run[r].pc = "write"
    /\ inst' = [inst EXCEPT ![run[r].inst] = [@ EXCEPT !.status = "deleted", !.deleted = TRUE]]
    /\ Return(r, Nil \cup Error)
    /\ UNCHANGED <<vms, recorded>>

\* changeSuspension: the provider must be known, PatchVM is best effort, and
\* the row is written by id.
ChangeSuspension(r) ==
    /\ run[r].kind \in {"suspend", "unsuspend"}
    /\ \/ /\ inst' = [inst EXCEPT ![run[r].inst].status =
                        IF run[r].kind = "suspend" THEN "suspended" ELSE "active"]
          /\ Return(r, Nil \cup Error)
       \/ UNCHANGED inst /\ Return(r, Error)
    /\ UNCHANGED <<vms, recorded>>

-----------------------------------------------------------------------------
HandlerStep(r) ==
    \/ AcquireLock(r) \/ LoadForProvision(r) \/ ProvisionVM(r) \/ MarkProvisioning(r)
    \/ ListAndMap(r) \/ EnqueueSync(r)
    \/ LoadForSync(r) \/ ResolveByName(r) \/ GetVM(r) \/ WriteStatus(r)
    \/ LoadForTerminate(r) \/ FlagDeleting(r) \/ DestroyVM(r) \/ WriteDeleted(r)
    \/ ChangeSuspension(r)

ProvNext ==
    \/ \E i \in Insts : \/ Provision(i) \/ LockExpires(i)
                        \/ AdminSuspendInstance(i) \/ AdminUnsuspendInstance(i)
                        \/ AdminForceTerminateInstance(i)
                        \/ \E name \in Names : Rename(i, name)
    \/ \E r \in Runs : HandlerStep(r) \/ Crash(r)
    \/ \E r \in Runs, i \in Insts : \/ RequestTerminate(r, i)
                                    \/ \E kind \in Kinds : Start(r, i, kind)

ProvSpec == ProvInit /\ [][ProvNext]_provVars

-----------------------------------------------------------------------------
Provisioner(r, i) ==
    run[r].kind = "provision" /\ run[r].inst = i /\ run[r].pc # "lock"

\* Two runs of a provision job never work on the same instance at once, whatever
\* crashes and expirations have done to the lock (provisionInstance's SETNX).
OneProvisioner ==
    \A i \in Insts : \A r, s \in Runs : Provisioner(r, i) /\ Provisioner(s, i) => r = s

\* An instance keeps its machine: concurrent provisioning and synchronisation
\* never move the mapping to another one (UPDATE ... AND external_vm_id IS NULL).
MappingIsStable ==
    [][\A i \in Insts : inst[i].vm # NoVM => inst'[i].vm = inst[i].vm]_provVars

\* No instance controls the machine of another customer's instance, as long as
\* names are different and stay so: what is mapped was created for it
\* (the match by name in provisionInstance and syncInstanceByID).
MappedToOwnVM ==
    \A i \in Insts : inst[i].vm # NoVM => vms[inst[i].vm].owner = i

-----------------------------------------------------------------------------
(* What comments, messages and the specification document say and the code *)
(* does not do.                                                            *)

\* "names are unique per scope" (provisionInstance): with any names a customer
\* may choose, an instance is mapped to its own machine.
NamesIdentifyVMs == MappedToOwnVM

\* "Provisioning tidak menghasilkan double VM": an instance has at most one
\* machine.
NoDoubleVM ==
    \A i \in Insts :
        Cardinality({v \in VMs : vms[v].state = "up" /\ vms[v].owner = i}) <= 1

\* "a replayed successful job never re-calls the provider create call"
\* (provisionInstance).
SuccessIsNotReplayed ==
    [][\A r \in Runs : ProvisionVM(r) => run[r].inst \notin recorded]_provVars

\* "already terminated; idempotent replay" (terminateInstance): the status of a
\* terminated instance says so for ever.
DeletedStaysDeleted ==
    \A i \in Insts : inst[i].deleted => inst[i].status = "deleted"

\* "already terminated" (Terminate): an instance that refuses to be terminated
\* again, with nobody working on it, has no machine any more.
RefusedMeansTerminated ==
    \A i \in Insts :
        /\ inst[i].status = "deleting" /\ inst[i].vm # NoVM
        /\ \A r \in Runs : run[r].inst # i
        => vms[inst[i].vm].state # "up"
=============================================================================
