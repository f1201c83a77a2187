------------------------- MODULE ProvisioningProofs -------------------------
(***************************************************************************)
(* Provisioning for any number of instances, handlers, machines and names: *)
(* the lock admits one provisioner, a mapping never moves, and with names  *)
(* that are different and stay so it leads to the instance's own machine.  *)
(*                                                                         *)
(* The argument goes by what a step may do to one run, one row, one        *)
(* machine and one job (RunMoves, InstMoves, VMMoves, JobMoves); the       *)
(* invariants are then consequences of these moves alone.                  *)
(***************************************************************************)
EXTENDS Provisioning, TLAPS

JobStates == {"none", "queued", "running", "done", "failed"}
InstRows == [status : InstStatus, deleted : BOOLEAN, vm : VMs \cup {NoVM}, name : Names]
VMRows == [state : {"none", "up", "gone"}, name : Names \cup {""}, owner : Insts \cup {NoInst}]
RunRows == [kind : Kinds \cup {"none"}, inst : Insts \cup {NoInst}, pc : Steps,
            name : Names \cup {""}, vm : VMs \cup {NoVM}]

\* The run works for an instance, and the queue knows its job.
Employed(r) ==
    /\ run[r].kind # "none" => run[r].inst \in Insts
    /\ run[r].kind \notin {"none", "request"} => job[run[r].inst][run[r].kind] # "none"

\* A provisioner past its first step holds the lock of its instance.
Holds(r) ==
    run[r].kind = "provision" /\ run[r].pc # "lock" => lock[run[r].inst] = r

\* What makes the lock work, together with the types.
ProvInv ==
    /\ ProvTypeOK
    /\ \A r \in Runs : Employed(r) /\ Holds(r)

-----------------------------------------------------------------------------
\* The steps at which a run looks for a machine by the name it has loaded.
ByName(x) ==
    \/ x.kind = "provision" /\ x.pc \in {"create", "mark", "list"}
    \/ x.kind = "sync" /\ x.pc = "list"

\* A run after a step; the name it goes by was loaded in this step or before.
RunMoves(r) ==
    /\ Employed(r)' /\ Holds(r)'
    /\ ByName(run'[r]) =>
          \/ run'[r].name = inst[run'[r].inst].name
          \/ ByName(run[r]) /\ run'[r].name = run[r].name /\ run'[r].inst = run[r].inst

\* A row after a step: it has its machine, or has found one by name.
InstMoves(i) ==
    /\ inst'[i].name = inst[i].name \/ "rename" \in Ops
    /\ \/ inst'[i].vm = inst[i].vm
       \/ /\ inst[i].vm = NoVM
          /\ \E r \in Runs : ByName(run[r]) /\ run[r].kind # "none" /\ run[r].inst = i
                             /\ inst'[i].vm \in Matches(run[r].name)

\* A machine after a step: it is what it was, is gone, or has been created.
VMMoves(v) ==
    \/ /\ vms'[v].state \in {vms[v].state, "gone"}
       /\ vms'[v].name = vms[v].name /\ vms'[v].owner = vms[v].owner
    \/ /\ Fresh(v)
       /\ \E r \in Runs : ByName(run[r]) /\ run[r].kind # "none" /\ vms'[v] = Machine(r)

JobMoves(i, k) == job[i][k] # "none" => job'[i][k] # "none"

RunPart ==
    /\ run' \in [Runs -> RunRows] /\ lock' \in [Insts -> Runs \cup {Free, Left}]
    /\ \A r \in Runs : RunMoves(r)
InstPart == inst' \in [Insts -> InstRows] /\ \A i \in Insts : InstMoves(i)
VMPart == vms' \in [VMs -> VMRows] /\ \A v \in VMs : VMMoves(v)
JobPart ==
    /\ job' \in [Insts -> [Kinds -> JobStates]]
    /\ \A i \in Insts, k \in Kinds : JobMoves(i, k)
RestPart == recorded' \subseteq Insts /\ crashes' \in 0 .. MaxCrashes

Moves == RunPart /\ InstPart /\ VMPart /\ JobPart /\ RestPart

\* What the invariant says, in the form the proofs use it.
LEMMA Facts ==
    ASSUME ProvInv
    PROVE  /\ run \in [Runs -> RunRows] /\ inst \in [Insts -> InstRows]
           /\ vms \in [VMs -> VMRows] /\ job \in [Insts -> [Kinds -> JobStates]]
           /\ lock \in [Insts -> Runs \cup {Free, Left}]
           /\ recorded \subseteq Insts /\ crashes \in 0 .. MaxCrashes
           /\ \A r \in Runs : Employed(r) /\ Holds(r) /\ run[r] \in RunRows
           /\ \A i \in Insts : inst[i] \in InstRows
           /\ \A v \in VMs : vms[v] \in VMRows
           /\ \A i \in Insts, k \in Kinds : job[i][k] \in JobStates
  BY DEF ProvInv, ProvTypeOK, RunRows, InstRows, VMRows, JobStates

\* What is left alone moves in these ways.
LEMMA StillMoves ==
    ASSUME ProvInv
    PROVE  /\ UNCHANGED inst => InstPart
           /\ UNCHANGED vms => VMPart
           /\ UNCHANGED job => JobPart
           /\ UNCHANGED <<recorded, crashes>> => RestPart
           /\ JobPart /\ UNCHANGED <<run, lock>> => RunPart
  <1> USE Facts
  <1>1. UNCHANGED inst => InstPart
    BY DEF InstPart, InstMoves
  <1>2. UNCHANGED vms => VMPart
    BY DEF VMPart, VMMoves
  <1>3. UNCHANGED job => JobPart
    BY DEF JobPart, JobMoves
  <1>4. UNCHANGED <<recorded, crashes>> => RestPart
    BY DEF RestPart
  <1>5. ASSUME JobPart, UNCHANGED <<run, lock>> PROVE RunPart
    <2>1. ASSUME NEW r \in Runs PROVE RunMoves(r)
      <3>1. Employed(r) /\ Holds(r) /\ run[r] \in RunRows
        OBVIOUS
      <3>2. Employed(r)'
        BY <1>5, <3>1 DEF Employed, JobPart, JobMoves, RunRows
      <3> QED  BY <1>5, <3>1, <3>2 DEF RunMoves, Holds, ByName
    <2> QED  BY <1>5, <2>1 DEF RunPart
  <1> QED  BY <1>1, <1>2, <1>3, <1>4, <1>5

\* The job of a run is still known after a step.
LEMMA EmployedKept ==
    ASSUME NEW r \in Runs, Employed(r), run[r] \in RunRows, JobPart,
           run'[r].kind = run[r].kind, run'[r].inst = run[r].inst
    PROVE  Employed(r)'
  <1>1. run[r].kind \in Kinds \cup {"none"}
    BY DEF RunRows
  <1>2. \A i \in Insts, k \in Kinds : job[i][k] # "none" => job'[i][k] # "none"
    BY DEF JobPart, JobMoves
  <1> QED  BY <1>1, <1>2 DEF Employed

\* The idle run, and a run with other fields written.
LEMMA IdleFields == IdleRun \in RunRows /\ IdleRun.kind = "none"
  BY DEF IdleRun, RunRows, Steps

LEMMA RunFields ==
    ASSUME NEW x \in RunRows, NEW pc \in Steps, NEW v \in VMs \cup {NoVM}, NEW n \in Names
    PROVE  /\ LET y == [x EXCEPT !.pc = pc]
              IN  y \in RunRows /\ y.kind = x.kind /\ y.inst = x.inst /\ y.pc = pc /\ y.name = x.name
           /\ LET y == [x EXCEPT !.pc = pc, !.vm = v]
              IN  y \in RunRows /\ y.kind = x.kind /\ y.inst = x.inst /\ y.pc = pc
           /\ LET y == [x EXCEPT !.pc = pc, !.name = n]
              IN  y \in RunRows /\ y.kind = x.kind /\ y.inst = x.inst /\ y.pc = pc /\ y.name = n
           /\ LET y == [x EXCEPT !.name = n, !.vm = v, !.pc = pc]
              IN  y \in RunRows /\ y.kind = x.kind /\ y.inst = x.inst /\ y.pc = pc /\ y.name = n
  BY DEF RunRows

\* A run is put down, with or without its lock.
LEMMA EndMoves ==
    ASSUME ProvInv, NEW r \in Runs, run[r].kind # "none", NEW left \in {Free, Left},
           run' = [run EXCEPT ![r] = IdleRun],
           lock' = [lock EXCEPT ![run[r].inst] = IF @ = r THEN left ELSE @],
           JobPart
    PROVE  RunPart
  <1> USE Facts
  <1>1. PICK i \in Insts : i = run[r].inst
    BY DEF Employed
  <1>2. lock' = [lock EXCEPT ![i] = IF lock[i] = r THEN left ELSE lock[i]]
    BY <1>1
  <1>3. ASSUME NEW q \in Runs PROVE RunMoves(q) /\ run'[q] \in RunRows
    <2>1. CASE q = r
      BY <2>1, IdleFields DEF RunMoves, Employed, Holds, ByName
    <2>2. CASE q # r
      <3>1. run'[q] = run[q] /\ run[q] \in RunRows /\ Employed(q) /\ Holds(q)
        BY <2>2
      <3>2. Employed(q)'
        BY <3>1, EmployedKept
      <3>3. Holds(q)'
        BY <1>2, <2>2, <3>1 DEF Holds, Employed
      <3> QED  BY <3>1, <3>2, <3>3 DEF RunMoves, ByName
    <2> QED  BY <2>1, <2>2
  <1> QED  BY <1>2, <1>3 DEF RunPart

\* A run goes on to another of its steps.
LEMMA GoesOn ==
    ASSUME ProvInv, NEW r \in Runs, run[r].kind # "none", run[r].pc # "lock",
           NEW x \in RunRows, run' = [run EXCEPT ![r] = x],
           x.kind = run[r].kind, x.inst = run[r].inst,
           ByName(x) => \/ x.name = inst[x.inst].name
                        \/ ByName(run[r]) /\ x.name = run[r].name,
           UNCHANGED lock, JobPart
    PROVE  RunPart
  <1> USE Facts
  <1>1. ASSUME NEW q \in Runs PROVE RunMoves(q) /\ run'[q] \in RunRows
    <2>1. Employed(q) /\ Holds(q) /\ run[q] \in RunRows
      OBVIOUS
    <2>2. CASE q = r
      <3>1. run'[q] = x
        BY <2>2
      <3>2. Employed(q)'
        BY <2>1, <2>2, <3>1, EmployedKept
      <3> QED  BY <2>1, <2>2, <3>1, <3>2 DEF RunMoves, Holds
    <2>3. CASE q # r
      <3>1. run'[q] = run[q]
        BY <2>3
      <3>2. Employed(q)'
        BY <2>1, <3>1, EmployedKept
      <3> QED  BY <2>1, <3>1, <3>2 DEF RunMoves, Holds
    <2> QED  BY <2>2, <2>3
  <1> QED  BY <1>1 DEF RunPart

\* A job is written with a status other than none.
LEMMA JobWritten ==
    ASSUME ProvInv, NEW i \in Insts, NEW k \in Kinds, NEW s \in JobStates \ {"none"},
           job' = [job EXCEPT ![i][k] = s]
    PROVE  JobPart
  <1> USE Facts
  <1>1. job' = [job EXCEPT ![i] = [job[i] EXCEPT ![k] = s]]
    OBVIOUS
  <1>2. [job[i] EXCEPT ![k] = s] \in [Kinds -> JobStates]
    OBVIOUS
  <1>3. ASSUME NEW j \in Insts, NEW m \in Kinds PROVE JobMoves(j, m)
    BY <1>1 DEF JobMoves
  <1> QED  BY <1>1, <1>2, <1>3 DEF JobPart

\* A handler returns.
LEMMA ReturnMoves ==
    ASSUME ProvInv, NEW r \in Runs, run[r].kind # "none",
           NEW results \in SUBSET (JobStates \ {"none"}), Return(r, results)
    PROVE  RunPart /\ JobPart /\ UNCHANGED crashes
  <1> USE Facts
  <1>1. run[r].inst \in Insts /\ run[r].kind \in Kinds
    BY DEF Employed, RunRows
  <1>2. JobPart
    <2>1. PICK result \in results :
             job' = IF run[r].kind = "request" THEN job
                    ELSE [job EXCEPT ![run[r].inst][run[r].kind] = result]
      BY DEF Return
    <2>2. result \in JobStates \ {"none"}
      OBVIOUS
    <2>3. CASE run[r].kind = "request"
      BY <2>1, <2>3, StillMoves
    <2>4. CASE run[r].kind # "request"
      BY <1>1, <2>1, <2>2, <2>4, JobWritten
    <2> QED  BY <2>3, <2>4
  <1>3. RunPart
    <2>1. /\ run' = [run EXCEPT ![r] = IdleRun]
          /\ lock' = [lock EXCEPT ![run[r].inst] = IF @ = r THEN Free ELSE @]
      BY DEF Return
    <2>2. Free \in {Free, Left}
      OBVIOUS
    <2> QED  BY <1>2, <2>1, <2>2, EndMoves
  <1> QED  BY <1>2, <1>3 DEF Return

LEMMA Results == Nil \in SUBSET (JobStates \ {"none"}) /\ Error \in SUBSET (JobStates \ {"none"})
                 /\ Nil \cup Error \in SUBSET (JobStates \ {"none"})
  BY DEF Nil, Error, JobStates

\* A handler goes on.
LEMMA GoMoves ==
    ASSUME ProvInv, NEW r \in Runs, run[r].kind # "none", run[r].pc # "lock",
           NEW pc \in Steps, Go(r, pc), ByName([run[r] EXCEPT !.pc = pc]) => ByName(run[r])
    PROVE  RunPart /\ JobPart /\ UNCHANGED crashes
  <1> USE Facts
  <1> DEFINE x == [run[r] EXCEPT !.pc = pc]
  <1>1. x \in RunRows /\ x.kind = run[r].kind /\ x.inst = run[r].inst /\ x.name = run[r].name
    <2>1. run[r] \in RunRows
      OBVIOUS
    <2> QED  BY <2>1 DEF RunRows
  <1>2. run' = [run EXCEPT ![r] = x] /\ UNCHANGED <<job, lock, crashes>>
    BY DEF Go
  <1>3. ByName(x) => ByName(run[r])
    OBVIOUS
  <1>4. JobPart
    BY <1>2, StillMoves
  <1> HIDE DEF x
  <1> QED  BY <1>1, <1>2, <1>3, <1>4, GoesOn

\* Another field of a row is written.
LEMMA RowWritten ==
    ASSUME ProvInv, NEW i \in Insts, NEW x \in InstRows, inst' = [inst EXCEPT ![i] = x],
           x.name = inst[i].name \/ "rename" \in Ops, x.vm = inst[i].vm
    PROVE  InstPart
  <1> USE Facts
  <1> QED  BY DEF InstPart, InstMoves

LEMMA StatusWritten ==
    ASSUME ProvInv, NEW i \in Insts, NEW s \in InstStatus, inst' = [inst EXCEPT ![i].status = s]
    PROVE  InstPart
  <1> USE Facts
  <1> DEFINE x == [inst[i] EXCEPT !.status = s]
  <1>1. x \in InstRows /\ x.name = inst[i].name /\ x.vm = inst[i].vm
    BY DEF InstRows
  <1>2. inst' = [inst EXCEPT ![i] = x]
    OBVIOUS
  <1> HIDE DEF x
  <1> QED  BY <1>1, <1>2, RowWritten

\* A machine found by name is mapped unless the row has one.
LEMMA MapMoves ==
    ASSUME ProvInv, NEW r \in Runs, run[r].kind # "none", ByName(run[r]),
           NEW v \in Matches(run[r].name), inst' = MapVM(run[r].inst, v)
    PROVE  InstPart
  <1> USE Facts
  <1>1. PICK i \in Insts : i = run[r].inst
    BY DEF Employed
  <1> DEFINE x == [inst[i] EXCEPT !.vm = IF inst[i].vm = NoVM THEN v ELSE inst[i].vm]
  <1>2. v \in VMs
    BY DEF Matches
  <1>3. /\ x \in InstRows /\ x.name = inst[i].name
        /\ x.vm = IF inst[i].vm = NoVM THEN v ELSE inst[i].vm
    BY <1>2 DEF InstRows
  <1>4. inst' = [inst EXCEPT ![i] = x]
    BY <1>1 DEF MapVM
  <1> HIDE DEF x
  <1>5. ASSUME NEW j \in Insts PROVE InstMoves(j)
    BY <1>1, <1>3, <1>4 DEF InstMoves
  <1> QED  BY <1>3, <1>4, <1>5 DEF InstPart

-----------------------------------------------------------------------------
\* provisionInstance.
LEMMA ProvisionMoves ==
    ASSUME ProvInv, NEW r \in Runs,
           AcquireLock(r) \/ LoadForProvision(r) \/ ProvisionVM(r) \/ MarkProvisioning(r)
           \/ ListAndMap(r) \/ EnqueueSync(r)
    PROVE  Moves
  <1> USE Facts, Results
  <1>1. run[r].kind = "provision" /\ run[r] \in RunRows
    BY DEF AcquireLock, LoadForProvision, ProvisionVM, MarkProvisioning, ListAndMap,
           EnqueueSync, Doing
  <1>2. PICK i \in Insts : i = run[r].inst
    BY <1>1 DEF Employed
  <1>3. ASSUME Return(r, Error) \/ Return(r, Nil) PROVE RunPart /\ JobPart /\ UNCHANGED crashes
    BY <1>1, <1>3, ReturnMoves
  <1>4. ASSUME AcquireLock(r) PROVE Moves
    <2>1. InstPart /\ VMPart /\ UNCHANGED recorded /\ run[r].pc = "lock"
      BY <1>4, StillMoves DEF AcquireLock, Doing
    <2>2. ASSUME lock[i] = Free, lock' = [lock EXCEPT ![i] = r],
                 run' = [run EXCEPT ![r].pc = "load"], UNCHANGED <<job, crashes>>
          PROVE  RunPart /\ JobPart
      <3> DEFINE x == [run[r] EXCEPT !.pc = "load"]
      <3>1. x \in RunRows /\ x.kind = "provision" /\ x.inst = i /\ x.pc = "load"
        BY <1>1, <1>2 DEF RunRows, Steps
      <3>2. run' = [run EXCEPT ![r] = x]
        BY <2>2
      <3>3. JobPart
        BY <2>2, StillMoves
      <3> HIDE DEF x
      <3>4. ASSUME NEW q \in Runs PROVE RunMoves(q) /\ run'[q] \in RunRows
        <4>1. Employed(q) /\ Holds(q) /\ run[q] \in RunRows
          OBVIOUS
        <4>2. CASE q = r
          <5>1. run'[q] = x
            BY <3>2, <4>2
          <5>2. Employed(q)'
            BY <1>1, <1>2, <3>1, <3>3, <4>1, <4>2, <5>1, EmployedKept
          <5> QED  BY <2>2, <3>1, <4>2, <5>1, <5>2 DEF RunMoves, Holds, ByName
        <4>3. CASE q # r
          <5>1. run'[q] = run[q]
            BY <3>2, <4>3
          <5>2. Employed(q)'
            BY <3>3, <4>1, <5>1, EmployedKept
          <5>3. Holds(q)'
            BY <2>2, <4>1, <5>1, ProvisioningAssumption DEF Holds, Employed
          <5> QED  BY <4>1, <5>1, <5>2, <5>3 DEF RunMoves
        <4> QED  BY <4>2, <4>3
      <3> QED  BY <2>2, <3>2, <3>3, <3>4 DEF RunPart
    <2>3. RunPart /\ JobPart /\ UNCHANGED crashes
      BY <1>2, <1>3, <1>4, <2>2 DEF AcquireLock
    <2> QED  BY <2>1, <2>3 DEF Moves, RestPart
  <1>5. ASSUME LoadForProvision(r) PROVE Moves
    <2>1. InstPart /\ VMPart /\ UNCHANGED recorded /\ run[r].pc = "load"
      BY <1>5, StillMoves DEF LoadForProvision, Doing
    <2>2. inst[i].vm \in VMs \cup {NoVM} /\ inst[i].name \in Names
      BY DEF InstRows
    <2>3. ASSUME run' = [run EXCEPT ![r] = [@ EXCEPT !.pc = "get", !.vm = inst[i].vm]],
                 UNCHANGED <<job, lock, crashes>>
          PROVE  RunPart /\ JobPart
      <3> DEFINE x == [run[r] EXCEPT !.pc = "get", !.vm = inst[i].vm]
      <3>1. x \in RunRows /\ x.kind = run[r].kind /\ x.inst = run[r].inst /\ x.pc = "get"
        BY <1>1, <2>2 DEF RunRows, Steps
      <3>2. run' = [run EXCEPT ![r] = x]
        BY <2>3
      <3> HIDE DEF x
      <3>3. ~ByName(x) /\ JobPart
        BY <1>1, <2>3, <3>1, StillMoves DEF ByName
      <3> QED  BY <1>1, <2>1, <2>3, <3>1, <3>2, <3>3, GoesOn
    <2>4. ASSUME run' = [run EXCEPT ![r] = [@ EXCEPT !.pc = "create", !.name = inst[i].name]],
                 UNCHANGED <<job, lock, crashes>>
          PROVE  RunPart /\ JobPart
      <3> DEFINE x == [run[r] EXCEPT !.pc = "create", !.name = inst[i].name]
      <3>1. x \in RunRows /\ x.kind = run[r].kind /\ x.inst = run[r].inst /\ x.name = inst[i].name
        BY <1>1, <2>2 DEF RunRows, Steps
      <3>2. run' = [run EXCEPT ![r] = x]
        BY <2>4
      <3> HIDE DEF x
      <3>3. JobPart /\ x.name = inst[x.inst].name
        BY <1>2, <2>4, <3>1, StillMoves
      <3> QED  BY <1>1, <2>1, <2>4, <3>1, <3>2, <3>3, GoesOn
    <2>5. RunPart /\ JobPart /\ UNCHANGED crashes
      BY <1>2, <1>3, <1>5, <2>3, <2>4 DEF LoadForProvision
    <2> QED  BY <2>1, <2>5 DEF Moves, RestPart
  <1>6. ASSUME NEW pc \in {"mark", "list", "finish"}, Go(r, pc), run[r].pc \in {"create", "mark", "list"}
        PROVE  RunPart /\ JobPart /\ UNCHANGED crashes
    <2>1. pc \in Steps /\ ByName(run[r]) /\ run[r].pc # "lock"
      BY <1>1, <1>6 DEF Steps, ByName
    <2> QED  BY <1>1, <1>6, <2>1, GoMoves
  <1>7. ASSUME ProvisionVM(r) PROVE Moves
    <2>1. InstPart /\ run[r].pc = "create" /\ ByName(run[r])
      BY <1>1, <1>7, StillMoves DEF ProvisionVM, Doing, ByName
    <2>2. ASSUME NEW v \in VMs, Fresh(v), vms' = [vms EXCEPT ![v] = Machine(r)] PROVE VMPart
      <3>1. Machine(r) \in VMRows
        BY <1>1 DEF Machine, VMRows, RunRows
      <3>2. ASSUME NEW u \in VMs PROVE VMMoves(u)
        BY <1>1, <2>1, <2>2 DEF VMMoves
      <3> QED  BY <2>2, <3>1, <3>2 DEF VMPart
    <2>3. VMPart
      BY <1>7, <2>2, StillMoves DEF ProvisionVM
    <2>4. RunPart /\ JobPart /\ UNCHANGED crashes /\ recorded' \subseteq Insts
      BY <1>3, <1>6, <1>7, <2>1 DEF ProvisionVM
    <2> QED  BY <2>1, <2>3, <2>4 DEF Moves, RestPart
  <1>8. ASSUME MarkProvisioning(r) PROVE Moves
    <2>1. VMPart /\ UNCHANGED recorded /\ run[r].pc = "mark"
      BY <1>8, StillMoves DEF MarkProvisioning, Doing
    <2>2. inst' = [inst EXCEPT ![i].status = "provisioning"] /\ "provisioning" \in InstStatus
      BY <1>2, <1>8 DEF MarkProvisioning, InstStatus
    <2>3. InstPart
      BY <2>2, StatusWritten
    <2>4. RunPart /\ JobPart /\ UNCHANGED crashes
      BY <1>6, <1>8, <2>1 DEF MarkProvisioning
    <2> QED  BY <2>1, <2>3, <2>4 DEF Moves, RestPart
  <1>9. ASSUME ListAndMap(r) PROVE Moves
    <2>1. VMPart /\ run[r].pc = "list" /\ ByName(run[r])
      BY <1>1, <1>9, StillMoves DEF ListAndMap, Doing, ByName
    <2>2. InstPart
      BY <1>1, <1>9, <2>1, MapMoves, StillMoves DEF ListAndMap
    <2>3. RunPart /\ JobPart /\ UNCHANGED crashes
      BY <1>3, <1>6, <1>9, <2>1 DEF ListAndMap
    <2>4. recorded' \subseteq Insts
      BY <1>2, <1>9 DEF ListAndMap
    <2> QED  BY <2>1, <2>2, <2>3, <2>4 DEF Moves, RestPart
  <1>10. ASSUME EnqueueSync(r) PROVE Moves
    <2>1. InstPart /\ VMPart /\ UNCHANGED recorded
      BY <1>10, StillMoves DEF EnqueueSync
    <2>2. ASSUME job' = [job EXCEPT ![i]["sync"] = IF @ = "running" THEN @ ELSE "queued",
                                    ![i]["provision"] = "done"],
                 run' = [run EXCEPT ![r] = IdleRun],
                 lock' = [lock EXCEPT ![i] = IF @ = r THEN Free ELSE @]
          PROVE  RunPart /\ JobPart
      <3>1. JobPart
        <4> DEFINE s == IF job[i]["sync"] = "running" THEN "running" ELSE "queued"
                   x == [job[i] EXCEPT !["sync"] = s, !["provision"] = "done"]
        <4>1. s \in {"running", "queued"} /\ job' = [job EXCEPT ![i] = x]
          BY <2>2 DEF Kinds
        <4> HIDE DEF s
        <4>2. x \in [Kinds -> JobStates] /\ \A k \in Kinds : x[k] # "none" \/ x[k] = job[i][k]
          BY <4>1 DEF Kinds, JobStates
        <4> HIDE DEF x
        <4>3. ASSUME NEW j \in Insts, NEW k \in Kinds PROVE JobMoves(j, k)
          BY <4>1, <4>2 DEF JobMoves
        <4> QED  BY <4>1, <4>2, <4>3 DEF JobPart
      <3>2. Free \in {Free, Left}
        OBVIOUS
      <3> QED  BY <1>1, <1>2, <2>2, <3>1, <3>2, EndMoves
    <2>3. RunPart /\ JobPart /\ UNCHANGED crashes
      BY <1>2, <1>3, <1>10, <2>2 DEF EnqueueSync
    <2> QED  BY <2>1, <2>3 DEF Moves, RestPart
  <1> QED  BY <1>4, <1>5, <1>7, <1>8, <1>9, <1>10

\* syncInstanceByID, terminateInstance, Terminate and changeSuspension.
LEMMA OtherHandlersMove ==
    ASSUME ProvInv, NEW r \in Runs,
           LoadForSync(r) \/ ResolveByName(r) \/ GetVM(r) \/ WriteStatus(r)
           \/ LoadForTerminate(r) \/ FlagDeleting(r) \/ DestroyVM(r) \/ WriteDeleted(r)
           \/ ChangeSuspension(r)
    PROVE  Moves
  <1> USE Facts, Results
  <1>1. run[r].kind # "none" /\ run[r] \in RunRows
    BY DEF LoadForSync, ResolveByName, GetVM, WriteStatus, LoadForTerminate, FlagDeleting,
           DestroyVM, WriteDeleted, ChangeSuspension, Doing, At
  <1>2. PICK i \in Insts : i = run[r].inst
    BY <1>1 DEF Employed
  <1>3. ASSUME Return(r, Error) \/ Return(r, Nil) \/ Return(r, Nil \cup Error)
        PROVE  RunPart /\ JobPart /\ UNCHANGED crashes
    BY <1>1, <1>3, ReturnMoves
  <1>4. ASSUME NEW pc \in {"write", "destroy"}, Go(r, pc), run[r].pc # "lock"
        PROVE  RunPart /\ JobPart /\ UNCHANGED crashes
    <2> DEFINE x == [run[r] EXCEPT !.pc = pc]
    <2>1. x.pc = pc /\ pc \in Steps
      BY <1>1 DEF RunRows, Steps
    <2>2. ~ByName(x)
      BY <2>1 DEF ByName
    <2> QED  BY <1>1, <1>4, <2>1, <2>2, GoMoves
  <1>5. inst[i].vm \in VMs \cup {NoVM} /\ inst[i].name \in Names
    BY DEF InstRows
  <1>6. ASSUME LoadForSync(r) PROVE Moves
    <2>1. InstPart /\ VMPart /\ UNCHANGED recorded /\ run[r].pc = "load"
      BY <1>6, StillMoves DEF LoadForSync, Doing
    <2>2. ASSUME NEW pc \in {"list", "get"},
                 run' = [run EXCEPT ![r] = [@ EXCEPT !.name = inst[i].name, !.vm = inst[i].vm,
                                                     !.pc = pc]],
                 UNCHANGED <<job, lock, crashes>>
          PROVE  RunPart /\ JobPart
      <3> DEFINE x == [run[r] EXCEPT !.name = inst[i].name, !.vm = inst[i].vm, !.pc = pc]
      <3>1. x \in RunRows /\ x.kind = run[r].kind /\ x.inst = run[r].inst /\ x.name = inst[i].name
        BY <1>1, <1>5 DEF RunRows, Steps
      <3>2. run' = [run EXCEPT ![r] = x]
        BY <2>2
      <3> HIDE DEF x
      <3>3. JobPart /\ x.name = inst[x.inst].name
        BY <1>2, <2>2, <3>1, StillMoves
      <3> QED  BY <1>1, <2>1, <2>2, <3>1, <3>2, <3>3, GoesOn
    <2>3. RunPart /\ JobPart /\ UNCHANGED crashes
      BY <1>2, <1>3, <1>6, <2>2 DEF LoadForSync
    <2> QED  BY <2>1, <2>3 DEF Moves, RestPart
  <1>7. ASSUME NEW pc \in {"get", "write", "destroy"}, NEW v \in VMs \cup {NoVM}, run[r].pc # "lock",
               run' = [run EXCEPT ![r] = [@ EXCEPT !.pc = pc, !.vm = v]],
               UNCHANGED <<job, lock>>
        PROVE  RunPart /\ JobPart
    <2> DEFINE x == [run[r] EXCEPT !.pc = pc, !.vm = v]
    <2>1. x \in RunRows /\ x.kind = run[r].kind /\ x.inst = run[r].inst /\ x.pc = pc
      BY <1>1 DEF RunRows, Steps
    <2>2. run' = [run EXCEPT ![r] = x]
      BY <1>7
    <2> HIDE DEF x
    <2>3. ~ByName(x) /\ JobPart
      BY <1>7, <2>1, StillMoves DEF ByName
    <2> QED  BY <1>1, <1>7, <2>1, <2>2, <2>3, GoesOn
  <1>8. ASSUME ResolveByName(r) PROVE Moves
    <2>1. VMPart /\ UNCHANGED recorded /\ run[r].pc = "list" /\ ByName(run[r])
      BY <1>8, StillMoves DEF ResolveByName, Doing, ByName
    <2>2. InstPart
      BY <1>1, <1>8, <2>1, MapMoves, StillMoves DEF ResolveByName
    <2>3. Matches(run[r].name) \subseteq VMs
      BY DEF Matches
    <2>4. RunPart /\ JobPart /\ UNCHANGED crashes
      BY <1>3, <1>7, <1>8, <2>1, <2>3 DEF ResolveByName
    <2> QED  BY <2>1, <2>2, <2>4 DEF Moves, RestPart
  <1>9. ASSUME GetVM(r) PROVE Moves
    <2>1. InstPart /\ VMPart /\ UNCHANGED recorded /\ run[r].pc = "get"
      BY <1>9, StillMoves DEF GetVM, At
    <2>2. RunPart /\ JobPart /\ UNCHANGED crashes
      BY <1>3, <1>4, <1>9, <2>1 DEF GetVM
    <2> QED  BY <2>1, <2>2 DEF Moves, RestPart
  <1>10. ASSUME WriteStatus(r) PROVE Moves
    <2>1. VMPart /\ UNCHANGED recorded /\ RunPart /\ JobPart /\ UNCHANGED crashes
      BY <1>3, <1>10, StillMoves DEF WriteStatus
    <2>2. PICK st \in Reported : inst' = [inst EXCEPT ![i].status = st]
      BY <1>2, <1>10 DEF WriteStatus
    <2>3. st \in InstStatus
      BY ProvisioningAssumption DEF InstStatus
    <2>4. InstPart
      BY <2>2, <2>3, StatusWritten
    <2> QED  BY <2>1, <2>4 DEF Moves, RestPart
  <1>11. ASSUME LoadForTerminate(r) PROVE Moves
    <2>1. InstPart /\ VMPart /\ UNCHANGED recorded /\ run[r].pc = "load"
      BY <1>11, StillMoves DEF LoadForTerminate, Doing
    <2>2. ASSUME NEW pc \in {"write", "destroy"},
                 run' = [run EXCEPT ![r] = [@ EXCEPT !.vm = inst[i].vm, !.pc = pc]],
                 UNCHANGED <<job, lock, crashes>>
          PROVE  RunPart /\ JobPart
      <3>1. [run[r] EXCEPT !.vm = inst[i].vm, !.pc = pc] = [run[r] EXCEPT !.pc = pc, !.vm = inst[i].vm]
        BY <1>1 DEF RunRows
      <3> QED  BY <1>5, <1>7, <2>1, <2>2, <3>1
    <2>3. RunPart /\ JobPart /\ UNCHANGED crashes
      BY <1>2, <1>3, <1>11, <2>2 DEF LoadForTerminate
    <2> QED  BY <2>1, <2>3 DEF Moves, RestPart
  <1>12. ASSUME FlagDeleting(r) PROVE Moves
    <2>1. VMPart /\ UNCHANGED recorded /\ run[r].pc = "flag"
      BY <1>12, StillMoves DEF FlagDeleting, Doing
    <2>2. RunPart /\ JobPart /\ UNCHANGED crashes
      BY <1>4, <1>12, <2>1 DEF FlagDeleting
    <2>3. inst' = [inst EXCEPT ![i].status = "deleting"] /\ "deleting" \in InstStatus
      BY <1>2, <1>12 DEF FlagDeleting, InstStatus
    <2>4. InstPart
      BY <2>3, StatusWritten
    <2> QED  BY <2>1, <2>2, <2>4 DEF Moves, RestPart
  <1>13. ASSUME DestroyVM(r) PROVE Moves
    <2>1. InstPart /\ UNCHANGED recorded /\ run[r].pc = "destroy"
      BY <1>13, StillMoves DEF DestroyVM
    <2>2. RunPart /\ JobPart /\ UNCHANGED crashes
      BY <1>3, <1>4, <1>13, <2>1 DEF DestroyVM
    <2>3. ASSUME vms' = [vms EXCEPT ![run[r].vm].state = "gone"] PROVE VMPart
      <3>1. vms' = [vms EXCEPT ![run[r].vm] = [vms[run[r].vm] EXCEPT !.state = "gone"]]
        BY <2>3
      <3>2. ASSUME NEW v \in VMs PROVE vms'[v] \in VMRows /\ VMMoves(v)
        <4>1. vms'[v] = vms[v] \/ vms'[v] = [vms[v] EXCEPT !.state = "gone"]
          BY <3>1
        <4> QED  BY <4>1 DEF VMRows, VMMoves
      <3> QED  BY <3>1, <3>2 DEF VMPart
    <2>4. VMPart
      BY <1>13, <2>3, StillMoves DEF DestroyVM
    <2> QED  BY <2>1, <2>2, <2>4 DEF Moves, RestPart
  <1>14. ASSUME WriteDeleted(r) PROVE Moves
    <2>1. VMPart /\ UNCHANGED recorded /\ RunPart /\ JobPart /\ UNCHANGED crashes
      BY <1>3, <1>14, StillMoves DEF WriteDeleted
    <2> DEFINE x == [inst[i] EXCEPT !.status = "deleted", !.deleted = TRUE]
    <2>2. x \in InstRows /\ x.name = inst[i].name /\ x.vm = inst[i].vm
      BY DEF InstRows, InstStatus
    <2>3. inst' = [inst EXCEPT ![i] = x]
      BY <1>2, <1>14 DEF WriteDeleted
    <2> HIDE DEF x
    <2>4. InstPart
      BY <2>2, <2>3, RowWritten
    <2> QED  BY <2>1, <2>4 DEF Moves, RestPart
  <1>15. ASSUME ChangeSuspension(r) PROVE Moves
    <2>1. VMPart /\ UNCHANGED recorded /\ RunPart /\ JobPart /\ UNCHANGED crashes
      BY <1>3, <1>15, StillMoves DEF ChangeSuspension
    <2>2. UNCHANGED inst \/ \E st \in {"suspended", "active"} : inst' = [inst EXCEPT ![i].status = st]
      BY <1>2, <1>15 DEF ChangeSuspension
    <2>3. {"suspended", "active"} \subseteq InstStatus
      BY DEF InstStatus
    <2>4. InstPart
      BY <2>2, <2>3, StatusWritten, StillMoves
    <2> QED  BY <2>1, <2>4 DEF Moves, RestPart
  <1> QED
    BY <1>6, <1>8, <1>9, <1>10, <1>11, <1>12, <1>13, <1>14, <1>15

\* Customers, administrators and the queue.
LEMMA OutsideMoves ==
    ASSUME ProvInv, NEW i \in Insts,
           \/ Provision(i) \/ LockExpires(i)
           \/ AdminSuspendInstance(i) \/ AdminUnsuspendInstance(i)
           \/ AdminForceTerminateInstance(i)
           \/ \E n \in Names : Rename(i, n)
    PROVE  Moves
  <1> USE Facts
  <1>1. ASSUME Provision(i) PROVE Moves
    <2>1. VMPart /\ RestPart /\ UNCHANGED <<run, lock>>
      BY <1>1, StillMoves DEF Provision
    <2>2. "pending" \in InstStatus /\ "provision" \in Kinds /\ "queued" \in JobStates \ {"none"}
      BY DEF InstStatus, Kinds, JobStates
    <2>3. InstPart /\ JobPart
      BY <1>1, <2>2, StatusWritten, JobWritten DEF Provision
    <2> QED  BY <2>1, <2>3, StillMoves DEF Moves
  <1>2. ASSUME LockExpires(i) PROVE Moves
    <2>1. VMPart /\ RestPart /\ InstPart /\ JobPart
      BY <1>2, StillMoves DEF LockExpires
    <2>2. lock[i] = Left /\ lock' = [lock EXCEPT ![i] = Free] /\ run' = run
      BY <1>2 DEF LockExpires
    <2>3. ASSUME NEW r \in Runs PROVE RunMoves(r)
      <3>1. Employed(r) /\ Holds(r) /\ run[r] \in RunRows
        OBVIOUS
      <3>2. Employed(r)'
        BY <2>1, <2>2, <3>1, EmployedKept
      <3>3. Holds(r)'
        BY <2>2, <3>1, ProvisioningAssumption DEF Holds, Employed
      <3> QED  BY <2>2, <3>2, <3>3 DEF RunMoves
    <2> QED  BY <2>1, <2>2, <2>3 DEF Moves, RunPart
  <1>3. ASSUME NEW k \in Kinds, NEW from, NEW to \in InstStatus \cup {""}, AdminEnqueue(i, k, from, to)
        PROVE  Moves
    <2>1. VMPart /\ RestPart /\ UNCHANGED <<run, lock>>
      BY <1>3, StillMoves DEF AdminEnqueue
    <2>2. "queued" \in JobStates \ {"none"}
      BY DEF JobStates
    <2>3. JobPart
      BY <1>3, <2>2, JobWritten, StillMoves DEF AdminEnqueue
    <2> DEFINE st == IF to = "" THEN inst[i].status ELSE to
    <2>4. inst' = [inst EXCEPT ![i].status = st]
      BY <1>3 DEF AdminEnqueue
    <2>5. st \in InstStatus
      BY DEF InstRows
    <2> HIDE DEF st
    <2>6. InstPart
      BY <2>4, <2>5, StatusWritten
    <2> QED  BY <2>1, <2>3, <2>6, StillMoves DEF Moves
  <1>4. ASSUME NEW n \in Names, Rename(i, n) PROVE Moves
    <2>1. VMPart /\ RestPart /\ JobPart /\ RunPart
      BY <1>4, StillMoves DEF Rename
    <2> DEFINE x == [inst[i] EXCEPT !.name = n]
    <2>2. x \in InstRows /\ x.vm = inst[i].vm
      BY DEF InstRows
    <2>3. inst' = [inst EXCEPT ![i] = x] /\ "rename" \in Ops
      BY <1>4 DEF Rename
    <2> HIDE DEF x
    <2>4. InstPart
      BY <2>2, <2>3, RowWritten
    <2> QED  BY <2>1, <2>4 DEF Moves
  <1>5. /\ {"suspend", "unsuspend", "terminate"} \subseteq Kinds
        /\ {"suspended", "active", ""} \subseteq InstStatus \cup {""}
    BY DEF Kinds, InstStatus
  <1> QED
    BY <1>1, <1>2, <1>3, <1>4, <1>5
       DEF AdminSuspendInstance, AdminUnsuspendInstance, AdminForceTerminateInstance

\* A run begins, or dies.
LEMMA WorkerMoves ==
    ASSUME ProvInv, NEW r \in Runs,
           \/ Crash(r)
           \/ \E i \in Insts : RequestTerminate(r, i) \/ \E kind \in Kinds : Start(r, i, kind)
    PROVE  Moves
  <1> USE Facts
  <1>1. ASSUME Crash(r) PROVE Moves
    <2>1. InstPart /\ VMPart /\ UNCHANGED recorded /\ run[r].kind # "none"
      BY <1>1, StillMoves DEF Crash
    <2>2. run[r].inst \in Insts /\ run[r].kind \in Kinds /\ "queued" \in JobStates \ {"none"}
      BY <2>1 DEF Employed, RunRows, JobStates
    <2>3. JobPart
      BY <1>1, <2>2, JobWritten, StillMoves DEF Crash
    <2>4. /\ run' = [run EXCEPT ![r] = IdleRun]
          /\ lock' = [lock EXCEPT ![run[r].inst] = IF @ = r THEN Left ELSE @]
          /\ Left \in {Free, Left}
      BY <1>1 DEF Crash
    <2>5. RunPart
      BY <2>1, <2>3, <2>4, EndMoves
    <2>6. crashes' \in 0 .. MaxCrashes
      BY <1>1, ProvisioningAssumption DEF Crash
    <2> QED  BY <2>1, <2>3, <2>5, <2>6 DEF Moves, RestPart
  <1>2. ASSUME NEW x \in RunRows, run[r].kind = "none", run' = [run EXCEPT ![r] = x],
               x.inst \in Insts, x.kind # "request" => job'[x.inst][x.kind] # "none",
               x.kind = "provision" => x.pc = "lock", x.pc # "list", UNCHANGED lock, JobPart
        PROVE  RunPart
    <2>1. ASSUME NEW q \in Runs PROVE RunMoves(q) /\ run'[q] \in RunRows
      <3>1. Employed(q) /\ Holds(q) /\ run[q] \in RunRows
        OBVIOUS
      <3>2. CASE q = r
        BY <1>2, <3>2 DEF RunMoves, Employed, Holds, ByName
      <3>3. CASE q # r
        <4>1. run'[q] = run[q]
          BY <1>2, <3>3
        <4>2. Employed(q)'
          BY <1>2, <3>1, <4>1, EmployedKept
        <4> QED  BY <1>2, <3>1, <4>1, <4>2 DEF RunMoves, Holds
      <3> QED  BY <3>2, <3>3
    <2> QED  BY <1>2, <2>1 DEF RunPart
  <1>3. ASSUME NEW i \in Insts, RequestTerminate(r, i) PROVE Moves
    <2>1. InstPart /\ VMPart /\ JobPart /\ RestPart /\ UNCHANGED lock /\ run[r].kind = "none"
      BY <1>3, StillMoves DEF RequestTerminate
    <2> DEFINE x == [IdleRun EXCEPT !.kind = "request", !.inst = i, !.pc = "flag", !.vm = inst[i].vm]
    <2>2. x \in RunRows /\ x.kind = "request" /\ x.inst = i /\ x.pc = "flag"
      <3>1. inst[i].vm \in VMs \cup {NoVM}
        BY DEF InstRows
      <3> QED  BY <3>1 DEF IdleRun, RunRows, Steps, Kinds
    <2>3. run' = [run EXCEPT ![r] = x]
      BY <1>3 DEF RequestTerminate
    <2> HIDE DEF x
    <2>4. RunPart
      BY <1>2, <2>1, <2>2, <2>3
    <2> QED  BY <2>1, <2>4 DEF Moves
  <1>4. ASSUME NEW i \in Insts, NEW kind \in Kinds, Start(r, i, kind) PROVE Moves
    <2>1. InstPart /\ VMPart /\ RestPart /\ UNCHANGED lock /\ run[r].kind = "none"
      BY <1>4, StillMoves DEF Start
    <2>2. job' = [job EXCEPT ![i][kind] = "running"] /\ "running" \in JobStates \ {"none"}
      BY <1>4 DEF Start, JobStates
    <2>3. JobPart /\ job'[i][kind] # "none"
      BY <2>2, JobWritten
    <2> DEFINE pc == IF kind = "provision" THEN "lock" ELSE "load"
               x == [IdleRun EXCEPT !.kind = kind, !.inst = i, !.pc = pc]
    <2>4. pc \in {"lock", "load"} /\ (kind = "provision" => pc = "lock")
      OBVIOUS
    <2>5. run' = [run EXCEPT ![r] = x]
      BY <1>4 DEF Start
    <2> HIDE DEF pc
    <2>6. x \in RunRows /\ x.kind = kind /\ x.inst = i /\ x.pc = pc
      BY <2>4 DEF IdleRun, RunRows, Steps
    <2> HIDE DEF x
    <2>7. RunPart
      BY <1>2, <2>1, <2>3, <2>4, <2>5, <2>6
    <2> QED  BY <2>1, <2>3, <2>7 DEF Moves
  <1> QED  BY <1>1, <1>3, <1>4

-----------------------------------------------------------------------------
\* Every step moves runs, rows, machines and jobs in these ways only.
LEMMA StepMoves == ProvInv /\ [ProvNext]_provVars => Moves
  <1> SUFFICES ASSUME ProvInv, [ProvNext]_provVars PROVE Moves
    OBVIOUS
  <1>1. CASE UNCHANGED provVars
    BY <1>1, StillMoves DEF provVars, Moves
  <1>2. ASSUME NEW r \in Runs, HandlerStep(r) PROVE Moves
    BY <1>2, ProvisionMoves, OtherHandlersMove DEF HandlerStep
  <1> QED  BY <1>1, <1>2, OutsideMoves, WorkerMoves DEF ProvNext

LEMMA ProvInvStep == ProvInv /\ [ProvNext]_provVars => ProvInv'
  <1> SUFFICES ASSUME ProvInv, [ProvNext]_provVars PROVE ProvInv'
    OBVIOUS
  <1>1. Moves
    BY StepMoves
  <1>2. \A r \in Runs : Employed(r)' /\ Holds(r)'
    BY <1>1 DEF Moves, RunPart, RunMoves
  <1>3. /\ run' \in [Runs -> RunRows] /\ inst' \in [Insts -> InstRows]
        /\ vms' \in [VMs -> VMRows] /\ job' \in [Insts -> [Kinds -> JobStates]]
        /\ lock' \in [Insts -> Runs \cup {Free, Left}]
        /\ recorded' \subseteq Insts /\ crashes' \in 0 .. MaxCrashes
    BY <1>1 DEF Moves, RunPart, InstPart, VMPart, JobPart, RestPart
  <1>4. \A r \in Runs : \/ run'[r].kind \in {"none", "request"}
                        \/ job'[run'[r].inst][run'[r].kind] # "none"
    BY <1>2 DEF Employed
  <1> QED
    BY <1>2, <1>3, <1>4 DEF ProvInv, ProvTypeOK, RunRows, InstRows, VMRows, JobStates

LEMMA ProvInvInit == ProvInit => ProvInv
  <1> SUFFICES ASSUME ProvInit PROVE ProvInv
    OBVIOUS
  <1>1. \A r \in Runs : run[r] \in RunRows /\ run[r].kind = "none"
    BY IdleFields DEF ProvInit
  <1>2. run \in [Runs -> RunRows]
    BY <1>1 DEF ProvInit
  <1>3. inst \in [Insts -> InstRows]
    BY ProvisioningAssumption DEF ProvInit, InstRows, InstStatus
  <1>4. vms \in [VMs -> VMRows]
    BY DEF ProvInit, VMRows
  <1>5. /\ job \in [Insts -> [Kinds -> JobStates]] /\ lock \in [Insts -> Runs \cup {Free, Left}]
        /\ recorded \subseteq Insts /\ crashes \in 0 .. MaxCrashes
    <2>1. [k \in Kinds |-> "none"] \in [Kinds -> JobStates]
      BY DEF JobStates
    <2>2. job \in [Insts -> [Kinds -> JobStates]]
      BY <2>1 DEF ProvInit
    <2>3. lock \in [Insts -> Runs \cup {Free, Left}] /\ recorded \subseteq Insts
      BY DEF ProvInit
    <2>4. crashes \in 0 .. MaxCrashes
      <3>1. MaxCrashes \in Nat /\ crashes = 0
        BY ProvisioningAssumption DEF ProvInit
      <3> QED  BY <3>1
    <2> QED  BY <2>2, <2>3, <2>4
  <1>6. ProvTypeOK
    BY <1>1, <1>2, <1>3, <1>4, <1>5 DEF ProvTypeOK, RunRows, InstRows, VMRows, JobStates
  <1> QED  BY <1>1, <1>6 DEF ProvInv, Employed, Holds

\* The types, and that whoever provisions holds the lock, in every reachable state.
THEOREM ProvisioningCorrect == ProvSpec => []ProvInv
  BY ProvInvInit, ProvInvStep, PTL DEF ProvSpec

\* However many jobs are run at once, and whatever crashes and expirations have
\* done to the key, one instance has one provisioner (provisionInstance's SETNX).
THEOREM LockAdmitsOne == ProvSpec => []OneProvisioner
  <1>1. ProvInv => OneProvisioner
    <2> SUFFICES ASSUME ProvInv, NEW i \in Insts, NEW r \in Runs, NEW q \in Runs,
                        Provisioner(r, i), Provisioner(q, i)
                 PROVE  r = q
      BY DEF OneProvisioner
    <2> QED  BY DEF ProvInv, Holds, Provisioner
  <1> QED  BY <1>1, ProvisioningCorrect, PTL

\* No step moves a mapping, whichever handlers, renames and administrators
\* interleave (UPDATE ... AND external_vm_id IS NULL).
THEOREM MappingsDoNotMove == ProvSpec => MappingIsStable
  <1>1. ProvInv /\ [ProvNext]_provVars
            => [\A i \in Insts : inst[i].vm # NoVM => inst'[i].vm = inst[i].vm]_provVars
    BY StepMoves DEF Moves, InstPart, InstMoves
  <1> QED  BY <1>1, ProvisioningCorrect, PTL DEF ProvSpec, MappingIsStable

-----------------------------------------------------------------------------
\* What MappedToOwnVM needs: rows, runs that look for a machine and machines that
\* are up carry the name of their instance, and a mapped machine exists.
OwnInv ==
    /\ \A i \in Insts : inst[i].name = NameOf[i]
    /\ \A r \in Runs : ByName(run[r]) => run[r].name = NameOf[run[r].inst]
    /\ \A v \in VMs : vms[v].state = "up" =>
          vms[v].owner \in Insts /\ vms[v].name = NameOf[vms[v].owner]
    /\ \A i \in Insts : inst[i].vm # NoVM =>
          vms[inst[i].vm].state # "none" /\ vms[inst[i].vm].owner = i

LEMMA OwnStep ==
    ASSUME "rename" \notin Ops, \A i, j \in Insts : NameOf[i] = NameOf[j] => i = j
    PROVE  ProvInv /\ OwnInv /\ [ProvNext]_provVars => OwnInv'
  <1> SUFFICES ASSUME ProvInv, OwnInv, [ProvNext]_provVars PROVE OwnInv'
    OBVIOUS
  <1> USE Facts
  <1>1. /\ \A r \in Runs : RunMoves(r) /\ run'[r] \in RunRows
        /\ \A i \in Insts : InstMoves(i) /\ inst'[i] \in InstRows
        /\ \A v \in VMs : VMMoves(v) /\ vms'[v] \in VMRows
    BY StepMoves DEF Moves, RunPart, InstPart, VMPart
  <1>2. \A i \in Insts : inst'[i].name = NameOf[i]
    BY <1>1 DEF InstMoves, OwnInv
  <1>3. ASSUME NEW r \in Runs, ByName(run'[r]) PROVE run'[r].name = NameOf[run'[r].inst]
    <2>1. run'[r].inst \in Insts
      BY <1>1, <1>3 DEF RunMoves, Employed, ByName
    <2> QED  BY <1>1, <1>3, <2>1 DEF RunMoves, OwnInv
  <1>4. ASSUME NEW r \in Runs, ByName(run[r]) PROVE run[r].inst \in Insts /\ run[r].name = NameOf[run[r].inst]
    BY <1>4 DEF ByName, Employed, OwnInv
  <1>5. ASSUME NEW v \in VMs, vms'[v].state = "up"
        PROVE  vms'[v].owner \in Insts /\ vms'[v].name = NameOf[vms'[v].owner]
    <2>1. CASE \E r \in Runs : ByName(run[r]) /\ run[r].kind # "none" /\ vms'[v] = Machine(r)
      BY <1>4, <2>1 DEF Machine
    <2>2. CASE /\ vms'[v].state \in {vms[v].state, "gone"}
               /\ vms'[v].name = vms[v].name /\ vms'[v].owner = vms[v].owner
      BY <1>5, <2>2 DEF OwnInv
    <2> QED  BY <1>1, <2>1, <2>2 DEF VMMoves
  <1>6. ASSUME NEW i \in Insts, inst'[i].vm # NoVM
        PROVE  vms'[inst'[i].vm].state # "none" /\ vms'[inst'[i].vm].owner = i
    <2>1. PICK v \in VMs : v = inst'[i].vm
      BY <1>1, <1>6 DEF InstRows
    <2>2. vms[v].state # "none" /\ vms[v].owner = i
      <3>1. CASE inst'[i].vm = inst[i].vm
        BY <1>6, <2>1, <3>1 DEF OwnInv
      <3>2. CASE \E r \in Runs : ByName(run[r]) /\ run[r].kind # "none" /\ run[r].inst = i
                                 /\ inst'[i].vm \in Matches(run[r].name)
        <4>1. PICK r \in Runs : ByName(run[r]) /\ run[r].inst = i /\ v \in Matches(run[r].name)
          BY <2>1, <3>2
        <4>2. vms[v].state = "up" /\ vms[v].name = NameOf[i]
          BY <1>4, <4>1 DEF Matches
        <4>3. vms[v].owner \in Insts /\ vms[v].name = NameOf[vms[v].owner]
          BY <4>2 DEF OwnInv
        <4> QED  BY <4>2, <4>3
      <3> QED  BY <1>1, <3>1, <3>2 DEF InstMoves
    <2>3. vms'[v].state # "none" /\ vms'[v].owner = i
      BY <1>1, <2>2 DEF VMMoves, Fresh
    <2> QED  BY <2>1, <2>3
  <1> QED  BY <1>2, <1>3, <1>5, <1>6 DEF OwnInv

\* With names that are different and are not changed, no instance ever controls a
\* machine that was created for another one, however the handlers of both
\* interleave and whatever calls get lost (the match by name in provisionInstance
\* and syncInstanceByID).
THEOREM MachinesAreOwn ==
    ASSUME "rename" \notin Ops, \A i, j \in Insts : NameOf[i] = NameOf[j] => i = j
    PROVE  ProvSpec => []MappedToOwnVM
  <1>1. ProvInit => OwnInv
    <2> SUFFICES ASSUME ProvInit PROVE OwnInv
      OBVIOUS
    <2>1. \A r \in Runs : run[r].kind = "none"
      BY IdleFields DEF ProvInit
    <2>2. \A v \in VMs : vms[v].state = "none"
      BY DEF ProvInit
    <2>3. \A i \in Insts : inst[i].name = NameOf[i] /\ inst[i].vm = NoVM
      BY DEF ProvInit
    <2> QED  BY <2>1, <2>2, <2>3 DEF OwnInv, ByName
  <1>2. OwnInv => MappedToOwnVM
    BY DEF OwnInv, MappedToOwnVM
  <1> QED  BY <1>1, <1>2, OwnStep, ProvisioningCorrect, PTL DEF ProvSpec
=============================================================================
