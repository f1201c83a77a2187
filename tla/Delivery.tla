------------------------------ MODULE Delivery ------------------------------
(***************************************************************************)
(* Outgoing webhooks: webhook/deliverer.go's Deliver, run by the queue as  *)
(* a deliver_webhook job (cmd/worker/main.go, deliverWebhook).  Each job   *)
(* stands for one row of webhook_deliveries.  Deliver reads the row, posts *)
(* to the customer's endpoint and writes the answer back: three steps,     *)
(* between which the process may crash, the context may end and another    *)
(* process may run the same job.                                           *)
(***************************************************************************)
EXTENDS JobQueue

VARIABLES
    phase,      \* per process: where its Deliver call is
    delivered,  \* webhook_deliveries.delivered_at IS NOT NULL
    posts       \* requests the endpoint has answered for each delivery

handlerVars == <<phase, delivered, posts>>
deliveryVars == <<queueVars, handlerVars>>

Phases == {"idle", "load", "post", "accepted", "refused", "nil", "error"}

DeliveryTypeOK ==
    /\ QueueTypeOK
    /\ phase \in [Procs -> Phases]
    /\ delivered \in [Jobs -> BOOLEAN]
    /\ posts \in [Jobs -> Nat]
    /\ \A p \in Procs : phase[p] = "idle" <=> procs[p].job = NoJob

DeliveryInit ==
    /\ QueueInit
    /\ phase = [p \in Procs |-> "idle"]
    /\ delivered = [j \in Jobs |-> FALSE]
    /\ posts = [j \in Jobs |-> 0]

Goto(p, from, to) == phase[p] = from /\ phase' = [phase EXCEPT ![p] = to]

-----------------------------------------------------------------------------
\* Steps of Deliver.

\* Mutant of Load: the delivered_at test is missing.
LoadAlwaysPosts(p) == Goto(p, "load", "post") /\ UNCHANGED <<queueVars, delivered, posts>>

Load(p) ==
    /\ Goto(p, "load", IF delivered[procs[p].job] THEN "nil" ELSE "post")
    /\ UNCHANGED <<queueVars, delivered, posts>>

\* The endpoint answers, with a status of 2xx or another one.
Post(p) ==
    /\ \E answer \in {"accepted", "refused"} : Goto(p, "post", answer)
    /\ posts' = [posts EXCEPT ![procs[p].job] = @ + 1]
    /\ UNCHANGED <<queueVars, delivered>>

\* Mutant of PostFails: the error is logged and swallowed.
PostFailsQuietly(p) == Goto(p, "post", "nil") /\ UNCHANGED <<queueVars, delivered, posts>>

\* No answer: recordFailure leaves delivered_at alone.
PostFails(p) == Goto(p, "post", "error") /\ UNCHANGED <<queueVars, delivered, posts>>

\* Mutant of RecordAnswer: a 2xx answer is not written back.
RecordAnswerLost(p) ==
    /\ \/ Goto(p, "accepted", "nil")
       \/ Goto(p, "refused", "error")
    /\ UNCHANGED <<queueVars, delivered, posts>>

\* delivered_at becomes now() or NULL, whatever it was.
RecordAnswer(p) ==
    /\ \/ /\ Goto(p, "accepted", "nil")
          /\ delivered' = [delivered EXCEPT ![procs[p].job] = TRUE]
       \/ /\ Goto(p, "refused", "error")
          /\ delivered' = [delivered EXCEPT ![procs[p].job] = FALSE]
    /\ UNCHANGED <<queueVars, posts>>

\* The UPDATE fails, or the context ends at any point of the call.
Interrupted(p) ==
    /\ phase[p] \in {"load", "post", "accepted", "refused"}
    /\ phase' = [phase EXCEPT ![p] = "error"]
    /\ UNCHANGED <<queueVars, delivered, posts>>

-----------------------------------------------------------------------------
\* The queue's steps, with what they mean for the call.
Enters(p) == phase' = [phase EXCEPT ![p] = "load"]

\* Mutant of Leaves: the next call starts where this one stopped.
LeavesUnreset(p) == UNCHANGED phase

Leaves(p) == phase' = [phase EXCEPT ![p] = "idle"]

WorkerStep(p) ==
    \/ (\E j \in Jobs : Claim(p, j)) /\ Enters(p)
    \/ phase[p] = "nil" /\ Complete(p) /\ Leaves(p)
    \/ phase[p] = "error" /\ Fail(p) /\ Leaves(p)
    \/ phase[p] \in {"nil", "error"} /\ StatusWriteLost(p) /\ Leaves(p)
    \/ Crash(p) /\ Leaves(p)
    \/ Restart(p) /\ UNCHANGED phase

HandlerStep(p) ==
    \/ Load(p) \/ Post(p) \/ PostFails(p) \/ RecordAnswer(p) \/ Interrupted(p)

DeliveryNext ==
    \/ \E p \in Procs : HandlerStep(p)
    \/ \E p \in Procs : WorkerStep(p) /\ UNCHANGED <<delivered, posts>>
    \/ (Tick \/ \E j \in Jobs : JobStep(j)) /\ UNCHANGED handlerVars

DeliverySpec == DeliveryInit /\ [][DeliveryNext]_deliveryVars

\* The queue's fairness, and a handler that goes on until it returns.
DeliveryFairness ==
    /\ WF_deliveryVars(Tick /\ UNCHANGED handlerVars)
    /\ \A j \in Jobs : SF_deliveryVars(\E p \in Procs : Claim(p, j) /\ Enters(p)
                                                        /\ UNCHANGED <<delivered, posts>>)
    /\ \A p \in Procs :
        /\ WF_deliveryVars(HandlerStep(p))
        /\ WF_deliveryVars(/\ phase[p] \in {"nil", "error"}
                           /\ WorkerStep(p) /\ UNCHANGED <<delivered, posts>>)
        /\ WF_deliveryVars(Restart(p) /\ UNCHANGED handlerVars)

LiveDeliverySpec == DeliverySpec /\ DeliveryFairness

-----------------------------------------------------------------------------
\* A settled delivery is never posted again and never unsettled, although jobs
\* are retried after a success whose status write was lost (Deliver).
SettledNotPostedAgain ==
    [][\A j \in Jobs : delivered[j] => posts'[j] = posts[j] /\ delivered'[j]]_deliveryVars

\* A job that succeeded has delivered its event, and no job succeeds on an
\* answer that was not recorded (Deliver, complete).
SuccessMeansDelivered ==
    \A j \in Jobs : jobs[j].status = "success" => delivered[j] /\ posts[j] > 0

\* Every event is delivered or its job has been given up after all attempts
\* (Deliver under pollAndProcess).
DeliveredOrGivenUp ==
    \A j \in Jobs : jobs[j].status = "queued" ~> delivered[j] \/ jobs[j].status = "failed"

-----------------------------------------------------------------------------
\* "Already-delivered rows short-circuit to nil so a retried job never
\* double-posts a settled delivery" (Deliver), also when administrators retry
\* the job.
RetriedJobNeverDoublePosts ==
    [][\A j \in Jobs : delivered[j] => posts'[j] = posts[j]]_deliveryVars
=============================================================================
