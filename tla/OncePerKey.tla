----------------------------- MODULE OncePerKey -----------------------------
(***************************************************************************)
(* What an Idempotency-Key is for, without rows, hashes and statements: a  *)
(* request names a key, at most one request of a key takes effect, all of  *)
(* it or a part, and the clients are told about that one.                  *)
(***************************************************************************)
CONSTANTS
    Keys,       \* (scope, Idempotency-Key)
    Requests,   \* HTTP requests, each sent once; a retry is another request
    NoKey       \* the key of a request that has not been sent

VARIABLES
    asked,      \* the key each request names
    effects,    \* per key: the requests that took effect, at least in part
    finished,   \* the requests that did all of their work
    told        \* what each client has been told, and whose answer that is

promiseVars == <<asked, effects, finished, told>>

Nothing == [what |-> "nothing", of |-> {}]
Success(who) == [what |-> "success", of |-> who]

PromiseInit ==
    /\ asked = [r \in Requests |-> NoKey]
    /\ effects = [k \in Keys |-> {}]
    /\ finished = {}
    /\ told = [r \in Requests |-> Nothing]

Ask(r, k) ==
    /\ asked[r] = NoKey
    /\ asked' = [asked EXCEPT ![r] = k]
    /\ UNCHANGED <<effects, finished, told>>

Waiting(r) == asked[r] \in Keys /\ told[r] = Nothing

\* A request takes effect, wholly or in part: the first of its key only.
TakeEffect(r) ==
    /\ Waiting(r)
    /\ effects[asked[r]] = {}
    /\ effects' = [effects EXCEPT ![asked[r]] = {r}]
    /\ finished' \in {finished, finished \cup {r}}
    /\ UNCHANGED <<asked, told>>

Tell(r, what) ==
    /\ Waiting(r)
    /\ told' = [told EXCEPT ![r] = what]
    /\ UNCHANGED <<asked, effects, finished>>

\* A success is the answer of the request that took effect, and has finished.
TellSuccess(r) ==
    /\ Tell(r, Success(effects[asked[r]]))
    /\ effects[asked[r]] # {} /\ effects[asked[r]] \subseteq finished

\* A request that is refused took no effect.
TellRefusal(r) ==
    /\ Tell(r, [what |-> "refused", of |-> {}])
    /\ r \notin effects[asked[r]]

\* A request that failed has not done all of its work; it may have done a part.
TellFailure(r) ==
    /\ Tell(r, [what |-> "failed", of |-> {}])
    /\ r \notin finished

\* The connection is lost, or the answer says nothing: anything may have happened.
TellNothing(r) == \E what \in {"lost", "hollow"} : Tell(r, [what |-> what, of |-> {}])

PromiseNext ==
    \/ \E r \in Requests, k \in Keys : Ask(r, k)
    \/ \E r \in Requests : \/ TakeEffect(r) \/ TellSuccess(r)
                           \/ TellRefusal(r) \/ TellFailure(r) \/ TellNothing(r)

PromiseSpec == PromiseInit /\ [][PromiseNext]_promiseVars
=============================================================================
