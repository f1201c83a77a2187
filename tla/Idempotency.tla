---------------------------- MODULE Idempotency ----------------------------
(***************************************************************************)
(* api/middleware_idempotency.go: the middleware in front of the handlers  *)
(* that create orders, payments, top-ups, instances, snapshots, addresses, *)
(* buckets and API keys.  It is not one transaction: the lookup (two       *)
(* SELECTs), the reservation, the handler and the storing of its answer    *)
(* are statements of their own, and requests of several API processes with *)
(* the same key interleave between them.                                   *)
(*                                                                         *)
(* A key stands for a (scope, key) pair.  Of the eight handlers the model  *)
(* keeps what they commit and what they answer: some commit more than once *)
(* (an order, then its invoice; a payment's row, then its gateway link)    *)
(* and answer with an error in between, which WriteError reports by nil.   *)
(* Each request is sent once, a retry is another request with the same     *)
(* key.  Nothing deletes expired rows.                                     *)
(***************************************************************************)
CONSTANTS
    Keys, Requests, NoKey,
    Bodies,         \* request bodies, as far as their hashes differ
    NoBody,
    Nobody          \* an answer that comes from no handler

ASSUME NamesAssumption == NoKey \notin Keys /\ Nobody \notin Requests

VARIABLES
    row,            \* idempotency_keys
    req,            \* program counter, input and locals of each request
    effects         \* history: per key, the requests that committed something

idemVars == <<row, req, effects>>

Statuses == {"none", "ok", "error"}
\* `owner' inserted the row (request_hash is that of its body), `of' wrote the
\* response body; an absent row has no owner.
Rows == [owner : Requests \cup {Nobody}, status : Statuses,
         of : Requests \cup {Nobody}, live : BOOLEAN]
NoRow == [owner |-> Nobody, status |-> "none", of |-> Nobody, live |-> FALSE]
Replies == [status : Statuses \cup {"refused", "lost"}, of : Requests \cup {Nobody}]
Reply(status, of) == [status |-> status, of |-> of]
NoReply == Reply("none", Nobody)
\* `seen' is the status the lookup has read, later the one the handler has set.
Reqs == [pc : {"idle", "missed", "found", "reserved", "handled", "failed", "done"},
         key : Keys \cup {NoKey}, body : Bodies \cup {NoBody},
         seen : Statuses, reply : Replies]

IdemTypeOK ==
    /\ row \in [Keys -> Rows]
    /\ req \in [Requests -> Reqs]
    /\ effects \in [Keys -> SUBSET Requests]

IdemInit ==
    /\ row = [k \in Keys |-> NoRow]
    /\ req = [r \in Requests |-> [pc |-> "idle", key |-> NoKey, body |-> NoBody,
                                  seen |-> "none", reply |-> NoReply]]
    /\ effects = [k \in Keys |-> {}]

Taken(k) == row[k].owner # Nobody

Move(r, pc) == req' = [req EXCEPT ![r] = [@ EXCEPT !.pc = pc]]
Saw(r, pc, status) == req' = [req EXCEPT ![r] = [@ EXCEPT !.pc = pc, !.seen = status]]
Answer(r, status, of) ==
    req' = [req EXCEPT ![r] = [@ EXCEPT !.pc = "done", !.reply = Reply(status, of)]]

-----------------------------------------------------------------------------
\* The first SELECT: a row that has not expired, answered or not, whatever the
\* body of the request is.
Lookup(r, k, b) ==
    LET hit == Taken(k) /\ row[k].live IN
    /\ req[r].pc = "idle"
    /\ req' = [req EXCEPT ![r] = [@ EXCEPT !.pc = IF hit THEN "found" ELSE "missed",
                                           !.key = k, !.body = b,
                                           !.seen = IF hit THEN row[k].status ELSE "none"]]
    /\ UNCHANGED <<row, effects>>

\* Status 0, of a row without an answer, is sent as 200.
Sent(status) == IF status = "none" THEN "ok" ELSE status

\* The second SELECT: the stored body as it is by now, or {} when there is none
\* or the statement fails.
FetchStored(r) ==
    /\ req[r].pc = "found"
    /\ \E of \in {row[req[r].key].of, Nobody} : Answer(r, Sent(req[r].seen), of)
    /\ UNCHANGED <<row, effects>>

Reservation(r) == [owner |-> r, status |-> "none", of |-> Nobody, live |-> TRUE]

\* Mutant of Reserve: ON CONFLICT DO UPDATE in place of DO NOTHING.
ReserveOverwrites(r) ==
    /\ req[r].pc = "missed"
    /\ row' = [row EXCEPT ![req[r].key] = Reservation(r)]
    /\ Move(r, "reserved")
    /\ UNCHANGED effects

\* INSERT ... ON CONFLICT DO NOTHING: an expired row conflicts, too.
Reserve(r) ==
    /\ req[r].pc = "missed"
    /\ ~Taken(req[r].key)
    /\ row' = [row EXCEPT ![req[r].key] = Reservation(r)]
    /\ Move(r, "reserved")
    /\ UNCHANGED effects

Refuse(r) ==
    /\ req[r].pc = "missed"
    /\ Taken(req[r].key)
    /\ Answer(r, "refused", Nobody)
    /\ UNCHANGED <<row, effects>>

\* A statement before the handler fails: the first SELECT, whether or not there
\* was a row to be found, or the INSERT, which may have been committed.
StatementFails(r) ==
    /\ req[r].pc \in {"missed", "found"}
    /\ Answer(r, "error", Nobody)
    /\ \/ UNCHANGED row
       \/ /\ req[r].pc = "missed" /\ ~Taken(req[r].key)
          /\ row' = [row EXCEPT ![req[r].key] = Reservation(r)]
    /\ UNCHANGED effects

-----------------------------------------------------------------------------
\* The handler.

\* What a handler commits first: the order, the payment's row, the key, ...
TakesEffect(r) == effects' = [effects EXCEPT ![req[r].key] = @ \cup {r}]

HandlerSucceeds(r) ==
    /\ req[r].pc = "reserved"
    /\ TakesEffect(r)
    /\ Saw(r, "handled", "ok")
    /\ UNCHANGED row

\* It fails after its first commit: the order has no invoice, or the payment's
\* row no link, and the answer is an error.
HandlerFailsHalfway(r) ==
    /\ req[r].pc = "reserved"
    /\ TakesEffect(r)
    /\ Saw(r, "handled", "error")
    /\ UNCHANGED row

\* It answers with an error before it commits anything: mw.WriteError returns nil.
HandlerRefuses(r) ==
    /\ req[r].pc = "reserved"
    /\ Saw(r, "handled", "error")
    /\ UNCHANGED <<row, effects>>

\* It returns an error of its own.  No handler of src/ does so after a commit:
\* from there on each ends in WriteError or in JSON of a record of its own.
HandlerErrs(r) ==
    /\ req[r].pc = "reserved"
    /\ Move(r, "failed")
    /\ UNCHANGED <<row, effects>>

\* The answer is stored, or the UPDATE fails, which nobody notices.
Store(r) ==
    LET k == req[r].key IN
    /\ req[r].pc = "handled"
    /\ \/ UNCHANGED row
       \/ Taken(k) /\ row' = [row EXCEPT ![k] = [@ EXCEPT !.status = req[r].seen, !.of = r]]
    /\ Answer(r, req[r].seen, r)
    /\ UNCHANGED effects

\* Mutant of Release: the reservation is dropped for every error that is
\* answered, as if whatever failed had committed nothing.
ReleaseOnErrors(r) ==
    /\ \/ req[r].pc = "failed"
       \/ req[r].pc = "handled" /\ req[r].seen = "error"
    /\ row' = [row EXCEPT ![req[r].key] = NoRow]
    /\ Answer(r, "error", r)
    /\ UNCHANGED effects

\* The reservation is deleted, or the DELETE fails, which nobody notices.
Release(r) ==
    /\ req[r].pc = "failed"
    /\ row' \in {row, [row EXCEPT ![req[r].key] = NoRow]}
    /\ Answer(r, "error", r)
    /\ UNCHANGED effects

\* The process dies, or the handler panics (recover is outside the middleware):
\* the row stays as it is, and the work has been done or not.
Die(r) ==
    /\ req[r].pc \notin {"idle", "done"}
    /\ Answer(r, "lost", Nobody)
    /\ UNCHANGED <<row, effects>>

\* 24 hours later no request that was under way still is.
Lapse(k) ==
    /\ row[k].live
    /\ \A r \in Requests : req[r].key = k => req[r].pc = "done"
    /\ row' = [row EXCEPT ![k] = [@ EXCEPT !.live = FALSE]]
    /\ UNCHANGED <<req, effects>>

-----------------------------------------------------------------------------
Step(r) ==
    \/ FetchStored(r) \/ Reserve(r) \/ Refuse(r) \/ StatementFails(r)
    \/ HandlerSucceeds(r) \/ HandlerFailsHalfway(r) \/ HandlerRefuses(r) \/ HandlerErrs(r)
    \/ Store(r) \/ Release(r) \/ Die(r)

IdemNext ==
    \/ \E r \in Requests, k \in Keys, b \in Bodies : Lookup(r, k, b)
    \/ \E r \in Requests : Step(r)
    \/ \E k \in Keys : Lapse(k)

IdemSpec == IdemInit /\ [][IdemNext]_idemVars

-----------------------------------------------------------------------------
\* A request in the middle of its work owns the row of its key, not yet answered.
RequestOwned(r) ==
    /\ req[r].key = NoKey <=> req[r].pc = "idle"
    /\ req[r].reply.status = "none" <=> req[r].pc # "done"
    /\ req[r].reply.of # Nobody => req[req[r].reply.of].pc = "done"
    /\ req[r].pc \in {"reserved", "handled", "failed"} =>
          row[req[r].key].owner = r /\ row[req[r].key].status = "none"
    /\ req[r].pc = "handled" =>
          /\ req[r].seen # "none"
          /\ req[r].seen = "ok" => r \in effects[req[r].key]

\* A row is answered by a request that is over; a request that took effect, be it
\* half of it, owns the row of its key, and is told what its handler answered.
RowOwned(k) ==
    /\ row[k].of = Nobody <=> row[k].status = "none"
    /\ row[k].of # Nobody => req[row[k].of].pc = "done"
    /\ \A r \in effects[k] :
          /\ row[k].owner = r
          /\ req[r].key = k
          /\ \/ req[r].pc = "handled"
             \/ req[r].pc = "done" /\ req[r].reply.status \in {req[r].seen, "lost"}

\* Why one request of a key at most takes effect, although the middleware holds
\* no lock while the handler runs: the row of a key belongs to one request, which
\* is the only one that answers it, releases it or takes effect; and a row whose
\* request took effect stays for ever, also when that request failed half-way
\* (idempotency).
Owned ==
    /\ \A r \in Requests : RequestOwned(r)
    /\ \A k \in Keys : RowOwned(k)

\* All the work of r is done: it took effect and its handler was successful.
Finished(r) ==
    /\ req[r].key \in Keys
    /\ r \in effects[req[r].key]
    /\ req[r].seen = "ok"

\* What a client makes of its answer: a 200 is a success when it carries the
\* answer of a request that finished, and says nothing otherwise.
Told(r) ==
    LET a == req[r].reply IN
    IF a.status = "none" THEN [what |-> "nothing", of |-> {}]
    ELSE IF /\ a.status = "ok" /\ req[r].key \in Keys
            /\ a.of \in effects[req[r].key] /\ req[a.of].seen = "ok"
    THEN [what |-> "success", of |-> {a.of}]
    ELSE [what |-> IF a.status = "ok" THEN "hollow"
                   ELSE IF a.status = "error" THEN "failed" ELSE a.status,
          of |-> {}]

Promise == INSTANCE OncePerKey WITH asked <- [r \in Requests |-> req[r].key],
                                    told <- [r \in Requests |-> Told(r)],
                                    finished <- {r \in Requests : Finished(r)}

\* The middleware keeps the promise of an Idempotency-Key: however requests with
\* one key interleave, fail half-way, panic, lose their database or come back a
\* day later, at most one commits anything; whoever is told of a success is told
\* of that one, which has then finished; whoever is told of a failure has not
\* finished; and whoever is refused has committed nothing (idempotency).
PromiseKept == Promise!PromiseSpec

-----------------------------------------------------------------------------
(* What comments of the code say and the code does not do.                 *)

\* "same key with a different body conflicts": nobody is answered with the
\* outcome of a request that had another body.
DifferentBodyConflicts ==
    \A r \in Requests :
        req[r].reply.of # Nobody => req[req[r].reply.of].body = req[r].body

\* "a failed request must never be cached/replayed as a fabricated success": a
\* client that is told of a success is told whose answer it is.
NoFabricatedSuccess ==
    \A r \in Requests : req[r].reply.status = "ok" => req[r].reply.of # Nobody

\* "Release the reservation so the client can retry with the same key": an error
\* that a handler has answered with is not replayed to a retry.
ErrorsAreNotReplayed ==
    \A r \in Requests : req[r].reply.status = "error" => req[r].reply.of \in {r, Nobody}

\* "Release the reservation so the client can retry with the same key": whoever
\* is told of a failure has left nothing behind.
FailureLeavesNothing ==
    \A r \in Requests : req[r].reply.status = "error" => r \notin effects[req[r].key]
=============================================================================
