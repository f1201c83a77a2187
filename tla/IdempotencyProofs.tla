------------------------- MODULE IdempotencyProofs -------------------------
(***************************************************************************)
(* The idempotency middleware keeps the promise of an Idempotency-Key, for *)
(* every number of keys, requests and bodies.                              *)
(***************************************************************************)
EXTENDS Idempotency, TLAPS

-----------------------------------------------------------------------------
(* Type correctness.                                                       *)

\* The ways a step writes the record of one request.
LEMMA UpdatedRequest ==
    ASSUME IdemTypeOK, NEW r \in Requests
    PROVE  /\ \A pc \in {"missed", "found", "reserved", "handled", "failed", "done"} :
                 [req[r] EXCEPT !.pc = pc] \in Reqs
           /\ \A pc \in {"missed", "found", "reserved", "handled", "failed", "done"}, st \in Statuses :
                 [req[r] EXCEPT !.pc = pc, !.seen = st] \in Reqs
           /\ \A a \in Replies : [req[r] EXCEPT !.pc = "done", !.reply = a] \in Reqs
           /\ \A pc \in {"missed", "found"}, k \in Keys, b \in Bodies, st \in Statuses :
                 [req[r] EXCEPT !.pc = pc, !.key = k, !.body = b, !.seen = st] \in Reqs
  <1>1. req[r] \in Reqs
    BY DEF IdemTypeOK
  <1> QED  BY <1>1 DEF Reqs

\* What a step of request r leaves of the requests: r itself answered.
LEMMA AnswerFields ==
    ASSUME IdemTypeOK, NEW r \in Requests,
           NEW st \in {"ok", "error", "refused", "lost"}, NEW of \in Requests \cup {Nobody},
           Answer(r, st, of)
    PROVE  /\ req' \in [Requests -> Reqs]
           /\ req'[r].pc = "done" /\ req'[r].key = req[r].key /\ req'[r].seen = req[r].seen
           /\ req'[r].reply.status = st /\ req'[r].reply.of = of
           /\ \A q \in Requests : q # r => req'[q] = req[q]
  <1>1. Reply(st, of) \in Replies /\ Reply(st, of).status = st /\ Reply(st, of).of = of
    BY DEF Reply, Replies, Statuses
  <1> DEFINE new == [req[r] EXCEPT !.pc = "done", !.reply = Reply(st, of)]
  <1>2. new \in Reqs
    BY <1>1, UpdatedRequest
  <1>3. /\ new.pc = "done" /\ new.key = req[r].key /\ new.seen = req[r].seen
        /\ new.reply = Reply(st, of)
    BY DEF IdemTypeOK, Reqs
  <1>4. req' = [req EXCEPT ![r] = new]
    BY DEF Answer
  <1> HIDE DEF new
  <1> QED  BY <1>1, <1>2, <1>3, <1>4 DEF IdemTypeOK

\* The same for a request that goes on.
LEMMA SawFields ==
    ASSUME IdemTypeOK, NEW r \in Requests, NEW st \in Statuses,
           NEW pc \in {"missed", "found", "reserved", "handled", "failed", "done"},
           \/ Move(r, pc) /\ st = req[r].seen
           \/ Saw(r, pc, st)
    PROVE  /\ req' \in [Requests -> Reqs]
           /\ req'[r].pc = pc /\ req'[r].key = req[r].key /\ req'[r].seen = st
           /\ req'[r].reply = req[r].reply
           /\ \A q \in Requests : q # r => req'[q] = req[q]
  <1>1. CASE Move(r, pc) /\ st = req[r].seen
    <2> DEFINE new == [req[r] EXCEPT !.pc = pc]
    <2>1. new \in Reqs
      BY UpdatedRequest
    <2>2. /\ new.pc = pc /\ new.key = req[r].key /\ new.seen = st
          /\ new.reply = req[r].reply
      BY <1>1 DEF IdemTypeOK, Reqs
    <2>3. req' = [req EXCEPT ![r] = new]
      BY <1>1 DEF Move
    <2> HIDE DEF new
    <2> QED  BY <2>1, <2>2, <2>3 DEF IdemTypeOK
  <1>2. CASE Saw(r, pc, st)
    <2> DEFINE new == [req[r] EXCEPT !.pc = pc, !.seen = st]
    <2>1. new \in Reqs
      BY UpdatedRequest
    <2>2. /\ new.pc = pc /\ new.key = req[r].key /\ new.seen = st
          /\ new.reply = req[r].reply
      BY DEF IdemTypeOK, Reqs
    <2>3. req' = [req EXCEPT ![r] = new]
      BY <1>2 DEF Saw
    <2> HIDE DEF new
    <2> QED  BY <2>1, <2>2, <2>3 DEF IdemTypeOK
  <1> QED  BY <1>1, <1>2

\* And for a request that is sent.
LEMMA LookupFields ==
    ASSUME IdemTypeOK, NEW r \in Requests, NEW k \in Keys, NEW b \in Bodies, Lookup(r, k, b)
    PROVE  /\ req' \in [Requests -> Reqs]
           /\ req'[r].pc \in {"missed", "found"} /\ req'[r].key = k
           /\ req'[r].reply = req[r].reply
           /\ \A q \in Requests : q # r => req'[q] = req[q]
  <1> DEFINE hit == Taken(k) /\ row[k].live
             pc == IF hit THEN "found" ELSE "missed"
             st == IF hit THEN row[k].status ELSE "none"
             new == [req[r] EXCEPT !.pc = pc, !.key = k, !.body = b, !.seen = st]
  <1>1. pc \in {"missed", "found"}
    OBVIOUS
  <1>2. st \in Statuses
    BY DEF IdemTypeOK, Rows, Statuses
  <1>3. req' = [req EXCEPT ![r] = new]
    BY DEF Lookup
  <1> HIDE DEF hit, pc, st
  <1>4. new \in Reqs
    BY <1>1, <1>2, UpdatedRequest
  <1>5. new.pc = pc /\ new.key = k /\ new.reply = req[r].reply
    BY DEF IdemTypeOK, Reqs
  <1> HIDE DEF new
  <1> QED  BY <1>1, <1>3, <1>4, <1>5 DEF IdemTypeOK

-----------------------------------------------------------------------------
(* One request owns the row of a key.                                      *)

IdemInv == IdemTypeOK /\ Owned

\* A request that answers without touching the rows, and that answers what its
\* handler did if it took effect, leaves everything owned (FetchStored, Refuse,
\* Store, Release, Die).
LEMMA AnsweredRequest ==
    ASSUME IdemInv, NEW r \in Requests,
           NEW st \in {"ok", "error", "refused", "lost"}, NEW of \in Requests \cup {Nobody},
           Answer(r, st, of), UNCHANGED effects,
           req[r].pc # "idle",
           of \notin {r, Nobody} => req[of].pc = "done",
           r \in effects[req[r].key] => st \in {req[r].seen, "lost"}
    PROVE  /\ \A q \in Requests :
                 /\ req'[q].key = NoKey <=> req'[q].pc = "idle"
                 /\ req'[q].reply.status = "none" <=> req'[q].pc # "done"
                 /\ req'[q].reply.of # Nobody => req'[req'[q].reply.of].pc = "done"
                 /\ req'[q].pc = "handled" =>
                       req'[q].seen # "none" /\ (req'[q].seen = "ok" => q \in effects'[req'[q].key])
           /\ \A k \in Keys : \A q \in effects'[k] :
                 /\ req'[q].key = k
                 /\ \/ req'[q].pc = "handled"
                    \/ req'[q].pc = "done" /\ req'[q].reply.status \in {req'[q].seen, "lost"}
           /\ \A x \in Requests : req[x].pc = "done" => req'[x].pc = "done"
  <1> USE NamesAssumption
  <1>1. /\ req'[r].pc = "done" /\ req'[r].key = req[r].key /\ req'[r].seen = req[r].seen
        /\ req'[r].reply.status = st /\ req'[r].reply.of = of
        /\ \A q \in Requests : q # r => req'[q] = req[q]
    BY AnswerFields DEF IdemInv
  <1>2. IdemTypeOK /\ \A q \in Requests : req[q].reply.of \in Requests \cup {Nobody}
    BY DEF IdemInv, IdemTypeOK, Reqs, Replies
  <1>3. /\ \A q \in Requests : RequestOwned(q)
        /\ \A k \in Keys : RowOwned(k) /\ effects[k] \subseteq Requests
    BY DEF IdemInv, Owned, IdemTypeOK
  <1>4. \A x \in Requests : req[x].pc = "done" => req'[x].pc = "done"
    BY <1>1
  <1>5. ASSUME NEW q \in Requests
        PROVE  /\ req'[q].key = NoKey <=> req'[q].pc = "idle"
               /\ req'[q].reply.status = "none" <=> req'[q].pc # "done"
               /\ req'[q].reply.of # Nobody => req'[req'[q].reply.of].pc = "done"
               /\ req'[q].pc = "handled" =>
                     req'[q].seen # "none" /\ (req'[q].seen = "ok" => q \in effects'[req'[q].key])
    <2>1. CASE q = r
      BY <1>1, <1>3, <1>4, <2>1 DEF RequestOwned
    <2>2. CASE q # r
      BY <1>1, <1>2, <1>3, <1>4, <2>2 DEF RequestOwned
    <2> QED  BY <2>1, <2>2
  <1>6. ASSUME NEW k \in Keys, NEW q \in effects[k]
        PROVE  /\ req'[q].key = k
               /\ \/ req'[q].pc = "handled"
                  \/ req'[q].pc = "done" /\ req'[q].reply.status \in {req'[q].seen, "lost"}
    BY <1>1, <1>3, <1>6 DEF RowOwned
  <1> QED  BY <1>4, <1>5, <1>6

\* Every step leaves at most one owner of a key.
LEMMA OwnedStep == IdemInv /\ [IdemNext]_idemVars => IdemInv'
  <1> SUFFICES ASSUME IdemInv, [IdemNext]_idemVars PROVE IdemInv'
    OBVIOUS
  <1> USE NamesAssumption
  <1>1. /\ IdemTypeOK
        /\ \A q \in Requests : RequestOwned(q) /\ req[q] \in Reqs /\ req[q].reply \in Replies
        /\ \A k \in Keys : RowOwned(k) /\ row[k] \in Rows /\ effects[k] \subseteq Requests
    BY DEF IdemInv, Owned, IdemTypeOK, Reqs
  <1>2. ASSUME NEW r \in Requests, req[r].pc # "idle" PROVE req[r].key \in Keys
    BY <1>1, <1>2 DEF RequestOwned, Reqs
  <1>3. ASSUME NEW r \in Requests, NEW k \in Keys, NEW b \in Bodies, Lookup(r, k, b) PROVE IdemInv'
    <2>1. /\ req' \in [Requests -> Reqs]
          /\ req'[r].pc \in {"missed", "found"} /\ req'[r].key = k
          /\ req'[r].reply = req[r].reply
          /\ \A q \in Requests : q # r => req'[q] = req[q]
          /\ req[r].pc = "idle" /\ UNCHANGED <<row, effects>>
      BY <1>1, <1>3, LookupFields DEF Lookup
    <2>2. ASSUME NEW q \in Requests PROVE RequestOwned(q)'
      <3>1. CASE q = r
        BY <1>1, <2>1, <3>1 DEF RequestOwned, Replies
      <3>2. CASE q # r
        BY <1>1, <2>1, <3>2 DEF RequestOwned, Replies
      <3> QED  BY <3>1, <3>2
    <2>3. ASSUME NEW c \in Keys PROVE RowOwned(c)'
      BY <1>1, <2>1 DEF RowOwned, Rows
    <2> QED  BY <1>1, <2>1, <2>2, <2>3 DEF IdemInv, Owned, IdemTypeOK
  <1>4. ASSUME NEW r \in Requests, NEW st \in {"ok", "error", "refused", "lost"},
               NEW of \in Requests \cup {Nobody}, Answer(r, st, of), UNCHANGED <<row, effects>>,
               req[r].pc # "idle",
               of \notin {r, Nobody} => req[of].pc = "done",
               r \in effects[req[r].key] => st \in {req[r].seen, "lost"}
        PROVE  IdemInv'
    <2>1. /\ req' \in [Requests -> Reqs] /\ req'[r].pc = "done"
          /\ \A q \in Requests : q # r => req'[q] = req[q]
      BY <1>1, <1>4, AnswerFields
    <2>2. ASSUME NEW q \in Requests PROVE RequestOwned(q)'
      BY <1>1, <1>4, <2>1, AnsweredRequest DEF RequestOwned
    <2>3. ASSUME NEW c \in Keys PROVE RowOwned(c)'
      BY <1>1, <1>4, <2>1, AnsweredRequest DEF RowOwned, Rows
    <2> QED  BY <1>1, <1>4, <2>1, <2>2, <2>3 DEF IdemInv, Owned, IdemTypeOK
  <1>5. ASSUME NEW r \in Requests, FetchStored(r) PROVE IdemInv'
    <2> DEFINE st == Sent(req[r].seen)
    <2>1. req[r].key \in Keys /\ req[r].pc = "found" /\ UNCHANGED <<row, effects>>
      BY <1>2, <1>5 DEF FetchStored
    <2>2. PICK of \in {row[req[r].key].of, Nobody} : Answer(r, st, of)
      BY <1>5 DEF FetchStored
    <2>3. st \in {"ok", "error"}
      BY <1>1 DEF Sent, Reqs, Statuses
    <2>4. of \in Requests \cup {Nobody} /\ (of # Nobody => req[of].pc = "done")
      BY <1>1, <2>1 DEF RowOwned, Rows
    <2>5. r \notin effects[req[r].key]
      BY <1>1, <2>1 DEF RowOwned
    <2> HIDE DEF st
    <2> QED  BY <1>4, <2>1, <2>2, <2>3, <2>4, <2>5
  <1>6. ASSUME NEW r \in Requests, Reserve(r) PROVE IdemInv'
    <2> DEFINE k == req[r].key
    <2>1. /\ req' \in [Requests -> Reqs]
          /\ req'[r].pc = "reserved" /\ req'[r].key = k /\ req'[r].reply = req[r].reply
          /\ \A q \in Requests : q # r => req'[q] = req[q]
      BY <1>1, <1>6, SawFields DEF Reserve, Reqs
    <2>2. /\ k \in Keys /\ req[r].pc = "missed" /\ row[k].owner = Nobody
          /\ row' = [row EXCEPT ![k] = Reservation(r)] /\ UNCHANGED effects
      BY <1>2, <1>6 DEF Reserve, Taken
    <2>3. effects[k] = {}
      BY <1>1, <2>2 DEF RowOwned
    <2>4. Reservation(r) \in Rows /\ Reservation(r).owner = r /\ Reservation(r).status = "none"
          /\ Reservation(r).of = Nobody
      BY DEF Reservation, Rows, Statuses
    <2>5. row' \in [Keys -> Rows] /\ row'[k] = Reservation(r) /\ \A c \in Keys : c # k => row'[c] = row[c]
      BY <1>1, <2>2, <2>4 DEF IdemTypeOK
    <2> HIDE DEF k
    <2>6. ASSUME NEW q \in Requests PROVE RequestOwned(q)'
      <3>1. CASE q = r
        BY <1>1, <2>1, <2>2, <2>4, <2>5, <3>1 DEF RequestOwned, Replies
      <3>2. CASE q # r
        <4>1. req[q].pc \in {"reserved", "handled", "failed"} => req[q].key # k
          BY <1>1, <2>2 DEF RequestOwned
        <4>2. req[q].pc \in {"reserved", "handled", "failed"} => req[q].key \in Keys
          BY <1>2
        <4> QED  BY <1>1, <2>1, <2>2, <2>5, <3>2, <4>1, <4>2 DEF RequestOwned, Replies
      <3> QED  BY <3>1, <3>2
    <2>7. ASSUME NEW c \in Keys PROVE RowOwned(c)'
      <3>1. CASE c = k
        BY <2>2, <2>3, <2>4, <2>5, <3>1 DEF RowOwned
      <3>2. CASE c # k
        BY <1>1, <2>1, <2>2, <2>5, <3>2 DEF RowOwned, Rows
      <3> QED  BY <3>1, <3>2
    <2> QED  BY <1>1, <2>1, <2>2, <2>5, <2>6, <2>7 DEF IdemInv, Owned, IdemTypeOK
  <1>7. ASSUME NEW r \in Requests, Refuse(r) PROVE IdemInv'
    <2>1. /\ req[r].key \in Keys /\ req[r].pc = "missed" /\ UNCHANGED <<row, effects>>
          /\ Answer(r, "refused", Nobody)
      BY <1>2, <1>7 DEF Refuse
    <2>2. r \notin effects[req[r].key]
      BY <1>1, <2>1 DEF RowOwned
    <2> QED  BY <1>4, <2>1, <2>2
  <1>8. ASSUME NEW r \in Requests, StatementFails(r) PROVE IdemInv'
    <2> DEFINE k == req[r].key
    <2>1. /\ k \in Keys /\ req[r].pc \in {"missed", "found"} /\ UNCHANGED effects
          /\ Answer(r, "error", Nobody)
      BY <1>2, <1>8 DEF StatementFails
    <2>2. r \notin effects[k]
      BY <1>1, <2>1 DEF RowOwned
    <2>3. CASE UNCHANGED row
      BY <1>4, <2>1, <2>2, <2>3
    <2>4. CASE row[k].owner = Nobody /\ row' = [row EXCEPT ![k] = Reservation(r)]
      <3>1. effects[k] = {}
        BY <1>1, <2>1, <2>4 DEF RowOwned
      <3>2. Reservation(r) \in Rows /\ Reservation(r).owner = r /\ Reservation(r).status = "none"
            /\ Reservation(r).of = Nobody
        BY DEF Reservation, Rows, Statuses
      <3>3. row' \in [Keys -> Rows] /\ row'[k] = Reservation(r) /\ \A c \in Keys : c # k => row'[c] = row[c]
        BY <1>1, <2>1, <2>4, <3>2 DEF IdemTypeOK
      <3>4. /\ req' \in [Requests -> Reqs] /\ req'[r].pc = "done"
            /\ \A q \in Requests : q # r => req'[q] = req[q]
        BY <1>1, <2>1, AnswerFields
      <3>5. \A q \in Requests : req[q].pc \in {"reserved", "handled", "failed"} =>
                                   req[q].key # k /\ req[q].key \in Keys
        BY <1>1, <1>2, <2>1, <2>4 DEF RequestOwned
      <3> HIDE DEF k
      <3>6. ASSUME NEW q \in Requests PROVE RequestOwned(q)'
        <4>1. q # r => req'[q] = req[q] /\ RequestOwned(q)
          BY <1>1, <3>4
        <4>2. req'[q].pc \in {"reserved", "handled", "failed"} =>
                 row'[req'[q].key].owner = q /\ row'[req'[q].key].status = "none"
          BY <3>3, <3>4, <3>5, <4>1 DEF RequestOwned
        <4> QED  BY <1>1, <2>1, <2>2, <4>2, AnsweredRequest DEF RequestOwned, k
      <3>7. ASSUME NEW c \in Keys PROVE RowOwned(c)'
        <4>1. CASE c = k
          BY <2>1, <3>1, <3>2, <3>3, <4>1 DEF RowOwned
        <4>2. CASE c # k
          BY <1>1, <2>1, <3>3, <3>4, <4>2 DEF RowOwned, Rows
        <4> QED  BY <4>1, <4>2
      <3> QED  BY <1>1, <2>1, <3>3, <3>4, <3>6, <3>7 DEF IdemInv, Owned, IdemTypeOK
    <2> QED  BY <1>8, <2>3, <2>4 DEF StatementFails, Taken
  <1>9. ASSUME NEW r \in Requests, HandlerSucceeds(r) \/ HandlerFailsHalfway(r) PROVE IdemInv'
    <2> DEFINE k == req[r].key
    <2>1. /\ req' \in [Requests -> Reqs]
          /\ req'[r].pc = "handled" /\ req'[r].key = k /\ req'[r].reply = req[r].reply
          /\ req'[r].seen \in {"ok", "error"}
          /\ \A q \in Requests : q # r => req'[q] = req[q]
      <3>1. PICK st \in {"ok", "error"} : Saw(r, "handled", st)
        BY <1>9 DEF HandlerSucceeds, HandlerFailsHalfway
      <3> QED  BY <1>1, <3>1, SawFields DEF Statuses
    <2>2. /\ k \in Keys /\ req[r].pc = "reserved" /\ UNCHANGED row
          /\ effects' = [effects EXCEPT ![k] = effects[k] \cup {r}]
      BY <1>2, <1>9 DEF HandlerSucceeds, HandlerFailsHalfway, TakesEffect
    <2>3. row[k].owner = r /\ row[k].status = "none" /\ effects[k] = {}
      BY <1>1, <2>2 DEF RequestOwned, RowOwned
    <2>4. /\ effects' \in [Keys -> SUBSET Requests] /\ effects'[k] = {r}
          /\ \A c \in Keys : c # k => effects'[c] = effects[c]
      BY <1>1, <2>2, <2>3 DEF IdemTypeOK
    <2> HIDE DEF k
    <2>5. ASSUME NEW q \in Requests PROVE RequestOwned(q)'
      <3>1. CASE q = r
        BY <1>1, <2>1, <2>2, <2>3, <2>4, <3>1 DEF RequestOwned, Replies
      <3>2. CASE q # r
        <4>1. req[q].pc = "handled" => req[q].key # k /\ req[q].key \in Keys
          BY <1>1, <1>2, <2>3, <3>2 DEF RequestOwned
        <4> QED  BY <1>1, <2>1, <2>2, <2>4, <3>2, <4>1 DEF RequestOwned, Replies
      <3> QED  BY <3>1, <3>2
    <2>6. ASSUME NEW c \in Keys PROVE RowOwned(c)'
      <3>1. CASE c = k
        BY <1>1, <2>1, <2>2, <2>3, <2>4, <3>1 DEF RowOwned, Rows
      <3>2. CASE c # k
        BY <1>1, <2>1, <2>2, <2>4, <3>2 DEF RowOwned, Rows
      <3> QED  BY <3>1, <3>2
    <2> QED  BY <1>1, <2>1, <2>2, <2>4, <2>5, <2>6 DEF IdemInv, Owned, IdemTypeOK
  <1>10. ASSUME NEW r \in Requests, HandlerRefuses(r) \/ HandlerErrs(r) PROVE IdemInv'
    <2> DEFINE k == req[r].key
    <2>1. /\ req' \in [Requests -> Reqs]
          /\ \/ req'[r].pc = "handled" /\ req'[r].seen = "error"
             \/ req'[r].pc = "failed"
          /\ req'[r].key = k /\ req'[r].reply = req[r].reply
          /\ \A q \in Requests : q # r => req'[q] = req[q]
      <3>1. CASE HandlerRefuses(r)
        BY <1>1, <3>1, SawFields DEF HandlerRefuses, Statuses
      <3>2. CASE HandlerErrs(r)
        BY <1>1, <3>2, SawFields DEF HandlerErrs, Reqs
      <3> QED  BY <1>10, <3>1, <3>2
    <2>2. k \in Keys /\ req[r].pc = "reserved" /\ UNCHANGED <<row, effects>>
      BY <1>2, <1>10 DEF HandlerRefuses, HandlerErrs
    <2>3. r \notin effects[k]
      BY <1>1, <2>2 DEF RowOwned
    <2> HIDE DEF k
    <2>4. ASSUME NEW q \in Requests PROVE RequestOwned(q)'
      <3>1. CASE q = r
        BY <1>1, <2>1, <2>2, <2>3, <3>1 DEF RequestOwned, Replies, k
      <3>2. CASE q # r
        BY <1>1, <2>1, <2>2, <3>2 DEF RequestOwned, Replies
      <3> QED  BY <3>1, <3>2
    <2>5. ASSUME NEW c \in Keys PROVE RowOwned(c)'
      BY <1>1, <2>1, <2>2, <2>3 DEF RowOwned, Rows
    <2> QED  BY <1>1, <2>1, <2>2, <2>4, <2>5 DEF IdemInv, Owned, IdemTypeOK
  <1>11. ASSUME NEW r \in Requests, NEW new \in Rows, NEW st \in {"ok", "error"},
                req[r].pc \in {"handled", "failed"},
                row' = [row EXCEPT ![req[r].key] = new],
                Answer(r, st, r), UNCHANGED effects,
                r \in effects[req[r].key] => st \in {req[r].seen, "lost"},
                new.of = Nobody <=> new.status = "none", new.of \in {r, Nobody},
                new.owner = r \/ r \notin effects[req[r].key]
         PROVE  IdemInv'
    <2> DEFINE k == req[r].key
    <2>1. k \in Keys /\ row[k].owner = r
      BY <1>1, <1>2, <1>11 DEF RequestOwned
    <2>2. /\ req' \in [Requests -> Reqs] /\ req'[r].pc = "done"
          /\ \A q \in Requests : q # r => req'[q] = req[q]
      BY <1>1, <1>11, AnswerFields
    <2>3. row' \in [Keys -> Rows] /\ row'[k] = new /\ \A c \in Keys : c # k => row'[c] = row[c]
      BY <1>1, <1>11, <2>1 DEF IdemTypeOK
    <2>4. \A q \in Requests : q # r /\ req[q].pc \in {"reserved", "handled", "failed"} =>
                                 req[q].key # k /\ req[q].key \in Keys
      BY <1>1, <1>2, <2>1 DEF RequestOwned
    <2>5. \A q \in effects[k] : q = r
      BY <1>1, <2>1 DEF RowOwned
    <2>6. ASSUME NEW q \in Requests PROVE RequestOwned(q)'
      <3> HIDE DEF k
      <3>1. req'[q].pc \in {"reserved", "handled", "failed"} =>
               row'[req'[q].key].owner = q /\ row'[req'[q].key].status = "none"
        BY <1>1, <2>2, <2>3, <2>4 DEF RequestOwned
      <3> QED  BY <1>1, <1>11, <3>1, AnsweredRequest DEF RequestOwned
    <2>7. ASSUME NEW c \in Keys PROVE RowOwned(c)'
      <3>1. \A q \in effects'[c] :
              /\ req'[q].key = c
              /\ \/ req'[q].pc = "handled"
                 \/ req'[q].pc = "done" /\ req'[q].reply.status \in {req'[q].seen, "lost"}
        BY <1>1, <1>11, AnsweredRequest
      <3>2. CASE c = k
        BY <1>11, <2>1, <2>2, <2>3, <2>5, <3>1, <3>2 DEF RowOwned
      <3>3. CASE c # k
        BY <1>1, <1>11, <2>2, <2>3, <3>1, <3>3 DEF RowOwned, Rows
      <3> QED  BY <3>2, <3>3
    <2> QED  BY <1>1, <1>11, <2>2, <2>3, <2>6, <2>7 DEF IdemInv, Owned, IdemTypeOK
  <1>12. ASSUME NEW r \in Requests, Store(r) PROVE IdemInv'
    <2> DEFINE k == req[r].key
               st == req[r].seen
               new == [row[k] EXCEPT !.status = st, !.of = r]
    <2>1. /\ k \in Keys /\ req[r].pc = "handled" /\ UNCHANGED effects
          /\ Answer(r, st, r)
      BY <1>2, <1>12 DEF Store
    <2>2. st \in {"ok", "error"} /\ row[k].owner = r
      BY <1>1, <2>1 DEF RequestOwned, Reqs, Statuses
    <2>3. CASE UNCHANGED row
      BY <1>4, <2>1, <2>2, <2>3
    <2>4. CASE row' = [row EXCEPT ![k] = new]
      <3>1. new \in Rows /\ new.status = st /\ new.of = r /\ new.owner = r
        <4>1. row[k] \in Rows /\ st \in Statuses
          BY <1>1, <2>1, <2>2 DEF Statuses
        <4> HIDE DEF k, st
        <4> QED  BY <2>2, <4>1 DEF Rows
      <3> HIDE DEF new
      <3> QED  BY <1>11, <2>1, <2>2, <2>4, <3>1
    <2>5. UNCHANGED row \/ row' = [row EXCEPT ![k] = new]
      BY <1>12 DEF Store
    <2> QED  BY <2>3, <2>4, <2>5
  <1>13. ASSUME NEW r \in Requests, Release(r) PROVE IdemInv'
    <2> DEFINE k == req[r].key
    <2>1. /\ k \in Keys /\ req[r].pc = "failed" /\ UNCHANGED effects
          /\ Answer(r, "error", r)
      BY <1>2, <1>13 DEF Release
    <2>2. r \notin effects[k]
      BY <1>1, <2>1 DEF RowOwned
    <2>3. CASE UNCHANGED row
      BY <1>4, <2>1, <2>2, <2>3
    <2>4. CASE row' = [row EXCEPT ![k] = NoRow]
      <3>1. NoRow \in Rows /\ NoRow.status = "none" /\ NoRow.of = Nobody
        BY DEF NoRow, Rows, Statuses
      <3> QED  BY <1>11, <2>1, <2>2, <2>4, <3>1
    <2> QED  BY <1>13, <2>3, <2>4 DEF Release
  <1>14. ASSUME NEW r \in Requests, Die(r) PROVE IdemInv'
    BY <1>4, <1>14 DEF Die
  <1>15. ASSUME NEW k \in Keys, Lapse(k) PROVE IdemInv'
    <2> DEFINE new == [row[k] EXCEPT !.live = FALSE]
    <2>1. row' = [row EXCEPT ![k] = new] /\ UNCHANGED <<req, effects>>
      BY <1>15 DEF Lapse
    <2>2. new \in Rows /\ new.owner = row[k].owner /\ new.of = row[k].of /\ new.status = row[k].status
      BY <1>1 DEF Rows
    <2> HIDE DEF new
    <2>3. /\ row' \in [Keys -> Rows]
          /\ \A c \in Keys : /\ row'[c].owner = row[c].owner /\ row'[c].of = row[c].of
                             /\ row'[c].status = row[c].status
      BY <1>1, <2>1, <2>2 DEF IdemTypeOK
    <2>4. ASSUME NEW q \in Requests PROVE RequestOwned(q)'
      BY <1>1, <1>2, <2>1, <2>3 DEF RequestOwned
    <2>5. ASSUME NEW c \in Keys PROVE RowOwned(c)'
      BY <1>1, <2>1, <2>3 DEF RowOwned
    <2> QED  BY <1>1, <2>1, <2>3, <2>4, <2>5 DEF IdemInv, Owned, IdemTypeOK
  <1>16. CASE UNCHANGED idemVars
    BY <1>16 DEF idemVars, IdemInv, IdemTypeOK, Owned, RequestOwned, RowOwned
  <1> QED
    BY <1>3, <1>5, <1>6, <1>7, <1>8, <1>9, <1>10, <1>12, <1>13, <1>14, <1>15, <1>16
       DEF IdemNext, Step

\* Initially nothing is owned.
LEMMA OwnedInit == IdemInit => IdemInv
  BY NamesAssumption
     DEF IdemInit, IdemInv, IdemTypeOK, Owned, RequestOwned, RowOwned, NoRow, NoReply, Reply, Rows,
         Reqs, Replies, Statuses

\* The row of an Idempotency-Key has one owner at a time, which alone takes
\* effect and answers it, although requests read, reserve, work and answer in
\* separate statements; and an owner that has committed anything keeps the row,
\* whatever it answers (idempotency).
THEOREM KeysHaveOneOwner == IdemSpec => [](IdemTypeOK /\ Owned)
  <1>1. IdemInv => IdemTypeOK /\ Owned
    BY DEF IdemInv
  <1> QED  BY <1>1, OwnedInit, OwnedStep, PTL DEF IdemSpec

-----------------------------------------------------------------------------
(* The middleware implements OncePerKey.                                   *)

\* What the clients have been told, which keys they named and who has finished.
AllAsked == [r \in Requests |-> req[r].key]
AllTold == [r \in Requests |-> Told(r)]
AllFinished == {r \in Requests : Finished(r)}

\* What a client makes of an answer does not change when others take effect: an
\* answer comes from a request that is over.
LEMMA ToldKept ==
    ASSUME IdemInv, NEW q \in Requests, req'[q] = req[q],
           \A k \in Keys : \A x \in Requests :
              req[x].pc = "done" => (x \in effects'[k] <=> x \in effects[k]),
           \A x \in Requests : req[x].pc = "done" => req'[x].seen = req[x].seen,
           Nobody \notin UNION {effects'[k] : k \in Keys}
    PROVE  Told(q)' = Told(q)
  <1> DEFINE a == req[q].reply
  <1>1. /\ a.of \in Requests \cup {Nobody}
        /\ a.of # Nobody => req[a.of].pc = "done"
        /\ \A k \in Keys : Nobody \notin effects[k] /\ Nobody \notin effects'[k]
    BY NamesAssumption DEF IdemInv, IdemTypeOK, Owned, RequestOwned, Reqs, Replies
  <1>2. \A k \in Keys : a.of \in effects'[k] <=> a.of \in effects[k]
    BY <1>1
  <1>3. \A k \in Keys : a.of \in effects[k] => req'[a.of].seen = req[a.of].seen
    BY <1>1
  <1> QED  BY <1>2, <1>3 DEF Told

\* A step without effects of a request that took none, or that keeps what its
\* handler has answered, finishes nothing.
LEMMA FinishedKept ==
    ASSUME IdemInv, NEW r \in Requests, UNCHANGED effects,
           \A q \in Requests : q # r => req'[q] = req[q],
           \/ \A k \in Keys : r \notin effects[k]
           \/ req'[r].key = req[r].key /\ req'[r].seen = req[r].seen
    PROVE  AllFinished' = AllFinished
  <1>1. ASSUME NEW q \in Requests PROVE Finished(q)' <=> Finished(q)
    BY DEF Finished
  <1> QED  BY <1>1 DEF AllFinished

\* A request that has no answer has been told nothing, and is not told twice.
LEMMA ToldNothing ==
    ASSUME IdemInv, NEW r \in Requests, req[r].pc # "done"
    PROVE  Told(r) = [what |-> "nothing", of |-> {}]
  BY DEF IdemInv, Owned, RequestOwned, Told

\* An answer of the middleware tells its client what OncePerKey allows.
LEMMA AnswerTells ==
    ASSUME IdemInv, IdemInv', NEW r \in Requests,
           NEW st \in {"ok", "error", "refused", "lost"}, NEW of \in Requests \cup {Nobody},
           Answer(r, st, of), UNCHANGED effects,
           req[r].pc \notin {"idle", "done"},
           r \in effects[req[r].key] => st \in {req[r].seen, "lost"}
    PROVE  Promise!PromiseNext
  <1> USE NamesAssumption
  <1> DEFINE k == req[r].key
  <1>1. /\ req'[r].key = k /\ req'[r].seen = req[r].seen
        /\ req'[r].reply.status = st /\ req'[r].reply.of = of
        /\ \A q \in Requests : q # r => req'[q] = req[q]
    BY AnswerFields DEF IdemInv
  <1>2. k \in Keys
    BY DEF IdemInv, IdemTypeOK, Owned, RequestOwned, Reqs
  <1>3. UNCHANGED <<AllAsked, AllFinished>>
    BY <1>1, FinishedKept DEF AllAsked
  <1>4. \A c \in Keys : Nobody \notin effects[c]
    BY DEF IdemInv, IdemTypeOK
  <1>5. \A q \in Requests : q # r => Told(q)' = Told(q)
    BY <1>1, <1>4, ToldKept
  <1>6. AllTold' = [AllTold EXCEPT ![r] = Told(r)']
    BY <1>5 DEF AllTold
  <1>7. Promise!Waiting(r)
    BY <1>2, ToldNothing DEF Promise!Waiting, Promise!Nothing
  <1>8. ASSUME NEW what, Told(r)' = what PROVE Promise!Tell(r, what)
    BY <1>3, <1>6, <1>7, <1>8 DEF Promise!Tell, AllAsked, AllTold, AllFinished
  <1>9. CASE st = "ok" /\ of \in effects[k] /\ req'[of].seen = "ok"
    <2>1. effects[k] = {of} /\ req[of].key = k /\ of \in Requests
      BY <1>2, <1>4, <1>9 DEF IdemInv, Owned, RowOwned
    <2>2. effects[k] \subseteq AllFinished
      BY <1>1, <1>2, <1>9, <2>1 DEF Finished, AllFinished
    <2>3. Told(r)' = Promise!Success(effects[k])
      BY <1>1, <1>2, <1>9, <2>1 DEF Told, Promise!Success
    <2>4. Promise!TellSuccess(r)
      BY <1>8, <2>1, <2>2, <2>3 DEF Promise!TellSuccess, AllFinished
    <2> QED  BY <2>4 DEF Promise!PromiseNext
  <1>10. CASE st = "ok" /\ ~(of \in effects[k] /\ req'[of].seen = "ok")
    <2>1. Told(r)' = [what |-> "hollow", of |-> {}]
      BY <1>1, <1>10 DEF Told
    <2>2. Promise!TellNothing(r)
      BY <1>8, <2>1 DEF Promise!TellNothing
    <2> QED  BY <2>2 DEF Promise!PromiseNext
  <1>11. CASE st = "lost"
    <2>1. Told(r)' = [what |-> "lost", of |-> {}]
      BY <1>1, <1>11 DEF Told
    <2>2. Promise!TellNothing(r)
      BY <1>8, <2>1 DEF Promise!TellNothing
    <2> QED  BY <2>2 DEF Promise!PromiseNext
  <1>12. CASE st = "refused"
    <2>1. Told(r)' = [what |-> "refused", of |-> {}]
      BY <1>1, <1>12 DEF Told
    <2>2. r \notin effects[k]
      BY <1>12 DEF IdemInv, IdemTypeOK, Reqs, Statuses
    <2>3. Promise!TellRefusal(r)
      BY <1>8, <2>1, <2>2 DEF Promise!TellRefusal
    <2> QED  BY <2>3 DEF Promise!PromiseNext
  <1>13. CASE st = "error"
    <2>1. Told(r)' = [what |-> "failed", of |-> {}]
      BY <1>1, <1>13 DEF Told
    <2>2. r \notin AllFinished
      BY <1>13 DEF Finished, AllFinished
    <2>3. Promise!TellFailure(r)
      BY <1>8, <2>1, <2>2 DEF Promise!TellFailure, AllFinished
    <2> QED  BY <2>3 DEF Promise!PromiseNext
  <1> QED  BY <1>9, <1>10, <1>11, <1>12, <1>13

\* Every step of the middleware is a step of OncePerKey, or none.
LEMMA PromiseStep ==
    IdemInv /\ IdemInv' /\ [IdemNext]_idemVars => [Promise!PromiseNext]_(Promise!promiseVars)
  <1> SUFFICES ASSUME IdemInv, IdemInv', [IdemNext]_idemVars
               PROVE  Promise!PromiseNext \/ UNCHANGED Promise!promiseVars
    OBVIOUS
  <1> USE NamesAssumption
  <1>1. /\ IdemTypeOK
        /\ \A q \in Requests : RequestOwned(q)
        /\ \A c \in Keys : RowOwned(c) /\ row[c] \in Rows /\ Nobody \notin effects[c]
    BY DEF IdemInv, Owned, IdemTypeOK
  <1>2. ASSUME NEW r \in Requests, req[r].pc \notin {"idle", "done"} PROVE req[r].key \in Keys
    BY <1>1, <1>2 DEF IdemTypeOK, RequestOwned, Reqs
  <1>3. ASSUME \A q \in Requests : req'[q].key = req[q].key /\ Told(q)' = Told(q),
               UNCHANGED effects, AllFinished' = AllFinished
        PROVE  UNCHANGED Promise!promiseVars
    BY <1>3 DEF Promise!promiseVars, AllFinished
  <1>4. ASSUME NEW r \in Requests, req[r].pc # "done", req'[r].pc # "done", UNCHANGED effects,
               \A q \in Requests : q # r => req'[q] = req[q]
        PROVE  \A q \in Requests : Told(q)' = Told(q)
    <2>1. Told(r) = [what |-> "nothing", of |-> {}] /\ Told(r)' = [what |-> "nothing", of |-> {}]
      BY <1>4 DEF IdemInv, Owned, RequestOwned, Told
    <2>2. \A q \in Requests : q # r => Told(q)' = Told(q)
      BY <1>1, <1>4, ToldKept
    <2> QED  BY <2>1, <2>2
  <1>5. ASSUME NEW r \in Requests, NEW k \in Keys, NEW b \in Bodies, Lookup(r, k, b)
        PROVE  Promise!PromiseNext
    <2>1. /\ req'[r].pc \in {"missed", "found"} /\ req'[r].key = k
          /\ \A q \in Requests : q # r => req'[q] = req[q]
          /\ req[r].pc = "idle" /\ UNCHANGED effects
      BY <1>1, <1>5, LookupFields DEF Lookup
    <2>2. \A q \in Requests : Told(q)' = Told(q)
      BY <1>4, <2>1
    <2>3. AllTold' = AllTold
      BY <2>2 DEF AllTold
    <2>4. AllAsked' = [AllAsked EXCEPT ![r] = k] /\ AllAsked[r] = NoKey
      <3>1. req[r].key = NoKey
        BY <1>1, <2>1 DEF RequestOwned
      <3>2. \A q \in Requests : req'[q].key = IF q = r THEN k ELSE req[q].key
        BY <2>1
      <3> QED  BY <3>1, <3>2 DEF AllAsked
    <2>5. AllFinished' = AllFinished
      <3>1. \A c \in Keys : r \notin effects[c]
        BY <1>1, <2>1 DEF RowOwned
      <3> QED  BY <2>1, <3>1, FinishedKept
    <2>6. Promise!Ask(r, k)
      BY <2>1, <2>3, <2>4, <2>5 DEF Promise!Ask, AllTold, AllAsked, AllFinished
    <2> QED  BY <2>6 DEF Promise!PromiseNext
  <1>6. ASSUME NEW r \in Requests, FetchStored(r) PROVE Promise!PromiseNext
    <2> DEFINE st == Sent(req[r].seen)
    <2>1. req[r].key \in Keys /\ req[r].pc = "found" /\ UNCHANGED effects
      BY <1>2, <1>6 DEF FetchStored
    <2>2. PICK of \in {row[req[r].key].of, Nobody} : Answer(r, st, of)
      BY <1>6 DEF FetchStored
    <2>3. st \in {"ok", "error"}
      BY <1>1 DEF Sent, IdemTypeOK, Reqs, Statuses
    <2>4. of \in Requests \cup {Nobody}
      BY <1>1, <2>1 DEF Rows
    <2>5. r \notin effects[req[r].key]
      BY <1>1, <2>1 DEF RowOwned
    <2> HIDE DEF st
    <2> QED  BY <2>1, <2>2, <2>3, <2>4, <2>5, AnswerTells
  <1>7. ASSUME NEW r \in Requests, Reserve(r) \/ HandlerRefuses(r) \/ HandlerErrs(r)
        PROVE  UNCHANGED Promise!promiseVars
    <2>1. /\ req[r].pc \in {"missed", "reserved"} /\ UNCHANGED effects
          /\ req'[r].pc \in {"reserved", "handled", "failed"} /\ req'[r].key = req[r].key
          /\ \A q \in Requests : q # r => req'[q] = req[q]
      <3>1. CASE Reserve(r)
        BY <1>1, <3>1, SawFields DEF Reserve, IdemTypeOK, Reqs
      <3>2. CASE HandlerRefuses(r)
        BY <1>1, <3>2, SawFields DEF HandlerRefuses, Statuses
      <3>3. CASE HandlerErrs(r)
        BY <1>1, <3>3, SawFields DEF HandlerErrs, IdemTypeOK, Reqs
      <3> QED  BY <1>7, <3>1, <3>2, <3>3
    <2>2. \A q \in Requests : Told(q)' = Told(q)
      BY <1>4, <2>1
    <2>3. \A q \in Requests : req'[q].key = req[q].key
      BY <2>1
    <2>4. \A c \in Keys : r \notin effects[c]
      BY <1>1, <2>1 DEF RowOwned
    <2>5. AllFinished' = AllFinished
      BY <2>1, <2>4, FinishedKept
    <2> QED  BY <1>3, <2>1, <2>2, <2>3, <2>5
  <1>8. ASSUME NEW r \in Requests, Refuse(r) \/ StatementFails(r) PROVE Promise!PromiseNext
    <2>1. /\ req[r].key \in Keys /\ req[r].pc \in {"missed", "found"} /\ UNCHANGED effects
          /\ Answer(r, "refused", Nobody) \/ Answer(r, "error", Nobody)
      BY <1>2, <1>8 DEF Refuse, StatementFails
    <2>2. r \notin effects[req[r].key]
      BY <1>1, <2>1 DEF RowOwned
    <2> QED  BY <2>1, <2>2, AnswerTells
  <1>9. ASSUME NEW r \in Requests, HandlerSucceeds(r) \/ HandlerFailsHalfway(r)
        PROVE  Promise!PromiseNext
    <2> DEFINE k == req[r].key
    <2>1. /\ req'[r].pc = "handled" /\ req'[r].key = k
          /\ \A q \in Requests : q # r => req'[q] = req[q]
      <3>1. PICK st \in {"ok", "error"} : Saw(r, "handled", st)
        BY <1>9 DEF HandlerSucceeds, HandlerFailsHalfway
      <3> QED  BY <1>1, <3>1, SawFields DEF Statuses
    <2>2. /\ k \in Keys /\ req[r].pc = "reserved"
          /\ effects' = [effects EXCEPT ![k] = effects[k] \cup {r}]
      BY <1>2, <1>9 DEF HandlerSucceeds, HandlerFailsHalfway, TakesEffect
    <2>3. effects[k] = {} /\ effects' = [effects EXCEPT ![k] = {r}]
      <3>1. effects[k] = {}
        BY <1>1, <2>2 DEF RequestOwned, RowOwned
      <3>2. effects[k] \cup {r} = {r}
        BY <3>1
      <3> QED  BY <2>2, <3>1, <3>2
    <2>4. /\ \A c \in Keys : Nobody \notin effects'[c]
          /\ \A c \in Keys : \A x \in Requests : x # r => (x \in effects'[c] <=> x \in effects[c])
      BY <1>1, <2>2, <2>3 DEF IdemTypeOK
    <2>5. \A q \in Requests : q # r => Told(q)' = Told(q)
      BY <2>1, <2>2, <2>4, ToldKept
    <2>6. Told(r) = [what |-> "nothing", of |-> {}] /\ Told(r)' = Told(r)
      BY <2>1, <2>2 DEF IdemInv, Owned, RequestOwned, Told
    <2>7. AllTold' = AllTold /\ AllAsked' = AllAsked /\ AllAsked[r] = k /\ AllTold[r] = Told(r)
      BY <2>1, <2>5, <2>6 DEF AllTold, AllAsked
    <2>8. AllFinished' \in {AllFinished, AllFinished \cup {r}}
      <3>1. ASSUME NEW q \in Requests, q # r PROVE Finished(q)' <=> Finished(q)
        BY <2>1, <2>4, <3>1 DEF Finished
      <3>2. r \notin AllFinished
        BY <2>3 DEF Finished, AllFinished
      <3>3. CASE Finished(r)'
        BY <3>1, <3>3 DEF AllFinished
      <3>4. CASE ~Finished(r)'
        BY <3>1, <3>2, <3>4 DEF AllFinished
      <3> QED  BY <3>3, <3>4
    <2>9. Promise!TakeEffect(r)
      BY <2>2, <2>3, <2>6, <2>7, <2>8
         DEF Promise!TakeEffect, Promise!Waiting, Promise!Nothing, AllAsked, AllTold, AllFinished
    <2> QED  BY <2>9 DEF Promise!PromiseNext
  <1>10. ASSUME NEW r \in Requests, Store(r) PROVE Promise!PromiseNext
    <2>1. /\ req[r].pc = "handled" /\ UNCHANGED effects /\ Answer(r, req[r].seen, r)
          /\ req[r].seen \in {"ok", "error"}
      BY <1>1, <1>10 DEF Store, IdemTypeOK, RequestOwned, Reqs, Statuses
    <2> QED  BY <2>1, AnswerTells
  <1>11. ASSUME NEW r \in Requests, Release(r) PROVE Promise!PromiseNext
    <2>1. /\ req[r].key \in Keys /\ req[r].pc = "failed" /\ UNCHANGED effects
          /\ Answer(r, "error", r)
      BY <1>2, <1>11 DEF Release
    <2>2. r \notin effects[req[r].key]
      BY <1>1, <2>1 DEF RowOwned
    <2> QED  BY <2>1, <2>2, AnswerTells
  <1>12. ASSUME NEW r \in Requests, Die(r) PROVE Promise!PromiseNext
    BY <1>12, AnswerTells DEF Die
  <1>13. ASSUME NEW k \in Keys, Lapse(k) PROVE UNCHANGED Promise!promiseVars
    BY <1>13 DEF Lapse, Promise!promiseVars, Told, Finished
  <1>14. CASE UNCHANGED idemVars
    BY <1>14 DEF idemVars, Promise!promiseVars, Told, Finished
  <1> QED
    BY <1>5, <1>6, <1>7, <1>8, <1>9, <1>10, <1>11, <1>12, <1>13, <1>14 DEF IdemNext, Step

\* The middleware implements OncePerKey for every number of keys, requests and
\* bodies, also in front of handlers that commit and then fail: at most one
\* request of a key commits anything, a success that a client is told is that
\* one's and complete, a client that is told of a failure has not finished, and
\* one that is refused has committed nothing (idempotency).
THEOREM MiddlewareKeepsPromise == IdemSpec => PromiseKept
  <1>1. IdemInit => Promise!PromiseInit
    BY DEF IdemInit, Promise!PromiseInit, Promise!Nothing, Told, Finished, NoReply, Reply
  <1> QED
    BY <1>1, OwnedInit, OwnedStep, PromiseStep, PTL DEF IdemSpec, PromiseKept, Promise!PromiseSpec
=============================================================================
