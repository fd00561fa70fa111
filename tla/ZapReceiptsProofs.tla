-------------------------- MODULE ZapReceiptsProofs --------------------------
(***************************************************************************)
(* The queue of zap receipts for any number of servers, requests, hashes   *)
(* and faults, with claims that may become stale at any time: no settled   *)
(* zap is lost once its report came to its end, and the tables change as   *)
(* the adapter's contract allows.                                          *)
(***************************************************************************)
EXTENDS ZapReceipts, FiniteSetTheorems, TLAPS

Working == {"publish", "store", "delete", "retry"}

(* There is nothing left to publish, or nobody will.                       *)
Over(h) == h \in dropped \/ h \notin Zapped \/ event[h] # NULL

WorkerOK(w) ==
    /\ w \in Worker
    /\ (w.cur # NULL) <=> w.pc \in Working
    /\ w.pc = "delete" => Over(w.cur)

RequestOK(r) ==
    /\ r \in Request
    /\ r.pc # "idle" => r.hash \in Hashes
    /\ r.pc = "queue" => r.hash \in settled

Tables ==
    /\ settled \subseteq Hashes /\ onRelay \subseteq Hashes
    /\ dropped \subseteq Hashes /\ cut \subseteq Hashes
    /\ pending \in [Hashes -> Row \cup {NULL}]
    /\ event \in [Hashes -> {NULL, "sent", "unsent"}]
    /\ faults \in 0 .. MaxFaults
    /\ \A h \in Hashes : pending[h] # NULL => h \in settled

Requests == request \in [Handlers -> Request] /\ \A p \in Handlers : RequestOK(request[p])

Workers == worker \in [Servers -> Worker] /\ \A s \in Servers : WorkerOK(worker[s])

IInv == Tables /\ Requests /\ Workers /\ NothingLost

LEMMA Constants ==
    /\ NULL \notin Row /\ NULL \notin Hashes
    /\ NULL # "sent" /\ NULL # "unsent"
    /\ Zapped \subseteq Hashes
  BY NullAssumption, SetAssumption

(* What every step does to the tables.                                     *)
Grows ==
    /\ settled \subseteq settled' /\ dropped \subseteq dropped'
    /\ \A h \in Hashes : event[h] # NULL => event'[h] # NULL

LEMMA WorkerStillOK ==
    ASSUME NEW w, WorkerOK(w), Grows
    PROVE  WorkerOK(w)'
<1>1. w.pc = "delete" => Over(w.cur)'
  BY Constants DEF WorkerOK, Grows, Over
<1> QED
  BY <1>1 DEF WorkerOK

(* Only the worker of server s moves; w is what becomes of it.             *)
LEMMA WorkerMoves ==
    ASSUME Workers, Grows, NEW s \in Servers, NEW w,
           worker' = [worker EXCEPT ![s] = w], WorkerOK(w)'
    PROVE  Workers'
<1>1. worker' \in [Servers -> Worker]
  BY DEF Workers, WorkerOK
<1>2. ASSUME NEW t \in Servers, NEW x, x = worker'[t]
      PROVE  WorkerOK(x)'
  <2>1. CASE t = s
    BY <1>2, <2>1 DEF Workers
  <2>2. CASE t # s
    <3>1. x = worker[t] /\ WorkerOK(x)
      BY <1>2, <2>2 DEF Workers
    <3> QED
      BY <3>1, WorkerStillOK
  <2> QED
    BY <2>1, <2>2
<1>3. \A t \in Servers : WorkerOK(worker[t])'
  BY <1>2 DEF WorkerOK, Over
<1> QED
  BY <1>1, <1>3 DEF Workers

LEMMA WorkersStay ==
    ASSUME Workers, Grows, UNCHANGED worker
    PROVE  Workers'
<1>1. ASSUME NEW t \in Servers, NEW x, x = worker'[t]
      PROVE  WorkerOK(x)'
  BY <1>1, WorkerStillOK DEF Workers
<1>2. \A t \in Servers : WorkerOK(worker[t])'
  BY <1>1 DEF WorkerOK, Over
<1> QED
  BY <1>2 DEF Workers

LEMMA RequestMoves ==
    ASSUME Requests, settled \subseteq settled', NEW p \in Handlers, NEW r,
           Moves(p, r), r \in Request, r.pc # "idle" => r.hash \in Hashes,
           r.pc = "queue" => r.hash \in settled'
    PROVE  Requests'
  BY DEF Requests, RequestOK, Moves

LEMMA RequestsStay ==
    ASSUME Requests, settled \subseteq settled', UNCHANGED request
    PROVE  Requests'
  BY DEF Requests, RequestOK

(* No request moves: a receipt is lost only if a row that is not over with *)
(* leaves the queue.                                                       *)
LEMMA LostByRow ==
    ASSUME NothingLost, Grows, UNCHANGED <<settled, cut, request>>,
           \A h \in Hashes : pending[h] # NULL /\ pending'[h] = NULL => Over(h)
    PROVE  NothingLost'
<1> SUFFICES ASSUME NEW h \in (settled \cap Zapped) \ cut
             PROVE  \/ pending'[h] # NULL \/ event'[h] # NULL \/ h \in dropped'
                    \/ \E p \in Handlers : request'[p].pc = "queue" /\ request'[p].hash = h
  BY DEF NothingLost
<1>1. h \in Hashes
  BY Constants
<1> QED
  BY <1>1 DEF NothingLost, Grows, Over

(* A request moves that was not about to queue a receipt.                  *)
LEMMA NotLostByRequest ==
    ASSUME NothingLost, Grows, UNCHANGED <<settled, cut, pending>>,
           Requests, NEW p \in Handlers, request[p].pc # "queue", NEW r, Moves(p, r)
    PROVE  NothingLost'
<1> SUFFICES ASSUME NEW h \in (settled \cap Zapped) \ cut
             PROVE  \/ pending'[h] # NULL \/ event'[h] # NULL \/ h \in dropped'
                    \/ \E q \in Handlers : request'[q].pc = "queue" /\ request'[q].hash = h
  BY DEF NothingLost
<1>1. h \in Hashes
  BY Constants
<1>2. \A q \in Handlers : request[q].pc = "queue" => request'[q] = request[q]
  BY DEF Moves, Requests
<1> QED
  BY <1>1, <1>2 DEF NothingLost, Grows

(***************************************************************************)
(* Time.                                                                   *)
(***************************************************************************)
LEMMA TimeInv ==
    ASSUME IInv, NEW h \in Hashes, Due(h) \/ GoStale(h) \/ GrowOld(h)
    PROVE  IInv'
<1>1. pending[h] # NULL /\ pending[h] \in Row /\ pending \in [Hashes -> Row \cup {NULL}]
  BY DEF IInv, Tables, Due, GoStale, GrowOld
<1>2. UNCHANGED <<settled, event, onRelay, dropped, cut, worker, request, faults>>
  BY DEF Due, GoStale, GrowOld
<1>3. PICK row : row \in Row /\ pending' = [pending EXCEPT ![h] = row]
  <2>1. /\ [pending[h] EXCEPT !.due = TRUE] \in Row
        /\ [pending[h] EXCEPT !.old = TRUE] \in Row
        /\ [pending[h] EXCEPT !.claim = "stale"] \in Row
    BY <1>1 DEF Row
  <2>2. \/ pending' = [pending EXCEPT ![h] = [pending[h] EXCEPT !.due = TRUE]]
        \/ pending' = [pending EXCEPT ![h] = [pending[h] EXCEPT !.old = TRUE]]
        \/ pending' = [pending EXCEPT ![h] = [pending[h] EXCEPT !.claim = "stale"]]
    BY <1>1 DEF Due, GoStale, GrowOld
  <2> QED
    BY <2>1, <2>2
<1>4. Tables' /\ \A g \in Hashes : pending[g] # NULL => pending'[g] # NULL
  BY <1>1, <1>2, <1>3, Constants DEF IInv, Tables
<1>5. Grows
  BY <1>2 DEF Grows
<1> QED
  BY <1>2, <1>4, <1>5, WorkersStay, RequestsStay, LostByRow DEF IInv

(***************************************************************************)
(* The worker.                                                             *)
(***************************************************************************)

(* The steps of a worker that leave the tables alone, onRelay, dropped and *)
(* faults apart.                                                           *)
LEMMA WorkerInv ==
    ASSUME IInv, NEW s \in Servers, NEW w, worker' = [worker EXCEPT ![s] = w],
           UNCHANGED <<settled, pending, event, cut, request>>,
           onRelay' \subseteq Hashes, faults' \in 0 .. MaxFaults,
           dropped \subseteq dropped', dropped' \subseteq Hashes,
           w \in Worker, (w.cur # NULL) <=> w.pc \in Working,
           w.pc = "delete" => Over(w.cur)'
    PROVE  IInv'
<1>1. Tables'
  BY DEF IInv, Tables
<1>2. Grows
  BY DEF Grows
<1>3. WorkerOK(w)'
  BY DEF WorkerOK
<1> QED
  BY <1>1, <1>2, <1>3, WorkerMoves, RequestsStay, LostByRow DEF IInv

LEMMA SimpleSteps ==
    ASSUME IInv, NEW s \in Servers,
           \/ Wake(s) \/ EndBatch(s) \/ PublishOk(s) \/ PublishFails(s)
           \/ StoreFails(s) \/ StatementFails(s) \/ Crash(s)
    PROVE  IInv'
<1> SUFFICES ASSUME NEW W, W = worker[s]
             PROVE  IInv'
  OBVIOUS
<1>1. /\ worker \in [Servers -> Worker] /\ W \in Worker
      /\ (W.cur # NULL) <=> W.pc \in Working
  BY DEF IInv, Workers, WorkerOK
<1>2. /\ dropped \subseteq Hashes /\ onRelay \subseteq Hashes /\ faults \in 0 .. MaxFaults
  BY DEF IInv, Tables
<1>3. ASSUME NEW pc \in {"wait", "take", "next", "store", "retry"},
             pc \in Working <=> W.pc \in Working, Step(s, pc),
             UNCHANGED <<settled, pending, event, cut, request, dropped>>,
             onRelay' \subseteq Hashes, faults' \in 0 .. MaxFaults
      PROVE  IInv'
  <2> DEFINE w == [W EXCEPT !.pc = pc]
  <2>1. worker' = [worker EXCEPT ![s] = w] /\ w \in Worker
    BY <1>1, <1>3 DEF Step, Worker
  <2>2. w.cur = W.cur /\ w.pc = pc /\ pc # "delete"
    BY <1>1 DEF Worker
  <2> HIDE DEF w
  <2> QED
    BY <1>1, <1>2, <1>3, <2>1, <2>2, WorkerInv
<1>4. ASSUME NEW w \in Worker, worker' = [worker EXCEPT ![s] = w],
             w.cur = NULL, w.pc \in {"wait", "take", "next"},
             UNCHANGED <<settled, pending, event, cut, request, dropped, onRelay>>,
             faults' \in 0 .. MaxFaults
      PROVE  IInv'
  BY <1>2, <1>4, WorkerInv DEF Working
<1>5. faults < MaxFaults => faults + 1 \in 0 .. MaxFaults
  BY <1>2, BoundAssumption
<1>6. \A pc \in {"wait", "take"} :
         LET w == [Waiting EXCEPT !.pc = pc]
         IN w \in Worker /\ w.cur = NULL /\ w.pc = pc
  BY DEF Waiting, Worker
<1>7. CASE Wake(s)
  BY <1>2, <1>3, <1>7 DEF Wake, At, Working
<1>8. CASE EndBatch(s)
  <2>1. PICK pc \in {"take", "wait"} : worker' = [worker EXCEPT ![s] = [Waiting EXCEPT !.pc = pc]]
    BY <1>8 DEF EndBatch
  <2> QED
    BY <1>2, <1>4, <1>6, <1>8, <2>1 DEF EndBatch
<1>9. CASE PublishOk(s)
  <2>1. W.pc = "publish" /\ W.cur \in Hashes
    BY <1>1, <1>9 DEF PublishOk, At, Worker, Working
  <2> QED
    BY <1>2, <1>3, <1>9, <2>1 DEF PublishOk, Working
<1>10. CASE PublishFails(s) \/ StoreFails(s)
  <2>1. faults' \in 0 .. MaxFaults
    BY <1>2, <1>5, <1>10 DEF PublishFails, StoreFails
  <2> QED
    BY <1>2, <1>3, <1>10, <2>1 DEF PublishFails, StoreFails, At, Working
<1>11. CASE StatementFails(s)
  <2>1. /\ faults' \in 0 .. MaxFaults
        /\ UNCHANGED <<settled, pending, event, cut, request, onRelay, dropped>>
    BY <1>5, <1>11 DEF StatementFails
  <2>2. ASSUME NextItem(s)
        PROVE  IInv'
    <3> DEFINE w == [W EXCEPT !.pc = "next", !.cur = NULL]
    <3>1. worker' = [worker EXCEPT ![s] = w] /\ w \in Worker /\ w.cur = NULL /\ w.pc = "next"
      BY <1>1, <2>2 DEF NextItem, Worker
    <3> HIDE DEF w
    <3> QED
      BY <1>4, <2>1, <3>1
  <2>3. ASSUME W.pc = "next", NEW h \in W.todo, worker' = [worker EXCEPT ![s].todo = @ \ {h}]
        PROVE  IInv'
    <3> DEFINE w == [W EXCEPT !.todo = @ \ {h}]
    <3>1. /\ worker' = [worker EXCEPT ![s] = w] /\ w \in Worker
          /\ w.cur = W.cur /\ w.pc = "next" /\ W.cur = NULL
      BY <1>1, <2>3 DEF Worker, Working
    <3> HIDE DEF w
    <3> QED
      BY <1>4, <2>1, <3>1
  <2>4. ASSUME W.pc = "take", Step(s, "wait")
        PROVE  IInv'
    BY <1>2, <1>3, <2>1, <2>4 DEF Working
  <2> QED
    BY <1>11, <2>2, <2>3, <2>4 DEF StatementFails, At
<1>12. CASE Crash(s)
  BY <1>2, <1>4, <1>5, <1>6, <1>12 DEF Crash
<1> QED
  BY <1>7, <1>8, <1>9, <1>10, <1>11, <1>12

LEMMA TakePendingInv ==
    ASSUME IInv, NEW s \in Servers, TakePending(s)
    PROVE  IInv'
<1>1. PICK S \in SUBSET Claimable :
        /\ pending' = [h \in Hashes |-> IF h \in S THEN [pending[h] EXCEPT !.claim = "fresh"]
                                         ELSE pending[h]]
        /\ worker' = [worker EXCEPT ![s] =
                        IF S = {} THEN Waiting
                        ELSE [pc |-> "next", todo |-> S, cur |-> NULL,
                              more |-> Cardinality(S) = Limit]]
  BY DEF TakePending
<1>2. UNCHANGED <<settled, event, onRelay, dropped, cut, request, faults>>
  BY DEF TakePending
<1> DEFINE w == IF S = {} THEN Waiting
                ELSE [pc |-> "next", todo |-> S, cur |-> NULL, more |-> Cardinality(S) = Limit]
<1>3. pending \in [Hashes -> Row \cup {NULL}] /\ S \subseteq Hashes
  BY DEF IInv, Tables, Claimable
<1>4. \A h \in S : pending[h] \in Row
  BY <1>3 DEF Claimable
<1>5. /\ pending' \in [Hashes -> Row \cup {NULL}]
      /\ \A h \in S : pending'[h] \in Row
      /\ \A h \in Hashes \ S : pending'[h] = pending[h]
  BY <1>1, <1>3, <1>4 DEF Row
<1>6. \A h \in Hashes : pending'[h] = NULL <=> pending[h] = NULL
  BY <1>4, <1>5, Constants
<1>7. Tables'
  BY <1>2, <1>5, <1>6 DEF IInv, Tables
<1>8. Grows
  BY <1>2 DEF Grows
<1>9. w \in Worker /\ w.cur = NULL /\ w.pc \in {"wait", "next"}
  BY <1>3 DEF Waiting, Worker
<1>10. worker' = [worker EXCEPT ![s] = w]
  BY <1>1
<1> HIDE DEF w
<1>11. WorkerOK(w)'
  BY <1>9 DEF WorkerOK, Working
<1>12. Workers'
  BY <1>8, <1>10, <1>11, WorkerMoves DEF IInv
<1> QED
  BY <1>2, <1>6, <1>7, <1>8, <1>12, RequestsStay, LostByRow DEF IInv

LEMMA FetchInv ==
    ASSUME IInv, NEW s \in Servers, Fetch(s)
    PROVE  IInv'
<1> SUFFICES ASSUME NEW W, W = worker[s]
             PROVE  IInv'
  OBVIOUS
<1>1. worker \in [Servers -> Worker] /\ W \in Worker
  BY DEF IInv, Workers
<1>2. PICK h \in W.todo, giveUp \in BOOLEAN, pc \in {"delete", "publish", "next"} :
        /\ pc = "delete" => giveUp \/ ~Unpublished(h)
        /\ worker' = [worker EXCEPT ![s].pc = pc, ![s].todo = @ \ {h},
                                    ![s].cur = IF pc = "next" THEN NULL ELSE h]
        /\ dropped' = IF giveUp THEN dropped \cup {h} ELSE dropped
  BY DEF Fetch
<1>3. UNCHANGED <<settled, pending, event, onRelay, cut, request, faults>> /\ h \in Hashes
  BY <1>1 DEF Fetch, Worker
<1> DEFINE w == [W EXCEPT !.pc = pc, !.todo = @ \ {h}, !.cur = IF pc = "next" THEN NULL ELSE h]
<1>4. worker' = [worker EXCEPT ![s] = w] /\ w \in Worker
  BY <1>1, <1>2, <1>3 DEF Worker
<1>5. w.pc = pc /\ w.cur = IF pc = "next" THEN NULL ELSE h
  BY <1>1 DEF Worker
<1>6. pc = "delete" => Over(h)'
  BY <1>2, <1>3 DEF Over, Unpublished
<1> HIDE DEF w
<1>7. (w.cur # NULL) <=> w.pc \in Working
  BY <1>2, <1>3, <1>5, Constants DEF Working
<1>8. w.pc = "delete" => Over(w.cur)'
  BY <1>5, <1>6 DEF Over
<1> QED
  BY <1>2, <1>3, <1>4, <1>7, <1>8, WorkerInv DEF IInv, Tables

LEMMA StoreEventInv ==
    ASSUME IInv, NEW s \in Servers, StoreEvent(s)
    PROVE  IInv'
<1> SUFFICES ASSUME NEW W, W = worker[s]
             PROVE  IInv'
  OBVIOUS
<1>1. /\ worker \in [Servers -> Worker] /\ W \in Worker
      /\ W.pc = "store" /\ W.cur \in Hashes
      /\ event' = [event EXCEPT ![W.cur] = "sent"]
      /\ UNCHANGED <<settled, pending, onRelay, dropped, cut, request, faults>>
  BY DEF IInv, Workers, WorkerOK, StoreEvent, At, Working, Worker
<1> DEFINE w == [W EXCEPT !.pc = "delete"]
<1>2. worker' = [worker EXCEPT ![s] = w] /\ w \in Worker
  BY <1>1 DEF StoreEvent, Step, Worker
<1>3. w.pc = "delete" /\ w.cur = W.cur
  BY <1>1 DEF Worker
<1>4. event' \in [Hashes -> {NULL, "sent", "unsent"}] /\ event'[W.cur] = "sent"
      /\ \A h \in Hashes : event[h] # NULL => event'[h] # NULL
  BY <1>1, Constants DEF IInv, Tables
<1>5. Tables'
  BY <1>1, <1>4 DEF IInv, Tables
<1>6. Grows
  BY <1>1, <1>4 DEF Grows
<1> HIDE DEF w
<1>7. WorkerOK(w)'
  <2>1. Over(w.cur)'
    BY <1>3, <1>4, Constants DEF Over
  <2> QED
    BY <1>1, <1>2, <1>3, <2>1, Constants DEF WorkerOK, Working
<1> QED
  BY <1>1, <1>2, <1>5, <1>6, <1>7, WorkerMoves, RequestsStay, LostByRow DEF IInv

(* The receipt is taken off the queue, or put back to be tried later.      *)
LEMMA LetGoInv ==
    ASSUME IInv, NEW s \in Servers, DeletePending(s) \/ RetryPending(s)
    PROVE  IInv'
<1> SUFFICES ASSUME NEW W, W = worker[s]
             PROVE  IInv'
  OBVIOUS
<1>1. /\ worker \in [Servers -> Worker] /\ W \in Worker
      /\ W.pc \in {"delete", "retry"} /\ W.cur \in Hashes
      /\ W.pc = "delete" => Over(W.cur)
      /\ UNCHANGED <<settled, event, onRelay, dropped, cut, request, faults>>
  BY DEF IInv, Workers, WorkerOK, DeletePending, RetryPending, At, Working, Worker
<1>2. PICK h \in Hashes : h = W.cur
  BY <1>1
<1> DEFINE w == [W EXCEPT !.pc = "next", !.cur = NULL]
<1>3. worker' = [worker EXCEPT ![s] = w] /\ w \in Worker /\ w.pc = "next" /\ w.cur = NULL
  BY <1>1 DEF DeletePending, RetryPending, NextItem, Worker
<1>4. /\ pending' \in [Hashes -> Row \cup {NULL}]
      /\ \A g \in Hashes \ {h} : pending'[g] = pending[g]
      /\ pending[h] = NULL => pending'[h] = NULL
      /\ pending[h] # NULL /\ pending'[h] = NULL => W.pc = "delete"
  <2>1. CASE DeletePending(s)
    BY <1>1, <1>2, <2>1 DEF DeletePending, At, IInv, Tables
  <2>2. CASE RetryPending(s)
    <3>1. pending' = IF pending[h] = NULL THEN pending
                     ELSE [pending EXCEPT ![h].due = FALSE, ![h].claim = "none"]
      BY <1>2, <2>2 DEF RetryPending
    <3>2. CASE pending[h] # NULL
      <4>1. pending[h] \in Row /\ pending \in [Hashes -> Row \cup {NULL}]
        BY <3>2 DEF IInv, Tables
      <4>2. [pending[h] EXCEPT !.due = FALSE, !.claim = "none"] \in Row
        BY <4>1 DEF Row
      <4>3. pending' = [pending EXCEPT ![h] = [pending[h] EXCEPT !.due = FALSE, !.claim = "none"]]
        BY <3>1, <3>2, <4>1
      <4> QED
        BY <4>1, <4>2, <4>3, Constants
    <3> QED
      BY <3>1, <3>2 DEF IInv, Tables
  <2> QED
    BY <2>1, <2>2
<1>5. Tables'
  <2>1. \A g \in Hashes : pending'[g] # NULL => g \in settled'
    BY <1>1, <1>4 DEF IInv, Tables
  <2> QED
    BY <1>1, <1>4, <2>1 DEF IInv, Tables
<1>6. Grows /\ \A g \in Hashes : pending[g] # NULL /\ pending'[g] = NULL => Over(g)
  BY <1>1, <1>2, <1>4 DEF Grows
<1> HIDE DEF w
<1>7. WorkerOK(w)'
  BY <1>3 DEF WorkerOK, Working
<1> QED
  BY <1>1, <1>3, <1>5, <1>6, <1>7, WorkerMoves, RequestsStay, LostByRow DEF IInv

(***************************************************************************)
(* The requests.                                                           *)
(***************************************************************************)
LEMMA ReportedOK ==
    ASSUME NEW r \in Request, r.hash \in Hashes
    PROVE  /\ Reported(r) \in Request /\ Idle \in Request
           /\ Reported(r).pc # "queue"
           /\ Reported(r).pc # "idle" => Reported(r).hash \in Hashes
           /\ Idle.pc = "idle"
  BY DEF Reported, Idle, Request

(* A step that moves a request and leaves the tables alone.                *)
LEMMA QuietRequest ==
    ASSUME IInv, NEW p \in Handlers, NEW r \in Request, Moves(p, r),
           request[p].pc # "queue", r.pc # "queue", r.pc # "idle" => r.hash \in Hashes,
           UNCHANGED <<settled, pending, event, dropped, cut, worker, faults>>,
           onRelay' \subseteq Hashes
    PROVE  IInv'
<1>1. Tables' /\ Grows
  BY DEF IInv, Tables, Grows
<1> QED
  BY <1>1, RequestMoves, WorkersStay, NotLostByRequest DEF IInv

(* A request leaves the report at its place in it, queued or not.          *)
LEMMA LeavesReport ==
    ASSUME IInv, NEW p \in Handlers, NEW r \in Request, Moves(p, r),
           request[p].pc # "idle", r.pc # "queue", r.pc # "idle" => r.hash \in Hashes,
           cut' = cut \cup CutOff(request[p]), faults' \in 0 .. MaxFaults,
           UNCHANGED <<settled, pending, event, onRelay, dropped, worker>>
    PROVE  IInv'
<1>1. request[p].hash \in Hashes /\ request \in [Handlers -> Request]
  BY DEF IInv, Requests, RequestOK
<1>2. Tables' /\ Grows
  BY <1>1 DEF IInv, Tables, Grows, CutOff
<1>3. NothingLost'
  <2> SUFFICES ASSUME NEW h \in (settled \cap Zapped) \ cut'
               PROVE  \/ pending[h] # NULL \/ event[h] # NULL \/ h \in dropped
                      \/ \E q \in Handlers : request'[q].pc = "queue" /\ request'[q].hash = h
    BY DEF NothingLost
  <2>1. h \notin cut
    OBVIOUS
  <2>2. CASE request[p].pc = "queue" /\ request[p].hash = h
    BY <2>2 DEF CutOff
  <2>3. CASE ~(request[p].pc = "queue" /\ request[p].hash = h)
    <3>1. \A q \in Handlers : request[q].pc = "queue" /\ request[q].hash = h
                                => request'[q] = request[q]
      BY <1>1, <2>3 DEF Moves
    <3> QED
      BY <2>1, <3>1 DEF IInv, NothingLost
  <2> QED
    BY <2>2, <2>3
<1> QED
  BY <1>2, <1>3, RequestMoves, WorkersStay DEF IInv

LEMMA StorePreimageInv ==
    ASSUME IInv, NEW p \in Handlers, StorePreimage(p)
    PROVE  IInv'
<1> SUFFICES ASSUME NEW R, R = request[p]
             PROVE  IInv'
  OBVIOUS
<1> DEFINE r == [R EXCEPT !.pc = "queue"]
<1>1. /\ request \in [Handlers -> Request] /\ R \in Request /\ R.hash \in Hashes
      /\ R.pc = "store" /\ settled' = settled \cup {R.hash} /\ Moves(p, r)
      /\ UNCHANGED <<pending, event, onRelay, dropped, cut, worker, faults>>
  BY DEF IInv, Requests, RequestOK, StorePreimage
<1>2. r \in Request /\ r.hash = R.hash /\ r.pc = "queue"
  BY <1>1 DEF Request
<1> HIDE DEF r
<1>3. Tables' /\ Grows
  BY <1>1 DEF IInv, Tables, Grows
<1>4. Requests'
  BY <1>1, <1>2, RequestMoves DEF IInv
<1>5. NothingLost'
  <2> SUFFICES ASSUME NEW h \in (settled' \cap Zapped) \ cut
               PROVE  \/ pending[h] # NULL \/ event[h] # NULL \/ h \in dropped
                      \/ \E q \in Handlers : request'[q].pc = "queue" /\ request'[q].hash = h
    BY <1>1 DEF NothingLost
  <2>1. request'[p] = r /\ \A q \in Handlers \ {p} : request'[q] = request[q]
    BY <1>1 DEF Moves
  <2>2. CASE h = R.hash
    BY <1>2, <2>1, <2>2
  <2>3. CASE h # R.hash
    BY <1>1, <2>1, <2>3 DEF IInv, NothingLost
  <2> QED
    BY <2>2, <2>3
<1> QED
  BY <1>1, <1>3, <1>4, <1>5, WorkersStay DEF IInv

LEMMA EnqueueReceiptInv ==
    ASSUME IInv, NEW p \in Handlers, EnqueueReceipt(p)
    PROVE  IInv'
<1>1. PICK h \in Hashes : h = request[p].hash
  BY DEF IInv, Requests, RequestOK, EnqueueReceipt
<1>2. /\ request \in [Handlers -> Request] /\ request[p] \in Request
      /\ request[p].pc = "queue" /\ h \in settled
      /\ cut' = cut \ {h} /\ Moves(p, Reported(request[p]))
      /\ UNCHANGED <<settled, event, onRelay, dropped, worker, faults>>
      /\ pending' = IF pending[h] # NULL THEN pending ELSE [pending EXCEPT ![h] = NewRow]
  BY <1>1 DEF IInv, Requests, RequestOK, EnqueueReceipt
<1>3. NewRow \in Row
  BY DEF NewRow, Row
<1>4. /\ pending' \in [Hashes -> Row \cup {NULL}] /\ pending'[h] # NULL
      /\ \A g \in Hashes \ {h} : pending'[g] = pending[g]
  BY <1>2, <1>3, Constants DEF IInv, Tables
<1>5. Tables' /\ Grows
  <2>1. \A g \in Hashes : pending'[g] # NULL => g \in settled'
    BY <1>2, <1>4 DEF IInv, Tables
  <2> QED
    BY <1>2, <1>4, <2>1 DEF IInv, Tables, Grows
<1>6. Requests'
  BY <1>1, <1>2, ReportedOK, RequestMoves DEF IInv
<1>7. NothingLost'
  <2> SUFFICES ASSUME NEW g \in (settled \cap Zapped) \ (cut \ {h}), g # h
               PROVE  \/ pending'[g] # NULL \/ event[g] # NULL \/ g \in dropped
                      \/ \E q \in Handlers : request'[q].pc = "queue" /\ request'[q].hash = g
    BY <1>2, <1>4 DEF NothingLost
  <2>1. \A q \in Handlers : request[q].hash = g => request'[q] = request[q]
    BY <1>1, <1>2 DEF Moves
  <2>2. pending'[g] = pending[g] /\ g \notin cut
    BY <1>4, Constants
  <2> QED
    BY <2>1, <2>2 DEF IInv, NothingLost
<1> QED
  BY <1>2, <1>5, <1>6, <1>7, WorkersStay DEF IInv

LEMMA RouteSaveInv ==
    ASSUME IInv, NEW p \in Handlers, RouteSave(p)
    PROVE  IInv'
<1>1. PICK h \in Hashes, new \in {"sent", "unsent"} :
        h = request[p].hash /\ event' = [event EXCEPT ![h] = new]
  BY DEF IInv, Requests, RequestOK, RouteSave, Request
<1>2. /\ UNCHANGED <<settled, pending, onRelay, dropped, cut, worker, faults>>
      /\ Moves(p, Idle) /\ request[p].pc = "save"
      /\ Idle \in Request /\ Idle.pc = "idle"
  BY DEF RouteSave, Moves, Idle, Request
<1>3. /\ event' \in [Hashes -> {NULL, "sent", "unsent"}]
      /\ \A g \in Hashes : event[g] # NULL => event'[g] # NULL
  BY <1>1, Constants DEF IInv, Tables
<1>4. Tables' /\ Grows
  BY <1>2, <1>3 DEF IInv, Tables, Grows
<1> QED
  BY <1>2, <1>4, RequestMoves, WorkersStay, NotLostByRequest DEF IInv

LEMMA RequestInv ==
    ASSUME IInv, NEW p \in Handlers,
           Report(p) \/ RouteRead(p) \/ RequestStep(p) \/ ReportFails(p) \/ RequestStops(p)
    PROVE  IInv'
<1> SUFFICES ASSUME NEW R, R = request[p]
             PROVE  IInv'
  OBVIOUS
<1>1. /\ request \in [Handlers -> Request] /\ R \in Request
      /\ R.pc # "idle" => R.hash \in Hashes
      /\ onRelay \subseteq Hashes /\ faults \in 0 .. MaxFaults
  BY DEF IInv, Requests, RequestOK, Tables
<1>2. CASE Report(p)
  <2>1. PICK h \in Hashes : Moves(p, [Idle EXCEPT !.pc = "read", !.hash = h])
    BY <1>2 DEF Report
  <2> DEFINE r == [Idle EXCEPT !.pc = "read", !.hash = h]
  <2>2. r \in Request /\ r.pc = "read" /\ r.hash = h
    BY DEF Idle, Request
  <2> HIDE DEF r
  <2> QED
    BY <1>1, <1>2, <2>1, <2>2, QuietRequest DEF r, Report
<1>3. CASE RouteRead(p)
  <2>1. PICK h \in Zapped, copy \in {NULL, "sent", "unsent"} :
          LET r == [Idle EXCEPT !.pc = "read", !.hash = h, !.publishes = TRUE, !.copy = copy]
          IN Moves(p, r) \/ Moves(p, Reported(r))
    BY <1>3, Constants DEF RouteRead, IInv, Tables
  <2> DEFINE r == [Idle EXCEPT !.pc = "read", !.hash = h, !.publishes = TRUE, !.copy = copy]
  <2>2. r \in Request /\ r.pc = "read" /\ r.hash = h /\ h \in Hashes
    BY Constants DEF Idle, Request
  <2>3. Moves(p, r) \/ Moves(p, Reported(r))
    BY <2>1
  <2> HIDE DEF r
  <2>4. /\ UNCHANGED <<settled, pending, event, onRelay, dropped, cut, worker, faults>>
        /\ request[p].pc = "idle"
    BY <1>3 DEF RouteRead
  <2> QED
    BY <1>1, <2>2, <2>3, <2>4, ReportedOK, QuietRequest
<1>4. CASE ReadInvoice(p)
  <2> DEFINE r == [R EXCEPT !.pc = "store"]
  <2>1. r \in Request /\ r.pc = "store" /\ r.hash = R.hash
    BY <1>1 DEF Request
  <2>2. Moves(p, r) \/ Moves(p, Reported(R))
    BY <1>4 DEF ReadInvoice
  <2> HIDE DEF r
  <2>3. /\ UNCHANGED <<settled, pending, event, onRelay, dropped, cut, worker, faults>>
        /\ R.pc = "read"
    BY <1>4 DEF ReadInvoice
  <2> QED
    BY <1>1, <2>1, <2>2, <2>3, ReportedOK, QuietRequest
<1>5. CASE RouteSend(p)
  <2>1. PICK sent \in {"sent", "unsent"} : Moves(p, [R EXCEPT !.pc = "save", !.sent = sent])
    <3>1. R = [R EXCEPT !.sent = R.sent] /\ R.sent \in {"sent", "unsent"}
          /\ [R EXCEPT !.pc = "save"] = [R EXCEPT !.pc = "save", !.sent = R.sent]
      BY <1>1 DEF Request
    <3> QED
      BY <1>1, <1>5, <3>1 DEF RouteSend, Moves
  <2> DEFINE r == [R EXCEPT !.pc = "save", !.sent = sent]
  <2>2. r \in Request /\ r.pc = "save" /\ r.hash = R.hash /\ Moves(p, r)
    BY <1>1, <2>1 DEF Request
  <2> HIDE DEF r
  <2>3. /\ UNCHANGED <<settled, pending, event, dropped, cut, worker, faults>>
        /\ onRelay' \subseteq Hashes /\ R.pc = "send"
    BY <1>1, <1>5 DEF RouteSend
  <2> QED
    BY <1>1, <2>2, <2>3, QuietRequest
<1>6. CASE ReportFails(p) \/ RequestStops(p)
  <2>1. /\ faults' \in 0 .. MaxFaults /\ R.pc # "idle"
        /\ UNCHANGED <<settled, pending, event, onRelay, dropped, worker>>
        /\ cut' = cut \cup CutOff(R)
        /\ Moves(p, Reported(R)) \/ Moves(p, Idle)
    BY <1>1, <1>6, BoundAssumption DEF ReportFails, RequestStops
  <2> QED
    BY <1>1, <2>1, ReportedOK, LeavesReport
<1> QED
  BY <1>2, <1>3, <1>4, <1>5, <1>6, StorePreimageInv, EnqueueReceiptInv, RouteSaveInv
  DEF RequestStep

LEMMA Initially == Init => IInv
<1> SUFFICES ASSUME Init
             PROVE  IInv
  OBVIOUS
<1>1. Tables /\ NothingLost
  BY Constants, BoundAssumption DEF Init, Tables, NothingLost
<1>2. Requests
  BY DEF Init, Requests, RequestOK, Idle, Request
<1>3. Waiting \in Worker /\ WorkerOK(Waiting)
  BY DEF Waiting, Worker, WorkerOK, Working
<1>4. Workers
  BY <1>3 DEF Init, Workers
<1> QED
  BY <1>1, <1>2, <1>4 DEF IInv

LEMMA Inductive == IInv /\ [Next]_vars => IInv'
<1> SUFFICES ASSUME IInv, [Next]_vars
             PROVE  IInv'
  OBVIOUS
<1>1. ASSUME NEW s \in Servers,
             WorkerStep(s) \/ StoreFails(s) \/ StatementFails(s) \/ Crash(s)
      PROVE  IInv'
  BY <1>1, SimpleSteps, TakePendingInv, FetchInv, StoreEventInv, LetGoInv DEF WorkerStep
<1>2. CASE UNCHANGED vars
  <2>1. Tables' /\ Grows
    BY <1>2 DEF vars, IInv, Tables, Grows
  <2> QED
    BY <1>2, <2>1, WorkersStay, RequestsStay, LostByRow DEF vars, IInv
<1> QED
  BY <1>1, <1>2, TimeInv, RequestInv DEF Next

LEMMA Invariance == Spec => []IInv
  BY Initially, Inductive, PTL DEF Spec

(* What the tables, the workers and the requests hold keeps its type, and  *)
(* a worker has a current receipt exactly while it works on one.           *)
THEOREM TypesKept == Spec => []TypeOK
<1>1. IInv => TypeOK
  BY DEF IInv, Tables, Requests, Workers, WorkerOK, Working, TypeOK
<1> QED
  BY <1>1, Invariance, PTL

(* Once the report of a settled zap has queued its receipt, the receipt    *)
(* leaves the queue only stored or given up, whatever worker and route     *)
(* read before they published and however many workers claim it at once;   *)
(* a receipt that was never queued is one whose report was cut off between *)
(* handle_invoice_paid's two writes.                                       *)
THEOREM NoReceiptLost == Spec => []NothingLost
<1>1. IInv => NothingLost
  BY DEF IInv
<1> QED
  BY <1>1, Invariance, PTL

(***************************************************************************)
(* The refinement of the adapter's contract, one lemma per kind of step.   *)
(***************************************************************************)
LEMMA StoreTick ==
    ASSUME IInv, NEW h \in Hashes, Due(h) \/ GoStale(h) \/ GrowOld(h)
    PROVE  [Store!Next]_(Store!store)
<1>1. pending \in [Hashes -> Row \cup {NULL}] /\ pending[h] # NULL /\ pending[h] \in Row
  BY DEF IInv, Tables, Due, GoStale, GrowOld
<1>2. \E row \in Store!Ages(pending[h]) : pending' = [pending EXCEPT ![h] = row]
  <2>1. CASE Due(h)
    BY <1>1, <2>1 DEF Due, Store!Ages
  <2>2. CASE GrowOld(h)
    BY <1>1, <2>2 DEF GrowOld, Store!Ages
  <2>3. CASE GoStale(h)
    <3>1. pending' = [pending EXCEPT ![h] = [pending[h] EXCEPT !.claim = "stale"]]
      BY <1>1, <2>3 DEF GoStale
    <3>2. [pending[h] EXCEPT !.claim = "stale"]
            = [pending[h] EXCEPT !.claim = IF @ = "fresh" THEN "stale" ELSE @]
      BY <2>3 DEF GoStale
    <3> QED
      BY <3>1, <3>2 DEF Store!Ages
  <2> QED
    BY <2>1, <2>2, <2>3
<1>3. Store!Tick(h)
  BY <1>1, <1>2 DEF Store!Tick, Due, GoStale, GrowOld
<1> QED
  BY <1>3 DEF Store!Next

(* The contract and the queue count alike.                                 *)
LEMMA SameCardinality == ASSUME NEW S PROVE Store!Cardinality(S) = Cardinality(S)
  BY DEF Store!Cardinality, Cardinality

(* The batch is as large as the limit allows.                              *)
LEMMA StoreTake ==
    ASSUME IInv, NEW s \in Servers, TakePending(s)
    PROVE  [Store!Next]_(Store!store)
<1>1. PICK S \in SUBSET Claimable :
        /\ Cardinality(S) = IF Cardinality(Claimable) < Limit
                            THEN Cardinality(Claimable) ELSE Limit
        /\ pending' = [h \in Hashes |-> IF h \in S THEN [pending[h] EXCEPT !.claim = "fresh"]
                                         ELSE pending[h]]
  BY DEF TakePending
<1>2. IsFiniteSet(Claimable) /\ S \subseteq Hashes
  <2>1. Claimable \in SUBSET Hashes
    BY DEF Claimable
  <2> QED
    BY <2>1, FS_Subset, SetAssumption
<1>3. Cardinality(Claimable) \in Nat /\ (Cardinality(Claimable) = Cardinality(S) => Claimable = S)
  BY <1>2, FS_CardinalityType, FS_Subset
<1>4. \A h \in Hashes : Store!Due(h) <=> h \in Claimable
  <2> TAKE h \in Hashes
  <2>1. pending[h] # NULL => pending[h] \in Row
    BY DEF IInv, Tables
  <2> QED
    BY <2>1 DEF Store!Due, Claimable, Row
<1>5. Cardinality(S) <= Limit /\ (Cardinality(S) # Limit => Claimable = S)
  BY <1>1, <1>3, BoundAssumption
<1>6. Store!TakePendingZapReceipts(S)
  BY <1>1, <1>2, <1>4, <1>5, SameCardinality DEF Store!TakePendingZapReceipts, TakePending
<1> QED
  BY <1>2, <1>6 DEF Store!Next

LEMMA StoreWorker ==
    ASSUME IInv, NEW s \in Servers,
           WorkerStep(s) \/ StoreFails(s) \/ StatementFails(s) \/ Crash(s)
    PROVE  [Store!Next]_(Store!store)
<1>1. CASE Fetch(s)
  <2>1. PICK h \in worker[s].todo : dropped' = dropped \/ dropped' = dropped \cup {h}
    BY <1>1 DEF Fetch
  <2>2. h \in Hashes /\ UNCHANGED <<settled, pending, event>>
    BY <1>1 DEF Fetch, IInv, Workers, Worker
  <2> QED
    BY <2>1, <2>2 DEF Store!Next, Store!GiveUp, Store!store
<1>2. CASE DeletePending(s)
  <2>1. worker[s].cur \in Hashes /\ Over(worker[s].cur)
    BY <1>2 DEF DeletePending, At, IInv, Workers, WorkerOK, Working, Worker
  <2>2. Store!Unpublished(worker[s].cur) => worker[s].cur \in dropped
    BY <2>1 DEF Over, Store!Unpublished
  <2>3. Store!DeletePendingZapReceipt(worker[s].cur)
    BY <1>2 DEF DeletePending, Store!DeletePendingZapReceipt
  <2> QED
    BY <2>1, <2>2, <2>3 DEF Store!Next
<1>3. CASE RetryPending(s)
  <2>1. worker[s].cur \in Hashes
    BY <1>3 DEF RetryPending, At, IInv, Workers, WorkerOK, Working, Worker
  <2>2. UNCHANGED Store!store \/ Store!UpdatePendingZapReceiptRetry(worker[s].cur)
    BY <1>3 DEF RetryPending, Store!UpdatePendingZapReceiptRetry, Store!store
  <2> QED
    BY <2>1, <2>2 DEF Store!Next
<1>4. CASE StoreEvent(s)
  <2>1. worker[s].cur \in Hashes
    BY <1>4 DEF StoreEvent, At, IInv, Workers, WorkerOK, Working, Worker
  <2>2. Store!UpsertZap(worker[s].cur, "sent")
    BY <1>4 DEF StoreEvent, Store!UpsertZap
  <2> QED
    BY <2>1, <2>2 DEF Store!Next
<1>5. CASE \/ Wake(s) \/ EndBatch(s) \/ PublishOk(s) \/ PublishFails(s)
           \/ StoreFails(s) \/ StatementFails(s) \/ Crash(s)
  BY <1>5 DEF Wake, EndBatch, PublishOk, PublishFails, StoreFails, StatementFails, Crash,
              Store!store
<1> QED
  BY <1>1, <1>2, <1>3, <1>4, <1>5, StoreTake DEF WorkerStep

LEMMA StoreRequest ==
    ASSUME IInv, NEW p \in Handlers,
           Report(p) \/ RouteRead(p) \/ RequestStep(p) \/ ReportFails(p) \/ RequestStops(p)
    PROVE  [Store!Next]_(Store!store)
<1>1. CASE StorePreimage(p)
  <2>1. PICK h \in Hashes : h = request[p].hash
    BY <1>1 DEF StorePreimage, IInv, Requests, RequestOK
  <2>2. Store!UpsertInvoice(h)
    BY <1>1, <2>1 DEF StorePreimage, Store!UpsertInvoice
  <2> QED
    BY <2>2 DEF Store!Next
<1>2. CASE EnqueueReceipt(p)
  <2>1. PICK h \in Hashes : h = request[p].hash /\ h \in settled
    BY <1>2 DEF EnqueueReceipt, IInv, Requests, RequestOK
  <2>2. pending' = (IF pending[h] # NULL THEN pending ELSE [pending EXCEPT ![h] = NewRow])
        /\ UNCHANGED <<settled, event, dropped>>
    BY <1>2, <2>1 DEF EnqueueReceipt
  <2>3. CASE pending[h] # NULL
    BY <2>2, <2>3 DEF Store!store
  <2>4. CASE pending[h] = NULL
    <3>1. Store!InsertPendingZapReceipt(h)
      BY <2>2, <2>4 DEF Store!InsertPendingZapReceipt, NewRow
    <3> QED
      BY <2>1, <3>1 DEF Store!Next
  <2> QED
    BY <2>3, <2>4
<1>3. CASE RouteSave(p)
  <2>1. request[p].hash \in Hashes /\ request[p].sent \in {"sent", "unsent"}
    BY <1>3 DEF RouteSave, IInv, Requests, RequestOK, Request
  <2>2. Store!UpsertZap(request[p].hash, request[p].sent)
    BY <1>3 DEF RouteSave, Store!UpsertZap
  <2> QED
    BY <2>1, <2>2 DEF Store!Next
<1>4. CASE \/ Report(p) \/ RouteRead(p) \/ ReadInvoice(p) \/ RouteSend(p)
           \/ ReportFails(p) \/ RequestStops(p)
  BY <1>4 DEF Report, RouteRead, ReadInvoice, RouteSend, ReportFails, RequestStops, Store!store
<1> QED
  BY <1>1, <1>2, <1>3, <1>4 DEF RequestStep

(* Reports, workers and the route keep the adapter's contract: what is     *)
(* queued is settled, and what a worker deletes was published, given up or *)
(* no zap, whatever happened to the row since the worker read it.          *)
THEOREM QueueImplementsStore == Spec => ImplementsStore
<1>1. Init => Store!Init
  BY DEF Init, Store!Init
<1>2. IInv /\ [Next]_vars => [Store!Next]_(Store!store)
  <2> SUFFICES ASSUME IInv, [Next]_vars
               PROVE  [Store!Next]_(Store!store)
    OBVIOUS
  <2>1. CASE UNCHANGED vars
    BY <2>1 DEF vars, Store!store
  <2> QED
    BY <2>1, StoreTick, StoreWorker, StoreRequest DEF Next
<1> QED
  BY <1>1, <1>2, Invariance, PTL DEF Spec, ImplementsStore, Store!Spec
==============================================================================
