------------------------- MODULE WebhookQueueProofs -------------------------
(***************************************************************************)
(* The delivery of webhooks for any number of servers, domains, deliveries *)
(* and permits, and for every bound: no two tasks post the same delivery,  *)
(* a delivery that succeeded is not posted again, and the table changes as *)
(* the adapter's contract allows.                                          *)
(***************************************************************************)
EXTENDS WebhookQueue, TLAPS

(* The claim of a delivery is as old as the task that works on it, and the *)
(* row is what it was when it was claimed.                                 *)
Sound(k) ==
    task[k] # NULL /\ task[k].id # NULL =>
      /\ rows[task[k].id] # NULL
      /\ task[k].id \notin Slow =>
           /\ rows[task[k].id].claim = task[k].age /\ task[k].age <= Stale
           /\ ~rows[task[k].id].done /\ rows[task[k].id].wait # Never

Types ==
    /\ rows \in [Ids -> Row \cup {NULL}]
    /\ configs \subseteq Domains
    /\ cache \in [Servers -> SUBSET Domains]
    /\ task \in [Slots -> Task \cup {NULL}]
    /\ excess \in [Servers -> SUBSET Ids]
    /\ polled \subseteq Servers
    /\ faults \in 0 .. MaxFaults /\ edits \in 0 .. MaxEdits /\ cleanups \in 0 .. MaxCleanups

Tasks == \A k \in Slots : Sound(k)

(* A delivery put aside is claimed in this very minute, and by one server. *)
Aside ==
    \A s \in Servers : \A i \in excess[s] :
      /\ rows[i] # NULL
      /\ i \notin Slow =>
           /\ rows[i].claim = 0
           /\ \A k \in Slots : task[k] # NULL => task[k].id # i
           /\ \A t \in Servers : i \in excess[t] => t = s

IInv == Types /\ Tasks /\ OneTask /\ Aside

LEMMA Constants ==
    /\ NULL \notin Ids /\ NULL \notin Int /\ NULL \notin Row /\ NULL \notin Task
    /\ Never \notin Int /\ Slow \subseteq Ids /\ DomainOf \in [Ids -> Domains]
    /\ Stale \in Nat /\ RetryDelay \in [0 .. MaxRetries -> Nat] /\ MaxOverdue \in Nat
    /\ MaxRetries \in Nat /\ MaxFaults \in Nat /\ MaxEdits \in Nat /\ MaxCleanups \in Nat
  BY NullAssumption, DomainAssumption, CountAssumption, DelayAssumption

(***************************************************************************)
(* Steps that neither claim a row nor let time pass.                       *)
(***************************************************************************)

(* Only a slow delivery's row may change under somebody's hands.           *)
Keeps(i) == rows'[i] = rows[i] \/ (i \in Slow /\ rows'[i] # NULL)

(* A task ends, loses its row, or goes on with the same delivery.          *)
GoesOn(k) ==
    \/ task'[k] = NULL
    \/ task'[k] \in Task /\ task'[k].id = NULL
    \/ /\ task[k] # NULL /\ task'[k] \in Task
       /\ task'[k].id = task[k].id /\ task'[k].age = task[k].age
       /\ task[k].id # NULL => Keeps(task[k].id)

LEMMA Calm ==
    ASSUME IInv, Types', \A k \in Slots : GoesOn(k),
           \A s \in Servers : excess'[s] \subseteq excess[s],
           \A s \in Servers : \A i \in excess'[s] : Keeps(i)
    PROVE  IInv'
<1>1. ASSUME NEW k \in Slots
      PROVE  Sound(k)'
  <2>1. Sound(k) /\ GoesOn(k)
    BY DEF IInv, Tasks
  <2> QED
    BY <2>1, Constants DEF Sound, GoesOn, Keeps
<1>2. \A k \in Slots : task'[k] # NULL /\ task'[k].id # NULL =>
                         task[k] # NULL /\ task[k].id = task'[k].id
  BY DEF GoesOn
<1>3. OneTask'
  BY <1>2, Constants DEF IInv, OneTask
<1>4. Aside'
  <2> SUFFICES ASSUME NEW s \in Servers, NEW i \in excess'[s]
               PROVE  /\ rows'[i] # NULL
                      /\ i \notin Slow =>
                           /\ rows'[i].claim = 0
                           /\ \A k \in Slots : task'[k] # NULL => task'[k].id # i
                           /\ \A t \in Servers : i \in excess'[t] => t = s
    BY DEF Aside
  <2>1. i \in excess[s] /\ Keeps(i) /\ i \in Ids
    BY DEF IInv, Types
  <2> QED
    BY <1>2, <2>1, Constants DEF IInv, Aside, Keeps
<1> QED
  BY <1>1, <1>3, <1>4 DEF IInv, Tasks

LEMMA SimpleSteps ==
    ASSUME IInv,
           \/ \E i \in Ids : Insert(i)
           \/ \E d \in Domains : EditConfig(d)
           \/ \E s \in Servers : Refresh(s) \/ UnclaimFails(s) \/ Crash(s)
           \/ UNCHANGED vars
    PROVE  IInv'
<1>1. \A i \in Ids : rows[i] # NULL => rows'[i] = rows[i]
  BY DEF IInv, Types, Insert, EditConfig, Refresh, UnclaimFails, Crash, vars
<1>2. Types'
  <2>1. CASE \E i \in Ids : Insert(i)
    <3>1. [url |-> FALSE, wait |-> 0, claim |-> NULL, done |-> FALSE, retries |-> 0] \in Row
      BY Constants DEF Row, Waits
    <3> QED
      BY <2>1, <3>1 DEF IInv, Types, Insert, bounds
  <2>2. CASE \E d \in Domains : EditConfig(d)
    BY <2>2, Constants DEF IInv, Types, EditConfig
  <2>3. CASE \E s \in Servers : Refresh(s)
    BY <2>3 DEF IInv, Types, Refresh, bounds
  <2>4. CASE \E s \in Servers : UnclaimFails(s)
    BY <2>4, Constants DEF IInv, Types, UnclaimFails
  <2>5. CASE \E s \in Servers : Crash(s)
    BY <2>5, Constants DEF IInv, Types, Crash
  <2>6. CASE UNCHANGED vars
    BY <2>6 DEF IInv, Types, vars
  <2> QED
    BY <2>1, <2>2, <2>3, <2>4, <2>5, <2>6
<1>3. ASSUME NEW k \in Slots
      PROVE  GoesOn(k)
  <2>1. task'[k] = task[k] \/ task'[k] = NULL
    BY <1>3 DEF Insert, EditConfig, Refresh, UnclaimFails, Crash, vars
  <2>2. task[k] # NULL => task[k] \in Task
    BY DEF IInv, Types
  <2>3. task[k] # NULL /\ task[k].id # NULL => Keeps(task[k].id)
    BY <1>1, <2>2 DEF IInv, Tasks, Sound, Task, Keeps
  <2> QED
    BY <2>1, <2>2, <2>3 DEF GoesOn
<1>4. \A s \in Servers : excess'[s] \subseteq excess[s]
  BY DEF IInv, Types, Insert, EditConfig, Refresh, UnclaimFails, Crash, vars
<1>5. \A s \in Servers : \A i \in excess'[s] : Keeps(i)
  BY <1>1, <1>4 DEF IInv, Types, Aside, Keeps
<1> QED
  BY <1>2, <1>3, <1>4, <1>5, Calm

(* The rows put aside are unclaimed; nobody works on them.                 *)
LEMMA UnclaimInv ==
    ASSUME IInv, NEW s \in Servers, Unclaim(s)
    PROVE  IInv'
<1>1. /\ rows' = [i \in Ids |-> IF i \in excess[s] THEN [rows[i] EXCEPT !.claim = NULL]
                                ELSE rows[i]]
      /\ excess' = [excess EXCEPT ![s] = {}]
      /\ UNCHANGED <<configs, cache, task, polled, faults, edits, cleanups>>
  BY DEF Unclaim, bounds
<1>2. \A i \in Ids : (i \notin excess[s] => rows'[i] = rows[i])
                     /\ (i \in excess[s] => rows'[i] \in Row)
  BY <1>1 DEF IInv, Types, Aside, Row
<1>3. rows' \in [Ids -> Row \cup {NULL}]
  <2>1. rows \in [Ids -> Row \cup {NULL}]
    BY DEF IInv, Types
  <2>2. \A i \in Ids : rows'[i] \in Row \cup {NULL}
    BY <1>2, <2>1
  <2> QED
    BY <1>1, <2>2
<1>4. Types'
  BY <1>1, <1>3 DEF IInv, Types
<1>5. ASSUME NEW k \in Slots
      PROVE  GoesOn(k)
  <2>1. task'[k] = task[k] /\ (task[k] # NULL => task[k] \in Task)
    BY <1>1 DEF IInv, Types
  <2>2. task[k] # NULL /\ task[k].id # NULL => Keeps(task[k].id)
    BY <1>2, <2>1, Constants DEF IInv, Types, Aside, Task, Keeps
  <2> QED
    BY <2>1, <2>2 DEF GoesOn
<1>6. \A t \in Servers : excess'[t] = IF t = s THEN {} ELSE excess[t]
  BY <1>1 DEF IInv, Types
<1>7. \A t \in Servers : \A i \in excess'[t] : Keeps(i)
  BY <1>2, <1>6, Constants DEF IInv, Types, Aside, Keeps
<1> QED
  BY <1>4, <1>5, <1>6, <1>7, Calm

(* A row is removed, and with it what servers and tasks know of it.        *)
LEMMA RemoveInv ==
    ASSUME IInv, NEW i, Types', \A g \in Ids \ {i} : rows'[g] = rows[g],
           \A k \in Slots :
              \/ task'[k] = NULL
              \/ task'[k] = task[k] /\ task[k].id # i
              \/ task[k] # NULL /\ task'[k] = [task[k] EXCEPT !.id = NULL],
           \A s \in Servers : excess'[s] = excess[s] \ {i}
    PROVE  IInv'
<1>1. ASSUME NEW k \in Slots
      PROVE  GoesOn(k)
  <2>1. task[k] # NULL => task[k] \in Task /\ [task[k] EXCEPT !.id = NULL] \in Task
    BY DEF IInv, Types, Task
  <2>2. task[k] # NULL => [task[k] EXCEPT !.id = NULL].id = NULL
    BY <2>1 DEF Task
  <2>3. task[k] # NULL /\ task[k].id # NULL /\ task[k].id # i => Keeps(task[k].id)
    BY <2>1 DEF Task, Keeps
  <2> QED
    BY <2>1, <2>2, <2>3 DEF GoesOn
<1>2. \A s \in Servers : \A g \in excess'[s] : Keeps(g)
  BY DEF IInv, Types, Keeps
<1> QED
  BY <1>1, <1>2, Calm

LEMMA CleanupInv ==
    ASSUME IInv, NEW i \in Ids, Cleanup(i)
    PROVE  IInv'
<1>1. /\ rows' = [rows EXCEPT ![i] = NULL]
      /\ task' = [k \in Slots |-> IF task[k] # NULL /\ task[k].id = i
                                  THEN [task[k] EXCEPT !.id = NULL] ELSE task[k]]
      /\ excess' = [s \in Servers |-> excess[s] \ {i}]
      /\ UNCHANGED <<configs, cache, polled, faults, edits>>
      /\ cleanups' \in 0 .. MaxCleanups
  BY Constants DEF Cleanup, Remove, IInv, Types
<1>2. \A t \in Task : [t EXCEPT !.id = NULL] \in Task
  BY DEF Task
<1>3. Types'
  BY <1>1, <1>2 DEF IInv, Types
<1> QED
  BY <1>1, <1>3, RemoveInv DEF IInv, Types

LEMMA DeleteInv ==
    ASSUME IInv, NEW k \in Slots, Delete(k)
    PROVE  IInv'
<1> SUFFICES ASSUME NEW i, i = task[k].id
             PROVE  IInv'
  OBVIOUS
<1>1. /\ i \in Ids \cup {NULL}
      /\ rows' = IF i = NULL THEN rows ELSE [rows EXCEPT ![i] = NULL]
      /\ task' = [j \in Slots |->
                    IF j = k THEN NULL
                    ELSE IF task[j] # NULL /\ task[j].id = i
                    THEN [task[j] EXCEPT !.id = NULL] ELSE task[j]]
      /\ excess' = [s \in Servers |-> excess[s] \ {i}]
      /\ UNCHANGED <<configs, cache, polled, faults, edits, cleanups>>
  BY DEF Delete, At, bounds, IInv, Types, Task
<1>2. \A t \in Task : [t EXCEPT !.id = NULL] \in Task
  BY DEF Task
<1>3. Types'
  BY <1>1, <1>2 DEF IInv, Types
<1> QED
  BY <1>1, <1>3, RemoveInv DEF IInv, Types

(* A task ends, and writes its row, if there is one, just before.          *)
LEMMA EndInv ==
    ASSUME IInv, NEW k \in Slots, task[k] # NULL, End(k), NEW row,
           Update(k, row), task[k].id # NULL => row \in Row,
           UNCHANGED <<configs, cache, excess, polled, edits, cleanups>>,
           faults' \in 0 .. MaxFaults
    PROVE  IInv'
<1> SUFFICES ASSUME NEW i, i = task[k].id
             PROVE  IInv'
  OBVIOUS
<1>1. i \in Ids \cup {NULL} /\ rows' = IF i = NULL THEN rows ELSE [rows EXCEPT ![i] = row]
  BY DEF IInv, Types, Task, Update
<1>2. task' = [task EXCEPT ![k] = NULL]
  BY DEF End
<1>3. Types'
  BY <1>1, <1>2 DEF IInv, Types
<1>4. \A g \in Ids : Keeps(g) \/ (g = i /\ i \notin Slow)
  BY <1>1, Constants DEF Keeps, IInv, Types
<1>5. ASSUME NEW j \in Slots
      PROVE  GoesOn(j)
  <2>1. task'[j] = (IF j = k THEN NULL ELSE task[j]) /\ (task[j] # NULL => task[j] \in Task)
    BY <1>2 DEF IInv, Types
  <2>2. j # k /\ task[j] # NULL /\ task[j].id # NULL => Keeps(task[j].id)
    BY <1>1, <1>4, <2>1 DEF IInv, OneTask, Task
  <2> QED
    BY <2>1, <2>2 DEF GoesOn
<1>6. \A s \in Servers : \A g \in excess'[s] : Keeps(g)
  BY <1>1, <1>4 DEF IInv, Types, Aside
<1> QED
  BY <1>3, <1>5, <1>6, Calm

(* The wait after a failure is the adapter's, and never too far overdue.   *)
LEMMA RetryWait ==
    ASSUME NEW t \in Task
    PROVE  LET retries == Lesser(t.retries + 1, MaxRetries)
           IN /\ retries \in 0 .. MaxRetries
              /\ Greater(NextRetryDelay(retries) - t.since, -MaxOverdue) \in Waits
              /\ Greater(NextRetryDelay(retries) - t.since, -MaxOverdue)
                   = Store!Due(retries, t.since)
<1>1. t.retries \in 0 .. MaxRetries /\ t.since \in 0 .. Stale + 1
  BY DEF Task, Ages
<1>2. Lesser(t.retries + 1, MaxRetries) \in 0 .. MaxRetries
  BY <1>1, Constants DEF Lesser
<1>3. \A n \in 0 .. MaxRetries : RetryDelay[n] \in Nat
  BY Constants
<1>4. \A d \in Nat : Greater(d - t.since, -MaxOverdue) \in Waits
  BY <1>1, Constants DEF Greater, Waits
<1>5. \A n \in 0 .. MaxRetries :
        Greater(NextRetryDelay(n) - t.since, -MaxOverdue) = Store!Due(n, t.since)
  BY <1>1, <1>3, Constants DEF NextRetryDelay, Greater, Store!Due
<1> QED
  BY <1>2, <1>3, <1>4, <1>5 DEF NextRetryDelay

LEMMA OutcomeInv ==
    ASSUME IInv, NEW k \in Slots,
           RecordSuccess(k) \/ RecordFailure(k) \/ Park(k) \/ StatementFails(k)
    PROVE  IInv'
<1>1. /\ task[k] # NULL /\ task[k] \in Task /\ End(k) /\ faults' \in 0 .. MaxFaults
      /\ UNCHANGED <<configs, cache, excess, polled, edits, cleanups>>
  BY Constants DEF RecordSuccess, RecordFailure, Park, StatementFails, At, bounds, IInv, Types
<1>2. task[k].id # NULL => task[k].id \in Ids /\ rows[task[k].id] \in Row
  BY <1>1 DEF IInv, Types, Tasks, Sound, Task
<1>3. CASE RecordSuccess(k)
  <2> DEFINE row == [rows[task[k].id] EXCEPT !.done = TRUE, !.url = TRUE]
  <2>1. Update(k, row) /\ (task[k].id # NULL => row \in Row)
    BY <1>2, <1>3 DEF RecordSuccess, Row
  <2> HIDE DEF row
  <2> QED
    BY <1>1, <2>1, EndInv
<1>4. CASE RecordFailure(k)
  <2> DEFINE retries == Lesser(task[k].retries + 1, MaxRetries)
             wait == Greater(NextRetryDelay(retries) - task[k].since, -MaxOverdue)
             row == [rows[task[k].id] EXCEPT !.url = TRUE, !.claim = NULL,
                                             !.retries = retries, !.wait = wait]
  <2>1. retries \in 0 .. MaxRetries /\ wait \in Waits
    BY <1>1, RetryWait
  <2>2. Update(k, row)
    BY <1>4 DEF RecordFailure
  <2> HIDE DEF retries, wait
  <2>3. task[k].id # NULL => row \in Row
    BY <1>2, <2>1 DEF Row
  <2> HIDE DEF row
  <2> QED
    BY <1>1, <2>2, <2>3, EndInv
<1>5. CASE Park(k)
  <2> DEFINE row == [rows[task[k].id] EXCEPT !.wait = Never, !.claim = NULL]
  <2>1. Update(k, row) /\ (task[k].id # NULL => row \in Row)
    BY <1>2, <1>5 DEF Park, Row
  <2> HIDE DEF row
  <2> QED
    BY <1>1, <2>1, EndInv
<1>6. CASE StatementFails(k)
  <2> DEFINE row == rows[task[k].id]
  <2>1. Update(k, row) /\ (task[k].id # NULL => row \in Row)
    BY <1>2, <1>6 DEF StatementFails, Update, IInv, Types
  <2> HIDE DEF row
  <2> QED
    BY <1>1, <2>1, EndInv
<1> QED
  BY <1>3, <1>4, <1>5, <1>6

LEMMA MoveInv ==
    ASSUME IInv, NEW k \in Slots, ReadConfig(k) \/ SendWebhook(k)
    PROVE  IInv'
<1>1. task[k] # NULL /\ task[k] \in Task /\ task \in [Slots -> Task \cup {NULL}]
  BY DEF ReadConfig, SendWebhook, At, IInv, Types
<1>2. UNCHANGED <<rows, configs, cache, excess, polled, faults, edits, cleanups>>
  BY DEF ReadConfig, SendWebhook, bounds
<1>3. PICK pc \in {"send", "park", "delete", "ok", "failed"}, since \in Ages :
        task' = [task EXCEPT ![k] = [task[k] EXCEPT !.pc = pc, !.since = since]]
  <2>1. 0 \in Ages /\ task[k].since \in Ages
    BY <1>1, Constants DEF Ages, Task
  <2>2. CASE ReadConfig(k)
    BY <1>1, <2>1, <2>2 DEF ReadConfig, Goto
  <2>3. CASE SendWebhook(k) /\ Goto(k, "ok")
    BY <1>1, <2>1, <2>3 DEF Goto
  <2>4. CASE SendWebhook(k) /\ ~Goto(k, "ok")
    <3>1. task' = [task EXCEPT ![k].pc = "failed"]
      BY <2>4 DEF SendWebhook
    <3>2. [task[k] EXCEPT !.pc = "failed", !.since = task[k].since]
            = [task[k] EXCEPT !.pc = "failed"]
      BY <1>1 DEF Task
    <3> QED
      BY <1>1, <2>1, <3>1, <3>2
  <2> QED
    BY <2>2, <2>3, <2>4
<1> DEFINE t == [task[k] EXCEPT !.pc = pc, !.since = since]
<1>4. t \in Task /\ t.id = task[k].id /\ t.age = task[k].age
  BY <1>1 DEF Task
<1>5. task' = [task EXCEPT ![k] = t]
  BY <1>3
<1> HIDE DEF t
<1>6. Types'
  BY <1>1, <1>2, <1>4, <1>5 DEF IInv, Types
<1>7. \A j \in Slots : GoesOn(j)
  BY <1>1, <1>2, <1>4, <1>5 DEF GoesOn, Keeps
<1> QED
  BY <1>2, <1>6, <1>7, Calm DEF Keeps

(***************************************************************************)
(* Claiming.                                                               *)
(***************************************************************************)

(* The task of a delivery that was claimed, and the permit it gets.        *)
NewTask(i) == [id |-> i, url |-> rows[i].url, retries |-> rows[i].retries,
               pc |-> "config", since |-> 0, age |-> 0]
Full(s, i) == FreePermits(s, DomainOf[i]) = {}
SlotOf(s, i) == <<s, DomainOf[i], CHOOSE n \in FreePermits(s, DomainOf[i]) : TRUE>>

(* A server that takes the rows picked: each new task has the row it was   *)
(* taken from, its slot follows from the row, and what has a slot is not   *)
(* put aside.                                                              *)
LEMMA TakeFacts ==
    ASSUME IInv, NEW s \in Servers, Take(s)
    PROVE  \E picked \in Picks :
             /\ rows' = [i \in Ids |-> IF i \in picked
                                       THEN [rows[i] EXCEPT !.claim = 0] ELSE rows[i]]
             /\ excess' = [excess EXCEPT ![s] = {i \in picked : Full(s, i)}]
             /\ task' = [k \in Slots |-> task'[k]]
             /\ \A k \in Slots :
                  \/ task'[k] = task[k]
                  \/ \E i \in picked :
                       task'[k] = NewTask(i) /\ ~Full(s, i) /\ k = SlotOf(s, i)
<1> DEFINE gets(i, k) ==
             /\ k[1] = s /\ k[2] = DomainOf[i]
             /\ FreePermits(s, k[2]) # {}
             /\ k[3] = CHOOSE n \in FreePermits(s, k[2]) : TRUE
<1>1. PICK picked \in Picks :
        /\ rows' = [i \in Ids |-> IF i \in picked
                                  THEN [rows[i] EXCEPT !.claim = 0] ELSE rows[i]]
        /\ task' = [k \in Slots |->
                      IF \E i \in picked : gets(i, k)
                      THEN NewTask(CHOOSE i \in picked : gets(i, k)) ELSE task[k]]
        /\ excess' = [excess EXCEPT ![s] =
                        {i \in picked : Full(s, i)}]
  BY DEF Take, NewTask, Full
<1>2. ASSUME NEW k \in Slots, NEW i \in picked, gets(i, k)
      PROVE  ~Full(s, i) /\ k = SlotOf(s, i)
  <2>1. k = <<k[1], k[2], k[3]>>
    BY DEF Slots
  <2> QED
    BY <1>2, <2>1 DEF Full, SlotOf
<1>3. ASSUME NEW k \in Slots, \E i \in picked : gets(i, k)
      PROVE  \E i \in picked : gets(i, k) /\ task'[k] = NewTask(i)
  <2> DEFINE c == CHOOSE i \in picked : gets(i, k)
  <2>1. c \in picked /\ gets(c, k)
    BY <1>3
  <2>2. task'[k] = NewTask(c)
    BY <1>1, <1>3
  <2> QED
    BY <2>1, <2>2
<1>4. ASSUME NEW k \in Slots, ~\E i \in picked : gets(i, k)
      PROVE  task'[k] = task[k]
  BY <1>1, <1>4
<1>5. \A k \in Slots :
         \/ task'[k] = task[k]
         \/ \E i \in picked :
              task'[k] = NewTask(i) /\ ~Full(s, i) /\ k = SlotOf(s, i)
  <2> TAKE k \in Slots
  <2>1. CASE \E i \in picked : gets(i, k)
    <3>1. PICK i \in picked : gets(i, k) /\ task'[k] = NewTask(i)
      BY <1>3, <2>1
    <3>2. ~Full(s, i) /\ k = SlotOf(s, i)
      BY <1>2, <3>1
    <3> QED
      BY <3>1, <3>2
  <2> QED
    BY <1>4, <2>1
<1>6. task' = [k \in Slots |-> task'[k]]
  BY <1>1
<1> QED
  BY <1>1, <1>5, <1>6

LEMMA TakeInv ==
    ASSUME IInv, NEW s \in Servers, Take(s)
    PROVE  IInv'
<1>1. PICK picked \in Picks :
        /\ rows' = [i \in Ids |-> IF i \in picked
                                  THEN [rows[i] EXCEPT !.claim = 0] ELSE rows[i]]
        /\ excess' = [excess EXCEPT ![s] = {i \in picked : Full(s, i)}]
        /\ task' = [k \in Slots |-> task'[k]]
        /\ \A k \in Slots :
             \/ task'[k] = task[k]
             \/ \E i \in picked : task'[k] = NewTask(i) /\ ~Full(s, i) /\ k = SlotOf(s, i)
  BY TakeFacts
<1>2. /\ UNCHANGED <<configs, cache, faults, edits, cleanups>> /\ excess[s] = {}
      /\ polled' = polled \cup {s}
  BY DEF Take, bounds
<1>3. /\ rows \in [Ids -> Row \cup {NULL}] /\ task \in [Slots -> Task \cup {NULL}]
      /\ excess \in [Servers -> SUBSET Ids]
  BY DEF IInv, Types
<1>4. picked \subseteq Ids /\ \A i \in picked : Takeable(i)
  BY DEF Picks
<1>5. \A i \in picked : /\ rows[i] \in Row /\ ~rows[i].done /\ rows[i].wait # Never
                        /\ rows[i].claim = NULL \/ rows[i].claim > Stale
  BY <1>3, <1>4 DEF Takeable
<1>6. \A i \in picked : /\ rows'[i] \in Row /\ rows'[i].claim = 0
                        /\ ~rows'[i].done /\ rows'[i].wait # Never
  <2> TAKE i \in picked
  <2>1. rows'[i] = [rows[i] EXCEPT !.claim = 0]
    BY <1>1, <1>4
  <2>2. 0 \in Ages
    BY Constants DEF Ages
  <2> QED
    BY <1>5, <2>1, <2>2 DEF Row
<1>7. \A i \in Ids \ picked : rows'[i] = rows[i]
  BY <1>1
<1>8. \A i \in picked : /\ NewTask(i) \in Task /\ NewTask(i) # NULL /\ NewTask(i).id = i
                        /\ NewTask(i).age = 0
  <2> TAKE i \in picked
  <2>1. 0 \in Ages
    BY Constants DEF Ages
  <2>2. NewTask(i) \in Task
    BY <1>4, <1>5, <2>1 DEF Row, Task, NewTask
  <2> QED
    BY <2>2, Constants DEF NewTask
<1>9. \A i \in picked \ Slow :
        /\ \A k \in Slots : task[k] # NULL => task[k].id # i
        /\ \A t \in Servers : i \notin excess[t]
  <2> SUFFICES ASSUME NEW i \in picked \ Slow
               PROVE  /\ \A k \in Slots : task[k] # NULL => task[k].id # i
                      /\ \A t \in Servers : i \notin excess[t]
    OBVIOUS
  <2>1. i \in Ids /\ (rows[i].claim = NULL \/ rows[i].claim > Stale)
    BY <1>4, <1>5
  <2>2. ASSUME NEW k \in Slots, task[k] # NULL, task[k].id = i
        PROVE  FALSE
    <3>1. task[k].age \in 0 .. Stale + 1 /\ Sound(k)
      BY <1>3, <2>2 DEF Task, Ages, IInv, Tasks
    <3> QED
      BY <2>1, <2>2, <3>1, Constants DEF Sound
  <2>3. ASSUME NEW t \in Servers, i \in excess[t]
        PROVE  FALSE
    BY <2>1, <2>3, Constants DEF IInv, Aside
  <2> QED
    BY <2>2, <2>3
<1>10. Types'
  <2>1. rows' \in [Ids -> Row \cup {NULL}]
    <3>1. \A i \in Ids : rows'[i] \in Row \cup {NULL}
      BY <1>3, <1>6, <1>7
    <3> QED
      BY <1>1, <3>1
  <2>2. task' \in [Slots -> Task \cup {NULL}]
    <3>1. \A k \in Slots : task'[k] \in Task \cup {NULL}
      BY <1>1, <1>3, <1>8
    <3> QED
      BY <1>1, <3>1
  <2>3. excess' \in [Servers -> SUBSET Ids]
    BY <1>1, <1>3, <1>4
  <2> QED
    BY <1>2, <2>1, <2>2, <2>3 DEF IInv, Types
<1>11. ASSUME NEW k \in Slots
       PROVE  Sound(k)'
  <2>1. CASE task'[k] = task[k]
    <3> SUFFICES ASSUME task[k] # NULL, task[k].id # NULL
                 PROVE  Sound(k)'
      BY <2>1 DEF Sound
    <3>1. task[k].id \in Ids /\ Sound(k)
      BY <1>3 DEF Task, IInv, Tasks
    <3>2. CASE task[k].id \in picked
      BY <1>6, <1>9, <2>1, <3>1, <3>2, Constants DEF Sound
    <3>3. CASE task[k].id \notin picked
      BY <1>7, <2>1, <3>1, <3>3 DEF Sound
    <3> QED
      BY <3>2, <3>3
  <2>2. CASE \E i \in picked : task'[k] = NewTask(i)
    BY <1>6, <1>8, <2>2, Constants DEF Sound
  <2> QED
    BY <1>1, <2>1, <2>2
<1>12. OneTask'
  <2> SUFFICES ASSUME NEW i \in Ids \ Slow, NEW j \in Slots, NEW k \in Slots,
                      task'[j] # NULL, task'[k] # NULL, task'[j].id = i, task'[k].id = i
               PROVE  j = k
    BY DEF OneTask
  <2>1. CASE i \in picked
    BY <1>1, <1>8, <1>9, <2>1
  <2>2. CASE i \notin picked
    BY <1>1, <1>8, <2>2 DEF IInv, OneTask
  <2> QED
    BY <2>1, <2>2
<1>13. Aside'
  <2> SUFFICES ASSUME NEW t \in Servers, NEW i \in excess'[t]
               PROVE  /\ rows'[i] # NULL
                      /\ i \notin Slow =>
                           /\ rows'[i].claim = 0
                           /\ \A k \in Slots : task'[k] # NULL => task'[k].id # i
                           /\ \A u \in Servers : i \in excess'[u] => u = t
    BY DEF Aside
  <2>1. \A u \in Servers : excess'[u] = IF u = s THEN {g \in picked : Full(s, g)} ELSE excess[u]
    BY <1>1, <1>3
  <2>2. CASE t = s
    <3>1. i \in picked /\ Full(s, i) /\ rows'[i] # NULL /\ rows'[i].claim = 0
      BY <1>6, <2>1, <2>2, Constants
    <3>2. i \notin Slow => \A k \in Slots : task'[k] # NULL => task'[k].id # i
      BY <1>1, <1>8, <1>9, <3>1
    <3>3. i \notin Slow => \A u \in Servers : i \in excess'[u] => u = t
      BY <1>9, <2>1, <2>2, <3>1
    <3> QED
      BY <3>1, <3>2, <3>3
  <2>3. CASE t # s
    <3>1. i \in excess[t] /\ i \in Ids
      BY <1>3, <2>1, <2>3
    <3>2. i \in picked => i \in Slow
      BY <1>9, <3>1
    <3>3. rows'[i] # NULL
      BY <1>6, <1>7, <3>1, Constants DEF IInv, Aside
    <3>4. ASSUME i \notin Slow
          PROVE  /\ rows'[i].claim = 0
                 /\ \A k \in Slots : task'[k] # NULL => task'[k].id # i
                 /\ \A u \in Servers : i \in excess'[u] => u = t
      BY <1>1, <1>7, <1>8, <2>1, <3>1, <3>2, <3>4 DEF IInv, Aside
    <3> QED
      BY <3>3, <3>4
  <2> QED
    BY <2>2, <2>3
<1> QED
  BY <1>10, <1>11, <1>12, <1>13 DEF IInv, Tasks

(***************************************************************************)
(* Time.                                                                   *)
(***************************************************************************)
LEMMA TickInv ==
    ASSUME IInv, Tick
    PROVE  IInv'
<1>1. /\ rows \in [Ids -> Row \cup {NULL}] /\ task \in [Slots -> Task \cup {NULL}]
      /\ UNCHANGED <<configs, cache, excess, faults, edits, cleanups>> /\ polled' = {}
  BY DEF IInv, Types, Tick, bounds
<1>2. ASSUME NEW i \in Ids
      PROVE  /\ rows[i] = NULL => rows'[i] = NULL
             /\ rows[i] # NULL =>
                  /\ rows'[i] \in Row
                  /\ rows'[i].done = rows[i].done
                  /\ rows[i].wait # Never => rows'[i].wait # Never
                  /\ rows[i].claim # NULL => rows'[i].claim = Lesser(rows[i].claim + 1, Stale + 1)
  <2>1. CASE rows[i] # NULL
    <3> DEFINE wait == IF rows[i].wait = Never THEN Never
                       ELSE Greater(rows[i].wait - 1, -MaxOverdue)
               claim == IF rows[i].claim = NULL THEN NULL
                        ELSE Lesser(rows[i].claim + 1, Stale + 1)
    <3>1. rows[i] \in Row
      BY <1>1, <2>1
    <3>2. rows'[i] = [rows[i] EXCEPT !.wait = wait, !.claim = claim]
      BY <2>1, <3>1 DEF Tick, Row
    <3>3. wait \in Waits \cup {Never} /\ (rows[i].wait # Never => wait # Never)
      BY <3>1, Constants DEF Row, Waits, Greater
    <3>4. claim \in Ages \cup {NULL}
      BY <3>1, Constants DEF Row, Ages, Lesser
    <3>5. rows[i].claim # NULL => claim = Lesser(rows[i].claim + 1, Stale + 1)
      OBVIOUS
    <3> HIDE DEF wait, claim
    <3> QED
      BY <2>1, <3>1, <3>2, <3>3, <3>4, <3>5 DEF Row
  <2> QED
    BY <2>1 DEF Tick
<1>3. ASSUME NEW k \in Slots
      PROVE  /\ task[k] = NULL => task'[k] = NULL
             /\ task[k] # NULL =>
                  /\ task'[k] \in Task /\ task'[k].id = task[k].id
                  /\ task[k].id \notin Slow =>
                       task[k].age < Stale /\ task'[k].age = task[k].age + 1
  <2>1. CASE task[k] # NULL
    <3> DEFINE age == IF task[k].id \in Slow THEN 0 ELSE Lesser(task[k].age + 1, Stale + 1)
               since == IF task[k].pc \in {"send", "failed"}
                        THEN Lesser(task[k].since + 1, Stale + 1) ELSE 0
    <3>1. task[k] \in Task
      BY <1>1, <2>1
    <3>2. task'[k] = [task[k] EXCEPT !.age = age, !.since = since]
      BY <2>1, <3>1 DEF Tick, Task
    <3>3. age \in Ages /\ since \in Ages
      BY <3>1, Constants DEF Task, Ages, Lesser
    <3>4. task[k].id \notin Slow => task[k].age < Stale /\ age = task[k].age + 1
      <4>1. task[k].id \notin Slow => task[k].age < Stale
        BY <2>1 DEF Tick, InTime
      <4>2. task[k].age \in Nat
        BY <3>1, Constants DEF Task, Ages
      <4> QED
        BY <4>1, <4>2, Constants DEF Lesser
    <3> HIDE DEF age, since
    <3> QED
      BY <2>1, <3>1, <3>2, <3>3, <3>4 DEF Task
  <2> QED
    BY <2>1 DEF Tick
<1>4. Types'
  <2>1. rows' \in [Ids -> Row \cup {NULL}]
    <3>1. rows' = [i \in Ids |-> rows'[i]]
      BY DEF Tick
    <3>2. \A i \in Ids : rows'[i] \in Row \cup {NULL}
      BY <1>2
    <3> QED
      BY <3>1, <3>2
  <2>2. task' \in [Slots -> Task \cup {NULL}]
    <3>1. task' = [k \in Slots |-> task'[k]]
      BY DEF Tick
    <3>2. \A k \in Slots : task'[k] \in Task \cup {NULL}
      BY <1>3
    <3> QED
      BY <3>1, <3>2
  <2> QED
    BY <1>1, <2>1, <2>2 DEF IInv, Types
<1>5. ASSUME NEW k \in Slots
      PROVE  Sound(k)'
  <2> SUFFICES ASSUME NEW i, task'[k] # NULL, task'[k].id = i, i # NULL
               PROVE  /\ rows'[i] # NULL
                      /\ i \notin Slow =>
                           /\ rows'[i].claim = task'[k].age /\ task'[k].age <= Stale
                           /\ ~rows'[i].done /\ rows'[i].wait # Never
    BY DEF Sound
  <2>1. task[k] # NULL /\ task[k] \in Task /\ task[k].id = i /\ i \in Ids /\ Sound(k)
    BY <1>1, <1>3 DEF Task, IInv, Tasks
  <2>2. rows[i] # NULL /\ rows'[i] # NULL
    BY <1>2, <2>1, Constants DEF Sound
  <2>3. ASSUME i \notin Slow
        PROVE  /\ rows'[i].claim = task'[k].age /\ task'[k].age <= Stale
               /\ ~rows'[i].done /\ rows'[i].wait # Never
    <3>1. /\ rows[i].claim = task[k].age /\ ~rows[i].done /\ rows[i].wait # Never
          /\ task[k].age \in Nat /\ task[k].age < Stale /\ task'[k].age = task[k].age + 1
      BY <1>3, <2>1, <2>3 DEF Sound, Task, Ages
    <3>2. rows'[i].claim = Lesser(rows[i].claim + 1, Stale + 1)
      BY <1>2, <2>1, <2>2, <3>1, Constants
    <3> QED
      BY <1>2, <2>1, <2>2, <3>1, <3>2, Constants DEF Lesser
  <2> QED
    BY <2>2, <2>3
<1>6. OneTask'
  BY <1>3 DEF IInv, OneTask
<1>7. Aside'
  <2>1. \A s \in Servers : excess[s] \subseteq Slow /\ excess'[s] = excess[s]
    BY <1>1 DEF Tick, InTime
  <2> QED
    BY <1>2, <2>1, Constants DEF IInv, Aside
<1> QED
  BY <1>4, <1>5, <1>6, <1>7 DEF IInv, Tasks

LEMMA Initially == Init => IInv
  BY Constants DEF Init, IInv, Types, Tasks, Sound, OneTask, Aside

LEMMA Inductive == IInv /\ [Next]_vars => IInv'
<1> SUFFICES ASSUME IInv, [Next]_vars
             PROVE  IInv'
  OBVIOUS
<1>1. ASSUME NEW i \in Ids, Insert(i) \/ Cleanup(i)
      PROVE  IInv'
  BY <1>1, SimpleSteps, CleanupInv
<1>2. ASSUME NEW s \in Servers, Refresh(s) \/ Poll(s) \/ UnclaimFails(s) \/ Crash(s)
      PROVE  IInv'
  BY <1>2, SimpleSteps, TakeInv, UnclaimInv DEF Poll
<1>3. ASSUME NEW k \in Slots, TaskStep(k) \/ StatementFails(k)
      PROVE  IInv'
  BY <1>3, MoveInv, OutcomeInv, DeleteInv DEF TaskStep
<1> QED
  BY <1>1, <1>2, <1>3, SimpleSteps, TickInv DEF Next

LEMMA Invariance == Spec => []IInv
  BY Initially, Inductive, PTL DEF Spec

(* Rows, tasks and configuration keep their types, and a server puts aside *)
(* only deliveries that have a row.                                        *)
THEOREM TypesKept == Spec => []TypeOK
<1>1. IInv => TypeOK
  BY DEF IInv, Types, Aside, TypeOK
<1> QED
  BY <1>1, Invariance, PTL

(* take_pending_webhook_deliveries hands a delivery to one task at a time, *)
(* across servers, crashes and failed statements, as long as the task ends *)
(* before its claim is stale.                                              *)
THEOREM NoDeliveryTwice == Spec => []OneTask
<1>1. IInv => OneTask
  BY DEF IInv
<1> QED
  BY <1>1, Invariance, PTL

(* The row of a delivery that is being posted is not recorded as delivered *)
(* by anyone: what succeeded is not sent again.                            *)
THEOREM NoDeliveryAgain == Spec => []NotSentAgain
<1>1. IInv => NotSentAgain
  BY Constants DEF IInv, Tasks, Sound, At, NotSentAgain
<1> QED
  BY <1>1, Invariance, PTL

(***************************************************************************)
(* The refinement of the adapter's contract.                               *)
(***************************************************************************)

LEMMA FailedRow ==
    ASSUME NEW r \in Row, NEW retries \in 0 .. MaxRetries, NEW wait \in Waits
    PROVE  [r EXCEPT !.url = TRUE, !.claim = NULL, !.retries = retries, !.wait = wait]
             = [url |-> TRUE, wait |-> wait, claim |-> NULL, done |-> r.done,
                retries |-> retries]
<1>1. [r EXCEPT !.url = TRUE, !.claim = NULL, !.retries = retries, !.wait = wait] \in Row
  BY DEF Row
<1>2. r.done \in BOOLEAN
  BY DEF Row
<1>3. [url |-> TRUE, wait |-> wait, claim |-> NULL, done |-> r.done, retries |-> retries] \in Row
  BY <1>2 DEF Row
<1>4. \A f, g \in Row :
        f.url = g.url /\ f.wait = g.wait /\ f.claim = g.claim /\ f.done = g.done
        /\ f.retries = g.retries => f = g
  BY DEF Row
<1> QED
  BY <1>1, <1>3, <1>4 DEF Row

(* What a task writes at its end is one of the adapter's updates of its    *)
(* row, which nobody else works on unless it is slow.                      *)
LEMMA StoreOutcome ==
    ASSUME IInv, NEW k \in Slots, TaskStep(k) \/ StatementFails(k)
    PROVE  \/ UNCHANGED rows
           \/ \E i \in Ids :
                /\ task[k] # NULL /\ task[k].id = i
                /\ \/ Store!UpdateWebhookDeliverySuccess(i) \/ Store!ParkWebhookDelivery(i)
                   \/ Store!DeleteWebhookDelivery(i)
                   \/ \E retries \in 0 .. MaxRetries, since \in 0 .. Stale + 1 :
                         Store!UpdateWebhookDeliveryFailure(i, retries, Store!Due(retries, since))
<1>1. CASE ReadConfig(k) \/ SendWebhook(k) \/ StatementFails(k)
  BY <1>1 DEF ReadConfig, SendWebhook, StatementFails
<1>2. CASE RecordSuccess(k) \/ RecordFailure(k) \/ Park(k) \/ Delete(k)
  <2>1. task[k] # NULL /\ task[k] \in Task /\ rows \in [Ids -> Row \cup {NULL}]
    BY <1>2 DEF RecordSuccess, RecordFailure, Park, Delete, At, IInv, Types
  <2>2. CASE task[k].id = NULL
    BY <1>2, <2>2 DEF RecordSuccess, RecordFailure, Park, Delete, Update
  <2>3. CASE task[k].id # NULL
    <3>1. PICK i \in Ids : i = task[k].id /\ rows[i] # NULL /\ rows[i] \in Row
      BY <2>1, <2>3 DEF Task, IInv, Tasks, Sound
    <3>2. CASE RecordSuccess(k)
      BY <2>1, <2>3, <3>1, <3>2 DEF RecordSuccess, Update, Store!UpdateWebhookDeliverySuccess
    <3>3. CASE Park(k)
      BY <2>1, <2>3, <3>1, <3>3 DEF Park, Update, Store!ParkWebhookDelivery
    <3>4. CASE Delete(k)
      BY <2>1, <2>3, <3>1, <3>4 DEF Delete, Store!DeleteWebhookDelivery
    <3>5. CASE RecordFailure(k)
      <4> DEFINE retries == Lesser(task[k].retries + 1, MaxRetries)
                 wait == Greater(NextRetryDelay(retries) - task[k].since, -MaxOverdue)
      <4>1. /\ retries \in 0 .. MaxRetries /\ wait \in Waits
            /\ wait = Store!Due(retries, task[k].since) /\ task[k].since \in 0 .. Stale + 1
        BY <2>1, RetryWait DEF Task, Ages
      <4>2. rows' = [rows EXCEPT ![i] = [rows[i] EXCEPT !.url = TRUE, !.claim = NULL,
                                                        !.retries = retries, !.wait = wait]]
        BY <2>3, <3>1, <3>5 DEF RecordFailure, Update
      <4> HIDE DEF retries, wait
      <4>3. [rows[i] EXCEPT !.url = TRUE, !.claim = NULL, !.retries = retries, !.wait = wait]
              = [url |-> TRUE, wait |-> wait, claim |-> NULL, done |-> rows[i].done,
                 retries |-> retries]
        BY <3>1, <4>1, FailedRow
      <4>4. Store!UpdateWebhookDeliveryFailure(i, retries, wait)
        BY <3>1, <4>2, <4>3 DEF Store!UpdateWebhookDeliveryFailure
      <4> QED
        BY <2>1, <3>1, <4>1, <4>4
    <3> QED
      BY <1>2, <3>2, <3>3, <3>4, <3>5
  <2> QED
    BY <2>2, <2>3
<1> QED
  BY <1>1, <1>2 DEF TaskStep

(* Of each domain the first due row is claimed, and no other.              *)
LEMMA StoreTake ==
    ASSUME IInv, NEW s \in Servers, Take(s)
    PROVE  \E ids \in SUBSET Ids : Store!TakePendingWebhookDeliveries(ids)
<1>1. PICK picked \in Picks :
        rows' = [i \in Ids |-> IF i \in picked THEN [rows[i] EXCEPT !.claim = 0] ELSE rows[i]]
  BY TakeFacts
<1>2. /\ picked \subseteq Ids /\ \A i \in picked : Takeable(i)
      /\ \A i, j \in picked : DomainOf[i] = DomainOf[j] => i = j
      /\ \A i \in Ids : Takeable(i) =>
           \E j \in picked : DomainOf[j] = DomainOf[i] /\ rows[j].wait <= rows[i].wait
  BY DEF Picks
<1>3. \A i \in Ids : Store!Pending(i) <=> Takeable(i)
  BY DEF Store!Pending, Takeable
<1>4. \A i \in picked : Store!First(i)
  BY <1>2, <1>3 DEF Store!First
<1> QED
  BY <1>1, <1>2, <1>4 DEF Store!TakePendingWebhookDeliveries

LEMMA StoreTick ==
    ASSUME IInv, Tick
    PROVE  Store!Tick
<1>1. ASSUME NEW i \in Ids, rows[i] # NULL
      PROVE  [rows[i] EXCEPT
                !.wait = IF @ = Never THEN Never ELSE Greater(@ - 1, -MaxOverdue),
                !.claim = IF @ = NULL THEN NULL ELSE Lesser(@ + 1, Stale + 1)]
              = [rows[i] EXCEPT
                   !.wait = IF @ = Never \/ @ = -MaxOverdue THEN @ ELSE @ - 1,
                   !.claim = IF @ = NULL \/ @ = Stale + 1 THEN @ ELSE @ + 1]
  <2>1. rows[i].wait \in {w \in Int : w >= -MaxOverdue} \cup {Never}
        /\ rows[i].claim \in (0 .. Stale + 1) \cup {NULL}
    BY <1>1 DEF IInv, Types, Row, Waits, Ages
  <2>2. (IF rows[i].wait = Never THEN Never ELSE Greater(rows[i].wait - 1, -MaxOverdue))
          = IF rows[i].wait = Never \/ rows[i].wait = -MaxOverdue
            THEN rows[i].wait ELSE rows[i].wait - 1
    BY <2>1, Constants DEF Greater
  <2>3. (IF rows[i].claim = NULL THEN NULL ELSE Lesser(rows[i].claim + 1, Stale + 1))
          = IF rows[i].claim = NULL \/ rows[i].claim = Stale + 1
            THEN rows[i].claim ELSE rows[i].claim + 1
    BY <2>1, Constants DEF Lesser
  <2> QED
    BY <2>2, <2>3
<1> QED
  BY <1>1 DEF Tick, Store!Tick

(* Every step of the queue is one of the adapter's, or none.               *)
LEMMA StoreStep ==
    ASSUME IInv, [Next]_vars
    PROVE  [Store!Next]_rows
<1>1. ASSUME NEW i \in Ids, Insert(i)
      PROVE  Store!InsertWebhookDeliveries({i})
  BY <1>1 DEF Insert, Store!InsertWebhookDeliveries, Store!New, IInv, Types
<1>2. ASSUME NEW i \in Ids, Cleanup(i)
      PROVE  Store!DeleteWebhookDelivery(i)
  BY <1>2 DEF Cleanup, Remove, Store!DeleteWebhookDelivery
<1>3. ASSUME NEW s \in Servers, Unclaim(s)
      PROVE  excess[s] \in SUBSET Ids /\ Store!UnclaimWebhookDeliveries(excess[s])
  <2>1. excess[s] \in SUBSET Ids /\ \A i \in excess[s] : rows[i] # NULL
    BY DEF IInv, Types, Aside
  <2> QED
    BY <1>3, <2>1 DEF Unclaim, Store!UnclaimWebhookDeliveries
<1>4. ASSUME \/ \E d \in Domains : EditConfig(d)
             \/ \E s \in Servers : Refresh(s) \/ UnclaimFails(s) \/ Crash(s)
             \/ UNCHANGED vars
      PROVE  UNCHANGED rows
  BY <1>4 DEF EditConfig, Refresh, UnclaimFails, Crash, vars
<1>5. ASSUME NEW i \in Ids, Insert(i) \/ Cleanup(i)
      PROVE  Store!Next
  <2>1. {i} \in SUBSET Ids
    OBVIOUS
  <2> QED
    BY <1>1, <1>2, <1>5, <2>1 DEF Store!Next
<1>6. ASSUME NEW s \in Servers, Poll(s)
      PROVE  Store!Next
  BY <1>3, <1>6, StoreTake DEF Poll, Store!Next
<1>7. ASSUME NEW k \in Slots, TaskStep(k) \/ StatementFails(k)
      PROVE  [Store!Next]_rows
  BY <1>7, StoreOutcome DEF Store!Next
<1>8. ASSUME Tick
      PROVE  Store!Next
  BY <1>8, StoreTick DEF Store!Next
<1> QED
  BY <1>4, <1>5, <1>6, <1>7, <1>8 DEF Next

(* A late statement may touch a delivered row, but never makes it pending. *)
LEMMA DoneStaysDone ==
    ASSUME IInv, Store!Next, NEW i \in Ids, rows[i] # NULL, rows[i].done, rows'[i] # NULL
    PROVE  rows'[i].done /\ (rows'[i].claim = 0 => rows[i].claim = 0)
<1>1. rows \in [Ids -> Row \cup {NULL}] /\ rows[i] \in Row
  BY DEF IInv, Types
<1>2. CASE Store!Tick
  <2>1. rows'[i] = [rows[i] EXCEPT
                      !.wait = IF @ = Never \/ @ = -MaxOverdue THEN @ ELSE @ - 1,
                      !.claim = IF @ = NULL \/ @ = Stale + 1 THEN @ ELSE @ + 1]
    BY <1>2 DEF Store!Tick
  <2>2. /\ rows'[i].done = rows[i].done
        /\ rows'[i].claim = IF rows[i].claim = NULL \/ rows[i].claim = Stale + 1
                            THEN rows[i].claim ELSE rows[i].claim + 1
    BY <1>1, <2>1 DEF Row
  <2>3. rows[i].claim \in (0 .. Stale + 1) \cup {NULL}
    BY <1>1 DEF Row, Ages
  <2> QED
    BY <2>2, <2>3, Constants
<1>3. ASSUME NEW g \in Ids,
             \/ Store!UpdateWebhookDeliverySuccess(g) \/ Store!ParkWebhookDelivery(g)
             \/ Store!DeleteWebhookDelivery(g)
             \/ \E retries \in 0 .. MaxRetries, since \in 0 .. Stale + 1 :
                   Store!UpdateWebhookDeliveryFailure(g, retries, Store!Due(retries, since))
      PROVE  rows'[i].done /\ (rows'[i].claim = 0 => rows[i].claim = 0)
  <2>1. CASE g # i
    BY <1>1, <1>3, <2>1
       DEF Store!UpdateWebhookDeliverySuccess, Store!ParkWebhookDelivery,
           Store!DeleteWebhookDelivery, Store!UpdateWebhookDeliveryFailure
  <2>2. CASE g = i /\ Store!UpdateWebhookDeliverySuccess(i)
    BY <1>1, <2>2 DEF Store!UpdateWebhookDeliverySuccess, Row
  <2>3. CASE g = i /\ Store!ParkWebhookDelivery(i)
    BY <1>1, <2>3, Constants DEF Store!ParkWebhookDelivery, Row
  <2>4. CASE g = i /\ \E retries \in 0 .. MaxRetries, since \in 0 .. Stale + 1 :
                         Store!UpdateWebhookDeliveryFailure(i, retries, Store!Due(retries, since))
    BY <1>1, <2>4, Constants DEF Store!UpdateWebhookDeliveryFailure, Row
  <2>5. CASE g = i /\ Store!DeleteWebhookDelivery(i)
    BY <1>1, <2>5 DEF Store!DeleteWebhookDelivery
  <2> QED
    BY <1>3, <2>1, <2>2, <2>3, <2>4, <2>5
<1>4. ASSUME NEW ids \in SUBSET Ids,
             \/ Store!InsertWebhookDeliveries(ids) \/ Store!TakePendingWebhookDeliveries(ids)
             \/ Store!DeleteWebhookDeliveriesOlderThan(ids)
      PROVE  rows'[i] = rows[i]
  BY <1>4 DEF Store!InsertWebhookDeliveries, Store!TakePendingWebhookDeliveries, Store!First,
              Store!Pending, Store!DeleteWebhookDeliveriesOlderThan
<1>5. ASSUME NEW ids \in SUBSET Ids, Store!UnclaimWebhookDeliveries(ids)
      PROVE  rows'[i].done /\ (rows'[i].claim = 0 => rows[i].claim = 0)
  BY <1>1, <1>5, Constants DEF Store!UnclaimWebhookDeliveries, Row
<1> QED
  BY <1>2, <1>3, <1>4, <1>5 DEF Store!Next

(* The servers use the table as the adapter's contract says: only the      *)
(* first due row of a domain is claimed, no outcome touches more than its  *)
(* own row, and a success is final whatever statement comes late.          *)
THEOREM QueueImplementsStore == Spec => ImplementsStore
<1>1. Init => Store!Init
  BY DEF Init, Store!Init
<1>2. IInv /\ [Next]_vars => [Store!Next]_rows
  BY StoreStep
<1>3. IInv /\ [Next]_vars =>
        [\A i \in Ids : rows[i] # NULL /\ rows[i].done /\ rows'[i] # NULL =>
           /\ rows'[i].done
           /\ rows'[i].claim = 0 => rows[i].claim = 0]_rows
  BY StoreStep, DoneStaysDone
<1> QED
  BY <1>1, <1>2, <1>3, Invariance, PTL
     DEF Spec, ImplementsStore, Store!Spec, Store!SuccessIsFinal
=============================================================================
