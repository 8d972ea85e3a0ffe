---------------------------- MODULE WorkerSpine ----------------------------
(***************************************************************************)
(* The event spine: transactions of the backend write audit_events, the    *)
(* single worker reads them behind its cursor, runs the handler of each    *)
(* event, parks a failed run in the dead-letter queue and retries it.      *)
(*                                                                         *)
(* An event's id is drawn from a sequence when its INSERT runs, and the    *)
(* event is visible when its transaction commits: ids may become visible   *)
(* out of order.  Every statement of a handler commits by itself, so the   *)
(* worker may stop between any two of them.                                *)
(***************************************************************************)
EXTENDS Naturals, FiniteSets

CONSTANTS
    Kinds,          \* event types
    Inserts,        \* notification INSERTs in the handler of each kind; 0: no handler
    Types,          \* Types[k][n]: the type the n-th INSERT of kind k writes
    Refs,           \* what notifications are about: a session, a payment, ...
    Mistyped,       \* kinds whose handler's statement no argument list can be bound to
    BatchSize,      \* settings.worker_batch_size
    MaxAttempts,    \* MAX_ATTEMPTS
    MaxEvents,      \* bound: audit_events ids
    MaxCrashes      \* bound: failed ticks and restarts of the worker

ASSUME InsertsAssumption == Inserts \in [Kinds -> Nat]
ASSUME MistypedAssumption == Mistyped \subseteq Kinds
ASSUME BoundsAssumption ==
    /\ BatchSize \in Nat \ {0}
    /\ MaxAttempts \in Nat \ {0}
    /\ MaxEvents \in Nat
    /\ MaxCrashes \in Nat

VARIABLES
    kind,       \* the event_type each id is written with
    ref,        \* what each id is about
    audit,      \* state of each id of audit_events
    cursor,     \* worker_cursors.last_event_id
    notified,   \* keys in notifications_dedup_idx
    dlq,        \* worker_dlq
    registry,   \* kinds with a handler in the running code
    worker,     \* the worker's tick: phase, rows read, handler progress
    crashes,    \* failed ticks so far
    overtaken   \* history: ids committed after a later id had been read

vars == <<kind, ref, audit, cursor, notified, dlq, registry, worker, crashes, overtaken>>

-----------------------------------------------------------------------------
Ids == 1 .. MaxEvents

\* A crash between parking an event and moving the cursor may park it again.
DlqIds == 1 .. (MaxEvents + MaxCrashes)

AuditStates == {"free", "open", "committed", "rolledBack"}
DlqStates == {"free", "waiting", "resolved", "gone"}

\* The INSERT statements of the event's handler.
Statements(id) == 1 .. Inserts[kind[id]]

\* The dedup key of a notification.  Events about the same subject whose
\* handlers write the same type share it.  The one handler whose key would
\* differ from run to run, claim_escalated (payment_id:day), is in Mistyped.
Key(id, n) == [type |-> Types[kind[id]][n], ref |-> ref[id]]

NoRow == [event |-> 0, attempts |-> 0, due |-> FALSE, state |-> "free"]

\* Between two ticks: no rows read, no handler running.
Resting == [phase |-> "idle", todo |-> {}, row |-> 0, ran |-> 0]

Committed == {id \in Ids : audit[id] = "committed"}

Init ==
    /\ kind \in [Ids -> Kinds]
    /\ ref \in [Ids -> Refs]
    /\ audit = [id \in Ids |-> "free"]
    /\ cursor = 0
    /\ notified = {}
    /\ dlq = [d \in DlqIds |-> NoRow]
    /\ registry = {k \in Kinds : Inserts[k] > 0}
    /\ worker = Resting
    /\ crashes = 0
    /\ overtaken = {}

-----------------------------------------------------------------------------
(* The transactions of the backend: emit is one INSERT among others.       *)

Emit(id) ==
    /\ audit[id] = "free"
    /\ \A j \in 1 .. id - 1 : audit[j] # "free"
    /\ audit' = [audit EXCEPT ![id] = "open"]
    /\ UNCHANGED <<kind, ref, cursor, notified, dlq, registry, worker, crashes, overtaken>>

\* Has the worker read an event with a larger id?
Overtakes(id) ==
    \/ id < cursor
    \/ worker.phase = "batch" /\ \E j \in worker.todo : id < j

CommitTransaction(id) ==
    /\ audit[id] = "open"
    /\ audit' = [audit EXCEPT ![id] = "committed"]
    /\ overtaken' = IF Overtakes(id) THEN overtaken \cup {id} ELSE overtaken
    /\ UNCHANGED <<kind, ref, cursor, notified, dlq, registry, worker, crashes>>

RollBack(id) ==
    /\ audit[id] = "open"
    /\ audit' = [audit EXCEPT ![id] = "rolledBack"]
    /\ UNCHANGED <<kind, ref, cursor, notified, dlq, registry, worker, crashes, overtaken>>

-----------------------------------------------------------------------------
(* _process_batch.                                                         *)

Unread == {id \in Committed : id > cursor}

\* WHERE id > cursor ORDER BY id LIMIT BatchSize
ReadBatch ==
    /\ worker.phase = "idle"
    /\ worker' = [Resting EXCEPT
           !.phase = "batch",
           !.todo = {id \in Unread : Cardinality({j \in Unread : j < id}) < BatchSize}]
    /\ UNCHANGED <<kind, ref, audit, cursor, notified, dlq, registry, crashes, overtaken>>

InBatch(id) ==
    /\ worker.phase = "batch"
    /\ id \in worker.todo
    /\ \A j \in worker.todo : id <= j

\* The handler of the event has a statement left to run.
Running(id) == kind[id] \in registry /\ worker.ran < Inserts[kind[id]]

\* INSERT INTO notifications ... ON CONFLICT DO NOTHING: a key that another
\* event has written is left as it is.
Notify(id) == notified' = notified \cup {Key(id, worker.ran + 1)}

RunInsert(id) ==
    /\ InBatch(id)
    /\ Running(id)
    /\ kind[id] \notin Mistyped
    /\ Notify(id)
    /\ worker' = [worker EXCEPT !.ran = @ + 1]
    /\ UNCHANGED <<kind, ref, audit, cursor, dlq, registry, crashes, overtaken>>

\* _dlq_insert in the row d.
Park(id, d) ==
    /\ dlq[d].state = "free"
    /\ \A e \in 1 .. d - 1 : dlq[e].state # "free"
    /\ dlq' = [dlq EXCEPT ![d] = [event |-> id, attempts |-> 1, due |-> FALSE,
                                  state |-> "waiting"]]

\* Mutants of HandlerFails: the failure is logged and forgotten; the
\* exception ends the tick with the cursor before the event, unparked or
\* parked.
HandlerFailsUnparked(id) ==
    /\ InBatch(id)
    /\ Running(id)
    /\ worker' = [worker EXCEPT !.ran = Inserts[kind[id]]]
    /\ UNCHANGED <<kind, ref, audit, cursor, notified, dlq, registry, crashes, overtaken>>
HandlerFailureEndsTick(id) ==
    /\ InBatch(id)
    /\ Running(id)
    /\ worker' = Resting
    /\ UNCHANGED <<kind, ref, audit, cursor, notified, dlq, registry, crashes, overtaken>>

ParkingEndsTick(id) ==
    /\ InBatch(id)
    /\ Running(id)
    /\ \E d \in DlqIds : Park(id, d)
    /\ worker' = Resting
    /\ UNCHANGED <<kind, ref, audit, cursor, notified, registry, crashes, overtaken>>

\* The handler raises before or in one of its statements.
HandlerFails(id) ==
    /\ InBatch(id)
    /\ Running(id)
    /\ \E d \in DlqIds : Park(id, d)
    /\ worker' = [worker EXCEPT !.ran = Inserts[kind[id]]]
    /\ UNCHANGED <<kind, ref, audit, cursor, notified, registry, crashes, overtaken>>

AdvanceCursor(id) ==
    /\ InBatch(id)
    /\ ~ Running(id)
    /\ cursor' = id
    /\ worker' = [worker EXCEPT !.todo = @ \ {id}, !.ran = 0]
    /\ UNCHANGED <<kind, ref, audit, notified, dlq, registry, crashes, overtaken>>

-----------------------------------------------------------------------------
(* _retry_dlq, after every batch.                                          *)

\* Mutant of ReadDeadLetters: rows are retried whatever their attempts.
ReadExhaustedToo ==
    /\ worker.phase = "batch"
    /\ worker.todo = {}
    /\ worker' = [Resting EXCEPT
           !.phase = "retry",
           !.todo = {d \in DlqIds : dlq[d].state = "waiting" /\ dlq[d].due}]
    /\ UNCHANGED <<kind, ref, audit, cursor, notified, dlq, registry, crashes, overtaken>>

ReadDeadLetters ==
    /\ worker.phase = "batch"
    /\ worker.todo = {}
    /\ worker' = [Resting EXCEPT
           !.phase = "retry",
           !.todo = {d \in DlqIds : /\ dlq[d].state = "waiting"
                                    /\ dlq[d].attempts < MaxAttempts
                                    /\ dlq[d].due}]
    /\ UNCHANGED <<kind, ref, audit, cursor, notified, dlq, registry, crashes, overtaken>>

\* d is the dead letter the worker is at, or may turn to next.
Retrying(d) ==
    /\ worker.phase = "retry"
    /\ d \in worker.todo
    /\ worker.row \in {0, d}

NextDeadLetter(d) ==
    worker' = [worker EXCEPT !.todo = @ \ {d}, !.row = 0, !.ran = 0]

\* The registry has lost the handler: the row is closed undelivered.
HandlerGone(d) ==
    /\ Retrying(d)
    /\ kind[dlq[d].event] \notin registry
    /\ dlq' = [dlq EXCEPT ![d].state = "gone"]
    /\ NextDeadLetter(d)
    /\ UNCHANGED <<kind, ref, audit, cursor, notified, registry, crashes, overtaken>>

RetryInsert(d) ==
    LET id == dlq[d].event IN
    /\ Retrying(d)
    /\ Running(id)
    /\ kind[id] \notin Mistyped
    /\ Notify(id)
    /\ worker' = [worker EXCEPT !.row = d, !.ran = @ + 1]
    /\ UNCHANGED <<kind, ref, audit, cursor, dlq, registry, crashes, overtaken>>

\* Mutant of RetryResolves: resolved after the first statement.
RetryResolvesEarly(d) ==
    /\ Retrying(d)
    /\ worker.row = d
    /\ dlq' = [dlq EXCEPT ![d].state = "resolved"]
    /\ NextDeadLetter(d)
    /\ UNCHANGED <<kind, ref, audit, cursor, notified, registry, crashes, overtaken>>

RetryResolves(d) ==
    /\ Retrying(d)
    /\ worker.row = d
    /\ ~ Running(dlq[d].event)
    /\ dlq' = [dlq EXCEPT ![d].state = "resolved"]
    /\ NextDeadLetter(d)
    /\ UNCHANGED <<kind, ref, audit, cursor, notified, registry, crashes, overtaken>>

\* Mutant of RetryFails: the attempt is not counted.
RetryFailsUncounted(d) ==
    /\ Retrying(d)
    /\ kind[dlq[d].event] \in registry
    /\ dlq' = [dlq EXCEPT ![d].due = FALSE]
    /\ NextDeadLetter(d)
    /\ UNCHANGED <<kind, ref, audit, cursor, notified, registry, crashes, overtaken>>

\* The handler raises, or the UPDATE that would resolve the row does.
RetryFails(d) ==
    /\ Retrying(d)
    /\ kind[dlq[d].event] \in registry
    /\ dlq' = [dlq EXCEPT ![d].attempts = @ + 1, ![d].due = FALSE]
    /\ NextDeadLetter(d)
    /\ UNCHANGED <<kind, ref, audit, cursor, notified, registry, crashes, overtaken>>

EndTick ==
    /\ worker.phase = "retry"
    /\ worker.todo = {}
    /\ worker' = Resting
    /\ UNCHANGED <<kind, ref, audit, cursor, notified, dlq, registry, crashes, overtaken>>

-----------------------------------------------------------------------------
(* Time and failure.                                                       *)

\* The capped backoff of a dead letter is over.
RetryFallsDue(d) ==
    /\ dlq[d].state = "waiting"
    /\ ~ dlq[d].due
    /\ dlq' = [dlq EXCEPT ![d].due = TRUE]
    /\ UNCHANGED <<kind, ref, audit, cursor, notified, registry, worker, crashes, overtaken>>

\* A statement of the tick itself fails, or the process dies: what the tick
\* had read is forgotten, what its statements wrote stays.
TickFails ==
    /\ worker.phase # "idle"
    /\ crashes < MaxCrashes
    /\ crashes' = crashes + 1
    /\ worker' = Resting
    /\ UNCHANGED <<kind, ref, audit, cursor, notified, dlq, registry, overtaken>>

\* A restart with code that has no handler for the kind any more.
DeployWithout(k) ==
    /\ k \in registry
    /\ crashes < MaxCrashes
    /\ crashes' = crashes + 1
    /\ registry' = registry \ {k}
    /\ worker' = Resting
    /\ UNCHANGED <<kind, ref, audit, cursor, notified, dlq, overtaken>>

-----------------------------------------------------------------------------
WorkerStep ==
    \/ ReadBatch
    \/ \E id \in Ids : RunInsert(id) \/ HandlerFails(id) \/ AdvanceCursor(id)
    \/ ReadDeadLetters
    \/ \E d \in DlqIds : \/ HandlerGone(d)
                         \/ RetryInsert(d)
                         \/ RetryResolves(d)
                         \/ RetryFails(d)
    \/ EndTick

Next ==
    \/ \E id \in Ids : Emit(id) \/ CommitTransaction(id) \/ RollBack(id)
    \/ WorkerStep
    \/ \E d \in DlqIds : RetryFallsDue(d)
    \/ TickFails
    \/ \E k \in Kinds : DeployWithout(k)

Spec == Init /\ [][Next]_vars

\* The worker polls for ever, and backoffs end; nothing obliges a handler to
\* succeed, a transaction to commit or a school to do anything.
Fairness ==
    /\ WF_vars(WorkerStep)
    /\ \A d \in DlqIds : WF_vars(RetryFallsDue(d))

FairSpec == Spec /\ Fairness

\* The same worker when nothing goes wrong by accident: only a statement that
\* cannot be bound makes a handler fail.
HealthyNext ==
    /\ Next
    /\ \A d \in DlqIds : dlq'[d].attempts > dlq[d].attempts =>
                            kind[dlq'[d].event] \in Mistyped

HealthySpec == Init /\ [][HealthyNext]_vars /\ Fairness

-----------------------------------------------------------------------------
(* Properties.                                                             *)

TypeOK ==
    /\ kind \in [Ids -> Kinds]
    /\ audit \in [Ids -> AuditStates]
    /\ cursor \in Ids \cup {0}
    /\ ref \in [Ids -> Refs]
    /\ \A key \in notified : \E id \in Ids : \E n \in Statements(id) : key = Key(id, n)
    /\ dlq \in [DlqIds -> [event : Ids \cup {0}, attempts : 0 .. MaxAttempts,
                           due : BOOLEAN, state : DlqStates]]
    /\ registry \in SUBSET {k \in Kinds : Inserts[k] > 0}
    /\ worker \in [phase : {"idle", "batch", "retry"}, todo : SUBSET (Ids \cup DlqIds),
                   row : DlqIds \cup {0}, ran : Nat]
    /\ crashes \in 0 .. MaxCrashes
    /\ overtaken \in SUBSET Ids

\* Every notification the event asks for is there, written for it or for
\* another event with the same key.
Delivered(id) == \A n \in Statements(id) : Key(id, n) \in notified

\* The rows of the dead-letter queue about the event.
Parked(id) == {d \in DlqIds : dlq[d].event = id}

\* A dead letter of the event is waiting, exhausted or closed undelivered.
InDeadLetters(id) ==
    \E d \in DlqIds : dlq[d].event = id /\ dlq[d].state \in {"waiting", "gone"}

Accounted(id) == kind[id] \notin registry \/ Delivered(id) \/ InDeadLetters(id)

\* An event is in the dead-letter queue once, however often it fails and is
\* retried, but for a worker that stopped after parking it and before moving
\* the cursor: the statements are two commits and worker_dlq has no unique key.
ParkedOncePerCrash == \A id \in Ids : Cardinality(Parked(id)) <= 1 + crashes

\* The cursor leaves no event behind that was visible when its batch was read:
\* an event it has passed is delivered or in the dead-letter queue, unless it
\* committed after an event with a larger id had been read.
NothingLostUnlessOvertaken ==
    \A id \in Committed \ overtaken : id <= cursor => Accounted(id)

\* A dead letter is only marked resolved once all the notifications of its
\* event exist, also when the handler was interrupted between two of them.
ResolvedMeansDelivered ==
    \A d \in DlqIds : dlq[d].state = "resolved" => Delivered(dlq[d].event)

\* A poison event never blocks the stream: the cursor passes every committed
\* event, though its handler fail for ever.
StreamNeverBlocks == \A id \in Ids : audit[id] = "committed" ~> cursor >= id

\* An event the cursor saw is settled: delivered, or closed after
\* MAX_ATTEMPTS attempts for an operator to look at.
EventsAreSettled ==
    \A id \in Ids :
        (audit[id] = "committed" /\ id \notin overtaken) ~>
            \/ kind[id] \notin registry
            \/ Delivered(id)
            \/ \E d \in DlqIds : /\ dlq[d].event = id
                                 /\ dlq[d].state = "gone" \/ dlq[d].attempts = MaxAttempts
            \/ id \in overtaken

-----------------------------------------------------------------------------
(* What docs and comments say, and the code does not do.                   *)

\* worker/main.py:6: "Semantics: at-least-once."  An event whose transaction
\* commits behind the cursor is never read.
AtLeastOnce == \A id \in Committed : id <= cursor => Accounted(id)

\* worker/handlers/fees.py:102: a stale claim's event exists to "re-notify all
\* accountants"; with a worker that keeps running and no accidental failure
\* they are.
EscalationsAreDelivered ==
    \A id \in Ids : (audit[id] = "committed" /\ kind[id] \in Mistyped) ~> Delivered(id)

=============================================================================
