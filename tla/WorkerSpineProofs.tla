------------------------- MODULE WorkerSpineProofs -------------------------
(***************************************************************************)
(* The safety of the event spine for every number of events, crashes and   *)
(* attempts, every batch size and every set of handlers.                   *)
(***************************************************************************)
EXTENDS WorkerSpine, FiniteSetTheorems, TLAPS

-----------------------------------------------------------------------------
(* The inductive invariant.                                                *)

\* The first `ran' statements of the event's handler have notified.
NotifiedUpTo(id, ran) ==
    \A n \in Statements(id) : n <= ran => Key(id, n) \in notified

\* The cursor is at an event that committed.
CursorInv == cursor = 0 \/ cursor \in Committed

\* A batch holds, up to its last event, all events that are visible and not
\* passed yet, but those that became visible too late; what the handler of
\* its first event has done so far is there, or the event is parked.
BatchInv ==
    worker.phase = "batch" =>
        /\ worker.todo \subseteq Committed
        /\ \A j \in worker.todo : cursor < j
        /\ \A j \in worker.todo : \A id \in Committed \ overtaken :
              cursor < id /\ id < j => id \in worker.todo
        /\ \A id \in Ids : InBatch(id) =>
              NotifiedUpTo(id, worker.ran) \/ InDeadLetters(id)

\* The rows of a retry round are waiting and have an attempt left; the one
\* being retried has a handler, and its statements so far have notified.
RetryInv ==
    worker.phase = "retry" =>
        /\ worker.todo \subseteq DlqIds
        /\ \A d \in worker.todo : /\ dlq[d].state = "waiting"
                                  /\ dlq[d].attempts < MaxAttempts
        /\ worker.row = 0 => worker.ran = 0
        /\ worker.row # 0 =>
              /\ worker.row \in worker.todo
              /\ kind[dlq[worker.row].event] \in registry
              /\ NotifiedUpTo(dlq[worker.row].event, worker.ran)

\* A used row of the dead-letter queue is about an event, a free one is not.
DlqInv == \A d \in DlqIds : dlq[d].state # "free" <=> dlq[d].event \in Ids

\* The worker is through with the event: the cursor is at or past it, or its
\* handler has nothing left to run.
Handled(id) == id <= cursor \/ (InBatch(id) /\ ~ Running(id))

\* One dead letter for every time the event was handled, and every time but
\* the last ended in a crash.
ParkedInv ==
    \A id \in Ids :
        /\ Cardinality(Parked(id)) <= 1 + crashes
        /\ ~ Handled(id) => Cardinality(Parked(id)) <= crashes

IInv ==
    /\ TypeOK
    /\ CursorInv
    /\ BatchInv
    /\ RetryInv
    /\ DlqInv
    /\ ParkedInv
    /\ ResolvedMeansDelivered
    /\ NothingLostUnlessOvertaken

-----------------------------------------------------------------------------
(* Lemmas.                                                                 *)

\* What a notification changes: its key is in the index, the others stay.
LEMMA NotifyEffect ==
    ASSUME TypeOK, NEW id \in Ids, worker.ran + 1 \in Statements(id),
           Notify(id), kind' = kind, ref' = ref
    PROVE  /\ \A key \in notified' :
                 \E j \in Ids : \E n \in Statements(j) : key = Key(j, n)
           /\ notified \subseteq notified'
           /\ Key(id, worker.ran + 1) \in notified'
<1>1. notified' = notified \cup {Key(id, worker.ran + 1)}
  BY DEF Notify
<1>2. \A key \in notified : \E j \in Ids : \E n \in Statements(j) : key = Key(j, n)
  BY DEF TypeOK
<1>3. QED
  BY <1>1, <1>2

\* The dead letters of an event are finitely many.
LEMMA ParkedFinite ==
    ASSUME NEW id \in Ids
    PROVE  IsFiniteSet(Parked(id)) /\ Cardinality(Parked(id)) \in Nat
<1>1. IsFiniteSet(1 .. (MaxEvents + MaxCrashes))
  BY BoundsAssumption, FS_Interval
<1>2. Parked(id) \subseteq 1 .. (MaxEvents + MaxCrashes)
  BY DEF Parked, DlqIds
<1>3. QED
  BY <1>1, <1>2, FS_Subset, FS_CardinalityType

\* An event stays accounted for while handlers only disappear, notifications
\* only appear, and no dead letter vanishes but by delivering its event.
LEMMA AccountedStays ==
    ASSUME kind' = kind, ref' = ref,
           registry' \subseteq registry,
           notified \subseteq notified',
           \A j \in Ids : InDeadLetters(j) => InDeadLetters(j)' \/ Delivered(j)'
    PROVE  \A j \in Ids : Accounted(j) => Accounted(j)'
<1>1. \A j \in Ids : Delivered(j) => Delivered(j)'
  BY DEF Delivered, Statements, Key
<1>2. QED
  BY <1>1 DEF Accounted

\* The counts of dead letters stay in bounds while rows keep their events and
\* no event turns unhandled but by a crash.
LEMMA ParkedStays ==
    ASSUME IInv, \A d \in DlqIds : dlq'[d].event = dlq[d].event,
           crashes' \in Nat,
           \/ crashes' = crashes /\ \A j \in Ids : Handled(j) => Handled(j)'
           \/ crashes' = crashes + 1
    PROVE  ParkedInv'
<1> USE DEF IInv
<1>1. \A j \in Ids : Parked(j)' = Parked(j)
  BY DEF Parked
<1>2. crashes \in Nat
  BY BoundsAssumption DEF TypeOK
<1>3. ASSUME NEW j \in Ids
      PROVE  /\ (Cardinality(Parked(j)) <= 1 + crashes)'
             /\ (~ Handled(j) => Cardinality(Parked(j)) <= crashes)'
  <2>1. Cardinality(Parked(j)) \in Nat /\ Cardinality(Parked(j)) <= 1 + crashes
    BY ParkedFinite DEF ParkedInv
  <2>2. ~ Handled(j) => Cardinality(Parked(j)) <= crashes
    BY DEF ParkedInv
  <2>3. CASE crashes' = crashes /\ \A i \in Ids : Handled(i) => Handled(i)'
    BY <1>1, <2>1, <2>2, <2>3
  <2>4. CASE crashes' = crashes + 1
    BY <1>1, <1>2, <2>1, <2>4
  <2>5. QED
    BY <2>3, <2>4
<1>4. QED
  BY <1>3 DEF ParkedInv

\* The rows of a batch are taken from the bottom: a batch that holds an event
\* holds every unread event below it.
LEMMA BatchIsDownward ==
    ASSUME TypeOK, NEW i \in Unread, NEW j \in Unread, i < j,
           Cardinality({k \in Unread : k < j}) < BatchSize
    PROVE  Cardinality({k \in Unread : k < i}) < BatchSize
<1> DEFINE A == {k \in Unread : k < i}
           B == {k \in Unread : k < j}
<1>1. Unread \subseteq 1 .. MaxEvents
  BY DEF Unread, Committed, Ids
<1>2. IsFiniteSet(1 .. MaxEvents)
  BY BoundsAssumption, FS_Interval
<1>3. A \subseteq B
  <2>1. i \in Int /\ j \in Int /\ \A k \in Unread : k \in Int
    BY <1>1, BoundsAssumption
  <2>2. ASSUME NEW k \in Unread, k < i
        PROVE  k < j
    BY <2>1, <2>2
  <2>3. QED
    BY <2>2
<1>4. IsFiniteSet(B)
  BY <1>1, <1>2, FS_Subset
<1>5. Cardinality(A) <= Cardinality(B)
  BY <1>3, <1>4, FS_Subset
<1>6. IsFiniteSet(A)
  BY <1>3, <1>4, FS_Subset
<1>7. Cardinality(A) \in Nat /\ Cardinality(B) \in Nat
  BY <1>4, <1>6, FS_CardinalityType
<1>8. QED
  BY <1>5, <1>7, BoundsAssumption

-----------------------------------------------------------------------------
(* The initial state.                                                      *)

LEMMA InitIInv ==
    ASSUME Init
    PROVE  IInv
<1>1. TypeOK
  <2>1. cursor = 0 /\ worker = Resting /\ crashes = 0 /\ overtaken = {}
    BY DEF Init
  <2>2. notified = {} /\ ref \in [Ids -> Refs]
    BY DEF Init
  <2>3. dlq \in [DlqIds -> [event : Ids \cup {0}, attempts : 0 .. MaxAttempts,
                            due : BOOLEAN, state : DlqStates]]
    BY BoundsAssumption DEF Init, NoRow, DlqStates
  <2>4. QED
    BY <2>1, <2>2, <2>3, BoundsAssumption
       DEF Init, TypeOK, Resting, AuditStates, Ids
<1>2. CursorInv
  BY DEF Init, CursorInv
<1>3. BatchInv /\ RetryInv
  BY DEF Init, BatchInv, RetryInv, Resting
<1>4. DlqInv /\ ResolvedMeansDelivered
  BY BoundsAssumption DEF Init, DlqInv, ResolvedMeansDelivered, NoRow, Ids
<1>5. ParkedInv
  <2>1. \A id \in Ids : Parked(id) = {}
    BY BoundsAssumption DEF Init, Parked, NoRow, Ids
  <2>2. QED
    BY <2>1, FS_EmptySet DEF ParkedInv, Init
<1>6. NothingLostUnlessOvertaken
  BY DEF Init, NothingLostUnlessOvertaken, Committed
<1>7. QED
  BY <1>1, <1>2, <1>3, <1>4, <1>5, <1>6 DEF IInv

-----------------------------------------------------------------------------
(* The backend's transactions.                                             *)

\* A step of a transaction that makes no event visible.
LEMMA InvisibleStep ==
    ASSUME IInv, TypeOK', Committed' = Committed,
           UNCHANGED <<kind, ref, cursor, notified, dlq, registry, worker, crashes, overtaken>>
    PROVE  IInv'
<1> USE DEF IInv
<1>1. CursorInv'
  BY DEF CursorInv
<1>2. BatchInv'
  BY DEF BatchInv, InBatch, NotifiedUpTo, InDeadLetters, Statements, Key
<1>3. RetryInv'
  BY DEF RetryInv, NotifiedUpTo, Statements, Key
<1>4. DlqInv' /\ ResolvedMeansDelivered'
  BY DEF DlqInv, ResolvedMeansDelivered, Delivered, Statements, Key
<1>5. NothingLostUnlessOvertaken'
  BY DEF NothingLostUnlessOvertaken, Accounted, Delivered, InDeadLetters, Statements, Key
<1>6. ParkedInv'
  BY BoundsAssumption, ParkedStays DEF Handled, InBatch, Running, TypeOK
<1>7. QED
  BY <1>1, <1>2, <1>3, <1>4, <1>5, <1>6

LEMMA EmitStep ==
    ASSUME IInv, NEW id \in Ids, Emit(id) \/ RollBack(id)
    PROVE  IInv'
<1>1. TypeOK'
  BY DEF IInv, TypeOK, Emit, RollBack, AuditStates, Statements, Key
<1>2. Committed' = Committed
  BY DEF IInv, TypeOK, Emit, RollBack, Committed
<1>3. QED
  BY <1>1, <1>2, InvisibleStep DEF Emit, RollBack

\* An event that becomes visible now has not been overtaken only if neither
\* the cursor nor the batch being processed is past it.
LEMMA CommitStep ==
    ASSUME IInv, NEW id \in Ids, CommitTransaction(id)
    PROVE  IInv'
<1> USE DEF IInv
<1>1. TypeOK'
  BY DEF TypeOK, CommitTransaction, AuditStates, Statements, Key
<1>2. Committed' = Committed \cup {id} /\ id \notin Committed
  BY DEF TypeOK, CommitTransaction, Committed
<1>3. overtaken \subseteq overtaken'
  BY DEF CommitTransaction
<1>4. id \notin overtaken' => ~ Overtakes(id)
  BY DEF CommitTransaction
<1>5. UNCHANGED <<kind, ref, cursor, notified, dlq, registry, worker, crashes>>
  BY DEF CommitTransaction
<1>6. CursorInv'
  BY <1>2, <1>5 DEF CursorInv
<1>7. BatchInv'
  <2>1. SUFFICES ASSUME worker.phase = "batch"
                 PROVE  BatchInv'
    BY <1>5 DEF BatchInv
  <2>2. worker.todo \subseteq Committed' /\ \A j \in worker.todo : cursor < j
    BY <1>2, <2>1 DEF BatchInv
  <2>3. ASSUME NEW j \in worker.todo, NEW i \in Committed' \ overtaken',
               cursor < i, i < j
        PROVE  i \in worker.todo
    <3>1. i # id
      BY <1>4, <2>1, <2>3 DEF Overtakes
    <3>2. i \in Committed \ overtaken
      BY <1>2, <1>3, <3>1
    <3>3. QED
      BY <2>1, <2>3, <3>2 DEF BatchInv
  <2>4. \A i \in Ids : InBatch(i)' => (NotifiedUpTo(i, worker.ran) \/ InDeadLetters(i))'
    BY <1>5, <2>1 DEF BatchInv, InBatch, NotifiedUpTo, InDeadLetters, Statements, Key
  <2>5. QED
    BY <1>5, <2>2, <2>3, <2>4 DEF BatchInv
<1>8. RetryInv'
  BY <1>5 DEF RetryInv, NotifiedUpTo, Statements, Key
<1>9. DlqInv' /\ ResolvedMeansDelivered' /\ ParkedInv'
  <2>1. DlqInv' /\ ResolvedMeansDelivered'
    BY <1>5 DEF DlqInv, ResolvedMeansDelivered, Delivered, Statements, Key
  <2>2. ParkedInv'
    BY <1>5, BoundsAssumption, ParkedStays DEF Handled, InBatch, Running, TypeOK
  <2>3. QED
    BY <2>1, <2>2
<1>10. NothingLostUnlessOvertaken'
  <2>1. ASSUME NEW i \in (Committed \ overtaken)', i <= cursor'
        PROVE  Accounted(i)'
    <3>1. i # id
      <4>1. SUFFICES ASSUME i = id PROVE FALSE
        OBVIOUS
      <4>2. ~ (id < cursor)
        BY <1>4, <2>1, <4>1 DEF Overtakes
      <4>3. cursor = id
        BY <1>5, <2>1, <4>1, <4>2, BoundsAssumption DEF TypeOK, Ids
      <4>4. cursor \in Committed
        BY <4>3, BoundsAssumption DEF CursorInv, Ids
      <4>5. QED
        BY <1>2, <4>3, <4>4
    <3>2. i \in Committed \ overtaken /\ i <= cursor
      BY <1>2, <1>3, <1>5, <2>1, <3>1
    <3>3. Accounted(i)
      BY <3>2 DEF NothingLostUnlessOvertaken
    <3>4. QED
      BY <1>5, <3>3 DEF Accounted, Delivered, InDeadLetters, Statements, Key
  <2>2. QED
    BY <2>1 DEF NothingLostUnlessOvertaken
<1>11. QED
  BY <1>1, <1>6, <1>7, <1>8, <1>9, <1>10

-----------------------------------------------------------------------------
(* The batch.                                                              *)

LEMMA ReadBatchStep ==
    ASSUME IInv, ReadBatch
    PROVE  IInv'
<1> USE DEF IInv
<1> DEFINE batch == {id \in Unread : Cardinality({j \in Unread : j < id}) < BatchSize}
<1>1. /\ worker' = [Resting EXCEPT !.phase = "batch", !.todo = batch]
      /\ UNCHANGED <<kind, ref, audit, cursor, notified, dlq, registry, crashes, overtaken>>
  BY DEF ReadBatch
<1>2. batch \subseteq Unread
  OBVIOUS
<1>3. Unread \subseteq Ids
  BY DEF Unread, Committed
<1>4. ASSUME NEW j \in batch, NEW i \in Unread, i < j
      PROVE  i \in batch
  BY <1>4, BatchIsDownward
<1> HIDE DEF batch
<1>5. worker'.phase = "batch" /\ worker'.todo = batch /\ worker'.ran = 0 /\ worker'.row = 0
  BY <1>1 DEF Resting
<1>6. TypeOK'
  <2>1. worker' \in [phase : {"idle", "batch", "retry"}, todo : SUBSET (Ids \cup DlqIds),
                     row : DlqIds \cup {0}, ran : Nat]
    BY <1>1, <1>2, <1>3 DEF Resting
  <2>2. QED
    BY <1>1, <2>1 DEF TypeOK, Statements, Key
<1>7. CursorInv'
  BY <1>1 DEF CursorInv, Committed
<1>8. BatchInv'
  <2>1. \A i \in batch : i \in Committed /\ cursor < i
    <3>1. \A i \in Unread : i \in Committed /\ i > cursor
      BY DEF Unread
    <3>2. \A i \in Ids : i > cursor => cursor < i
      BY BoundsAssumption DEF TypeOK, Ids
    <3>3. QED
      BY <1>2, <1>3, <3>1, <3>2
  <2>2. ASSUME NEW j \in batch, NEW i \in Committed \ overtaken, cursor < i, i < j
        PROVE  i \in batch
    <3>1. i \in Unread
      BY <2>2, BoundsAssumption DEF Unread, Committed, Ids, TypeOK
    <3>2. QED
      BY <1>4, <2>2, <3>1
  <2>3. \A i \in Ids : NotifiedUpTo(i, worker.ran)'
    BY <1>1, <1>5 DEF NotifiedUpTo, Statements
  <2>4. Committed' = Committed /\ overtaken' = overtaken /\ cursor' = cursor
    BY <1>1 DEF Committed
  <2>5. QED
    BY <1>5, <2>1, <2>2, <2>3, <2>4 DEF BatchInv
<1>9. RetryInv'
  BY <1>5 DEF RetryInv
<1>10. DlqInv' /\ ResolvedMeansDelivered' /\ ParkedInv'
  <2>1. DlqInv' /\ ResolvedMeansDelivered'
    BY <1>1 DEF DlqInv, ResolvedMeansDelivered, Delivered, Statements, Key
  <2>2. \A j \in Ids : Handled(j) => Handled(j)'
    BY <1>1 DEF Handled, InBatch, ReadBatch
  <2>3. ParkedInv'
    BY <1>1, <2>2, BoundsAssumption, ParkedStays DEF TypeOK
  <2>4. QED
    BY <2>1, <2>3
<1>11. NothingLostUnlessOvertaken'
  BY <1>1 DEF NothingLostUnlessOvertaken, Accounted, Delivered, InDeadLetters, Key,
              Statements, Committed
<1>12. QED
  BY <1>6, <1>7, <1>8, <1>9, <1>10, <1>11

\* Everything but the progress of the batch or of the retry round, when a
\* step only adds a notification.
LEMMA NotificationStep ==
    ASSUME IInv, NEW id \in Ids, worker.ran + 1 \in Statements(id), Notify(id),
           worker' \in [phase : {"idle", "batch", "retry"}, todo : SUBSET (Ids \cup DlqIds),
                        row : DlqIds \cup {0}, ran : Nat],
           UNCHANGED <<kind, ref, audit, cursor, dlq, registry, crashes, overtaken>>
    PROVE  /\ TypeOK' /\ CursorInv' /\ DlqInv'
           /\ ResolvedMeansDelivered' /\ NothingLostUnlessOvertaken'
           /\ notified \subseteq notified'
           /\ Key(id, worker.ran + 1) \in notified'
<1> USE DEF IInv
<1>1. /\ \A key \in notified' : \E j \in Ids : \E n \in Statements(j) : key = Key(j, n)
      /\ notified \subseteq notified'
      /\ Key(id, worker.ran + 1) \in notified'
  BY NotifyEffect
<1>2. TypeOK'
  BY <1>1 DEF TypeOK, Statements, Key
<1>3. CursorInv' /\ DlqInv'
  BY DEF CursorInv, DlqInv, Committed
<1>4. ResolvedMeansDelivered'
  BY <1>1 DEF ResolvedMeansDelivered, Delivered, Statements, Key, DlqInv
<1>5. \A j \in Ids : Accounted(j) => Accounted(j)'
  <2>1. \A j \in Ids : InDeadLetters(j) => InDeadLetters(j)' \/ Delivered(j)'
    BY DEF InDeadLetters
  <2>2. QED
    BY <1>1, <2>1, AccountedStays
<1>6. NothingLostUnlessOvertaken'
  BY <1>5 DEF NothingLostUnlessOvertaken, Committed
<1>7. QED
  BY <1>1, <1>2, <1>3, <1>4, <1>6

LEMMA RunInsertStep ==
    ASSUME IInv, NEW id \in Ids, RunInsert(id)
    PROVE  IInv'
<1> USE DEF IInv
<1>1. /\ InBatch(id) /\ Running(id) /\ Notify(id)
      /\ worker' = [worker EXCEPT !.ran = @ + 1]
      /\ UNCHANGED <<kind, ref, audit, cursor, dlq, registry, crashes, overtaken>>
  BY DEF RunInsert
<1>2. worker.ran \in Nat /\ worker.phase = "batch" /\ id \in worker.todo
  BY <1>1 DEF TypeOK, InBatch
<1>3. worker.ran + 1 \in Statements(id)
  BY <1>1, <1>2, InsertsAssumption DEF TypeOK, Running, Statements
<1>4. /\ worker'.phase = "batch" /\ worker'.todo = worker.todo
      /\ worker'.row = worker.row /\ worker'.ran = worker.ran + 1
  BY <1>1, <1>2 DEF TypeOK
<1>5. worker' \in [phase : {"idle", "batch", "retry"}, todo : SUBSET (Ids \cup DlqIds),
                   row : DlqIds \cup {0}, ran : Nat]
  BY <1>1, <1>2 DEF TypeOK
<1>6. /\ TypeOK' /\ CursorInv' /\ DlqInv'
      /\ ResolvedMeansDelivered' /\ NothingLostUnlessOvertaken'
      /\ notified \subseteq notified'
      /\ Key(id, worker.ran + 1) \in notified'
  BY <1>1, <1>3, <1>5, NotificationStep
<1>7. BatchInv'
  <2>1. ASSUME NEW i \in Ids, InBatch(i)'
        PROVE  (NotifiedUpTo(i, worker.ran) \/ InDeadLetters(i))'
    <3>1. i = id
      BY <1>1, <1>4, <2>1, BoundsAssumption DEF InBatch, Ids
    <3>2. NotifiedUpTo(id, worker.ran) \/ InDeadLetters(id)
      BY <1>1, <1>2 DEF BatchInv
    <3>3. CASE InDeadLetters(id)
      BY <1>1, <3>1, <3>3 DEF InDeadLetters
    <3>4. CASE NotifiedUpTo(id, worker.ran)
      <4>1. ASSUME NEW n \in Statements(id), n <= worker.ran + 1
            PROVE  Key(id, n) \in notified'
        <5>1. CASE n = worker.ran + 1
          BY <1>6, <5>1
        <5>2. CASE n # worker.ran + 1
          <6>1. n <= worker.ran
            BY <1>2, <4>1, <5>2, InsertsAssumption DEF Statements, TypeOK
          <6>2. QED
            BY <1>6, <3>4, <6>1 DEF NotifiedUpTo
        <5>3. QED
          BY <5>1, <5>2
      <4>2. QED
        BY <1>1, <1>4, <3>1, <4>1 DEF NotifiedUpTo, Statements, Key
    <3>5. QED
      BY <3>2, <3>3, <3>4
  <2>2. Committed' = Committed /\ overtaken' = overtaken /\ cursor' = cursor
    BY <1>1 DEF Committed
  <2>3. QED
    BY <1>2, <1>4, <2>1, <2>2 DEF BatchInv
<1>8. RetryInv'
  BY <1>4 DEF RetryInv
<1>9. ParkedInv'
  <2>1. \A j \in Ids : InBatch(j) => j = id
    BY <1>1, BoundsAssumption DEF InBatch, Ids
  <2>2. \A j \in Ids : Handled(j) => Handled(j)'
    BY <1>1, <2>1 DEF Handled
  <2>3. QED
    BY <1>1, <2>2, BoundsAssumption, ParkedStays DEF TypeOK
<1>10. QED
  BY <1>6, <1>7, <1>8, <1>9

\* A failed handler's event goes to a free row of the dead-letter queue.
LEMMA ParkStep ==
    ASSUME IInv, NEW id \in Ids, HandlerFails(id)
    PROVE  IInv'
<1> USE DEF IInv
<1>1. /\ InBatch(id) /\ Running(id)
      /\ worker' = [worker EXCEPT !.ran = Inserts[kind[id]]]
      /\ UNCHANGED <<kind, ref, audit, cursor, notified, registry, crashes, overtaken>>
  BY DEF HandlerFails
<1>2. PICK d \in DlqIds : Park(id, d)
  BY DEF HandlerFails
<1> DEFINE parked == [event |-> id, attempts |-> 1, due |-> FALSE, state |-> "waiting"]
<1>3. dlq[d].state = "free" /\ dlq' = [dlq EXCEPT ![d] = parked]
  BY <1>2 DEF Park
<1>4. parked \in [event : Ids \cup {0}, attempts : 0 .. MaxAttempts,
                  due : BOOLEAN, state : DlqStates]
  BY BoundsAssumption DEF DlqStates
<1>5. parked.event = id /\ parked.state = "waiting"
  OBVIOUS
<1> HIDE DEF parked
<1>6. dlq'[d] = parked /\ \A e \in DlqIds \ {d} : dlq'[e] = dlq[e]
  BY <1>3 DEF TypeOK
<1>7. dlq' \in [DlqIds -> [event : Ids \cup {0}, attempts : 0 .. MaxAttempts,
                           due : BOOLEAN, state : DlqStates]]
  BY <1>3, <1>4 DEF TypeOK
<1>8. Inserts[kind[id]] \in Nat
  BY InsertsAssumption DEF TypeOK
<1>9. /\ worker'.phase = "batch" /\ worker'.todo = worker.todo
      /\ worker' \in [phase : {"idle", "batch", "retry"}, todo : SUBSET (Ids \cup DlqIds),
                      row : DlqIds \cup {0}, ran : Nat]
  BY <1>1, <1>8 DEF TypeOK, InBatch
<1>10. TypeOK'
  <2>1. \A key \in notified' : \E j \in Ids : \E n \in Statements(j)' : key = Key(j, n)'
    BY <1>1 DEF TypeOK, Statements, Key
  <2>2. QED
    BY <1>1, <1>7, <1>9, <2>1 DEF TypeOK
<1>11. CursorInv'
  BY <1>1 DEF CursorInv, Committed
<1>12. InDeadLetters(id)'
  BY <1>5, <1>6 DEF InDeadLetters
<1>13. ASSUME NEW j \in Ids, InDeadLetters(j)
       PROVE  InDeadLetters(j)'
  <2>1. PICK e \in DlqIds : dlq[e].event = j /\ dlq[e].state \in {"waiting", "gone"}
    BY <1>13 DEF InDeadLetters
  <2>2. e # d
    BY <1>3, <2>1
  <2>3. QED
    BY <1>6, <2>1, <2>2 DEF InDeadLetters
<1>14. BatchInv'
  <2>1. ASSUME NEW i \in Ids, InBatch(i)'
        PROVE  InDeadLetters(i)'
    <3>1. i = id
      BY <1>1, <1>9, <2>1, BoundsAssumption DEF InBatch, Ids
    <3>2. QED
      BY <1>12, <3>1
  <2>2. Committed' = Committed /\ overtaken' = overtaken /\ cursor' = cursor
    BY <1>1 DEF Committed
  <2>3. worker.phase = "batch"
    BY <1>1 DEF InBatch
  <2>4. QED
    BY <1>9, <2>1, <2>2, <2>3 DEF BatchInv
<1>15. RetryInv'
  BY <1>9 DEF RetryInv
<1>16. DlqInv'
  BY <1>5, <1>6 DEF DlqInv
<1>17. ParkedInv'
  <2>1. \A j \in Ids \ {id} : Parked(j)' = Parked(j)
    BY <1>3, <1>5, <1>6 DEF Parked, DlqInv
  <2>2. Parked(id)' = Parked(id) \cup {d}
    BY <1>5, <1>6 DEF Parked
  <2>3. Cardinality(Parked(id))' <= Cardinality(Parked(id)) + 1
    <3>1. /\ IsFiniteSet(Parked(id)) /\ Cardinality(Parked(id)) \in Nat
          /\ Cardinality(Parked(id))' = Cardinality(Parked(id) \cup {d})
      BY <2>2, ParkedFinite
    <3>2. \/ Cardinality(Parked(id) \cup {d}) = Cardinality(Parked(id))
          \/ Cardinality(Parked(id) \cup {d}) = Cardinality(Parked(id)) + 1
      BY <3>1, FS_AddElement
    <3>3. QED
      BY <3>1, <3>2
  <2>4. ~ Handled(id)
    <3>1. worker.todo \subseteq Ids /\ cursor < id
      BY <1>1 DEF InBatch, BatchInv, Committed
    <3>2. ~ (id <= cursor)
      BY <3>1, BoundsAssumption DEF TypeOK, Ids
    <3>3. QED
      BY <1>1, <3>2 DEF Handled
  <2>5. Cardinality(Parked(id)) <= crashes
    BY <2>4 DEF ParkedInv
  <2>6. crashes \in Nat /\ crashes' = crashes
    BY <1>1, BoundsAssumption DEF TypeOK
  <2>7. Handled(id)'
    <3>1. InBatch(id)'
      BY <1>1, <1>9 DEF InBatch
    <3>2. ~ Running(id)'
      BY <1>1, <1>8 DEF Running, TypeOK
    <3>3. QED
      BY <3>1, <3>2 DEF Handled
  <2>8. \A j \in Ids \ {id} : Handled(j) => Handled(j)'
    <3>1. \A j \in Ids : InBatch(j) => j = id
      BY <1>1, BoundsAssumption DEF InBatch, Ids
    <3>2. QED
      BY <1>1, <3>1 DEF Handled
  <2>9. ASSUME NEW j \in Ids
        PROVE  /\ (Cardinality(Parked(j)) <= 1 + crashes)'
               /\ (~ Handled(j) => Cardinality(Parked(j)) <= crashes)'
    <3>1. CASE j = id
      <4>1. Cardinality(Parked(id)) \in Nat /\ Cardinality(Parked(id))' \in Nat
        <5>1. IsFiniteSet(Parked(id)')
          BY <2>2, ParkedFinite, FS_AddElement
        <5>2. QED
          BY <5>1, ParkedFinite, FS_CardinalityType
      <4>2. QED
        BY <2>3, <2>5, <2>6, <2>7, <3>1, <4>1
    <3>2. CASE j # id
      BY <2>1, <2>6, <2>8, <3>2 DEF ParkedInv
    <3>3. QED
      BY <3>1, <3>2
  <2>10. QED
    BY <2>9 DEF ParkedInv
<1>18. ResolvedMeansDelivered'
  BY <1>1, <1>5, <1>6 DEF ResolvedMeansDelivered, Delivered, Statements, Key
<1>19. \A j \in Ids : Accounted(j) => Accounted(j)'
  BY <1>1, <1>13, AccountedStays
<1>20. NothingLostUnlessOvertaken'
  BY <1>1, <1>19 DEF NothingLostUnlessOvertaken, Committed
<1>21. QED
  BY <1>10, <1>11, <1>14, <1>15, <1>16, <1>17, <1>18, <1>20

\* The cursor moves to the first event of the batch, whose handler is through:
\* the events between it and the old cursor were overtaken.
LEMMA AdvanceStep ==
    ASSUME IInv, NEW id \in Ids, AdvanceCursor(id)
    PROVE  IInv'
<1> USE DEF IInv
<1>1. /\ InBatch(id) /\ ~ Running(id) /\ cursor' = id
      /\ worker' = [worker EXCEPT !.todo = @ \ {id}, !.ran = 0]
      /\ UNCHANGED <<kind, ref, audit, notified, dlq, registry, crashes, overtaken>>
  BY DEF AdvanceCursor
<1>2. worker.phase = "batch" /\ id \in worker.todo /\ \A j \in worker.todo : id <= j
  BY <1>1 DEF InBatch
<1>3. /\ worker'.phase = "batch" /\ worker'.todo = worker.todo \ {id} /\ worker'.ran = 0
      /\ worker' \in [phase : {"idle", "batch", "retry"}, todo : SUBSET (Ids \cup DlqIds),
                      row : DlqIds \cup {0}, ran : Nat]
  BY <1>1, <1>2 DEF TypeOK
<1>4. TypeOK'
  BY <1>1, <1>3 DEF TypeOK, Statements, Key
<1>5. Committed' = Committed /\ overtaken' = overtaken
  BY <1>1 DEF Committed
<1>6. worker.todo \subseteq Committed /\ Committed \subseteq Ids
  BY <1>2 DEF BatchInv, Committed
<1>7. CursorInv'
  BY <1>1, <1>2, <1>5, <1>6 DEF CursorInv
<1>8. BatchInv'
  <2>1. ASSUME NEW j \in worker.todo \ {id}
        PROVE  id < j
    <3>1. id <= j /\ id # j /\ j \in Ids
      BY <1>2, <1>6, <2>1
    <3>2. QED
      BY <3>1, BoundsAssumption DEF Ids
  <2>2. ASSUME NEW j \in worker.todo \ {id}, NEW i \in Committed \ overtaken,
               id < i, i < j
        PROVE  i \in worker.todo \ {id}
    <3>1. cursor < id
      BY <1>2 DEF BatchInv
    <3>2. cursor < i
      BY <2>2, <3>1, <1>6, BoundsAssumption DEF TypeOK, Ids
    <3>3. i \in worker.todo
      BY <1>2, <2>2, <3>2 DEF BatchInv
    <3>4. i # id
      BY <2>2, BoundsAssumption DEF Ids
    <3>5. QED
      BY <3>3, <3>4
  <2>3. \A i \in Ids : NotifiedUpTo(i, worker.ran)'
    BY <1>1, <1>3 DEF NotifiedUpTo, Statements
  <2>4. QED
    BY <1>1, <1>3, <1>5, <1>6, <2>1, <2>2, <2>3 DEF BatchInv
<1>9. RetryInv'
  BY <1>3 DEF RetryInv
<1>10. DlqInv' /\ ParkedInv' /\ ResolvedMeansDelivered'
  <2>1. DlqInv' /\ ResolvedMeansDelivered'
    BY <1>1 DEF DlqInv, ResolvedMeansDelivered, Delivered, Statements, Key
  <2>2. cursor < id
    BY <1>2 DEF BatchInv
  <2>3. \A j \in Ids : j <= cursor => j <= id
    BY <2>2, BoundsAssumption DEF TypeOK, Ids
  <2>4. \A j \in Ids : InBatch(j) => j <= id
    BY <1>1 DEF InBatch
  <2>5. \A j \in Ids : Handled(j) => Handled(j)'
    BY <1>1, <2>3, <2>4 DEF Handled
  <2>6. ParkedInv'
    BY <1>1, <2>5, BoundsAssumption, ParkedStays DEF TypeOK
  <2>7. QED
    BY <2>1, <2>6
<1>11. Accounted(id)
  <2>1. CASE kind[id] \notin registry
    BY <2>1 DEF Accounted
  <2>2. CASE ~ (worker.ran < Inserts[kind[id]])
    <3>1. NotifiedUpTo(id, worker.ran) \/ InDeadLetters(id)
      BY <1>1, <1>2 DEF BatchInv
    <3>2. \A n \in Statements(id) : n <= worker.ran
      BY <2>2, InsertsAssumption DEF Statements, TypeOK
    <3>3. QED
      BY <3>1, <3>2 DEF Accounted, Delivered, NotifiedUpTo
  <2>3. QED
    BY <1>1, <2>1, <2>2 DEF Running
<1>12. NothingLostUnlessOvertaken'
  <2>1. ASSUME NEW i \in Committed \ overtaken, i <= id
        PROVE  Accounted(i)
    <3>1. CASE i = id
      BY <1>11, <3>1
    <3>2. CASE i # id /\ i <= cursor
      BY <3>2, <2>1 DEF NothingLostUnlessOvertaken
    <3>3. CASE i # id /\ ~ (i <= cursor)
      <4>1. cursor < i /\ i < id
        BY <2>1, <3>3, <1>6, BoundsAssumption DEF TypeOK, Ids
      <4>2. i \in worker.todo
        BY <1>2, <2>1, <4>1 DEF BatchInv
      <4>3. id <= i
        BY <1>2, <4>2
      <4>4. QED
        BY <4>1, <4>3, <1>6, <2>1, BoundsAssumption DEF Ids
    <3>4. QED
      BY <3>1, <3>2, <3>3
  <2>2. \A i \in Ids : Accounted(i) => Accounted(i)'
    BY <1>1 DEF Accounted, Delivered, InDeadLetters, Statements, Key
  <2>3. QED
    BY <1>1, <1>5, <1>6, <2>1, <2>2 DEF NothingLostUnlessOvertaken
<1>13. QED
  BY <1>4, <1>7, <1>8, <1>9, <1>10, <1>12

-----------------------------------------------------------------------------
(* The retry round.                                                        *)

LEMMA ReadDeadLettersStep ==
    ASSUME IInv, ReadDeadLetters
    PROVE  IInv'
<1> USE DEF IInv
<1> DEFINE round == {d \in DlqIds : /\ dlq[d].state = "waiting"
                                    /\ dlq[d].attempts < MaxAttempts
                                    /\ dlq[d].due}
<1>1. /\ worker' = [Resting EXCEPT !.phase = "retry", !.todo = round]
      /\ UNCHANGED <<kind, ref, audit, cursor, notified, dlq, registry, crashes, overtaken>>
  BY DEF ReadDeadLetters
<1>2. /\ round \subseteq DlqIds
      /\ \A d \in round : dlq[d].state = "waiting" /\ dlq[d].attempts < MaxAttempts
  OBVIOUS
<1> HIDE DEF round
<1>3. /\ worker'.phase = "retry" /\ worker'.todo = round
      /\ worker'.row = 0 /\ worker'.ran = 0
      /\ worker' \in [phase : {"idle", "batch", "retry"}, todo : SUBSET (Ids \cup DlqIds),
                      row : DlqIds \cup {0}, ran : Nat]
  BY <1>1, <1>2 DEF Resting
<1>4. TypeOK'
  BY <1>1, <1>3 DEF TypeOK, Statements, Key
<1>5. RetryInv'
  BY <1>1, <1>2, <1>3 DEF RetryInv
<1>6. BatchInv'
  BY <1>3 DEF BatchInv
<1>7. CursorInv' /\ DlqInv' /\ ParkedInv' /\ ResolvedMeansDelivered'
  <2>1. CursorInv' /\ DlqInv' /\ ResolvedMeansDelivered'
    BY <1>1 DEF CursorInv, Committed, DlqInv,
                ResolvedMeansDelivered, Delivered, Statements, Key
  <2>2. \A j \in Ids : Handled(j) => Handled(j)'
    BY <1>1 DEF Handled, InBatch, ReadDeadLetters
  <2>3. ParkedInv'
    BY <1>1, <2>2, BoundsAssumption, ParkedStays DEF TypeOK
  <2>4. QED
    BY <2>1, <2>3
<1>8. NothingLostUnlessOvertaken'
  BY <1>1 DEF NothingLostUnlessOvertaken, Accounted, Delivered, InDeadLetters, Key,
              Statements, Committed
<1>9. QED
  BY <1>4, <1>5, <1>6, <1>7, <1>8

\* The event of a dead letter being retried is an event.
LEMMA RetriedEvent ==
    ASSUME IInv, NEW d \in DlqIds, Retrying(d)
    PROVE  /\ worker.phase = "retry" /\ d \in worker.todo
           /\ dlq[d].state = "waiting" /\ dlq[d].attempts < MaxAttempts
           /\ dlq[d].event \in Ids
BY DEF IInv, RetryInv, DlqInv, Retrying

LEMMA RetryInsertStep ==
    ASSUME IInv, NEW d \in DlqIds, RetryInsert(d)
    PROVE  IInv'
<1> USE DEF IInv
<1> DEFINE id == dlq[d].event
<1>1. /\ Retrying(d) /\ Running(id) /\ Notify(id)
      /\ worker' = [worker EXCEPT !.row = d, !.ran = @ + 1]
      /\ UNCHANGED <<kind, ref, audit, cursor, dlq, registry, crashes, overtaken>>
  BY DEF RetryInsert
<1>2. /\ worker.phase = "retry" /\ d \in worker.todo /\ id \in Ids
      /\ worker.ran \in Nat
  BY <1>1, RetriedEvent DEF TypeOK
<1>3. worker.ran + 1 \in Statements(id) /\ kind[id] \in registry
  BY <1>1, <1>2, InsertsAssumption DEF TypeOK, Running, Statements
<1>4. /\ worker'.phase = "retry" /\ worker'.todo = worker.todo
      /\ worker'.row = d /\ worker'.ran = worker.ran + 1
      /\ worker' \in [phase : {"idle", "batch", "retry"}, todo : SUBSET (Ids \cup DlqIds),
                      row : DlqIds \cup {0}, ran : Nat]
  <2>1. worker \in [phase : {"idle", "batch", "retry"}, todo : SUBSET (Ids \cup DlqIds),
                    row : DlqIds \cup {0}, ran : Nat]
    BY DEF TypeOK
  <2> DEFINE more == worker.ran + 1
  <2>2. more \in Nat
    BY <1>2
  <2>3. worker' = [worker EXCEPT !.row = d, !.ran = more]
    BY <1>1
  <2> HIDE DEF more
  <2>4. /\ worker'.phase = worker.phase /\ worker'.todo = worker.todo
        /\ worker'.row = d /\ worker'.ran = more
    BY <2>1, <2>3
  <2>5. worker' \in [phase : {"idle", "batch", "retry"}, todo : SUBSET (Ids \cup DlqIds),
                     row : DlqIds \cup {0}, ran : Nat]
    BY <2>1, <2>2, <2>3
  <2>6. QED
    BY <1>2, <2>4, <2>5 DEF more
<1>5. NotifiedUpTo(id, worker.ran)
  <2>1. CASE worker.row = 0
    BY <2>1, <1>2, InsertsAssumption DEF RetryInv, NotifiedUpTo, Statements, TypeOK
  <2>2. CASE worker.row = d
    <3>1. d # 0
      BY BoundsAssumption DEF DlqIds
    <3>2. QED
      BY <2>2, <3>1, <1>2 DEF RetryInv
  <2>3. QED
    BY <1>1, <2>1, <2>2 DEF Retrying
<1> HIDE DEF id
<1>6. /\ TypeOK' /\ CursorInv' /\ DlqInv'
      /\ ResolvedMeansDelivered' /\ NothingLostUnlessOvertaken'
      /\ notified \subseteq notified'
      /\ Key(id, worker.ran + 1) \in notified'
  BY <1>1, <1>2, <1>3, <1>4, NotificationStep
<1>7. ASSUME NEW n \in Statements(id), n <= worker.ran + 1
      PROVE  Key(id, n) \in notified'
  <2>1. CASE n = worker.ran + 1
    BY <1>6, <2>1
  <2>2. CASE n # worker.ran + 1
    <3>1. n <= worker.ran
      BY <1>2, <1>7, <2>2, InsertsAssumption DEF Statements, TypeOK
    <3>2. QED
      BY <1>2, <1>5, <1>6, <3>1 DEF NotifiedUpTo
  <2>3. QED
    BY <2>1, <2>2
<1>8. NotifiedUpTo(id, worker.ran)'
  BY <1>1, <1>4, <1>7 DEF NotifiedUpTo, Statements, Key, id
<1>9. RetryInv'
  <2>1. d # 0
    BY BoundsAssumption DEF DlqIds
  <2>2. worker'.todo \subseteq DlqIds /\ \A e \in worker'.todo :
            (dlq[e].state = "waiting" /\ dlq[e].attempts < MaxAttempts)'
    BY <1>1, <1>2, <1>4 DEF RetryInv
  <2>3. (kind[dlq[worker.row].event] \in registry)'
    BY <1>1, <1>3, <1>4 DEF id
  <2>4. NotifiedUpTo(dlq[worker.row].event, worker.ran)'
    BY <1>1, <1>4, <1>8 DEF id
  <2>5. QED
    BY <1>2, <1>4, <2>1, <2>2, <2>3, <2>4 DEF RetryInv
<1>10. BatchInv'
  BY <1>4 DEF BatchInv
<1>11. ParkedInv'
  <2>1. \A j \in Ids : Handled(j) => Handled(j)'
    BY <1>1, <1>2 DEF Handled, InBatch
  <2>2. QED
    BY <1>1, <2>1, BoundsAssumption, ParkedStays DEF TypeOK
<1>12. QED
  BY <1>6, <1>9, <1>10, <1>11

\* A dead letter leaves the round: closed, resolved or put off.
LEMMA LeaveRoundStep ==
    ASSUME IInv, NEW d \in DlqIds, Retrying(d), NextDeadLetter(d), NEW new,
           new \in [event : Ids \cup {0}, attempts : 0 .. MaxAttempts,
                    due : BOOLEAN, state : DlqStates],
           new.event = dlq[d].event, new.state # "free",
           new.state = "resolved" => Delivered(dlq[d].event),
           dlq' = [dlq EXCEPT ![d] = new],
           UNCHANGED <<kind, ref, audit, cursor, notified, registry, crashes, overtaken>>
    PROVE  IInv'
<1> USE DEF IInv
<1>1. /\ worker.phase = "retry" /\ d \in worker.todo
      /\ dlq[d].state = "waiting" /\ dlq[d].event \in Ids
  BY RetriedEvent
<1>2. dlq'[d] = new /\ \A e \in DlqIds \ {d} : dlq'[e] = dlq[e]
  BY DEF TypeOK
<1>3. dlq' \in [DlqIds -> [event : Ids \cup {0}, attempts : 0 .. MaxAttempts,
                           due : BOOLEAN, state : DlqStates]]
  BY DEF TypeOK
<1>4. /\ worker'.phase = "retry" /\ worker'.todo = worker.todo \ {d}
      /\ worker'.row = 0 /\ worker'.ran = 0
      /\ worker' \in [phase : {"idle", "batch", "retry"}, todo : SUBSET (Ids \cup DlqIds),
                      row : DlqIds \cup {0}, ran : Nat]
  <2>1. worker \in [phase : {"idle", "batch", "retry"}, todo : SUBSET (Ids \cup DlqIds),
                    row : DlqIds \cup {0}, ran : Nat]
    BY DEF TypeOK
  <2>2. worker' = [worker EXCEPT !.todo = worker.todo \ {d}, !.row = 0, !.ran = 0]
    BY DEF NextDeadLetter
  <2>3. worker.todo \ {d} \in SUBSET (Ids \cup DlqIds)
    BY <2>1
  <2> DEFINE rest == worker.todo \ {d}
  <2>4. worker' = [worker EXCEPT !.todo = rest, !.row = 0, !.ran = 0]
    BY <2>2
  <2>5. rest \in SUBSET (Ids \cup DlqIds)
    BY <2>3
  <2> HIDE DEF rest
  <2>6. /\ worker'.phase = worker.phase /\ worker'.todo = rest
        /\ worker'.row = 0 /\ worker'.ran = 0
    BY <2>1, <2>4
  <2>7. worker' \in [phase : {"idle", "batch", "retry"}, todo : SUBSET (Ids \cup DlqIds),
                     row : DlqIds \cup {0}, ran : Nat]
    BY <2>1, <2>4, <2>5
  <2>8. QED
    BY <1>1, <2>6, <2>7 DEF rest
<1>5. TypeOK'
  BY <1>3, <1>4 DEF TypeOK, Statements, Key
<1>6. CursorInv' /\ ParkedInv'
  <2>1. \A j \in Ids : Handled(j) => Handled(j)'
    BY <1>1 DEF Handled, InBatch
  <2>2. \A e \in DlqIds : dlq'[e].event = dlq[e].event
    BY <1>2
  <2>3. ParkedInv'
    BY <2>1, <2>2, BoundsAssumption, ParkedStays DEF TypeOK
  <2>4. QED
    BY <2>3 DEF CursorInv, Committed
<1>7. BatchInv'
  BY <1>4 DEF BatchInv
<1>8. RetryInv'
  BY <1>1, <1>2, <1>4 DEF RetryInv
<1>9. DlqInv'
  BY <1>1, <1>2 DEF DlqInv
<1>10. \A j \in Ids : Delivered(j) <=> Delivered(j)'
  BY DEF Delivered, Statements, Key
<1>11. ResolvedMeansDelivered'
  <2>1. ASSUME NEW e \in DlqIds, dlq'[e].state = "resolved"
        PROVE  Delivered(dlq[e].event) /\ dlq'[e].event = dlq[e].event
    BY <1>2, <2>1 DEF ResolvedMeansDelivered
  <2>2. QED
    BY <2>1 DEF ResolvedMeansDelivered, Delivered, Statements, Key
<1>12. ASSUME NEW j \in Ids, InDeadLetters(j)
       PROVE  InDeadLetters(j)' \/ Delivered(j)'
  <2>1. PICK e \in DlqIds : dlq[e].event = j /\ dlq[e].state \in {"waiting", "gone"}
    BY <1>12 DEF InDeadLetters
  <2>2. CASE e # d
    BY <1>2, <2>1, <2>2 DEF InDeadLetters
  <2>3. CASE e = d /\ new.state = "resolved"
    BY <1>10, <2>1, <2>3
  <2>4. CASE e = d /\ new.state # "resolved"
    <3>1. new.state \in {"waiting", "gone"}
      BY <2>4 DEF DlqStates
    <3>2. QED
      BY <1>2, <2>1, <2>4, <3>1 DEF InDeadLetters
  <2>5. QED
    BY <2>2, <2>3, <2>4
<1>13. \A j \in Ids : Accounted(j) => Accounted(j)'
  BY <1>12, AccountedStays
<1>14. NothingLostUnlessOvertaken'
  BY <1>13 DEF NothingLostUnlessOvertaken, Committed
<1>15. QED
  BY <1>5, <1>6, <1>7, <1>8, <1>9, <1>11, <1>14

LEMMA HandlerGoneStep ==
    ASSUME IInv, NEW d \in DlqIds, HandlerGone(d)
    PROVE  IInv'
<1> DEFINE new == [dlq[d] EXCEPT !.state = "gone"]
<1>1. new \in [event : Ids \cup {0}, attempts : 0 .. MaxAttempts,
               due : BOOLEAN, state : DlqStates]
  BY DEF IInv, TypeOK, DlqStates
<1>2. new.event = dlq[d].event /\ new.state = "gone"
  BY DEF IInv, TypeOK
<1>3. dlq' = [dlq EXCEPT ![d] = new]
  BY DEF HandlerGone
<1> HIDE DEF new
<1>4. QED
  BY <1>1, <1>2, <1>3, LeaveRoundStep DEF HandlerGone

LEMMA RetryFailsStep ==
    ASSUME IInv, NEW d \in DlqIds, RetryFails(d)
    PROVE  IInv'
<1> DEFINE new == [dlq[d] EXCEPT !.attempts = @ + 1, !.due = FALSE]
<1>1. dlq[d].attempts < MaxAttempts /\ dlq[d].state = "waiting"
  BY RetriedEvent DEF RetryFails
<1>2. new \in [event : Ids \cup {0}, attempts : 0 .. MaxAttempts,
               due : BOOLEAN, state : DlqStates]
  <2>1. dlq[d] \in [event : Ids \cup {0}, attempts : 0 .. MaxAttempts,
                    due : BOOLEAN, state : DlqStates]
    BY DEF IInv, TypeOK
  <2>2. dlq[d].attempts \in 0 .. MaxAttempts
    BY <2>1
  <2> DEFINE more == dlq[d].attempts + 1
  <2>3. more \in 0 .. MaxAttempts
    BY <1>1, <2>2, BoundsAssumption
  <2>4. new = [dlq[d] EXCEPT !.attempts = more, !.due = FALSE]
    OBVIOUS
  <2> HIDE DEF more, new
  <2>5. QED
    BY <2>1, <2>3, <2>4
<1>3. new.event = dlq[d].event /\ new.state = "waiting"
  BY <1>1 DEF IInv, TypeOK
<1>4. dlq' = [dlq EXCEPT ![d] = new]
  BY DEF RetryFails
<1> HIDE DEF new
<1>5. QED
  BY <1>2, <1>3, <1>4, LeaveRoundStep DEF RetryFails

LEMMA RetryResolvesStep ==
    ASSUME IInv, NEW d \in DlqIds, RetryResolves(d)
    PROVE  IInv'
<1> DEFINE new == [dlq[d] EXCEPT !.state = "resolved"]
<1>1. new \in [event : Ids \cup {0}, attempts : 0 .. MaxAttempts,
               due : BOOLEAN, state : DlqStates]
  BY DEF IInv, TypeOK, DlqStates
<1>2. new.event = dlq[d].event /\ new.state = "resolved"
  BY DEF IInv, TypeOK
<1>3. dlq' = [dlq EXCEPT ![d] = new]
  BY DEF RetryResolves
<1>4. Delivered(dlq[d].event)
  <2>1. worker.phase = "retry" /\ worker.row = d /\ dlq[d].event \in Ids
    BY RetriedEvent DEF RetryResolves
  <2>2. d # 0
    BY BoundsAssumption DEF DlqIds
  <2>3. kind[dlq[d].event] \in registry /\ NotifiedUpTo(dlq[d].event, worker.ran)
    BY <2>1, <2>2 DEF IInv, RetryInv
  <2>4. ~ (worker.ran < Inserts[kind[dlq[d].event]])
    BY <2>3 DEF RetryResolves, Running
  <2>5. \A n \in Statements(dlq[d].event) : n <= worker.ran
    BY <2>1, <2>4, InsertsAssumption DEF Statements, IInv, TypeOK
  <2>6. QED
    BY <2>3, <2>5 DEF NotifiedUpTo, Delivered
<1> HIDE DEF new
<1>5. QED
  BY <1>1, <1>2, <1>3, <1>4, LeaveRoundStep DEF RetryResolves

\* The worker drops what its tick had read: EndTick, a failure or a restart,
\* the last with fewer handlers.
LEMMA RestStep ==
    ASSUME IInv, worker' = Resting, registry' \subseteq registry,
           crashes' \in 0 .. MaxCrashes,
           \/ crashes' = crashes /\ worker.phase # "batch"
           \/ crashes' = crashes + 1,
           UNCHANGED <<kind, ref, audit, cursor, notified, dlq, overtaken>>
    PROVE  IInv'
<1> USE DEF IInv
<1>1. worker'.phase = "idle"
  BY DEF Resting
<1>2. worker' \in [phase : {"idle", "batch", "retry"}, todo : SUBSET (Ids \cup DlqIds),
                   row : DlqIds \cup {0}, ran : Nat]
  BY DEF Resting
<1>3. registry' \in SUBSET {k \in Kinds : Inserts[k] > 0}
  BY DEF TypeOK
<1>4. TypeOK'
  BY <1>2, <1>3 DEF TypeOK, Statements, Key
<1>5. BatchInv' /\ RetryInv'
  BY <1>1 DEF BatchInv, RetryInv
<1>6. CursorInv' /\ DlqInv' /\ ParkedInv' /\ ResolvedMeansDelivered'
  <2>1. CursorInv' /\ DlqInv' /\ ResolvedMeansDelivered'
    BY DEF CursorInv, Committed, DlqInv, ResolvedMeansDelivered, Delivered,
           Statements, Key
  <2>2. crashes' \in Nat
    BY BoundsAssumption
  <2>3. worker.phase # "batch" => \A j \in Ids : Handled(j) => Handled(j)'
    BY DEF Handled, InBatch
  <2>4. ParkedInv'
    BY <2>2, <2>3, ParkedStays
  <2>5. QED
    BY <2>1, <2>4
<1>7. NothingLostUnlessOvertaken'
  <2>1. \A j \in Ids : InDeadLetters(j) => InDeadLetters(j)'
    BY DEF InDeadLetters
  <2>2. \A j \in Ids : Accounted(j) => Accounted(j)'
    BY <2>1, AccountedStays
  <2>3. QED
    BY <2>2 DEF NothingLostUnlessOvertaken, Committed
<1>8. QED
  BY <1>4, <1>5, <1>6, <1>7

LEMMA EndTickStep ==
    ASSUME IInv, EndTick
    PROVE  IInv'
<1>1. /\ worker' = Resting
      /\ UNCHANGED <<kind, ref, audit, cursor, notified, dlq, registry, overtaken>>
      /\ crashes' = crashes /\ registry' \subseteq registry
      /\ worker.phase # "batch"
  BY DEF EndTick
<1>2. QED
  BY <1>1, RestStep DEF IInv, TypeOK

-----------------------------------------------------------------------------
(* Time and failure.                                                       *)

LEMMA RetryFallsDueStep ==
    ASSUME IInv, NEW d \in DlqIds, RetryFallsDue(d)
    PROVE  IInv'
<1> USE DEF IInv
<1>1. /\ dlq' = [dlq EXCEPT ![d].due = TRUE]
      /\ UNCHANGED <<kind, ref, audit, cursor, notified, registry, worker, crashes, overtaken>>
  BY DEF RetryFallsDue
<1>2. dlq \in [DlqIds -> [event : Ids \cup {0}, attempts : 0 .. MaxAttempts,
                          due : BOOLEAN, state : DlqStates]]
  BY DEF TypeOK
<1>3. dlq' \in [DlqIds -> [event : Ids \cup {0}, attempts : 0 .. MaxAttempts,
                           due : BOOLEAN, state : DlqStates]]
  BY <1>1, <1>2
<1>4. \A e \in DlqIds : /\ dlq'[e].event = dlq[e].event
                        /\ dlq'[e].attempts = dlq[e].attempts
                        /\ dlq'[e].state = dlq[e].state
  BY <1>1, <1>2
<1>5. TypeOK'
  BY <1>1, <1>3 DEF TypeOK, Statements, Key
<1>6. CursorInv' /\ ParkedInv'
  <2>1. \A j \in Ids : Handled(j) => Handled(j)'
    BY <1>1 DEF Handled, InBatch, Running
  <2>2. ParkedInv'
    BY <1>1, <1>4, <2>1, BoundsAssumption, ParkedStays DEF TypeOK
  <2>3. QED
    BY <1>1, <2>2 DEF CursorInv, Committed
<1>7. \A j \in Ids : InDeadLetters(j) <=> InDeadLetters(j)'
  BY <1>4 DEF InDeadLetters
<1>8. BatchInv'
  BY <1>1, <1>7 DEF BatchInv, Committed, InBatch, NotifiedUpTo, Statements, Key
<1>9. DlqInv' /\ ResolvedMeansDelivered'
  BY <1>1, <1>4 DEF DlqInv, ResolvedMeansDelivered, Delivered, Statements, Key
<1>10. RetryInv'
  <2>1. CASE worker.phase = "retry"
    <3>1. /\ worker.todo \subseteq DlqIds
          /\ \A e \in worker.todo : /\ dlq'[e].state = "waiting"
                                    /\ dlq'[e].attempts < MaxAttempts
      BY <1>4, <2>1 DEF RetryInv
    <3>2. CASE worker.row = 0
      BY <1>1, <2>1, <3>1, <3>2 DEF RetryInv
    <3>3. CASE worker.row # 0
      <4>1. dlq'[worker.row].event = dlq[worker.row].event
        BY <1>4, <2>1, <3>3 DEF RetryInv
      <4>2. QED
        BY <1>1, <2>1, <3>1, <3>3, <4>1 DEF RetryInv, NotifiedUpTo, Statements, Key
    <3>4. QED
      BY <3>2, <3>3
  <2>2. CASE worker.phase # "retry"
    BY <1>1, <2>2 DEF RetryInv
  <2>3. QED
    BY <2>1, <2>2
<1>11. NothingLostUnlessOvertaken'
  <2>1. \A j \in Ids : Accounted(j) => Accounted(j)'
    BY <1>1, <1>7, AccountedStays
  <2>2. QED
    BY <1>1, <2>1 DEF NothingLostUnlessOvertaken, Committed
<1>12. QED
  BY <1>5, <1>6, <1>8, <1>9, <1>10, <1>11

LEMMA TickFailsStep ==
    ASSUME IInv, TickFails
    PROVE  IInv'
<1>1. /\ worker' = Resting
      /\ UNCHANGED <<kind, ref, audit, cursor, notified, dlq, registry, overtaken>>
      /\ registry' \subseteq registry
  BY DEF TickFails
<1>2. crashes' \in 0 .. MaxCrashes /\ crashes' = crashes + 1
  BY BoundsAssumption DEF TickFails, IInv, TypeOK
<1>3. QED
  BY <1>1, <1>2, RestStep

LEMMA DeployWithoutStep ==
    ASSUME IInv, NEW k \in Kinds, DeployWithout(k)
    PROVE  IInv'
<1>1. /\ worker' = Resting
      /\ UNCHANGED <<kind, ref, audit, cursor, notified, dlq, overtaken>>
      /\ registry' \subseteq registry
  BY DEF DeployWithout
<1>2. crashes' \in 0 .. MaxCrashes /\ crashes' = crashes + 1
  BY BoundsAssumption DEF DeployWithout, IInv, TypeOK
<1>3. QED
  BY <1>1, <1>2, RestStep

-----------------------------------------------------------------------------
(* Every step, and the theorems.                                           *)

LEMMA NextIInv ==
    ASSUME IInv, [Next]_vars
    PROVE  IInv'
<1>1. CASE UNCHANGED vars
  <2>1. UNCHANGED <<kind, ref, audit, cursor, notified, dlq, registry, worker, crashes, overtaken>>
    BY <1>1 DEF vars
  <2>2. TypeOK' /\ CursorInv' /\ DlqInv'
    BY <2>1 DEF IInv, TypeOK, Statements, Key, CursorInv, Committed, DlqInv
  <2>3. BatchInv' /\ RetryInv'
    BY <2>1 DEF IInv, BatchInv, RetryInv, InBatch, NotifiedUpTo, InDeadLetters, Key,
                Statements, Committed
  <2>4. ParkedInv' /\ ResolvedMeansDelivered' /\ NothingLostUnlessOvertaken'
    BY <2>1 DEF IInv, ParkedInv, Parked, Handled, InBatch, Running, Key,
                ResolvedMeansDelivered, Delivered,
                NothingLostUnlessOvertaken, Accounted, InDeadLetters, Statements,
                Committed
  <2>5. QED
    BY <2>2, <2>3, <2>4 DEF IInv
<1>2. ASSUME NEW id \in Ids, Emit(id) \/ RollBack(id)
      PROVE  IInv'
  BY <1>2, EmitStep
<1>3. ASSUME NEW id \in Ids, CommitTransaction(id)
      PROVE  IInv'
  BY <1>3, CommitStep
<1>4. CASE ReadBatch
  BY <1>4, ReadBatchStep
<1>5. ASSUME NEW id \in Ids, RunInsert(id)
      PROVE  IInv'
  BY <1>5, RunInsertStep
<1>6. ASSUME NEW id \in Ids, HandlerFails(id)
      PROVE  IInv'
  BY <1>6, ParkStep
<1>7. ASSUME NEW id \in Ids, AdvanceCursor(id)
      PROVE  IInv'
  BY <1>7, AdvanceStep
<1>8. CASE ReadDeadLetters
  BY <1>8, ReadDeadLettersStep
<1>9. ASSUME NEW d \in DlqIds, HandlerGone(d)
      PROVE  IInv'
  BY <1>9, HandlerGoneStep
<1>10. ASSUME NEW d \in DlqIds, RetryInsert(d)
       PROVE  IInv'
  BY <1>10, RetryInsertStep
<1>11. ASSUME NEW d \in DlqIds, RetryResolves(d)
       PROVE  IInv'
  BY <1>11, RetryResolvesStep
<1>12. ASSUME NEW d \in DlqIds, RetryFails(d)
       PROVE  IInv'
  BY <1>12, RetryFailsStep
<1>13. CASE EndTick
  BY <1>13, EndTickStep
<1>14. ASSUME NEW d \in DlqIds, RetryFallsDue(d)
       PROVE  IInv'
  BY <1>14, RetryFallsDueStep
<1>15. CASE TickFails
  BY <1>15, TickFailsStep
<1>16. ASSUME NEW k \in Kinds, DeployWithout(k)
       PROVE  IInv'
  BY <1>16, DeployWithoutStep
<1>17. QED
  BY <1>1, <1>2, <1>3, <1>4, <1>5, <1>6, <1>7, <1>8, <1>9, <1>10, <1>11, <1>12,
     <1>13, <1>14, <1>15, <1>16 DEF Next, WorkerStep

\* The invariant holds in every reachable state of the event spine.
THEOREM Inductive == Spec => []IInv
<1>1. Init => IInv
  BY InitIInv
<1>2. IInv /\ [Next]_vars => IInv'
  BY NextIInv
<1>3. QED
  BY <1>1, <1>2, PTL DEF Spec

\* The state of the spine keeps its type: in particular a dead letter never
\* counts more than MAX_ATTEMPTS attempts (worker/main.py, _retry_dlq).
THEOREM TypeCorrect == Spec => []TypeOK
<1>1. IInv => TypeOK
  BY DEF IInv
<1>2. QED
  BY <1>1, Inductive, PTL

\* An event is parked once for every crash after its parking, and once more
\* (worker/main.py, _dlq_insert and the UPDATE of worker_cursors after it).
THEOREM ParkedOnce == Spec => []ParkedOncePerCrash
<1>1. IInv => ParkedOncePerCrash
  BY DEF IInv, ParkedInv, ParkedOncePerCrash
<1>2. QED
  BY <1>1, Inductive, PTL

\* The cursor (worker/main.py, _process_batch) leaves no event behind
\* undelivered and unparked, but those that committed out of id order.
THEOREM NothingLost == Spec => []NothingLostUnlessOvertaken
<1>1. IInv => NothingLostUnlessOvertaken
  BY DEF IInv
<1>2. QED
  BY <1>1, Inductive, PTL

\* A dead letter marked resolved (worker/main.py, _retry_dlq) has all the
\* notifications of its event.
THEOREM ResolvedDelivered == Spec => []ResolvedMeansDelivered
<1>1. IInv => ResolvedMeansDelivered
  BY DEF IInv
<1>2. QED
  BY <1>1, Inductive, PTL

=============================================================================
