----------------------------- MODULE TraceQueue -----------------------------
(***************************************************************************)
(* The Development trace (src/src/ir_service.c): every record a Task or an *)
(* ISR writes into its ring is copied to the bounded queue of its context, *)
(* and the service drains both queues into a sink that may be absent or    *)
(* fail.                                                                   *)
(*                                                                         *)
(* IR_InternalWriteRecord stamps a record in one critical section and      *)
(* queues it in the next, so others may run in between; the service counts *)
(* a record its sink refused outside any.                                  *)
(***************************************************************************)
EXTENDS Integers, FiniteSets, Sequences

CONSTANTS
    Tasks, Isrs,     \* who reports
    QueueRecords,    \* IR_DEV_TRACE_QUEUE_RECORDS
    Budget,          \* IR_SERVICE_TRACE_BUDGET
    TimeMod,         \* modulus of the 32-bit timestamp
    LostMax,         \* UINT32_MAX, where dev_trace_lost_count saturates
    ServiceLowest,   \* TRUE: the service Task has the lowest priority, so it
                     \* runs only while nobody is inside a report
    Corruption,      \* TRUE: a stray write may put an index out of range
    MaxRecords,      \* bound: records written
    MaxFaults        \* bound: failures and removals of the sink, stray writes

ASSUME TraceAssumption ==
    /\ {QueueRecords, Budget, TimeMod, LostMax} \subseteq Nat \ {0}
    /\ {MaxRecords, MaxFaults} \subseteq Nat
    /\ {ServiceLowest, Corruption} \subseteq BOOLEAN
    /\ Tasks \intersect Isrs = {}

VARIABLES
    clock,                 \* the 32-bit timestamp
    made,                  \* history: records written so far
    hands,                 \* the stamped record each writer has yet to queue
    queue,                 \* g_ir_task_trace_queue, g_ir_isr_trace_queue
    lost,                  \* dev_trace_lost_count
    started,               \* trace_started
    svc, budget, hand,     \* the service, and the record it popped
    seen,                  \* lost as the service loaded it
    up,                    \* the sink is available
    written,               \* history: what the sink took, in order
    dropped,               \* history: records given up
    faults

writers == <<clock, made, hands>>
service == <<started, svc, budget, hand, seen>>
sink    == <<up, written, faults>>
vars    == <<writers, queue, lost, service, sink, dropped>>

Writers  == Tasks \union Isrs
Contexts == {"TASK", "ISR"}
Context(w) == IF w \in Isrs THEN "ISR" ELSE "TASK"
None   == [born |-> 0, stamp |-> 0]
Record == [born : 0 .. MaxRecords, stamp : 0 .. TimeMod - 1]
Slots  == 0 .. QueueRecords - 1
Queue  == [record : [Slots -> Record], read : 0 .. QueueRecords,
           write : 0 .. QueueRecords, count : 0 .. QueueRecords]

Init ==
    /\ clock = 0 /\ made = 0 /\ hands = [w \in Writers |-> None]
    /\ queue = [c \in Contexts |-> [record |-> [k \in Slots |-> None],
                                    read |-> 0, write |-> 0, count |-> 0]]
    /\ lost = 0 /\ started = FALSE
    /\ svc = "idle" /\ budget = 0 /\ hand = None /\ seen = 0
    /\ up = TRUE /\ written = <<>> /\ dropped = {} /\ faults = 0

\* Definitions named Bug... are variants with one plausible mistake; they show
\* that the properties notice it and are used nowhere else.

\* IR_InternalValidateTraceQueue
Valid(q) == q.read \in Slots /\ q.write \in Slots /\ q.count <= QueueRecords
Advance(k) == IF k + 1 >= QueueRecords THEN 0 ELSE k + 1
BugFull(q) == q.count > QueueRecords
Full(q) == q.count >= QueueRecords
First(q) == q.record[q.read]
Pushed(q, r) == [record |-> [q.record EXCEPT ![q.write] = r], read |-> q.read,
                 write |-> Advance(q.write), count |-> q.count + 1]
BugPopped(q) == [q EXCEPT !.count = @ - 1]
Popped(q) == [record |-> q.record, read |-> Advance(q.read),
              write |-> q.write, count |-> q.count - 1]

\* IR_InternalSaturatingIncrement
Increment(n) == IF n < LostMax THEN n + 1 ELSE n

Intact == \A c \in Contexts : Valid(queue[c])
-----------------------------------------------------------------------------
(* Writers *)

\* The first critical section of IR_InternalWriteRecord.
Stamp(w) ==
    /\ hands[w] = None /\ made < MaxRecords
    /\ made' = made + 1
    /\ clock' \in {clock, (clock + 1) % TimeMod}
    /\ hands' = [hands EXCEPT ![w] = [born |-> made', stamp |-> clock']]
    /\ UNCHANGED <<queue, lost, service, sink, dropped>>

\* IR_InternalQueueDevelopmentTrace: the second one.
Queueing(w) ==
    /\ hands[w] # None
    /\ hands' = [hands EXCEPT ![w] = None]
    /\ UNCHANGED <<clock, made, service, sink>>

Push(w) ==
    LET q == queue[Context(w)] IN
    /\ Queueing(w) /\ Valid(q) /\ ~Full(q)
    /\ queue' = [queue EXCEPT ![Context(w)] = Pushed(q, hands[w])]
    /\ UNCHANGED <<lost, dropped>>

BugLose == UNCHANGED lost
Lose == lost' = Increment(lost)

PushLost(w) ==
    LET q == queue[Context(w)] IN
    /\ Queueing(w)
    /\ ~Valid(q) \/ Full(q)
    /\ Lose
    /\ dropped' = dropped \union {hands[w].born}
    /\ UNCHANGED queue
-----------------------------------------------------------------------------
(* IR_ServiceProcessContinuousTrace *)

Running == ServiceLowest => \A w \in Writers : hands[w] = None

BugAvailable == up /\ ~started
Available == up

BeginDrain ==
    /\ Running /\ svc = "idle" /\ Available
    /\ started' = TRUE
    /\ svc' = "pop" /\ budget' = Budget
    /\ UNCHANGED <<writers, queue, lost, hand, seen, sink, dropped>>

\* The sink does not begin: nothing is popped, nothing lost, nothing changed
\* but the health flags.
BeginFails ==
    /\ Running /\ svc = "idle" /\ up /\ ~started
    /\ faults < MaxFaults /\ faults' = faults + 1
    /\ UNCHANGED <<writers, queue, lost, service, up, written, dropped>>

\* The older head; the Task's if they are as old.
BugPicked ==
    IF queue["ISR"].count # 0 THEN "ISR" ELSE "TASK"
Picked ==
    IF queue["TASK"].count = 0 THEN "ISR"
    ELSE IF queue["ISR"].count = 0 THEN "TASK"
    ELSE IF First(queue["TASK"]).stamp <= First(queue["ISR"]).stamp
         THEN "TASK" ELSE "ISR"

\* IR_InternalPopDevelopmentTrace
Pop ==
    /\ Running /\ svc = "pop" /\ Intact
    /\ \E c \in Contexts : queue[c].count # 0
    /\ hand' = First(queue[Picked])
    /\ queue' = [queue EXCEPT ![Picked] = Popped(@)]
    /\ svc' = "write"
    /\ UNCHANGED <<writers, lost, started, budget, seen, sink, dropped>>

\* An index out of range stops the trace and counts at every call.
BugCountInvalid == UNCHANGED lost
CountInvalid == lost' = IF Intact THEN lost ELSE Increment(lost)

PopNothing ==
    /\ Running /\ svc = "pop"
    /\ Intact => \A c \in Contexts : queue[c].count = 0
    /\ CountInvalid
    /\ svc' = "idle" /\ budget' = 0
    /\ UNCHANGED <<writers, queue, started, hand, seen, sink, dropped>>

Write ==
    /\ Running /\ svc = "write" /\ up
    /\ written' = Append(written, hand)
    /\ hand' = None /\ budget' = budget - 1
    /\ svc' = IF budget' = 0 THEN "idle" ELSE "pop"
    /\ UNCHANGED <<writers, queue, lost, started, seen, up, dropped, faults>>

\* A refused record is counted by a load and a store.
WriteFails ==
    /\ Running /\ svc = "write" /\ svc' = "count"
    /\ IF up THEN faults < MaxFaults /\ faults' = faults + 1
             ELSE UNCHANGED faults
    /\ seen' = lost
    /\ UNCHANGED <<writers, queue, lost, started, budget, hand, up, written,
                   dropped>>

CountLost ==
    /\ Running /\ svc = "count" /\ svc' = "idle"
    /\ lost' = Increment(seen)
    /\ dropped' = dropped \union {hand.born}
    /\ hand' = None /\ budget' = 0 /\ seen' = 0
    /\ UNCHANGED <<writers, queue, started, sink>>

Service == BeginDrain \/ BeginFails \/ Pop \/ PopNothing \/ Write \/ WriteFails
           \/ CountLost
-----------------------------------------------------------------------------
(* The sink and stray writes *)

Remove ==
    /\ up /\ faults < MaxFaults
    /\ up' = FALSE /\ faults' = faults + 1
    /\ UNCHANGED <<writers, queue, lost, service, written, dropped>>

Insert ==
    /\ ~up /\ up' = TRUE
    /\ UNCHANGED <<writers, queue, lost, service, written, faults, dropped>>

CorruptQueue(c) ==
    /\ Corruption /\ Intact /\ faults < MaxFaults /\ faults' = faults + 1
    /\ \/ queue' = [queue EXCEPT ![c].read = QueueRecords]
       \/ queue' = [queue EXCEPT ![c].write = QueueRecords]
    /\ UNCHANGED <<writers, lost, service, up, written, dropped>>

Report(w) == Stamp(w) \/ Push(w) \/ PushLost(w)
Next == \/ \E w \in Writers : Report(w)
        \/ Service \/ Remove \/ Insert
        \/ \E c \in Contexts : CorruptQueue(c)

Spec == Init /\ [][Next]_vars

\* A writer finishes its report, the service Task runs again and again, and a
\* removed sink comes back.
Fairness == /\ \A w \in Writers : WF_vars(Push(w) \/ PushLost(w))
            /\ WF_vars(Service) /\ WF_vars(Insert)
FairSpec == Spec /\ Fairness
-----------------------------------------------------------------------------
(* Properties *)

\* Type invariant.
TypeOK ==
    /\ clock \in 0 .. TimeMod - 1 /\ made \in 0 .. MaxRecords
    /\ hands \in [Writers -> Record] /\ queue \in [Contexts -> Queue]
    /\ lost \in 0 .. LostMax /\ seen \in 0 .. LostMax
    /\ started \in BOOLEAN /\ svc \in {"idle", "pop", "write", "count"}
    /\ budget \in 0 .. Budget /\ hand \in Record
    /\ up \in BOOLEAN /\ written \in Seq(Record)
    /\ dropped \subseteq 1 .. MaxRecords /\ faults \in 0 .. MaxFaults

\* The slots that hold a record of q, by distance from the oldest.
Live(q) == {k \in Slots : (k - q.read) % QueueRecords < q.count}

Places(n) ==
    Cardinality({w \in Writers : hands[w].born = n})
    + Cardinality({p \in Contexts \X Slots :
                     /\ p[2] \in Live(queue[p[1]])
                     /\ queue[p[1]].record[p[2]].born = n})
    + Cardinality({i \in 1 .. Len(written) : written[i].born = n})
    + (IF hand.born = n THEN 1 ELSE 0) + (IF n \in dropped THEN 1 ELSE 0)

\* Every record written is in one place: with its writer, in a queue, with the
\* service, in the sink or given up.  None vanishes, none is written twice, at
\* any fill of the queues, whatever the sink does.
Accounted == Intact => \A n \in 1 .. made : Places(n) = 1

\* A loss never goes unnoticed, and none is invented, although the service
\* counts outside the lock and the counter saturates.
LossReported ==
    Intact =>
      /\ (lost > 0) <=> (dropped # {})
      /\ lost <= Cardinality(dropped)

\* A queue whose index was overwritten shows in the loss counter, although
\* nobody reports any more.
StrayReported == ~Intact ~> lost > 0

\* The sink receives the records by timestamp, as "Pops the oldest Development
\* trace record across Task/ISR queues by timestamp" says, if neither a
\* Task nor an ISR is preempted by another of its kind, or a Task by the service,
\* between its stamp and its push, and the timestamp does not wrap around.
OutputOrdered ==
    Cardinality(Tasks) <= 1 /\ Cardinality(Isrs) <= 1 /\ ServiceLowest
      /\ MaxRecords < TimeMod =>
        \A i, j \in 1 .. Len(written) :
          i < j => written[i].stamp <= written[j].stamp

\* Every record written reaches the sink or is given up, unless a queue's index
\* was overwritten.
Delivered ==
    \A n \in 1 .. MaxRecords :
      made >= n ~> \/ n \in dropped \/ ~Intact
                   \/ \E i \in 1 .. Len(written) : written[i].born = n
=============================================================================
