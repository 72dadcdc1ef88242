----------------------------- MODULE TraceProofs ----------------------------
(***************************************************************************)
(* Proofs about TraceQueue, for any number of Tasks and ISRs, any length   *)
(* of the queues, any budget and any maximum of the counter: types; that   *)
(* the loss counter is positive exactly when a record was given up and     *)
(* never exceeds their number; that every record is somewhere until it is  *)
(* put out or given up; and that what is put out is in order.              *)
(*                                                                         *)
(* TraceInv says, while no stray write has touched a queue, that every     *)
(* record underway is in one place only and not among those given up; so   *)
(* each loss adds a new one, and the stale copy of the counter that the    *)
(* service stores back is covered by those before it.  CoverInv says where *)
(* each record made is.  OrderInv says that what waits with a writer or in *)
(* a queue is no older than what the service took, and than what waits     *)
(* before it in its own queue.                                             *)
(***************************************************************************)
EXTENDS TraceQueue, FiniteSetTheorems, TLAPS

USE TraceAssumption

-----------------------------------------------------------------------------
(* Type correctness *)

\* The places of a queue that hold a record, by their distance from the oldest
\* and without division.
Distance(q, k) ==
    IF k >= q.read THEN k - q.read ELSE k + QueueRecords - q.read
Holds(q, k) == k \in Slots /\ Distance(q, k) < q.count

\* A valid queue writes behind its newest record.
Shaped(q) ==
    Valid(q) => q.write = IF q.read + q.count < QueueRecords
                          THEN q.read + q.count
                          ELSE q.read + q.count - QueueRecords

\* The constants as numbers, and the queue of each writer.
LEMMA ConstantTypes ==
    /\ QueueRecords \in Nat \ {0} /\ Budget \in Nat \ {0} /\ TimeMod \in Nat \ {0}
    /\ LostMax \in Nat \ {0} /\ MaxRecords \in Nat /\ MaxFaults \in Nat
    /\ Isrs \subseteq Writers /\ Tasks \subseteq Writers
    /\ \A w \in Writers : Context(w) \in Contexts
BY DEF Writers, Context, Contexts

\* An index stays in range.
LEMMA AdvanceType ==
    \A k \in Slots : Advance(k) \in Slots
BY ConstantTypes DEF Slots, Advance

\* The fields of a queue.
LEMMA QueueFields ==
    ASSUME NEW q \in Queue
    PROVE  /\ q.record \in [Slots -> Record] /\ q.read \in 0 .. QueueRecords
           /\ q.write \in 0 .. QueueRecords /\ q.count \in 0 .. QueueRecords
BY DEF Queue

\* A push keeps the types.
LEMMA PushedType ==
    ASSUME NEW q \in Queue, Valid(q), ~ Full(q), NEW r \in Record
    PROVE  Pushed(q, r) \in Queue
<1>1. Advance(q.write) \in 0 .. QueueRecords
  BY AdvanceType, ConstantTypes DEF Valid, Slots
<1>2. q.count + 1 \in 0 .. QueueRecords
  BY QueueFields, ConstantTypes DEF Full
<1>3. [q.record EXCEPT ![q.write] = r] \in [Slots -> Record]
  BY QueueFields DEF Valid
<1> QED
  BY <1>1, <1>2, <1>3, QueueFields DEF Pushed, Queue

\* A pop keeps the types and yields a record.
LEMMA PoppedType ==
    ASSUME NEW q \in Queue, Valid(q), q.count # 0
    PROVE  Popped(q) \in Queue /\ First(q) \in Record
<1>1. Advance(q.read) \in 0 .. QueueRecords
  BY AdvanceType, ConstantTypes DEF Valid, Slots
<1>2. q.count - 1 \in 0 .. QueueRecords
  BY QueueFields, ConstantTypes
<1> QED
  BY <1>1, <1>2, QueueFields DEF Popped, Queue, First, Valid

\* A stray write leaves a queue one could read.
LEMMA OverwrittenType ==
    ASSUME NEW q \in Queue
    PROVE  /\ [q EXCEPT !.read = QueueRecords] \in Queue
           /\ [q EXCEPT !.write = QueueRecords] \in Queue
<1>1. QueueRecords \in 0 .. QueueRecords
  BY ConstantTypes
<1> QED
  BY <1>1 DEF Queue

\* The queue picked has a record.
LEMMA PickedIn ==
    ASSUME TypeOK, \E c \in Contexts : queue[c].count # 0
    PROVE  Picked \in Contexts /\ queue[Picked].count # 0
BY DEF Picked, Contexts

\* The absent record has the type of records.
LEMMA NoneType == None \in Record
BY ConstantTypes DEF None, Record

\* Every step keeps the types, if records underway are real ones.
LEMMA TypeStep ==
    TypeOK /\ (svc # "idle" => budget # 0) /\ (svc \in {"write", "count"} => hand.born # 0)
      /\ (\A w \in Writers : hands[w] # None => hands[w].born # 0)
      /\ [Next]_vars => TypeOK'
<1> SUFFICES ASSUME TypeOK, svc # "idle" => budget # 0,
                    svc \in {"write", "count"} => hand.born # 0,
                    \A w \in Writers : hands[w] # None => hands[w].born # 0,
                    [Next]_vars
             PROVE  TypeOK'
  OBVIOUS
<1> USE ConstantTypes, NoneType DEF TypeOK
<1>1. ASSUME NEW w \in Writers, Stamp(w) PROVE TypeOK'
  <2>1. clock' \in 0 .. TimeMod - 1
    BY <1>1 DEF Stamp
  <2>2. made' \in 1 .. MaxRecords
    BY <1>1 DEF Stamp
  <2>3. [born |-> made', stamp |-> clock'] \in Record
    BY <2>1, <2>2 DEF Record
  <2> QED
    BY <1>1, <2>1, <2>2, <2>3 DEF Stamp, service, sink
<1>2. ASSUME NEW w \in Writers, Push(w) PROVE TypeOK'
  <2>1. queue[Context(w)] \in Queue /\ hands[w] \in Record
    OBVIOUS
  <2>2. Pushed(queue[Context(w)], hands[w]) \in Queue
    BY <1>2, <2>1, PushedType DEF Push
  <2> QED
    BY <1>2, <2>2 DEF Push, Queueing, service, sink
<1>3. ASSUME NEW w \in Writers, PushLost(w) PROVE TypeOK'
  <2>1. hands[w] \in Record /\ hands[w].born # 0
    BY <1>3 DEF PushLost, Queueing
  <2>2. hands[w].born \in 1 .. MaxRecords
    BY <2>1 DEF Record
  <2>3. lost' \in 0 .. LostMax
    BY <1>3 DEF PushLost, Lose, Increment
  <2> QED
    BY <1>3, <2>2, <2>3 DEF PushLost, Queueing, service, sink
<1>4. CASE BeginDrain \/ BeginFails \/ Remove \/ Insert
  <2>1. CASE BeginDrain
    BY <2>1 DEF BeginDrain, writers, sink
  <2>2. CASE BeginFails \/ Remove
    <3>1. faults' \in 0 .. MaxFaults
      BY <2>2 DEF BeginFails, Remove
    <3> QED
      BY <2>2, <3>1 DEF BeginFails, Remove, writers, service
  <2>3. CASE Insert
    BY <2>3 DEF Insert, writers, service
  <2> QED
    BY <1>4, <2>1, <2>2, <2>3
<1>5. CASE Pop
  <2>1. Picked \in Contexts /\ queue[Picked] \in Queue
        /\ Valid(queue[Picked]) /\ queue[Picked].count # 0
    BY <1>5, PickedIn DEF Pop, Intact
  <2>2. Popped(queue[Picked]) \in Queue /\ First(queue[Picked]) \in Record
    BY <2>1, PoppedType
  <2> QED
    BY <1>5, <2>1, <2>2 DEF Pop, writers, sink
<1>6. CASE PopNothing
  BY <1>6 DEF PopNothing, CountInvalid, Increment, writers, sink
<1>7. CASE Write
  BY <1>7 DEF Write, writers
<1>8. CASE WriteFails
  BY <1>8 DEF WriteFails, writers
<1>9. CASE CountLost
  <2>1. hand.born \in 1 .. MaxRecords
    BY <1>9 DEF CountLost, Record
  <2>2. lost' \in 0 .. LostMax
    BY <1>9 DEF CountLost, Increment
  <2>3. dropped' \subseteq 1 .. MaxRecords
    BY <1>9, <2>1 DEF CountLost
  <2>4. budget' \in 0 .. Budget /\ seen' \in 0 .. LostMax /\ hand' \in Record
    BY <1>9 DEF CountLost
  <2>5. UNCHANGED <<clock, made, hands, queue, started, up, written, faults>>
        /\ svc' = "idle"
    BY <1>9 DEF CountLost, writers, sink
  <2> QED
    BY <2>2, <2>3, <2>4, <2>5
<1>10. ASSUME NEW c \in Contexts, CorruptQueue(c) PROVE TypeOK'
  <2>1. queue[c] \in Queue /\ QueueRecords \in 0 .. QueueRecords
    OBVIOUS
  <2>2. [queue[c] EXCEPT !.read = QueueRecords] \in Queue
        /\ [queue[c] EXCEPT !.write = QueueRecords] \in Queue
    BY <2>1, OverwrittenType
  <2>3. \/ queue' = [queue EXCEPT ![c] = [queue[c] EXCEPT !.read = QueueRecords]]
        \/ queue' = [queue EXCEPT ![c] = [queue[c] EXCEPT !.write = QueueRecords]]
    BY <1>10 DEF CorruptQueue
  <2>4. queue' \in [Contexts -> Queue]
    BY <2>2, <2>3
  <2> QED
    BY <1>10, <2>4 DEF CorruptQueue, writers, service
<1>11. CASE UNCHANGED vars
  BY <1>11 DEF vars, writers, service, sink
<1> QED
  BY <1>1, <1>2, <1>3, <1>4, <1>5, <1>6, <1>7, <1>8, <1>9, <1>10, <1>11
     DEF Next, Report, Service

-----------------------------------------------------------------------------
(* Where the records are *)

Carrying == svc \in {"write", "count"}
Abroad   == (1 .. made) \ dropped
Born(c, k) == queue[c].record[k].born

\* What holds whether or not an index was overwritten.
HandInv ==
    /\ svc # "idle" => budget # 0
    /\ Carrying => hand.born # 0
    /\ \A w \in Writers : hands[w] # None => hands[w].born # 0

\* No record is in two places, and none in a place is given up.
PlaceInv ==
    /\ dropped \subseteq 1 .. made
    /\ \A w \in Writers : hands[w] # None => hands[w].born \in Abroad
    /\ \A w, v \in Writers :
         w # v /\ hands[w] # None => hands[v].born # hands[w].born
    /\ Carrying => hand.born \in Abroad
    /\ Carrying => \A w \in Writers : hands[w].born # hand.born
    /\ \A c \in Contexts : Shaped(queue[c])
    /\ \A c \in Contexts, k \in Slots : Holds(queue[c], k) =>
         /\ Born(c, k) \in Abroad
         /\ \A w \in Writers : hands[w].born # Born(c, k)
         /\ Carrying => hand.born # Born(c, k)
    /\ \A c, d \in Contexts, k, l \in Slots :
         Holds(queue[c], k) /\ Holds(queue[d], l) /\ (c # d \/ k # l) =>
           Born(c, k) # Born(d, l)

\* The counter against the records given up, with what the service loaded.
LossInv ==
    /\ (lost > 0) <=> (dropped # {})
    /\ lost <= Cardinality(dropped)
    /\ svc = "count" => seen <= Cardinality(dropped)

TraceInv == TypeOK /\ HandInv /\ (Intact => PlaceInv /\ LossInv)

\* A push adds one place and disturbs no other.
LEMMA PushedHolds ==
    ASSUME NEW q \in Queue, Valid(q), Shaped(q), ~ Full(q), NEW r \in Record
    PROVE  /\ Shaped(Pushed(q, r))
           /\ Pushed(q, r).record[q.write] = r
           /\ \A k \in Slots : Holds(Pushed(q, r), k) /\ k # q.write =>
                Holds(q, k) /\ Pushed(q, r).record[k] = q.record[k]
<1> DEFINE p == Pushed(q, r)
<1>1. /\ p.read = q.read /\ p.write = Advance(q.write) /\ p.count = q.count + 1
      /\ p.record = [q.record EXCEPT ![q.write] = r]
  BY DEF Pushed
<1>2. /\ q.read \in Slots /\ q.write \in Slots /\ q.count \in Nat
      /\ q.count < QueueRecords
      /\ q.write = IF q.read + q.count < QueueRecords THEN q.read + q.count
                   ELSE q.read + q.count - QueueRecords
      /\ q.record \in [Slots -> Record]
  BY ConstantTypes, QueueFields DEF Valid, Shaped, Full
<1> HIDE DEF p
<1>3. Shaped(p)
  BY <1>1, <1>2, ConstantTypes DEF Shaped, Advance, Slots
<1>4. ASSUME NEW k \in Slots, Holds(p, k), k # q.write
      PROVE  Holds(q, k)
  BY <1>1, <1>2, <1>4, ConstantTypes DEF Holds, Distance, Slots
<1>5. p.record[q.write] = r /\ \A k \in Slots : k # q.write => p.record[k] = q.record[k]
  BY <1>1, <1>2
<1> QED
  BY <1>3, <1>4, <1>5 DEF p

\* A pop vacates the oldest place and disturbs no other.
LEMMA PoppedHolds ==
    ASSUME NEW q \in Queue, Valid(q), Shaped(q), q.count # 0
    PROVE  /\ Shaped(Popped(q))
           /\ q.read \in Slots /\ Holds(q, q.read)
           /\ \A k \in Slots : Holds(Popped(q), k) =>
                Holds(q, k) /\ k # q.read /\ Popped(q).record[k] = q.record[k]
<1> DEFINE p == Popped(q)
<1>1. /\ p.read = Advance(q.read) /\ p.write = q.write /\ p.count = q.count - 1
      /\ p.record = q.record
  BY DEF Popped
<1>2. /\ q.read \in Slots /\ q.write \in Slots /\ q.count \in 1 .. QueueRecords
      /\ q.write = IF q.read + q.count < QueueRecords THEN q.read + q.count
                   ELSE q.read + q.count - QueueRecords
  BY ConstantTypes, QueueFields DEF Valid, Shaped
<1> HIDE DEF p
<1>3. Shaped(p)
  BY <1>1, <1>2, ConstantTypes DEF Shaped, Advance, Slots
<1>4. Holds(q, q.read)
  BY <1>2, ConstantTypes DEF Holds, Distance, Slots
<1>5. ASSUME NEW k \in Slots, Holds(p, k)
      PROVE  Holds(q, k) /\ k # q.read
  BY <1>1, <1>2, <1>5, ConstantTypes DEF Holds, Distance, Slots, Advance
<1> QED
  BY <1>1, <1>2, <1>3, <1>4, <1>5 DEF p

\* An index once overwritten is never repaired.
LEMMA IntactStep ==
    ASSUME TypeOK, [Next]_vars, Intact'
    PROVE  Intact
<1>1. CASE \E w \in Writers : Push(w)
  <2>1. PICK w \in Writers : Push(w)
    BY <1>1
  <2>2. /\ Valid(queue[Context(w)])
        /\ \A c \in Contexts : c # Context(w) => queue'[c] = queue[c]
    BY <2>1 DEF Push, TypeOK
  <2> QED
    BY <2>2 DEF Intact
<1>2. CASE Pop
  BY <1>2 DEF Pop
<1>3. CASE \E c \in Contexts : CorruptQueue(c)
  BY <1>3 DEF CorruptQueue
<1>4. CASE UNCHANGED queue
  BY <1>4 DEF Intact
<1> QED
  BY <1>1, <1>2, <1>3, <1>4 DEF Next, Report, Service, Stamp, PushLost, BeginDrain,
     BeginFails, PopNothing, Write, WriteFails, CountLost, Remove, Insert,
     writers, service, sink, vars

\* Records underway stay real ones.
LEMMA HandStep ==
    ASSUME TraceInv, [Next]_vars
    PROVE  HandInv'
<1> USE ConstantTypes DEF TraceInv, TypeOK, HandInv, Carrying
<1>1. ASSUME NEW w \in Writers, Stamp(w) PROVE HandInv'
  <2>1. made' # 0 /\ hands' = [hands EXCEPT ![w] = [born |-> made', stamp |-> clock']]
    BY <1>1 DEF Stamp
  <2> QED
    BY <1>1, <2>1 DEF Stamp, service
<1>2. ASSUME NEW w \in Writers, Push(w) \/ PushLost(w) PROVE HandInv'
  BY <1>2 DEF Push, PushLost, Queueing, service
<1>3. CASE BeginDrain \/ BeginFails \/ Remove \/ Insert
  BY <1>3 DEF BeginDrain, BeginFails, Remove, Insert, writers, service
<1>4. CASE Pop
  <2>1. Picked \in Contexts /\ queue[Picked].count # 0
    BY <1>4, PickedIn DEF Pop
  <2>2. queue[Picked] \in Queue /\ Valid(queue[Picked]) /\ Shaped(queue[Picked])
    BY <1>4, <2>1 DEF Pop, Intact, PlaceInv
  <2>3. queue[Picked].read \in Slots /\ Holds(queue[Picked], queue[Picked].read)
    BY <2>1, <2>2, PoppedHolds
  <2>4. First(queue[Picked]).born # 0
    BY <1>4, <2>1, <2>3 DEF Pop, PlaceInv, Born, First, Abroad
  <2> QED
    BY <1>4, <2>4 DEF Pop, writers
<1>5. CASE PopNothing \/ CountLost
  BY <1>5 DEF PopNothing, CountLost, writers
<1>6. CASE Write
  BY <1>6 DEF Write, writers
<1>7. CASE WriteFails
  BY <1>7 DEF WriteFails, writers
<1>8. ASSUME NEW c \in Contexts, CorruptQueue(c) PROVE HandInv'
  BY <1>8 DEF CorruptQueue, writers, service
<1>9. CASE UNCHANGED vars
  BY <1>9 DEF vars, writers, service
<1> QED
  BY <1>1, <1>2, <1>3, <1>4, <1>5, <1>6, <1>7, <1>8, <1>9
     DEF Next, Report, Service

\* A step moves a record from one place to another.
LEMMA PlaceStep ==
    ASSUME TraceInv, [Next]_vars, Intact, Intact'
    PROVE  PlaceInv'
<1> USE ConstantTypes DEF TraceInv, TypeOK
<1>0. PlaceInv /\ HandInv
  OBVIOUS
\* The record is new.
<1>1. ASSUME NEW w \in Writers, Stamp(w) PROVE PlaceInv'
  <2>1. /\ made' = made + 1 /\ hands[w] = None
        /\ hands' = [hands EXCEPT ![w] = [born |-> made', stamp |-> clock']]
    BY <1>1 DEF Stamp
  <2>2. hands'[w].born = made + 1 /\ \A v \in Writers : v # w => hands'[v] = hands[v]
    <3>1. hands'[w] = [born |-> made', stamp |-> clock']
      BY <2>1
    <3>2. hands'[w].born = made'
      BY <3>1
    <3> QED
      BY <2>1, <3>2
  <2>3. /\ UNCHANGED <<queue, svc, hand, dropped>>
    BY <1>1 DEF Stamp, service
  <2>4. \A n \in Abroad : n \in Abroad' /\ n # made + 1
    BY <2>1, <2>3 DEF Abroad
  <2>5. made + 1 \in Abroad' /\ \A v \in Writers : hands[v].born # made + 1
    BY <1>0, <2>1, <2>3 DEF Abroad, PlaceInv, None
  <2>6. dropped' \subseteq 1 .. made'
    BY <1>0, <2>1, <2>3 DEF PlaceInv
  <2>7. Carrying' <=> Carrying
    BY <2>3 DEF Carrying
  <2>8. \A v \in Writers : hands[v] # None => hands[v].born \in Abroad
    BY <1>0 DEF PlaceInv
  <2>9. \A v \in Writers : hands'[v] # None => hands'[v].born \in Abroad'
    BY <2>2, <2>4, <2>5, <2>8
  <2>10. \A u, v \in Writers :
           u # v /\ hands'[u] # None => hands'[v].born # hands'[u].born
    BY <1>0, <2>2, <2>4, <2>5, <2>8 DEF PlaceInv
  <2>11. Carrying => /\ hand.born \in Abroad'
                     /\ \A v \in Writers : hands'[v].born # hand.born
    BY <1>0, <2>2, <2>4 DEF PlaceInv
  <2>12. \A c \in Contexts, k \in Slots : Holds(queue[c], k) =>
           /\ Born(c, k) \in Abroad'
           /\ \A v \in Writers : hands'[v].born # Born(c, k)
           /\ Carrying => hand.born # Born(c, k)
    BY <1>0, <2>2, <2>4 DEF PlaceInv
  <2> QED
    BY <1>0, <2>3, <2>6, <2>7, <2>9, <2>10, <2>11, <2>12 DEF PlaceInv, Born
\* The record moves behind the newest of its queue.
<1>2. ASSUME NEW w \in Writers, Push(w) PROVE PlaceInv'
  <2> DEFINE x == Context(w)
             q == queue[x]
             r == hands[w]
  <2>1. /\ x \in Contexts /\ q \in Queue /\ r \in Record
        /\ Valid(q) /\ Shaped(q) /\ ~ Full(q)
    BY <1>0, <1>2 DEF Push, PlaceInv
  <2>2. /\ hands' = [hands EXCEPT ![w] = None] /\ r # None
        /\ queue' = [queue EXCEPT ![x] = Pushed(q, r)]
        /\ UNCHANGED <<made, svc, hand, dropped>>
    BY <1>2 DEF Push, Queueing, service
  <2> HIDE DEF x
  <2>3. /\ queue'[x] = Pushed(q, r)
        /\ \A c \in Contexts : c # x => queue'[c] = queue[c]
    BY <2>1, <2>2
  <2>4. /\ hands'[w].born = 0 /\ \A v \in Writers : v # w => hands'[v] = hands[v]
        /\ Abroad' = Abroad /\ (Carrying' <=> Carrying) /\ 0 \notin Abroad
        /\ r.born \in Abroad
    BY <1>0, <2>2 DEF None, Abroad, Carrying, PlaceInv
  <2>5. /\ Shaped(queue'[x]) /\ queue'[x].record[q.write] = r
        /\ \A k \in Slots : Holds(queue'[x], k) /\ k # q.write =>
             Holds(q, k) /\ queue'[x].record[k] = q.record[k]
    BY <2>1, <2>3, PushedHolds
  <2>6. \A c \in Contexts, k \in Slots : Holds(queue'[c], k) =>
          \/ c = x /\ k = q.write /\ Born(c, k)' = r.born
          \/ Holds(queue[c], k) /\ Born(c, k)' = Born(c, k)
    BY <2>3, <2>5 DEF Born
  <2>7. \A c \in Contexts : Shaped(queue'[c])
    BY <1>0, <2>3, <2>5 DEF PlaceInv
  <2>8. \A c \in Contexts, k \in Slots : Holds(queue[c], k) =>
          Born(c, k) \in Abroad /\ r.born # Born(c, k)
    BY <1>0 DEF PlaceInv
  <2>9. /\ \A v \in Writers : hands'[v] # None => hands'[v].born \in Abroad'
        /\ \A u, v \in Writers :
             u # v /\ hands'[u] # None => hands'[v].born # hands'[u].born
        /\ Carrying' => hand'.born \in Abroad'
        /\ Carrying' => \A v \in Writers : hands'[v].born # hand'.born
    BY <1>0, <2>2, <2>4 DEF PlaceInv
  <2>10. \A c \in Contexts, k \in Slots : Holds(queue'[c], k) =>
           /\ Born(c, k)' \in Abroad'
           /\ \A v \in Writers : hands'[v].born # Born(c, k)'
           /\ Carrying' => hand'.born # Born(c, k)'
    <3> SUFFICES ASSUME NEW c \in Contexts, NEW k \in Slots, Holds(queue'[c], k)
                 PROVE  /\ Born(c, k)' \in Abroad'
                        /\ \A v \in Writers : hands'[v].born # Born(c, k)'
                        /\ Carrying' => hand'.born # Born(c, k)'
      OBVIOUS
    <3>1. CASE Born(c, k)' = r.born
      BY <1>0, <2>2, <2>4, <3>1 DEF PlaceInv
    <3>2. CASE Holds(queue[c], k) /\ Born(c, k)' = Born(c, k)
      BY <1>0, <2>2, <2>4, <3>2 DEF PlaceInv
    <3> QED
      BY <2>6, <3>1, <3>2
  <2>11. \A c, d \in Contexts, k, l \in Slots :
           Holds(queue'[c], k) /\ Holds(queue'[d], l) /\ (c # d \/ k # l) =>
             Born(c, k)' # Born(d, l)'
    BY <1>0, <2>6, <2>8 DEF PlaceInv
  <2>12. dropped' \subseteq 1 .. made'
    BY <1>0, <2>2 DEF PlaceInv
  <2> QED
    BY <2>7, <2>9, <2>10, <2>11, <2>12 DEF PlaceInv
<1>3. ASSUME NEW w \in Writers, PushLost(w) PROVE PlaceInv'
  <2>1. /\ hands' = [hands EXCEPT ![w] = None] /\ hands[w] # None
        /\ dropped' = dropped \union {hands[w].born}
        /\ UNCHANGED <<queue, made, svc, hand>>
    BY <1>3 DEF PushLost, Queueing, service
  <2>2. \A n \in Abroad : n # hands[w].born => n \in Abroad' /\ n # 0
    BY <2>1 DEF Abroad
  <2>3. dropped' \subseteq 1 .. made'
    BY <1>0, <2>1 DEF PlaceInv, Abroad
  <2>4. hands'[w].born = 0 /\ \A v \in Writers : v # w => hands'[v] = hands[v]
    BY <2>1 DEF None
  <2> QED
    BY <1>0, <2>1, <2>2, <2>3, <2>4 DEF PlaceInv, Carrying, Born
\* The oldest record of a queue moves into the hand of the service.
<1>4. CASE Pop
  <2> DEFINE x == Picked
             q == queue[x]
  <2>1. /\ x \in Contexts /\ q \in Queue /\ q.count # 0
        /\ Valid(q) /\ Shaped(q)
    BY <1>0, <1>4, PickedIn DEF Pop, PlaceInv, Intact
  <2>2. /\ queue' = [queue EXCEPT ![x] = Popped(q)]
        /\ hand' = q.record[q.read] /\ Carrying' /\ ~ Carrying
        /\ UNCHANGED <<made, hands, dropped>>
    BY <1>4 DEF Pop, writers, First, Carrying
  <2> HIDE DEF x
  <2>3. /\ queue'[x] = Popped(q)
        /\ \A c \in Contexts : c # x => queue'[c] = queue[c]
    BY <2>1, <2>2
  <2>4. /\ Shaped(queue'[x]) /\ q.read \in Slots /\ Holds(q, q.read)
        /\ \A k \in Slots : Holds(queue'[x], k) =>
             Holds(q, k) /\ k # q.read /\ queue'[x].record[k] = q.record[k]
    BY <2>1, <2>3, PoppedHolds
  <2>5. \A c \in Contexts, k \in Slots : Holds(queue'[c], k) =>
          /\ Holds(queue[c], k) /\ Born(c, k)' = Born(c, k)
          /\ c # x \/ k # q.read
    BY <2>3, <2>4 DEF Born
  <2>6. hand'.born = Born(x, q.read) /\ Abroad' = Abroad
    BY <2>2 DEF Born, Abroad
  <2>7. hand'.born \in Abroad' /\ \A w \in Writers : hands'[w].born # hand'.born
    BY <1>0, <2>1, <2>2, <2>4, <2>6 DEF PlaceInv
  <2>8. \A c \in Contexts : Shaped(queue'[c])
    BY <1>0, <2>3, <2>4 DEF PlaceInv
  <2>9. \A c \in Contexts, k \in Slots : Holds(queue'[c], k) =>
          /\ Born(c, k)' \in Abroad'
          /\ \A w \in Writers : hands'[w].born # Born(c, k)'
          /\ hand'.born # Born(c, k)'
    BY <1>0, <2>1, <2>2, <2>4, <2>5, <2>6 DEF PlaceInv
  <2>10. \A c, d \in Contexts, k, l \in Slots :
           Holds(queue'[c], k) /\ Holds(queue'[d], l) /\ (c # d \/ k # l) =>
             Born(c, k)' # Born(d, l)'
    BY <1>0, <2>5 DEF PlaceInv
  <2> QED
    BY <1>0, <2>2, <2>6, <2>7, <2>8, <2>9, <2>10 DEF PlaceInv
\* The record leaves the hand of the service.
<1>5. CASE Write \/ CountLost
  <2>1. UNCHANGED <<queue, made, hands>> /\ ~ Carrying'
        /\ \/ UNCHANGED dropped
           \/ dropped' = dropped \union {hand.born} /\ Carrying
    BY <1>5 DEF Write, CountLost, writers, Carrying
  <2>2. \A n \in Abroad : (Carrying => n # hand.born) => n \in Abroad'
    BY <2>1 DEF Abroad
  <2>3. dropped' \subseteq 1 .. made'
    BY <1>0, <2>1 DEF PlaceInv, Abroad
  <2> QED
    BY <1>0, <2>1, <2>2, <2>3 DEF PlaceInv, Born
<1>6. CASE BeginDrain \/ BeginFails \/ PopNothing \/ WriteFails \/ Remove \/ Insert
  <2>1. UNCHANGED <<queue, made, hands, hand, dropped>> /\ (Carrying' => Carrying)
    BY <1>6 DEF BeginDrain, BeginFails, PopNothing, WriteFails, Remove, Insert,
       writers, service, sink, Carrying
  <2> QED
    BY <1>0, <2>1 DEF PlaceInv, Abroad, Born
<1>7. CASE \E c \in Contexts : CorruptQueue(c)
  <2>1. PICK c \in Contexts : CorruptQueue(c)
    BY <1>7
  <2>2. queue'[c].read = QueueRecords \/ queue'[c].write = QueueRecords
    BY <2>1, queue[c] \in Queue DEF CorruptQueue, Queue
  <2>3. ~ Valid(queue'[c])
    BY <2>2 DEF Valid, Slots
  <2> QED
    BY <2>3 DEF Intact
<1>8. CASE UNCHANGED vars
  BY <1>0, <1>8 DEF vars, writers, service, PlaceInv, Abroad, Carrying, Born
<1> QED
  BY <1>1, <1>2, <1>3, <1>4, <1>5, <1>6, <1>7, <1>8 DEF Next, Report, Service

\* Giving up a record that was nowhere given up before.
LEMMA GivenUp ==
    ASSUME NEW D, D \subseteq 1 .. MaxRecords, NEW n \in 1 .. MaxRecords, n \notin D
    PROVE  /\ Cardinality(D) \in Nat
           /\ Cardinality(D \union {n}) = Cardinality(D) + 1
<1>1. IsFiniteSet(1 .. MaxRecords)
  BY ConstantTypes, FS_Interval
<1>2. IsFiniteSet(D)
  BY <1>1, FS_Subset
<1> QED
  BY <1>2, FS_AddElement, FS_CardinalityType

\* The saturating increment is positive and never skips a number.
LEMMA IncrementBounds ==
    \A n \in 0 .. LostMax : Increment(n) > 0 /\ Increment(n) <= n + 1
BY ConstantTypes DEF Increment

\* The counter and the records given up grow together.
LEMMA LossStep ==
    ASSUME TraceInv, [Next]_vars, Intact
    PROVE  LossInv'
<1> USE ConstantTypes DEF TraceInv
<1>0. /\ PlaceInv /\ LossInv /\ lost \in 0 .. LostMax /\ seen \in 0 .. LostMax
      /\ dropped \subseteq 1 .. MaxRecords /\ made \in 0 .. MaxRecords
  BY DEF TypeOK
<1>1. \A n \in Abroad : /\ Cardinality(dropped) \in Nat
                        /\ Cardinality(dropped \union {n}) = Cardinality(dropped) + 1
  <2>1. \A n \in Abroad : n \in 1 .. MaxRecords /\ n \notin dropped
    BY <1>0 DEF Abroad
  <2>2. dropped \subseteq 1 .. MaxRecords
    BY <1>0
  <2> QED
    BY <2>1, <2>2, GivenUp
<1>2. ASSUME NEW w \in Writers, PushLost(w) PROVE LossInv'
  <2>1. /\ hands[w].born \in Abroad /\ dropped' = dropped \union {hands[w].born}
        /\ lost' = Increment(lost) /\ UNCHANGED <<svc, seen>>
    BY <1>0, <1>2 DEF PushLost, Queueing, Lose, PlaceInv, service
  <2>2. Cardinality(dropped') = Cardinality(dropped) + 1
        /\ Cardinality(dropped) \in Nat
    BY <1>1, <2>1
  <2>3. lost' > 0 /\ lost' <= lost + 1
    BY <1>0, <2>1, IncrementBounds
  <2>4. lost' \in Int
    BY <1>0, <2>1 DEF Increment
  <2>5. lost' <= Cardinality(dropped')
    BY <1>0, <2>2, <2>3, <2>4 DEF LossInv
  <2>6. dropped' # {}
    BY <2>1
  <2>7. svc' = "count" => seen' <= Cardinality(dropped')
    BY <1>0, <2>1, <2>2 DEF LossInv
  <2> QED
    BY <2>3, <2>5, <2>6, <2>7 DEF LossInv
<1>3. CASE CountLost
  <2>1. /\ hand.born \in Abroad /\ dropped' = dropped \union {hand.born}
        /\ lost' = Increment(seen) /\ svc' = "idle" /\ seen <= Cardinality(dropped)
    BY <1>0, <1>3 DEF CountLost, PlaceInv, Carrying, LossInv
  <2>2. Cardinality(dropped') = Cardinality(dropped) + 1
        /\ Cardinality(dropped) \in Nat
    BY <1>1, <2>1
  <2>3. lost' > 0 /\ lost' <= seen + 1 /\ lost' \in Int
    BY <1>0, <2>1, IncrementBounds DEF Increment
  <2>4. lost' <= Cardinality(dropped')
    BY <1>0, <2>1, <2>2, <2>3
  <2> QED
    BY <2>1, <2>3, <2>4 DEF LossInv
<1>4. CASE WriteFails
  BY <1>0, <1>4 DEF WriteFails, LossInv
<1>5. CASE PopNothing
  BY <1>0, <1>5 DEF PopNothing, CountInvalid, LossInv, sink
<1>6. CASE Pop \/ Write
  BY <1>0, <1>6 DEF Pop, Write, LossInv, sink
<1>7. CASE \E w \in Writers : Stamp(w) \/ Push(w)
  BY <1>0, <1>7 DEF Stamp, Push, Queueing, service, LossInv
<1>8. CASE BeginDrain \/ BeginFails \/ Remove \/ Insert \/ UNCHANGED vars
           \/ \E c \in Contexts : CorruptQueue(c)
  <2>1. UNCHANGED <<lost, dropped, seen>> /\ (svc' = "count" => svc = "count")
    BY <1>8 DEF BeginDrain, BeginFails, Remove, Insert, CorruptQueue, vars,
       service, sink
  <2> QED
    BY <1>0, <2>1 DEF LossInv
<1> QED
  BY <1>2, <1>3, <1>4, <1>5, <1>6, <1>7, <1>8 DEF Next, Report, Service

-----------------------------------------------------------------------------
\* The invariant holds initially.
LEMMA TraceInvInit == Init => TraceInv
<1> SUFFICES ASSUME Init PROVE TraceInv
  OBVIOUS
<1> USE ConstantTypes, NoneType DEF Init
<1>1. [record |-> [k \in Slots |-> None], read |-> 0, write |-> 0, count |-> 0]
        \in Queue
  BY DEF Queue
<1>2. TypeOK
  <2>1. hands \in [Writers -> Record] /\ queue \in [Contexts -> Queue]
    BY <1>1
  <2>2. 0 \in 0 .. TimeMod - 1 /\ 0 \in 0 .. MaxRecords /\ 0 \in 0 .. LostMax
        /\ 0 \in 0 .. Budget /\ 0 \in 0 .. MaxFaults
    OBVIOUS
  <2>3. written \in Seq(Record)
    OBVIOUS
  <2> QED
    BY <2>1, <2>2, <2>3 DEF TypeOK
<1>3. HandInv
  BY DEF HandInv, Carrying
<1>4. \A c \in Contexts : Shaped(queue[c]) /\ \A k \in Slots : ~ Holds(queue[c], k)
  BY DEF Shaped, Holds, Distance, Slots
<1>5. PlaceInv
  BY <1>4 DEF PlaceInv, Carrying
<1>6. LossInv
  BY FS_EmptySet DEF LossInv
<1> QED
  BY <1>2, <1>3, <1>5, <1>6 DEF TraceInv

\* The invariant is inductive.
LEMMA TraceInvStep == TraceInv /\ [Next]_vars => TraceInv'
<1> SUFFICES ASSUME TraceInv, [Next]_vars PROVE TraceInv'
  OBVIOUS
<1>1. TypeOK'
  BY TypeStep DEF TraceInv, HandInv, Carrying
<1>2. HandInv'
  BY HandStep
<1>3. ASSUME Intact' PROVE PlaceInv' /\ LossInv'
  <2>1. Intact
    BY <1>3, IntactStep DEF TraceInv
  <2> QED
    BY <1>3, <2>1, PlaceStep, LossStep
<1> QED
  BY <1>1, <1>2, <1>3 DEF TraceInv

\* Types are kept for every number of writers, queue length, budget and range of
\* the counters: the places of queues that no stray write touched, the record in
\* the hand of the service and every record given up stay in range.
THEOREM TypeCorrect == Spec => []TypeOK
<1>1. Init => TraceInv
  BY TraceInvInit
<1>2. TraceInv /\ [Next]_vars => TraceInv'
  BY TraceInvStep
<1>3. TraceInv => TypeOK
  BY DEF TraceInv
<1> QED
  BY <1>1, <1>2, <1>3, PTL DEF Spec

\* Every loss shows in dev_trace_lost_count and none is invented, with any number
\* of Tasks and ISRs dropping records while the service is between the load and
\* the store by which it counts one of its own, and although the counter
\* saturates.
THEOREM LossReportedHolds == Spec => []LossReported
<1>1. Init => TraceInv
  BY TraceInvInit
<1>2. TraceInv /\ [Next]_vars => TraceInv'
  BY TraceInvStep
<1>3. TraceInv => LossReported
  BY DEF TraceInv, LossReported, LossInv
<1> QED
  BY <1>1, <1>2, <1>3, PTL DEF Spec

-----------------------------------------------------------------------------
(* Every record is somewhere *)

\* Live, the places between the indices as the properties state them, are those
\* that hold a record.
LEMMA LiveHolds ==
    ASSUME NEW q \in Queue, Valid(q), NEW k \in Slots
    PROVE  k \in Live(q) <=> Holds(q, k)
<1>1. /\ q.read \in Int /\ k \in Int /\ QueueRecords \in Nat \ {0}
      /\ 0 <= q.read /\ q.read < QueueRecords /\ 0 <= k /\ k < QueueRecords
  BY ConstantTypes DEF Valid, Slots
<1>2. (k - q.read) % QueueRecords = Distance(q, k)
  <2>1. CASE k >= q.read
    BY <1>1, <2>1 DEF Distance
  <2>2. CASE k < q.read
    BY <1>1, <2>2 DEF Distance
  <2> QED
    BY <1>1, <2>1, <2>2
<1> QED
  BY <1>2 DEF Live, Holds

\* A push keeps every record at its distance and adds the newest.
LEMMA PushedKeeps ==
    ASSUME NEW q \in Queue, Valid(q), Shaped(q), ~ Full(q), NEW r \in Record
    PROVE  /\ q.write \in Slots /\ Holds(Pushed(q, r), q.write)
           /\ Distance(Pushed(q, r), q.write) = q.count
           /\ \A k \in Slots : Distance(Pushed(q, r), k) = Distance(q, k)
           /\ \A k \in Slots : Holds(q, k) =>
                /\ k # q.write /\ Holds(Pushed(q, r), k)
                /\ Pushed(q, r).record[k] = q.record[k]
<1> DEFINE p == Pushed(q, r)
<1>1. /\ p.read = q.read /\ p.count = q.count + 1
      /\ p.record = [q.record EXCEPT ![q.write] = r]
  BY DEF Pushed
<1>2. /\ q.read \in Slots /\ q.write \in Slots /\ q.count \in Nat
      /\ q.count < QueueRecords
      /\ q.write = IF q.read + q.count < QueueRecords THEN q.read + q.count
                   ELSE q.read + q.count - QueueRecords
      /\ q.record \in [Slots -> Record]
  BY ConstantTypes, QueueFields DEF Valid, Shaped, Full
<1> HIDE DEF p
<1>3. \A k \in Slots : Distance(p, k) = Distance(q, k)
  BY <1>1 DEF Distance
<1>4. Distance(p, q.write) = q.count /\ Holds(p, q.write)
  BY <1>1, <1>2, ConstantTypes DEF Distance, Holds, Slots
<1>5. \A k \in Slots : Holds(q, k) => k # q.write /\ Holds(p, k)
  BY <1>1, <1>2, ConstantTypes DEF Distance, Holds, Slots
<1>6. \A k \in Slots : k # q.write => p.record[k] = q.record[k]
  BY <1>1, <1>2
<1> QED
  BY <1>2, <1>3, <1>4, <1>5, <1>6 DEF p

\* A pop brings every other record one step nearer.
LEMMA PoppedKeeps ==
    ASSUME NEW q \in Queue, Valid(q), Shaped(q), q.count # 0
    PROVE  /\ \A k \in Slots : Holds(q, k) /\ k # q.read => Holds(Popped(q), k)
           /\ Distance(q, q.read) = 0
           /\ \A k \in Slots : Distance(q, k) >= 0
           /\ \A k \in Slots : Holds(Popped(q), k) =>
                Distance(q, k) = Distance(Popped(q), k) + 1
<1> DEFINE p == Popped(q)
<1>1. p.read = Advance(q.read) /\ p.count = q.count - 1
  BY DEF Popped
<1>2. q.read \in Slots /\ q.count \in 1 .. QueueRecords
  BY ConstantTypes, QueueFields DEF Valid
<1> HIDE DEF p
<1>3. Distance(q, q.read) = 0 /\ \A k \in Slots : Distance(q, k) >= 0
  BY <1>2, ConstantTypes DEF Distance, Slots
<1>4. \A k \in Slots : Holds(q, k) /\ k # q.read => Holds(p, k)
  BY <1>1, <1>2, ConstantTypes DEF Distance, Holds, Slots, Advance
<1>5. \A k \in Slots : Holds(p, k) => Distance(q, k) = Distance(p, k) + 1
  BY <1>1, <1>2, ConstantTypes DEF Distance, Holds, Slots, Advance
<1> QED
  BY <1>3, <1>4, <1>5 DEF p

\* What the sink took is gone from everywhere else, and every record that was not
\* given up is with a writer, with the service, in a queue or in the sink.
CoverInv ==
    /\ ~ Carrying => hand = None
    /\ \A i \in 1 .. Len(written) :
         /\ written[i].born \in Abroad
         /\ hand.born # written[i].born
         /\ \A w \in Writers : hands[w].born # written[i].born
         /\ \A c \in Contexts, k \in Slots :
              Holds(queue[c], k) => Born(c, k) # written[i].born
    /\ \A i, j \in 1 .. Len(written) : i # j => written[i].born # written[j].born
    /\ \A n \in Abroad :
         \/ hand.born = n
         \/ \E w \in Writers : hands[w].born = n
         \/ \E c \in Contexts, k \in Slots : Holds(queue[c], k) /\ Born(c, k) = n
         \/ \E i \in 1 .. Len(written) : written[i].born = n

\* Initially no record exists.
LEMMA CoverInit == Init => CoverInv
BY DEF Init, CoverInv, Carrying, Abroad

\* A writer moves its record: into being, into its queue, or out of the trace.
LEMMA CoverReport ==
    ASSUME TraceInv, CoverInv, Intact, NEW w \in Writers, Report(w)
    PROVE  CoverInv'
<1> USE ConstantTypes
<1>0. TypeOK /\ PlaceInv
  BY DEF TraceInv
<1>1. CASE Stamp(w)
  <2>1. /\ hands[w] = None /\ made' = made + 1
        /\ hands' = [hands EXCEPT ![w] = [born |-> made', stamp |-> clock']]
        /\ UNCHANGED <<queue, written, dropped, hand>> /\ (Carrying' <=> Carrying)
    BY <1>1 DEF Stamp, service, sink, Carrying
  <2>2. hands'[w].born = made + 1 /\ \A v \in Writers : v # w => hands'[v] = hands[v]
    <3>1. hands'[w] = [born |-> made', stamp |-> clock']
      BY <1>0, <2>1 DEF TypeOK
    <3> QED
      BY <1>0, <2>1, <3>1 DEF TypeOK
  <2>3. /\ \A n \in Abroad : n \in Abroad' /\ n # made + 1 /\ n # 0
        /\ \A n \in Abroad' : n \in Abroad \/ n = made + 1
    BY <1>0, <2>1 DEF Abroad, TypeOK, PlaceInv
  <2>4. hands[w].born = 0
    BY <2>1 DEF None
  <2>5. \A i \in 1 .. Len(written) :
          /\ written[i].born \in Abroad'
          /\ \A v \in Writers : hands'[v].born # written[i].born
    BY <2>2, <2>3 DEF CoverInv
  <2>6. \A n \in Abroad' : (\E v \in Writers : hands'[v].born = n)
                             \/ (n \in Abroad /\ \A v \in Writers : hands[v].born # n)
    BY <2>2, <2>3, <2>4
  <2> QED
    BY <2>1, <2>5, <2>6 DEF CoverInv, Born
<1>2. CASE Push(w)
  <2> DEFINE x == Context(w)
             q == queue[x]
             r == hands[w]
  <2>1. /\ x \in Contexts /\ q \in Queue /\ r \in Record
        /\ Valid(q) /\ Shaped(q) /\ ~ Full(q)
    BY <1>0, <1>2 DEF Push, PlaceInv, TypeOK
  <2>2. /\ hands' = [hands EXCEPT ![w] = None] /\ r # None
        /\ queue' = [queue EXCEPT ![x] = Pushed(q, r)]
        /\ UNCHANGED <<made, hand, dropped, written>> /\ (Carrying' <=> Carrying)
    BY <1>2 DEF Push, Queueing, service, sink, Carrying
  <2> HIDE DEF x
  <2>3. /\ queue'[x] = Pushed(q, r)
        /\ \A c \in Contexts : c # x => queue'[c] = queue[c]
    BY <1>0, <2>1, <2>2 DEF TypeOK
  <2>4. /\ hands'[w].born = 0 /\ \A v \in Writers : v # w => hands'[v] = hands[v]
        /\ Abroad' = Abroad /\ 0 \notin Abroad
    BY <1>0, <2>2 DEF None, Abroad, TypeOK
  <2>5. /\ queue'[x].record[q.write] = r /\ q.write \in Slots
        /\ Holds(queue'[x], q.write)
        /\ \A k \in Slots : Holds(queue'[x], k) /\ k # q.write =>
             Holds(q, k) /\ queue'[x].record[k] = q.record[k]
        /\ \A k \in Slots : Holds(q, k) =>
             Holds(queue'[x], k) /\ queue'[x].record[k] = q.record[k]
    BY <2>1, <2>3, PushedHolds, PushedKeeps
  <2>6. \A c \in Contexts, k \in Slots : Holds(queue'[c], k) =>
          \/ Born(c, k)' = r.born
          \/ Holds(queue[c], k) /\ Born(c, k)' = Born(c, k)
    BY <2>3, <2>5 DEF Born
  <2>7. \A c \in Contexts, k \in Slots : Holds(queue[c], k) =>
          Holds(queue'[c], k) /\ Born(c, k)' = Born(c, k)
    BY <2>3, <2>5 DEF Born
  <2>8. \E c \in Contexts, k \in Slots : Holds(queue'[c], k) /\ Born(c, k)' = r.born
    BY <2>1, <2>5 DEF Born
  <2>9. \A i \in 1 .. Len(written) :
          /\ \A v \in Writers : hands'[v].born # written[i].born
          /\ \A c \in Contexts, k \in Slots :
               Holds(queue'[c], k) => Born(c, k)' # written[i].born
    BY <2>4, <2>6 DEF CoverInv
  <2>10. \A n \in Abroad :
           \/ hand.born = n
           \/ \E v \in Writers : hands'[v].born = n
           \/ \E c \in Contexts, k \in Slots : Holds(queue'[c], k) /\ Born(c, k)' = n
           \/ \E i \in 1 .. Len(written) : written[i].born = n
    <3> SUFFICES ASSUME NEW n \in Abroad,
                        ~ (\E v \in Writers : hands'[v].born = n)
                 PROVE  \/ hand.born = n
                        \/ \E c \in Contexts, k \in Slots :
                             Holds(queue'[c], k) /\ Born(c, k)' = n
                        \/ \E i \in 1 .. Len(written) : written[i].born = n
      OBVIOUS
    <3>1. CASE r.born = n
      BY <2>8, <3>1
    <3>2. CASE r.born # n
      <4>1. \A v \in Writers : hands[v].born # n
        BY <2>4, <3>2
      <4> QED
        BY <2>7, <4>1 DEF CoverInv
    <3> QED
      BY <3>1, <3>2
  <2>11. \A i \in 1 .. Len(written) : written[i].born \in Abroad'
    BY <2>4 DEF CoverInv
  <2> QED
    BY <2>2, <2>4, <2>9, <2>10, <2>11 DEF CoverInv
<1>3. CASE PushLost(w)
  <2>1. /\ hands' = [hands EXCEPT ![w] = None] /\ hands[w] # None
        /\ dropped' = dropped \union {hands[w].born}
        /\ UNCHANGED <<queue, made, hand, written>> /\ (Carrying' <=> Carrying)
    BY <1>3 DEF PushLost, Queueing, service, sink, Carrying
  <2>2. /\ \A n \in Abroad' : n \in Abroad /\ n # hands[w].born
        /\ \A n \in Abroad : n # hands[w].born => n \in Abroad'
        /\ 0 \notin Abroad
    BY <2>1 DEF Abroad
  <2>3. hands'[w].born = 0 /\ \A v \in Writers : v # w => hands'[v] = hands[v]
    BY <1>0, <2>1 DEF None, TypeOK
  <2>4. \A i \in 1 .. Len(written) :
          /\ written[i].born \in Abroad'
          /\ \A v \in Writers : hands'[v].born # written[i].born
    BY <2>2, <2>3 DEF CoverInv
  <2>5. \A n \in Abroad' : (\E v \in Writers : hands[v].born = n) =>
                             \E v \in Writers : hands'[v].born = n
    BY <2>2, <2>3
  <2> QED
    BY <2>1, <2>2, <2>4, <2>5 DEF CoverInv, Born
<1> QED
  BY <1>1, <1>2, <1>3 DEF Report

\* The service moves a record: into its hand, into the sink, or out of the trace.
LEMMA CoverService ==
    ASSUME TraceInv, CoverInv, Intact, Pop \/ Write \/ CountLost
    PROVE  CoverInv'
<1> USE ConstantTypes
<1>0. TypeOK /\ PlaceInv
  BY DEF TraceInv
<1>1. CASE Pop
  <2> DEFINE x == Picked
             q == queue[x]
  <2>1. /\ x \in Contexts /\ q \in Queue /\ q.count # 0
        /\ Valid(q) /\ Shaped(q)
    BY <1>0, <1>1, PickedIn DEF Pop, PlaceInv, Intact, TypeOK
  <2>2. /\ queue' = [queue EXCEPT ![x] = Popped(q)]
        /\ hand' = q.record[q.read] /\ Carrying' /\ ~ Carrying
        /\ UNCHANGED <<made, hands, dropped, written>>
    BY <1>1 DEF Pop, writers, First, Carrying, sink
  <2> HIDE DEF x
  <2>3. /\ queue'[x] = Popped(q)
        /\ \A c \in Contexts : c # x => queue'[c] = queue[c]
    BY <1>0, <2>1, <2>2 DEF TypeOK
  <2>4. /\ q.read \in Slots /\ Holds(q, q.read)
        /\ \A k \in Slots : Holds(queue'[x], k) =>
             Holds(q, k) /\ queue'[x].record[k] = q.record[k]
        /\ \A k \in Slots : Holds(q, k) /\ k # q.read =>
             Holds(queue'[x], k) /\ queue'[x].record[k] = q.record[k]
    BY <2>1, <2>3, PoppedHolds, PoppedKeeps
  <2>5. \A c \in Contexts, k \in Slots : Holds(queue'[c], k) =>
          Holds(queue[c], k) /\ Born(c, k)' = Born(c, k)
    BY <2>3, <2>4 DEF Born
  <2>6. \A c \in Contexts, k \in Slots : Holds(queue[c], k) =>
          \/ hand'.born = Born(c, k)
          \/ Holds(queue'[c], k) /\ Born(c, k)' = Born(c, k)
    BY <2>2, <2>3, <2>4 DEF Born
  <2>7. Abroad' = Abroad /\ 0 \notin Abroad /\ hand.born = 0
    BY <2>2 DEF Abroad, CoverInv, None
  <2>8. hand'.born = Born(x, q.read)
    BY <2>2 DEF Born
  <2>9. \A i \in 1 .. Len(written) :
          /\ written[i].born \in Abroad'
          /\ hand'.born # written[i].born
          /\ \A w \in Writers : hands'[w].born # written[i].born
          /\ \A c \in Contexts, k \in Slots :
               Holds(queue'[c], k) => Born(c, k)' # written[i].born
    BY <2>1, <2>2, <2>4, <2>5, <2>7, <2>8 DEF CoverInv
  <2>10. \A n \in Abroad' :
           \/ hand'.born = n
           \/ \E w \in Writers : hands'[w].born = n
           \/ \E c \in Contexts, k \in Slots : Holds(queue'[c], k) /\ Born(c, k)' = n
           \/ \E i \in 1 .. Len(written) : written[i].born = n
    <3> SUFFICES ASSUME NEW n \in Abroad, hand'.born # n
                 PROVE  \/ \E w \in Writers : hands'[w].born = n
                        \/ \E c \in Contexts, k \in Slots :
                             Holds(queue'[c], k) /\ Born(c, k)' = n
                        \/ \E i \in 1 .. Len(written) : written[i].born = n
      BY <2>7
    <3>1. CASE \E c \in Contexts, k \in Slots : Holds(queue[c], k) /\ Born(c, k) = n
      BY <2>6, <3>1
    <3> QED
      BY <2>2, <2>7, <3>1 DEF CoverInv
  <2> QED
    BY <2>2, <2>9, <2>10 DEF CoverInv
<1>2. CASE Write
  <2>1. /\ written' = Append(written, hand) /\ hand' = None /\ Carrying
        /\ UNCHANGED <<queue, made, hands, dropped>>
    BY <1>2 DEF Write, writers, Carrying
  <2>2. /\ Len(written) \in Nat /\ Len(written') = Len(written) + 1
        /\ written'[Len(written) + 1] = hand
        /\ \A i \in 1 .. Len(written) : written'[i] = written[i]
    BY <1>0, <2>1 DEF TypeOK
  <2>3. /\ \A i \in 1 .. Len(written') : i \in 1 .. Len(written) \/ i = Len(written) + 1
        /\ \A i \in 1 .. Len(written) : i \in 1 .. Len(written') /\ i # Len(written) + 1
        /\ Len(written) + 1 \in 1 .. Len(written')
    BY <2>2
  <2>4. Abroad' = Abroad /\ 0 \notin Abroad /\ hand'.born = 0 /\ hand.born \in Abroad
    BY <1>0, <2>1 DEF Abroad, None, PlaceInv
  <2>5. /\ \A w \in Writers : hands[w].born # hand.born
        /\ \A c \in Contexts, k \in Slots : Holds(queue[c], k) =>
             Born(c, k) # hand.born /\ Born(c, k)' = Born(c, k)
    BY <1>0, <2>1 DEF PlaceInv, Born
  <2>6. \A i \in 1 .. Len(written') :
          /\ written'[i].born \in Abroad'
          /\ hand'.born # written'[i].born
          /\ \A w \in Writers : hands'[w].born # written'[i].born
          /\ \A c \in Contexts, k \in Slots :
               Holds(queue'[c], k) => Born(c, k)' # written'[i].born
    <3> SUFFICES ASSUME NEW i \in 1 .. Len(written')
                 PROVE  /\ written'[i].born \in Abroad
                        /\ \A w \in Writers : hands[w].born # written'[i].born
                        /\ \A c \in Contexts, k \in Slots :
                             Holds(queue[c], k) => Born(c, k) # written'[i].born
      BY <2>1, <2>4, <2>5
    <3>1. CASE i \in 1 .. Len(written)
      BY <2>2, <3>1 DEF CoverInv
    <3>2. CASE i = Len(written) + 1
      BY <2>2, <2>4, <2>5, <3>2
    <3> QED
      BY <2>3, <3>1, <3>2
  <2>7. \A i, j \in 1 .. Len(written') : i # j => written'[i].born # written'[j].born
    BY <2>2, <2>3 DEF CoverInv
  <2>8. \A n \in Abroad' :
          \/ \E w \in Writers : hands'[w].born = n
          \/ \E c \in Contexts, k \in Slots : Holds(queue'[c], k) /\ Born(c, k)' = n
          \/ \E i \in 1 .. Len(written') : written'[i].born = n
    <3> SUFFICES ASSUME NEW n \in Abroad
                 PROVE  \/ \E w \in Writers : hands[w].born = n
                        \/ \E c \in Contexts, k \in Slots :
                             Holds(queue[c], k) /\ Born(c, k) = n
                        \/ \E i \in 1 .. Len(written') : written'[i].born = n
      BY <2>1, <2>4, <2>5
    <3>1. CASE hand.born = n
      BY <2>2, <2>3, <3>1
    <3>2. CASE \E i \in 1 .. Len(written) : written[i].born = n
      BY <2>2, <2>3, <3>2
    <3> QED
      BY <3>1, <3>2 DEF CoverInv
  <2> QED
    BY <2>1, <2>6, <2>7, <2>8 DEF CoverInv
<1>3. CASE CountLost
  <2>1. /\ hand' = None /\ dropped' = dropped \union {hand.born}
        /\ UNCHANGED <<queue, made, hands, written>>
    BY <1>3 DEF CountLost, writers, sink
  <2>2. /\ \A n \in Abroad' : n \in Abroad /\ n # hand.born
        /\ \A n \in Abroad : n # hand.born => n \in Abroad'
        /\ 0 \notin Abroad /\ hand'.born = 0
    BY <2>1 DEF Abroad, None
  <2>3. \A i \in 1 .. Len(written) :
          written[i].born \in Abroad' /\ hand'.born # written[i].born
    BY <2>2 DEF CoverInv
  <2> QED
    BY <2>1, <2>2, <2>3 DEF CoverInv, Born
<1> QED
  BY <1>1, <1>2, <1>3

\* The other steps move no record.
LEMMA CoverQuiet ==
    ASSUME CoverInv,
           \/ BeginDrain \/ BeginFails \/ PopNothing \/ WriteFails \/ Remove
           \/ Insert \/ UNCHANGED vars
    PROVE  CoverInv'
<1>1. UNCHANGED <<queue, made, hands, hand, dropped, written>>
      /\ (Carrying' <=> Carrying)
  BY DEF BeginDrain, BeginFails, PopNothing, WriteFails, Remove, Insert, vars,
     writers, service, sink, Carrying
<1> QED
  BY <1>1 DEF CoverInv, Abroad, Born

\* Every step keeps each record somewhere, until a stray write comes.
LEMMA CoverStep == TraceInv /\ (Intact => CoverInv) /\ [Next]_vars
                     => (Intact => CoverInv)'
<1> SUFFICES ASSUME TraceInv, Intact => CoverInv, [Next]_vars, Intact'
             PROVE  CoverInv'
  OBVIOUS
<1>1. Intact /\ CoverInv
  BY IntactStep DEF TraceInv
<1>2. ASSUME NEW c \in Contexts, CorruptQueue(c) PROVE CoverInv'
  <2>1. queue'[c].read = QueueRecords \/ queue'[c].write = QueueRecords
    BY <1>2, queue[c] \in Queue DEF CorruptQueue, Queue, TraceInv, TypeOK
  <2>2. ~ Valid(queue'[c])
    BY <2>1, ConstantTypes DEF Valid, Slots
  <2> QED
    BY <2>2 DEF Intact
<1> QED
  BY <1>1, <1>2, CoverReport, CoverService, CoverQuiet DEF Next, Service

\* A set of at most one element counts 0 or 1.
LEMMA SingleOrNone ==
    ASSUME NEW S, \A x \in S : S = {x}
    PROVE  Cardinality(S) = IF S = {} THEN 0 ELSE 1
<1>1. CASE S = {}
  BY <1>1, FS_EmptySet
<1>2. CASE S # {}
  <2>1. PICK x \in S : S = {x}
    BY <1>2
  <2>2. Cardinality({x}) = 1
    BY FS_Singleton
  <2> QED
    BY <1>2, <2>1, <2>2
<1> QED
  BY <1>1, <1>2

\* In a state of the invariant each record is in one place.
LEMMA OnePlace ==
    ASSUME TraceInv, CoverInv, Intact, NEW n \in 1 .. made
    PROVE  Places(n) = 1
<1> DEFINE W == {w \in Writers : hands[w].born = n}
           P == {p \in Contexts \X Slots :
                   p[2] \in Live(queue[p[1]]) /\ queue[p[1]].record[p[2]].born = n}
           T == {i \in 1 .. Len(written) : written[i].born = n}
           h == IF hand.born = n THEN 1 ELSE 0
           d == IF n \in dropped THEN 1 ELSE 0
<1>0. TypeOK /\ PlaceInv /\ HandInv
  BY DEF TraceInv
<1>1. Places(n) = Cardinality(W) + Cardinality(P) + Cardinality(T) + h + d
  BY DEF Places
<1>2. \A p : p \in P <=> \E c \in Contexts, k \in Slots :
               p = <<c, k>> /\ Holds(queue[c], k) /\ Born(c, k) = n
  <2>1. \A c \in Contexts, k \in Slots : k \in Live(queue[c]) <=> Holds(queue[c], k)
    BY <1>0, LiveHolds DEF TypeOK, Intact
  <2> QED
    BY <2>1 DEF Born
<1>3. \A w \in W : hands[w] # None
  BY DEF None
<1>4. hand.born = n => Carrying
  BY DEF CoverInv, None
<1>5. n \in Abroad <=> n \notin dropped
  BY DEF Abroad
<1>6. \A w \in W : n \in Abroad /\ W = {w}
  BY <1>0, <1>3 DEF PlaceInv
<1>7. \A p \in P : n \in Abroad /\ P = {p}
  BY <1>0, <1>2 DEF PlaceInv
<1>8. \A i \in T : n \in Abroad /\ T = {i}
  BY DEF CoverInv
<1>9. hand.born = n => n \in Abroad
  BY <1>0, <1>4 DEF PlaceInv
<1>10. W # {} => P = {} /\ T = {} /\ hand.born # n
  BY <1>0, <1>2, <1>4 DEF PlaceInv, CoverInv
<1>11. P # {} => T = {} /\ hand.born # n
  BY <1>0, <1>2, <1>4 DEF PlaceInv, CoverInv
<1>12. T # {} => hand.born # n
  BY DEF CoverInv
<1>13. n \in Abroad => W # {} \/ P # {} \/ T # {} \/ hand.born = n
  <2>1. ASSUME NEW c \in Contexts, NEW k \in Slots, Holds(queue[c], k), Born(c, k) = n
        PROVE  P # {}
    BY <1>2, <2>1
  <2> QED
    BY <2>1 DEF CoverInv
<1>14. /\ Cardinality(W) = IF W = {} THEN 0 ELSE 1
       /\ Cardinality(P) = IF P = {} THEN 0 ELSE 1
       /\ Cardinality(T) = IF T = {} THEN 0 ELSE 1
  <2>1. /\ \A w \in W : W = {w}
        /\ \A p \in P : P = {p}
        /\ \A i \in T : T = {i}
    BY <1>6, <1>7, <1>8
  <2> HIDE DEF W, P, T
  <2> QED
    BY <2>1, SingleOrNone
<1> HIDE DEF W, P, T
<1>15. W # {} \/ P # {} \/ T # {} \/ hand.born = n => n \in Abroad
  BY <1>6, <1>7, <1>8, <1>9
<1> QED
  BY <1>1, <1>5, <1>10, <1>11, <1>12, <1>13, <1>14, <1>15

\* Every record written is in one place: none vanishes, none is written twice,
\* with any number of Tasks and ISRs, queues of any length, and whatever the sink
\* does.  As in the code it holds until a stray write hits an index.
THEOREM AccountedHolds == Spec => []Accounted
<1>1. Init => TraceInv /\ (Intact => CoverInv)
  BY TraceInvInit, CoverInit
<1>2. TraceInv /\ (Intact => CoverInv) /\ [Next]_vars
        => (TraceInv /\ (Intact => CoverInv))'
  BY TraceInvStep, CoverStep
<1>3. TraceInv /\ (Intact => CoverInv) => Accounted
  BY OnePlace DEF Accounted
<1> QED
  BY <1>1, <1>2, <1>3, PTL DEF Spec

-----------------------------------------------------------------------------
(* The order in which the sink receives the records *)

Stamped(c, k) == queue[c].record[k].stamp

\* What OutputOrdered assumes of the program.
Undisturbed ==
    Cardinality(Tasks) <= 1 /\ Cardinality(Isrs) <= 1 /\ ServiceLowest
      /\ MaxRecords < TimeMod

\* The clock has not wrapped around, and what the sink took is sorted and no
\* younger than the record in the hand of the service.
OutInv ==
    /\ clock <= made
    /\ Carrying => hand.stamp <= clock
    /\ \A i, j \in 1 .. Len(written) : i < j => written[i].stamp <= written[j].stamp
    /\ \A i \in 1 .. Len(written) :
         written[i].stamp <= clock /\ (Carrying => written[i].stamp <= hand.stamp)

\* A record waiting in a queue or with its writer is no older than what the
\* service took and than what waits before it in its own queue; the two queues
\* need not be in order with each other.
WaitInv ==
    /\ \A c \in Contexts, k \in Slots : Holds(queue[c], k) =>
         /\ Stamped(c, k) <= clock
         /\ Carrying => hand.stamp <= Stamped(c, k)
         /\ \A i \in 1 .. Len(written) : written[i].stamp <= Stamped(c, k)
         /\ \A l \in Slots :
              Holds(queue[c], l) /\ Distance(queue[c], k) <= Distance(queue[c], l) =>
                Stamped(c, k) <= Stamped(c, l)
    /\ \A w \in Writers : hands[w] # None =>
         /\ hands[w].stamp <= clock
         /\ Carrying => hand.stamp <= hands[w].stamp
         /\ \A i \in 1 .. Len(written) : written[i].stamp <= hands[w].stamp
         /\ \A k \in Slots : Holds(queue[Context(w)], k) =>
              Stamped(Context(w), k) <= hands[w].stamp

OrderInv == OutInv /\ (Intact => WaitInv)

\* A context has one writer.
LEMMA OneWriter ==
    ASSUME IsFiniteSet(Tasks), IsFiniteSet(Isrs), Undisturbed,
           NEW v \in Writers, NEW w \in Writers, Context(v) = Context(w)
    PROVE  v = w
<1>1. \A S : IsFiniteSet(S) /\ Cardinality(S) <= 1 => \A x, y \in S : x = y
  <2> SUFFICES ASSUME NEW S, IsFiniteSet(S), Cardinality(S) <= 1
               PROVE  \A x, y \in S : x = y
    OBVIOUS
  <2>1. Cardinality(S) \in Nat
    BY FS_CardinalityType
  <2>2. Cardinality(S) = 0 \/ Cardinality(S) = 1
    BY <2>1
  <2>3. Cardinality(S) = 0 => S = {}
    BY FS_EmptySet
  <2>4. Cardinality(S) = 1 => \E x : S = {x}
    BY FS_Singleton
  <2> QED
    BY <2>2, <2>3, <2>4
<1>2. (v \in Isrs <=> w \in Isrs) /\ (v \in Tasks \/ v \in Isrs)
      /\ (w \in Tasks \/ w \in Isrs)
  BY DEF Context, Writers
<1> QED
  BY <1>1, <1>2 DEF Undisturbed

\* Stamps are numbers.
LEMMA StampTypes ==
    ASSUME TypeOK
    PROVE  /\ clock \in Nat /\ hand.stamp \in Nat
           /\ \A w \in Writers : hands[w].stamp \in Nat
           /\ \A c \in Contexts, k \in Slots : Stamped(c, k) \in Nat
           /\ Len(written) \in Nat
           /\ \A i \in 1 .. Len(written) : written[i].stamp \in Nat
<1>1. \A r \in Record : r.stamp \in Nat
  BY ConstantTypes DEF Record
<1>2. \A c \in Contexts, k \in Slots : queue[c].record[k] \in Record
  BY QueueFields DEF TypeOK
<1>3. Len(written) \in Nat /\ \A i \in 1 .. Len(written) : written[i] \in Record
  BY DEF TypeOK
<1>4. clock \in Nat
  BY ConstantTypes DEF TypeOK
<1> QED
  BY <1>1, <1>2, <1>3, <1>4 DEF TypeOK, Stamped

\* Initially nothing waits.
LEMMA OrderInit == Init => OrderInv
<1> SUFFICES ASSUME Init PROVE OrderInv
  OBVIOUS
<1>1. \A c \in Contexts, k \in Slots : ~ Holds(queue[c], k)
  BY ConstantTypes DEF Init, Holds, Distance, Slots
<1> QED
  BY <1>1 DEF Init, OrderInv, OutInv, WaitInv, Carrying

\* A writer's new record is the youngest, and goes behind all of its own queue.
LEMMA OrderReport ==
    ASSUME IsFiniteSet(Tasks), IsFiniteSet(Isrs), Undisturbed,
           TraceInv, OrderInv, NEW w \in Writers, Report(w)
    PROVE  OrderInv'
<1> USE ConstantTypes
<1>0. TypeOK /\ (Intact => PlaceInv)
  BY DEF TraceInv
<1>1. CASE Stamp(w)
  <2>1. /\ hands[w] = None /\ made' = made + 1 /\ made < MaxRecords
        /\ clock' \in {clock, (clock + 1) % TimeMod}
        /\ hands' = [hands EXCEPT ![w] = [born |-> made', stamp |-> clock']]
        /\ UNCHANGED <<queue, written, hand>> /\ (Carrying' <=> Carrying)
    BY <1>1 DEF Stamp, service, sink, Carrying
  <2>2. clock <= clock' /\ clock' \in Nat /\ clock' <= made'
    <3>1. /\ clock \in Nat /\ made \in Nat /\ MaxRecords \in Nat /\ TimeMod \in Nat \ {0}
          /\ clock <= made /\ made < MaxRecords /\ MaxRecords < TimeMod
      BY <1>0, <2>1 DEF TypeOK, OrderInv, OutInv, Undisturbed
    <3>2. (clock + 1) % TimeMod = clock + 1
      BY <3>1
    <3> QED
      BY <2>1, <3>1, <3>2
  <2>3. /\ hands'[w].stamp = clock'
        /\ \A v \in Writers : v # w => hands'[v] = hands[v]
    <3>1. hands'[w] = [born |-> made', stamp |-> clock']
      BY <1>0, <2>1 DEF TypeOK
    <3> QED
      BY <1>0, <2>1, <3>1 DEF TypeOK
  <2>4. OutInv'
    BY <1>0, <2>1, <2>2, StampTypes DEF OrderInv, OutInv
  <2>5. ASSUME Intact' PROVE WaitInv'
    <3>1. Intact /\ WaitInv /\ OutInv
      BY <2>1, <2>5 DEF Intact, OrderInv
    <3>2. \A c \in Contexts, k \in Slots : Holds(queue'[c], k) =>
            /\ Stamped(c, k)' = Stamped(c, k) /\ Stamped(c, k) <= clock'
            /\ Carrying' => hand'.stamp <= Stamped(c, k)'
            /\ \A i \in 1 .. Len(written') : written'[i].stamp <= Stamped(c, k)'
            /\ \A l \in Slots :
                 Holds(queue'[c], l) /\ Distance(queue'[c], k) <= Distance(queue'[c], l)
                   => Stamped(c, k)' <= Stamped(c, l)'
      BY <1>0, <2>1, <2>2, <3>1, StampTypes DEF WaitInv, Stamped
    <3>3. \A v \in Writers : hands'[v] # None =>
            /\ hands'[v].stamp <= clock'
            /\ Carrying => hand.stamp <= hands'[v].stamp
            /\ \A i \in 1 .. Len(written) : written[i].stamp <= hands'[v].stamp
            /\ \A k \in Slots : Holds(queue[Context(v)], k) =>
                 Stamped(Context(v), k) <= hands'[v].stamp
      <4> SUFFICES ASSUME NEW v \in Writers, hands'[v] # None
                   PROVE  /\ hands'[v].stamp <= clock'
                          /\ Carrying => hand.stamp <= hands'[v].stamp
                          /\ \A i \in 1 .. Len(written) :
                               written[i].stamp <= hands'[v].stamp
                          /\ \A k \in Slots : Holds(queue[Context(v)], k) =>
                               Stamped(Context(v), k) <= hands'[v].stamp
        OBVIOUS
      <4>1. CASE v = w
        BY <1>0, <2>2, <2>3, <3>1, <4>1, StampTypes DEF WaitInv, OutInv
      <4>2. CASE v # w
        BY <1>0, <2>2, <2>3, <3>1, <4>2, StampTypes DEF WaitInv
      <4> QED
        BY <4>1, <4>2
    <3> QED
      BY <2>1, <3>2, <3>3 DEF WaitInv, Stamped
  <2> QED
    BY <2>4, <2>5 DEF OrderInv
<1>2. CASE Push(w)
  <2> DEFINE x == Context(w)
             q == queue[x]
             r == hands[w]
  <2>1. /\ hands' = [hands EXCEPT ![w] = None] /\ r # None
        /\ queue' = [queue EXCEPT ![x] = Pushed(q, r)] /\ Valid(q) /\ ~ Full(q)
        /\ UNCHANGED <<clock, made, hand, written>> /\ (Carrying' <=> Carrying)
    BY <1>2 DEF Push, Queueing, service, sink, Carrying
  <2>2. OutInv'
    BY <2>1 DEF OrderInv, OutInv
  <2>3. ASSUME Intact' PROVE WaitInv'
    <3>1. /\ Intact /\ WaitInv
      BY <1>0, <2>3, <1>2, IntactStep DEF OrderInv, Next
    <3>2. x \in Contexts /\ q \in Queue /\ r \in Record /\ Shaped(q)
      BY <1>0, <3>1 DEF PlaceInv, TypeOK
    <3>3. /\ queue'[x] = Pushed(q, r)
          /\ \A c \in Contexts : c # x => queue'[c] = queue[c]
      BY <1>0, <2>1, <3>2 DEF TypeOK
    <3>4. /\ q.write \in Slots /\ queue'[x].record[q.write] = r
          /\ Distance(queue'[x], q.write) = q.count
          /\ \A k \in Slots : Distance(queue'[x], k) = Distance(q, k)
          /\ \A k \in Slots : Holds(queue'[x], k) /\ k # q.write =>
               Holds(q, k) /\ queue'[x].record[k] = q.record[k]
      BY <2>1, <3>2, <3>3, PushedHolds, PushedKeeps
    <3>5. \A v \in Writers : hands'[v] # None =>
            hands'[v] = hands[v] /\ v # w /\ Context(v) # x
      BY <1>0, <2>1, OneWriter DEF TypeOK
    <3> DEFINE s(k) == queue'[x].record[k].stamp
    \* The queue of the writer: its own record is behind all others.
    <3>6. \A k \in Slots : Holds(queue'[x], k) =>
            /\ s(k) <= clock
            /\ Carrying => hand.stamp <= s(k)
            /\ \A i \in 1 .. Len(written) : written[i].stamp <= s(k)
      <4>1. s(q.write) = r.stamp /\ \A k \in Slots :
              Holds(queue'[x], k) /\ k # q.write => s(k) = Stamped(x, k)
        BY <3>4 DEF Stamped
      <4> HIDE DEF s, x
      <4>2. ASSUME NEW k \in Slots, Holds(queue'[x], k), k = q.write
            PROVE  /\ s(k) <= clock
                   /\ Carrying => hand.stamp <= s(k)
                   /\ \A i \in 1 .. Len(written) : written[i].stamp <= s(k)
        BY <2>1, <3>1, <4>1, <4>2 DEF WaitInv
      <4>3. ASSUME NEW k \in Slots, Holds(queue'[x], k), k # q.write
            PROVE  /\ s(k) <= clock
                   /\ Carrying => hand.stamp <= s(k)
                   /\ \A i \in 1 .. Len(written) : written[i].stamp <= s(k)
        BY <3>1, <3>2, <3>4, <4>1, <4>3 DEF WaitInv
      <4> QED
        BY <4>2, <4>3
    <3>7. \A k, l \in Slots :
            /\ Holds(queue'[x], k) /\ Holds(queue'[x], l)
            /\ Distance(queue'[x], k) <= Distance(queue'[x], l)
            => s(k) <= s(l)
      <4> SUFFICES ASSUME NEW k \in Slots, NEW l \in Slots,
                          Holds(queue'[x], k), Holds(queue'[x], l),
                          Distance(queue'[x], k) <= Distance(queue'[x], l)
                   PROVE  s(k) <= s(l)
        OBVIOUS
      <4>1. s(q.write) = r.stamp /\ r.stamp \in Nat
        BY <1>0, <3>4, StampTypes
      <4>2. \A m \in Slots : Holds(queue'[x], m) /\ m # q.write =>
              /\ Holds(queue[x], m) /\ s(m) = Stamped(x, m)
              /\ Distance(queue[x], m) < q.count
        BY <3>4 DEF Stamped, Holds
      <4>3. \A m \in Slots : Holds(queue[x], m) => Stamped(x, m) <= r.stamp
        BY <2>1, <3>1 DEF WaitInv
      <4>4. \A m \in Slots : Distance(queue[x], m) \in Int
        BY <3>2, QueueFields DEF Distance, Slots
      <4>5. q.count \in Int
        BY <3>2, QueueFields
      <4>6. CASE l = q.write
        BY <4>1, <4>2, <4>3, <4>6
      <4>7. CASE l # q.write /\ k = q.write
        BY <3>4, <4>2, <4>4, <4>5, <4>7
      <4>8. CASE l # q.write /\ k # q.write
        <5>1. Distance(queue[x], k) <= Distance(queue[x], l)
          BY <3>4
        <5> QED
          BY <3>1, <3>2, <4>2, <4>8, <5>1 DEF WaitInv
      <4> QED
        BY <4>6, <4>7, <4>8
    <3>8. \A c \in Contexts, k \in Slots : Holds(queue'[c], k) =>
            /\ Stamped(c, k)' <= clock
            /\ Carrying => hand.stamp <= Stamped(c, k)'
            /\ \A i \in 1 .. Len(written) : written[i].stamp <= Stamped(c, k)'
            /\ \A l \in Slots :
                 Holds(queue'[c], l) /\ Distance(queue'[c], k) <= Distance(queue'[c], l)
                   => Stamped(c, k)' <= Stamped(c, l)'
      <4> SUFFICES ASSUME NEW c \in Contexts, NEW k \in Slots, Holds(queue'[c], k)
                   PROVE  /\ Stamped(c, k)' <= clock
                          /\ Carrying => hand.stamp <= Stamped(c, k)'
                          /\ \A i \in 1 .. Len(written) :
                               written[i].stamp <= Stamped(c, k)'
                          /\ \A l \in Slots :
                               /\ Holds(queue'[c], l)
                               /\ Distance(queue'[c], k) <= Distance(queue'[c], l)
                               => Stamped(c, k)' <= Stamped(c, l)'
        OBVIOUS
      <4>1. CASE c = x
        BY <3>6, <3>7, <4>1 DEF Stamped
      <4>2. CASE c # x
        BY <3>1, <3>3, <4>2 DEF Stamped, WaitInv
      <4> QED
        BY <4>1, <4>2
    \* The other writer's queue and record are untouched.
    <3>9. \A v \in Writers : hands'[v] # None =>
            /\ hands'[v].stamp <= clock
            /\ Carrying => hand.stamp <= hands'[v].stamp
            /\ \A i \in 1 .. Len(written) : written[i].stamp <= hands'[v].stamp
            /\ \A k \in Slots : Holds(queue'[Context(v)], k) =>
                 Stamped(Context(v), k)' <= hands'[v].stamp
      <4> SUFFICES ASSUME NEW v \in Writers, hands'[v] # None
                   PROVE  /\ hands'[v].stamp <= clock
                          /\ Carrying => hand.stamp <= hands'[v].stamp
                          /\ \A i \in 1 .. Len(written) :
                               written[i].stamp <= hands'[v].stamp
                          /\ \A k \in Slots : Holds(queue'[Context(v)], k) =>
                               Stamped(Context(v), k)' <= hands'[v].stamp
        OBVIOUS
      <4>1. hands'[v] = hands[v] /\ queue'[Context(v)] = queue[Context(v)]
        BY <3>3, <3>5
      <4> QED
        BY <3>1, <4>1 DEF WaitInv, Stamped
    <3> HIDE DEF s, x
    <3> QED
      BY <2>1, <3>8, <3>9 DEF WaitInv
  <2> QED
    BY <2>2, <2>3 DEF OrderInv
<1>3. CASE PushLost(w)
  <2>1. /\ hands' = [hands EXCEPT ![w] = None]
        /\ UNCHANGED <<clock, made, queue, hand, written>> /\ (Carrying' <=> Carrying)
    BY <1>3 DEF PushLost, Queueing, service, sink, Carrying
  <2>2. \A v \in Writers : hands'[v] # None => hands'[v] = hands[v]
    BY <1>0, <2>1 DEF TypeOK
  <2>3. OutInv'
    BY <2>1 DEF OrderInv, OutInv
  <2>4. Intact' => WaitInv'
    BY <2>1, <2>2 DEF OrderInv, WaitInv, Intact, Stamped
  <2> QED
    BY <2>3, <2>4 DEF OrderInv
<1> QED
  BY <1>1, <1>2, <1>3 DEF Report

\* The queue picked has the oldest record that waits in any queue.
LEMMA PickedOldest ==
    ASSUME TypeOK, WaitInv, PlaceInv, Intact,
           \E c \in Contexts : queue[c].count # 0,
           NEW c \in Contexts, NEW k \in Slots, Holds(queue[c], k)
    PROVE  Stamped(Picked, queue[Picked].read) <= Stamped(c, k)
<1> USE ConstantTypes
<1>1. \A d \in Contexts :
        /\ queue[d].read \in Slots /\ queue[d].count \in 0 .. QueueRecords
        /\ queue[d].count # 0 => Holds(queue[d], queue[d].read)
        /\ Distance(queue[d], queue[d].read) = 0
        /\ \A l \in Slots : Distance(queue[d], l) >= 0 /\ Distance(queue[d], l) \in Int
  BY QueueFields DEF TypeOK, Intact, Valid, Holds, Distance, Slots
<1>2. queue[c].count # 0
  BY <1>1 DEF Holds
<1>3. \A d \in Contexts : queue[d].count # 0 =>
        /\ queue[d].read \in Slots
        /\ First(queue[d]).stamp = Stamped(d, queue[d].read)
        /\ Stamped(d, queue[d].read) \in Nat
  BY <1>1, StampTypes DEF First, Stamped
<1>4. Stamped(c, queue[c].read) <= Stamped(c, k)
  BY <1>1, <1>2 DEF WaitInv
<1>5. Stamped(Picked, queue[Picked].read) <= Stamped(c, queue[c].read)
  BY <1>2, <1>3 DEF Picked, Contexts
<1>6. Stamped(c, k) \in Nat /\ Picked \in Contexts /\ queue[Picked].count # 0
  BY PickedIn, StampTypes
<1> QED
  BY <1>2, <1>3, <1>4, <1>5, <1>6

\* The service takes the oldest record that waits, while no writer is inside a
\* report, and hands it to the sink.
LEMMA OrderService ==
    ASSUME Undisturbed, TraceInv, OrderInv, Service
    PROVE  OrderInv'
<1> USE ConstantTypes
<1>0. TypeOK /\ (Intact => PlaceInv)
  BY DEF TraceInv
<1>1. CASE Pop
  <2> DEFINE x == Picked
             q == queue[x]
  <2>1. /\ x \in Contexts /\ q \in Queue /\ q.count # 0
        /\ Valid(q) /\ Shaped(q) /\ Intact /\ PlaceInv /\ WaitInv /\ OutInv
        /\ \E c \in Contexts : queue[c].count # 0
    BY <1>0, <1>1, PickedIn DEF Pop, PlaceInv, Intact, TypeOK, OrderInv
  <2>2. /\ queue' = [queue EXCEPT ![x] = Popped(q)]
        /\ hand' = q.record[q.read]
        /\ UNCHANGED <<clock, made, hands, written>>
        /\ \A w \in Writers : hands[w] = None
    BY <1>1 DEF Pop, writers, First, sink, Running, Undisturbed
  <2>3. hand'.stamp = Stamped(x, q.read)
    BY <2>2 DEF Stamped
  <2>4. \A c \in Contexts, k \in Slots : Holds(queue[c], k) =>
          hand'.stamp <= Stamped(c, k)
    BY <1>0, <2>1, <2>3, PickedOldest
  <2> HIDE DEF x
  <2>5. /\ queue'[x] = Popped(q)
        /\ \A c \in Contexts : c # x => queue'[c] = queue[c]
    BY <1>0, <2>1, <2>2 DEF TypeOK
  <2>6. /\ q.read \in Slots /\ Holds(q, q.read)
        /\ \A k \in Slots : Holds(queue'[x], k) =>
             /\ Holds(q, k) /\ queue'[x].record[k] = q.record[k]
             /\ Distance(q, k) = Distance(queue'[x], k) + 1
    BY <2>1, <2>5, PoppedHolds, PoppedKeeps
  <2>7. \A k \in Slots : Distance(queue'[x], k) \in Int
    <3>1. queue'[x] \in Queue
      BY <2>1, <2>5, PoppedType
    <3> QED
      BY <3>1, QueueFields DEF Distance, Slots
  <2>8. \A c \in Contexts, k \in Slots : Holds(queue'[c], k) =>
          /\ Holds(queue[c], k) /\ Stamped(c, k)' = Stamped(c, k)
          /\ \A l \in Slots :
               Holds(queue'[c], l) /\ Distance(queue'[c], k) <= Distance(queue'[c], l)
                 => Distance(queue[c], k) <= Distance(queue[c], l)
    <3> SUFFICES ASSUME NEW c \in Contexts, NEW k \in Slots, Holds(queue'[c], k)
                 PROVE  /\ Holds(queue[c], k) /\ Stamped(c, k)' = Stamped(c, k)
                        /\ \A l \in Slots :
                             /\ Holds(queue'[c], l)
                             /\ Distance(queue'[c], k) <= Distance(queue'[c], l)
                             => Distance(queue[c], k) <= Distance(queue[c], l)
      OBVIOUS
    <3>1. CASE c = x
      BY <2>6, <2>7, <3>1 DEF Stamped
    <3>2. CASE c # x
      BY <2>5, <3>2 DEF Stamped
    <3> QED
      BY <3>1, <3>2
  <2>9. /\ hand'.stamp <= clock
        /\ \A i \in 1 .. Len(written) : written[i].stamp <= hand'.stamp
    BY <2>1, <2>3, <2>6 DEF WaitInv
  <2>10. OutInv'
    BY <2>1, <2>2, <2>9 DEF OutInv
  <2>11. WaitInv'
    <3>1. \A c \in Contexts, k \in Slots : Holds(queue'[c], k) =>
            /\ Stamped(c, k)' <= clock
            /\ hand'.stamp <= Stamped(c, k)'
            /\ \A i \in 1 .. Len(written) : written[i].stamp <= Stamped(c, k)'
            /\ \A l \in Slots :
                 Holds(queue'[c], l) /\ Distance(queue'[c], k) <= Distance(queue'[c], l)
                   => Stamped(c, k)' <= Stamped(c, l)'
      BY <2>1, <2>4, <2>8 DEF WaitInv
    <3> QED
      BY <2>2, <3>1 DEF WaitInv
  <2> QED
    BY <2>10, <2>11 DEF OrderInv
<1>2. CASE Write
  <2>1. /\ written' = Append(written, hand) /\ Carrying /\ ~ Carrying'
        /\ UNCHANGED <<clock, made, queue, hands>>
        /\ \A w \in Writers : hands[w] = None
    BY <1>2 DEF Write, writers, Carrying, Running, Undisturbed
  <2>2. /\ Len(written) \in Nat /\ Len(written') = Len(written) + 1
        /\ written'[Len(written) + 1] = hand
        /\ \A i \in 1 .. Len(written) : written'[i] = written[i]
    BY <1>0, <2>1 DEF TypeOK
  <2>3. \A i \in 1 .. Len(written') :
          i \in 1 .. Len(written) \/ i = Len(written) + 1
    BY <2>2
  <2>4. \A i, j \in 1 .. Len(written') : i < j =>
          written'[i].stamp <= written'[j].stamp
    <3> SUFFICES ASSUME NEW i \in 1 .. Len(written'), NEW j \in 1 .. Len(written'),
                        i < j
                 PROVE  written'[i].stamp <= written'[j].stamp
      OBVIOUS
    <3>1. i \in 1 .. Len(written)
      BY <2>2
    <3>2. CASE j \in 1 .. Len(written)
      BY <2>2, <3>1, <3>2 DEF OrderInv, OutInv
    <3>3. CASE j = Len(written) + 1
      BY <2>1, <2>2, <3>1, <3>3 DEF OrderInv, OutInv
    <3> QED
      BY <2>3, <3>2, <3>3
  <2>5. \A i \in 1 .. Len(written') : written'[i].stamp <= clock
    BY <2>1, <2>2, <2>3 DEF OrderInv, OutInv
  <2>6. OutInv'
    BY <2>1, <2>4, <2>5 DEF OrderInv, OutInv
  <2>7. Intact => \A c \in Contexts, k \in Slots : Holds(queue[c], k) =>
          \A i \in 1 .. Len(written') : written'[i].stamp <= Stamped(c, k)
    BY <2>1, <2>2, <2>3 DEF OrderInv, WaitInv
  <2>8. Intact' => WaitInv'
    BY <2>1, <2>7 DEF OrderInv, WaitInv, Intact, Stamped
  <2> QED
    BY <2>6, <2>8 DEF OrderInv
<1>3. CASE BeginDrain \/ BeginFails \/ PopNothing \/ WriteFails \/ CountLost
  <2>1. /\ UNCHANGED <<clock, made, hands, queue, written>>
        /\ Carrying' => Carrying /\ hand' = hand
    BY <1>3 DEF BeginDrain, BeginFails, PopNothing, WriteFails, CountLost, writers,
       service, sink, Carrying
  <2>2. OutInv'
    BY <2>1 DEF OrderInv, OutInv
  <2>3. Intact' => WaitInv'
    BY <2>1 DEF OrderInv, WaitInv, Intact, Stamped
  <2> QED
    BY <2>2, <2>3 DEF OrderInv
<1> QED
  BY <1>1, <1>2, <1>3 DEF Service

\* Every step keeps the order; a stray write stops the trace.
LEMMA OrderStep ==
    ASSUME IsFiniteSet(Tasks), IsFiniteSet(Isrs), Undisturbed,
           TraceInv, OrderInv, [Next]_vars
    PROVE  OrderInv'
<1>1. CASE Remove \/ Insert \/ UNCHANGED vars
  <2>1. UNCHANGED <<clock, made, hands, queue, written, hand>>
        /\ (Carrying' <=> Carrying)
    BY <1>1 DEF Remove, Insert, vars, writers, service, sink, Carrying
  <2>2. OutInv'
    BY <2>1 DEF OrderInv, OutInv
  <2>3. Intact' => WaitInv'
    BY <2>1 DEF OrderInv, WaitInv, Intact, Stamped
  <2> QED
    BY <2>2, <2>3 DEF OrderInv
<1>2. ASSUME NEW c \in Contexts, CorruptQueue(c) PROVE OrderInv'
  <2>1. queue'[c].read = QueueRecords \/ queue'[c].write = QueueRecords
    BY <1>2, queue[c] \in Queue DEF CorruptQueue, Queue, TraceInv, TypeOK
  <2>2. ~ Intact'
    BY <2>1, ConstantTypes DEF Intact, Valid, Slots
  <2>3. UNCHANGED <<clock, made, written, hand>> /\ (Carrying' <=> Carrying)
    BY <1>2 DEF CorruptQueue, writers, service, Carrying
  <2>4. OutInv'
    BY <2>3 DEF OrderInv, OutInv
  <2> QED
    BY <2>2, <2>4 DEF OrderInv
<1> QED
  BY <1>1, <1>2, OrderReport, OrderService DEF Next

\* The sink receives the records by timestamp, merged from queues of any length,
\* through any number of failures, if the two contexts have one writer each, the
\* service Task runs only while neither is inside a report, and the timestamp does
\* not wrap around.
THEOREM OutputOrderedHolds ==
    ASSUME IsFiniteSet(Tasks), IsFiniteSet(Isrs)
    PROVE  Spec => []OutputOrdered
<1>1. Init => TraceInv /\ (Undisturbed => OrderInv)
  BY TraceInvInit, OrderInit
<1>2. TraceInv /\ (Undisturbed => OrderInv) /\ [Next]_vars
        => (TraceInv /\ (Undisturbed => OrderInv))'
  BY TraceInvStep, OrderStep DEF Undisturbed
<1>3. TraceInv /\ (Undisturbed => OrderInv) => OutputOrdered
  BY DEF OutputOrdered, Undisturbed, OrderInv, OutInv
<1> QED
  BY <1>1, <1>2, <1>3, PTL DEF Spec
=============================================================================
