--------------------------- MODULE RecorderProofs ---------------------------
(* The accounting of the usage recorder, proved for any number of requests *)
(* and any buffer and batch size: no event is lost without being counted;  *)
(* and that it implements Ledger, step by step: no event is stored or      *)
(* billed twice, what counts as written is there whole, and a flush that   *)
(* did not lose the database kept all that it takes.                       *)
EXTENDS Recorder, FiniteSetTheorems, TLAPS

\* Where Run is in a write, and how much of the batch it has given up.
Position ==
  /\ pc \in {"write", "cancelled"} => batch # <<>>
  /\ pc \in {"each", "bills"} => at \in 1..Len(batch) /\ lost <= at
  /\ pc = "each" => lost < at
  /\ pc \notin {"each", "bills"} => lost = 0

\* The inductive invariant.
Inv == TypeOK /\ Position /\ Conservation

-----------------------------------------------------------------------------
(* Counting the requests that returned.                                    *)

\* The returned requests are finitely many.
LEMMA ReturnedFinite == IsFiniteSet(Returned) /\ Cardinality(Returned) \in Nat
  <1>1. Returned \subseteq Events
    BY DEF Returned
  <1> QED
    BY <1>1, RecorderAssumption, FS_Subset, FS_CardinalityType DEF RecorderAssumption

\* A request that returns adds one to them.
LEMMA OneReturns ==
  ASSUME TypeOK, NEW e \in Events, request[e] # "returned",
         request' = [request EXCEPT ![e] = "returned"]
  PROVE  Cardinality(Returned') = Cardinality(Returned) + 1
  <1>1. Returned' = Returned \cup {e} /\ e \notin Returned
    BY DEF Returned, TypeOK
  <1> QED
    BY <1>1, ReturnedFinite, FS_AddElement

\* While no request returns, their number stays.
LEMMA NoneReturns ==
  ASSUME TypeOK,
         \/ request' = request
         \/ \E e \in Events : /\ request[e] = "running"
                              /\ request' = [request EXCEPT ![e] = "blocked"]
  PROVE  Returned' = Returned
  BY DEF Returned, TypeOK

-----------------------------------------------------------------------------
(* The steps of a flush.                                                   *)

\* The lengths of the queues and of the batch are numbers.
LEMMA Lengths == TypeOK => Len(ch) \in Nat /\ Len(billed) \in Nat /\ Len(batch) \in Nat
  BY DEF TypeOK

\* The arithmetic of a flush: the counters grow by what the batch held.
LEMMA CountersTakeBatch ==
  ASSUME NEW d \in Nat, NEW w \in Nat, NEW c \in Nat, NEW b \in Nat, NEW n \in Nat,
         NEW d2 \in Nat, NEW w2 \in Nat, NEW total \in Nat,
         d + w + c + b + n = total, d2 + w2 = d + w + n
  PROVE  d2 + w2 + c + b + 0 = total
  OBVIOUS

\* What flush counts as written and as dropped is what the batch held.
LEMMA FlushedKeeps ==
  ASSUME Inv,
         batch' = <<>>, pc' = then, at' = 0, lost' = 0, failing' \in BOOLEAN,
         written' \in Nat, dropped' \in Nat,
         dropped' + written' = dropped + written + Len(batch),
         UNCHANGED <<request, queues, then, stopping, left>>,
         rows' \in [Events -> Nat], bills' \in [Events -> Nat]
  PROVE  Inv'
  <1>1. TypeOK'
    BY DEF Inv, TypeOK, queues
  <1>2. Position'
    BY DEF Inv, TypeOK, Position
  <1>3. Returned' = Returned
    BY NoneReturns DEF Inv
  <1>4. Len(batch') = 0
    OBVIOUS
  <1>5. Conservation'
    <2>1. Len(ch') = Len(ch) /\ Len(billed') = Len(billed)
      BY DEF queues
    <2>2. Cardinality(Returned') = Cardinality(Returned)
      BY <1>3
    <2>3. dropped + written + Len(ch) + Len(billed) + Len(batch) = Cardinality(Returned)
      BY DEF Inv, Conservation
    <2>5. /\ dropped \in Nat /\ written \in Nat /\ Cardinality(Returned) \in Nat
          /\ Len(ch) \in Nat /\ Len(billed) \in Nat /\ Len(batch) \in Nat
      BY ReturnedFinite, Lengths DEF Inv, TypeOK
    <2>4. dropped' + written' + Len(ch) + Len(billed) + 0 = Cardinality(Returned)
      BY <2>3, <2>5, CountersTakeBatch
    <2> QED
      BY <1>4, <2>1, <2>2, <2>4 DEF Conservation
  <1> QED
    BY <1>1, <1>2, <1>5 DEF Inv

\* flush of a batch lost whole.
LEMMA FlushedLost ==
  ASSUME Inv, Flushed(0, Len(batch), TRUE),
         rows' \in [Events -> Nat], bills' \in [Events -> Nat]
  PROVE  Inv'
  <1>1. written' = written + 0 /\ dropped' = dropped + Len(batch)
    BY DEF Flushed
  <1>2. written' \in Nat /\ dropped' \in Nat
        /\ dropped' + written' = dropped + written + Len(batch)
    BY <1>1, Lengths DEF Inv, TypeOK
  <1> QED
    BY <1>2, FlushedKeeps DEF Flushed

\* flush of a batch of which n events were lost.
LEMMA FlushedPartly ==
  ASSUME Inv, NEW n \in Nat, n <= Len(batch), Flushed(Len(batch) - n, n, FALSE),
         rows' \in [Events -> Nat], bills' \in [Events -> Nat]
  PROVE  Inv'
  <1>1. written' = written + (Len(batch) - n) /\ dropped' = dropped + n
    BY DEF Flushed
  <1>2. written' \in Nat /\ dropped' \in Nat
        /\ dropped' + written' = dropped + written + Len(batch)
    BY <1>1, Lengths DEF Inv, TypeOK
  <1> QED
    BY <1>2, FlushedKeeps DEF Flushed

\* So is a step of the loop over the events of a refused batch.
LEMMA AfterEachKeeps ==
  ASSUME Inv, NEW n \in Nat, n <= at, pc \in {"each", "bills"}, AfterEach(n),
         rows' \in [Events -> Nat], bills' \in [Events -> Nat]
  PROVE  Inv'
  <1>0. at \in 1..Len(batch) /\ Len(batch) \in Nat
    BY DEF Inv, TypeOK, Position
  <1>1. CASE at < Len(batch)
    <2>0. /\ at' = at + 1 /\ lost' = n /\ pc' = "each"
          /\ UNCHANGED <<request, queues, counts, batch, then, stopping, left>>
      BY <1>1 DEF AfterEach
    <2>1. TypeOK'
      BY <2>0 DEF Inv, TypeOK, queues, counts
    <2>2. Position'
      BY <1>0, <1>1, <2>0 DEF Inv, Position
    <2>3. Returned' = Returned
      BY <2>0, NoneReturns DEF Inv
    <2>4. Conservation'
      BY <2>0, <2>3 DEF Inv, Conservation, queues, counts
    <2> QED
      BY <2>1, <2>2, <2>4 DEF Inv
  <1>2. CASE ~(at < Len(batch))
    <2>1. Flushed(Len(batch) - n, n, FALSE)
      BY <1>2, Zenon DEF AfterEach
    <2>2. n <= Len(batch)
      BY <1>0
    <2> QED
      BY <2>1, <2>2, FlushedPartly
  <1> QED
    BY <1>1, <1>2

\* A write leaves the counts of the database well formed.
LEMMA LandedType ==
  ASSUME TypeOK, NEW es, NEW billsOnly \in BOOLEAN, Landed(es, billsOnly)
  PROVE  rows' \in [Events -> Nat] /\ bills' \in [Events -> Nat]
  BY DEF TypeOK, Landed

-----------------------------------------------------------------------------
(* The invariant is inductive.                                             *)

LEMMA InitInv == Init => Inv
  <1> SUFFICES ASSUME Init PROVE Inv
    OBVIOUS
  <1>0. TypeOK
    <2>1. ch \in Seq(Events \ Billed) /\ billed \in Seq(Billed) /\ batch \in Seq(Events)
      BY DEF Init
    <2>2. rows \in [Events -> Nat] /\ bills \in [Events -> Nat]
          /\ request \in [Events -> {"running", "blocked", "returned"}]
      BY DEF Init
    <2> QED
      BY <2>1, <2>2 DEF Init, TypeOK
  <1>1. Position
    BY DEF Init, Position
  <1>2. Returned = {}
    BY DEF Init, Returned
  <1>3. Conservation
    BY <1>2, FS_EmptySet DEF Init, Conservation
  <1> QED
    BY <1>0, <1>1, <1>3 DEF Inv

\* An event sent to a queue.
LEMMA EnqueueKeeps ==
  ASSUME Inv, NEW e \in Events, request[e] # "returned", Enqueue(e),
         request' = [request EXCEPT ![e] = "returned"],
         UNCHANGED <<counts, run, db, stopping, left>>
  PROVE  Inv'
  <1>0. /\ ch' \in Seq(Events \ Billed) /\ billed' \in Seq(Billed)
        /\ Len(ch') + Len(billed') = Len(ch) + Len(billed) + 1
    <2>1. CASE OwnQueue(e)
      <3>1. billed' = Append(billed, e) /\ ch' = ch /\ e \in Billed
        BY <2>1 DEF Enqueue, OwnQueue
      <3>2. billed' \in Seq(Billed) /\ Len(billed') = Len(billed) + 1
        BY <3>1 DEF Inv, TypeOK
      <3> QED
        BY <3>1, <3>2, Lengths DEF Inv, TypeOK
    <2>2. CASE ~OwnQueue(e)
      <3>1. ch' = Append(ch, e) /\ billed' = billed /\ e \in Events \ Billed
        BY <2>2 DEF Enqueue, OwnQueue
      <3>2. ch' \in Seq(Events \ Billed) /\ Len(ch') = Len(ch) + 1
        BY <3>1 DEF Inv, TypeOK
      <3> QED
        BY <3>1, <3>2, Lengths DEF Inv, TypeOK
    <2> QED
      BY <2>1, <2>2
  <1>1. TypeOK'
    BY <1>0 DEF Inv, TypeOK, counts, run, db
  <1>2. Position'
    BY DEF Inv, Position, run
  <1>4. Cardinality(Returned') = Cardinality(Returned) + 1
    BY OneReturns DEF Inv
  <1>5. Conservation'
    <2>1. UNCHANGED <<dropped, written, Len(batch)>>
      BY DEF counts, run
    <2> QED
      BY <1>0, <1>1, <1>4, <2>1, ReturnedFinite, Lengths, SMTT(20) DEF Inv, TypeOK, Conservation
  <1> QED
    BY <1>1, <1>2, <1>5 DEF Inv

\* An event dropped by Record.
LEMMA DropKeeps ==
  ASSUME Inv, NEW e \in Events, request[e] # "returned", Drop(e)
  PROVE  Inv'
  <1>1. TypeOK'
    BY DEF Inv, TypeOK, Drop, queues, run, db
  <1>2. Position'
    BY DEF Inv, Position, Drop, run
  <1>3. Cardinality(Returned') = Cardinality(Returned) + 1
    BY OneReturns DEF Inv, Drop
  <1>4. Conservation'
    BY <1>3, ReturnedFinite DEF Inv, TypeOK, Conservation, Drop, queues, run
  <1> QED
    BY <1>1, <1>2, <1>4 DEF Inv

LEMMA RequestsKeep == Inv /\ Requests => Inv'
  <1> SUFFICES ASSUME Inv, NEW e \in Events,
                      Record(e) \/ RecordFull(e) \/ Unblock(e) \/ BlockedTooLong(e)
               PROVE  Inv'
    BY DEF Requests
  <1>1. CASE Record(e) \/ Unblock(e)
    BY <1>1, EnqueueKeeps DEF Record, Unblock
  <1>2. CASE BlockedTooLong(e)
    BY <1>2, DropKeeps DEF BlockedTooLong
  <1>3. CASE RecordFull(e)
    <2>1. CASE failing
      BY <1>3, <2>1, DropKeeps DEF RecordFull
    <2>2. CASE ~failing
      <3>1. TypeOK'
        BY <1>3, <2>2 DEF RecordFull, Inv, TypeOK, queues, counts, run, db
      <3>2. Position'
        BY <1>3, <2>2 DEF RecordFull, Inv, Position, run
      <3>3. Returned' = Returned
        BY <1>3, <2>2, NoneReturns DEF RecordFull, Inv
      <3>4. Conservation'
        BY <1>3, <2>2, <3>3 DEF RecordFull, Inv, Conservation, queues, counts, run
      <3> QED
        BY <3>1, <3>2, <3>4 DEF Inv
    <2> QED
      BY <2>1, <2>2
  <1> QED
    BY <1>1, <1>2, <1>3

\* An event moved from a queue to the batch.
LEMMA ReceiveKeeps ==
  ASSUME Inv, NEW next \in {"poll", "drain"}, pc \in {"poll", "select", "drain"},
         Receive(next), UNCHANGED <<request, counts, db, stopping, left>>
  PROVE  Inv'
  <1>1. /\ batch' \in Seq(Events) /\ batch' # <<>> /\ Len(batch') = Len(batch) + 1
        /\ ch' \in Seq(Events \ Billed) /\ billed' \in Seq(Billed)
        /\ Len(ch') + Len(billed') = Len(ch) + Len(billed) - 1
    <2>1. CASE Take(billed, next) /\ billed' = Tail(billed) /\ UNCHANGED ch
      <3>1. Head(billed) \in Events /\ Tail(billed) \in Seq(Billed) /\ Len(Tail(billed)) = Len(billed) - 1
        BY <2>1, RecorderAssumption DEF Inv, TypeOK, Take, RecorderAssumption
      <3> QED
        BY <2>1, <3>1 DEF Inv, TypeOK, Take, Add
    <2>2. CASE Take(ch, next) /\ ch' = Tail(ch) /\ UNCHANGED billed
      <3>1. Head(ch) \in Events /\ Tail(ch) \in Seq(Events \ Billed) /\ Len(Tail(ch)) = Len(ch) - 1
        BY <2>2 DEF Inv, TypeOK, Take
      <3> QED
        BY <2>2, <3>1 DEF Inv, TypeOK, Take, Add
    <2> QED
      BY <2>1, <2>2 DEF Receive
  <1>2. /\ then' = next /\ at' = at /\ lost' = lost
        /\ pc' \in {next, "write", "cancelled"}
    BY DEF Receive, Take, Add, StartWrite
  <1>3. TypeOK'
    BY <1>1, <1>2 DEF Inv, TypeOK, counts, db
  <1>4. Position'
    BY <1>1, <1>2 DEF Inv, Position
  <1>5. Returned' = Returned
    BY NoneReturns DEF Inv
  <1>6. Conservation'
    <2>1. UNCHANGED <<dropped, written>>
      BY DEF counts
    <2>2. Len(ch') \in Nat /\ Len(billed') \in Nat
      BY <1>1
    <2> QED
      BY <1>1, <1>5, <2>1, <2>2, ReturnedFinite, Lengths, SMTT(20) DEF Inv, TypeOK, Conservation
  <1> QED
    BY <1>3, <1>4, <1>6 DEF Inv

\* A step of Run that moves only its own position.
LEMMA MoveKeeps ==
  ASSUME Inv, pc \in {"poll", "select", "drain"},
         pc' \in {"poll", "select", "drain", "done"} \/ (pc' \in {"write", "cancelled"} /\ batch # <<>>),
         then' \in {"poll", "drain", "done"},
         UNCHANGED <<request, queues, counts, batch, at, lost, db, stopping, left>>
  PROVE  Inv'
  <1>1. TypeOK'
    BY DEF Inv, TypeOK, queues, counts, db
  <1>2. Position'
    BY DEF Inv, Position
  <1>3. Returned' = Returned
    BY NoneReturns DEF Inv
  <1>4. Conservation'
    BY <1>3 DEF Inv, Conservation, queues, counts
  <1> QED
    BY <1>1, <1>2, <1>4 DEF Inv

LEMMA LoopKeeps == Inv /\ Loop => Inv'
  <1> SUFFICES ASSUME Inv, Loop PROVE Inv'
    OBVIOUS
  <1>1. CASE Poll
    <2>1. CASE billed # <<>>
      BY <1>1, <2>1, ReceiveKeeps DEF Poll, Receive
    <2>2. CASE billed = <<>>
      BY <1>1, <2>2, MoveKeeps DEF Poll, queues, Inv, TypeOK
    <2> QED
      BY <2>1, <2>2
  <1>2. CASE Select
    BY <1>2, ReceiveKeeps DEF Select
  <1>3. CASE Tick
    BY <1>3, MoveKeeps DEF Tick, Flush, StartWrite
  <1>4. CASE StartDrain
    BY <1>4, MoveKeeps DEF StartDrain, Inv, TypeOK
  <1>5. CASE Drain
    <2>1. CASE billed # <<>> \/ ch # <<>>
      BY <1>5, <2>1, ReceiveKeeps DEF Drain
    <2>2. CASE ~(billed # <<>> \/ ch # <<>>)
      BY <1>5, <2>2, MoveKeeps DEF Drain, Flush, StartWrite
    <2> QED
      BY <2>1, <2>2
  <1>6. CASE WriteCancelled
    BY <1>6, FlushedLost DEF WriteCancelled, Inv, TypeOK, db
  <1> QED
    BY <1>1, <1>2, <1>3, <1>4, <1>5, <1>6 DEF Loop

LEMMA WriteKeeps == Inv /\ (Answered \/ Broken) => Inv'
  <1> SUFFICES ASSUME Inv, Answered \/ Broken PROVE Inv'
    OBVIOUS
  <1>0. Len(batch) \in Nat /\ lost \in Nat /\ at \in Nat
    BY DEF Inv, TypeOK
  <1>1. CASE WriteAll
    <2>1. rows' \in [Events -> Nat] /\ bills' \in [Events -> Nat]
      BY <1>1, LandedType DEF WriteAll, Inv
    <2>2. Len(batch) = Len(batch) - 0 /\ 0 <= Len(batch)
      BY <1>0
    <2>3. Flushed(Len(batch) - 0, 0, FALSE)
      BY <1>1, <2>2 DEF WriteAll
    <2> QED
      BY <2>1, <2>2, <2>3, FlushedPartly
  <1>2. CASE WriteFails
    <2>1. rows' \in [Events -> Nat] /\ bills' \in [Events -> Nat]
      BY <1>2, LandedType DEF WriteFails, Inv, TypeOK, db
    <2> QED
      BY <1>0, <1>2, <2>1, FlushedLost DEF WriteFails
  <1>3. CASE WriteRefused
    <2>1. TypeOK' /\ Position'
      BY <1>3 DEF WriteRefused, Inv, TypeOK, Position, queues, counts, db
    <2>2. Returned' = Returned
      BY <1>3, NoneReturns DEF WriteRefused, Inv
    <2>3. Conservation'
      BY <1>3, <2>2 DEF WriteRefused, Inv, Conservation, queues, counts
    <2> QED
      BY <2>1, <2>3 DEF Inv
  <1>4. CASE EachWritten
    <2>1. rows' \in [Events -> Nat] /\ bills' \in [Events -> Nat]
      BY <1>4, LandedType DEF EachWritten, Inv
    <2> QED
      BY <1>0, <1>4, <2>1, AfterEachKeeps DEF EachWritten, Inv, Position
  <1>5. CASE EachRefused
    <2>0. rows' \in [Events -> Nat] /\ bills' \in [Events -> Nat] /\ lost + 1 <= at
      BY <1>0, <1>5 DEF EachRefused, Inv, TypeOK, Position, db
    <2>1. CASE batch[at] \in Billed \ BillsOnly
      <3>1. TypeOK'
        <4>1. /\ pc' = "bills" /\ lost' = lost + 1
              /\ UNCHANGED <<request, ch, billed, failing, dropped, written, batch, then, at, stopping,
                             left>>
          BY <1>5, <2>1 DEF EachRefused, queues, counts
        <4>2. lost' \in Nat
          BY <1>0, <4>1
        <4> QED
          BY <2>0, <4>1, <4>2 DEF Inv, TypeOK
      <3>2. Position'
        BY <1>0, <1>5, <2>0, <2>1 DEF EachRefused, Inv, Position
      <3>3. Returned' = Returned
        BY <1>5, <2>1, NoneReturns DEF EachRefused, Inv
      <3>4. Conservation'
        BY <1>5, <2>1, <3>3 DEF EachRefused, Inv, Conservation, queues, counts
      <3> QED
        BY <3>1, <3>2, <3>4 DEF Inv
    <2>2. CASE batch[at] \notin Billed \ BillsOnly
      BY <1>0, <1>5, <2>0, <2>2, AfterEachKeeps DEF EachRefused
    <2> QED
      BY <2>1, <2>2
  <1>6. CASE BillsWritten
    <2>1. rows' \in [Events -> Nat] /\ bills' \in [Events -> Nat]
      BY <1>6, LandedType DEF BillsWritten, Inv
    <2> QED
      BY <1>0, <1>6, <2>1, AfterEachKeeps DEF BillsWritten, Inv, Position
  <1>7. CASE BillsRefused
    <2>1. rows' \in [Events -> Nat] /\ bills' \in [Events -> Nat]
      BY <1>7 DEF BillsRefused, Inv, TypeOK, db
    <2> QED
      BY <1>0, <1>7, <2>1, AfterEachKeeps DEF BillsRefused, Inv, Position
  <1>8. CASE EachFails
    <2>1. rows' \in [Events -> Nat] /\ bills' \in [Events -> Nat]
      BY <1>8, LandedType DEF EachFails, Inv, TypeOK, db
    <2> QED
      BY <1>0, <1>8, <2>1, FlushedLost DEF EachFails
  <1> QED
    BY <1>1, <1>2, <1>3, <1>4, <1>5, <1>6, <1>7, <1>8 DEF Answered, Broken

LEMMA NextInv == Inv /\ [Next]_vars => Inv'
  <1> SUFFICES ASSUME Inv, [Next]_vars PROVE Inv'
    OBVIOUS
  <1>1. CASE Next
    <2>1. CASE StopRecorder
      <3>1. TypeOK' /\ Position'
        BY <2>1 DEF StopRecorder, Inv, TypeOK, Position, queues, counts, run, db
      <3>2. Returned' = Returned
        BY <2>1, NoneReturns DEF StopRecorder, Inv
      <3> QED
        BY <2>1, <3>1, <3>2 DEF StopRecorder, Inv, Conservation, queues, counts, run
    <2> QED
      BY <1>1, <2>1, RequestsKeep, LoopKeeps, WriteKeeps DEF Next, Run
  <1>2. CASE UNCHANGED vars
    <2>1. TypeOK' /\ Position'
      BY <1>2 DEF Inv, TypeOK, Position, vars, queues, counts, run, db
    <2>2. Returned' = Returned
      BY <1>2, NoneReturns DEF vars, Inv
    <2> QED
      BY <1>2, <2>1, <2>2 DEF Inv, Conservation, vars, queues, counts, run
  <1> QED
    BY <1>1, <1>2

\* Every variable of the recorder keeps its type: the queues hold the events
\* meant for them, and the counters never fall below zero.
THEOREM RecorderTypeOK == Spec => []TypeOK
  <1>1. Inv => TypeOK
    BY DEF Inv
  <1> QED
    BY InitInv, NextInv, <1>1, PTL DEF Spec

\* Every event handed to Record is queued, in the batch, or counted as written
\* or as dropped, however the writes end and whenever the recorder is stopped.
THEOREM RecorderConservation == Spec => []Conservation
  <1>1. Inv => Conservation
    BY DEF Inv
  <1> QED
    BY InitInv, NextInv, <1>1, PTL DEF Spec

-----------------------------------------------------------------------------
(* The recorder implements Ledger.                                         *)

\* The events the recorder has in its hands.
Held == Range(ch) \cup Range(billed) \cup Range(batch)

\* Each event in its hands is there once.
Apart ==
  /\ IsInjective(ch) /\ IsInjective(billed) /\ IsInjective(batch)
  /\ Range(batch) \cap (Range(ch) \cup Range(billed)) = {}
  /\ Held \subseteq Returned

\* What the database has of event e: nothing, all there is, or all it takes.
Unstored(e) == rows[e] = 0 /\ bills[e] = 0
Stored(e)   == (e \in BillsOnly \/ rows[e] = 1) /\ (e \in Billed => bills[e] = 1)
Kept(e)     == /\ e \in Billed \ BadBills => bills[e] = 1
               /\ e \notin BadRow \cup BadBills => Stored(e)

\* Only the part of the batch that the loop of WriteEvents has passed is in
\* the database, and all of it that the database takes.
Progress ==
  /\ \A e \in Events : e \notin Returned \/ e \in Range(ch) \cup Range(billed) => Unstored(e)
  /\ \A i \in 1..Len(batch) : pc \notin {"each", "bills"} \/ i >= at => Unstored(batch[i])
  /\ pc \in {"each", "bills"} => \A i \in 1..Len(batch) : i < at => Kept(batch[i])
  /\ pc = "bills" => batch[at] \in (Billed \ BillsOnly) \cap (BadRow \cup BadBills)

\* The events before the k-th one of the batch that are not there whole ...
GivenUp(k) == {e \in Range(batch) : ~Stored(e) /\ \E i \in 1..Len(batch) : i < k /\ batch[i] = e}

\* ... are at most the ones counted as lost.
Tally ==
  /\ pc = "each" => Cardinality(GivenUp(at)) <= lost
  /\ pc = "bills" => Cardinality(GivenUp(at)) + 1 <= lost

\* The inductive invariant.
LInv == Inv /\ Apart /\ Progress /\ Tally

-----------------------------------------------------------------------------
(* Sequences without repetition.                                           *)

LEMMA RangeOf ==
  ASSUME NEW S, NEW s \in Seq(S)
  PROVE  /\ DOMAIN s = 1..Len(s) /\ Len(s) \in Nat
         /\ \A e : e \in Range(s) <=> \E i \in 1..Len(s) : s[i] = e
         /\ Range(s) \subseteq S
  BY DEF Range

LEMMA RangeAppend ==
  ASSUME NEW S, NEW s \in Seq(S), NEW e \in S
  PROVE  /\ Range(Append(s, e)) = Range(s) \cup {e}
         /\ IsInjective(s) /\ e \notin Range(s) => IsInjective(Append(s, e))
  <1>1. /\ Append(s, e) \in Seq(S) /\ Len(Append(s, e)) = Len(s) + 1 /\ Len(s) \in Nat
        /\ \A i \in 1..Len(s) : Append(s, e)[i] = s[i]
        /\ Append(s, e)[Len(s) + 1] = e
    OBVIOUS
  <1>2. DOMAIN Append(s, e) = 1..(Len(s) + 1) /\ DOMAIN s = 1..Len(s)
    BY <1>1
  <1>3. \A i : i \in 1..(Len(s) + 1) <=> i \in 1..Len(s) \/ i = Len(s) + 1
    BY <1>1
  <1> DEFINE t == Append(s, e)
  <1> HIDE DEF t
  <1>4. /\ DOMAIN t = 1..(Len(s) + 1) /\ \A i \in 1..Len(s) : t[i] = s[i]
        /\ t[Len(s) + 1] = e
    BY <1>1, <1>2 DEF t
  <1>5. Range(t) = Range(s) \cup {e}
    <2>1. ASSUME NEW x \in Range(t) PROVE x \in Range(s) \cup {e}
      BY <1>2, <1>3, <1>4, <2>1 DEF Range
    <2>2. ASSUME NEW x \in Range(s) \cup {e} PROVE x \in Range(t)
      BY <1>2, <1>3, <1>4, <2>2 DEF Range
    <2> QED
      BY <2>1, <2>2
  <1>6. ASSUME IsInjective(s), e \notin Range(s) PROVE IsInjective(t)
    BY <1>2, <1>3, <1>4, <1>6 DEF IsInjective, Range
  <1> QED
    BY <1>5, <1>6 DEF t

LEMMA RangeTail ==
  ASSUME NEW S, NEW s \in Seq(S), s # <<>>
  PROVE  /\ Head(s) \in S /\ Tail(s) \in Seq(S)
         /\ Range(s) = Range(Tail(s)) \cup {Head(s)}
         /\ IsInjective(s) => IsInjective(Tail(s)) /\ Head(s) \notin Range(Tail(s))
  <1>1. /\ Len(s) \in Nat \ {0} /\ Head(s) \in S /\ Head(s) = s[1]
        /\ Tail(s) \in Seq(S) /\ Len(Tail(s)) = Len(s) - 1
        /\ \A i \in 1..(Len(s) - 1) : Tail(s)[i] = s[i + 1]
    OBVIOUS
  <1>2. DOMAIN Tail(s) = 1..(Len(s) - 1) /\ DOMAIN s = 1..Len(s)
    BY <1>1
  <1> DEFINE t == Tail(s)
             h == Head(s)
             n == Len(s)
  <1> HIDE DEF t, h, n
  <1>3. /\ DOMAIN t = 1..(n - 1) /\ \A i \in 1..(n - 1) : t[i] = s[i + 1]
        /\ DOMAIN s = 1..n /\ n \in Nat \ {0} /\ h = s[1]
    BY <1>1, <1>2 DEF t, h, n
  <1>4. Range(s) = Range(t) \cup {h}
    <2>1. ASSUME NEW x \in Range(s) PROVE x \in Range(t) \cup {h}
      <3>1. PICK i \in 1..n : x = s[i]
        BY <1>3, <2>1 DEF Range
      <3>2. CASE i = 1
        BY <1>3, <3>1, <3>2
      <3>3. CASE i # 1
        <4>1. i - 1 \in 1..(n - 1) /\ (i - 1) + 1 = i
          BY <1>3, <3>3
        <4>2. t[i - 1] = s[i]
          BY <1>3, <4>1
        <4> QED
          BY <1>3, <3>1, <4>1, <4>2 DEF Range
      <3> QED
        BY <3>2, <3>3
    <2>2. ASSUME NEW x \in Range(t) PROVE x \in Range(s)
      <3>1. PICK i \in 1..(n - 1) : x = t[i]
        BY <1>3, <2>2 DEF Range
      <3>2. i + 1 \in 1..n /\ x = s[i + 1]
        BY <1>3, <3>1
      <3> QED
        BY <1>3, <3>2 DEF Range
    <2>3. h \in Range(s)
      <3>1. 1 \in 1..n
        BY <1>3
      <3> QED
        BY <1>3, <3>1 DEF Range
    <2> QED
      BY <2>1, <2>2, <2>3
  <1>5. ASSUME IsInjective(s) PROVE IsInjective(t) /\ h \notin Range(t)
    <2>0. \A i \in 1..(n - 1) : i + 1 \in 1..n /\ i + 1 # 1 /\ i \in Int
      BY <1>3
    <2>1. \A i, j \in 1..n : s[i] = s[j] => i = j
      BY <1>3, <1>5 DEF IsInjective
    <2>2. ASSUME NEW i \in 1..(n - 1), NEW j \in 1..(n - 1), t[i] = t[j] PROVE i = j
      <3>1. i + 1 = j + 1
        BY <1>3, <2>0, <2>1, <2>2
      <3> QED
        BY <3>1
    <2>3. ASSUME h \in Range(t) PROVE FALSE
      <3>1. PICK i \in 1..(n - 1) : h = t[i]
        BY <1>3, <2>3 DEF Range
      <3>2. s[1] = s[i + 1] /\ 1 \in 1..n /\ i + 1 \in 1..n
        BY <1>3, <3>1
      <3> QED
        BY <2>0, <2>1, <3>2
    <2> QED
      BY <1>3, <2>2, <2>3 DEF IsInjective
  <1> QED
    BY <1>1, <1>4, <1>5 DEF t, h

LEMMA RangeCount ==
  ASSUME NEW S, NEW s \in Seq(S), IsInjective(s)
  PROVE  IsFiniteSet(Range(s)) /\ Cardinality(Range(s)) = Len(s)
  <1>1. /\ Len(s) \in Nat /\ DOMAIN s = 1..Len(s) /\ s \in [1..Len(s) -> Range(s)]
        /\ \A e \in Range(s) : \E i \in 1..Len(s) : s[i] = e
    BY DEF Range
  <1>2. s \in Bijection(1..Len(s), Range(s))
    BY <1>1 DEF Bijection, Injection, Surjection, IsInjective
  <1>3. ExistsBijection(1..Len(s), Range(s))
    BY <1>2 DEF ExistsBijection
  <1> QED
    BY <1>1, <1>3, FS_NatBijection, FS_CountingElements

-----------------------------------------------------------------------------
(* What the steps of Ledger ask for.                                       *)

\* Ledger counts as the recorder does.
LEMMA SameCount == ASSUME NEW S PROVE Books!Cardinality(S) = Cardinality(S)
  BY DEF Books!Cardinality, Cardinality

LEMMA Types ==
  ASSUME TypeOK
  PROVE  /\ ch \in Seq(Events \ Billed) /\ billed \in Seq(Billed) /\ batch \in Seq(Events)
         /\ Len(batch) \in Nat /\ at \in Nat /\ lost \in Nat /\ written \in Nat /\ dropped \in Nat
         /\ rows \in [Events -> Nat] /\ bills \in [Events -> Nat] /\ failing \in BOOLEAN
         /\ Range(ch) \subseteq Events \ Billed /\ Range(billed) \subseteq Billed
         /\ Range(batch) \subseteq Events
         /\ \A e : e \in Range(batch) <=> \E i \in 1..Len(batch) : batch[i] = e
         /\ Billed \subseteq Events
  <1>1. /\ ch \in Seq(Events \ Billed) /\ billed \in Seq(Billed) /\ batch \in Seq(Events)
        /\ at \in Nat /\ lost \in Nat /\ written \in Nat /\ dropped \in Nat
        /\ rows \in [Events -> Nat] /\ bills \in [Events -> Nat] /\ failing \in BOOLEAN
    BY DEF TypeOK
  <1>2. /\ Len(batch) \in Nat /\ Range(batch) \subseteq Events
        /\ \A e : e \in Range(batch) <=> \E i \in 1..Len(batch) : batch[i] = e
    BY <1>1, RangeOf
  <1>3. Range(ch) \subseteq Events \ Billed /\ Range(billed) \subseteq Billed
    BY <1>1, RangeOf
  <1> QED
    BY <1>1, <1>2, <1>3, RecorderAssumption DEF RecorderAssumption

\* A transaction stores what it writes, once.
LEMMA LandedStores ==
  ASSUME TypeOK, NEW es, es \subseteq Range(batch), \A e \in es : Unstored(e),
         NEW billsOnly \in BOOLEAN, Landed(es, billsOnly)
  PROVE  Books!Store
  <1> DEFINE new == IF billsOnly THEN {} ELSE es \ BillsOnly
             due == es \cap Billed
  <1>0. es \subseteq Events /\ rows \in [Events -> Nat] /\ bills \in [Events -> Nat]
    BY Types
  <1>1. /\ new \subseteq {e \in Events \ BillsOnly : rows[e] = 0}
        /\ due \subseteq {e \in Billed : bills[e] = 0}
        /\ new \cap Billed \subseteq due
    BY <1>0 DEF Unstored
  <1>2. /\ rows' = [e \in Events |-> rows[e] + IF e \in new THEN 1 ELSE 0]
        /\ bills' = [e \in Events |-> bills[e] + IF e \in due THEN 1 ELSE 0]
    <2>1. \A e : e \in es /\ e \notin BillsOnly /\ ~billsOnly <=> e \in new
      OBVIOUS
    <2> QED
      BY <2>1 DEF Landed
  <1>3. /\ new \in SUBSET (Range(ch) \cup Range(billed) \cup Range(batch))
        /\ due \in SUBSET (Range(ch) \cup Range(billed) \cup Range(batch))
    OBVIOUS
  <1> HIDE DEF new, due
  <1> QED
    BY <1>1, <1>2, <1>3 DEF Books!Store

\* What a transaction leaves in the database.
LEMMA LandedEvents ==
  ASSUME TypeOK, NEW es, es \subseteq Events, \A e \in es : Unstored(e),
         NEW billsOnly \in BOOLEAN, Landed(es, billsOnly)
  PROVE  /\ \A e \in es : /\ e \in Billed => bills'[e] = 1
                          /\ ~billsOnly => Stored(e)'
         /\ \A e \in Events \ es : rows'[e] = rows[e] /\ bills'[e] = bills[e]
  <1>0. rows \in [Events -> Nat] /\ bills \in [Events -> Nat]
    BY Types
  <1>1. ASSUME NEW e \in es
        PROVE  (e \in Billed => bills'[e] = 1) /\ (~billsOnly => Stored(e)')
    BY <1>0 DEF Landed, Unstored, Stored
  <1>2. ASSUME NEW e \in Events \ es
        PROVE  rows'[e] = rows[e] /\ bills'[e] = bills[e]
    BY <1>0 DEF Landed
  <1> QED
    BY <1>1, <1>2

\* Nothing is stored.
LEMMA NoneStored ==
  ASSUME TypeOK, UNCHANGED db
  PROVE  Books!Store
  <1>0. rows \in [Events -> Nat] /\ bills \in [Events -> Nat]
    BY Types
  <1>1. /\ rows' = [e \in Events |-> rows[e] + IF e \in {} THEN 1 ELSE 0]
        /\ bills' = [e \in Events |-> bills[e] + IF e \in {} THEN 1 ELSE 0]
    BY <1>0 DEF db
  <1>2. /\ {} \in SUBSET (Range(ch) \cup Range(billed) \cup Range(batch))
        /\ {} \subseteq {e \in Events \ BillsOnly : rows[e] = 0}
        /\ {} \subseteq {e \in Billed : bills[e] = 0}
        /\ {} \cap Billed \subseteq {}
    OBVIOUS
  <1> QED
    BY <1>1, <1>2 DEF Books!Store

\* The end of a flush is a Write of the whole batch.
LEMMA FlushWrites ==
  ASSUME TypeOK, Apart, Books!Store, NEW w \in Nat, NEW d \in Nat, NEW failed \in BOOLEAN,
         Flushed(w, d, failed), w + d = Len(batch),
         w <= Cardinality({e \in Range(batch) : Stored(e)'}),
         ~failed => \A e \in Range(batch) : Kept(e)'
  PROVE  Books!Write
  <1> DEFINE hand == Range(ch) \cup Range(billed) \cup Range(batch)
  <1>1. /\ batch' = <<>> /\ ch' = ch /\ billed' = billed /\ request' = request
        /\ written' = written + w /\ dropped' = dropped + d /\ failing' = failed
    BY DEF Flushed, queues
  <1>2. Range(batch') = {}
    BY <1>1 DEF Range
  <1>3. hand' = Range(ch) \cup Range(billed)
    BY <1>1, <1>2
  <1>4. hand \ hand' = Range(batch) /\ hand' = hand \ Range(batch)
    BY <1>3 DEF Apart
  <1>5. Cardinality(Range(batch)) = Len(batch) /\ Len(batch) \in Nat
    BY RangeCount, Types DEF Apart
  <1>6. d = Cardinality(Range(batch)) - w /\ w \in 0..Cardinality(Range(batch))
    BY <1>5
  <1>7. Returned' = Returned
    BY <1>1 DEF Returned
  <1>8. Books!Settle(Range(batch), w)
    <2>1. \A e : Books!Whole(e) <=> Stored(e)'
      BY DEF Books!Whole, Stored
    <2>2. {e \in Range(batch) : Books!Whole(e)} = {e \in Range(batch) : Stored(e)'}
      BY <2>1
    <2>3. \A e \in Range(batch) : ~failing' => /\ e \in Billed \ BadBills => bills'[e] = 1
                                               /\ e \notin BadRow \cup BadBills => Books!Whole(e)
      BY <1>1, <2>1 DEF Kept
    <2>4. hand' = hand \ Range(batch)
      BY <1>4
    <2>5. written' = written + w /\ dropped' = dropped + (Cardinality(Range(batch)) - w)
      BY <1>1, <1>6
    <2>6. /\ Books!Cardinality({e \in Range(batch) : Books!Whole(e)})
               = Cardinality({e \in Range(batch) : Stored(e)'})
          /\ Books!Cardinality(Range(batch)) = Cardinality(Range(batch))
      BY <2>2, SameCount
    <2> QED
      BY <2>3, <2>4, <2>5, <2>6 DEF Books!Settle
  <1>9. \E n \in 0..Books!Cardinality(hand \ hand') : Books!Settle(hand \ hand', n)
    BY <1>4, <1>6, <1>8, SameCount
  <1> QED
    BY <1>1, <1>7, <1>9 DEF Books!Write

\* A step between two events of a batch is a Write that settles nothing yet.
LEMMA BetweenWrites ==
  ASSUME TypeOK, Books!Store, UNCHANGED <<request, queues, counts, batch>>
  PROVE  Books!Write
  <1> DEFINE hand == Range(ch) \cup Range(billed) \cup Range(batch)
  <1>1. hand' = hand /\ Returned' = Returned /\ hand \ hand' = {}
    BY DEF queues, Returned
  <1>2. failing' \in BOOLEAN /\ written' = written + 0 /\ dropped' = dropped + (0 - 0)
    BY Types DEF counts
  <1>3. Books!Settle({}, 0)
    <2>1. {e \in {} : Books!Whole(e)} = {} /\ Cardinality({}) = 0
      BY FS_EmptySet
    <2>2. Books!Cardinality({}) = 0 /\ Books!Cardinality({e \in {} : Books!Whole(e)}) = 0
      BY <2>1, SameCount
    <2>3. hand' = hand \ {}
      BY <1>1
    <2> QED
      BY <1>2, <2>2, <2>3 DEF Books!Settle
  <1>4. \E n \in 0..Books!Cardinality(hand \ hand') : Books!Settle(hand \ hand', n)
    <2>1. Books!Cardinality({}) = 0
      BY FS_EmptySet, SameCount
    <2> QED
      BY <1>1, <1>3, <2>1
  <1> QED
    BY <1>1, <1>2, <1>4 DEF Books!Write

-----------------------------------------------------------------------------
(* The requests.                                                           *)

\* The abstract variables stand still.
Still == Held' = Held /\ Returned' = Returned /\ UNCHANGED <<rows, bills, written, dropped, failing>>

LEMMA StillStutters == Still => UNCHANGED Books!ledger
  BY DEF Still, Held, Books!ledger

LEMMA OneMoreReturned ==
  ASSUME TypeOK, NEW e \in Events, request[e] # "returned",
         request' = [request EXCEPT ![e] = "returned"]
  PROVE  Returned' = Returned \cup {e} /\ e \notin Returned
  BY DEF Returned, TypeOK

\* An event sent to a queue is taken.
LEMMA EnqueueStep ==
  ASSUME LInv, NEW e \in Events, request[e] # "returned", Enqueue(e),
         request' = [request EXCEPT ![e] = "returned"],
         UNCHANGED <<counts, run, db, stopping, left>>
  PROVE  Apart' /\ Progress' /\ Tally' /\ Books!Take(e)
  <1>0. TypeOK /\ Apart /\ Progress /\ Tally
    BY DEF LInv, Inv
  <1>1. Returned' = Returned \cup {e} /\ e \notin Returned
    BY <1>0, OneMoreReturned
  <1>2. e \notin Range(ch) /\ e \notin Range(billed) /\ e \notin Range(batch)
    BY <1>0, <1>1 DEF Apart, Held
  <1>3. /\ Range(ch') \cup Range(billed') = Range(ch) \cup Range(billed) \cup {e}
        /\ IsInjective(ch') /\ IsInjective(billed')
    <2>1. CASE OwnQueue(e)
      <3>1. billed' = Append(billed, e) /\ ch' = ch /\ e \in Billed /\ billed \in Seq(Billed)
        BY <1>0, <2>1, Types DEF Enqueue, OwnQueue
      <3>2. Range(billed') = Range(billed) \cup {e} /\ IsInjective(billed')
        BY <1>0, <1>2, <3>1, RangeAppend DEF Apart
      <3> QED
        BY <1>0, <3>1, <3>2 DEF Apart
    <2>2. CASE ~OwnQueue(e)
      <3>1. /\ ch' = Append(ch, e) /\ billed' = billed /\ e \in Events \ Billed
            /\ ch \in Seq(Events \ Billed)
        BY <1>0, <2>2, Types DEF Enqueue, OwnQueue
      <3>2. Range(ch') = Range(ch) \cup {e} /\ IsInjective(ch')
        BY <1>0, <1>2, <3>1, RangeAppend DEF Apart
      <3> QED
        BY <1>0, <3>1, <3>2 DEF Apart
    <2> QED
      BY <2>1, <2>2
  <1>4. UNCHANGED <<failing, dropped, written, batch, pc, then, at, lost, rows, bills>>
    BY DEF counts, run, db
  <1>5. Held' = Held \cup {e}
    BY <1>3, <1>4 DEF Held
  <1>6. Apart'
    BY <1>0, <1>1, <1>2, <1>3, <1>4, <1>5 DEF Apart
  <1>7. Progress'
    <2>1. \A f \in Events : f \notin Returned' \/ f \in Range(ch') \cup Range(billed') => Unstored(f)'
      BY <1>0, <1>1, <1>3, <1>4 DEF Progress, Unstored
    <2>2. \A i \in 1..Len(batch) : (Unstored(batch[i])' <=> Unstored(batch[i]))
                                   /\ (Kept(batch[i])' <=> Kept(batch[i]))
      BY <1>4 DEF Unstored, Kept, Stored
    <2> QED
      BY <1>0, <1>4, <2>1, <2>2 DEF Progress, Unstored, Kept, Stored
  <1>8. Tally'
    BY <1>0, <1>4 DEF Tally, GivenUp, Stored
  <1>9. Books!Take(e)
    BY <1>1, <1>4, <1>5 DEF Books!Take, Held
  <1> QED
    BY <1>6, <1>7, <1>8, <1>9

\* A step that moves no event and touches no row.
LEMMA StandStill ==
  ASSUME LInv, UNCHANGED <<ch, billed, batch, rows, bills>>, Returned \subseteq Returned',
         \/ UNCHANGED <<pc, at, lost>>
         \/ pc \notin {"each", "bills"} /\ pc' \notin {"each", "bills"}
  PROVE  Apart' /\ Progress' /\ Tally' /\ Held' = Held
  <1>0. TypeOK /\ Apart /\ Progress /\ Tally
    BY DEF LInv, Inv
  <1>1. Held' = Held
    BY DEF Held
  <1>2. Apart'
    BY <1>0, <1>1 DEF Apart
  <1>3. Progress'
    <2>1. \A f \in Events : f \notin Returned' \/ f \in Range(ch') \cup Range(billed') => Unstored(f)'
      BY <1>0 DEF Progress, Unstored
    <2>2. CASE UNCHANGED <<pc, at, lost>>
      BY <1>0, <2>1, <2>2 DEF Progress, Unstored, Kept, Stored
    <2>3. CASE pc \notin {"each", "bills"} /\ pc' \notin {"each", "bills"}
      BY <1>0, <2>1, <2>3 DEF Progress, Unstored
    <2> QED
      BY <2>2, <2>3
  <1>4. Tally'
    <2>2. CASE UNCHANGED <<pc, at, lost>>
      BY <1>0, <2>2 DEF Tally, GivenUp, Stored
    <2>3. CASE pc \notin {"each", "bills"} /\ pc' \notin {"each", "bills"}
      BY <2>3 DEF Tally
    <2> QED
      BY <2>2, <2>3
  <1> QED
    BY <1>1, <1>2, <1>3, <1>4

\* An event dropped by Record is refused.
LEMMA DropStep ==
  ASSUME LInv, NEW e \in Events, request[e] # "returned", Drop(e)
  PROVE  Apart' /\ Progress' /\ Tally' /\ Books!Refuse(e)
  <1>1. Returned' = Returned \cup {e} /\ e \notin Returned
    BY OneMoreReturned DEF LInv, Inv, Drop
  <1>2. /\ UNCHANGED <<ch, billed, batch, rows, bills, pc, at, lost, failing, written>>
        /\ dropped' = dropped + 1
    BY DEF Drop, queues, run, db
  <1>3. Apart' /\ Progress' /\ Tally' /\ Held' = Held
    BY <1>1, <1>2, StandStill
  <1>4. Books!Refuse(e)
    BY <1>1, <1>2, <1>3 DEF Books!Refuse, Held
  <1> QED
    BY <1>3, <1>4

LEMMA RequestStep ==
  ASSUME LInv, Requests
  PROVE  Apart' /\ Progress' /\ Tally' /\ (Books!Next \/ UNCHANGED Books!ledger)
  <1>0. PICK e \in Events : Record(e) \/ RecordFull(e) \/ Unblock(e) \/ BlockedTooLong(e)
    BY DEF Requests
  <1>1. CASE Record(e) \/ Unblock(e)
    <2>1. request[e] # "returned" /\ Enqueue(e) /\ request' = [request EXCEPT ![e] = "returned"]
          /\ UNCHANGED <<counts, run, db, stopping, left>>
      BY <1>1 DEF Record, Unblock
    <2>2. Apart' /\ Progress' /\ Tally' /\ Books!Take(e)
      BY <2>1, EnqueueStep
    <2> QED
      BY <2>2 DEF Books!Next
  <1>2. CASE BlockedTooLong(e) \/ (RecordFull(e) /\ failing)
    <2>1. request[e] # "returned" /\ Drop(e)
      BY <1>2 DEF BlockedTooLong, RecordFull
    <2>2. Apart' /\ Progress' /\ Tally' /\ Books!Refuse(e)
      BY <2>1, DropStep
    <2> QED
      BY <2>2 DEF Books!Next
  <1>3. CASE RecordFull(e) /\ ~failing
    <2>1. /\ request[e] = "running" /\ request' = [request EXCEPT ![e] = "blocked"]
          /\ UNCHANGED <<ch, billed, batch, rows, bills, pc, at, lost, failing, written, dropped>>
      BY <1>3 DEF RecordFull, queues, counts, run, db
    <2>2. Returned' = Returned
      BY <2>1, NoneReturns DEF LInv, Inv
    <2>3. Apart' /\ Progress' /\ Tally' /\ Held' = Held
      BY <2>1, <2>2, StandStill
    <2> QED
      BY <2>1, <2>2, <2>3, StillStutters DEF Still
  <1> QED
    BY <1>0, <1>1, <1>2, <1>3

-----------------------------------------------------------------------------
(* Run.                                                                    *)

\* An event moves from the head of a queue to the batch.
LEMMA ReceiveStep ==
  ASSUME LInv, NEW next \in {"poll", "drain"}, pc \in {"poll", "select", "drain"},
         Receive(next), UNCHANGED <<request, counts, db, stopping, left>>
  PROVE  Apart' /\ Progress' /\ Tally' /\ UNCHANGED Books!ledger
  <1>0. /\ TypeOK /\ Apart /\ Progress
        /\ ch \in Seq(Events \ Billed) /\ billed \in Seq(Billed) /\ batch \in Seq(Events)
        /\ Range(ch) \subseteq Events \ Billed /\ Range(billed) \subseteq Billed
        /\ Billed \subseteq Events /\ Len(batch) \in Nat
    BY Types DEF LInv, Inv
  <1>1. PICK h \in Events :
          /\ h \in Range(ch) \cup Range(billed)
          /\ Range(ch') \cup Range(billed') = (Range(ch) \cup Range(billed)) \ {h}
          /\ IsInjective(ch') /\ IsInjective(billed')
          /\ batch' = Append(batch, h) /\ pc' \in {next, "write", "cancelled"}
    <2>1. CASE Take(billed, next) /\ billed' = Tail(billed) /\ UNCHANGED ch
      <3>1. /\ billed # <<>> /\ batch' = Append(batch, Head(billed))
            /\ pc' \in {next, "write", "cancelled"}
        BY <2>1 DEF Take, Add, StartWrite
      <3>2. /\ Head(billed) \in Billed /\ Range(billed) = Range(Tail(billed)) \cup {Head(billed)}
            /\ IsInjective(Tail(billed)) /\ Head(billed) \notin Range(Tail(billed))
        BY <1>0, <3>1, RangeTail DEF Apart
      <3> DEFINE h == Head(billed)
      <3> HIDE DEF h
      <3>3. h \in Events /\ h \notin Range(ch) /\ h \in Range(billed)
            /\ Range(billed') = Range(billed) \ {h} /\ batch' = Append(batch, h)
            /\ IsInjective(billed') /\ IsInjective(ch') /\ Range(ch') = Range(ch)
        BY <1>0, <2>1, <3>1, <3>2 DEF h, Apart
      <3>4. Range(ch') \cup Range(billed') = (Range(ch) \cup Range(billed)) \ {h}
        BY <3>3
      <3> QED
        BY <3>1, <3>3, <3>4
    <2>2. CASE Take(ch, next) /\ ch' = Tail(ch) /\ UNCHANGED billed
      <3>1. /\ ch # <<>> /\ batch' = Append(batch, Head(ch))
            /\ pc' \in {next, "write", "cancelled"}
        BY <2>2 DEF Take, Add, StartWrite
      <3>2. /\ Head(ch) \in Events \ Billed /\ Range(ch) = Range(Tail(ch)) \cup {Head(ch)}
            /\ IsInjective(Tail(ch)) /\ Head(ch) \notin Range(Tail(ch))
        BY <1>0, <3>1, RangeTail DEF Apart
      <3> DEFINE h == Head(ch)
      <3> HIDE DEF h
      <3>3. h \in Events /\ h \notin Range(billed) /\ h \in Range(ch)
            /\ Range(ch') = Range(ch) \ {h} /\ batch' = Append(batch, h)
            /\ IsInjective(billed') /\ IsInjective(ch') /\ Range(billed') = Range(billed)
        BY <1>0, <2>2, <3>1, <3>2 DEF h, Apart
      <3>4. Range(ch') \cup Range(billed') = (Range(ch) \cup Range(billed)) \ {h}
        BY <3>3
      <3> QED
        BY <3>1, <3>3, <3>4
    <2> QED
      BY <2>1, <2>2 DEF Receive
  <1>2. h \notin Range(batch)
    BY <1>0, <1>1 DEF Apart
  <1>3. Range(batch') = Range(batch) \cup {h} /\ IsInjective(batch')
    BY <1>0, <1>1, <1>2, RangeAppend DEF Apart
  <1>4. Held' = Held
    BY <1>1, <1>3 DEF Held
  <1>5. Returned' = Returned /\ UNCHANGED <<rows, bills, written, dropped, failing>>
    BY DEF Returned, counts, db
  <1>6. Apart'
    BY <1>0, <1>1, <1>2, <1>3, <1>4, <1>5 DEF Apart
  <1>7. Progress'
    <2>0. pc \notin {"each", "bills"} /\ pc' \notin {"each", "bills"}
      BY <1>1
    <2>1. \A f \in Events : f \notin Returned' \/ f \in Range(ch') \cup Range(billed') => Unstored(f)'
      BY <1>0, <1>1, <1>5 DEF Progress, Unstored
    <2>2. \A i \in 1..Len(batch') : (i \in 1..Len(batch) /\ batch'[i] = batch[i]) \/ batch'[i] = h
      BY <1>0, <1>1
    <2>3. \A i \in 1..Len(batch) : Unstored(batch[i])
      BY <1>0, <2>0 DEF Progress
    <2>4. Unstored(h)
      BY <1>0, <1>1 DEF Progress
    <2>5. ASSUME NEW i \in 1..Len(batch') PROVE rows'[batch'[i]] = 0 /\ bills'[batch'[i]] = 0
      BY <1>5, <2>2, <2>3, <2>4 DEF Unstored
    <2> QED
      BY <2>0, <2>1, <2>5 DEF Progress, Unstored
  <1>8. Tally'
    BY <1>1 DEF Tally
  <1> QED
    BY <1>4, <1>5, <1>6, <1>7, <1>8, StillStutters DEF Still

-----------------------------------------------------------------------------
(* Writing.                                                                *)

\* Once a batch is flushed only what is queued is left, and was not written.
LEMMA FlushedStep ==
  ASSUME LInv, NEW w, NEW d, NEW failed, Flushed(w, d, failed),
         \A e \in Events \ Range(batch) : rows'[e] = rows[e] /\ bills'[e] = bills[e]
  PROVE  Apart' /\ Progress' /\ Tally'
  <1>0. TypeOK /\ Apart /\ Progress
    BY DEF LInv, Inv
  <1>1. batch' = <<>> /\ ch' = ch /\ billed' = billed /\ request' = request /\ pc' = then
    BY DEF Flushed, queues
  <1>2. Range(batch') = {} /\ IsInjective(batch') /\ Len(batch') = 0
    BY <1>1 DEF Range, IsInjective
  <1>3. Returned' = Returned
    BY <1>1 DEF Returned
  <1>4. pc' \notin {"each", "bills"}
    BY <1>0, <1>1 DEF TypeOK
  <1>5. Apart'
    BY <1>0, <1>1, <1>2, <1>3 DEF Apart, Held
  <1>6. Progress'
    <2>1. ASSUME NEW e \in Events, e \notin Returned' \/ e \in Range(ch') \cup Range(billed')
          PROVE  Unstored(e)'
      <3>1. e \notin Range(batch) /\ Unstored(e)
        BY <1>0, <1>1, <1>3, <2>1 DEF Apart, Held, Progress
      <3> QED
        BY <3>1 DEF Unstored
    <2>2. 1..Len(batch') = {}
      BY <1>2
    <2> QED
      BY <1>4, <2>1, <2>2 DEF Progress
  <1>7. Tally'
    BY <1>4 DEF Tally
  <1> QED
    BY <1>5, <1>6, <1>7

\* WriteAll, WriteFails and WriteCancelled: the batch goes as a whole.
LEMMA BatchStep ==
  ASSUME LInv, WriteAll \/ WriteFails \/ WriteCancelled
  PROVE  Apart' /\ Progress' /\ Tally' /\ Books!Write
  <1>0. /\ TypeOK /\ Apart /\ Progress /\ Len(batch) \in Nat /\ Range(batch) \subseteq Events
        /\ \A e : e \in Range(batch) <=> \E i \in 1..Len(batch) : batch[i] = e
    BY Types DEF LInv, Inv
  <1>1. \A e \in Range(batch) : Unstored(e)
    <2>1. pc \notin {"each", "bills"}
      BY DEF WriteAll, WriteFails, WriteCancelled
    <2> QED
      BY <1>0, <2>1 DEF Progress
  <1>c. IsFiniteSet(Range(batch)) /\ Cardinality(Range(batch)) = Len(batch)
    BY <1>0, Types, RangeCount DEF Apart
  <1>2. CASE Landed(Range(batch), FALSE) /\ Flushed(Len(batch), 0, FALSE) /\ ~Refusable(Range(batch))
    <2>1. Books!Store
      BY <1>0, <1>1, <1>2, LandedStores
    <2>2. /\ \A e \in Range(batch) : Stored(e)'
          /\ \A e \in Events \ Range(batch) : rows'[e] = rows[e] /\ bills'[e] = bills[e]
      BY <1>0, <1>1, <1>2, LandedEvents
    <2>3. {e \in Range(batch) : Stored(e)'} = Range(batch)
      BY <2>2
    <2>4. \A e \in Range(batch) : Kept(e)'
      BY <2>2 DEF Kept, Stored
    <2>5. Books!Write
      <3>0. Cardinality({e \in Range(batch) : Stored(e)'}) = Len(batch)
        BY <1>c, <2>3
      <3>1. Len(batch) <= Cardinality({e \in Range(batch) : Stored(e)'}) /\ Len(batch) + 0 = Len(batch)
        BY <1>0, <3>0
      <3> QED
        BY <1>0, <1>2, <2>1, <2>4, <3>1, FlushWrites
    <2> QED
      BY <1>2, <2>2, <2>5, FlushedStep
  <1>3. CASE (Landed(Range(batch), FALSE) \/ UNCHANGED db) /\ Flushed(0, Len(batch), TRUE)
    <2>1. Books!Store
      <3>1. CASE Landed(Range(batch), FALSE)
        BY <1>0, <1>1, <3>1, LandedStores
      <3>2. CASE UNCHANGED db
        BY <1>0, <3>2, NoneStored
      <3> QED
        BY <1>3, <3>1, <3>2
    <2>2. \A e \in Events \ Range(batch) : rows'[e] = rows[e] /\ bills'[e] = bills[e]
      <3>1. CASE Landed(Range(batch), FALSE)
        BY <1>0, <1>1, <3>1, LandedEvents
      <3>2. CASE UNCHANGED db
        BY <3>2 DEF db
      <3> QED
        BY <1>3, <3>1, <3>2
    <2>3. 0 <= Cardinality({e \in Range(batch) : Stored(e)'}) /\ 0 + Len(batch) = Len(batch)
      <3> DEFINE W == {e \in Range(batch) : Stored(e)'}
      <3>1. W \subseteq Range(batch)
        OBVIOUS
      <3> HIDE DEF W
      <3>2. Cardinality(W) \in Nat
        BY <1>c, <3>1, FS_Subset, FS_CardinalityType
      <3> QED
        BY <1>0, <3>2 DEF W
    <2>4. Books!Write
      BY <1>0, <1>3, <2>1, <2>3, FlushWrites
    <2> QED
      BY <1>3, <2>2, <2>4, FlushedStep
  <1> QED
    BY <1>2, <1>3 DEF WriteAll, WriteFails, WriteCancelled

\* The events given up are finitely many.
LEMMA GivenUpFinite ==
  ASSUME TypeOK, NEW k PROVE IsFiniteSet(GivenUp(k)) /\ Cardinality(GivenUp(k)) \in Nat
  <1>1. GivenUp(k) \subseteq Events
    BY Types DEF GivenUp
  <1> QED
    BY <1>1, RecorderAssumption, FS_Subset, FS_CardinalityType DEF RecorderAssumption

\* The loop over the events of a refused batch has dealt with batch[at], with
\* n events given up so far.
LEMMA AfterEachStep ==
  ASSUME LInv, pc \in {"each", "bills"}, NEW n \in Nat, n <= Len(batch), AfterEach(n), Books!Store,
         NEW b \in Events, b = batch[at], Kept(b)',
         \A e \in Events \ {b} : rows'[e] = rows[e] /\ bills'[e] = bills[e],
         Cardinality(GivenUp(at)) + (IF Stored(b)' THEN 0 ELSE 1) <= n
  PROVE  Apart' /\ Progress' /\ Tally' /\ Books!Write
  <1>0. /\ TypeOK /\ Apart /\ Progress /\ Len(batch) \in Nat /\ Range(batch) \subseteq Events
        /\ at \in 1..Len(batch) /\ batch \in Seq(Events)
        /\ \A e : e \in Range(batch) <=> \E i \in 1..Len(batch) : batch[i] = e
        /\ \A i \in 1..Len(batch) : batch[i] \in Events
    BY Types DEF LInv, Inv, Position
  <1>i. \A i, j \in 1..Len(batch) : batch[i] = batch[j] => i = j
    BY <1>0, RangeOf DEF Apart, IsInjective
  <1>u. \A i \in 1..Len(batch) : i # at => batch[i] # b
    BY <1>0, <1>i
  <1>s. \A e \in Events \ {b} : /\ Stored(e)' <=> Stored(e)
                                /\ Kept(e)' <=> Kept(e)
                                /\ Unstored(e)' <=> Unstored(e)
    BY DEF Stored, Kept, Unstored
  <1>k. \A i \in 1..Len(batch) : i < at + 1 => (Kept(batch[i]) /\ i < at) \/ i = at
    BY <1>0 DEF Progress
  \* What the loop has given up so far.
  <1> DEFINE G == GivenUp(at) \cup IF Stored(b)' THEN {} ELSE {b}
  <1>g. IsFiniteSet(G) /\ Cardinality(G) <= n
    <2>1. IsFiniteSet(GivenUp(at)) /\ Cardinality(GivenUp(at)) \in Nat
      BY <1>0, GivenUpFinite
    <2>2. CASE Stored(b)'
      <3>1. G = GivenUp(at)
        BY <2>2
      <3> QED
        BY <2>1, <2>2, <3>1
    <2>3. CASE ~Stored(b)'
      <3>1. G = GivenUp(at) \cup {b}
        BY <2>3
      <3>2. IsFiniteSet(G) /\ Cardinality(G) <= Cardinality(GivenUp(at)) + 1 /\ Cardinality(G) \in Nat
        <4>1. IsFiniteSet(GivenUp(at) \cup {b})
              /\ Cardinality(GivenUp(at) \cup {b})
                   = IF b \in GivenUp(at) THEN Cardinality(GivenUp(at)) ELSE Cardinality(GivenUp(at)) + 1
          BY <2>1, FS_AddElement
        <4>2. IsFiniteSet(G) /\ Cardinality(G) \in {Cardinality(GivenUp(at)), Cardinality(GivenUp(at)) + 1}
          BY <3>1, <4>1
        <4> HIDE DEF G
        <4> QED
          BY <2>1, <4>2
      <3>3. Cardinality(GivenUp(at)) + 1 <= n
        BY <2>3
      <3> QED
        BY <2>1, <3>2, <3>3
    <2> QED
      BY <2>2, <2>3
  <1>n. \A i \in 1..Len(batch) : i <= at /\ ~Stored(batch[i]) /\ batch[i] # b => batch[i] \in GivenUp(at)
    <2>1. ASSUME NEW i \in 1..Len(batch), i <= at, ~Stored(batch[i]), batch[i] # b
          PROVE  batch[i] \in GivenUp(at)
      <3>1. i < at
        BY <1>0, <2>1
      <3>2. batch[i] \in Range(batch)
        BY <1>0
      <3> QED
        BY <2>1, <3>1, <3>2 DEF GivenUp
    <2> QED
      BY <2>1
  <1>1. CASE at < Len(batch)
    <2>0. /\ at' = at + 1 /\ lost' = n /\ pc' = "each" /\ ch' = ch /\ billed' = billed
          /\ batch' = batch /\ request' = request
          /\ UNCHANGED <<request, queues, counts, batch>>
      BY <1>1 DEF AfterEach, queues
    <2>1. Held' = Held /\ Returned' = Returned
      BY <2>0 DEF Held, Returned
    <2>2. Apart'
      BY <1>0, <2>0, <2>1 DEF Apart
    <2>3. Progress'
      <3>1. ASSUME NEW e \in Events, e \notin Returned' \/ e \in Range(ch') \cup Range(billed')
            PROVE  Unstored(e)'
        <4>1. e \notin Range(batch) /\ Unstored(e)
          BY <1>0, <2>0, <2>1, <3>1 DEF Apart, Held, Progress
        <4>2. e # b
          BY <1>0, <4>1
        <4> QED
          BY <1>s, <4>1, <4>2
      <3>2. ASSUME NEW i \in 1..Len(batch), i >= at + 1, NEW e, e = batch[i] PROVE Unstored(e)'
        <4>1. i >= at /\ i # at
          BY <1>0, <3>2
        <4>2. Unstored(e) /\ e # b /\ e \in Events
          BY <1>0, <1>u, <3>2, <4>1 DEF Progress
        <4> QED
          BY <1>s, <4>2
      <3>3. ASSUME NEW i \in 1..Len(batch), i < at + 1, NEW e, e = batch[i] PROVE Kept(e)'
        <4>1. CASE i = at
          BY <3>3, <4>1
        <4>2. CASE i # at
          BY <1>0, <1>k, <1>s, <1>u, <3>3, <4>2
        <4> QED
          BY <4>1, <4>2
      <3> QED
        BY <2>0, <3>1, <3>2, <3>3 DEF Progress
    <2>4. Tally'
      <3>1. GivenUp(at)' \subseteq G
        <4>1. ASSUME NEW e \in GivenUp(at)' PROVE e \in G
          <5>1. e \in Range(batch) /\ ~Stored(e)'
            BY <2>0, <4>1 DEF GivenUp
          <5>2. PICK i \in 1..Len(batch) : i < at + 1 /\ batch[i] = e
            BY <2>0, <4>1 DEF GivenUp
          <5>3. CASE e = b
            BY <5>1, <5>3
          <5>4. CASE e # b
            <6>1. ~Stored(e) /\ i <= at
              BY <1>0, <1>s, <5>1, <5>2, <5>4
            <6> QED
              BY <1>n, <5>2, <5>4, <6>1
          <5> QED
            BY <5>3, <5>4
        <4> QED
          BY <4>1
      <3>2. Cardinality(GivenUp(at)') <= n
        <4> HIDE DEF G
        <4>1. /\ Cardinality(GivenUp(at)') <= Cardinality(G)
              /\ Cardinality(GivenUp(at)') \in Nat /\ Cardinality(G) \in Nat
          BY <1>g, <3>1, FS_Subset, FS_CardinalityType
        <4> QED
          BY <1>g, <4>1
      <3> QED
        BY <2>0, <3>2 DEF Tally
    <2>5. Books!Write
      BY <1>0, <2>0, BetweenWrites
    <2> QED
      BY <2>2, <2>3, <2>4, <2>5
  <1>2. CASE ~(at < Len(batch))
    <2>0. at = Len(batch) /\ Flushed(Len(batch) - n, n, FALSE)
      <3>1. Flushed(Len(batch) - n, n, FALSE)
        BY <1>2, Zenon DEF AfterEach
      <3>2. at = Len(batch)
        BY <1>0, <1>2
      <3> QED
        BY <3>1, <3>2
    <2>1. \A e \in Events \ Range(batch) : rows'[e] = rows[e] /\ bills'[e] = bills[e]
      BY <1>0
    <2>2. Apart' /\ Progress' /\ Tally'
      BY <2>0, <2>1, FlushedStep
    <2>3. \A e \in Range(batch) : Kept(e)'
      <3>1. ASSUME NEW i \in 1..Len(batch), NEW e, e = batch[i] PROVE Kept(e)'
        <4>1. CASE i = at
          BY <3>1, <4>1
        <4>2. CASE i # at
          <5>1. i < at + 1
            BY <1>0, <2>0
          <5> QED
            BY <1>0, <1>k, <1>s, <1>u, <3>1, <4>2, <5>1
        <4> QED
          BY <4>1, <4>2
      <3> QED
        BY <1>0, <3>1
    <2> DEFINE W == {e \in Range(batch) : Stored(e)'}
    <2>4. Range(batch) \ W \subseteq G
      <3>1. ASSUME NEW e \in Range(batch), ~Stored(e)' PROVE e \in G
        <4>1. PICK i \in 1..Len(batch) : batch[i] = e
          BY <1>0
        <4>2. CASE e = b
          BY <3>1, <4>2
        <4>3. CASE e # b
          <5>1. ~Stored(e) /\ i <= at
            BY <1>0, <1>s, <2>0, <3>1, <4>3
          <5> QED
            BY <1>n, <4>1, <4>3, <5>1
        <4> QED
          BY <4>2, <4>3
      <3> QED
        BY <3>1
    <2>5. Len(batch) - n <= Cardinality(W)
      <3>1. W \subseteq Range(batch)
        OBVIOUS
      <3> HIDE DEF W, G
      <3>2. IsFiniteSet(Range(batch)) /\ Cardinality(Range(batch)) = Len(batch)
        BY <1>0, RangeCount DEF Apart
      <3>3. Cardinality(Range(batch) \ W) = Cardinality(Range(batch)) - Cardinality(Range(batch) \cap W)
        BY <3>2, FS_Difference
      <3>4. Range(batch) \cap W = W /\ Cardinality(W) \in Nat
        BY <3>1, <3>2, FS_Subset, FS_CardinalityType
      <3>5. Cardinality(Range(batch) \ W) <= n
        <4>1. /\ Cardinality(Range(batch) \ W) <= Cardinality(G)
              /\ Cardinality(Range(batch) \ W) \in Nat /\ Cardinality(G) \in Nat
          BY <1>g, <2>4, FS_Subset, FS_CardinalityType
        <4> QED
          BY <1>g, <4>1
      <3>6. Cardinality(Range(batch) \ W) = Len(batch) - Cardinality(W)
        BY <3>2, <3>3, <3>4
      <3>7. Len(batch) - Cardinality(W) <= n
        BY <3>5, <3>6
      <3> QED
        BY <1>0, <3>4, <3>7
    <2>6. Books!Write
      <3>1. Len(batch) - n \in Nat /\ (Len(batch) - n) + n = Len(batch)
        BY <1>0
      <3> QED
        BY <1>0, <2>0, <2>3, <2>5, <3>1, FlushWrites
    <2> QED
      BY <2>2, <2>6
  <1> QED
    BY <1>1, <1>2

\* Nothing has been given up, and nothing written, when the loop begins.
LEMMA RefusedStep ==
  ASSUME LInv, WriteRefused
  PROVE  Apart' /\ Progress' /\ Tally' /\ UNCHANGED Books!ledger
  <1>0. TypeOK /\ Apart /\ Progress
    BY DEF LInv, Inv
  <1>1. /\ pc = "write" /\ pc' = "each" /\ at' = 1 /\ lost' = lost
        /\ UNCHANGED <<request, ch, billed, batch, rows, bills, written, dropped, failing>>
    BY DEF WriteRefused, queues, counts, db
  <1>2. Held' = Held /\ Returned' = Returned
    BY <1>1 DEF Held, Returned
  <1>3. Apart'
    BY <1>0, <1>1, <1>2 DEF Apart
  <1>4. Progress'
    <2>1. \A e \in Events : e \notin Returned' \/ e \in Range(ch') \cup Range(billed') => Unstored(e)'
      BY <1>0, <1>1, <1>2 DEF Progress, Unstored
    <2>2. \A i \in 1..Len(batch) : rows[batch[i]] = 0 /\ bills[batch[i]] = 0
      BY <1>0, <1>1 DEF Progress, Unstored
    <2>3. \A i \in 1..Len(batch') : ~(i < at')
      BY <1>1
    <2> QED
      BY <1>1, <2>1, <2>2, <2>3 DEF Progress, Unstored
  <1>5. Tally'
    <2>1. GivenUp(at)' = {}
      BY <1>1 DEF GivenUp
    <2>2. 0 <= lost
      BY <1>0, Types
    <2> QED
      BY <1>1, <2>1, <2>2, FS_EmptySet DEF Tally
  <1> QED
    BY <1>1, <1>2, <1>3, <1>4, <1>5, StillStutters DEF Still

\* The loop over the events of a refused batch.
LEMMA EachStep ==
  ASSUME LInv, EachWritten \/ EachRefused \/ BillsWritten \/ BillsRefused \/ EachFails
  PROVE  Apart' /\ Progress' /\ Tally' /\ (Books!Write \/ UNCHANGED Books!ledger)
  <1>0. /\ TypeOK /\ Apart /\ Progress /\ Tally /\ Len(batch) \in Nat /\ lost \in Nat
        /\ pc \in {"each", "bills"} /\ at \in 1..Len(batch) /\ lost <= at
        /\ (pc = "each" => lost < at) /\ batch \in Seq(Events)
        /\ Range(batch) \subseteq Events
        /\ \A e : e \in Range(batch) <=> \E i \in 1..Len(batch) : batch[i] = e
    <2>1. pc \in {"each", "bills"}
      BY DEF EachWritten, EachRefused, BillsWritten, BillsRefused, EachFails
    <2> QED
      BY <2>1, Types DEF LInv, Inv, Position
  <1>b. PICK b \in Events : b = batch[at]
    BY <1>0
  <1>1. /\ b \in Range(batch) /\ {b} \subseteq Range(batch) /\ {b} \subseteq Events /\ Unstored(b)
        /\ (pc = "bills" => b \in (Billed \ BillsOnly) \cap (BadRow \cup BadBills))
        /\ Cardinality(GivenUp(at)) \in Nat
    <2>1. at >= at
      BY <1>0
    <2>2. Unstored(b)
      BY <1>0, <1>b, <2>1 DEF Progress
    <2> QED
      BY <1>0, <1>b, <2>2, GivenUpFinite DEF Progress
  <1>u. UNCHANGED db => /\ Books!Store
                        /\ \A e \in Events : rows'[e] = rows[e] /\ bills'[e] = bills[e]
    BY <1>0, NoneStored DEF db
  <1>l. ASSUME NEW billsOnly \in BOOLEAN, Landed({b}, billsOnly)
        PROVE  /\ Books!Store
               /\ (b \in Billed => bills'[b] = 1) /\ (~billsOnly => Stored(b)')
               /\ \A e \in Events \ {b} : rows'[e] = rows[e] /\ bills'[e] = bills[e]
    <2>1. Books!Store
      BY <1>0, <1>1, <1>l, LandedStores
    <2>2. /\ \A e \in {b} : (e \in Billed => bills'[e] = 1) /\ (~billsOnly => Stored(e)')
          /\ \A e \in Events \ {b} : rows'[e] = rows[e] /\ bills'[e] = bills[e]
      BY <1>0, <1>1, <1>l, LandedEvents
    <2> QED
      BY <2>1, <2>2
  <1>2. CASE EachWritten
    <2>1. pc = "each" /\ Landed({b}, FALSE) /\ AfterEach(lost) /\ b \notin BadRow \cup BadBills
      BY <1>2, <1>b DEF EachWritten, Refusable
    <2>2. /\ Books!Store /\ Stored(b)'
          /\ \A e \in Events \ {b} : rows'[e] = rows[e] /\ bills'[e] = bills[e]
      BY <1>l, <2>1
    <2>3. Kept(b)'
      BY <2>2 DEF Kept, Stored
    <2>4. Cardinality(GivenUp(at)) + (IF Stored(b)' THEN 0 ELSE 1) <= lost /\ lost <= Len(batch)
      BY <1>0, <1>1, <2>1, <2>2 DEF Tally
    <2> QED
      BY <1>0, <1>b, <2>1, <2>2, <2>3, <2>4, AfterEachStep
  <1>3. CASE EachRefused
    <2>0. pc = "each" /\ b \in BadRow \cup BadBills /\ UNCHANGED db
      BY <1>3, <1>b DEF EachRefused, Refusable
    <2>1. CASE b \in Billed \ BillsOnly
      <3>1. /\ pc' = "bills" /\ lost' = lost + 1
            /\ UNCHANGED <<request, ch, billed, batch, at, rows, bills, written, dropped, failing>>
        BY <1>3, <1>b, <2>1 DEF EachRefused, queues, counts, db
      <3>2. Held' = Held /\ Returned' = Returned
        BY <3>1 DEF Held, Returned
      <3>3. Apart'
        BY <1>0, <3>1, <3>2 DEF Apart
      <3>4. Progress'
        <4>1. \A e \in Events : e \notin Returned' \/ e \in Range(ch') \cup Range(billed') => Unstored(e)'
          BY <1>0, <3>1, <3>2 DEF Progress, Unstored
        <4>2. /\ \A i \in 1..Len(batch) : i >= at => Unstored(batch[i])
              /\ \A i \in 1..Len(batch) : i < at => Kept(batch[i])
          BY <1>0, <2>0 DEF Progress
        <4>3. /\ \A i \in 1..Len(batch) : Unstored(batch[i])' <=> Unstored(batch[i])
              /\ \A i \in 1..Len(batch) : Kept(batch[i])' <=> Kept(batch[i])
          BY <3>1 DEF Unstored, Kept, Stored
        <4> QED
          BY <1>b, <2>0, <2>1, <3>1, <4>1, <4>2, <4>3 DEF Progress
      <3>5. Tally'
        <4>1. GivenUp(at)' = GivenUp(at)
          BY <3>1 DEF GivenUp, Stored
        <4>2. Cardinality(GivenUp(at)) <= lost
          BY <1>0, <2>0 DEF Tally
        <4>3. Cardinality(GivenUp(at)) + 1 <= lost + 1
          BY <1>0, <1>1, <4>2
        <4> QED
          BY <3>1, <4>1, <4>3 DEF Tally
      <3> QED
        BY <3>1, <3>2, <3>3, <3>4, <3>5, StillStutters DEF Still
    <2>2. CASE b \notin Billed \ BillsOnly
      <3>1. AfterEach(lost + 1)
        BY <1>3, <1>b, <2>2 DEF EachRefused
      <3>2. b \in Billed => b \in BadBills
        BY <2>0, <2>2, RecorderAssumption DEF RecorderAssumption
      <3>3. Kept(b)'
        BY <2>0, <3>2 DEF Kept
      <3>4. /\ Cardinality(GivenUp(at)) + (IF Stored(b)' THEN 0 ELSE 1) <= lost + 1
            /\ lost + 1 <= Len(batch) /\ lost + 1 \in Nat
        BY <1>0, <1>1, <2>0 DEF Tally
      <3> QED
        BY <1>0, <1>b, <1>u, <2>0, <3>1, <3>3, <3>4, AfterEachStep
    <2> QED
      BY <2>1, <2>2
  <1>4. CASE BillsWritten \/ BillsRefused
    <2>0. pc = "bills" /\ AfterEach(lost)
      BY <1>4 DEF BillsWritten, BillsRefused
    <2>1. /\ Books!Store /\ (b \in Billed \ BadBills => bills'[b] = 1)
          /\ \A e \in Events \ {b} : rows'[e] = rows[e] /\ bills'[e] = bills[e]
      <3>1. CASE BillsWritten
        BY <1>b, <1>l, <3>1 DEF BillsWritten
      <3>2. CASE BillsRefused
        BY <1>b, <1>u, <3>2 DEF BillsRefused
      <3> QED
        BY <1>4, <3>1, <3>2
    <2>2. Kept(b)'
      BY <1>1, <2>0, <2>1 DEF Kept
    <2>3. Cardinality(GivenUp(at)) + (IF Stored(b)' THEN 0 ELSE 1) <= lost /\ lost <= Len(batch)
      BY <1>0, <1>1, <2>0 DEF Tally
    <2> QED
      BY <1>0, <1>b, <2>0, <2>1, <2>2, <2>3, AfterEachStep
  <1>5. CASE EachFails
    <2>0. Flushed(0, Len(batch), TRUE)
      BY <1>5 DEF EachFails
    <2>1. /\ Books!Store
          /\ \A e \in Events \ {b} : rows'[e] = rows[e] /\ bills'[e] = bills[e]
      <3>1. Landed({b}, FALSE) \/ Landed({b}, TRUE) \/ UNCHANGED db
        BY <1>5, <1>b DEF EachFails
      <3> QED
        BY <1>l, <1>u, <3>1
    <2>2. Apart' /\ Progress' /\ Tally'
      BY <1>1, <2>0, <2>1, FlushedStep
    <2> DEFINE W == {e \in Range(batch) : Stored(e)'}
    <2>3. W \subseteq Events
      BY <1>0
    <2>4. Cardinality(W) \in Nat
      <3> HIDE DEF W
      <3> QED
        BY <2>3, RecorderAssumption, FS_Subset, FS_CardinalityType DEF RecorderAssumption
    <2>5. 0 <= Cardinality(W) /\ 0 + Len(batch) = Len(batch)
      <3> HIDE DEF W
      <3> QED
        BY <1>0, <2>4
    <2>6. Books!Write
      BY <1>0, <2>0, <2>1, <2>5, FlushWrites
    <2> QED
      BY <2>2, <2>6
  <1> QED
    BY <1>2, <1>3, <1>4, <1>5

\* The steps of Run's loop that only move it.
LEMMA MoveStep ==
  ASSUME LInv, pc \in {"poll", "select", "drain"}, pc' \notin {"each", "bills"},
         UNCHANGED <<request, queues, counts, batch, db>>
  PROVE  Apart' /\ Progress' /\ Tally' /\ UNCHANGED Books!ledger
  <1>1. UNCHANGED <<request, ch, billed, batch, rows, bills, written, dropped, failing>>
    BY DEF queues, counts, db
  <1>2. Returned' = Returned
    BY <1>1 DEF Returned
  <1>3. Apart' /\ Progress' /\ Tally' /\ Held' = Held
    BY <1>1, <1>2, StandStill
  <1> QED
    BY <1>1, <1>2, <1>3, StillStutters DEF Still

LEMMA LoopStep ==
  ASSUME LInv, Loop
  PROVE  Apart' /\ Progress' /\ Tally' /\ (Books!Write \/ UNCHANGED Books!ledger)
  <1>1. CASE Poll
    <2>1. CASE billed # <<>>
      BY <1>1, <2>1, ReceiveStep DEF Poll, Receive
    <2>2. CASE billed = <<>>
      BY <1>1, <2>2, MoveStep DEF Poll, queues
    <2> QED
      BY <2>1, <2>2
  <1>2. CASE Select
    BY <1>2, ReceiveStep DEF Select
  <1>3. CASE Tick
    BY <1>3, MoveStep DEF Tick, Flush, StartWrite
  <1>4. CASE StartDrain
    BY <1>4, MoveStep DEF StartDrain
  <1>5. CASE Drain
    <2>1. CASE billed # <<>> \/ ch # <<>>
      BY <1>5, <2>1, ReceiveStep DEF Drain
    <2>2. CASE ~(billed # <<>> \/ ch # <<>>)
      BY <1>5, <2>2, MoveStep DEF Drain, Flush, StartWrite
    <2> QED
      BY <2>1, <2>2
  <1>6. CASE WriteCancelled
    BY <1>6, BatchStep
  <1> QED
    BY <1>1, <1>2, <1>3, <1>4, <1>5, <1>6 DEF Loop

-----------------------------------------------------------------------------
(* The invariant is inductive, and every step follows the ledger.          *)

LEMMA LInit == Init => LInv /\ Books!Init
  <1> SUFFICES ASSUME Init PROVE LInv /\ Books!Init
    OBVIOUS
  <1>1. Inv
    BY InitInv
  <1>2. Returned = {}
    BY DEF Init, Returned
  <1>3. Range(ch) = {} /\ Range(billed) = {} /\ Range(batch) = {}
    BY DEF Init, Range
  <1>4. Apart
    BY <1>3 DEF Init, Apart, Held, IsInjective
  <1>5. Progress
    <2>1. \A e \in Events : Unstored(e)
      BY DEF Init, Unstored
    <2>2. 1..Len(batch) = {}
      BY DEF Init
    <2> QED
      BY <2>1, <2>2 DEF Init, Progress
  <1>6. Tally
    BY DEF Init, Tally
  <1>7. Books!Init
    BY <1>2, <1>3 DEF Init, Books!Init
  <1> QED
    BY <1>1, <1>4, <1>5, <1>6, <1>7 DEF LInv

LEMMA LNext ==
  ASSUME LInv, [Next]_vars
  PROVE  LInv' /\ (Books!Next \/ UNCHANGED Books!ledger)
  <1>0. Inv'
    BY NextInv DEF LInv
  <1>1. CASE Requests
    BY <1>0, <1>1, RequestStep DEF LInv
  <1>2. CASE Loop
    BY <1>0, <1>2, LoopStep DEF LInv, Books!Next
  <1>3. CASE WriteAll \/ WriteFails
    BY <1>0, <1>3, BatchStep DEF LInv, Books!Next
  <1>4. CASE WriteRefused
    BY <1>0, <1>4, RefusedStep DEF LInv
  <1>5. CASE EachWritten \/ EachRefused \/ BillsWritten \/ BillsRefused \/ EachFails
    BY <1>0, <1>5, EachStep DEF LInv, Books!Next
  <1>6. CASE StopRecorder \/ UNCHANGED vars
    <2>1. UNCHANGED <<request, ch, billed, batch, rows, bills, pc, at, lost, written, dropped, failing>>
      BY <1>6 DEF StopRecorder, vars, queues, counts, run, db
    <2>2. Returned' = Returned
      BY <2>1 DEF Returned
    <2>3. Apart' /\ Progress' /\ Tally' /\ Held' = Held
      BY <2>1, <2>2, StandStill
    <2> QED
      BY <1>0, <2>1, <2>2, <2>3, StillStutters DEF Still, LInv
  <1> QED
    BY <1>1, <1>2, <1>3, <1>4, <1>5, <1>6 DEF Next, Run, Answered, Broken

LEMMA LInvHolds == Spec => []LInv
  <1>1. LInv /\ [Next]_vars => LInv'
    BY LNext
  <1> QED
    BY <1>1, LInit, PTL DEF Spec

(* The recorder keeps the ledger it promises, for any number of requests   *)
(* and any buffer and batch size: recorder.go and WriteEvents in           *)
(* internal/store/usage.go implement Ledger.                               *)
THEOREM RecorderImplementsLedger == Spec => ImplementsLedger
  <1>1. LInv /\ [Next]_vars => [Books!Next]_(Books!ledger)
    BY LNext
  <1> QED
    BY <1>1, LInit, LInvHolds, PTL DEF Spec, ImplementsLedger, Books!Spec

(* Refused requests cannot crowd out billed events: Record makes a billed  *)
(* one wait, or drops it, only with Buffer billed events queued.           *)
THEOREM RecorderBilledNotCrowdedOut == Spec => BilledNotCrowdedOut
  <1> DEFINE Step ==
        \A e \in Billed :
          (/\ request[e] = "running"
           /\ request'[e] = "blocked" \/ (request'[e] = "returned" /\ dropped' > dropped))
            => Cardinality(Billed \cap (Range(ch) \cup Range(billed))) >= Buffer
  <1>1. ASSUME LInv, [Next]_vars PROVE Step
    <2> SUFFICES ASSUME NEW e \in Billed, request[e] = "running",
                        request'[e] = "blocked" \/ (request'[e] = "returned" /\ dropped' > dropped)
                 PROVE  Cardinality(Billed \cap (Range(ch) \cup Range(billed))) >= Buffer
      OBVIOUS
    <2>0. /\ TypeOK /\ Apart /\ billed \in Seq(Billed) /\ Range(billed) \subseteq Billed
          /\ request \in [Events -> {"running", "blocked", "returned"}]
          /\ Billed \subseteq Events /\ IsFiniteSet(Events) /\ Buffer \in Nat /\ dropped \in Nat
      BY <1>1, Types, RecorderAssumption DEF LInv, Inv, TypeOK, RecorderAssumption
    <2>1. request'[e] # request[e]
      OBVIOUS
    <2>2. Requests
      BY <1>1, <2>1 DEF Next, Run, Loop, Answered, Broken, StopRecorder, Poll, Select, Tick, StartDrain,
         Drain, WriteCancelled, WriteAll, WriteRefused, EachWritten, EachRefused, BillsWritten,
         BillsRefused, WriteFails, EachFails, Flushed, AfterEach, vars
    <2>3. PICK f \in Events : Record(f) \/ RecordFull(f) \/ Unblock(f) \/ BlockedTooLong(f)
      BY <2>2 DEF Requests
    <2>4. f = e
      BY <2>0, <2>1, <2>3 DEF Record, RecordFull, Unblock, BlockedTooLong, Drop
    <2>5. RecordFull(e)
      <3>1. CASE Record(e)
        <4>1. dropped' = dropped /\ request'[e] = "returned"
          BY <2>0, <3>1 DEF Record, counts
        <4> QED
          BY <2>0, <4>1
      <3> QED
        BY <2>3, <2>4, <3>1 DEF Unblock, BlockedTooLong
    <2>6. Len(billed) >= Buffer
      BY <2>5 DEF RecordFull, QueueFull, OwnQueue
    <2>7. Cardinality(Range(billed)) = Len(billed)
      BY <2>0, RangeCount DEF Apart
    <2> DEFINE Q == Billed \cap (Range(ch) \cup Range(billed))
    <2>8. Range(billed) \subseteq Q /\ Q \subseteq Events
      BY <2>0
    <2> HIDE DEF Q
    <2>9. IsFiniteSet(Q) /\ Cardinality(Q) \in Nat
      BY <2>0, <2>8, FS_Subset, FS_CardinalityType
    <2>10. Cardinality(Range(billed)) <= Cardinality(Q) /\ Len(billed) \in Nat
      BY <2>0, <2>8, <2>9, FS_Subset, Lengths
    <2>11. Cardinality(Q) >= Buffer
      BY <2>0, <2>6, <2>7, <2>9, <2>10
    <2> QED
      BY <2>11 DEF Q
  <1>2. LInv /\ [Next]_vars => [Step]_vars
    BY <1>1
  <1> HIDE DEF Step
  <1>3. Spec => [][Step]_vars
    BY <1>2, LInvHolds, PTL DEF Spec
  <1> QED
    BY <1>3 DEF Step, BilledNotCrowdedOut

\* Whatever is stored is stored once.
StoredOnce == \A e \in Events : rows[e] \in {0, 1} /\ bills[e] \in {0, 1}

(* No usage row is written and no bill line charged twice, though a write  *)
(* that failed may have landed and a refused batch is written again event  *)
(* by event.  It follows from Ledger, which the recorder implements.       *)
THEOREM RecorderStoredOnce == Spec => []StoredOnce
  <1>1. Books!Init => StoredOnce
    BY DEF Books!Init, StoredOnce
  <1>2. ASSUME StoredOnce, Books!Next PROVE StoredOnce'
    <2>1. CASE \E e \in Events : Books!Take(e) \/ Books!Refuse(e)
      <3>1. rows' = rows /\ bills' = bills
        BY <2>1 DEF Books!Take, Books!Refuse
      <3> QED
        BY <1>2, <3>1 DEF StoredOnce
    <2>2. CASE Books!Write
      <3>1. PICK es, bs : /\ \A e \in es : rows[e] = 0
                          /\ \A e \in bs : bills[e] = 0
                          /\ rows' = [e \in Events |-> rows[e] + IF e \in es THEN 1 ELSE 0]
                          /\ bills' = [e \in Events |-> bills[e] + IF e \in bs THEN 1 ELSE 0]
        BY <2>2 DEF Books!Write, Books!Store
      <3>2. ASSUME NEW e \in Events PROVE rows'[e] \in {0, 1} /\ bills'[e] \in {0, 1}
        BY <1>2, <3>1 DEF StoredOnce
      <3> QED
        BY <3>2 DEF StoredOnce
    <2> QED
      BY <1>2, <2>1, <2>2 DEF Books!Next
  <1>3. StoredOnce /\ [Books!Next]_(Books!ledger) => StoredOnce'
    <2>1. StoredOnce /\ UNCHANGED Books!ledger => StoredOnce'
      BY DEF StoredOnce, Books!ledger
    <2> QED
      BY <1>2, <2>1
  <1>4. Books!Spec => []StoredOnce
    BY <1>1, <1>3, PTL DEF Books!Spec
  <1> QED
    BY <1>4, RecorderImplementsLedger, PTL DEF ImplementsLedger

=============================================================================
