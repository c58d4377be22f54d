------------------------------ MODULE Recorder ------------------------------
(***************************************************************************)
(* The write side of the usage log: internal/usage/recorder.go, what it    *)
(* calls in internal/store/usage.go, and the order in which                *)
(* internal/server/serve.go stops it.                                      *)
(*                                                                         *)
(* Every request records one event when it ends.  Record queues the event  *)
(* on one of two bounded channels, or waits a little, or drops and counts  *)
(* it.  One goroutine, Run, collects events into a batch and writes it.    *)
(* Requests run concurrently with Run, and with each other.                *)
(***************************************************************************)
EXTENDS Naturals, Sequences, FiniteSets, Functions

CONSTANTS
  Events,     \* one event per request
  Billed,     \* the events with bill lines, which have a queue of their own
  BillsOnly,  \* the billed events without a usage row (a check, not a request)
  BadRow,     \* the events whose usage row Postgres refuses
  BadBills,   \* the events whose bill lines Postgres refuses
  Buffer,     \* Options.Buffer: how many events each queue holds
  BatchSize   \* Options.BatchSize

ASSUME RecorderAssumption ==
  /\ IsFiniteSet(Events)
  /\ Billed \subseteq Events
  /\ BillsOnly \subseteq Billed
  /\ BadRow \subseteq Events \ BillsOnly
  /\ BadBills \subseteq Billed
  /\ Buffer \in Nat \ {0}
  /\ BatchSize \in Nat \ {0}

VARIABLES
  request,   \* each event's request: running, blocked in Record, or returned
  ch,        \* the queue of the events without bills
  billed,    \* the queue of the billed events
  failing,   \* the last write failed
  dropped,   \* the events counted as lost
  written,   \* the events counted as written
  batch,     \* what Run has collected since the last flush
  pc,        \* where Run is
  then,      \* where Run goes after the flush under way
  at,        \* the event of the batch being written on its own, from 1
  lost,      \* LostEvents.N of the write under way
  rows,      \* how often each event's usage row was written
  bills,     \* how often each event's bill lines were written
  stopping,  \* recCtx is cancelled
  left       \* the requests still running when the recorder was stopped

queues == <<ch, billed>>
counts == <<failing, dropped, written>>
run    == <<batch, pc, then, at, lost>>
db     == <<rows, bills>>
vars   == <<request, queues, counts, run, db, stopping, left>>

Init ==
  /\ request = [e \in Events |-> "running"]
  /\ ch = <<>>
  /\ billed = <<>>
  /\ failing = FALSE
  /\ dropped = 0
  /\ written = 0
  /\ batch = <<>>
  /\ pc = "poll"
  /\ then = "poll"
  /\ at = 0
  /\ lost = 0
  /\ rows = [e \in Events |-> 0]
  /\ bills = [e \in Events |-> 0]
  /\ stopping = FALSE
  /\ left = {}

-----------------------------------------------------------------------------
(* Record, called by each request as it ends.                              *)

\* A bug: one queue for all, so refused requests crowd out the billed ones.
OneQueue(e) == FALSE

\* Billed events have a queue of their own.
OwnQueue(e) == e \in Billed

\* The channel e goes to has room, and takes it.
Enqueue(e) ==
  IF OwnQueue(e)
  THEN Len(billed) < Buffer /\ billed' = Append(billed, e) /\ UNCHANGED ch
  ELSE Len(ch) < Buffer /\ ch' = Append(ch, e) /\ UNCHANGED billed

QueueFull(e) == Len(IF OwnQueue(e) THEN billed ELSE ch) >= Buffer

\* Record, when the send succeeds at once.
Record(e) ==
  /\ request[e] = "running"
  /\ Enqueue(e)
  /\ request' = [request EXCEPT ![e] = "returned"]
  /\ UNCHANGED <<counts, run, db, stopping, left>>

\* A bug: the event is gone, and nobody counted it.
DropUncounted(e) ==
  /\ request' = [request EXCEPT ![e] = "returned"]
  /\ UNCHANGED <<queues, failing, written, dropped, run, db, stopping, left>>

\* drop.
Drop(e) ==
  /\ request' = [request EXCEPT ![e] = "returned"]
  /\ dropped' = dropped + 1
  /\ UNCHANGED <<queues, failing, written, run, db, stopping, left>>

\* Record, when the channel is full: dropped at once while writes fail,
\* otherwise the request waits for room.
RecordFull(e) ==
  /\ request[e] = "running"
  /\ QueueFull(e)
  /\ IF failing
     THEN Drop(e)
     ELSE /\ request' = [request EXCEPT ![e] = "blocked"]
          /\ UNCHANGED <<queues, counts, run, db, stopping, left>>

\* A request that waits gets room in time ...
Unblock(e) ==
  /\ request[e] = "blocked"
  /\ Enqueue(e)
  /\ request' = [request EXCEPT ![e] = "returned"]
  /\ UNCHANGED <<counts, run, db, stopping, left>>

\* ... or BlockFor runs out first.  With both ready, select takes either.
BlockedTooLong(e) ==
  /\ request[e] = "blocked"
  /\ Drop(e)

-----------------------------------------------------------------------------
(* Run.                                                                    *)

\* The write of a flush starts on recCtx, or on the context that drain makes
\* for itself.  One started on recCtx after the stop never reaches Postgres.
StartWrite(next) == IF stopping /\ next = "poll" THEN "cancelled" ELSE "write"

\* add: append e, and flush a full batch before going on to next.
Add(e, next) ==
  /\ batch' = Append(batch, e)
  /\ then' = next
  /\ pc' = IF Len(batch) + 1 >= BatchSize THEN StartWrite(next) ELSE next
  /\ UNCHANGED <<at, lost>>

Take(queue, next) ==
  /\ queue # <<>>
  /\ Add(Head(queue), next)

\* The first select of Run's loop: a billed event goes first.
Poll ==
  /\ pc = "poll"
  /\ IF billed # <<>>
     THEN /\ Take(billed, "poll")
          /\ billed' = Tail(billed)
     ELSE /\ pc' = "select"
          /\ UNCHANGED <<billed, batch, then, at, lost>>
  /\ UNCHANGED <<request, ch, counts, db, stopping, left>>

\* The second select: either channel, whichever is ready.
Receive(next) ==
  \/ Take(billed, next) /\ billed' = Tail(billed) /\ UNCHANGED ch
  \/ Take(ch, next) /\ ch' = Tail(ch) /\ UNCHANGED billed

Select ==
  /\ pc = "select"
  /\ Receive("poll")
  /\ UNCHANGED <<request, counts, db, stopping, left>>

\* flush writes a batch that is not empty.
Flush(next) ==
  /\ then' = next
  /\ pc' = IF batch = <<>> THEN next ELSE StartWrite(next)
  /\ UNCHANGED <<queues, batch, at, lost>>

\* The flush interval ends.
Tick ==
  /\ pc = "select"
  /\ Flush("poll")
  /\ UNCHANGED <<request, counts, db, stopping, left>>

\* recCtx.Done, seen by the second select.
StartDrain ==
  /\ pc = "select"
  /\ stopping
  /\ pc' = "drain"
  /\ UNCHANGED <<request, queues, counts, batch, then, at, lost, db, stopping, left>>

\* A bug: drain's select has no default, so it waits for events.
DrainWaits ==
  /\ pc = "drain"
  /\ Receive("drain")
  /\ UNCHANGED <<request, counts, db, stopping, left>>

\* drain empties both channels, writes the rest and ends Run.
Drain ==
  /\ pc = "drain"
  /\ IF billed # <<>> \/ ch # <<>>
     THEN Receive("drain")
     ELSE Flush("done")
  /\ UNCHANGED <<request, counts, db, stopping, left>>

-----------------------------------------------------------------------------
(* WriteEvents, and what flush makes of its answer.                        *)

\* writeBatch is one transaction: the rows, the bills and every sum.  With
\* billsOnly it leaves the rows out.
Landed(es, billsOnly) ==
  /\ rows' = [e \in Events |->
                rows[e] + IF e \in es /\ e \notin BillsOnly /\ ~billsOnly THEN 1 ELSE 0]
  /\ bills' = [e \in Events |-> bills[e] + IF e \in es \cap Billed THEN 1 ELSE 0]

\* flush ends: w events count as written and d as dropped, and the batch is
\* forgotten whatever came of it.
Flushed(w, d, failed) ==
  /\ batch' = <<>>
  /\ pc' = then
  /\ at' = 0
  /\ lost' = 0
  /\ written' = written + w
  /\ dropped' = dropped + d
  /\ failing' = failed
  /\ UNCHANGED <<request, queues, then, stopping, left>>

\* Postgres refuses a transaction that holds a bad row or bad bills.
Refusable(es) == es \cap (BadRow \cup BadBills) # {}

WriteAll ==
  /\ pc = "write"
  /\ ~Refusable(Range(batch))
  /\ Landed(Range(batch), FALSE)
  /\ Flushed(Len(batch), 0, FALSE)

\* The connection fails, or WriteTimeout ends it.  The transaction may have
\* landed all the same.
WriteFails ==
  /\ pc = "write"
  /\ \/ ~Refusable(Range(batch)) /\ Landed(Range(batch), FALSE)
     \/ UNCHANGED db
  /\ Flushed(0, Len(batch), TRUE)

\* The context was cancelled before the write began, so nothing is sent.
WriteCancelled ==
  /\ pc = "cancelled"
  /\ UNCHANGED db
  /\ Flushed(0, Len(batch), TRUE)

\* Postgres refuses the batch, for a row of it or for a reason of its own
\* such as a deadlock.  Each event is then written on its own.
WriteRefused ==
  /\ pc = "write"
  /\ pc' = "each"
  /\ at' = 1
  /\ UNCHANGED <<request, queues, counts, batch, then, lost, db, stopping, left>>

\* The loop over the events moves on, or WriteEvents returns.
AfterEach(n) ==
  IF at < Len(batch)
  THEN /\ at' = at + 1
       /\ lost' = n
       /\ pc' = "each"
       /\ UNCHANGED <<request, queues, counts, batch, then, stopping, left>>
  ELSE Flushed(Len(batch) - n, n, FALSE)

EachWritten ==
  /\ pc = "each"
  /\ ~Refusable({batch[at]})
  /\ Landed({batch[at]}, FALSE)
  /\ AfterEach(lost)

\* A bug: an event refused on its own is given up with its bills.
EachRefusedNoBills ==
  /\ pc = "each"
  /\ Refusable({batch[at]})
  /\ AfterEach(lost + 1)
  /\ UNCHANGED db

\* An event refused on its own is lost; its bills are then tried without it.
EachRefused ==
  /\ pc = "each"
  /\ Refusable({batch[at]})
  /\ IF batch[at] \in Billed \ BillsOnly
     THEN /\ pc' = "bills"
          /\ lost' = lost + 1
          /\ UNCHANGED <<request, queues, counts, batch, then, at, stopping, left>>
     ELSE AfterEach(lost + 1)
  /\ UNCHANGED db

BillsWritten ==
  /\ pc = "bills"
  /\ batch[at] \notin BadBills
  /\ Landed({batch[at]}, TRUE)
  /\ AfterEach(lost)

\* Bills refused on their own are lost too.  The event is counted already.
BillsRefused ==
  /\ pc = "bills"
  /\ batch[at] \in BadBills
  /\ UNCHANGED db
  /\ AfterEach(lost)

\* The connection fails part way: WriteEvents returns that error, and flush
\* counts the whole batch as dropped, what was written before included.
EachFails ==
  /\ \/ /\ pc = "each"
        /\ \/ ~Refusable({batch[at]}) /\ Landed({batch[at]}, FALSE)
           \/ UNCHANGED db
     \/ /\ pc = "bills"
        /\ \/ batch[at] \notin BadBills /\ Landed({batch[at]}, TRUE)
           \/ UNCHANGED db
  /\ Flushed(0, Len(batch), TRUE)

-----------------------------------------------------------------------------
(* serve stops the recorder once the requests have returned, or once       *)
(* cutOffGrace has run out with some still running.                        *)
StopRecorder ==
  /\ ~stopping
  /\ stopping' = TRUE
  /\ left' = {e \in Events : request[e] # "returned"}
  /\ UNCHANGED <<request, queues, counts, run, db>>

Requests == \E e \in Events : Record(e) \/ RecordFull(e) \/ Unblock(e) \/ BlockedTooLong(e)

\* What an answering database makes of a write.
Answered == WriteAll \/ WriteRefused \/ EachWritten \/ EachRefused
              \/ BillsWritten \/ BillsRefused

\* What becomes of it when the connection is lost.
Broken == WriteFails \/ EachFails

Loop == Poll \/ Select \/ Tick \/ StartDrain \/ Drain \/ WriteCancelled

Run == Loop \/ Answered \/ Broken

Next == Requests \/ Run \/ StopRecorder

Spec == Init /\ [][Next]_vars

\* The same with a database that always answers.
HealthySpec == Init /\ [][Requests \/ Loop \/ Answered \/ StopRecorder]_vars

(* The timer of a blocked Record fires, and the goroutine of Run is        *)
(* scheduled.  Nothing promises that a request ends or that the server is  *)
(* stopped, so neither is fair.  The second select picks at random among   *)
(* what is ready, so a stop it keeps seeing is taken in the end: strong    *)
(* fairness of StartDrain.                                                 *)
FairSpec ==
  /\ Spec
  /\ WF_vars(Run)
  /\ SF_vars(StartDrain)
  /\ \A e \in Events : WF_vars(Unblock(e) \/ BlockedTooLong(e))

-----------------------------------------------------------------------------
(* Properties.                                                             *)

TypeOK ==
  /\ request \in [Events -> {"running", "blocked", "returned"}]
  /\ ch \in Seq(Events \ Billed)
  /\ billed \in Seq(Billed)
  /\ failing \in BOOLEAN
  /\ dropped \in Nat
  /\ written \in Nat
  /\ batch \in Seq(Events)
  /\ pc \in {"poll", "select", "drain", "write", "cancelled", "each", "bills", "done"}
  /\ then \in {"poll", "drain", "done"}
  /\ at \in Nat
  /\ lost \in Nat
  /\ rows \in [Events -> Nat]
  /\ bills \in [Events -> Nat]
  /\ stopping \in BOOLEAN
  /\ left \subseteq Events

Returned == {e \in Events : request[e] = "returned"}

(* No event is lost without being counted: every event a request handed to *)
(* Record is in a queue, in the batch, or in one of the two counters that  *)
(* Dropped and Written report.                                             *)
Conservation ==
  dropped + written + Len(ch) + Len(billed) + Len(batch) = Cardinality(Returned)

(* Refused requests cannot crowd out billed events: one waits or is       *)
(* dropped only when Buffer billed events are queued already.              *)
BilledNotCrowdedOut ==
  [][\A e \in Billed :
       (/\ request[e] = "running"
        /\ request'[e] = "blocked" \/ (request'[e] = "returned" /\ dropped' > dropped))
         => Cardinality(Billed \cap (Range(ch) \cup Range(billed))) >= Buffer]_vars

(* "Run writes batches until ctx is cancelled, then drains what is queued",*)
(* and drain does so "on its own context": with a database that answers    *)
(* and takes every event, a stop loses no event that was queued in time.   *)
(* It does: Run's loop prefers a billed event to ctx.Done, and a batch it  *)
(* fills after the stop is written on the cancelled context, and lost.     *)
StopWritesQueued == pc = "done" /\ left = {} => written = Cardinality(Events)

(* The recorder stops last, and stops: once told to, Run drains the queues *)
(* and ends, so the shutdown that waits for it ends too, and by then       *)
(* nothing that was recorded is still queued, unless a request outlived    *)
(* cutOffGrace.  serve.go says then that the usage of the requests left is *)
(* lost.                                                                   *)
RunEnds ==
  stopping ~> (pc = "done" /\ (left = {} => /\ ch = <<>> /\ billed = <<>> /\ batch = <<>>
                                            /\ Returned = Events))

Books == INSTANCE Ledger WITH
           recorded <- Returned,
           inHand <- Range(ch) \cup Range(billed) \cup Range(batch)

(* The recorder keeps the ledger it promises: through queues that fill up, *)
(* batches refused and written again event by event, writes that fail but  *)
(* landed, and the drain, no event is stored or billed twice, Written      *)
(* counts only events that are there whole, and a flush that did not lose  *)
(* the database kept all that it takes.                                    *)
ImplementsLedger == Books!Spec
=============================================================================
