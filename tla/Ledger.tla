-------------------------------- MODULE Ledger --------------------------------
(***************************************************************************)
(* What the usage recorder promises its callers: an event handed to it is  *)
(* in its hands, or was refused and counted, and whatever leaves its hands *)
(* is counted as written or as dropped.  Queues, batches, retries and the  *)
(* shutdown are left out; Recorder implements this specification.          *)
(***************************************************************************)
EXTENDS Naturals, FiniteSets

CONSTANTS
  Events,     \* one event per request
  Billed,     \* the events with bill lines
  BillsOnly,  \* the billed events without a usage row
  BadRow,     \* the events whose usage row the database refuses
  BadBills    \* the events whose bill lines it refuses

VARIABLES
  recorded,  \* the events handed over
  inHand,    \* those neither counted nor given up
  rows,      \* how often each event's usage row was stored
  bills,     \* how often each event's bill lines were stored
  written,   \* the events counted as written
  dropped,   \* the events counted as lost
  failing    \* the last write lost the database

ledger == <<recorded, inHand, rows, bills, written, dropped, failing>>

Init ==
  /\ recorded = {} /\ inHand = {}
  /\ rows = [e \in Events |-> 0] /\ bills = [e \in Events |-> 0]
  /\ written = 0 /\ dropped = 0
  /\ failing = FALSE

Take(e) ==
  /\ e \notin recorded
  /\ recorded' = recorded \cup {e} /\ inHand' = inHand \cup {e}
  /\ UNCHANGED <<rows, bills, written, dropped, failing>>

Refuse(e) ==
  /\ e \notin recorded
  /\ recorded' = recorded \cup {e} /\ dropped' = dropped + 1
  /\ UNCHANGED <<inHand, rows, bills, written, failing>>

\* The rows of some events in hand and the bills of some are stored, none a
\* second time, and a row not without its event's bills.
Store ==
  \E es, bs \in SUBSET inHand :
    /\ es \subseteq {e \in Events \ BillsOnly : rows[e] = 0}
    /\ bs \subseteq {e \in Billed : bills[e] = 0}
    /\ es \cap Billed \subseteq bs
    /\ rows'  = [e \in Events |-> rows[e] + IF e \in es THEN 1 ELSE 0]
    /\ bills' = [e \in Events |-> bills[e] + IF e \in bs THEN 1 ELSE 0]

\* All there is of e has been stored.
Whole(e) == (e \in BillsOnly \/ rows'[e] = 1) /\ (e \in Billed => bills'[e] = 1)

\* The events in out leave the recorder's hands, n of them as written.  While
\* the database answers, none that it takes is given up, nor the bills of one
\* of which it refuses the row alone.
Settle(out, n) ==
  /\ inHand' = inHand \ out
  /\ n <= Cardinality({e \in out : Whole(e)})
  /\ written' = written + n
  /\ dropped' = dropped + (Cardinality(out) - n)
  /\ \A e \in out : ~failing' =>
       /\ e \in Billed \ BadBills => bills'[e] = 1
       /\ e \notin BadRow \cup BadBills => Whole(e)

Write ==
  /\ Store
  /\ failing' \in BOOLEAN
  /\ LET out == inHand \ inHand'
     IN  \E n \in 0..Cardinality(out) : Settle(out, n)
  /\ UNCHANGED recorded

Next == (\E e \in Events : Take(e) \/ Refuse(e)) \/ Write

Spec == Init /\ [][Next]_ledger
==============================================================================
