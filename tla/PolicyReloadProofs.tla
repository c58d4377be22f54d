------------------------- MODULE PolicyReloadProofs -------------------------
(***************************************************************************)
(* That no wake-up of the reload loop is lost and that no index goes back  *)
(* (NoLostWake and NeverBack of PolicyReload), for every set of            *)
(* organisations and any number of changes and failed reads.               *)
(*                                                                         *)
(* NoLostWake speaks of a loop at rest.  The invariant behind it, Told,    *)
(* follows a change through a pass: an organisation whose changes the      *)
(* listener has heard of is served, or noted in pending with something     *)
(* that will make the loop take it, or still to do, or being read with     *)
(* every read so far recent enough, or being swapped.  Told is kept only   *)
(* because what is read is never older than what is served (ReadAhead),    *)
(* and nothing is newer than the database (Ordered).                       *)
(***************************************************************************)
EXTENDS PolicyReload, TLAPS

\* Everything heard of, read and served was in the database.
Ordered ==
  \A o \in Orgs : /\ \A t \in AllTables : /\ due[o][t] <= db[o][t]
                                          /\ read[o][t] <= db[o][t]
                                          /\ db[o][t] <= changes
                  /\ \A p \in Parts : index[o][p] <= db[o][p[2]]

\* The tables a pass has read, and the indexes it has swapped.
HasRead(t)    == phase = "swap" \/ (phase = "read" /\ \E i \in 1..(at - 1) : Reads[i] = t)
HasSwapped(i) == \E j \in 1..(at - 1) : Indexes[j] = i

\* What a pass has read is no older than what is served.
ReadAhead ==
  \A o \in scope, p \in Parts : HasRead(p[2]) => read[o][p[2]] >= index[o][p]

\* Something will make the loop take what is pending.
WillTake == token \/ heard # Quiet \/ failed \/ phase = "take"

\* How organisation o stands with the changes heard of.
Noted(o)    == o \in Covers(pending) /\ WillTake
ToDo(o)     == o \in todo /\ phase \in {"next", "read", "swap"}
Reading(o)  == /\ o \in scope /\ phase = "read"
               /\ \A t \in AllTables : HasRead(t) => read[o][t] >= due[o][t]
Swapping(o) == /\ o \in scope /\ phase = "swap"
               /\ \A t \in AllTables : read[o][t] >= due[o][t]
               /\ \A p \in Parts : HasSwapped(p[1]) => index[o][p] >= due[o][p[2]]

Told == \A o \in Orgs : ServedSince(o, due) \/ Noted(o) \/ ToDo(o) \/ Reading(o) \/ Swapping(o)

\* TypeOK in three parts, for the provers.
Pendings   == {p \in [all : BOOLEAN, orgs : SUBSET Orgs] : p.all => p.orgs = {}}
VersionsOK == /\ db \in Versions /\ read \in Versions /\ due \in Versions
              /\ index \in [Orgs -> [Parts -> 0..MaxChanges]]
SentOK     == owed \subseteq Changes /\ channel \in Seq(Changes)
LoopOK     == /\ changes \in 0..MaxChanges /\ fails \in 0..MaxFails
              /\ heard \in Changes \cup {Quiet}
              /\ token \in BOOLEAN /\ all \in BOOLEAN /\ failed \in BOOLEAN
              /\ pending \in Pendings
              /\ phase \in {"idle", "take", "next", "read", "swap", "stopped"}
              /\ todo \subseteq Orgs /\ scope \subseteq Orgs
              /\ at \in 1..5 /\ (phase = "swap" => at \in 1..4)

Inv == TypeOK /\ Ordered /\ ReadAhead /\ Told

-----------------------------------------------------------------------------
(* want never drops what is pending, and adds what the change covers       *)
(* (Registry.want).                                                        *)
LEMMA WantGrows ==
  ASSUME NEW p \in Pendings, NEW c \in Changes
  PROVE  /\ Want(p, c) \in Pendings
         /\ Covers(p) \subseteq Covers(Want(p, c))
         /\ Covers(Want(Nothing, c)) \subseteq Covers(Want(p, c))
         /\ c.kind = "any" => Covers(Want(p, c)) = Orgs
  <1>1. CASE c.kind = "key"
    BY <1>1 DEF Want, Covers, Nothing, Pendings, Changes
  <1>2. CASE c.kind = "org"
    BY <1>2 DEF Want, Covers, Nothing, Pendings, Changes
  <1>3. CASE c.kind = "any"
    BY <1>3 DEF Want, Covers, Nothing, Everything, Pendings, Changes
  <1> QED BY <1>1, <1>2, <1>3 DEF Changes

LEMMA TypeParts == TypeOK <=> VersionsOK /\ SentOK /\ LoopOK
  BY DEF TypeOK, VersionsOK, SentOK, LoopOK, Pendings

\* Each part of an index is made of a table that is read.
LEMMA PartsAreRead == \A p \in Parts : p[2] \in AllTables
  BY DEF Parts, AllTables

(* The registry New returns satisfies the invariant.                       *)
LEMMA InitInv == Init => Inv
  <1> SUFFICES ASSUME Init PROVE Inv OBVIOUS
  <1> USE PolicyReloadAssumption DEF PolicyReloadAssumption
  <1>0. /\ \A o \in Orgs, t \in AllTables : db[o][t] = 0 /\ due[o][t] = 0 /\ read[o][t] = 0
        /\ \A o \in Orgs, p \in Parts : index[o][p] = 0
    BY DEF Init, Blank
  <1>1. VersionsOK BY DEF Init, VersionsOK, Versions, Blank
  <1>2. SentOK BY DEF Init, SentOK
  <1>3. LoopOK
    <2>1. pending \in Pendings BY DEF Init, Pendings, Nothing
    <2>2. token \in BOOLEAN /\ all \in BOOLEAN /\ failed \in BOOLEAN BY DEF Init
    <2> QED BY <2>1, <2>2 DEF Init, LoopOK
  <1>4. Ordered BY <1>0, PartsAreRead DEF Init, Ordered
  <1>5. ReadAhead BY DEF Init, ReadAhead
  <1>6. Told BY <1>0, PartsAreRead DEF Told, ServedSince
  <1> QED BY <1>1, <1>2, <1>3, <1>4, <1>5, <1>6, TypeParts DEF Inv

-----------------------------------------------------------------------------
(* Each part of TypeOK is kept, whichever step is taken.                   *)
LEMMA TypeKept == TypeOK /\ [Next]_vars => TypeOK'
  <1> SUFFICES ASSUME VersionsOK, SentOK, LoopOK, [Next]_vars
               PROVE  VersionsOK' /\ SentOK' /\ LoopOK'
    BY DEF TypeOK, VersionsOK, SentOK, LoopOK, Pendings
  <1> USE PolicyReloadAssumption DEF PolicyReloadAssumption
  <1>1. ASSUME NEW o \in Orgs, NEW t \in Tables, Commit(o, t)
        PROVE  VersionsOK' /\ SentOK' /\ LoopOK'
    <2>1. t \in AllTables BY TablesAssumption DEF TablesAssumption, AllTables
    <2>2. changes + 1 \in 0..MaxChanges BY <1>1 DEF Commit, LoopOK
    <2>3. VersionsOK' BY <1>1, <2>1, <2>2 DEF Commit, VersionsOK, Versions, wake, pass
    <2>4. [kind |-> "org", org |-> o] \in Changes BY DEF Changes
    <2>5. SentOK' BY <1>1, <2>4 DEF Commit, SentOK
    <2>6. LoopOK' BY <1>1, <2>2 DEF Commit, LoopOK, wake, pass
    <2> QED BY <2>3, <2>5, <2>6
  <1>2. ASSUME KeyCommit PROVE VersionsOK' /\ SentOK' /\ LoopOK'
    <2>1. changes + 1 \in 0..MaxChanges BY <1>2 DEF KeyCommit, LoopOK
    <2>2. [kind |-> "key", org |-> NoOrg] \in Changes BY DEF Changes
    <2> QED BY <1>2, <2>1, <2>2 DEF KeyCommit, VersionsOK, SentOK, LoopOK, wake, pass
  <1>3. ASSUME NEW c \in owed, Announce(c) \/ AnnounceLost(c)
        PROVE  VersionsOK' /\ SentOK' /\ LoopOK'
    <2>1. c \in Changes /\ [kind |-> "any", org |-> NoOrg] \in Changes BY DEF SentOK, Changes
    <2>2. SentOK' BY <1>3, <2>1 DEF Announce, AnnounceLost, SentOK
    <2> QED BY <1>3, <2>2 DEF Announce, AnnounceLost, VersionsOK, LoopOK, wake, pass
  <1>4. ASSUME Disconnect PROVE VersionsOK' /\ SentOK' /\ LoopOK'
    BY <1>4 DEF Disconnect, VersionsOK, SentOK, LoopOK, wake, pass
  <1>5. ASSUME Note PROVE VersionsOK' /\ SentOK' /\ LoopOK'
    <2>1. Head(channel) \in Changes /\ Tail(channel) \in Seq(Changes) BY <1>5 DEF Note, SentOK
    <2>2. Want(pending, Head(channel)) \in Pendings BY <2>1, WantGrows DEF LoopOK
    <2>3. VersionsOK' BY <1>5 DEF Note, VersionsOK, Versions, pass
    <2>4. LoopOK' BY <1>5, <2>1, <2>2 DEF Note, LoopOK, pass
    <2> QED BY <1>5, <2>1, <2>3, <2>4 DEF Note, SentOK
  <1>6. ASSUME Wake PROVE VersionsOK' /\ SentOK' /\ LoopOK'
    BY <1>6 DEF Wake, VersionsOK, SentOK, LoopOK, pass, changed
  <1>7. ASSUME Asked \/ Stop PROVE VersionsOK' /\ SentOK' /\ LoopOK'
    BY <1>7 DEF Asked, Stop, VersionsOK, SentOK, LoopOK, wake, changed
  <1>8. ASSUME Tick PROVE VersionsOK' /\ SentOK' /\ LoopOK'
    <2>1. [kind |-> "any", org |-> NoOrg] \in Changes BY DEF Changes
    <2>2. pending' \in Pendings BY <1>8, <2>1, WantGrows DEF Tick, LoopOK
    <2> QED BY <1>8, <2>2 DEF Tick, VersionsOK, SentOK, LoopOK, changed
  <1>9. ASSUME Take PROVE VersionsOK' /\ SentOK' /\ LoopOK'
    <2>1. Nothing \in Pendings BY DEF Nothing, Pendings
    <2>2. pending.all \in BOOLEAN /\ pending.orgs \subseteq Orgs BY DEF LoopOK, Pendings
    <2>3. VersionsOK' /\ SentOK' BY <1>9 DEF Take, VersionsOK, SentOK, changed
    <2>4. all' \in BOOLEAN /\ failed' \in BOOLEAN BY <1>9, <2>2 DEF Take
    <2>5. scope' \subseteq Orgs /\ todo' \subseteq Orgs BY <1>9, <2>2 DEF Take
    <2>6. phase' \in {"next", "read"} /\ at' = 1 BY <1>9 DEF Take
    <2> QED BY <1>9, <2>1, <2>3, <2>4, <2>5, <2>6 DEF Take, LoopOK, changed
  <1>10. ASSUME NextOrg PROVE VersionsOK' /\ SentOK' /\ LoopOK'
    <2>1. Blank \in Versions BY DEF Blank, Versions
    <2>2. read' \in Versions BY <1>10, <2>1 DEF NextOrg
    <2>3. VersionsOK' BY <1>10, <2>2 DEF NextOrg, VersionsOK, wake, changed
    <2> QED BY <1>10, <2>3 DEF NextOrg, SentOK, LoopOK, wake, changed
  <1>11. ASSUME Read PROVE VersionsOK' /\ SentOK' /\ LoopOK'
    <2>1. Reads[at] \in AllTables /\ Len(Reads) = 5 BY DEF Reads, AllTables, LoopOK
    <2>2. read' \in Versions BY <1>11, <2>1 DEF Read, VersionsOK, Versions
    <2>3. VersionsOK' BY <1>11, <2>2 DEF Read, VersionsOK, wake, changed
    <2> QED BY <1>11, <2>1, <2>3 DEF Read, SentOK, LoopOK, wake, changed
  <1>12. ASSUME ReadFails PROVE VersionsOK' /\ SentOK' /\ LoopOK'
    <2>1. Everything \in Pendings BY DEF Everything, Pendings
    <2>2. pending' \in Pendings BY <1>12, <2>1 DEF ReadFails, LoopOK, Pendings
    <2> QED BY <1>12, <2>2 DEF ReadFails, VersionsOK, SentOK, LoopOK, changed
  <1>13. ASSUME Swap PROVE VersionsOK' /\ SentOK' /\ LoopOK'
    <2>1. at \in 1..4 /\ Len(Indexes) = 4 BY <1>13 DEF Swap, LoopOK, Indexes
    <2>2. index' \in [Orgs -> [Parts -> 0..MaxChanges]]
      BY <1>13, PartsAreRead DEF Swap, VersionsOK, Versions
    <2>3. VersionsOK' BY <1>13, <2>2 DEF Swap, VersionsOK, wake, changed
    <2> QED BY <1>13, <2>1, <2>3 DEF Swap, SentOK, LoopOK, wake, changed
  <1>14. ASSUME UNCHANGED vars PROVE VersionsOK' /\ SentOK' /\ LoopOK'
    BY <1>14 DEF vars, changed, wake, pass, VersionsOK, SentOK, LoopOK
  <1> QED BY <1>1, <1>2, <1>3, <1>4, <1>5, <1>6, <1>7, <1>8, <1>9, <1>10, <1>11, <1>12,
             <1>13, <1>14 DEF Next, Listener, Loop

-----------------------------------------------------------------------------
(* The database only moves on, so nothing overtakes it.                    *)
LEMMA OrderedKept == TypeOK /\ Ordered /\ [Next]_vars => Ordered'
  <1> SUFFICES ASSUME VersionsOK, LoopOK, Ordered, [Next]_vars
               PROVE  Ordered'
    BY TypeParts
  <1> USE PartsAreRead
  <1>1. ASSUME NEW o \in Orgs, NEW t \in Tables, Commit(o, t) PROVE Ordered'
    <2>1. t \in AllTables BY TablesAssumption DEF TablesAssumption, AllTables
    <2>2. changes \in Nat BY DEF LoopOK
    <2>3. \A a \in Orgs, u \in AllTables : db'[a][u] >= db[a][u] /\ db'[a][u] <= changes'
      BY <1>1, <2>1, <2>2, PolicyReloadAssumption
         DEF Commit, VersionsOK, Versions, Ordered, PolicyReloadAssumption
    <2> QED BY <1>1, <2>3, PolicyReloadAssumption
            DEF Commit, VersionsOK, Versions, Ordered, wake, pass, PolicyReloadAssumption
  <1>2. ASSUME KeyCommit PROVE Ordered'
    BY <1>2 DEF KeyCommit, Ordered, LoopOK, VersionsOK, Versions, wake, pass
  <1>3. ASSUME NEW c \in owed, Announce(c) \/ AnnounceLost(c) PROVE Ordered'
    BY <1>3 DEF Announce, AnnounceLost, Ordered, wake, pass
  <1>4. ASSUME Disconnect \/ Wake \/ Asked \/ Stop \/ Tick \/ Take \/ ReadFails PROVE Ordered'
    BY <1>4 DEF Disconnect, Wake, Asked, Stop, Tick, Take, ReadFails, Ordered, wake, pass, changed
  <1>5. ASSUME Note PROVE Ordered'
    BY <1>5 DEF Note, Ordered, VersionsOK, Versions, pass
  <1>6. ASSUME NextOrg PROVE Ordered'
    <2>1. \A o \in Orgs, t \in AllTables : read'[o][t] = 0 BY <1>6 DEF NextOrg, Blank
    <2> QED BY <1>6, <2>1 DEF NextOrg, Ordered, VersionsOK, Versions, wake, changed
  <1>7. ASSUME Read PROVE Ordered'
    <2>1. \A o \in Orgs, t \in AllTables : read'[o][t] \in {read[o][t], db[o][t]}
      BY <1>7 DEF Read, VersionsOK, Versions
    <2> QED BY <1>7, <2>1 DEF Read, Ordered, VersionsOK, Versions, wake, changed
  <1>8. ASSUME Swap PROVE Ordered'
    <2>1. \A o \in Orgs, p \in Parts : index'[o][p] \in {index[o][p], read[o][p[2]]}
      BY <1>8 DEF Swap, VersionsOK
    <2> QED BY <1>8, <2>1 DEF Swap, Ordered, wake, changed
  <1>9. ASSUME UNCHANGED vars PROVE Ordered'
    BY <1>9 DEF vars, changed, wake, pass, Ordered
  <1> QED BY <1>1, <1>2, <1>3, <1>4, <1>5, <1>6, <1>7, <1>8, <1>9 DEF Next, Listener, Loop

-----------------------------------------------------------------------------
(* What a pass has read stays ahead of what is served until it is served.  *)
LEMMA ReadAheadKept == Inv /\ [Next]_vars => ReadAhead'
  <1> SUFFICES ASSUME VersionsOK, LoopOK, Ordered, ReadAhead, [Next]_vars
               PROVE  ReadAhead'
    BY TypeParts DEF Inv
  <1> USE PartsAreRead
  <1>1. ASSUME UNCHANGED <<phase, scope, at, read, index>> PROVE ReadAhead'
    BY <1>1 DEF ReadAhead, HasRead
  <1>2. ASSUME phase' \notin {"read", "swap"} PROVE ReadAhead'
    BY <1>2 DEF ReadAhead, HasRead
  <1>3. ASSUME phase' = "read", at' = 1 PROVE ReadAhead'
    BY <1>3 DEF ReadAhead, HasRead
  <1>4. ASSUME Read PROVE ReadAhead'
    <2>1. Len(Reads) = 5 /\ at \in 1..5 BY DEF Reads, LoopOK
    <2> SUFFICES ASSUME NEW o \in scope, NEW p \in Parts, HasRead(p[2])'
                 PROVE  read'[o][p[2]] >= index[o][p]
      BY <1>4 DEF Read, ReadAhead, wake, changed
    <2>2. o \in Orgs /\ p[2] \in AllTables BY DEF LoopOK
    <2>3. CASE Reads[at] = p[2]
      BY <1>4, <2>2, <2>3 DEF Read, Ordered, VersionsOK, Versions
    <2>4. CASE Reads[at] # p[2]
      <3>1. read'[o][p[2]] = read[o][p[2]]
        BY <1>4, <2>2, <2>4 DEF Read, VersionsOK, Versions
      <3>2. HasRead(p[2])
        <4>1. \E i \in 1..at : Reads[i] = p[2]
          <5>1. CASE at = 5
            <6>1. Reads[1] = "limited" /\ Reads[2] = "models" /\ Reads[3] = "mcp"
                  /\ Reads[4] = "filters" /\ Reads[5] = "routers" BY DEF Reads
            <6> QED BY <5>1, <6>1, <2>2 DEF AllTables
          <5>2. CASE at # 5
            BY <5>2, <1>4, <2>1 DEF Read, HasRead
          <5> QED BY <5>1, <5>2
        <4> QED BY <4>1, <2>1, <2>4, <1>4 DEF HasRead, Read
      <3> QED BY <3>1, <3>2 DEF ReadAhead
    <2> QED BY <2>3, <2>4
  <1>5. ASSUME Swap PROVE ReadAhead'
    <2> SUFFICES ASSUME NEW o \in scope, NEW p \in Parts, phase = "swap"
                 PROVE  read[o][p[2]] >= index'[o][p]
      BY <1>5 DEF Swap, ReadAhead, wake, changed
    <2>1. o \in Orgs /\ p[2] \in AllTables BY DEF LoopOK
    <2>2. index'[o][p] \in {index[o][p], read[o][p[2]]}
      BY <1>5, <2>1 DEF Swap, VersionsOK
    <2>3. read[o][p[2]] >= index[o][p] BY DEF ReadAhead, HasRead
    <2> QED BY <2>1, <2>2, <2>3 DEF VersionsOK, Versions
  <1>6. CASE \E o \in Orgs, t \in Tables : Commit(o, t)
    BY <1>6, <1>1 DEF Commit, pass
  <1>7. CASE KeyCommit \/ Disconnect \/ Note \/ Wake \/ UNCHANGED vars
    BY <1>7, <1>1 DEF KeyCommit, Disconnect, Note, Wake, vars, pass
  <1>8. CASE \E c \in owed : Announce(c) \/ AnnounceLost(c)
    BY <1>8, <1>1 DEF Announce, AnnounceLost, pass
  <1>9. CASE Asked \/ Stop \/ Tick \/ ReadFails
    BY <1>9, <1>2 DEF Asked, Stop, Tick, ReadFails
  <1>10. CASE Take \/ NextOrg
    BY <1>10, <1>2, <1>3 DEF Take, NextOrg
  <1> QED BY <1>4, <1>5, <1>6, <1>7, <1>8, <1>9, <1>10 DEF Next, Listener, Loop

-----------------------------------------------------------------------------
(* A change heard of is followed through every step of listener and loop.  *)
LEMMA ToldKept == Inv /\ [Next]_vars => Told'
  <1> SUFFICES ASSUME VersionsOK, SentOK, LoopOK, Ordered, ReadAhead, Told, [Next]_vars,
                      NEW o \in Orgs
               PROVE  \/ ServedSince(o, due)' \/ Noted(o)' \/ ToDo(o)' \/ Reading(o)'
                      \/ Swapping(o)'
    BY TypeParts DEF Inv, Told
  <1> DEFINE Goal == \/ ServedSince(o, due)' \/ Noted(o)' \/ ToDo(o)' \/ Reading(o)'
                     \/ Swapping(o)'
  <1> USE PartsAreRead
  <1>0. ServedSince(o, due) \/ Noted(o) \/ ToDo(o) \/ Reading(o) \/ Swapping(o) BY DEF Told
  <1>1. ASSUME UNCHANGED <<due, pass, index, pending, token, heard>> PROVE Goal
    BY <1>0, <1>1 DEF ServedSince, Noted, ToDo, Reading, Swapping, WillTake, HasRead, HasSwapped,
                      pass
  <1>2. ASSUME Note PROVE Goal
    <2> DEFINE c == Head(channel)
    <2>1. c \in Changes BY <1>2 DEF Note, SentOK
    <2>2. /\ Covers(pending) \subseteq Covers(pending')
          /\ Covers(Want(Nothing, c)) \subseteq Covers(pending')
      BY <1>2, <2>1, WantGrows DEF Note, LoopOK
    <2>3. CASE o \in Covers(Want(Nothing, c))
      <3>1. c.kind # "key" BY <2>3 DEF Want, Covers, Nothing
      <3>2. c # Quiet BY <2>1, PolicyReloadAssumption DEF Changes, Quiet
      <3>3. heard' # Quiet BY <1>2, <3>1, <3>2 DEF Note
      <3> QED BY <2>2, <2>3, <3>3 DEF Noted, WillTake
    <2>4. CASE o \notin Covers(Want(Nothing, c))
      <3>1. due'[o] = due[o] /\ heard = Quiet /\ token' = token
        BY <1>2, <2>4 DEF Note
      <3> QED BY <1>0, <1>2, <2>2, <3>1, SMTT(20)
              DEF Note, ServedSince, Noted, ToDo, Reading, Swapping, WillTake, HasRead,
                  HasSwapped, pass
    <2> QED BY <2>3, <2>4
  <1>3. ASSUME Wake PROVE Goal
    BY <1>0, <1>3 DEF Wake, ServedSince, Noted, ToDo, Reading, Swapping, WillTake, HasRead,
                      HasSwapped, pass
  <1>4. ASSUME Asked PROVE Goal
    BY <1>0, <1>4 DEF Asked, ServedSince, Noted, ToDo, Reading, Swapping, WillTake, HasRead
  <1>5. ASSUME Stop PROVE Goal
    BY <1>0, <1>5 DEF Stop, ServedSince, Noted, ToDo, Reading, Swapping, WillTake, HasRead, wake
  <1>6. ASSUME Tick PROVE Goal
    <2>1. [kind |-> "any", org |-> NoOrg] \in Changes BY DEF Changes
    <2>2. Covers(pending') = Orgs BY <1>6, <2>1, WantGrows DEF Tick, LoopOK
    <2> QED BY <1>6, <2>2 DEF Tick, Noted, WillTake
  <1>7. ASSUME Take PROVE Goal
    <2>1. ServedSince(o, due) \/ o \in Covers(pending)
      BY <1>0, <1>7 DEF Take, Noted, ToDo, Reading, Swapping
    <2>2. CASE ServedSince(o, due)
      BY <1>7, <2>2 DEF Take, ServedSince
    <2>3. CASE o \in Covers(pending)
      BY <1>7, <2>3 DEF Take, Covers, ToDo, Reading, HasRead
    <2> QED BY <2>1, <2>2, <2>3
  <1>8. ASSUME NextOrg PROVE Goal
    <2>1. ServedSince(o, due) \/ Noted(o) \/ o \in todo
      BY <1>0, <1>8 DEF NextOrg, ToDo, Reading, Swapping
    <2>2. CASE ServedSince(o, due)
      BY <1>8, <2>2 DEF NextOrg, ServedSince, wake
    <2>3. CASE Noted(o)
      BY <1>8, <2>3 DEF NextOrg, Noted, WillTake, wake
    <2>4. CASE o \in todo
      BY <1>8, <2>4 DEF NextOrg, ToDo, Reading, HasRead
    <2> QED BY <2>1, <2>2, <2>3, <2>4
  <1>9. ASSUME ReadFails PROVE Goal
    <2>1. CASE o \in scope
      <3>1. o \in Covers(pending') /\ failed'
        BY <1>9, <2>1 DEF ReadFails, Covers, Everything, LoopOK, Pendings
      <3> QED BY <3>1 DEF Noted, WillTake
    <2>2. CASE o \notin scope
      <3>1. ServedSince(o, due) \/ Noted(o) \/ ToDo(o)
        BY <1>0, <2>2 DEF Reading, Swapping
      <3>2. CASE ServedSince(o, due)
        BY <1>9, <3>2 DEF ReadFails, ServedSince
      <3>3. CASE Noted(o)
        <4>1. o \in Covers(pending')
          BY <1>9, <3>3 DEF ReadFails, Noted, Covers, Everything, LoopOK, Pendings
        <4> QED BY <1>9, <4>1 DEF ReadFails, Noted, WillTake
      <3>4. CASE ToDo(o)
        BY <1>9, <3>4 DEF ReadFails, ToDo
      <3> QED BY <3>1, <3>2, <3>3, <3>4
    <2> QED BY <2>1, <2>2
  <1>10. ASSUME Read PROVE Goal
    <2>1. CASE ServedSince(o, due)
      BY <1>10, <2>1 DEF Read, ServedSince, wake
    <2>2. CASE Noted(o)
      BY <1>10, <2>2 DEF Read, Noted, WillTake, wake
    <2>3. CASE ToDo(o)
      BY <1>10, <2>3 DEF Read, ToDo
    <2>4. CASE Reading(o)
      <3>1. at \in 1..5 /\ Len(Reads) = 5 BY DEF LoopOK, Reads
      <3>2. \A t \in AllTables : (t = Reads[at] \/ HasRead(t)) => read'[o][t] >= due'[o][t]
        BY <1>10, <2>4 DEF Read, Reading, Ordered, VersionsOK, Versions, wake
      <3>3. CASE at = 5
        <4>1. Reads[1] = "limited" /\ Reads[2] = "models" /\ Reads[3] = "mcp"
              /\ Reads[4] = "filters" /\ Reads[5] = "routers" BY DEF Reads
        <4>2. \A t \in AllTables : t = Reads[at] \/ HasRead(t)
          BY <1>10, <3>3, <4>1 DEF Read, HasRead, AllTables
        <4>3. phase' = "swap" /\ at' = 1 /\ o \in scope'
          BY <1>10, <2>4, <3>1, <3>3 DEF Read, Reading
        <4>4. \A p \in Parts : ~HasSwapped(p[1])' BY <4>3 DEF HasSwapped
        <4> QED BY <3>2, <4>2, <4>3, <4>4 DEF Swapping
      <3>4. CASE at # 5
        <4>1. phase' = "read" /\ at' = at + 1 /\ o \in scope'
          BY <1>10, <2>4, <3>1, <3>4 DEF Read, Reading
        <4>2. \A t \in AllTables : HasRead(t)' => (t = Reads[at] \/ HasRead(t))
          BY <1>10, <3>1, <4>1 DEF Read, HasRead
        <4> QED BY <3>2, <4>1, <4>2 DEF Reading
      <3> QED BY <3>3, <3>4
    <2>5. ~Swapping(o) BY <1>10 DEF Read, Swapping
    <2> QED BY <1>0, <2>1, <2>2, <2>3, <2>4, <2>5
  <1>11. ASSUME Swap PROVE Goal
    <2>1. \A p \in Parts : o \in scope => index'[o][p] = (IF p[1] = Indexes[at] THEN read[o][p[2]]
                                                         ELSE index[o][p])
      BY <1>11 DEF Swap, VersionsOK
    <2>0. \A p \in Parts : /\ index[o][p] \in Nat /\ read[o][p[2]] \in Nat
                            /\ due[o][p[2]] \in Nat
      BY PolicyReloadAssumption DEF VersionsOK, Versions, PolicyReloadAssumption
    <2>2. CASE ServedSince(o, due)
      <3>1. \A p \in Parts : index'[o][p] >= index[o][p]
        <4>1. CASE o \in scope
          <5>1. \A p \in Parts : read[o][p[2]] >= index[o][p]
            BY <1>11, <4>1 DEF Swap, ReadAhead, HasRead
          <5> QED BY <2>0, <2>1, <4>1, <5>1
        <4>2. CASE o \notin scope
          <5>1. index'[o] = index[o] BY <1>11, <4>2 DEF Swap
          <5> QED BY <2>0, <5>1
        <4> QED BY <4>1, <4>2
      <3>2. \A p \in Parts : index[o][p] >= due[o][p[2]] BY <2>2 DEF ServedSince
      <3>3. \A p \in Parts : index[o][p] \in Nat /\ index'[o][p] \in Nat /\ due[o][p[2]] \in Nat
        <4>1. \A p \in Parts : index'[o][p] \in {index[o][p], read[o][p[2]]}
          BY <1>11 DEF Swap, VersionsOK
        <4> QED BY <2>0, <4>1
      <3> QED BY <1>11, <3>1, <3>2, <3>3 DEF Swap, ServedSince, wake
    <2>3. CASE Noted(o)
      BY <1>11, <2>3 DEF Swap, Noted, WillTake, wake
    <2>4. CASE ToDo(o)
      BY <1>11, <2>4 DEF Swap, ToDo
    <2>5. CASE Swapping(o)
      <3>1. at \in 1..4 /\ Len(Indexes) = 4 BY <1>11 DEF LoopOK, Swap, Indexes
      <3>2. \A p \in Parts : (p[1] = Indexes[at] \/ HasSwapped(p[1]))
                                => index'[o][p] >= due'[o][p[2]]
        BY <1>11, <2>1, <2>5 DEF Swap, Swapping, wake
      <3>3. CASE at = 4
        <4>1. Indexes[1] = "models" /\ Indexes[2] = "mcp" /\ Indexes[3] = "filters"
              /\ Indexes[4] = "routers" BY DEF Indexes
        <4>2. \A p \in Parts : p[1] \in {"models", "mcp", "filters", "routers"} BY DEF Parts
        <4>3. \A p \in Parts : p[1] = Indexes[at] \/ HasSwapped(p[1])
          BY <3>3, <4>1, <4>2 DEF HasSwapped
        <4> QED BY <3>2, <4>3 DEF ServedSince
      <3>4. CASE at # 4
        <4>1. phase' = "swap" /\ at' = at + 1 /\ scope' = scope /\ read' = read /\ due' = due
          BY <1>11, <3>1, <3>4 DEF Swap, wake
        <4>2. \A p \in Parts : HasSwapped(p[1])' => (p[1] = Indexes[at] \/ HasSwapped(p[1]))
          BY <3>1, <4>1 DEF HasSwapped
        <4> QED BY <2>5, <3>2, <4>1, <4>2 DEF Swapping
      <3> QED BY <3>3, <3>4
    <2>6. ~Reading(o) BY <1>11 DEF Swap, Reading
    <2> QED BY <1>0, <2>2, <2>3, <2>4, <2>5, <2>6
  <1>12. CASE \E a \in Orgs, t \in Tables : Commit(a, t)
    BY <1>12, <1>1 DEF Commit, wake
  <1>13. CASE \E c \in owed : Announce(c) \/ AnnounceLost(c)
    BY <1>13, <1>1 DEF Announce, AnnounceLost, wake
  <1>14. CASE KeyCommit \/ Disconnect \/ UNCHANGED vars
    BY <1>14, <1>1 DEF KeyCommit, Disconnect, vars, wake
  <1> QED BY <1>2, <1>3, <1>4, <1>5, <1>6, <1>7, <1>8, <1>9, <1>10, <1>11, <1>12, <1>13, <1>14
          DEF Next, Listener, Loop

LEMMA InvKept == Inv /\ [Next]_vars => Inv'
  BY TypeKept, OrderedKept, ReadAheadKept, ToldKept DEF Inv

LEMMA InvHolds == Spec => []Inv
  BY InitInv, InvKept, PTL DEF Spec

-----------------------------------------------------------------------------
(* The reload loop's state keeps its types.                                *)
THEOREM ReloadTypeOK == Spec => []TypeOK
  <1>1. Inv => TypeOK BY DEF Inv
  <1> QED BY <1>1, InvHolds, PTL

(* No wake-up of keepPolicy is lost, for any number of organisations,      *)
(* changes and failed reads (Registry.want, refreshPending, listenOnce).   *)
THEOREM ReloadNoLostWake == Spec => []NoLostWake
  <1>1. Inv => NoLostWake
    BY DEF Inv, Told, NoLostWake, Noted, ToDo, Reading, Swapping, WillTake
  <1> QED BY <1>1, InvHolds, PTL

(* No index goes back to an older change (replaceAll, replaceOrg).         *)
THEOREM ReloadNeverBack == Spec => NeverBack
  <1> DEFINE Forward == \A o \in Orgs, p \in Parts : index'[o][p] >= index[o][p]
  <1>1. Inv /\ [Next]_vars => [Forward]_vars
    <2> SUFFICES ASSUME VersionsOK, LoopOK, ReadAhead, Next,
                        NEW o \in Orgs, NEW p \in Parts
                 PROVE  index'[o][p] >= index[o][p]
      BY TypeParts DEF Inv
    <2>1. CASE index' = index
      BY <2>1, PolicyReloadAssumption DEF VersionsOK, PolicyReloadAssumption
    <2>2. CASE Swap
      <3>1. o \in scope => read[o][p[2]] >= index[o][p]
        BY <2>2 DEF Swap, ReadAhead, HasRead
      <3>2. index[o][p] \in Nat BY PolicyReloadAssumption DEF VersionsOK, PolicyReloadAssumption
      <3>3. index'[o][p] = (IF o \in scope /\ p[1] = Indexes[at] THEN read[o][p[2]] ELSE index[o][p])
        BY <2>2 DEF Swap, VersionsOK
      <3> QED BY <3>1, <3>2, <3>3
    <2>3. Swap \/ index' = index
      BY DEF Next, Listener, Loop, Commit, KeyCommit, Announce, AnnounceLost, Disconnect, Note,
             Wake, Asked, Tick, Stop, Take, NextOrg, Read, ReadFails
    <2> QED BY <2>1, <2>2, <2>3
  <1> QED BY <1>1, InvHolds, PTL DEF Spec, NeverBack
=============================================================================
