---------------------------- MODULE PolicyReload ----------------------------
(***************************************************************************)
(* How one replica keeps its indexes of models, MCP servers, filters and   *)
(* routers fresh: keepPolicy, want, refreshPending, refreshAll, refreshOrg *)
(* and listenOnce of internal/registry/registry.go.                        *)
(*                                                                         *)
(* The listener notes what a change makes stale and wakes the loop through *)
(* a channel that holds one token.  The loop takes what was noted, reads   *)
(* the database piece by piece and swaps the four indexes one by one.  The *)
(* control plane commits and announces changes all the while, reads fail,  *)
(* and notifications are lost with the connection.                         *)
(***************************************************************************)
EXTENDS Naturals, Sequences, FiniteSets

CONSTANTS
  Orgs,        \* the organisations
  Tables,      \* bound: which of the tables change
  MaxChanges,  \* bound: how many changes are committed
  MaxFails,    \* bound: how many reads fail
  NoOrg        \* no organisation is named

ASSUME PolicyReloadAssumption ==
  /\ IsFiniteSet(Orgs) /\ NoOrg \notin Orgs
  /\ MaxChanges \in Nat /\ MaxFails \in Nat

(* The tables in the order they are read, the indexes in the order they    *)
(* are swapped, and which of what was read each index is made of: a model  *)
(* or MCP server is finished with its organisation's limit.                *)
Reads   == <<"limited", "models", "mcp", "filters", "routers">>
Indexes == <<"models", "mcp", "filters", "routers">>
Parts   == {<<i, i>> : i \in {"models", "mcp", "filters", "routers"}}
           \cup {<<"models", "limited">>, <<"mcp", "limited">>}

ASSUME TablesAssumption == Tables \subseteq {"limited", "models", "mcp", "filters", "routers"}

VARIABLES
  db,        \* db[o][t]: the last change of an organisation's rows in a table
  changes,   \* how many changes are committed
  owed,      \* changes committed and not announced yet
  channel,   \* notifications on their way to the listener
  heard,     \* the change the listener has noted and not woken the loop for
  token,     \* whether reload holds its one request
  pending,   \* Registry.pending
  phase,     \* where the loop is
  todo,      \* the organisations refreshPending still has to reload
  scope,     \* the ones being read now
  all,       \* whether that is refreshAll
  at,        \* the position in Reads or in Indexes
  read,      \* what has been read
  index,     \* the four indexes: index[o][<<i, t>>], the change of t in i
  fails,     \* how many reads have failed
  failed,    \* whether the last pass did
  due        \* the changes the listener has told the loop of, per org and table

wake    == <<heard, token, pending, due>>
pass    == <<phase, todo, scope, all, at, read, fails, failed>>
changed == <<db, changes, owed, channel>>
vars    == <<changed, wake, pass, index>>

AllTables  == {"limited", "models", "mcp", "filters", "routers"}
Nothing    == [all |-> FALSE, orgs |-> {}]
Everything == [all |-> TRUE, orgs |-> {}]
Quiet      == [kind |-> "none", org |-> NoOrg]
Blank      == [o \in Orgs |-> [t \in AllTables |-> 0]]

\* New has loaded everything once.
Init ==
  /\ db = Blank
  /\ changes = 0
  /\ owed = {}
  /\ channel = <<>>
  /\ heard = Quiet
  /\ token = FALSE
  /\ pending = Nothing
  /\ phase = "idle"
  /\ todo = {}
  /\ scope = {}
  /\ all = FALSE
  /\ at = 1
  /\ read = Blank
  /\ index = [o \in Orgs |-> [p \in Parts |-> 0]]
  /\ fails = 0
  /\ failed = FALSE
  /\ due = Blank

-----------------------------------------------------------------------------
(* The control plane, here or in another process.                          *)

\* A change inside one organisation, to be announced as its own.  A key's
\* change is announced too, and alters none of these tables.
Commit(o, t) ==
  /\ changes < MaxChanges
  /\ changes' = changes + 1
  /\ db' = [db EXCEPT ![o][t] = changes + 1]
  /\ owed' = owed \cup {[kind |-> "org", org |-> o]}
  /\ UNCHANGED <<channel, wake, pass, index>>

KeyCommit ==
  /\ changes < MaxChanges
  /\ changes' = changes + 1
  /\ owed' = owed \cup {[kind |-> "key", org |-> NoOrg]}
  /\ UNCHANGED <<db, channel, wake, pass, index>>

\* announce; another version of the gateway may send what this one does not
\* know, which means anything.
Announce(c) ==
  /\ c \in owed
  /\ owed' = owed \ {c}
  /\ \E sent \in {c, [kind |-> "any", org |-> NoOrg]} : channel' = Append(channel, sent)
  /\ UNCHANGED <<db, changes, wake, pass, index>>

\* Notify fails, the process dies first, or nobody listens.
AnnounceLost(c) ==
  /\ c \in owed
  /\ owed' = owed \ {c}
  /\ UNCHANGED <<db, changes, channel, wake, pass, index>>

\* The listener's connection drops, with what was on its way.
Disconnect ==
  /\ channel # <<>>
  /\ channel' = <<>>
  /\ UNCHANGED <<db, changes, owed, wake, pass, index>>

-----------------------------------------------------------------------------
(* The listener.                                                           *)

\* want: p, with what c makes stale.
Want(p, c) ==
  CASE c.kind = "key" \/ p.all -> p
    [] c.kind = "org" /\ ~p.all -> [p EXCEPT !.orgs = @ \cup {c.org}]
    [] OTHER -> Everything

\* The organisations p reloads.
Covers(p) == IF p.all THEN Orgs ELSE p.orgs

\* listenOnce: note the change ...
Note ==
  /\ heard = Quiet /\ channel # <<>>
  /\ channel' = Tail(channel)
  /\ LET c == Head(channel)
     IN  /\ heard' = IF c.kind = "key" THEN Quiet ELSE c
         /\ pending' = Want(pending, c)
         /\ due' = [o \in Orgs |-> IF o \in Covers(Want(Nothing, c)) THEN db[o] ELSE due[o]]
  /\ UNCHANGED <<db, changes, owed, token, pass, index>>

\* A bug: the channel holds no token, so only a resting loop is woken.
WakeUnbuffered ==
  /\ heard # Quiet
  /\ heard' = Quiet
  /\ token' = (token \/ phase = "idle")
  /\ UNCHANGED <<changed, pending, due, pass, index>>

\* ... and wake the loop, unless it is to be woken already.
Wake ==
  /\ heard # Quiet
  /\ heard' = Quiet
  /\ token' = TRUE
  /\ UNCHANGED <<changed, pending, due, pass, index>>

-----------------------------------------------------------------------------
(* The loop.                                                               *)

\* keepPolicy: a reload is asked for, or the minute is over.
Asked ==
  /\ phase = "idle" /\ token
  /\ token' = FALSE
  /\ phase' = "take"
  /\ UNCHANGED <<changed, heard, pending, due, todo, scope, all, at, read, fails, failed, index>>

\* A bug: the tick runs what is pending and asks for nothing itself.
TickWantsNothing ==
  /\ phase = "idle"
  /\ phase' = "take"
  /\ UNCHANGED <<changed, wake, todo, scope, all, at, read, fails, failed, index>>

Tick ==
  /\ phase = "idle"
  /\ pending' = Want(pending, [kind |-> "any", org |-> NoOrg])
  /\ phase' = "take"
  /\ UNCHANGED <<changed, heard, token, due, todo, scope, all, at, read, fails, failed, index>>

\* The context is cancelled.
Stop ==
  /\ phase = "idle"
  /\ phase' = "stopped"
  /\ UNCHANGED <<changed, wake, todo, scope, all, at, read, fails, failed, index>>

\* refreshPending takes what was noted: all in one scope, or each
\* organisation in one of its own.
Take ==
  /\ phase = "take"
  /\ pending' = Nothing
  /\ all' = pending.all
  /\ scope' = IF pending.all THEN Orgs ELSE {}
  /\ todo' = IF pending.all THEN {} ELSE pending.orgs
  /\ phase' = IF pending.all THEN "read" ELSE "next"
  /\ at' = 1
  /\ failed' = FALSE
  /\ UNCHANGED <<changed, heard, token, due, read, fails, index>>

\* The next organisation, in no order, or the pass is over.
NextOrg ==
  /\ phase = "next"
  /\ \/ /\ todo = {}
        /\ phase' = "idle"
        /\ scope' = {}
        /\ read' = Blank
        /\ UNCHANGED todo
     \/ \E o \in todo :
          /\ todo' = todo \ {o}
          /\ scope' = {o}
          /\ read' = Blank
          /\ phase' = "read"
  /\ at' = 1
  /\ UNCHANGED <<changed, wake, all, fails, failed, index>>

\* One query of refreshAll or refreshOrg.
Read ==
  /\ phase = "read"
  /\ read' = [o \in Orgs |-> IF o \in scope THEN [read[o] EXCEPT ![Reads[at]] = db[o][Reads[at]]]
                                            ELSE read[o]]
  /\ at' = IF at = Len(Reads) THEN 1 ELSE at + 1
  /\ phase' = IF at = Len(Reads) THEN "swap" ELSE "read"
  /\ UNCHANGED <<changed, wake, todo, scope, all, fails, failed, index>>

\* A bug: a read that fails reads as empty, and the reload goes on.
ReadFailsUnnoticed ==
  /\ phase = "read" /\ fails < MaxFails
  /\ fails' = fails + 1
  /\ at' = IF at = Len(Reads) THEN 1 ELSE at + 1
  /\ phase' = IF at = Len(Reads) THEN "swap" ELSE "read"
  /\ UNCHANGED <<changed, wake, todo, scope, all, read, failed, index>>

\* A query fails: nothing is swapped, and the next pass tries again.
ReadFails ==
  /\ phase = "read" /\ fails < MaxFails
  /\ fails' = fails + 1
  /\ failed' = TRUE
  /\ pending' = IF all THEN Everything
                ELSE [pending EXCEPT !.orgs = IF pending.all THEN @ ELSE @ \cup scope]
  /\ phase' = "next"
  /\ UNCHANGED <<changed, heard, token, due, todo, scope, all, at, read, index>>

\* replaceAll or replaceOrg of one index.
Swap ==
  /\ phase = "swap"
  /\ index' = [o \in Orgs |->
                 IF o \in scope
                 THEN [p \in Parts |-> IF p[1] = Indexes[at] THEN read[o][p[2]] ELSE index[o][p]]
                 ELSE index[o]]
  /\ at' = IF at = Len(Indexes) THEN 1 ELSE at + 1
  /\ phase' = IF at = Len(Indexes) THEN "next" ELSE "swap"
  /\ UNCHANGED <<changed, wake, todo, scope, all, read, fails, failed>>

-----------------------------------------------------------------------------
Listener == Note \/ Wake

Loop == Asked \/ Take \/ NextOrg \/ Read \/ Swap

Next ==
  \/ \E o \in Orgs, t \in Tables : Commit(o, t)
  \/ KeyCommit
  \/ \E c \in owed : Announce(c) \/ AnnounceLost(c)
  \/ Disconnect
  \/ Listener \/ Loop \/ Tick \/ Stop \/ ReadFails

Spec == Init /\ [][Next]_vars

(* The loop runs, and the minute passes: a ticker and a token that are     *)
(* both ready are picked at random, so the tick is chosen in the end (SF). *)
(* Nothing is assumed of the announcements.                                *)
FairSpec == Spec /\ WF_vars(Loop \/ ReadFails) /\ SF_vars(Tick)

-----------------------------------------------------------------------------
(* Properties.                                                             *)

Changes  == [kind : {"org"}, org : Orgs] \cup [kind : {"key", "any"}, org : {NoOrg}]
Versions == [Orgs -> [AllTables -> 0..MaxChanges]]

TypeOK ==
  /\ db \in Versions /\ read \in Versions /\ due \in Versions
  /\ changes \in 0..MaxChanges
  /\ owed \subseteq Changes
  /\ channel \in Seq(Changes)
  /\ heard \in Changes \cup {Quiet}
  /\ token \in BOOLEAN /\ all \in BOOLEAN /\ failed \in BOOLEAN
  /\ pending \in [all : BOOLEAN, orgs : SUBSET Orgs]
  /\ pending.all => pending.orgs = {}
  /\ phase \in {"idle", "take", "next", "read", "swap", "stopped"}
  /\ todo \subseteq Orgs /\ scope \subseteq Orgs
  /\ at \in 1..5 /\ (phase = "swap" => at \in 1..4)
  /\ index \in [Orgs -> [Parts -> 0..MaxChanges]]
  /\ fails \in 0..MaxFails

\* Organisation o is served as it was at v, or as of a later change.
ServedSince(o, v) == \A p \in Parts : index[o][p] >= v[o][p[2]]

(* No wake-up is lost.  When the loop rests with nothing to wake it, every *)
(* change the listener has heard of is served, unless a failed read is     *)
(* waiting for the tick; and what is still to be reloaded is noted, failed *)
(* or not, however listener and loop interleave.                           *)
NoLostWake ==
  phase = "idle" /\ heard = Quiet =>
    \A o \in Orgs : \/ ServedSince(o, due)
                    \/ o \in Covers(pending) /\ (token \/ failed)

(* What is served never goes back to an older change: the reload loop is   *)
(* the one writer, and a failed read neither empties nor reverts an index. *)
NeverBack ==
  [][\A o \in Orgs, p \in Parts : index'[o][p] >= index[o][p]]_vars

(* Even when every announcement is lost, the indexes come to hold what the *)
(* database does once it stops changing, unless the replica stops.         *)
ComesFresh == <>[](phase = "stopped" \/ \A o \in Orgs, p \in Parts : index[o][p] = db[o][p[2]])
=============================================================================
