--------------------------- MODULE PipelineProofs ---------------------------
(* Pipeline, proved for any models, filters and routers, any order of      *)
(* reloads, hang-ups and failures: a request ends with its books in order, *)
(* nothing is sent that a step has not passed, and what is sent on the     *)
(* deployment's key is paid for.                                           *)
EXTENDS Pipeline, WellFoundedInduction, TLAPS

-----------------------------------------------------------------------------
(* The inductive invariant *)

Fields == {"stage", "start", "step", "model", "dialect", "needsNative", "text", "silent", "body",
           "native", "translated", "scopes", "filterMicros", "earlier", "decision", "route",
           "prompted", "queue", "by", "run", "ran", "applied", "edits", "chain", "at", "busy"}

\* A sequence, of whatever it has.
IsSeq(q) == q \in Seq(Elems(q))

IsBody(b) == DOMAIN b = {"here", "edits", "prompt"} /\ b.here \in BOOLEAN

\* The parts of a call.
Shape(cc) ==
  /\ DOMAIN cc = Fields
  /\ cc.stage \in Stages
  /\ IsBody(cc.body) /\ IsBody(cc.native)
  /\ DOMAIN cc.run = {"micros", "stop", "edits", "ran", "applied"} /\ cc.run.micros \in Nat
  /\ DOMAIN cc.decision = {"alias", "chain", "micros", "refused"} /\ cc.decision.micros \in Nat
  /\ cc.filterMicros \in Nat /\ cc.earlier \in Nat /\ cc.at \in Nat
  /\ cc.scopes \subseteq Scopes
  /\ cc.start \in Starts \cup {NoStep}

Form ==
  /\ Shape(c)
  /\ spent \in [Scopes -> Nat] /\ running \in [Counted -> Nat] /\ inflight \in [Models -> Nat]
  /\ up \subseteq Models

Under(stage) == stage \notin {"return", "done"}
Fresh(stage) == stage \in {"receive", "decode", "admit"}
OnWay(stage) == stage \in {"forward", "sent", "answer"}

\* A route step's cost is charged a step after the decision.
Charged == c.filterMicros + c.earlier + (IF c.stage = "placed" THEN 0 ELSE c.decision.micros)

\* EndsClean, while the request is under way.
Books ==
  /\ Under(c.stage) => /\ rows = <<>>
                       /\ \A s \in Scopes : spent[s] = IF s \in c.scopes THEN Charged ELSE 0
  /\ ~Under(c.stage) =>
       /\ rows = <<>> <=> c.silent
       /\ rows # <<>> => /\ Len(rows) = 1
                         /\ \A s \in Scopes :
                              spent[s] = IF s \in rows[1].scopes THEN rows[1].cost ELSE 0
  /\ c.stage # "done" => ~c.silent
  /\ Fresh(c.stage) => HookMicros(c) = 0

Counts ==
  /\ Fresh(c.stage) => c.scopes = {KeyScope} /\ held = FALSE
  /\ c.stage = "done" => held = FALSE
  /\ \A s \in Counted : running[s] = IF c.stage # "done" /\ s \in c.scopes THEN 1 ELSE 0
  /\ c.stage \notin {"answer", "return", "done"} => c.busy = NoModel
  /\ \A m \in Models :
       inflight[m] = IF \/ c.stage = "sent" /\ m = c.chain[c.at]
                        \/ c.stage \in {"answer", "return"} /\ m = c.busy THEN 1 ELSE 0

\* The request is at a step of its router.
InRouter == c.stage \in {"router", "placed"} \/ (c.stage = "filter" /\ c.by = "router")

\* A limit is passed once.
Ahead ==
  /\ Fresh(c.stage) => c.step = c.start
  /\ InRouter => /\ c.start \in StepIds /\ c.step \in StepsOf[c.start]
                 /\ c.scopes \cap StepsOf[c.step] = {}

\* The models a request may be sent to.
Reach == IF c.start = NoStep THEN {c.model} ELSE Reaches(c.start)

Unbranching(q) == \A m \in Elems(q) : Steps[c.route].branches[m] = NoStep

\* What a decision may be, and where it may lead.
Chosen ==
  /\ c.stage = "placed" =>
       /\ c.route = c.step /\ Steps[c.step].kind = "route"
       /\ IsSeq(c.decision.chain)
       /\ Elems(c.decision.chain) \subseteq Elems(Steps[c.step].dests)
       /\ c.decision.alias \in Elems(Steps[c.step].dests) \cup {NoModel}
  /\ c.stage = "place" =>
       /\ IsSeq(c.decision.chain) /\ Unbranching(c.decision.chain)
       /\ c.model \in Reach /\ Elems(c.decision.chain) \subseteq Reach
  /\ c.start = NoStep /\ (Fresh(c.stage) \/ c.stage = "place") => c.decision.chain = <<>>

\* Credit is held for what may be sent on the deployment's key.
Credit ==
  /\ InRouter \/ c.stage = "place" => (Reach \cap OnKey # {} => held)
  /\ c.stage # "done" => (Elems(c.chain) \cap OnKey # {} => held)
  /\ Fresh(c.stage) \/ InRouter \/ c.stage = "place" => c.chain = <<>>

\* The key's filters are running, or have been.
KeyFiltering == c.stage \in {"prepare", "forward", "sent", "answer"}
                  \/ (c.stage = "filter" /\ c.by # "router")

Filtered ==
  /\ Under(c.stage) => c.ran \ Shadow \subseteq c.applied
  /\ c.stage = "filter" => c.run.stop = TRUE \/ gone \/ c.run.ran \ Shadow \subseteq c.run.applied
  /\ c.stage = "filter" /\ c.by # "router" /\ c.text = "some" =>
       /\ IsSeq(c.queue)
       /\ \/ c.run.stop = TRUE \/ gone
          \/ Elems(KeyFilters) \ Shadow \subseteq c.applied \cup c.run.applied \cup Elems(c.queue)
  /\ c.stage = "prepare" \/ OnWay(c.stage) \/ sent # <<>> =>
       (c.text = "some" => Elems(KeyFilters) \ Shadow \subseteq c.applied)

\* The body for m has every rewrite.
Right(m) == LET b == IF c.native.here /\ m \in Native THEN c.native ELSE c.body
            IN  b.here /\ b.edits = c.edits
Prompted(m) == LET b == IF c.native.here /\ m \in Native THEN c.native ELSE c.body
               IN  b.prompt = (KeyPrompt \/ c.prompted)

Bodied ==
  /\ c.stage \in {"receive", "decode"} => c.edits = {} /\ ~c.native.here /\ ~c.body.here
  /\ c.stage = "admit" \/ InRouter \/ c.stage = "place" =>
       /\ c.native.here \/ c.body.here
       /\ c.native.here => c.native.edits = c.edits
       /\ c.body.here => c.body.edits = c.edits
  /\ KeyFiltering => /\ \A m \in Elems(c.chain) : Right(m)
                     /\ c.native.here => c.native.edits = c.edits
                     /\ c.native.here /\ (\E m \in Elems(c.chain) : m \notin Native) => c.translated
  /\ OnWay(c.stage) => \A m \in Elems(c.chain) : Prompted(m)

Sendings ==
  /\ ~OnWay(c.stage) /\ Under(c.stage) => sent = <<>> /\ c.at = 1
  /\ KeyFiltering => IsSeq(c.chain) /\ c.chain # <<>>
  /\ KeyFiltering \/ ~Under(c.stage) => (Len(c.chain) > 1 => Unbranching(c.chain))
  /\ IsSeq(sent)
  /\ sent # <<>> => IsSeq(c.chain) /\ Len(sent) <= Len(c.chain)
  /\ \A i \in 1..Len(sent) :
       /\ sent[i].model = c.chain[i]
       /\ DOMAIN sent[i] = {"model", "body", "result"}
       /\ sent[i].body.here /\ sent[i].body.edits = c.edits
       /\ sent[i].body.prompt = (KeyPrompt \/ c.prompted)
  /\ OnWay(c.stage) => c.at <= Len(c.chain)
  /\ c.stage = "forward" => c.at = Len(sent) + 1
  /\ c.stage \in {"sent", "answer"} => c.at = Len(sent) /\ sent # <<>>

Paid == ~Under(c.stage) /\ sent # <<>> /\ Owed(Len(sent)) => rows # <<>> /\ rows[1].bill = Len(sent)

PipeInv == Form /\ Books /\ Counts /\ Ahead /\ Chosen /\ Credit /\ Filtered /\ Bodied /\ Sendings /\ Paid

-----------------------------------------------------------------------------
(* Induction, as the least counterexample.                                 *)

LEMMA Least ==
  ASSUME NEW T, T \subseteq Nat, T # {}
  PROVE  \E i \in T : \A j \in T : i <= j
  <1> DEFINE R == {ss \in Nat \X Nat : ss[1] < ss[2]}
  <1>1. OpToRel(<, Nat) = R
    BY Zenon DEF OpToRel
  <1>2. IsWellFoundedOn(R, Nat)
    BY <1>1, NatLessThanWellFounded, Zenon
  <1>3. T \subseteq Nat /\ T # {}
    OBVIOUS
  <1> HIDE DEF R
  <1>4. \E x \in T : \A y \in T : ~(<<y, x>> \in R)
    BY <1>2, <1>3, WFMin, Zenon
  <1>5. PICK x \in T : \A y \in T : ~(<<y, x>> \in R)
    BY <1>4
  <1>6. ASSUME NEW y \in T PROVE x <= y
    <2>1. x \in Nat /\ y \in Nat
      BY <1>3
    <2>2. <<y, x>> \in R <=> y < x
      BY <2>1 DEF R
    <2> QED
      BY <1>5, <2>1, <2>2
  <1> QED
    BY <1>6

-----------------------------------------------------------------------------
(* Sequences.                                                              *)

\* Append, for sequences of anything.
LEMMA Appended ==
  ASSUME NEW q, IsSeq(q), NEW e
  PROVE  /\ IsSeq(Append(q, e))
         /\ Len(Append(q, e)) = Len(q) + 1
         /\ Append(q, e)[Len(q) + 1] = e
         /\ \A i \in 1..Len(q) : Append(q, e)[i] = q[i]
         /\ Elems(Append(q, e)) = Elems(q) \cup {e}
         /\ Append(q, e) # <<>>
  <1> DEFINE T == Elems(q) \cup {e}
             r == Append(q, e)
  <1>1. q \in Seq(Elems(q))
    BY DEF IsSeq
  <1> HIDE DEF T
  <1>2. q \in Seq(T) /\ e \in T
    BY <1>1 DEF T
  <1>3. /\ r \in Seq(T) /\ Len(r) = Len(q) + 1 /\ r[Len(q) + 1] = e
        /\ \A i \in 1..Len(q) : r[i] = q[i]
        /\ Len(q) \in Nat /\ DOMAIN r = 1..Len(q) + 1 /\ DOMAIN q = 1..Len(q)
    BY <1>2
  <1> HIDE DEF r
  <1>4. Elems(r) = T
    BY <1>3 DEF Elems, T
  <1>5. r # <<>>
    BY <1>3
  <1>6. IsSeq(r)
    BY <1>3, <1>4 DEF IsSeq
  <1> QED
    BY <1>3, <1>4, <1>5, <1>6 DEF r, T

LEMMA OwnSeq ==
  ASSUME NEW T, NEW q \in Seq(T)
  PROVE  IsSeq(q)
  <1> DEFINE E == Elems(q)
  <1>1. \A i \in 1..Len(q) : q[i] \in E
    BY DEF Elems
  <1> HIDE DEF E
  <1>2. q \in Seq(E)
    BY <1>1
  <1> QED
    BY <1>2 DEF IsSeq, E

LEMMA NoElems == IsSeq(<<>>) /\ Elems(<<>>) = {} /\ Len(<<>>) = 0
  BY DEF IsSeq, Elems

LEMMA One ==
  ASSUME NEW e
  PROVE  IsSeq(<<e>>) /\ Elems(<<e>>) = {e} /\ Len(<<e>>) = 1 /\ <<e>> # <<>>
  BY DEF IsSeq, Elems

LEMMA SeqLen ==
  ASSUME NEW q, IsSeq(q)
  PROVE  /\ Len(q) \in Nat /\ DOMAIN q = 1..Len(q)
         /\ \A i \in 1..Len(q) : q[i] \in Elems(q)
         /\ q # <<>> <=> Len(q) >= 1
  BY DEF IsSeq, Elems

LEMMA TailOf ==
  ASSUME NEW q, IsSeq(q), q # <<>>
  PROVE  /\ IsSeq(Tail(q)) /\ Elems(q) \subseteq Elems(Tail(q)) \cup {Head(q)}
  <1>1. q \in Seq(Elems(q)) /\ q # <<>>
    BY DEF IsSeq
  <1>2. PICK T : T = Elems(q)
    OBVIOUS
  <1> DEFINE r == Tail(q)
  <1>3. /\ r \in Seq(T) /\ Len(r) = Len(q) - 1 /\ \A i \in 1..Len(q) - 1 : r[i] = q[i + 1]
        /\ Head(q) = q[1] /\ Len(q) \in Nat /\ Len(q) >= 1 /\ DOMAIN q = 1..Len(q) /\ DOMAIN r = 1..Len(q) - 1
    BY <1>1, <1>2
  <1> HIDE DEF r
  <1>4. IsSeq(r)
    BY <1>3, OwnSeq
  <1>5. ASSUME NEW i \in 1..Len(q) PROVE q[i] \in Elems(r) \cup {Head(q)}
    <2>1. CASE i = 1
      BY <2>1, <1>3
    <2>2. CASE i # 1
      <3>1. i - 1 \in 1..Len(q) - 1 /\ r[i - 1] = q[i - 1 + 1] /\ i - 1 + 1 = i
        BY <2>2, <1>3
      <3> QED
        BY <3>1, <1>3 DEF Elems
    <2> QED
      BY <2>1, <2>2
  <1> QED
    BY <1>3, <1>4, <1>5 DEF Elems, r

\* The function in Kept is there.
LEMMA KeptThere ==
  ASSUME NEW q, IsSeq(q), NEW set
  PROVE  LET Is(f, k) == f = [n \in 0..k |-> IF n = 0 THEN <<>>
                                             ELSE IF q[n] \in set THEN Append(f[n - 1], q[n]) ELSE f[n - 1]]
         IN  \E f : Is(f, Len(q))
  <1> DEFINE Is(f, k) == f = [n \in 0..k |-> IF n = 0 THEN <<>>
                                             ELSE IF q[n] \in set THEN Append(f[n - 1], q[n]) ELSE f[n - 1]]
             Bad == {k \in Nat : ~ \E f : Is(f, k)}
  <1>1. Len(q) \in Nat
    BY SeqLen
  <1>2. ASSUME Bad # {} PROVE FALSE
    <2>1. PICK k \in Bad : \A j \in Bad : k <= j
      BY <1>2, Least
    <2>2. k # 0
      <3> DEFINE f == [n \in 0..0 |-> <<>>]
      <3>1. Is(f, 0)
        OBVIOUS
      <3> QED
        BY <3>1, <2>1
    <2>3. k - 1 \in Nat /\ k - 1 \notin Bad
      <3>1. k \in Nat
        BY <2>1
      <3> HIDE DEF Bad
      <3>2. k - 1 \in Bad => k <= k - 1
        BY <2>1
      <3> QED
        BY <3>1, <3>2, <2>2
    <2>4. PICK f : Is(f, k - 1)
      BY <2>3
    <2> DEFINE g == [n \in 0..k |-> IF n = k THEN IF q[k] \in set THEN Append(f[k - 1], q[k]) ELSE f[k - 1]
                                             ELSE f[n]]
    <2>5. Is(g, k)
      <3>1. ASSUME NEW n \in 0..k
            PROVE  g[n] = IF n = 0 THEN <<>>
                          ELSE IF q[n] \in set THEN Append(g[n - 1], q[n]) ELSE g[n - 1]
        <4>1. CASE n = k
          BY <4>1, <2>2, <2>3
        <4>2. CASE n # k
          <5>1. n \in 0..(k - 1) /\ g[n] = f[n] /\ (n # 0 => g[n - 1] = f[n - 1])
            BY <4>2, <2>3
          <5> HIDE DEF g
          <5>2. f[n] = IF n = 0 THEN <<>> ELSE IF q[n] \in set THEN Append(f[n - 1], q[n]) ELSE f[n - 1]
            BY <5>1, <2>4
          <5> QED
            BY <5>1, <5>2
        <4> QED
          BY <4>1, <4>2
      <3>2. g = [n \in 0..k |-> g[n]]
        OBVIOUS
      <3> HIDE DEF g
      <3> QED
        BY <3>1, <3>2
    <2> QED
      BY <2>5, <2>1
  <1> QED
    BY <1>1, <1>2

LEMMA KeptIs ==
  ASSUME NEW q, IsSeq(q), NEW set
  PROVE  /\ IsSeq(Kept(q, set)) /\ Elems(Kept(q, set)) = Elems(q) \cap set
         /\ Len(Kept(q, set)) <= Len(q)
  <1> DEFINE Is(f, k) == f = [n \in 0..k |-> IF n = 0 THEN <<>>
                                             ELSE IF q[n] \in set THEN Append(f[n - 1], q[n]) ELSE f[n - 1]]
             f == CHOOSE g : Is(g, Len(q))
             First(n) == {q[i] : i \in 1..n}
             Fine(n) == IsSeq(f[n]) /\ Elems(f[n]) = First(n) \cap set /\ Len(f[n]) <= n
             Bad == {n \in 0..Len(q) : ~Fine(n)}
  <1>0. Len(q) \in Nat /\ DOMAIN q = 1..Len(q)
    BY SeqLen
  <1>1. Is(f, Len(q))
    <2>1. \E g : Is(g, Len(q))
      <3> HIDE DEF f
      <3> QED
        BY KeptThere, ZenonT(60)
    <2> HIDE DEF Is
    <2> QED
      BY <2>1
  <1>2. Kept(q, set) = f[Len(q)]
    BY DEF Kept
  <1> HIDE DEF f
  <1>3. \A n \in 0..Len(q) : f[n] = IF n = 0 THEN <<>>
                                    ELSE IF q[n] \in set THEN Append(f[n - 1], q[n]) ELSE f[n - 1]
    BY <1>1
  <1>4. ASSUME Bad # {} PROVE FALSE
    <2>0. Bad \subseteq Nat
      BY <1>0
    <2> HIDE DEF Bad
    <2>1. PICK n \in Bad : \A j \in Bad : n <= j
      BY <1>4, <2>0, Least
    <2> USE DEF Bad
    <2>2. n \in 0..Len(q) /\ ~Fine(n)
      BY <2>1
    <2>3. n # 0
      <3>1. ASSUME n = 0 PROVE FALSE
        <4>1. f[n] = <<>>
          BY <3>1, <1>3, <1>0
        <4>2. First(n) = {}
          BY <3>1
        <4> QED
          BY <4>1, <4>2, <2>2, <3>1, NoElems
      <3> QED
        BY <3>1
    <2>4. n - 1 \in 0..Len(q) /\ Fine(n - 1)
      <3>1. n - 1 \in 0..Len(q) /\ ~(n <= n - 1)
        BY <2>2, <2>3, <1>0
      <3>2. n - 1 \notin Bad
        <4> HIDE DEF Bad
        <4> QED
          BY <3>1, <2>1
      <3> HIDE DEF Fine
      <3> QED
        BY <3>1, <3>2
    <2>5. First(n) = First(n - 1) \cup {q[n]}
      BY <2>2, <2>3, <1>0
    <2>6. f[n] = IF q[n] \in set THEN Append(f[n - 1], q[n]) ELSE f[n - 1]
      BY <1>3, <2>2, <2>3
    <2> HIDE DEF First
    <2>7. CASE q[n] \in set
      <3>1. /\ IsSeq(Append(f[n - 1], q[n])) /\ Len(Append(f[n - 1], q[n])) = Len(f[n - 1]) + 1
            /\ Elems(Append(f[n - 1], q[n])) = Elems(f[n - 1]) \cup {q[n]} /\ Len(f[n - 1]) \in Nat
        BY <2>4, Appended, SeqLen
      <3> QED
        BY <3>1, <2>2, <2>4, <2>5, <2>6, <2>7, <1>0
    <2>8. CASE q[n] \notin set
      <3>1. Len(f[n - 1]) \in Nat
        BY <2>4, SeqLen
      <3> QED
        BY <3>1, <2>2, <2>4, <2>5, <2>6, <2>8, <1>0
    <2> QED
      BY <2>7, <2>8
  <1>5. Fine(Len(q))
    <2>1. Len(q) \notin Bad /\ Len(q) \in 0..Len(q)
      <3> HIDE DEF Bad
      <3> QED
        BY <1>4, <1>0
    <2> HIDE DEF Fine
    <2> QED
      BY <2>1
  <1>6. First(Len(q)) = Elems(q)
    BY <1>0 DEF Elems
  <1> QED
    BY <1>2, <1>5, <1>6

-----------------------------------------------------------------------------
(* Routers are trees.                                                      *)

LEMMA AfterIn ==
  ASSUME NEW s \in StepIds
  PROVE  After(s) \subseteq StepIds
  BY PipelineAssumption DEF PipelineAssumption, After, Limits

\* The function StepsOf is there: the least sets that have what follows.
LEMMA StepsThere == \E f : f = [s \in StepIds |-> {s} \cup UNION {f[x] : x \in After(s)}]
  <1> DEFINE Closed(X) == X \subseteq StepIds /\ \A x \in X : After(x) \subseteq X
             Below(s) == {x \in StepIds : \A X : s \in X /\ Closed(X) => x \in X}
             g == [s \in StepIds |-> Below(s)]
  <1>1. ASSUME NEW s \in StepIds
        PROVE  /\ s \in Below(s) /\ Closed(Below(s))
               /\ \A X : s \in X /\ Closed(X) => Below(s) \subseteq X
    BY AfterIn
  <1>2. ASSUME NEW s \in StepIds
        PROVE  Below(s) = {s} \cup UNION {Below(x) : x \in After(s)}
    <2> HIDE DEF Below
    <2>1. After(s) \subseteq StepIds
      BY AfterIn
    <2> DEFINE U == {s} \cup UNION {Below(x) : x \in After(s)}
    <2>2. U \subseteq Below(s)
      BY <1>1, <2>1
    <2>3. Closed(U) /\ s \in U
      BY <1>1, <2>1
    <2> HIDE DEF U, Closed
    <2>4. Below(s) \subseteq U
      BY <1>1, <2>3
    <2> QED
      BY <2>2, <2>4 DEF U
  <1>3. ASSUME NEW s \in StepIds
        PROVE  {g[x] : x \in After(s)} = {Below(x) : x \in After(s)}
    BY AfterIn
  <1>4. g = [s \in StepIds |-> {s} \cup UNION {g[x] : x \in After(s)}]
    BY <1>2, <1>3
  <1> QED
    BY <1>4

LEMMA StepsEq ==
  ASSUME NEW s \in StepIds
  PROVE  StepsOf[s] = {s} \cup UNION {StepsOf[x] : x \in After(s)}
  <1> DEFINE Is(f) == f = [t \in StepIds |-> {t} \cup UNION {f[x] : x \in After(t)}]
  <1>1. \E f : Is(f)
    BY StepsThere
  <1>2. StepsOf = CHOOSE f : Is(f)
    BY DEF StepsOf
  <1>3. Is(StepsOf)
    <2> HIDE DEF Is
    <2> QED
      BY <1>1, <1>2
  <1> QED
    BY <1>3

\* What a step of the router leads to is in the router.
LEMMA StepsFollow ==
  ASSUME NEW s \in StepIds
  PROVE  /\ StepsOf[s] \subseteq StepIds /\ s \in StepsOf[s]
         /\ \A x \in StepsOf[s] : After(x) \subseteq StepsOf[s] /\ StepsOf[x] \subseteq StepsOf[s]
  <1> DEFINE Fine(t) == StepsOf[t] \subseteq StepIds /\ \A x \in StepsOf[t] : StepsOf[x] \subseteq StepsOf[t]
             Bad == {t \in StepIds : ~Fine(t)}
  <1>1. ASSUME Bad # {} PROVE FALSE
    <2>1. PICK t \in Bad : After(t) \cap Bad = {}
      BY <1>1, TreeAssumption DEF TreeAssumption
    <2>2. t \in StepIds /\ After(t) \subseteq StepIds
      BY <2>1, AfterIn
    <2>3. StepsOf[t] = {t} \cup UNION {StepsOf[x] : x \in After(t)}
      BY <2>2, StepsEq
    <2>4. \A y \in After(t) : Fine(y)
      BY <2>1, <2>2
    <2>5. Fine(t)
      BY <2>2, <2>3, <2>4
    <2> QED
      BY <2>1, <2>5
  <1>2. Fine(s)
    BY <1>1
  <1>3. s \in StepsOf[s]
    BY StepsEq
  <1>4. ASSUME NEW x \in StepsOf[s], NEW y \in After(x) PROVE y \in StepsOf[s]
    <2>1. x \in StepIds /\ y \in StepIds
      BY <1>2, AfterIn
    <2>2. y \in StepsOf[y]
      BY <2>1, StepsEq
    <2>3. y \in StepsOf[x]
      BY <2>1, <2>2, StepsEq
    <2> QED
      BY <2>3, <1>2
  <1> QED
    BY <1>2, <1>3, <1>4

\* A step does not come again.
LEMMA NotAgain ==
  ASSUME NEW s \in StepIds, NEW y \in After(s)
  PROVE  s \notin StepsOf[y] /\ StepsOf[y] \subseteq StepsOf[s] /\ y \in StepIds /\ y \in StepsOf[s]
  <1>1. y \in StepIds
    BY AfterIn
  <1> DEFINE Y == {x \in StepIds : x \in StepsOf[y] /\ s \in StepsOf[x]}
  <1>2. ASSUME s \in StepsOf[y] PROVE FALSE
    <2>1. Y # {} /\ y \in Y
      BY <1>1, <1>2, StepsFollow
    <2>2. PICK x \in Y : After(x) \cap Y = {}
      BY <2>1, TreeAssumption DEF TreeAssumption
    <2>3. x \in StepIds /\ StepsOf[x] = {x} \cup UNION {StepsOf[z] : z \in After(x)}
      BY <2>2, StepsEq
    <2>4. CASE s = x
      BY <2>1, <2>2, <2>4
    <2>5. CASE s # x
      <3>1. PICK z \in After(x) : s \in StepsOf[z]
        BY <2>2, <2>3, <2>5
      <3>2. z \in StepIds /\ z \in StepsOf[y]
        BY <2>2, <1>1, StepsFollow, AfterIn
      <3> QED
        BY <3>1, <3>2, <2>2
    <2> QED
      BY <2>4, <2>5
  <1>3. y \in StepsOf[s] /\ StepsOf[y] \subseteq StepsOf[s]
    BY StepsFollow
  <1> QED
    BY <1>1, <1>2, <1>3

IsFilter(s) == Steps[s].kind = "filter"

\* A row of filter steps from s on ends at e.
RowEnds(s, e) ==
  /\ e \in StepIds /\ ~IsFilter(e)
  /\ \/ s = e
     \/ \E X \in SUBSET StepIds :
          /\ s \in X
          /\ \A x \in X : IsFilter(x) /\ (Steps[x].next \in X \/ Steps[x].next = e)

LEMMA FilterNext ==
  ASSUME NEW s \in StepIds, IsFilter(s)
  PROVE  Steps[s].next \in StepIds /\ Steps[s].next \in After(s)
  BY PipelineAssumption DEF PipelineAssumption, IsFilter, After

LEMMA RowOn ==
  ASSUME NEW s \in StepIds, IsFilter(s), NEW e, RowEnds(Steps[s].next, e)
  PROVE  RowEnds(s, e)
  <1>1. CASE Steps[s].next = e
    <2>1. /\ {s} \in SUBSET StepIds /\ s \in {s}
          /\ \A x \in {s} : IsFilter(x) /\ (Steps[x].next \in {s} \/ Steps[x].next = e)
      BY <1>1
    <2> QED
      BY <2>1 DEF RowEnds
  <1>2. CASE Steps[s].next # e
    <2>1. PICK X \in SUBSET StepIds :
            /\ Steps[s].next \in X
            /\ \A x \in X : IsFilter(x) /\ (Steps[x].next \in X \/ Steps[x].next = e)
      BY <1>2 DEF RowEnds
    <2>2. /\ X \cup {s} \in SUBSET StepIds /\ s \in X \cup {s}
          /\ \A x \in X \cup {s} : IsFilter(x) /\ (Steps[x].next \in X \cup {s} \/ Steps[x].next = e)
      BY <2>1
    <2> QED
      BY <2>2 DEF RowEnds
  <1> QED
    BY <1>1, <1>2

LEMMA RowEnd ==
  ASSUME NEW s \in StepIds
  PROVE  \E e : RowEnds(s, e)
  <1> DEFINE Bad == {t \in StepIds : ~ \E e : RowEnds(t, e)}
  <1>1. ASSUME Bad # {} PROVE FALSE
    <2>1. PICK t \in Bad : After(t) \cap Bad = {}
      BY <1>1, TreeAssumption DEF TreeAssumption
    <2>2. CASE ~IsFilter(t)
      <3>1. RowEnds(t, t)
        BY <2>1, <2>2 DEF RowEnds
      <3> QED
        BY <2>1, <3>1
    <2>3. CASE IsFilter(t)
      <3>1. \E e : RowEnds(Steps[t].next, e)
        BY <2>1, <2>3, FilterNext
      <3>2. \E e : RowEnds(t, e)
        BY <2>1, <2>3, <3>1, RowOn
      <3> QED
        BY <2>1, <3>2
    <2> QED
      BY <2>2, <2>3
  <1> QED
    BY <1>1

LEMMA RowEndsOnce ==
  ASSUME NEW s \in StepIds, NEW d, NEW e, RowEnds(s, d), RowEnds(s, e)
  PROVE  d = e
  <1>1. CASE ~IsFilter(s)
    BY <1>1 DEF RowEnds
  <1>2. CASE IsFilter(s)
    <2>1. PICK X \in SUBSET StepIds :
            /\ s \in X
            /\ \A x \in X : IsFilter(x) /\ (Steps[x].next \in X \/ Steps[x].next = d)
      BY <1>2 DEF RowEnds
    <2>2. PICK Y \in SUBSET StepIds :
            /\ s \in Y
            /\ \A x \in Y : IsFilter(x) /\ (Steps[x].next \in Y \/ Steps[x].next = e)
      BY <1>2 DEF RowEnds
    <2> DEFINE Z == X \cap Y
    <2>3. Z \in SUBSET StepIds /\ Z # {}
      BY <2>1, <2>2
    <2>4. PICK z \in Z : After(z) \cap Z = {}
      BY <2>3, TreeAssumption DEF TreeAssumption
    <2>5. Steps[z].next \notin Z /\ ~IsFilter(d) /\ ~IsFilter(e)
      BY <2>1, <2>4, FilterNext DEF RowEnds
    <2> QED
      BY <2>1, <2>2, <2>4, <2>5
  <1> QED
    BY <1>1, <1>2

LEMMA AfterRowThere == \E f : f = [s \in StepIds |-> IF Steps[s].kind = "filter" THEN f[Steps[s].next] ELSE s]
  <1> DEFINE End(s) == CHOOSE e : RowEnds(s, e)
             g == [s \in StepIds |-> End(s)]
  <1>1. ASSUME NEW s \in StepIds PROVE RowEnds(s, End(s))
    BY RowEnd
  <1> HIDE DEF End
  <1>2. ASSUME NEW s \in StepIds
        PROVE  g[s] = IF Steps[s].kind = "filter" THEN g[Steps[s].next] ELSE s
    <2>1. CASE IsFilter(s)
      <3>1. Steps[s].next \in StepIds
        BY <2>1, FilterNext
      <3>2. RowEnds(s, End(Steps[s].next))
        BY <2>1, <3>1, <1>1, RowOn
      <3>3. End(s) = End(Steps[s].next)
        BY <3>2, <1>1, RowEndsOnce
      <3> QED
        BY <2>1, <3>1, <3>3 DEF IsFilter
    <2>2. CASE ~IsFilter(s)
      <3>1. RowEnds(s, s)
        BY <2>2 DEF RowEnds
      <3>2. End(s) = s
        BY <3>1, <1>1, RowEndsOnce
      <3> QED
        BY <2>2, <3>2 DEF IsFilter
    <2> QED
      BY <2>1, <2>2
  <1>3. g = [s \in StepIds |-> g[s]]
    OBVIOUS
  <1> HIDE DEF g
  <1>4. g = [s \in StepIds |-> IF Steps[s].kind = "filter" THEN g[Steps[s].next] ELSE s]
    BY <1>2, <1>3
  <1> QED
    BY <1>4

\* The step after a row of filters is one of the router's.
LEMMA AfterRowIn ==
  ASSUME NEW s \in StepIds
  PROVE  AfterRow[s] \in StepsOf[s]
  <1> DEFINE Is(f) == f = [t \in StepIds |-> IF Steps[t].kind = "filter" THEN f[Steps[t].next] ELSE t]
             Bad == {t \in StepIds : AfterRow[t] \notin StepsOf[t]}
  <1>1. \E f : Is(f)
    BY AfterRowThere
  <1>2. AfterRow = CHOOSE f : Is(f)
    BY DEF AfterRow
  <1>3. Is(AfterRow)
    <2> HIDE DEF Is
    <2> QED
      BY <1>1, <1>2
  <1>4. \A t \in StepIds : AfterRow[t] = IF Steps[t].kind = "filter" THEN AfterRow[Steps[t].next] ELSE t
    BY <1>3
  <1>5. ASSUME Bad # {} PROVE FALSE
    <2>1. PICK t \in Bad : After(t) \cap Bad = {}
      BY <1>5, TreeAssumption DEF TreeAssumption
    <2>2. CASE IsFilter(t)
      <3>1. /\ Steps[t].next \in StepIds /\ Steps[t].next \in After(t)
            /\ AfterRow[t] = AfterRow[Steps[t].next]
        BY <2>1, <2>2, <1>4, FilterNext DEF IsFilter
      <3>2. AfterRow[t] \in StepsOf[Steps[t].next]
        BY <2>1, <3>1
      <3>3. StepsOf[Steps[t].next] \subseteq StepsOf[t]
        BY <2>1, <3>1, NotAgain
      <3> QED
        BY <2>1, <3>2, <3>3
    <2>3. CASE ~IsFilter(t)
      BY <2>1, <2>3, <1>4, StepsFollow DEF IsFilter
    <2> QED
      BY <2>2, <2>3
  <1> QED
    BY <1>5

-----------------------------------------------------------------------------
(* Route steps.                                                            *)

\* What a route step s may come to.
Decision(s, d) ==
  /\ DOMAIN d = {"alias", "chain", "micros", "refused"} /\ d.micros \in Nat
  /\ IsSeq(d.chain) /\ Elems(d.chain) \subseteq Elems(Steps[s].dests)
  /\ d.alias \in Elems(Steps[s].dests) \cup {NoModel}

LEMMA ChoseIs ==
  ASSUME NEW s, NEW m \in Elems(Steps[s].dests), NEW cost \in Nat
  PROVE  Decision(s, Chose(m, cost))
  <1>1. IsSeq(<<m>>) /\ Elems(<<m>>) = {m}
    BY One
  <1> QED
    BY <1>1 DEF Decision, Chose

LEMMA RefusedIs ==
  ASSUME NEW s, NEW cost \in Nat
  PROVE  Decision(s, Refused(cost)) /\ Decision(s, [Undecided EXCEPT !.micros = cost])
  BY NoElems DEF Decision, Refused, Undecided

LEMMA FallbackIs ==
  ASSUME NEW s \in StepIds, Steps[s].kind = "route", NEW cost \in Nat
  PROVE  Decision(s, Fallback(Steps[s], cost))
  <1>1. Steps[s].fallback \in {NoModel} \cup Elems(Steps[s].dests)
    BY PipelineAssumption DEF PipelineAssumption, Elems
  <1>2. CASE Steps[s].fallback = NoModel
    BY <1>2, RefusedIs DEF Fallback
  <1>3. CASE Steps[s].fallback # NoModel
    BY <1>1, <1>3, ChoseIs DEF Fallback
  <1> QED
    BY <1>2, <1>3

LEMMA TriesIs ==
  ASSUME NEW s, NEW o, IsSeq(o), o # <<>>, Elems(o) \subseteq Elems(Steps[s].dests),
         NEW q \in Orders(o)
  PROVE  Decision(s, Tries(q))
  <1>1. q \in [DOMAIN o -> Elems(o)] /\ Elems(q) = Elems(o)
    BY DEF Orders
  <1>2. Len(o) \in Nat /\ DOMAIN o = 1..Len(o) /\ Len(o) >= 1
    BY SeqLen
  <1>3. q \in Seq(Elems(o)) /\ q[1] \in Elems(o)
    BY <1>1, <1>2
  <1>4. IsSeq(q)
    BY <1>3, OwnSeq
  <1> QED
    BY <1>1, <1>3, <1>4 DEF Decision, Tries

LEMMA OfferedIs ==
  ASSUME NEW s \in StepIds, Steps[s].kind = "route"
  PROVE  /\ IsSeq(Offered(Steps[s])) /\ Elems(Offered(Steps[s])) \subseteq Elems(Steps[s].dests)
         /\ Offered(Steps[s]) \in Orders(Offered(Steps[s]))
  <1>1. IsSeq(Steps[s].dests)
    BY PipelineAssumption, OwnSeq DEF PipelineAssumption
  <1>2. IsSeq(Offered(Steps[s])) /\ Elems(Offered(Steps[s])) \subseteq Elems(Steps[s].dests)
    BY <1>1, KeptIs DEF Offered
  <1>3. PICK o : o = Offered(Steps[s])
    OBVIOUS
  <1>4. o \in Orders(o)
    <2>1. Len(o) \in Nat /\ DOMAIN o = 1..Len(o) /\ \A i \in 1..Len(o) : o[i] \in Elems(o)
      BY <1>2, <1>3, SeqLen
    <2>2. o \in [DOMAIN o -> Elems(o)]
      BY <2>1, <1>2, <1>3 DEF IsSeq
    <2> QED
      BY <2>2 DEF Orders
  <1> QED
    BY <1>2, <1>3, <1>4

LEMMA RoutedIs ==
  ASSUME NEW s \in StepIds, Steps[s].kind = "route", NEW text, NEW d \in Routed(Steps[s], text)
  PROVE  Decision(s, d)
  <1>0. PICK r : r = Steps[s]
    OBVIOUS
  <1>1. PICK o : o = Offered(r)
    OBVIOUS
  <1>2. /\ IsSeq(o) /\ Elems(o) \subseteq Elems(Steps[s].dests) /\ o \in Orders(o)
    BY <1>0, <1>1, OfferedIs
  <1>3. \A cost \in Nat : /\ Decision(s, Fallback(r, cost)) /\ Decision(s, Refused(cost))
                          /\ Decision(s, [Undecided EXCEPT !.micros = cost])
                          /\ \A m \in Elems(o) : Decision(s, Chose(m, cost))
    BY <1>0, <1>2, FallbackIs, RefusedIs, ChoseIs
  <1>4. o # <<>> => \A q \in Orders(o) : Decision(s, Tries(q))
    BY <1>2, TriesIs
  <1>5. CASE d \in Sized(r, text)
    BY <1>5, <1>1, <1>3, <1>4 DEF Sized
  <1>6. CASE d \in ByHeader(r)
    BY <1>6, <1>1, <1>3 DEF ByHeader
  <1>7. CASE d \in Chain(r)
    <2>1. CASE o = <<>>
      BY <2>1, <1>7, <1>1, <1>3 DEF Chain
    <2>2. CASE o # <<>>
      BY <2>2, <1>7, <1>1, <1>2, <1>4 DEF Chain
    <2> QED
      BY <2>1, <2>2
  <1>8. CASE d \in Decided(r)
    <2>1. HookCost \subseteq Nat
      BY DEF HookCost
    <2>2. \/ d \in {Fallback(r, cost) : cost \in HookCost}
          \/ d \in {[Undecided EXCEPT !.micros = cost] : cost \in HookCost}
          \/ d \in {Chose(m, cost) : m \in Elems(o), cost \in HookCost}
      <3>1. CASE gone
        BY <1>8, <1>1, <3>1, SMTT(30) DEF Decided
      <3>2. CASE ~gone
        BY <1>8, <1>1, <3>2, SMTT(30) DEF Decided
      <3> QED
        BY <3>1, <3>2
    <2>3. CASE d \in {Fallback(r, cost) : cost \in HookCost}
      BY <2>1, <2>3, <1>3, Zenon
    <2>4. CASE d \in {[Undecided EXCEPT !.micros = cost] : cost \in HookCost}
      BY <2>1, <2>4, <1>3, Zenon
    <2>5. CASE d \in {Chose(m, cost) : m \in Elems(o), cost \in HookCost}
      <3>1. \E m \in Elems(o), cost \in HookCost : d = Chose(m, cost)
        BY <2>5, SMTT(30)
      <3> QED
        BY <2>1, <3>1, <1>3
    <2> QED
      BY <2>2, <2>3, <2>4, <2>5
  <1>9. CASE Len(o) = 1 /\ d = Chose(o[1], 0)
    <2>1. o[1] \in Elems(o)
      BY <1>9, <1>2, SeqLen
    <2> QED
      BY <2>1, <1>9, <1>3
  <1>10. CASE d \in {Refused(0), Fallback(r, 0)}
    BY <1>10, <1>3
  <1>11. d \in Routed(r, text)
    BY <1>0
  <1> QED
    BY <1>11, <1>5, <1>6, <1>7, <1>8, <1>9, <1>10, <1>1 DEF Routed

\* What is reached at a step of the router is among what Reaches lists.
LEMMA Reached ==
  ASSUME NEW start \in StepIds, NEW s \in StepsOf[start]
  PROVE  /\ Steps[s].kind = "model" => Steps[s].ref \in Reaches(start)
         /\ Steps[s].kind = "route" =>
              \A m \in Elems(Steps[s].dests) : Steps[s].branches[m] = NoStep => m \in Reaches(start)
  BY DEF Reaches

-----------------------------------------------------------------------------
(* Steps that end the request before anything was sent.                    *)

LEMMA Closes ==
  ASSUME PipeInv, NEW cc, Shape(cc), cc.silent = c.silent, cc.busy = c.busy, cc.scopes = c.scopes,
         Under(c.stage), ~OnWay(c.stage), CloseEarly(cc),
         spent' \in [Scopes -> Nat],
         \A s \in Scopes : spent'[s] = IF s \in c.scopes THEN HookMicros(cc) ELSE 0,
         running' = running, inflight' = inflight, up' = up, sent' = sent,
         Elems(cc.chain) \cap OnKey # {} => held',
         Len(cc.chain) > 1 => \A m \in Elems(cc.chain) : Steps[cc.route].branches[m] = NoStep
  PROVE  PipeInv'
  <1>1. c' = [cc EXCEPT !.stage = "return"] /\ DOMAIN cc = Fields
    BY DEF CloseEarly, Shape
  <1>2. /\ c'.stage = "return" /\ c'.silent = c.silent /\ c'.busy = c.busy /\ c'.scopes = c.scopes
        /\ c'.chain = cc.chain /\ c'.route = cc.route
    BY <1>1 DEF Fields
  <1>3. Shape(c')
    BY <1>1 DEF Shape, Fields, Stages
  <1>4. sent = <<>> /\ c.busy = NoModel /\ rows = <<>> /\ ~c.silent
    BY DEF PipeInv, Sendings, Counts, Books, Under, OnWay
  <1>5. rows' = <<[cost |-> HookMicros(cc), scopes |-> cc.scopes, bill |-> 0]>>
    BY <1>4 DEF CloseEarly
  <1>6. Form'
    BY <1>3 DEF PipeInv, Form
  <1>7. Books'
    <2>1. rows' # <<>> /\ Len(rows') = 1 /\ rows'[1].scopes = c.scopes /\ rows'[1].cost = HookMicros(cc)
      BY <1>5
    <2>2. ~c'.silent /\ c'.stage = "return"
      BY <1>2, <1>4
    <2> QED
      BY <2>1, <2>2 DEF Books, Under, Fresh
  <1>8. Counts'
    <2>1. \A s \in Counted : running[s] = IF s \in c.scopes THEN 1 ELSE 0
      BY DEF PipeInv, Counts, Under
    <2>2. \A m \in Models : inflight[m] = 0
      BY <1>4 DEF PipeInv, Counts, Under, OnWay
    <2>3. \A m \in Models : m # NoModel
      BY PipelineAssumption DEF PipelineAssumption
    <2> QED
      BY <1>2, <1>4, <2>1, <2>2, <2>3 DEF Counts, Fresh
  <1>9. Ahead' /\ Chosen' /\ Credit'
    BY <1>2 DEF Ahead, Chosen, Credit, Fresh, InRouter
  <1>10. Filtered' /\ Bodied' /\ Paid'
    BY <1>2, <1>4 DEF Filtered, Bodied, Paid, Under, OnWay, InRouter, KeyFiltering
  <1>11. Sendings'
    <2>1. Len(sent) = 0 /\ IsSeq(sent)
      BY <1>4, NoElems
    <2> QED
      BY <1>2, <1>4, <2>1 DEF Sendings, Under, OnWay, KeyFiltering, Unbranching
  <1> QED
    BY <1>6, <1>7, <1>8, <1>9, <1>10, <1>11 DEF PipeInv

\* What a request that has sent nothing yet knows of its chain.
LEMMA ChainFits ==
  ASSUME PipeInv, Under(c.stage), ~OnWay(c.stage)
  PROVE  /\ Elems(c.chain) \cap OnKey # {} => held
         /\ Len(c.chain) > 1 => \A m \in Elems(c.chain) : Steps[c.route].branches[m] = NoStep
  <1>1. Elems(c.chain) \cap OnKey # {} => held
    BY DEF PipeInv, Credit, Under
  <1>2. CASE KeyFiltering
    BY <1>1, <1>2 DEF PipeInv, Sendings, Unbranching
  <1>3. CASE ~KeyFiltering
    <2>1. c.stage \in Stages
      BY DEF PipeInv, Form, Shape
    <2>2. Fresh(c.stage) \/ InRouter \/ c.stage = "place"
      BY <1>3, <2>1 DEF KeyFiltering, Fresh, InRouter, Under, OnWay, Stages
    <2>3. c.chain = <<>>
      BY <2>2 DEF PipeInv, Credit
    <2> QED
      BY <1>1, <2>3, NoElems
  <1> QED
    BY <1>2, <1>3

\* closeEarly right away.
LEMMA ClosesNow ==
  ASSUME PipeInv, Under(c.stage), ~OnWay(c.stage), c.stage # "placed", CloseEarly(c),
         spent' = spent, held => held', running' = running, inflight' = inflight, up' = up, sent' = sent
  PROVE  PipeInv'
  <1>1. PICK cc : cc = c
    OBVIOUS
  <1>2. Shape(cc) /\ CloseEarly(cc)
    BY <1>1 DEF PipeInv, Form
  <1>3. /\ spent' \in [Scopes -> Nat]
        /\ \A s \in Scopes : spent'[s] = IF s \in c.scopes THEN HookMicros(cc) ELSE 0
    <2>1. HookMicros(cc) = Charged
      BY <1>1 DEF PipeInv, Form, Shape, HookMicros, Charged
    <2> QED
      BY <2>1 DEF PipeInv, Form, Books
  <1>4. /\ Elems(cc.chain) \cap OnKey # {} => held'
        /\ Len(cc.chain) > 1 => \A m \in Elems(cc.chain) : Steps[cc.route].branches[m] = NoStep
    BY <1>1, ChainFits
  <1> QED
    BY <1>1, <1>2, <1>3, <1>4, Closes

-----------------------------------------------------------------------------
(* Every step keeps the invariant.                                         *)

LEMMA PipeInit == Init => PipeInv
  <1> SUFFICES ASSUME Init PROVE PipeInv
    OBVIOUS
  <1>1. PICK start \in Starts \cup {NoStep}, model \in Models \cup {NoModel},
             dialect, needsNative \in BOOLEAN, text \in {"some", "none", "unreadable"} :
       /\ (start = NoStep) <=> (model # NoModel)
       /\ needsNative => dialect
       /\ c = [stage |-> "receive", start |-> start, step |-> start, model |-> model,
               dialect |-> dialect, needsNative |-> needsNative, text |-> text,
               silent |-> FALSE, body |-> NoBody, native |-> NoBody, translated |-> FALSE,
               scopes |-> {KeyScope}, filterMicros |-> 0, earlier |-> 0,
               decision |-> Undecided, route |-> NoStep, prompted |-> FALSE,
               queue |-> <<>>, by |-> "key", run |-> NoRun,
               ran |-> {}, applied |-> {}, edits |-> {},
               chain |-> <<>>, at |-> 1, busy |-> NoModel]
    BY Zenon DEF Init
  <1>2. /\ spent = [s \in Scopes |-> 0] /\ running = [s \in Counted |-> 0]
        /\ held = FALSE /\ inflight = [m \in Models |-> 0]
        /\ up = Models \ Subscribed /\ gone = FALSE /\ sent = <<>> /\ rows = <<>>
    BY DEF Init
  <1>3. /\ c.stage = "receive" /\ c.start = start /\ c.step = start /\ c.silent = FALSE
        /\ c.body = NoBody /\ c.native = NoBody /\ c.scopes = {KeyScope} /\ c.filterMicros = 0
        /\ c.earlier = 0 /\ c.decision = Undecided /\ c.run = NoRun /\ c.ran = {} /\ c.applied = {}
        /\ c.edits = {} /\ c.chain = <<>> /\ c.at = 1 /\ c.busy = NoModel /\ DOMAIN c = Fields
    BY <1>1 DEF Fields
  <1>4. KeyScope \notin Counted
    BY PipelineAssumption DEF PipelineAssumption, Counted, Limits
  <1>5. Form
    BY <1>2, <1>3 DEF Form, Shape, Stages, IsBody, NoBody, NoRun, Undecided, Scopes
  <1>6. Books
    BY <1>2, <1>3 DEF Books, Under, Fresh, Charged, HookMicros, Undecided
  <1>7. Counts
    BY <1>2, <1>3, <1>4 DEF Counts, Fresh
  <1>8. Ahead /\ Chosen /\ Credit
    BY <1>2, <1>3, NoElems DEF Ahead, Chosen, Credit, Fresh, InRouter, Undecided
  <1>9. Filtered /\ Bodied
    BY <1>2, <1>3 DEF Filtered, Bodied, Under, OnWay, InRouter, KeyFiltering, NoBody
  <1>10. Sendings
    BY <1>2, <1>3, NoElems DEF Sendings, Under, OnWay, KeyFiltering
  <1>11. Paid
    BY <1>3 DEF Paid, Under
  <1> QED
    BY <1>5, <1>6, <1>7, <1>8, <1>9, <1>10, <1>11 DEF PipeInv

\* What happens around the request.
LEMMA WorldKeeps ==
  ASSUME PipeInv, UNCHANGED <<c, server, sent, rows>>, gone => gone', up' \subseteq Models
  PROVE  PipeInv'
  <1>1. c' = c /\ spent' = spent /\ running' = running /\ held' = held /\ inflight' = inflight
        /\ sent' = sent /\ rows' = rows
    BY DEF server
  <1>2. Form'
    BY <1>1 DEF PipeInv, Form, Shape
  <1>3. Books' /\ Counts'
    BY <1>1 DEF PipeInv, Books, Counts, Charged, HookMicros
  <1>4. Ahead' /\ Chosen' /\ Credit'
    BY <1>1 DEF PipeInv, Ahead, Chosen, Credit, InRouter, Reach, Unbranching
  <1>5. Filtered'
    BY <1>1 DEF PipeInv, Filtered
  <1>6. Bodied'
    BY <1>1 DEF PipeInv, Bodied, Right, Prompted, InRouter, KeyFiltering
  <1>7. Sendings' /\ Paid'
    BY <1>1 DEF PipeInv, Sendings, Paid, Owed, Unbranching, KeyFiltering
  <1> QED
    BY <1>2, <1>3, <1>4, <1>5, <1>6, <1>7 DEF PipeInv

LEMMA AroundKeeps ==
  ASSUME PipeInv, HangUp \/ CutOff \/ Reload \/ Ended \/ UNCHANGED vars
  PROVE  PipeInv'
  <1>1. up \subseteq Models
    BY DEF PipeInv, Form
  <1>2. CASE HangUp
    BY <1>1, <1>2, WorldKeeps DEF HangUp
  <1>3. CASE CutOff
    BY <1>1, <1>3, WorldKeeps DEF CutOff
  <1>4. CASE Reload
    BY <1>4, WorldKeeps DEF Reload
  <1>5. CASE Ended \/ UNCHANGED vars
    BY <1>1, <1>5, WorldKeeps DEF Ended, vars, world
  <1> QED
    BY <1>2, <1>3, <1>4, <1>5

LEMMA ReceiveKeeps ==
  ASSUME PipeInv, Receive
  PROVE  PipeInv'
  <1>1. /\ c.stage = "receive" /\ DOMAIN c = Fields
        /\ spent' = spent /\ running' = running /\ held' = held /\ inflight' = inflight
        /\ up' = up /\ gone' = gone /\ sent' = sent
    BY DEF Receive, server, world, PipeInv, Form, Shape
  <1>2. /\ sent = <<>> /\ rows = <<>> /\ c.at = 1 /\ c.chain = <<>> /\ c.scopes = {KeyScope} /\ held = FALSE
        /\ c.busy = NoModel /\ c.ran \ Shadow \subseteq c.applied
    BY <1>1 DEF PipeInv, Sendings, Books, Credit, Counts, Filtered, Under, OnWay, Fresh
  <1>3. CASE c' = [c EXCEPT !.stage = "decode"] /\ rows' = rows
    <2>1. /\ c'.stage = "decode" /\ \A f \in Fields \ {"stage"} : c'[f] = c[f]
          /\ DOMAIN c' = Fields
      BY <1>1, <1>3 DEF Fields
    <2>2. /\ c'.body = c.body /\ c'.native = c.native /\ c'.run = c.run /\ c'.decision = c.decision
          /\ c'.filterMicros = c.filterMicros /\ c'.earlier = c.earlier /\ c'.at = c.at
          /\ c'.scopes = c.scopes /\ c'.start = c.start /\ c'.step = c.step /\ c'.silent = c.silent
          /\ c'.busy = c.busy /\ c'.chain = c.chain /\ c'.edits = c.edits /\ c'.ran = c.ran
          /\ c'.applied = c.applied /\ c'.text = c.text
      BY <2>1 DEF Fields
    <2>3. Form'
      BY <1>1, <2>1, <2>2 DEF PipeInv, Form, Shape, Stages
    <2>4. Books' /\ Counts'
      BY <1>1, <1>2, <1>3, <2>1, <2>2 DEF PipeInv, Books, Counts, Charged, HookMicros, Under, Fresh
    <2>5. Ahead' /\ Chosen' /\ Credit'
      BY <1>1, <1>2, <2>1, <2>2, NoElems DEF PipeInv, Ahead, Chosen, Credit, InRouter, Fresh
    <2>6. Filtered' /\ Bodied'
      BY <1>1, <1>2, <2>1, <2>2 DEF PipeInv, Filtered, Bodied, InRouter, KeyFiltering, Under, OnWay
    <2>7. Sendings' /\ Paid'
      BY <1>1, <1>2, <2>1, <2>2, NoElems DEF Sendings, Paid, KeyFiltering, Under, OnWay
    <2> QED
      BY <2>3, <2>4, <2>5, <2>6, <2>7 DEF PipeInv
  <1>4. ASSUME NEW silent \in BOOLEAN, c' = [c EXCEPT !.stage = "done", !.silent = silent],
               rows' = IF silent THEN <<>> ELSE <<[cost |-> 0, scopes |-> c.scopes, bill |-> 0]>>
        PROVE  PipeInv'
    <2>1. /\ c'.stage = "done" /\ c'.silent = silent /\ DOMAIN c' = Fields
          /\ c'.body = c.body /\ c'.native = c.native /\ c'.run = c.run /\ c'.decision = c.decision
          /\ c'.filterMicros = c.filterMicros /\ c'.earlier = c.earlier /\ c'.at = c.at
          /\ c'.scopes = c.scopes /\ c'.start = c.start
          /\ c'.busy = c.busy /\ c'.chain = c.chain
      BY <1>1, <1>4 DEF Fields
    <2>2. Form'
      BY <1>1, <2>1 DEF PipeInv, Form, Shape, Stages
    <2>3. \A s \in Scopes : spent[s] = 0
      <3>1. HookMicros(c) = 0 /\ Charged = HookMicros(c)
        BY <1>1 DEF PipeInv, Books, Form, Shape, Charged, HookMicros, Fresh
      <3> QED
        BY <1>1, <3>1 DEF PipeInv, Books, Under
    <2>4. Books'
      BY <1>1, <1>4, <2>1, <2>3 DEF Books, Under, Fresh
    <2>5. Counts'
      <3>1. KeyScope \notin Counted
        BY PipelineAssumption DEF PipelineAssumption, Counted, Limits
      <3>2. (\A s \in Counted : running[s] = 0) /\ \A m \in Models : inflight[m] = 0
        BY <1>1, <1>2, <3>1 DEF PipeInv, Counts
      <3> QED
        BY <1>1, <1>2, <2>1, <3>2 DEF Counts, Fresh
    <2>6. Ahead' /\ Chosen' /\ Credit'
      BY <2>1 DEF Ahead, Chosen, Credit, InRouter, Fresh
    <2>7. Filtered' /\ Bodied'
      BY <1>1, <1>2, <2>1 DEF Filtered, Bodied, InRouter, KeyFiltering, Under, OnWay
    <2>8. Sendings' /\ Paid'
      BY <1>1, <1>2, <2>1, NoElems DEF Sendings, Paid, KeyFiltering, Under, OnWay
    <2> QED
      BY <2>2, <2>4, <2>5, <2>6, <2>7, <2>8 DEF PipeInv
  <1>5. c.silent = FALSE
    BY <1>1 DEF PipeInv, Books
  <1>6. CASE /\ rows' = Append(rows, [cost |-> 0, scopes |-> c.scopes, bill |-> 0])
             /\ c' = [c EXCEPT !.stage = "done"]
    <2>1. rows' = <<[cost |-> 0, scopes |-> c.scopes, bill |-> 0]>>
      BY <1>2, <1>6
    <2>2. c' = [c EXCEPT !.stage = "done", !.silent = FALSE]
      BY <1>1, <1>5, <1>6 DEF Fields
    <2> QED
      BY <1>4, <2>1, <2>2
  <1>7. CASE c' = [c EXCEPT !.stage = "done", !.silent = TRUE] /\ rows' = rows
    BY <1>2, <1>4, <1>7
  <1> QED
    BY <1>3, <1>6, <1>7 DEF Receive

\* A step of a request that has sent nothing and goes on without sending.
Going == /\ Under(c.stage) /\ ~OnWay(c.stage) /\ Under(c'.stage) /\ ~OnWay(c'.stage)
         /\ c'.stage # "receive" /\ (Fresh(c'.stage) => Fresh(c.stage))
         /\ c'.silent = c.silent /\ c'.busy = c.busy /\ c'.at = c.at
         /\ inflight' = inflight /\ sent' = sent /\ rows' = rows /\ up' = up

LEMMA Moves ==
  ASSUME PipeInv, Going, Shape(c'), c'.scopes = c.scopes, running' = running, held' = held,
         spent' = spent, Charged' = Charged
  PROVE  Form' /\ Books' /\ Counts' /\ Paid'
  <1>1. Form'
    BY DEF PipeInv, Form, Going
  <1>2. Books'
    <2>1. rows = <<>> /\ (\A s \in Scopes : spent[s] = IF s \in c.scopes THEN Charged ELSE 0) /\ ~c.silent
      BY DEF PipeInv, Books, Going, Under
    <2>2. Fresh(c'.stage) => HookMicros(c') = 0
      <3>1. Fresh(c'.stage) => HookMicros(c) = 0 /\ c.stage # "placed" /\ c'.stage # "placed"
        BY DEF PipeInv, Books, Going, Fresh
      <3>2. c.stage # "placed" => HookMicros(c) = Charged
        BY DEF PipeInv, Form, Shape, HookMicros, Charged
      <3>3. c'.stage # "placed" => HookMicros(c') = Charged'
        BY DEF Shape, HookMicros, Charged
      <3> QED
        BY <3>1, <3>2, <3>3
    <2> QED
      BY <2>1, <2>2 DEF Books, Going
  <1>3. Counts'
    <2>1. /\ \A s \in Counted : running[s] = IF s \in c.scopes THEN 1 ELSE 0
          /\ \A m \in Models : inflight[m] = 0
          /\ c.busy = NoModel
      <3>1. c.stage \notin {"done", "sent", "answer", "return"}
        BY DEF Going, Under, OnWay
      <3> QED
        BY <3>1 DEF PipeInv, Counts
    <2>2. c'.stage \notin {"done", "sent", "answer", "return"}
      BY DEF Going, Under, OnWay
    <2>3. Fresh(c'.stage) => c.scopes = {KeyScope} /\ held = FALSE
      BY DEF PipeInv, Counts, Going
    <2> QED
      BY <2>1, <2>2, <2>3 DEF Counts, Going
  <1>4. Paid'
    BY DEF Paid, Going
  <1> QED
    BY <1>1, <1>2, <1>3, <1>4

\* Nothing has been sent, and nothing is now.
LEMMA StillUnsent ==
  ASSUME PipeInv, Going, KeyFiltering' => (IsSeq(c'.chain) /\ c'.chain # <<>> /\ (Len(c'.chain) > 1 => Unbranching(c.chain)'))
  PROVE  Sendings' /\ sent' = <<>>
  <1>1. sent' = <<>> /\ c'.at = 1 /\ Len(sent') = 0 /\ IsSeq(sent')
    BY NoElems DEF PipeInv, Sendings, Going
  <1>2. Under(c'.stage) /\ ~OnWay(c'.stage)
    BY DEF Going
  <1> QED
    BY <1>1, <1>2 DEF Sendings, OnWay, Under

LEMMA DecodeKeeps ==
  ASSUME PipeInv, Decode
  PROVE  PipeInv'
  <1>1. /\ c.stage = "decode" /\ DOMAIN c = Fields
        /\ spent' = spent /\ running' = running /\ held' = held /\ inflight' = inflight
        /\ up' = up /\ gone' = gone /\ sent' = sent
    BY DEF Decode, server, world, PipeInv, Form, Shape
  <1>2. CASE CloseEarly(c)
    BY <1>1, <1>2, ClosesNow DEF Under, OnWay
  <1>3. CASE /\ c' = IF c.dialect THEN [c EXCEPT !.stage = "admit", !.native = RawBody]
                                  ELSE [c EXCEPT !.stage = "admit", !.body = RawBody]
             /\ rows' = rows
    <2>1. /\ c'.stage = "admit" /\ DOMAIN c' = Fields
          /\ c'.run = c.run /\ c'.decision = c.decision
          /\ c'.filterMicros = c.filterMicros /\ c'.earlier = c.earlier /\ c'.at = c.at
          /\ c'.scopes = c.scopes /\ c'.start = c.start /\ c'.step = c.step /\ c'.silent = c.silent
          /\ c'.busy = c.busy /\ c'.chain = c.chain /\ c'.edits = c.edits /\ c'.ran = c.ran
          /\ c'.applied = c.applied /\ c'.text = c.text
      BY <1>1, <1>3 DEF Fields
    <2>2. \/ c'.native = RawBody /\ c'.body = c.body
          \/ c'.native = c.native /\ c'.body = RawBody
      BY <1>1, <1>3 DEF Fields
    <2>3. IsBody(RawBody) /\ RawBody.here = TRUE /\ RawBody.edits = {}
      BY DEF RawBody, NoBody, IsBody
    <2>4. Shape(c')
      BY <1>1, <2>1, <2>2, <2>3 DEF PipeInv, Form, Shape, Stages
    <2>5. Going
      BY <1>1, <1>3, <2>1 DEF Going, Under, OnWay, Fresh
    <2>6. Form' /\ Books' /\ Counts' /\ Paid'
      <3>1. Charged' = Charged
        BY <1>1, <2>1 DEF Charged
      <3> QED
        BY <1>1, <2>1, <2>4, <2>5, <3>1, Moves
    <2>7. Sendings' /\ sent' = <<>>
      BY <2>1, <2>5, StillUnsent DEF KeyFiltering
    <2>8. Ahead' /\ Chosen' /\ Credit'
      BY <1>1, <2>1 DEF PipeInv, Ahead, Chosen, Credit, InRouter, Fresh
    <2>9. Filtered'
      BY <1>1, <2>1, <2>7 DEF PipeInv, Filtered, Under, OnWay
    <2>10. Bodied'
      BY <1>1, <2>1, <2>2, <2>3 DEF PipeInv, Bodied, InRouter, KeyFiltering, OnWay
    <2> QED
      BY <2>6, <2>7, <2>8, <2>9, <2>10 DEF PipeInv
  <1> QED
    BY <1>2, <1>3 DEF Decode

\* Credit is held for a request that may be sent on the deployment's key.
LEMMA BilledReaches ==
  ASSUME PipeInv, Reach \cap OnKey # {}
  PROVE  Billed
  BY DEF Reach, Billed

LEMMA AdmitKeeps ==
  ASSUME PipeInv, Admit
  PROVE  PipeInv'
  <1>1. /\ c.stage = "admit" /\ DOMAIN c = Fields
        /\ spent' = spent /\ inflight' = inflight /\ up' = up /\ gone' = gone /\ sent' = sent
    BY DEF Admit, world, PipeInv, Form, Shape
  <1>2. CASE CloseEarly(c) /\ running' = running /\ (held' = held \/ held' = TRUE)
    BY <1>1, <1>2, ClosesNow DEF Under, OnWay
  <1>3. CASE /\ c' = [c EXCEPT !.scopes = @ \cup {QuotaScope},
                               !.stage = IF c.start = NoStep THEN "place" ELSE "router"]
             /\ held' = Billed
             /\ running' = [running EXCEPT ![QuotaScope] = @ + 1]
             /\ rows' = rows
    <2>1. /\ c'.stage = (IF c.start = NoStep THEN "place" ELSE "router") /\ DOMAIN c' = Fields
          /\ c'.scopes = c.scopes \cup {QuotaScope}
          /\ c'.run = c.run /\ c'.decision = c.decision /\ c'.native = c.native /\ c'.body = c.body
          /\ c'.filterMicros = c.filterMicros /\ c'.earlier = c.earlier /\ c'.at = c.at
          /\ c'.start = c.start /\ c'.step = c.step /\ c'.silent = c.silent
          /\ c'.busy = c.busy /\ c'.chain = c.chain /\ c'.edits = c.edits /\ c'.ran = c.ran
          /\ c'.applied = c.applied /\ c'.text = c.text /\ c'.model = c.model
      BY <1>1, <1>3 DEF Fields
    <2>2. Shape(c')
      BY <1>1, <2>1 DEF PipeInv, Form, Shape, Stages, Scopes
    <2>3. Going
      BY <1>1, <1>3, <2>1 DEF Going, Under, OnWay, Fresh
    <2>4. /\ c.scopes = {KeyScope} /\ c.chain = <<>> /\ c.step = c.start /\ c.busy = NoModel
          /\ QuotaScope \in Counted /\ KeyScope \notin Counted /\ KeyScope # QuotaScope
          /\ KeyScope \notin StepIds /\ QuotaScope \notin StepIds
          /\ c.start \in Starts \cup {NoStep} /\ Starts \subseteq StepIds
      BY <1>1, PipelineAssumption
         DEF PipelineAssumption, PipeInv, Counts, Credit, Ahead, Fresh, Counted, Limits, Form, Shape
    <2>5. (\A s \in Counted : running[s] = 0) /\ running \in [Counted -> Nat]
      BY <1>1, <2>4 DEF PipeInv, Counts, Form
    <2>6. \A s \in Counted : running'[s] = IF s = QuotaScope THEN 1 ELSE 0
      BY <1>3, <2>4, <2>5
    <2>7. Form'
      <3>1. running' \in [Counted -> Nat]
        BY <1>3, <2>4, <2>5
      <3> QED
        BY <1>1, <2>2, <3>1 DEF PipeInv, Form
    <2>8. Counts'
      BY <1>1, <2>1, <2>4, <2>6 DEF PipeInv, Counts, Fresh
    <2>9. Books' /\ Paid'
      <3>1. rows = <<>> /\ ~c.silent /\ HookMicros(c) = 0
        BY <1>1 DEF PipeInv, Books, Under, Fresh
      <3>2. Charged = 0 /\ Charged' = 0
        BY <1>1, <2>1, <3>1 DEF PipeInv, Form, Shape, HookMicros, Charged
      <3>3. \A s \in Scopes : spent[s] = 0
        BY <1>1, <3>2 DEF PipeInv, Books, Under
      <3> QED
        BY <1>1, <1>3, <2>1, <3>1, <3>2, <3>3 DEF Books, Paid, Under, Fresh
    <2>10. Sendings' /\ sent' = <<>>
      BY <2>1, <2>3, StillUnsent DEF KeyFiltering
    <2>11. Ahead'
      <3>1. CASE c.start = NoStep
        BY <2>1, <3>1 DEF Ahead, Fresh, InRouter
      <3>2. CASE c.start # NoStep
        <4>1. c.start \in StepIds /\ c.start \in StepsOf[c.start] /\ StepsOf[c.start] \subseteq StepIds
          BY <3>2, <2>4, StepsFollow
        <4> QED
          BY <2>1, <2>4, <3>2, <4>1 DEF Ahead, Fresh
      <3> QED
        BY <3>1, <3>2
    <2>12. Chosen'
      <3>1. c.start = NoStep => c.decision.chain = <<>>
        BY <1>1 DEF PipeInv, Chosen, Fresh
      <3> QED
        BY <2>1, <3>1, NoElems DEF Chosen, Fresh, Reach, Unbranching
    <2>13. Credit'
      <3>1. Reach' = Reach
        BY <2>1 DEF Reach
      <3>2. Elems(c'.chain) = {} /\ c'.chain = <<>>
        BY <2>1, <2>4, NoElems
      <3> QED
        BY <1>3, <3>1, <3>2, BilledReaches DEF Credit
    <2>14. Filtered'
      BY <1>1, <2>1, <2>10 DEF PipeInv, Filtered, Under, OnWay
    <2>15. Bodied'
      BY <1>1, <2>1 DEF PipeInv, Bodied, InRouter, KeyFiltering, OnWay
    <2> QED
      BY <2>7, <2>8, <2>9, <2>10, <2>11, <2>12, <2>13, <2>14, <2>15 DEF PipeInv
  <1> QED
    BY <1>2, <1>3 DEF Admit

\* A chain of filters goes on with the filters q and r as its outcome so far.
LEMMA ChainGoesOn ==
  ASSUME PipeInv, c.stage = "filter", NEW q, NEW r, c' = [c EXCEPT !.queue = q, !.run = r],
         DOMAIN r = {"micros", "stop", "edits", "ran", "applied"}, r.micros \in Nat,
         UNCHANGED <<server, world, sent, rows>>,
         r.stop = TRUE \/ gone \/ r.ran \ Shadow \subseteq r.applied,
         c.by # "router" /\ c.text = "some" =>
           /\ IsSeq(q)
           /\ \/ r.stop = TRUE \/ gone
              \/ Elems(KeyFilters) \ Shadow \subseteq c.applied \cup r.applied \cup Elems(q)
  PROVE  PipeInv'
  <1>1. /\ DOMAIN c = Fields
        /\ spent' = spent /\ running' = running /\ held' = held /\ inflight' = inflight
        /\ up' = up /\ gone' = gone /\ sent' = sent /\ rows' = rows
    BY DEF server, world, PipeInv, Form, Shape
  <1>2. /\ c'.stage = "filter" /\ DOMAIN c' = Fields /\ c'.queue = q /\ c'.run = r
        /\ c'.scopes = c.scopes /\ c'.decision = c.decision /\ c'.native = c.native /\ c'.body = c.body
        /\ c'.filterMicros = c.filterMicros /\ c'.earlier = c.earlier /\ c'.at = c.at
        /\ c'.start = c.start /\ c'.step = c.step /\ c'.silent = c.silent
        /\ c'.busy = c.busy /\ c'.chain = c.chain /\ c'.edits = c.edits /\ c'.ran = c.ran
        /\ c'.applied = c.applied /\ c'.text = c.text /\ c'.model = c.model /\ c'.by = c.by
        /\ c'.route = c.route /\ c'.translated = c.translated
    BY <1>1 DEF Fields
  <1>3. Shape(c')
    BY <1>1, <1>2 DEF PipeInv, Form, Shape
  <1>4. Going
    BY <1>1, <1>2 DEF Going, Under, OnWay, Fresh
  <1>5. Form' /\ Books' /\ Counts' /\ Paid'
    <2>1. Charged' = Charged
      BY <1>2 DEF Charged
    <2> QED
      BY <1>1, <1>2, <1>3, <1>4, <2>1, Moves
  <1>6. /\ KeyFiltering' <=> KeyFiltering
        /\ InRouter' <=> InRouter
    BY <1>2 DEF KeyFiltering, InRouter
  <1>7. Sendings' /\ sent' = <<>>
    <2>1. KeyFiltering => IsSeq(c.chain) /\ c.chain # <<>> /\ (Len(c.chain) > 1 => Unbranching(c.chain))
      BY DEF PipeInv, Sendings
    <2>2. Unbranching(c.chain)' <=> Unbranching(c.chain)
      BY <1>2 DEF Unbranching
    <2> QED
      BY <1>2, <1>4, <1>6, <2>1, <2>2, StillUnsent
  <1>8. Ahead' /\ Chosen' /\ Credit'
    BY <1>1, <1>2, <1>6 DEF PipeInv, Ahead, Chosen, Credit, Fresh, Reach
  <1>9. Filtered'
    BY <1>1, <1>2, <1>7 DEF PipeInv, Filtered, Under, OnWay
  <1>10. Bodied'
    <2>1. \A m : Right(m)' <=> Right(m)
      BY <1>2 DEF Right
    <2> QED
      BY <1>2, <1>6, <2>1 DEF PipeInv, Bodied, OnWay
  <1> QED
    BY <1>5, <1>7, <1>8, <1>9, <1>10 DEF PipeInv

LEMMA RunFilterKeeps ==
  ASSUME PipeInv, RunFilter
  PROVE  PipeInv'
  <1>1. /\ c.stage = "filter" /\ c.queue # <<>> /\ DOMAIN c = Fields
        /\ DOMAIN c.run = {"micros", "stop", "edits", "ran", "applied"} /\ c.run.micros \in Nat
        /\ UNCHANGED <<server, world, sent, rows>>
    BY DEF RunFilter, PipeInv, Form, Shape
  <1>2. /\ c.run.stop = TRUE \/ gone \/ c.run.ran \ Shadow \subseteq c.run.applied
        /\ c.by # "router" /\ c.text = "some" =>
             /\ IsSeq(c.queue)
             /\ \/ c.run.stop = TRUE \/ gone
                \/ Elems(KeyFilters) \ Shadow \subseteq c.applied \cup c.run.applied \cup Elems(c.queue)
    BY <1>1 DEF PipeInv, Filtered
  <1>3. PICK f : f = Head(c.queue)
    OBVIOUS
  <1>4. PICK t : t = Tail(c.queue)
    OBVIOUS
  <1>5. c.by # "router" /\ c.text = "some" => IsSeq(t) /\ Elems(c.queue) \subseteq Elems(t) \cup {f}
    BY <1>1, <1>2, <1>3, <1>4, TailOf
  \* The chain stops.
  <1>6. ASSUME NEW run, DOMAIN run = {"micros", "stop", "edits", "ran", "applied"}, run.micros \in Nat,
               NEW refused \in BOOLEAN, refused \/ gone,
               c' = [c EXCEPT !.queue = <<>>, !.run = [run EXCEPT !.stop = refused]]
        PROVE  PipeInv'
    <2>1. PICK r : r = [run EXCEPT !.stop = refused]
      OBVIOUS
    <2>2. /\ DOMAIN r = {"micros", "stop", "edits", "ran", "applied"} /\ r.micros \in Nat
          /\ r.stop = refused
      BY <1>6, <2>1
    <2>3. r.stop = TRUE \/ gone
      BY <1>6, <2>2
    <2> QED
      BY <1>1, <1>6, <2>1, <2>2, <2>3, NoElems, ChainGoesOn
  \* The chain goes on.
  <1>7. ASSUME NEW run, DOMAIN run = {"micros", "stop", "edits", "ran", "applied"}, run.micros \in Nat,
               run.stop = c.run.stop, run.ran = c.run.ran \cup {f},
               c.run.applied \subseteq run.applied, f \in Shadow \/ f \in run.applied,
               c' = [c EXCEPT !.queue = Tail(@), !.run = run]
        PROVE  PipeInv'
    <2>1. run.stop = TRUE \/ gone \/ run.ran \ Shadow \subseteq run.applied
      BY <1>2, <1>7
    <2>2. c.by # "router" /\ c.text = "some" =>
             /\ IsSeq(t)
             /\ \/ run.stop = TRUE \/ gone
                \/ Elems(KeyFilters) \ Shadow \subseteq c.applied \cup run.applied \cup Elems(t)
      BY <1>2, <1>5, <1>7
    <2>3. c' = [c EXCEPT !.queue = t, !.run = run]
      BY <1>4, <1>7
    <2> QED
      BY <1>1, <1>7, <2>1, <2>2, <2>3, ChainGoesOn
  <1>8. CASE StopChain(c.run, TRUE)
    <2>1. PICK run : run = c.run
      OBVIOUS
    <2> QED
      BY <2>1, <1>1, <1>6, <1>8 DEF StopChain
  <1>9. ASSUME NEW cost \in HookCost,
               LET paid  == [c.run EXCEPT !.micros = @ + cost]
                   noted == [paid EXCEPT !.ran = @ \cup {f}]
                   on    == [noted EXCEPT !.applied = @ \cup {f}]
               IN  \/ gone /\ StopChain(paid, FALSE)
                   \/ IF f \in Shadow THEN NextFilter(noted) ELSE StopChain(noted, TRUE)
                   \/ IF f \in Shadow THEN NextFilter(noted) ELSE NextFilter(on)
                   \/ /\ f \in Rewriters \ Shadow
                      /\ NextFilter([on EXCEPT !.edits = @ \cup {f}])
        PROVE  PipeInv'
    <2>0. cost \in Nat
      BY DEF HookCost
    <2>1. PICK paid : paid = [c.run EXCEPT !.micros = @ + cost]
      OBVIOUS
    <2>2. PICK noted : noted = [paid EXCEPT !.ran = @ \cup {f}]
      OBVIOUS
    <2>3. PICK on : on = [noted EXCEPT !.applied = @ \cup {f}]
      OBVIOUS
    <2>4. PICK ed : ed = [on EXCEPT !.edits = @ \cup {f}]
      OBVIOUS
    <2>5. /\ DOMAIN paid = {"micros", "stop", "edits", "ran", "applied"} /\ paid.micros \in Nat
          /\ paid.stop = c.run.stop /\ paid.ran = c.run.ran /\ paid.applied = c.run.applied
      BY <1>1, <2>0, <2>1
    <2>6. /\ DOMAIN noted = {"micros", "stop", "edits", "ran", "applied"} /\ noted.micros \in Nat
          /\ noted.stop = c.run.stop /\ noted.ran = c.run.ran \cup {f} /\ noted.applied = c.run.applied
      BY <2>2, <2>5
    <2>7. /\ DOMAIN on = {"micros", "stop", "edits", "ran", "applied"} /\ on.micros \in Nat
          /\ on.stop = c.run.stop /\ on.ran = c.run.ran \cup {f} /\ on.applied = c.run.applied \cup {f}
      BY <2>3, <2>6
    <2>8. /\ DOMAIN ed = {"micros", "stop", "edits", "ran", "applied"} /\ ed.micros \in Nat
          /\ ed.stop = c.run.stop /\ ed.ran = c.run.ran \cup {f} /\ ed.applied = c.run.applied \cup {f}
      BY <2>4, <2>7
    <2>9. \/ gone /\ StopChain(paid, FALSE)
          \/ f \in Shadow /\ NextFilter(noted)
          \/ StopChain(noted, TRUE)
          \/ NextFilter(on)
          \/ NextFilter(ed)
      BY <1>9, <2>1, <2>2, <2>3, <2>4
    <2>10. CASE gone /\ StopChain(paid, FALSE)
      BY <2>5, <2>10, <1>6 DEF StopChain
    <2>11. CASE f \in Shadow /\ NextFilter(noted)
      BY <2>6, <2>11, <1>7 DEF NextFilter
    <2>12. CASE StopChain(noted, TRUE)
      BY <2>6, <2>12, <1>6 DEF StopChain
    <2>13. CASE NextFilter(on)
      BY <2>7, <2>13, <1>7 DEF NextFilter
    <2>14. CASE NextFilter(ed)
      BY <2>8, <2>14, <1>7 DEF NextFilter
    <2> QED
      BY <2>9, <2>10, <2>11, <2>12, <2>13, <2>14
  <1> QED
    BY <1>3, <1>8, <1>9 DEF RunFilter

\* What a chain rewrote is in both bodies, as far as they are used.
Edited(n, b) ==
  LET e == c.edits \cup c.run.edits
  IN  /\ IsBody(n) /\ IsBody(b) /\ n.here = c.native.here
      /\ n.here => n.edits = e
      /\ InRouter => (n.here \/ b.here) /\ (b.here => b.edits = e)
      /\ KeyFiltering => \A m \in Elems(c.chain) : ~(n.here /\ m \in Native) => b.here /\ b.edits = e

LEMMA ChainEdits ==
  ASSUME PipeInv, c.stage = "filter", NEW cc, cc.native = c.native, cc.body = c.body,
         DOMAIN cc = Fields, cc.by = c.by, cc.translated = c.translated
  PROVE  LET e == c.run.edits
             edited == IF c.native.here THEN [cc EXCEPT !.native.edits = @ \cup e]
                                        ELSE [cc EXCEPT !.body.edits = @ \cup e]
             done   == IF Outdated(edited) THEN Retranslated(edited) ELSE edited
         IN  /\ Edited(done.native, done.body)
             /\ done = [cc EXCEPT !.native = done.native, !.body = done.body]
  <1> DEFINE e == c.run.edits
             nn == [c.native EXCEPT !.edits = @ \cup e]
             bb == [c.body EXCEPT !.edits = @ \cup e]
             edited == IF c.native.here THEN [cc EXCEPT !.native.edits = @ \cup e]
                                        ELSE [cc EXCEPT !.body.edits = @ \cup e]
             done   == IF Outdated(edited) THEN Retranslated(edited) ELSE edited
  <1>1. /\ IsBody(c.native) /\ IsBody(c.body)
        /\ IsBody(nn) /\ nn.here = c.native.here /\ nn.edits = c.native.edits \cup e
        /\ IsBody(bb) /\ bb.here = c.body.here /\ bb.edits = c.body.edits \cup e
    BY DEF PipeInv, Form, Shape, IsBody
  <1>2. /\ InRouter => /\ c.native.here \/ c.body.here
                       /\ c.native.here => c.native.edits = c.edits
                       /\ c.body.here => c.body.edits = c.edits
        /\ KeyFiltering => /\ \A m \in Elems(c.chain) : Right(m)
                           /\ c.native.here => c.native.edits = c.edits
                           /\ c.native.here /\ (\E m \in Elems(c.chain) : m \notin Native) => c.translated
        /\ KeyFiltering <=> c.by # "router"
        /\ InRouter <=> c.by = "router"
    BY DEF PipeInv, Bodied, KeyFiltering, InRouter
  <1>3. CASE ~c.native.here
    <2>1. edited = [cc EXCEPT !.body.edits = @ \cup e]
      BY <1>3
    <2>2. edited = [cc EXCEPT !.body = bb]
      BY <2>1
    <2>3. edited.native = c.native /\ edited.body = bb
      <3> HIDE DEF edited, bb
      <3> QED
        BY <2>2 DEF Fields
    <2>4. done = edited
      BY <1>3, <2>3 DEF Outdated
    <2>5. Edited(c.native, bb)
      BY <1>1, <1>2, <1>3 DEF Edited, Right
    <2>6. edited = [cc EXCEPT !.native = c.native, !.body = bb]
      <3> HIDE DEF edited, bb
      <3> QED
        BY <2>2 DEF Fields
    <2> QED
      BY <2>3, <2>4, <2>5, <2>6
  <1>4. CASE c.native.here
    <2>1. edited = [cc EXCEPT !.native = nn]
      BY <1>4
    <2>2. /\ edited.native = nn /\ edited.body = c.body /\ edited.by = c.by
          /\ edited.translated = c.translated /\ DOMAIN edited = Fields
      <3> HIDE DEF edited, nn
      <3> QED
        BY <2>1 DEF Fields
    <2>3. CASE Outdated(edited)
      <3>1. done = [edited EXCEPT !.body = nn]
        BY <2>2, <2>3 DEF Retranslated
      <3>2. done.native = nn /\ done.body = nn /\ done = [cc EXCEPT !.native = nn, !.body = nn]
        <4> HIDE DEF edited, nn, done
        <4> QED
          BY <2>1, <2>2, <3>1 DEF Fields
      <3>3. Edited(nn, nn)
        BY <1>1, <1>2, <1>4 DEF Edited, Right
      <3> QED
        BY <3>2, <3>3
    <2>4. CASE ~Outdated(edited)
      <3>1. done = edited
        BY <2>4
      <3>2. done.native = nn /\ done.body = c.body /\ done = [cc EXCEPT !.native = nn, !.body = c.body]
        <4>1. PICK n : n = nn
          OBVIOUS
        <4>2. [cc EXCEPT !.native = n] = [cc EXCEPT !.native = n, !.body = c.body]
          BY DEF Fields
        <4> QED
          BY <2>1, <2>2, <3>1, <4>1, <4>2
      <3>3. IF c.by = "router" THEN ~c.body.here ELSE ~c.translated
        BY <1>1, <1>4, <2>2, <2>4 DEF Outdated
      <3>4. Edited(nn, c.body)
        BY <1>1, <1>2, <1>4, <3>3 DEF Edited, Right
      <3> QED
        BY <3>2, <3>4
    <2> QED
      BY <2>3, <2>4
  <1> QED
    BY <1>3, <1>4

LEMMA EndChainKeeps ==
  ASSUME PipeInv, EndChain
  PROVE  PipeInv'
  <1>1. /\ c.stage = "filter" /\ c.queue = <<>> /\ DOMAIN c = Fields
        /\ running' = running /\ held' = held /\ inflight' = inflight
        /\ up' = up /\ gone' = gone /\ sent' = sent
        /\ c.run.micros \in Nat /\ Under(c.stage) /\ ~OnWay(c.stage)
    BY DEF EndChain, world, PipeInv, Form, Shape, Under, OnWay
  <1>2. PICK cc : cc = [c EXCEPT !.filterMicros = @ + c.run.micros, !.run = NoRun,
                                 !.ran = @ \cup c.run.ran, !.applied = @ \cup c.run.applied,
                                 !.stage = IF c.by = "router" THEN "router" ELSE "prepare"]
    OBVIOUS
  <1>3. /\ DOMAIN cc = Fields /\ cc.filterMicros = c.filterMicros + c.run.micros /\ cc.run = NoRun
        /\ cc.ran = c.ran \cup c.run.ran /\ cc.applied = c.applied \cup c.run.applied
        /\ cc.stage = (IF c.by = "router" THEN "router" ELSE "prepare")
        /\ cc.scopes = c.scopes /\ cc.decision = c.decision /\ cc.native = c.native /\ cc.body = c.body
        /\ cc.earlier = c.earlier /\ cc.at = c.at /\ cc.text = c.text /\ cc.model = c.model
        /\ cc.start = c.start /\ cc.step = c.step /\ cc.silent = c.silent
        /\ cc.busy = c.busy /\ cc.chain = c.chain /\ cc.edits = c.edits /\ cc.by = c.by
        /\ cc.route = c.route /\ cc.translated = c.translated
    BY <1>1, <1>2 DEF Fields
  <1>4. Shape(cc)
    BY <1>1, <1>3 DEF PipeInv, Form, Shape, Stages, NoRun
  <1>5. /\ spent' \in [Scopes -> Nat]
        /\ \A s \in Scopes : spent'[s] = IF s \in c.scopes THEN HookMicros(cc) ELSE 0
    <2>1. /\ spent' = [s \in Scopes |-> IF s \in c.scopes THEN spent[s] + c.run.micros ELSE spent[s]]
          /\ spent \in [Scopes -> Nat]
      BY DEF EndChain, Charge, PipeInv, Form
    <2>2. /\ \A s \in Scopes : spent[s] = IF s \in c.scopes THEN Charged ELSE 0
      BY <1>1 DEF PipeInv, Books
    <2>3. HookMicros(cc) = Charged + c.run.micros
      BY <1>1, <1>3 DEF PipeInv, Form, Shape, HookMicros, Charged
    <2> QED
      BY <1>1, <2>1, <2>2, <2>3
  <1>6. CASE CloseEarly(cc)
    BY <1>1, <1>3, <1>4, <1>5, <1>6, ChainFits, Closes
  <1>7. ASSUME NEW n, NEW b, c' = [cc EXCEPT !.edits = @ \cup c.run.edits, !.native = n, !.body = b],
               rows' = rows, c.run.stop # TRUE, ~gone, Edited(n, b)
        PROVE  PipeInv'
    <2>1. /\ DOMAIN c' = Fields /\ c'.filterMicros = cc.filterMicros /\ c'.run = NoRun
          /\ c'.ran = c.ran \cup c.run.ran /\ c'.applied = c.applied \cup c.run.applied
          /\ c'.stage = (IF c.by = "router" THEN "router" ELSE "prepare")
          /\ c'.scopes = c.scopes /\ c'.decision = c.decision /\ c'.native = n /\ c'.body = b
          /\ c'.earlier = c.earlier /\ c'.at = c.at /\ c'.text = c.text /\ c'.model = c.model
          /\ c'.start = c.start /\ c'.step = c.step /\ c'.silent = c.silent
          /\ c'.busy = c.busy /\ c'.chain = c.chain /\ c'.edits = c.edits \cup c.run.edits /\ c'.by = c.by
          /\ c'.route = c.route /\ c'.translated = c.translated
      BY <1>3, <1>7 DEF Fields
    <2>2. Shape(c')
      BY <1>4, <1>7, <1>3, <2>1 DEF Shape, Edited
    <2>3. Going
      BY <1>1, <1>7, <2>1 DEF Going, Under, OnWay, Fresh
    <2>4. /\ KeyFiltering' <=> KeyFiltering
          /\ InRouter' <=> InRouter
          /\ KeyFiltering <=> c.by # "router"
      BY <1>1, <2>1 DEF KeyFiltering, InRouter
    <2>5. Form' /\ Books' /\ Counts' /\ Paid'
      <3>1. Form'
        BY <1>1, <1>5, <2>2 DEF PipeInv, Form
      <3>2. rows = <<>> /\ ~c.silent
        BY <1>1 DEF PipeInv, Books
      <3>3. Charged' = HookMicros(cc)
        BY <1>3, <1>4, <2>1 DEF Charged, HookMicros, Shape
      <3>4. Books' /\ Paid'
        BY <1>5, <1>7, <2>1, <3>2, <3>3 DEF Books, Paid, Under, Fresh
      <3>5. Counts'
        BY <1>1, <2>1 DEF PipeInv, Counts, Fresh
      <3> QED
        BY <3>1, <3>4, <3>5
    <2>6. Sendings' /\ sent' = <<>>
      <3>1. KeyFiltering => IsSeq(c.chain) /\ c.chain # <<>> /\ (Len(c.chain) > 1 => Unbranching(c.chain))
        BY DEF PipeInv, Sendings
      <3>2. Unbranching(c.chain)' <=> Unbranching(c.chain)
        BY <2>1 DEF Unbranching
      <3> QED
        BY <2>1, <2>3, <2>4, <3>1, <3>2, StillUnsent
    <2>7. Ahead' /\ Chosen' /\ Credit'
      BY <1>1, <2>1, <2>4 DEF PipeInv, Ahead, Chosen, Credit, Fresh, Reach
    <2>8. Filtered'
      <3>1. /\ c.ran \ Shadow \subseteq c.applied /\ c.run.ran \ Shadow \subseteq c.run.applied
            /\ c.by # "router" /\ c.text = "some" =>
                 Elems(KeyFilters) \ Shadow \subseteq c.applied \cup c.run.applied
        BY <1>1, <1>7, NoElems DEF PipeInv, Filtered
      <3> QED
        BY <1>1, <2>1, <2>6, <3>1 DEF Filtered, OnWay
    <2>9. Bodied'
      <3>1. ASSUME KeyFiltering
            PROVE  /\ \A m \in Elems(c'.chain) : Right(m)'
                   /\ c'.native.here => c'.native.edits = c'.edits
                   /\ c'.native.here /\ (\E m \in Elems(c'.chain) : m \notin Native) => c'.translated
        <4>1. c.native.here /\ (\E m \in Elems(c.chain) : m \notin Native) => c.translated
          BY <3>1 DEF PipeInv, Bodied
        <4> QED
          BY <1>7, <2>1, <3>1, <4>1 DEF Edited, Right
      <3>2. ASSUME InRouter
            PROVE  /\ c'.native.here \/ c'.body.here
                   /\ c'.native.here => c'.native.edits = c'.edits
                   /\ c'.body.here => c'.body.edits = c'.edits
        BY <1>7, <2>1, <3>2 DEF Edited
      <3> QED
        BY <2>1, <2>4, <3>1, <3>2 DEF Bodied, OnWay
    <2> QED
      BY <2>5, <2>6, <2>7, <2>8, <2>9 DEF PipeInv
  \* It rewrote nothing.
  <1>8. CASE /\ ~(c.run.stop \/ gone) /\ c.run.edits = {} /\ rows' = rows
             /\ c' = [cc EXCEPT !.edits = @ \cup c.run.edits]
    <2>1. c' = [cc EXCEPT !.edits = @ \cup c.run.edits, !.native = c.native, !.body = c.body]
      BY <1>3, <1>8 DEF Fields
    <2>2. PICK n, b : n = c.native /\ b = c.body
      OBVIOUS
    <2>3. Edited(n, b)
      <3>1. c.edits \cup c.run.edits = c.edits /\ IsBody(c.native) /\ IsBody(c.body)
        BY <1>8 DEF PipeInv, Form, Shape
      <3>2. /\ InRouter => /\ c.native.here \/ c.body.here
                           /\ c.native.here => c.native.edits = c.edits
                           /\ c.body.here => c.body.edits = c.edits
            /\ KeyFiltering => /\ \A m \in Elems(c.chain) : Right(m)
                               /\ c.native.here => c.native.edits = c.edits
        BY DEF PipeInv, Bodied
      <3>3. InRouter \/ KeyFiltering
        BY <1>1 DEF InRouter, KeyFiltering
      <3> QED
        BY <2>2, <3>1, <3>2, <3>3 DEF Edited, Right
    <2> QED
      BY <1>7, <1>8, <2>1, <2>2, <2>3
  \* What it rewrote is in the body.
  <1>9. CASE /\ ~(c.run.stop \/ gone) /\ rows' = rows
             /\ LET added  == [c EXCEPT !.filterMicros = @ + c.run.micros, !.run = NoRun,
                                        !.ran = @ \cup c.run.ran, !.applied = @ \cup c.run.applied,
                                        !.stage = IF c.by = "router" THEN "router" ELSE "prepare"]
                    passed == [added EXCEPT !.edits = @ \cup c.run.edits]
                    edited == IF c.native.here
                                THEN [passed EXCEPT !.native.edits = @ \cup c.run.edits]
                                ELSE [passed EXCEPT !.body.edits = @ \cup c.run.edits]
                IN  c' = IF Outdated(edited) THEN Retranslated(edited) ELSE edited
    <2>1. PICK pp : pp = [cc EXCEPT !.edits = @ \cup c.run.edits]
      OBVIOUS
    <2>2. /\ pp.native = c.native /\ pp.body = c.body /\ DOMAIN pp = Fields /\ pp.by = c.by
          /\ pp.translated = c.translated
      BY <1>3, <2>1 DEF Fields
    <2> DEFINE e == c.run.edits
               edited == IF c.native.here THEN [pp EXCEPT !.native.edits = @ \cup e]
                                          ELSE [pp EXCEPT !.body.edits = @ \cup e]
               done   == IF Outdated(edited) THEN Retranslated(edited) ELSE edited
    <2>3. Edited(done.native, done.body) /\ done = [pp EXCEPT !.native = done.native, !.body = done.body]
      BY <1>1, <2>2, ChainEdits
    <2>4. c' = done
      BY <1>2, <1>9, <2>1
    <2> HIDE DEF done
    <2>5. PICK n, b : n = done.native /\ b = done.body
      OBVIOUS
    <2>6. c' = [cc EXCEPT !.edits = @ \cup c.run.edits, !.native = n, !.body = b]
      BY <1>3, <2>1, <2>3, <2>4, <2>5
    <2> QED
      BY <1>7, <1>9, <2>3, <2>5, <2>6
  <1>10. /\ c.run.stop \/ gone => CloseEarly(cc)
         /\ ~(c.run.stop \/ gone) /\ c.run.edits = {} => c' = [cc EXCEPT !.edits = @ \cup c.run.edits] /\ rows' = rows
    BY <1>2 DEF EndChain
  <1> QED
    BY <1>2, <1>6, <1>8, <1>9, <1>10 DEF EndChain

-----------------------------------------------------------------------------
(* Steps of the router.                                                    *)

LEMMA InSteps ==
  ASSUME PipeInv, c.stage \in {"router", "placed"}
  PROVE  /\ c.start \in StepIds /\ c.step \in StepIds /\ c.step \in StepsOf[c.start]
         /\ c.scopes \cap StepsOf[c.step] = {} /\ c.chain = <<>> /\ c.step \notin c.scopes
         /\ Under(c.stage) /\ ~OnWay(c.stage) /\ ~Fresh(c.stage) /\ InRouter /\ DOMAIN c = Fields
         /\ c.start # NoStep
  <1>1. InRouter /\ Under(c.stage) /\ ~OnWay(c.stage) /\ ~Fresh(c.stage)
    BY DEF InRouter, Under, OnWay, Fresh
  <1>2. /\ c.start \in StepIds /\ c.step \in StepsOf[c.start] /\ c.scopes \cap StepsOf[c.step] = {}
        /\ c.chain = <<>> /\ DOMAIN c = Fields
    BY <1>1 DEF PipeInv, Ahead, Credit, Form, Shape
  <1>3. c.step \in StepIds
    BY <1>2, StepsFollow
  <1>4. c.step \in StepsOf[c.step]
    BY <1>3, StepsFollow
  <1> QED
    BY <1>1, <1>2, <1>3, <1>4, PipelineAssumption DEF PipelineAssumption

\* The request goes on to another step of its router.
LEMMA RouterMoves ==
  ASSUME PipeInv, c.stage \in {"router", "placed"},
         c'.stage = "router" \/ (c'.stage = "filter" /\ c'.by = "router"),
         c'.start = c.start, c'.silent = c.silent, c'.busy = c.busy, c'.chain = c.chain, c'.at = c.at,
         c'.edits = c.edits, c'.native = c.native, c'.body = c.body, c'.ran = c.ran,
         c'.applied = c.applied, c'.text = c.text,
         c'.step \in StepsOf[c.step], c'.scopes \subseteq c.scopes \cup {c.step},
         c.step \in c'.scopes => c.step \notin StepsOf[c'.step],
         held' = held, gone' = gone, sent' = sent, inflight' = inflight, rows' = rows, up' = up,
         c'.stage = "filter" => c'.run.ran \ Shadow \subseteq c'.run.applied
  PROVE  Ahead' /\ Chosen' /\ Credit' /\ Filtered' /\ Bodied' /\ Sendings' /\ Going
  <1>1. /\ c.start \in StepIds /\ c.step \in StepIds /\ c.step \in StepsOf[c.start]
        /\ c.scopes \cap StepsOf[c.step] = {} /\ c.chain = <<>> /\ InRouter /\ c.start # NoStep
    BY InSteps
  <1>2. Going
    BY DEF Going, Under, OnWay, Fresh
  <1>3. InRouter' /\ ~KeyFiltering' /\ ~Fresh(c'.stage)
    BY DEF InRouter, KeyFiltering, Fresh
  <1>4. Ahead'
    <2>1. StepsOf[c.step] \subseteq StepsOf[c.start] /\ StepsOf[c'.step] \subseteq StepsOf[c.step]
      BY <1>1, StepsFollow
    <2> QED
      BY <1>1, <1>3, <2>1 DEF Ahead
  <1>5. Chosen'
    BY <1>3 DEF Chosen
  <1>6. Credit'
    <2>1. Reach' = Reach
      BY <1>1 DEF Reach
    <2>2. Elems(c'.chain) = {}
      BY <1>1, NoElems
    <2>3. Reach \cap OnKey # {} => held
      BY <1>1 DEF PipeInv, Credit
    <2> QED
      BY <1>1, <2>1, <2>2, <2>3 DEF Credit
  <1>7. Sendings' /\ sent' = <<>>
    BY <1>2, <1>3, StillUnsent
  <1>8. Filtered'
    BY <1>7 DEF PipeInv, Filtered, Under, OnWay
  <1>9. Bodied'
    <2>1. /\ c.native.here \/ c.body.here
          /\ c.native.here => c.native.edits = c.edits
          /\ c.body.here => c.body.edits = c.edits
      BY <1>1 DEF PipeInv, Bodied
    <2> QED
      BY <1>3, <2>1 DEF Bodied, OnWay
  <1> QED
    BY <1>2, <1>4, <1>5, <1>6, <1>7, <1>8, <1>9

LEMMA RouterFiltersKeeps ==
  ASSUME PipeInv, RouterFilters
  PROVE  PipeInv'
  <1>1. /\ c.stage = "router" /\ running' = running /\ held' = held /\ inflight' = inflight
        /\ spent' = spent /\ up' = up /\ gone' = gone /\ sent' = sent /\ rows' = rows
    BY DEF RouterFilters, AtStep, server, world
  <1>2. c.step \in StepIds /\ DOMAIN c = Fields
    BY <1>1, InSteps
  <1>3. PICK r : r = [NoRun EXCEPT !.stop = FilterRow[c.step] # <<>> /\ c.text = "unreadable"]
    OBVIOUS
  <1>4. /\ DOMAIN r = {"micros", "stop", "edits", "ran", "applied"} /\ r.micros = 0
        /\ r.ran = {} /\ r.applied = {}
    BY <1>3 DEF NoRun
  <1>5. PICK q : q = IF c.text = "some" THEN FilterRow[c.step] ELSE <<>>
    OBVIOUS
  <1>6. c' = [c EXCEPT !.step = AfterRow[c.step], !.stage = "filter", !.by = "router",
                       !.queue = q, !.run = r]
    BY <1>2, <1>3, <1>5 DEF RouterFilters, StartChain, Fields
  <1>7. /\ DOMAIN c' = Fields /\ c'.stage = "filter" /\ c'.by = "router" /\ c'.run = r
        /\ c'.step = AfterRow[c.step]
        /\ c'.start = c.start /\ c'.silent = c.silent /\ c'.busy = c.busy /\ c'.chain = c.chain
        /\ c'.at = c.at /\ c'.edits = c.edits /\ c'.native = c.native /\ c'.body = c.body
        /\ c'.ran = c.ran /\ c'.applied = c.applied /\ c'.text = c.text /\ c'.scopes = c.scopes
        /\ c'.decision = c.decision /\ c'.filterMicros = c.filterMicros /\ c'.earlier = c.earlier
    BY <1>2, <1>6 DEF Fields
  <1>8. c'.step \in StepsOf[c.step]
    BY <1>2, <1>7, AfterRowIn
  <1>9. Ahead' /\ Chosen' /\ Credit' /\ Filtered' /\ Bodied' /\ Sendings' /\ Going
    <2>1. c.step \notin c'.scopes /\ c'.scopes \subseteq c.scopes \cup {c.step}
      BY <1>1, <1>7, InSteps
    <2>2. c'.run.ran \ Shadow \subseteq c'.run.applied
      BY <1>4, <1>7
    <2> QED
      BY <1>1, <1>7, <1>8, <2>1, <2>2, RouterMoves
  <1>10. Shape(c')
    BY <1>4, <1>7 DEF PipeInv, Form, Shape, Stages
  <1>11. Charged' = Charged
    BY <1>1, <1>7 DEF Charged
  <1>12. Form' /\ Books' /\ Counts' /\ Paid'
    BY <1>1, <1>7, <1>9, <1>10, <1>11, Moves
  <1> QED
    BY <1>9, <1>12 DEF PipeInv

\* A step whose next step comes as it is.
LEMMA GoesOn ==
  ASSUME PipeInv, c.stage = "router", NEW y \in After(c.step), NEW p,
         c' = [c EXCEPT !.prompted = p, !.step = y], UNCHANGED <<server, world, sent, rows>>
  PROVE  PipeInv'
  <1>1. /\ running' = running /\ held' = held /\ inflight' = inflight
        /\ spent' = spent /\ up' = up /\ gone' = gone /\ sent' = sent /\ rows' = rows
    BY DEF server, world
  <1>2. c.step \in StepIds /\ DOMAIN c = Fields /\ c.step \notin c.scopes
    BY <1>1, InSteps
  <1>3. /\ DOMAIN c' = Fields /\ c'.stage = "router" /\ c'.run = c.run /\ c'.step = y
        /\ c'.start = c.start /\ c'.silent = c.silent /\ c'.busy = c.busy /\ c'.chain = c.chain
        /\ c'.at = c.at /\ c'.edits = c.edits /\ c'.native = c.native /\ c'.body = c.body
        /\ c'.ran = c.ran /\ c'.applied = c.applied /\ c'.text = c.text /\ c'.scopes = c.scopes
        /\ c'.decision = c.decision /\ c'.filterMicros = c.filterMicros /\ c'.earlier = c.earlier
    BY <1>2 DEF Fields
  <1>4. c'.step \in StepsOf[c.step]
    BY <1>2, <1>3, NotAgain
  <1>5. Ahead' /\ Chosen' /\ Credit' /\ Filtered' /\ Bodied' /\ Sendings' /\ Going
    <2>1. c.step \notin c'.scopes /\ c'.scopes \subseteq c.scopes \cup {c.step}
      BY <1>2, <1>3
    <2> QED
      BY <1>1, <1>3, <1>4, <2>1, RouterMoves
  <1>6. Shape(c')
    BY <1>3 DEF PipeInv, Form, Shape, Stages
  <1>7. Charged' = Charged
    BY <1>3 DEF Charged
  <1>8. Form' /\ Books' /\ Counts' /\ Paid'
    BY <1>1, <1>3, <1>5, <1>6, <1>7, Moves
  <1> QED
    BY <1>5, <1>8 DEF PipeInv

LEMMA RouterPromptKeeps ==
  ASSUME PipeInv, RouterPrompt
  PROVE  PipeInv'
  <1>1. /\ c.stage = "router" /\ Steps[c.step].kind = "prompt"
        /\ c' = [c EXCEPT !.prompted = TRUE, !.step = Steps[c.step].next]
        /\ UNCHANGED <<server, world, sent, rows>>
    BY DEF RouterPrompt, AtStep
  <1>2. c.step \in StepIds
    BY <1>1, InSteps
  <1>3. Steps[c.step].next \in After(c.step)
    BY <1>1, <1>2 DEF After
  <1>4. PICK y, p : y = Steps[c.step].next /\ p = TRUE
    OBVIOUS
  <1>5. y \in After(c.step) /\ c' = [c EXCEPT !.prompted = p, !.step = y]
    BY <1>1, <1>3, <1>4
  <1> QED
    BY <1>1, <1>5, GoesOn

LEMMA RouterUnknownKeeps ==
  ASSUME PipeInv, RouterUnknown
  PROVE  PipeInv'
  <1>1. /\ c.stage = "router" /\ CloseEarly(c)
        /\ running' = running /\ held' = held /\ inflight' = inflight
        /\ spent' = spent /\ up' = up /\ gone' = gone /\ sent' = sent
    BY DEF RouterUnknown, AtStep, server, world
  <1> QED
    BY <1>1, ClosesNow DEF Under, OnWay

\* A limit is passed.
LEMMA LimitPassed ==
  ASSUME PipeInv, c.stage = "router", Steps[c.step].kind = "limit",
         c' = [c EXCEPT !.scopes = @ \cup {c.step}, !.step = Steps[c.step].next],
         Charge({c.step}, HookMicros(c)),
         running' = IF c.step \in Counted THEN [running EXCEPT ![c.step] = @ + 1] ELSE running,
         UNCHANGED rows, UNCHANGED <<held, inflight, world, sent>>
  PROVE  PipeInv'
  <1>1. held' = held /\ inflight' = inflight /\ up' = up /\ gone' = gone /\ sent' = sent /\ rows' = rows
    BY DEF world
  <1>2. c.step \in StepIds /\ DOMAIN c = Fields /\ c.step \notin c.scopes
    BY <1>1, InSteps
  <1>3. /\ DOMAIN c' = Fields /\ c'.stage = "router" /\ c'.run = c.run /\ c'.step = Steps[c.step].next
        /\ c'.start = c.start /\ c'.silent = c.silent /\ c'.busy = c.busy /\ c'.chain = c.chain
        /\ c'.at = c.at /\ c'.edits = c.edits /\ c'.native = c.native /\ c'.body = c.body
        /\ c'.ran = c.ran /\ c'.applied = c.applied /\ c'.text = c.text
        /\ c'.scopes = c.scopes \cup {c.step}
        /\ c'.decision = c.decision /\ c'.filterMicros = c.filterMicros /\ c'.earlier = c.earlier
    BY <1>2 DEF Fields
  <1>4. c.step \in Limits /\ c.step \in Scopes /\ Steps[c.step].next \in After(c.step)
    <2>1. Steps[c.step].next \in StepIds /\ NoStep \notin StepIds
      BY <1>2, PipelineAssumption DEF PipelineAssumption
    <2> QED
      BY <1>2, <2>1 DEF Limits, Scopes, After
  <1>5. c'.step \in StepsOf[c.step] /\ c.step \notin StepsOf[c'.step]
    BY <1>2, <1>3, <1>4, NotAgain
  <1>6. Ahead' /\ Chosen' /\ Credit' /\ Filtered' /\ Bodied' /\ Sendings' /\ Going
    <2>1. c'.scopes \subseteq c.scopes \cup {c.step}
      BY <1>3
    <2> QED
      BY <1>1, <1>3, <1>5, <2>1, RouterMoves
  <1>7. Form'
    <2>1. Shape(c')
      BY <1>3, <1>4 DEF PipeInv, Form, Shape, Stages
    <2>2. spent \in [Scopes -> Nat] /\ running \in [Counted -> Nat] /\ HookMicros(c) \in Nat
      BY DEF PipeInv, Form, Shape, HookMicros
    <2>3. spent' \in [Scopes -> Nat]
      BY <2>2 DEF Charge
    <2>4. running' \in [Counted -> Nat]
      BY <2>2
    <2> QED
      BY <1>1, <2>1, <2>3, <2>4 DEF PipeInv, Form
  <1>8. Counts'
    <2>1. /\ \A s \in Counted : running[s] = IF s \in c.scopes THEN 1 ELSE 0
          /\ \A m \in Models : inflight[m] = 0
          /\ c.busy = NoModel /\ running \in [Counted -> Nat]
      BY DEF PipeInv, Counts, Form
    <2>2. ASSUME NEW s \in Counted
          PROVE  running'[s] = IF s \in c'.scopes THEN 1 ELSE 0
      BY <1>2, <1>3, <2>1
    <2> QED
      BY <1>1, <1>3, <2>1, <2>2 DEF Counts, Fresh
  <1>9. Books' /\ Paid'
    <2>1. rows = <<>> /\ ~c.silent /\ (\A s \in Scopes : spent[s] = IF s \in c.scopes THEN Charged ELSE 0)
      BY DEF PipeInv, Books, Under
    <2>2. HookMicros(c) = Charged /\ Charged' = Charged /\ Charged \in Nat
      BY <1>3 DEF PipeInv, Form, Shape, HookMicros, Charged
    <2>3. ASSUME NEW s \in Scopes
          PROVE  spent'[s] = IF s \in c'.scopes THEN Charged ELSE 0
      BY <1>2, <1>3, <2>1, <2>2 DEF Charge
    <2> QED
      BY <1>1, <1>3, <2>1, <2>2, <2>3 DEF Books, Paid, Under, Fresh
  <1> QED
    BY <1>6, <1>7, <1>8, <1>9 DEF PipeInv

LEMMA RouterLimitKeeps ==
  ASSUME PipeInv, RouterLimit
  PROVE  PipeInv'
  <1>1. c.stage = "router" /\ Steps[c.step].kind = "limit" /\ UNCHANGED <<held, inflight, world, sent>>
    BY DEF RouterLimit, AtStep
  <1>2. CASE /\ c' = [c EXCEPT !.scopes = @ \cup {c.step}, !.step = Steps[c.step].next]
             /\ Charge({c.step}, HookMicros(c))
             /\ running' = IF c.step \in Counted THEN [running EXCEPT ![c.step] = @ + 1] ELSE running
             /\ UNCHANGED rows
    BY <1>1, <1>2, LimitPassed
  <1>3. CASE CloseEarly(c) /\ UNCHANGED <<spent, running>>
    BY <1>1, <1>3, ClosesNow DEF world, Under, OnWay
  <1>4. CASE /\ Steps[c.step].exceeded # NoStep
             /\ c' = [c EXCEPT !.step = Steps[c.step].exceeded] /\ UNCHANGED rows
             /\ UNCHANGED <<spent, running>>
    <2>1. c.step \in StepIds /\ DOMAIN c = Fields
      BY <1>1, InSteps
    <2>2. Steps[c.step].exceeded \in After(c.step)
      BY <1>1, <1>4, <2>1 DEF After
    <2>3. PICK y, p : y = Steps[c.step].exceeded /\ p = c.prompted
      OBVIOUS
    <2>4. c' = [c EXCEPT !.prompted = p, !.step = y] /\ y \in After(c.step)
      BY <1>4, <2>1, <2>2, <2>3 DEF Fields
    <2> QED
      BY <1>1, <1>4, <2>4, GoesOn DEF server
  <1> QED
    BY <1>2, <1>3, <1>4 DEF RouterLimit

-----------------------------------------------------------------------------
(* The end of the router, and route steps.                                 *)

\* The router has come to a model.
LEMMA ToPlace ==
  ASSUME PipeInv, c.stage \in {"router", "placed"}, c'.stage = "place",
         c'.start = c.start, c'.silent = c.silent, c'.busy = c.busy, c'.chain = c.chain, c'.at = c.at,
         c'.edits = c.edits, c'.native = c.native, c'.body = c.body, c'.ran = c.ran,
         c'.applied = c.applied, c'.text = c.text, c'.scopes = c.scopes,
         IsSeq(c'.decision.chain), Unbranching(c.decision.chain)', c'.model \in Reaches(c.start),
         Elems(c'.decision.chain) \subseteq Reaches(c.start),
         held' = held, gone' = gone, sent' = sent, inflight' = inflight, rows' = rows, up' = up
  PROVE  Ahead' /\ Chosen' /\ Credit' /\ Filtered' /\ Bodied' /\ Sendings' /\ Going
  <1>1. c.start \in StepIds /\ c.chain = <<>> /\ InRouter /\ c.start # NoStep
    BY InSteps
  <1>2. Going
    BY DEF Going, Under, OnWay, Fresh
  <1>3. ~InRouter' /\ ~KeyFiltering' /\ ~Fresh(c'.stage)
    BY DEF InRouter, KeyFiltering, Fresh
  <1>4. Reach' = Reach /\ Reach = Reaches(c.start)
    BY <1>1 DEF Reach
  <1>5. Ahead' /\ Chosen'
    BY <1>1, <1>3, <1>4 DEF Ahead, Chosen
  <1>6. Credit'
    <2>1. Elems(c'.chain) = {}
      BY <1>1, NoElems
    <2>2. Reach \cap OnKey # {} => held
      BY <1>1 DEF PipeInv, Credit
    <2> QED
      BY <1>1, <1>4, <2>1, <2>2 DEF Credit
  <1>7. Sendings' /\ sent' = <<>>
    BY <1>2, <1>3, StillUnsent
  <1>8. Filtered'
    BY <1>7 DEF PipeInv, Filtered, Under, OnWay
  <1>9. Bodied'
    <2>1. /\ c.native.here \/ c.body.here
          /\ c.native.here => c.native.edits = c.edits
          /\ c.body.here => c.body.edits = c.edits
      BY <1>1 DEF PipeInv, Bodied
    <2> QED
      BY <1>3, <2>1 DEF Bodied, OnWay
  <1> QED
    BY <1>2, <1>5, <1>6, <1>7, <1>8, <1>9

LEMMA RouterModelKeeps ==
  ASSUME PipeInv, RouterModel
  PROVE  PipeInv'
  <1>1. /\ c.stage = "router" /\ Steps[c.step].kind = "model"
        /\ running' = running /\ held' = held /\ inflight' = inflight
        /\ spent' = spent /\ up' = up /\ gone' = gone /\ sent' = sent
    BY DEF RouterModel, AtStep, server, world
  <1>2. CASE CloseEarly(c)
    BY <1>1, <1>2, ClosesNow DEF Under, OnWay
  <1>3. CASE /\ c' = [c EXCEPT !.model = Steps[c.step].ref, !.decision.chain = <<>>, !.stage = "place"]
             /\ rows' = rows
    <2>1. DOMAIN c = Fields /\ c.start \in StepIds /\ c.step \in StepsOf[c.start]
      BY <1>1, InSteps
    <2>2. DOMAIN c.decision = {"alias", "chain", "micros", "refused"}
      BY DEF PipeInv, Form, Shape
    <2>3. PICK d : d = [c.decision EXCEPT !.chain = <<>>]
      OBVIOUS
    <2>4. DOMAIN d = {"alias", "chain", "micros", "refused"} /\ d.chain = <<>> /\ d.micros = c.decision.micros
      BY <2>2, <2>3
    <2>5. c' = [c EXCEPT !.model = Steps[c.step].ref, !.decision = d, !.stage = "place"]
      BY <1>3, <2>3
    <2>6. /\ DOMAIN c' = Fields /\ c'.stage = "place" /\ c'.run = c.run /\ c'.model = Steps[c.step].ref
          /\ c'.start = c.start /\ c'.silent = c.silent /\ c'.busy = c.busy /\ c'.chain = c.chain
          /\ c'.at = c.at /\ c'.edits = c.edits /\ c'.native = c.native /\ c'.body = c.body
          /\ c'.ran = c.ran /\ c'.applied = c.applied /\ c'.text = c.text /\ c'.scopes = c.scopes
          /\ c'.decision = d /\ c'.filterMicros = c.filterMicros /\ c'.earlier = c.earlier
      BY <2>1, <2>5 DEF Fields
    <2>7. /\ IsSeq(c'.decision.chain) /\ Elems(c'.decision.chain) = {}
          /\ Unbranching(c.decision.chain)' /\ c'.model \in Reaches(c.start)
      BY <1>1, <2>1, <2>4, <2>6, NoElems, Reached DEF Unbranching
    <2>8. Ahead' /\ Chosen' /\ Credit' /\ Filtered' /\ Bodied' /\ Sendings' /\ Going
      BY <1>1, <1>3, <2>6, <2>7, ToPlace
    <2>9. Shape(c')
      BY <2>4, <2>6 DEF PipeInv, Form, Shape, Stages
    <2>10. Charged' = Charged
      BY <1>1, <2>4, <2>6 DEF Charged
    <2>11. Form' /\ Books' /\ Counts' /\ Paid'
      BY <1>1, <2>6, <2>8, <2>9, <2>10, Moves
    <2> QED
      BY <2>8, <2>11 DEF PipeInv
  <1> QED
    BY <1>2, <1>3 DEF RouterModel

LEMMA RouterRouteKeeps ==
  ASSUME PipeInv, RouterRoute
  PROVE  PipeInv'
  <1>1. /\ c.stage = "router" /\ Steps[c.step].kind = "route"
        /\ running' = running /\ held' = held /\ inflight' = inflight
        /\ spent' = spent /\ up' = up /\ gone' = gone /\ sent' = sent
    BY DEF RouterRoute, AtStep, server, world
  <1>2. /\ DOMAIN c = Fields /\ c.start \in StepIds /\ c.step \in StepsOf[c.start] /\ c.step \in StepIds
        /\ c.chain = <<>> /\ Under(c.stage) /\ ~OnWay(c.stage) /\ InRouter /\ c.start # NoStep
    BY <1>1, InSteps
  <1>3. PICK cc : cc = [c EXCEPT !.earlier = @ + c.decision.micros, !.decision = Undecided, !.route = c.step]
    OBVIOUS
  <1>4. /\ DOMAIN cc = Fields /\ cc.stage = "router" /\ cc.run = c.run /\ cc.model = c.model
        /\ cc.start = c.start /\ cc.silent = c.silent /\ cc.busy = c.busy /\ cc.chain = c.chain
        /\ cc.at = c.at /\ cc.edits = c.edits /\ cc.native = c.native /\ cc.body = c.body
        /\ cc.ran = c.ran /\ cc.applied = c.applied /\ cc.text = c.text /\ cc.scopes = c.scopes
        /\ cc.decision = Undecided /\ cc.filterMicros = c.filterMicros
        /\ cc.earlier = c.earlier + c.decision.micros /\ cc.route = c.step /\ cc.step = c.step
    BY <1>1, <1>2, <1>3 DEF Fields
  <1>5. Shape(cc)
    BY <1>4 DEF PipeInv, Form, Shape, Stages, Undecided
  <1>6. HookMicros(cc) = HookMicros(c) /\ HookMicros(c) = Charged
    BY <1>1, <1>4 DEF PipeInv, Form, Shape, Undecided, HookMicros, Charged
  <1>7. CASE CloseEarly(cc)
    <2>1. /\ spent' \in [Scopes -> Nat]
          /\ \A s \in Scopes : spent'[s] = IF s \in c.scopes THEN HookMicros(cc) ELSE 0
      BY <1>1, <1>2, <1>6 DEF PipeInv, Form, Books
    <2>2. /\ Elems(cc.chain) \cap OnKey # {} => held'
          /\ Len(cc.chain) > 1 => \A m \in Elems(cc.chain) : Steps[cc.route].branches[m] = NoStep
      BY <1>2, <1>4, NoElems
    <2> QED
      BY <1>1, <1>2, <1>4, <1>5, <1>7, <2>1, <2>2, Closes
  <1>8. ASSUME NEW b, b = c.body \/ (b = c.native /\ ~c.body.here), NEW d \in Routed(Steps[c.step], c.text),
               c' = [cc EXCEPT !.body = b, !.decision = d, !.stage = "placed"], rows' = rows
        PROVE  PipeInv'
    <2>1. Decision(c.step, d)
      BY <1>1, <1>2, <1>8, RoutedIs
    <2>2. /\ DOMAIN c' = Fields /\ c'.stage = "placed" /\ c'.run = c.run /\ c'.model = c.model
          /\ c'.start = c.start /\ c'.silent = c.silent /\ c'.busy = c.busy /\ c'.chain = c.chain
          /\ c'.at = c.at /\ c'.edits = c.edits /\ c'.native = c.native /\ c'.body = b
          /\ c'.ran = c.ran /\ c'.applied = c.applied /\ c'.text = c.text /\ c'.scopes = c.scopes
          /\ c'.decision = d /\ c'.filterMicros = c.filterMicros
          /\ c'.earlier = cc.earlier /\ c'.route = c.step /\ c'.step = c.step
      BY <1>4, <1>8 DEF Fields
    <2>3. Shape(c')
      <3>1. IsBody(b)
        BY <1>8 DEF PipeInv, Form, Shape
      <3> QED
        BY <1>4, <1>5, <2>1, <2>2, <3>1 DEF Shape, Stages, Decision
    <2>4. Going
      BY <1>1, <1>8, <2>2 DEF Going, Under, OnWay, Fresh
    <2>5. Form' /\ Books' /\ Counts' /\ Paid'
      <3>1. Charged' = Charged
        BY <1>1, <1>4, <2>2 DEF PipeInv, Form, Shape, Charged
      <3> QED
        BY <1>1, <2>2, <2>3, <2>4, <3>1, Moves
    <2>6. InRouter' /\ ~KeyFiltering' /\ ~Fresh(c'.stage)
      BY <2>2 DEF InRouter, KeyFiltering, Fresh
    <2>7. Ahead'
      BY <1>2, <2>2, <2>6 DEF PipeInv, Ahead
    <2>8. Chosen'
      BY <1>1, <2>1, <2>2, <2>6 DEF Chosen, Decision
    <2>9. Credit'
      <3>1. Reach' = Reach
        BY <1>2, <2>2 DEF Reach
      <3> QED
        BY <1>1, <1>2, <2>2, <3>1, NoElems DEF PipeInv, Credit
    <2>10. Sendings' /\ sent' = <<>>
      BY <2>4, <2>6, StillUnsent
    <2>11. Filtered'
      BY <1>1, <1>2, <2>2, <2>10 DEF PipeInv, Filtered, OnWay
    <2>12. Bodied'
      <3>1. /\ c.native.here \/ c.body.here
            /\ c.native.here => c.native.edits = c.edits
            /\ c.body.here => c.body.edits = c.edits
        BY <1>2 DEF PipeInv, Bodied
      <3> QED
        BY <1>8, <2>2, <2>6, <3>1 DEF Bodied, OnWay
    <2> QED
      BY <2>5, <2>7, <2>8, <2>9, <2>10, <2>11, <2>12 DEF PipeInv
  <1>9. CASE \E d \in Routed(Steps[c.step], c.text) :
               /\ \/ c' = [cc EXCEPT !.decision = d, !.stage = "placed"]
                  \/ c' = [Translated(cc) EXCEPT !.decision = d, !.stage = "placed"]
               /\ rows' = rows
    <2>1. PICK d \in Routed(Steps[c.step], c.text) :
               /\ \/ c' = [cc EXCEPT !.decision = d, !.stage = "placed"]
                  \/ c' = [Translated(cc) EXCEPT !.decision = d, !.stage = "placed"]
               /\ rows' = rows
      BY <1>9
    <2>2. CASE \/ c' = [cc EXCEPT !.decision = d, !.stage = "placed"]
               \/ c.body.here
      <3>1. c' = [cc EXCEPT !.decision = d, !.stage = "placed"]
        BY <1>4, <2>1, <2>2 DEF Translated
      <3>2. PICK b : b = c.body
        OBVIOUS
      <3>3. c' = [cc EXCEPT !.body = b, !.decision = d, !.stage = "placed"]
        BY <1>4, <3>1, <3>2 DEF Fields
      <3> QED
        BY <1>8, <2>1, <3>2, <3>3
    <2>3. CASE ~c.body.here /\ c' = [Translated(cc) EXCEPT !.decision = d, !.stage = "placed"]
      <3>1. PICK b : b = c.native
        OBVIOUS
      <3>2. c' = [cc EXCEPT !.body = b, !.decision = d, !.stage = "placed"]
        BY <1>4, <2>3, <3>1 DEF Translated, Fields
      <3> QED
        BY <1>8, <2>1, <2>3, <3>1, <3>2
    <2> QED
      BY <2>1, <2>2, <2>3
  <1> QED
    BY <1>3, <1>7, <1>9 DEF RouterRoute

LEMMA PlacedKeeps ==
  ASSUME PipeInv, Placed
  PROVE  PipeInv'
  <1>1. /\ c.stage = "placed" /\ running' = running /\ held' = held /\ inflight' = inflight
        /\ up' = up /\ gone' = gone /\ sent' = sent
    BY DEF Placed, world
  <1>2. /\ DOMAIN c = Fields /\ c.start \in StepIds /\ c.step \in StepsOf[c.start] /\ c.step \in StepIds
        /\ c.chain = <<>> /\ Under(c.stage) /\ ~OnWay(c.stage) /\ InRouter /\ c.start # NoStep
        /\ c.step \notin c.scopes
    BY <1>1, InSteps
  <1>3. /\ c.route = c.step /\ Steps[c.step].kind = "route"
        /\ IsSeq(c.decision.chain)
        /\ Elems(c.decision.chain) \subseteq Elems(Steps[c.step].dests)
        /\ c.decision.alias \in Elems(Steps[c.step].dests) \cup {NoModel}
    BY <1>1 DEF PipeInv, Chosen
  <1>4. /\ spent' \in [Scopes -> Nat]
        /\ \A s \in Scopes : spent'[s] = IF s \in c.scopes THEN HookMicros(c) ELSE 0
    <2>1. /\ spent' = [s \in Scopes |-> IF s \in c.scopes THEN spent[s] + c.decision.micros ELSE spent[s]]
          /\ spent \in [Scopes -> Nat] /\ c.decision.micros \in Nat
      BY DEF Placed, Charge, PipeInv, Form, Shape
    <2>2. /\ \A s \in Scopes : spent[s] = IF s \in c.scopes THEN Charged ELSE 0
      BY <1>2 DEF PipeInv, Books
    <2>3. HookMicros(c) = Charged + c.decision.micros
      BY <1>1 DEF PipeInv, Form, Shape, HookMicros, Charged
    <2> QED
      BY <2>1, <2>2, <2>3
  <1>5. CASE CloseEarly(c)
    <2>1. PICK cc : cc = c
      OBVIOUS
    <2>2. Shape(cc) /\ CloseEarly(cc)
      BY <1>5, <2>1 DEF PipeInv, Form
    <2> QED
      BY <1>1, <1>2, <1>4, <2>1, <2>2, ChainFits, Closes
  <1>6. ASSUME Going, Shape(c'), c'.scopes = c.scopes, c'.stage # "placed", ~Fresh(c'.stage),
               c'.decision.micros = c.decision.micros, c'.filterMicros = c.filterMicros, c'.earlier = c.earlier
        PROVE  Form' /\ Books' /\ Counts' /\ Paid'
    <2>1. Form'
      BY <1>1, <1>4, <1>6 DEF PipeInv, Form
    <2>2. Charged' = HookMicros(c)
      BY <1>6 DEF PipeInv, Form, Shape, Charged, HookMicros
    <2>3. rows = <<>> /\ ~c.silent
      BY <1>1, <1>2 DEF PipeInv, Books
    <2>4. Books' /\ Paid'
      BY <1>4, <1>6, <2>2, <2>3 DEF Books, Paid, Going
    <2>5. Counts'
      BY <1>1, <1>6 DEF PipeInv, Counts, Going, Under, OnWay
    <2> QED
      BY <2>1, <2>4, <2>5
  <1>7. CASE rows' = rows /\ Serveable(c.decision.alias)
    <2>1. PICK m : m = c.decision.alias
      OBVIOUS
    <2>2. m \in Models /\ m \in Elems(Steps[c.step].dests)
      BY <1>3, <1>7, <2>1, PipelineAssumption DEF PipelineAssumption, Serveable, PipeInv, Form
    <2>3. CASE /\ Steps[c.step].branches[m] # NoStep
               /\ c' = [c EXCEPT !.model = m, !.step = Steps[c.step].branches[m], !.stage = "router"]
      <3>1. /\ DOMAIN c' = Fields /\ c'.stage = "router" /\ c'.run = c.run /\ c'.model = m
            /\ c'.start = c.start /\ c'.silent = c.silent /\ c'.busy = c.busy /\ c'.chain = c.chain
            /\ c'.at = c.at /\ c'.edits = c.edits /\ c'.native = c.native /\ c'.body = c.body
            /\ c'.ran = c.ran /\ c'.applied = c.applied /\ c'.text = c.text /\ c'.scopes = c.scopes
            /\ c'.decision = c.decision /\ c'.filterMicros = c.filterMicros
            /\ c'.earlier = c.earlier /\ c'.route = c.route /\ c'.step = Steps[c.step].branches[m]
        BY <1>2, <2>3 DEF Fields
      <3>2. Steps[c.step].branches[m] \in After(c.step)
        BY <1>3, <2>2, <2>3 DEF After
      <3>3. c'.step \in StepsOf[c.step]
        BY <1>2, <3>1, <3>2, NotAgain
      <3>4. c.step \notin c'.scopes /\ c'.scopes \subseteq c.scopes \cup {c.step}
        BY <1>2, <3>1
      <3>5. Ahead' /\ Chosen' /\ Credit' /\ Filtered' /\ Bodied' /\ Sendings' /\ Going
        BY <1>1, <1>7, <3>1, <3>3, <3>4, RouterMoves
      <3>6. Shape(c')
        BY <3>1 DEF PipeInv, Form, Shape, Stages
      <3>7. Form' /\ Books' /\ Counts' /\ Paid'
        BY <1>6, <3>1, <3>5, <3>6 DEF Fresh
      <3> QED
        BY <3>5, <3>7 DEF PipeInv
    <2>4. CASE /\ Steps[c.step].branches[m] = NoStep
               /\ c' = [c EXCEPT !.model = m, !.step = NoStep, !.stage = "place",
                                 !.decision.chain = Unbranched(@, Steps[c.step].branches)]
      <3>1. PICK q : q = Unbranched(c.decision.chain, Steps[c.step].branches)
        OBVIOUS
      <3>2. PICK d : d = [c.decision EXCEPT !.chain = q]
        OBVIOUS
      <3>3. DOMAIN d = {"alias", "chain", "micros", "refused"} /\ d.chain = q /\ d.micros = c.decision.micros
        BY <3>2 DEF PipeInv, Form, Shape
      <3>4. c' = [c EXCEPT !.model = m, !.step = NoStep, !.stage = "place", !.decision = d]
        BY <2>4, <3>1, <3>2
      <3>5. /\ DOMAIN c' = Fields /\ c'.stage = "place" /\ c'.run = c.run /\ c'.model = m
            /\ c'.start = c.start /\ c'.silent = c.silent /\ c'.busy = c.busy /\ c'.chain = c.chain
            /\ c'.at = c.at /\ c'.edits = c.edits /\ c'.native = c.native /\ c'.body = c.body
            /\ c'.ran = c.ran /\ c'.applied = c.applied /\ c'.text = c.text /\ c'.scopes = c.scopes
            /\ c'.decision = d /\ c'.filterMicros = c.filterMicros
            /\ c'.earlier = c.earlier /\ c'.route = c.route
        BY <1>2, <3>4 DEF Fields
      <3>6. PICK set : set = {x \in Models : Steps[c.step].branches[x] = NoStep}
        OBVIOUS
      <3>7. IsSeq(q) /\ Elems(q) = Elems(c.decision.chain) \cap set
        BY <1>3, <3>1, <3>6, KeptIs DEF Unbranched
      <3>8. \A x \in Elems(q) : x \in Elems(Steps[c.step].dests) /\ Steps[c.step].branches[x] = NoStep
        BY <1>3, <3>6, <3>7
      <3>9. Elems(q) \subseteq Reaches(c.start) /\ m \in Reaches(c.start)
        BY <1>2, <1>3, <2>2, <2>4, <3>8, Reached
      <3>10. Unbranching(c.decision.chain)'
        BY <1>3, <3>3, <3>5, <3>8 DEF Unbranching
      <3>11. IsSeq(c'.decision.chain) /\ Elems(c'.decision.chain) \subseteq Reaches(c.start) /\ c'.model \in Reaches(c.start)
        BY <3>3, <3>5, <3>7, <3>9
      <3>12. Ahead' /\ Chosen' /\ Credit' /\ Filtered' /\ Bodied' /\ Sendings' /\ Going
        BY <1>1, <1>7, <3>5, <3>10, <3>11, ToPlace
      <3>13. Shape(c')
        BY <3>3, <3>5 DEF PipeInv, Form, Shape, Stages
      <3>14. Form' /\ Books' /\ Counts' /\ Paid'
        BY <1>6, <3>3, <3>5, <3>12, <3>13 DEF Fresh
      <3> QED
        BY <3>12, <3>14 DEF PipeInv
    <2> QED
      BY <1>2, <1>3, <1>7, <2>1, <2>3, <2>4, <1>5 DEF Placed
  <1> QED
    BY <1>5, <1>7 DEF Placed

-----------------------------------------------------------------------------
(* From the chosen model to the answer.                                    *)

\* The models to try are ones the request may be sent to, and none that is
\* failed over to has a branch.
LEMMA DestinationsAre ==
  ASSUME PipeInv, c.stage = "place"
  PROVE  LET q == Destinations(c)
         IN  IsSeq(q) /\ Elems(q) \subseteq Reach /\ (Len(q) > 1 => Unbranching(q))
  <1>1. /\ IsSeq(c.decision.chain) /\ Unbranching(c.decision.chain)
        /\ c.model \in Reach /\ Elems(c.decision.chain) \subseteq Reach
    BY DEF PipeInv, Chosen
  <1>2. PICK there : there = Kept(c.decision.chain, up)
    OBVIOUS
  <1>3. IsSeq(there) /\ Elems(there) \subseteq Elems(c.decision.chain)
    BY <1>1, <1>2, KeptIs
  <1>4. CASE Destinations(c) = <<c.model>>
    <2>1. PICK q : q = <<c.model>>
      OBVIOUS
    <2>2. IsSeq(q) /\ Elems(q) = {c.model} /\ Len(q) = 1
      BY <2>1, One
    <2> QED
      BY <1>1, <1>4, <2>1, <2>2
  <1>5. CASE Destinations(c) = there
    BY <1>1, <1>3, <1>5 DEF Unbranching
  <1> QED
    BY <1>2, <1>4, <1>5 DEF Destinations

\* What Place makes of the call before the key's filters, for the models in q.
Ready(q) ==
  LET some   == \E m \in Elems(q) : SendsNative(c, m)
      others == \E m \in Elems(q) : ~SendsNative(c, m)
      made   == IF others THEN Translated(c) ELSE c
  IN  [made EXCEPT !.chain = q, !.translated = c.native.here /\ others,
                   !.native = IF some THEN @ ELSE NoBody]

\* Its bodies, and whether some model is sent the translation.
MadeFor(q, n, b, t) ==
  /\ n = IF \E m \in Elems(q) : SendsNative(c, m) THEN c.native ELSE NoBody
  /\ b = IF (\E m \in Elems(q) : ~SendsNative(c, m)) /\ ~c.body.here THEN c.native ELSE c.body
  /\ t = (c.native.here /\ \E m \in Elems(q) : ~SendsNative(c, m))

LEMMA ReadyIs ==
  ASSUME DOMAIN c = Fields, NEW q, NEW n, NEW b, NEW t, MadeFor(q, n, b, t)
  PROVE  LET ready == Ready(q)
         IN  /\ DOMAIN ready = Fields /\ ready.text = c.text /\ ready.run = c.run /\ ready.model = c.model
             /\ ready.start = c.start /\ ready.silent = c.silent /\ ready.busy = c.busy /\ ready.chain = q
             /\ ready.at = c.at /\ ready.edits = c.edits /\ ready.native = n /\ ready.body = b
             /\ ready.ran = c.ran /\ ready.applied = c.applied /\ ready.scopes = c.scopes
             /\ ready.decision = c.decision /\ ready.filterMicros = c.filterMicros
             /\ ready.earlier = c.earlier /\ ready.route = c.route
             /\ ready.translated = t
  <1>1. PICK some, others \in BOOLEAN : /\ some = \E m \in Elems(q) : SendsNative(c, m)
                                       /\ others = \E m \in Elems(q) : ~SendsNative(c, m)
    OBVIOUS
  <1>2. CASE others /\ ~c.body.here
    <2>1. PICK made : made = [c EXCEPT !.body = c.native]
      OBVIOUS
    <2>2. Ready(q) = [made EXCEPT !.chain = q, !.translated = t, !.native = IF some THEN @ ELSE NoBody]
      BY <1>1, <1>2, <2>1 DEF Ready, MadeFor, Translated
    <2>3. made.native = c.native /\ b = c.native
      BY <1>1, <1>2, <2>1 DEF Fields, MadeFor
    <2>4. Ready(q) = [made EXCEPT !.chain = q, !.translated = t, !.native = n]
      BY <1>1, <2>2, <2>3 DEF MadeFor
    <2> QED
      BY <2>1, <2>3, <2>4 DEF Fields
  <1>3. CASE ~(others /\ ~c.body.here)
    <2>1. Ready(q) = [c EXCEPT !.chain = q, !.translated = t, !.native = IF some THEN @ ELSE NoBody]
      BY <1>1, <1>3 DEF Ready, MadeFor, Translated
    <2>2. Ready(q) = [c EXCEPT !.chain = q, !.translated = t, !.native = n] /\ b = c.body
      BY <1>1, <1>3, <2>1 DEF MadeFor
    <2> QED
      BY <2>2 DEF Fields
  <1> QED
    BY <1>2, <1>3

\* The request goes on to the key's filters, for the models in q.
LEMMA KeyFiltersBegin ==
  ASSUME PipeInv, c.stage = "place", NEW q, IsSeq(q), q # <<>>, Elems(q) \subseteq Reach,
         Len(q) > 1 => Unbranching(q),
         c' = StartChain(Ready(q), Kept(KeyFilters, Filters \ c.ran), "key"),
         UNCHANGED <<server, world, sent, rows>>
  PROVE  PipeInv'
  <1>1. /\ running' = running /\ held' = held /\ inflight' = inflight
        /\ spent' = spent /\ up' = up /\ gone' = gone /\ sent' = sent /\ rows' = rows
        /\ DOMAIN c = Fields
    BY DEF server, world, PipeInv, Form, Shape
  <1>2. PICK left : left = Kept(KeyFilters, Filters \ c.ran)
    OBVIOUS
  <1>3. IsSeq(left) /\ Elems(left) = Elems(KeyFilters) \ c.ran
    <2>1. IsSeq(KeyFilters) /\ Elems(KeyFilters) \subseteq Filters
      BY PipelineAssumption, OwnSeq DEF PipelineAssumption, Elems
    <2>2. PICK set : set = Filters \ c.ran
      OBVIOUS
    <2>3. IsSeq(left) /\ Elems(left) = Elems(KeyFilters) \cap set
      BY <1>2, <2>1, <2>2, KeptIs
    <2> QED
      BY <2>1, <2>2, <2>3
  <1>4. PICK n, b, t : MadeFor(q, n, b, t)
    BY DEF MadeFor
  <1>5. PICK others \in BOOLEAN : others = \E m \in Elems(q) : ~SendsNative(c, m)
    OBVIOUS
  <1>6. PICK r : r = [NoRun EXCEPT !.stop = left # <<>> /\ c.text = "unreadable"]
    OBVIOUS
  <1>7. /\ DOMAIN r = {"micros", "stop", "edits", "ran", "applied"} /\ r.micros = 0
        /\ r.ran = {} /\ r.applied = {}
    BY <1>6 DEF NoRun
  <1>8. PICK ready : ready = Ready(q)
    OBVIOUS
  <1>10. /\ DOMAIN ready = Fields /\ ready.text = c.text /\ ready.run = c.run /\ ready.model = c.model
         /\ ready.start = c.start /\ ready.silent = c.silent /\ ready.busy = c.busy /\ ready.chain = q
         /\ ready.at = c.at /\ ready.edits = c.edits /\ ready.native = n /\ ready.body = b
         /\ ready.ran = c.ran /\ ready.applied = c.applied /\ ready.scopes = c.scopes
         /\ ready.decision = c.decision /\ ready.filterMicros = c.filterMicros
         /\ ready.earlier = c.earlier /\ ready.route = c.route
         /\ ready.translated = t
    BY <1>1, <1>4, <1>8, ReadyIs
  <1>11. PICK u : u = IF c.text = "some" THEN left ELSE <<>>
    OBVIOUS
  <1>22. PICK z : z = [ready EXCEPT !.stage = "filter", !.by = "key", !.queue = u, !.run = r]
    OBVIOUS
  <1>23. c' = z
    BY <1>2, <1>6, <1>8, <1>10, <1>11, <1>22 DEF StartChain
  <1>24. /\ DOMAIN z = Fields /\ z.stage = "filter" /\ z.by = "key" /\ z.run = r /\ z.queue = u
         /\ z.start = ready.start /\ z.silent = ready.silent /\ z.busy = ready.busy
         /\ z.chain = ready.chain /\ z.at = ready.at /\ z.edits = ready.edits
         /\ z.native = ready.native /\ z.body = ready.body /\ z.ran = ready.ran
         /\ z.applied = ready.applied /\ z.text = ready.text /\ z.scopes = ready.scopes
         /\ z.decision = ready.decision /\ z.filterMicros = ready.filterMicros
         /\ z.earlier = ready.earlier /\ z.route = ready.route /\ z.translated = ready.translated
    BY <1>10, <1>22 DEF Fields
  <1>12. /\ DOMAIN c' = Fields /\ c'.stage = "filter" /\ c'.by = "key" /\ c'.run = r
         /\ c'.queue = u
         /\ c'.start = c.start /\ c'.silent = c.silent /\ c'.busy = c.busy /\ c'.chain = q
         /\ c'.at = c.at /\ c'.edits = c.edits /\ c'.native = n /\ c'.body = b
         /\ c'.ran = c.ran /\ c'.applied = c.applied /\ c'.text = c.text /\ c'.scopes = c.scopes
         /\ c'.decision = c.decision /\ c'.filterMicros = c.filterMicros
         /\ c'.earlier = c.earlier /\ c'.route = c.route
         /\ c'.translated = t
    BY <1>10, <1>23, <1>24
  <1>13. Shape(c')
    <2>1. IsBody(n) /\ IsBody(b)
      BY <1>4 DEF MadeFor, PipeInv, Form, Shape, NoBody, IsBody
    <2>2. /\ c.decision.micros \in Nat /\ c.filterMicros \in Nat /\ c.earlier \in Nat /\ c.at \in Nat
          /\ DOMAIN c.decision = {"alias", "chain", "micros", "refused"}
          /\ c.scopes \subseteq Scopes /\ c.start \in Starts \cup {NoStep}
      BY DEF PipeInv, Form, Shape
    <2>3. /\ DOMAIN c' = Fields /\ c'.stage \in Stages /\ IsBody(c'.body) /\ IsBody(c'.native)
          /\ DOMAIN c'.run = {"micros", "stop", "edits", "ran", "applied"} /\ c'.run.micros \in Nat
      <3>1. c'.run = r /\ c'.native = n /\ c'.body = b /\ c'.stage = "filter" /\ DOMAIN c' = Fields
        BY <1>12
      <3>2. DOMAIN r = {"micros", "stop", "edits", "ran", "applied"} /\ r.micros \in Nat
        BY <1>7
      <3>3. c'.stage \in Stages
        BY <3>1 DEF Stages
      <3>4. IsBody(c'.body) /\ IsBody(c'.native)
        BY <2>1, <3>1
      <3> QED
        BY <3>1, <3>2, <3>3, <3>4
    <2>4. /\ DOMAIN c'.decision = {"alias", "chain", "micros", "refused"} /\ c'.decision.micros \in Nat
          /\ c'.filterMicros \in Nat /\ c'.earlier \in Nat /\ c'.at \in Nat
          /\ c'.scopes \subseteq Scopes /\ c'.start \in Starts \cup {NoStep}
      BY <1>12, <2>2
    <2> QED
      BY <2>3, <2>4 DEF Shape
  <1>14. Going
    BY <1>1, <1>12 DEF Going, Under, OnWay, Fresh
  <1>15. Form' /\ Books' /\ Counts' /\ Paid'
    <2>1. Charged' = Charged
      BY <1>12 DEF Charged
    <2> QED
      BY <1>1, <1>12, <1>13, <1>14, <2>1, Moves
  <1>16. ~InRouter' /\ KeyFiltering' /\ ~Fresh(c'.stage) /\ ~OnWay(c'.stage)
    BY <1>12 DEF InRouter, KeyFiltering, Fresh, OnWay
  <1>17. Sendings' /\ sent' = <<>>
    <2>1. Len(q) > 1 => Unbranching(c.chain)'
      BY <1>12 DEF Unbranching
    <2> QED
      BY <1>12, <1>14, <2>1, StillUnsent
  <1>18. Ahead' /\ Chosen'
    BY <1>12, <1>16 DEF Ahead, Chosen
  <1>19. Credit'
    <2>1. Reach \cap OnKey # {} => held
      BY DEF PipeInv, Credit
    <2> QED
      BY <1>1, <1>12, <1>16, <2>1 DEF Credit
  <1>20. Filtered'
    <2>1. c.ran \ Shadow \subseteq c.applied
      BY DEF PipeInv, Filtered, Under
    <2> QED
      BY <1>3, <1>7, <1>11, <1>12, <1>16, <1>17, <2>1 DEF Filtered
  <1>21. Bodied'
    <2>1. /\ c.native.here \/ c.body.here
          /\ c.native.here => c.native.edits = c.edits
          /\ c.body.here => c.body.edits = c.edits
      BY DEF PipeInv, Bodied
    <2>2. n.here => n = c.native
      BY <1>4 DEF MadeFor, NoBody
    <2>3. \A m : SendsNative(c, m) <=> c.native.here /\ m \in Native
      BY DEF SendsNative
    <2>4. ASSUME NEW m \in Elems(q), ~(n.here /\ m \in Native)
          PROVE  b.here /\ b.edits = c.edits
      <3>1. ~SendsNative(c, m)
        BY <1>4, <2>3, <2>4 DEF MadeFor
      <3>2. others = TRUE
        BY <1>5, <3>1
      <3> QED
        BY <1>4, <1>5, <2>1, <3>2 DEF MadeFor
    <2>5. \A m \in Elems(c'.chain) : Right(m)'
      BY <1>12, <2>1, <2>2, <2>4 DEF Right
    <2>6. c'.native.here /\ (\E m \in Elems(c'.chain) : m \notin Native) => c'.translated
      BY <1>4, <1>12, <2>2, <2>3 DEF MadeFor
    <2> QED
      BY <1>12, <1>16, <2>1, <2>2, <2>5, <2>6 DEF Bodied
  <1> QED
    BY <1>15, <1>17, <1>18, <1>19, <1>20, <1>21 DEF PipeInv

LEMMA PlaceKeeps ==
  ASSUME PipeInv, Place
  PROVE  PipeInv'
  <1>1. /\ c.stage = "place" /\ running' = running /\ held' = held /\ inflight' = inflight
        /\ spent' = spent /\ up' = up /\ gone' = gone /\ sent' = sent
        /\ UNCHANGED <<server, world, sent>> /\ DOMAIN c = Fields
    BY DEF Place, server, world, PipeInv, Form, Shape
  <1>2. PICK chosen : chosen = Destinations(c)
    OBVIOUS
  <1>3. IsSeq(chosen) /\ Elems(chosen) \subseteq Reach /\ (Len(chosen) > 1 => Unbranching(chosen))
    BY <1>1, <1>2, DestinationsAre
  <1>4. PICK chain : chain = IF c.native.here /\ c.needsNative
                               THEN Kept(chosen, {m \in Models : SendsNative(c, m)}) ELSE chosen
    OBVIOUS
  <1>5. IsSeq(chain) /\ Elems(chain) \subseteq Elems(chosen) /\ Len(chain) <= Len(chosen)
    <2>1. PICK set : set = {m \in Models : SendsNative(c, m)}
      OBVIOUS
    <2>2. IsSeq(Kept(chosen, set)) /\ Elems(Kept(chosen, set)) \subseteq Elems(chosen)
          /\ Len(Kept(chosen, set)) <= Len(chosen)
      BY <1>3, KeptIs
    <2>3. Len(chosen) \in Nat
      BY <1>3, SeqLen
    <2> QED
      BY <1>3, <1>4, <2>1, <2>2, <2>3
  <1>6. Elems(chain) \subseteq Reach /\ (Len(chain) > 1 => Unbranching(chain))
    <2>1. Len(chosen) \in Nat /\ Len(chain) \in Nat
      BY <1>3, <1>5, SeqLen
    <2> QED
      BY <1>3, <1>5, <2>1 DEF Unbranching
  <1>7. CASE CloseEarly([c EXCEPT !.chain = chain])
    <2>1. PICK cc : cc = [c EXCEPT !.chain = chain]
      OBVIOUS
    <2>2. /\ DOMAIN cc = Fields /\ cc.stage = c.stage /\ cc.run = c.run /\ cc.chain = chain
          /\ cc.start = c.start /\ cc.silent = c.silent /\ cc.busy = c.busy
          /\ cc.at = c.at /\ cc.native = c.native /\ cc.body = c.body /\ cc.scopes = c.scopes
          /\ cc.decision = c.decision /\ cc.filterMicros = c.filterMicros
          /\ cc.earlier = c.earlier /\ cc.route = c.route
      BY <1>1, <2>1 DEF Fields
    <2>3. Shape(cc)
      BY <2>2 DEF PipeInv, Form, Shape
    <2>4. HookMicros(cc) = Charged
      BY <1>1, <2>2 DEF PipeInv, Form, Shape, HookMicros, Charged
    <2>5. /\ spent' \in [Scopes -> Nat]
          /\ \A s \in Scopes : spent'[s] = IF s \in c.scopes THEN HookMicros(cc) ELSE 0
      BY <1>1, <2>4 DEF PipeInv, Form, Books, Under
    <2>6. Reach \cap OnKey # {} => held
      BY <1>1 DEF PipeInv, Credit
    <2>7. /\ Elems(cc.chain) \cap OnKey # {} => held'
          /\ Len(cc.chain) > 1 => \A m \in Elems(cc.chain) : Steps[cc.route].branches[m] = NoStep
      BY <1>1, <1>6, <2>2, <2>6 DEF Unbranching
    <2>8. Under(c.stage) /\ ~OnWay(c.stage) /\ CloseEarly(cc)
      BY <1>1, <1>7, <2>1 DEF Under, OnWay
    <2> QED
      BY <1>1, <2>2, <2>3, <2>5, <2>7, <2>8, Closes
  <1>8. CASE /\ chain # <<>> /\ rows' = rows
             /\ c' = StartChain(Ready(chain), Kept(KeyFilters, Filters \ c.ran), "key")
    BY <1>1, <1>5, <1>6, <1>8, KeyFiltersBegin
  <1> QED
    BY <1>2, <1>4, <1>7, <1>8 DEF Place, Ready

LEMMA PrepareKeeps ==
  ASSUME PipeInv, Prepare
  PROVE  PipeInv'
  <1>1. /\ c.stage = "prepare" /\ running' = running /\ held' = held /\ inflight' = inflight
        /\ spent' = spent /\ up' = up /\ gone' = gone /\ sent' = sent /\ DOMAIN c = Fields
        /\ IsBody(c.native) /\ IsBody(c.body)
    BY DEF Prepare, server, world, PipeInv, Form, Shape
  <1>2. CASE CloseEarly(c)
    BY <1>1, <1>2, ClosesNow DEF Under, OnWay
  <1>3. CASE /\ LET prompt == KeyPrompt \/ c.prompted
                    With(b) == [b EXCEPT !.prompt = b.here /\ prompt]
                IN  c' = [c EXCEPT !.body = With(@), !.native = With(@), !.stage = "forward"]
             /\ rows' = rows
    <2>1. PICK prompt \in BOOLEAN : prompt = (KeyPrompt \/ c.prompted)
      OBVIOUS
    <2>2. PICK b, n : /\ b = [c.body EXCEPT !.prompt = c.body.here /\ prompt]
                      /\ n = [c.native EXCEPT !.prompt = c.native.here /\ prompt]
      OBVIOUS
    <2>3. /\ IsBody(b) /\ b.here = c.body.here /\ b.edits = c.body.edits /\ (b.here => b.prompt = prompt)
          /\ IsBody(n) /\ n.here = c.native.here /\ n.edits = c.native.edits /\ (n.here => n.prompt = prompt)
      BY <1>1, <2>1, <2>2 DEF IsBody
    <2>4. c' = [c EXCEPT !.body = b, !.native = n, !.stage = "forward"]
      BY <1>3, <2>1, <2>2
    <2>5. /\ DOMAIN c' = Fields /\ c'.stage = "forward" /\ c'.run = c.run /\ c'.prompted = c.prompted
          /\ c'.start = c.start /\ c'.silent = c.silent /\ c'.busy = c.busy /\ c'.chain = c.chain
          /\ c'.at = c.at /\ c'.edits = c.edits /\ c'.native = n /\ c'.body = b
          /\ c'.ran = c.ran /\ c'.applied = c.applied /\ c'.text = c.text /\ c'.scopes = c.scopes
          /\ c'.decision = c.decision /\ c'.filterMicros = c.filterMicros
          /\ c'.earlier = c.earlier /\ c'.route = c.route /\ c'.translated = c.translated
      BY <1>1, <2>4 DEF Fields
    <2>6. Form'
      <3>1. Shape(c')
        BY <2>3, <2>5 DEF PipeInv, Form, Shape, Stages
      <3> QED
        BY <1>1, <3>1 DEF PipeInv, Form
    <2>7. Books' /\ Paid'
      <3>1. rows = <<>> /\ ~c.silent /\ (\A s \in Scopes : spent[s] = IF s \in c.scopes THEN Charged ELSE 0)
        BY <1>1 DEF PipeInv, Books, Under
      <3>2. Charged' = Charged
        BY <1>1, <2>5 DEF Charged
      <3> QED
        BY <1>1, <1>3, <2>5, <3>1, <3>2 DEF Books, Paid, Under, Fresh
    <2>8. Counts'
      BY <1>1, <2>5 DEF PipeInv, Counts, Fresh
    <2>9. /\ ~InRouter' /\ KeyFiltering' /\ ~Fresh(c'.stage) /\ OnWay(c'.stage) /\ Under(c'.stage)
          /\ KeyFiltering
      BY <1>1, <2>5 DEF InRouter, KeyFiltering, Fresh, OnWay, Under
    <2>10. Ahead' /\ Chosen'
      BY <2>5, <2>9 DEF Ahead, Chosen
    <2>11. Credit'
      BY <1>1, <2>5, <2>9 DEF PipeInv, Credit
    <2>12. sent = <<>> /\ c.at = 1
      BY <1>1 DEF PipeInv, Sendings, OnWay, Under
    <2>13. Filtered'
      BY <1>1, <2>5, <2>9 DEF PipeInv, Filtered, Under
    <2>14. Bodied'
      <3>1. /\ \A m \in Elems(c.chain) : Right(m)
            /\ c.native.here => c.native.edits = c.edits
            /\ c.native.here /\ (\E m \in Elems(c.chain) : m \notin Native) => c.translated
        BY <2>9 DEF PipeInv, Bodied
      <3>2. ASSUME NEW m \in Elems(c'.chain) PROVE Right(m)' /\ Prompted(m)'
        <4>1. Right(m)
          BY <2>5, <3>1
        <4> QED
          BY <2>1, <2>3, <2>5, <4>1 DEF Right, Prompted
      <3> QED
        BY <2>3, <2>5, <2>9, <3>1, <3>2 DEF Bodied
    <2>15. Sendings'
      <3>1. IsSeq(c.chain) /\ c.chain # <<>> /\ (Len(c.chain) > 1 => Unbranching(c.chain))
        BY <2>9 DEF PipeInv, Sendings
      <3>2. Unbranching(c.chain)' <=> Unbranching(c.chain)
        BY <2>5 DEF Unbranching
      <3>3. 1 <= Len(c.chain)
        BY <3>1, SeqLen
      <3>4. sent' = <<>> /\ IsSeq(sent') /\ Len(sent') = 0
        BY <1>1, <2>12, NoElems
      <3> QED
        BY <2>5, <2>9, <2>12, <3>1, <3>2, <3>3, <3>4 DEF Sendings
    <2> QED
      BY <2>6, <2>7, <2>8, <2>10, <2>11, <2>13, <2>14, <2>15 DEF PipeInv
  <1> QED
    BY <1>2, <1>3 DEF Prepare

\* A step of a request that is being sent, and goes on.
LEMMA OnItsWay ==
  ASSUME PipeInv, OnWay(c.stage), OnWay(c'.stage), DOMAIN c' = Fields, c'.run = c.run,
         c'.start = c.start, c'.silent = c.silent, c'.chain = c.chain, c'.edits = c.edits,
         c'.native = c.native, c'.body = c.body, c'.ran = c.ran, c'.applied = c.applied,
         c'.text = c.text, c'.scopes = c.scopes, c'.decision = c.decision,
         c'.filterMicros = c.filterMicros, c'.earlier = c.earlier, c'.route = c.route,
         c'.translated = c.translated, c'.prompted = c.prompted, c'.at \in Nat,
         spent' = spent, running' = running, held' = held, up' = up, gone' = gone, rows' = rows,
         inflight' \in [Models -> Nat]
  PROVE  Form' /\ Books' /\ Ahead' /\ Chosen' /\ Credit' /\ Filtered' /\ Bodied' /\ Paid'
  <1>1. /\ Under(c.stage) /\ Under(c'.stage) /\ ~Fresh(c'.stage) /\ ~InRouter' /\ KeyFiltering /\ KeyFiltering'
        /\ c.stage # "placed" /\ c'.stage \notin {"placed", "place", "admit", "filter", "receive", "decode"}
        /\ c.stage # "done" /\ c'.stage \in Stages
    BY DEF OnWay, Under, Fresh, InRouter, KeyFiltering, Stages
  <1>2. Form'
    <2>1. Shape(c')
      BY <1>1 DEF PipeInv, Form, Shape
    <2> QED
      BY <2>1 DEF PipeInv, Form
  <1>3. Books' /\ Paid'
    <2>1. Charged' = Charged
      BY <1>1 DEF Charged
    <2>2. rows = <<>> /\ ~c.silent /\ (\A s \in Scopes : spent[s] = IF s \in c.scopes THEN Charged ELSE 0)
      BY <1>1 DEF PipeInv, Books
    <2> QED
      BY <1>1, <2>1, <2>2 DEF Books, Paid
  <1>4. Ahead' /\ Chosen'
    BY <1>1 DEF Ahead, Chosen
  <1>5. Credit'
    BY <1>1 DEF PipeInv, Credit
  <1>6. Filtered'
    BY <1>1 DEF PipeInv, Filtered
  <1>7. Bodied'
    <2>1. \A m : (Right(m)' <=> Right(m)) /\ (Prompted(m)' <=> Prompted(m))
      BY DEF Right, Prompted
    <2> QED
      BY <1>1, <2>1 DEF PipeInv, Bodied
  <1> QED
    BY <1>2, <1>3, <1>4, <1>5, <1>6, <1>7

\* What has been sent is right.
LEMMA SendingsAre ==
  ASSUME PipeInv, OnWay(c.stage)
  PROVE  /\ IsSeq(c.chain) /\ c.chain # <<>> /\ (Len(c.chain) > 1 => Unbranching(c.chain))
         /\ IsSeq(sent) /\ Len(sent) \in Nat /\ Len(c.chain) \in Nat /\ Len(sent) <= Len(c.chain)
         /\ c.at \in Nat /\ c.at <= Len(c.chain)
         /\ \A i \in 1..Len(sent) :
              /\ sent[i].model = c.chain[i]
              /\ DOMAIN sent[i] = {"model", "body", "result"}
              /\ sent[i].body.here /\ sent[i].body.edits = c.edits
              /\ sent[i].body.prompt = (KeyPrompt \/ c.prompted)
  <1>1. KeyFiltering
    BY DEF OnWay, KeyFiltering
  <1>2. IsSeq(c.chain) /\ IsSeq(sent)
    BY <1>1 DEF PipeInv, Sendings
  <1>3. Len(sent) \in Nat /\ Len(c.chain) \in Nat /\ Len(<<>>) = 0
    BY <1>2, SeqLen, NoElems
  <1>4. c.at \in Nat
    BY DEF PipeInv, Form, Shape
  <1>5. Len(sent) <= Len(c.chain)
    BY <1>3 DEF PipeInv, Sendings
  <1> QED
    BY <1>1, <1>2, <1>3, <1>4, <1>5 DEF PipeInv, Sendings

LEMMA SendKeeps ==
  ASSUME PipeInv, Send
  PROVE  PipeInv'
  <1>1. /\ c.stage = "forward" /\ c' = [c EXCEPT !.stage = "sent"]
        /\ spent' = spent /\ running' = running /\ held' = held /\ rows' = rows
        /\ up' = up /\ gone' = gone /\ DOMAIN c = Fields /\ OnWay(c.stage)
    BY DEF Send, world, PipeInv, Form, Shape, OnWay
  <1>2. PICK m : m = c.chain[c.at]
    OBVIOUS
  <1>3. PICK e : e = [model |-> m, body |-> Outbound(m), result |-> "lost"]
    OBVIOUS
  <1>4. inflight' = [inflight EXCEPT ![m] = @ + 1] /\ sent' = Append(sent, e)
    BY <1>2, <1>3 DEF Send
  <1>5. /\ DOMAIN c' = Fields /\ c'.stage = "sent" /\ c'.run = c.run /\ c'.prompted = c.prompted
        /\ c'.start = c.start /\ c'.silent = c.silent /\ c'.busy = c.busy /\ c'.chain = c.chain
        /\ c'.at = c.at /\ c'.edits = c.edits /\ c'.native = c.native /\ c'.body = c.body
        /\ c'.ran = c.ran /\ c'.applied = c.applied /\ c'.text = c.text /\ c'.scopes = c.scopes
        /\ c'.decision = c.decision /\ c'.filterMicros = c.filterMicros
        /\ c'.earlier = c.earlier /\ c'.route = c.route /\ c'.translated = c.translated
    BY <1>1 DEF Fields
  <1>6. /\ \A x \in Models : inflight[x] = 0
        /\ inflight \in [Models -> Nat] /\ c.busy = NoModel
    BY <1>1 DEF PipeInv, Counts, Form
  <1>7. inflight' \in [Models -> Nat] /\ \A x \in Models : inflight'[x] = IF x = m THEN 1 ELSE 0
    <2>1. CASE m \in Models
      <3>1. inflight' = [inflight EXCEPT ![m] = 1]
        <4>1. inflight[m] + 1 = 1
          BY <1>6, <2>1
        <4> QED
          BY <1>4, <4>1
      <3> QED
        BY <1>6, <2>1, <3>1
    <2>2. CASE m \notin Models
      <3>1. PICK v : inflight' = [inflight EXCEPT ![m] = v]
        BY <1>4
      <3> QED
        BY <1>6, <2>2, <3>1
    <2> QED
      BY <2>1, <2>2
  <1>8. Form' /\ Books' /\ Ahead' /\ Chosen' /\ Credit' /\ Filtered' /\ Bodied' /\ Paid'
    <2>1. OnWay(c'.stage) /\ c'.at \in Nat
      BY <1>1, <1>5, SendingsAre DEF OnWay
    <2> QED
      BY <1>1, <1>5, <1>7, <2>1, OnItsWay
  <1>9. Counts'
    BY <1>1, <1>2, <1>5, <1>6, <1>7 DEF PipeInv, Counts, Fresh
  <1>10. Sendings'
    <2>1. /\ IsSeq(c.chain) /\ c.chain # <<>> /\ (Len(c.chain) > 1 => Unbranching(c.chain))
          /\ IsSeq(sent) /\ Len(sent) \in Nat /\ Len(c.chain) \in Nat
          /\ c.at \in Nat /\ c.at <= Len(c.chain) /\ c.at = Len(sent) + 1
      BY <1>1, SendingsAre DEF PipeInv, Sendings
    <2>2. m \in Elems(c.chain)
      BY <1>2, <2>1, SeqLen
    <2>3. Right(m) /\ Prompted(m)
      BY <1>1, <2>2 DEF PipeInv, Bodied, KeyFiltering
    <2>4. /\ DOMAIN e = {"model", "body", "result"} /\ e.model = m /\ e.body.here /\ e.body.edits = c.edits
          /\ e.body.prompt = (KeyPrompt \/ c.prompted)
      BY <1>3, <2>3 DEF Outbound, SendsNative, Right, Prompted
    <2>5. /\ IsSeq(sent') /\ Len(sent') = c.at /\ sent'[c.at] = e /\ sent' # <<>>
          /\ \A i \in 1..Len(sent) : sent'[i] = sent[i]
      BY <1>4, <2>1, Appended
    <2>6. ASSUME NEW i \in 1..Len(sent')
          PROVE  /\ sent'[i].model = c'.chain[i]
                 /\ DOMAIN sent'[i] = {"model", "body", "result"}
                 /\ sent'[i].body.here /\ sent'[i].body.edits = c'.edits
                 /\ sent'[i].body.prompt = (KeyPrompt \/ c'.prompted)
      <3>1. CASE i = c.at
        BY <1>2, <1>5, <2>4, <2>5, <3>1
      <3>2. CASE i # c.at
        <4>1. i \in 1..Len(sent)
          BY <2>1, <2>5, <3>2
        <4> QED
          BY <1>1, <1>5, <2>5, <4>1, SendingsAre
      <3> QED
        BY <3>1, <3>2
    <2>7. Unbranching(c.chain)' <=> Unbranching(c.chain)
      BY <1>5 DEF Unbranching
    <2> QED
      BY <1>5, <2>1, <2>5, <2>6, <2>7 DEF Sendings, OnWay, Under
  <1> QED
    BY <1>8, <1>9, <1>10 DEF PipeInv

LEMMA Updated ==
  ASSUME NEW q, IsSeq(q), NEW k \in 1..Len(q), NEW e
  PROVE  LET r == [q EXCEPT ![k] = e]
         IN  IsSeq(r) /\ Len(r) = Len(q) /\ r # <<>> /\ \A i \in 1..Len(q) : r[i] = IF i = k THEN e ELSE q[i]
  <1> DEFINE r == [q EXCEPT ![k] = e]
  <1>1. PICK T : T = Elems(q) \cup {e}
    OBVIOUS
  <1>2. q \in Seq(T) /\ e \in T
    BY <1>1 DEF IsSeq
  <1>3. /\ r \in Seq(T) /\ Len(r) = Len(q) /\ (\A i \in 1..Len(q) : r[i] = IF i = k THEN e ELSE q[i])
        /\ Len(q) \in Nat
    BY <1>2
  <1> HIDE DEF r
  <1>4. r # <<>>
    BY <1>3
  <1>5. IsSeq(r)
    BY <1>3, OwnSeq
  <1> QED
    BY <1>3, <1>4, <1>5 DEF r

LEMMA CameKeeps ==
  ASSUME PipeInv, Came
  PROVE  PipeInv'
  <1>1. /\ c.stage = "sent" /\ DOMAIN c = Fields /\ OnWay(c.stage)
        /\ spent' = spent /\ running' = running /\ held' = held /\ rows' = rows
        /\ up' = up /\ gone' = gone
    BY DEF Came, world, PipeInv, Form, Shape, OnWay
  <1>2. /\ IsSeq(c.chain) /\ c.chain # <<>> /\ (Len(c.chain) > 1 => Unbranching(c.chain))
        /\ IsSeq(sent) /\ Len(sent) \in Nat /\ Len(c.chain) \in Nat
        /\ c.at \in Nat /\ c.at <= Len(c.chain) /\ c.at = Len(sent) /\ sent # <<>>
    BY <1>1, SendingsAre DEF PipeInv, Sendings
  <1>3. PICK result \in Results :
       /\ sent' = [sent EXCEPT ![Len(sent)].result = result]
       /\ IF /\ c.at < Len(c.chain) /\ ~ContextOver
             /\ result \in {"undelivered", "lost", "5xx"}
            THEN /\ inflight' = [inflight EXCEPT ![c.chain[c.at]] = @ - 1]
                 /\ c' = [c EXCEPT !.at = @ + 1, !.stage = "forward"]
            ELSE /\ c' = [c EXCEPT !.stage = "answer", !.busy = c.chain[c.at]]
                 /\ UNCHANGED inflight
    BY DEF Came
  <1>4. PICK k \in 1..Len(sent) : k = c.at
    BY <1>2, SeqLen
  <1>5. PICK e : e = [sent[k] EXCEPT !.result = result]
    OBVIOUS
  <1>6. /\ DOMAIN e = {"model", "body", "result"} /\ e.model = c.chain[k] /\ e.body = sent[k].body
    <2>1. DOMAIN sent[k] = {"model", "body", "result"} /\ sent[k].model = c.chain[k]
      BY <1>1, <1>4, SendingsAre
    <2> QED
      BY <1>5, <2>1
  <1>7. sent' = [sent EXCEPT ![k] = e]
    BY <1>2, <1>3, <1>4, <1>5
  <1>8. /\ IsSeq(sent') /\ Len(sent') = Len(sent) /\ sent' # <<>>
        /\ \A i \in 1..Len(sent) : sent'[i] = IF i = k THEN e ELSE sent[i]
    <2>1. PICK q : q = sent
      OBVIOUS
    <2>2. IsSeq(q) /\ k \in 1..Len(q)
      BY <1>2, <2>1
    <2>3. LET r == [q EXCEPT ![k] = e]
          IN  IsSeq(r) /\ Len(r) = Len(q) /\ r # <<>> /\ \A i \in 1..Len(q) : r[i] = IF i = k THEN e ELSE q[i]
      BY <2>2, Updated
    <2> QED
      BY <1>7, <2>1, <2>3
  <1>9. /\ \A x \in Models : inflight[x] = IF x = c.chain[c.at] THEN 1 ELSE 0
        /\ inflight \in [Models -> Nat] /\ c.busy = NoModel
    BY <1>1 DEF PipeInv, Counts, Form
  <1>10. ASSUME NEW i \in 1..Len(sent')
         PROVE  /\ sent'[i].model = c.chain[i]
                /\ DOMAIN sent'[i] = {"model", "body", "result"}
                /\ sent'[i].body.here /\ sent'[i].body.edits = c.edits
                /\ sent'[i].body.prompt = (KeyPrompt \/ c.prompted)
    <2>1. i \in 1..Len(sent) /\ sent'[i].body = sent[i].body
      BY <1>6, <1>8
    <2> QED
      BY <1>1, <1>6, <1>8, <2>1, SendingsAre
  <1>11. CASE /\ c.at < Len(c.chain)
              /\ inflight' = [inflight EXCEPT ![c.chain[c.at]] = @ - 1]
              /\ c' = [c EXCEPT !.at = @ + 1, !.stage = "forward"]
    <2>1. /\ DOMAIN c' = Fields /\ c'.stage = "forward" /\ c'.run = c.run /\ c'.prompted = c.prompted
          /\ c'.start = c.start /\ c'.silent = c.silent /\ c'.busy = c.busy /\ c'.chain = c.chain
          /\ c'.at = c.at + 1 /\ c'.edits = c.edits /\ c'.native = c.native /\ c'.body = c.body
          /\ c'.ran = c.ran /\ c'.applied = c.applied /\ c'.text = c.text /\ c'.scopes = c.scopes
          /\ c'.decision = c.decision /\ c'.filterMicros = c.filterMicros
          /\ c'.earlier = c.earlier /\ c'.route = c.route /\ c'.translated = c.translated
      BY <1>1, <1>11 DEF Fields
    <2>2. inflight' \in [Models -> Nat] /\ \A x \in Models : inflight'[x] = 0
      <3>1. PICK y : y = c.chain[c.at]
        OBVIOUS
      <3>2. inflight' = [inflight EXCEPT ![y] = @ - 1] /\ \A x \in Models : inflight[x] = IF x = y THEN 1 ELSE 0
        BY <1>9, <1>11, <3>1
      <3>3. CASE y \in Models
        <4>1. inflight' = [inflight EXCEPT ![y] = 0]
          <5>1. inflight[y] - 1 = 0
            BY <3>2, <3>3
          <5> QED
            BY <3>2, <5>1
        <4> QED
          BY <1>9, <3>2, <3>3, <4>1
      <3>4. CASE y \notin Models
        <4>1. PICK v : inflight' = [inflight EXCEPT ![y] = v]
          BY <3>2
        <4> QED
          BY <1>9, <3>2, <3>4, <4>1
      <3> QED
        BY <3>3, <3>4
    <2>3. Form' /\ Books' /\ Ahead' /\ Chosen' /\ Credit' /\ Filtered' /\ Bodied' /\ Paid'
      <3>1. OnWay(c'.stage) /\ c'.at \in Nat
        BY <1>2, <2>1 DEF OnWay
      <3> QED
        BY <1>1, <2>1, <2>2, <3>1, OnItsWay
    <2>4. Counts'
      BY <1>1, <1>9, <2>1, <2>2 DEF PipeInv, Counts, Fresh
    <2>5. Sendings'
      <3>1. Unbranching(c.chain)' <=> Unbranching(c.chain)
        BY <2>1 DEF Unbranching
      <3> QED
        BY <1>2, <1>8, <1>10, <1>11, <2>1, <3>1 DEF Sendings, OnWay, Under
    <2> QED
      BY <2>3, <2>4, <2>5 DEF PipeInv
  <1>12. CASE /\ c' = [c EXCEPT !.stage = "answer", !.busy = c.chain[c.at]]
              /\ inflight' = inflight
    <2>1. /\ DOMAIN c' = Fields /\ c'.stage = "answer" /\ c'.run = c.run /\ c'.prompted = c.prompted
          /\ c'.start = c.start /\ c'.silent = c.silent /\ c'.busy = c.chain[c.at] /\ c'.chain = c.chain
          /\ c'.at = c.at /\ c'.edits = c.edits /\ c'.native = c.native /\ c'.body = c.body
          /\ c'.ran = c.ran /\ c'.applied = c.applied /\ c'.text = c.text /\ c'.scopes = c.scopes
          /\ c'.decision = c.decision /\ c'.filterMicros = c.filterMicros
          /\ c'.earlier = c.earlier /\ c'.route = c.route /\ c'.translated = c.translated
      BY <1>1, <1>12 DEF Fields
    <2>2. Form' /\ Books' /\ Ahead' /\ Chosen' /\ Credit' /\ Filtered' /\ Bodied' /\ Paid'
      <3>1. OnWay(c'.stage) /\ c'.at \in Nat /\ inflight' \in [Models -> Nat]
        BY <1>2, <1>9, <1>12, <2>1 DEF OnWay
      <3> QED
        BY <1>1, <2>1, <3>1, OnItsWay
    <2>3. Counts'
      BY <1>1, <1>9, <1>12, <2>1 DEF PipeInv, Counts, Fresh
    <2>4. Sendings'
      <3>1. Unbranching(c.chain)' <=> Unbranching(c.chain)
        BY <2>1 DEF Unbranching
      <3> QED
        BY <1>2, <1>8, <1>10, <2>1, <3>1 DEF Sendings, OnWay, Under
    <2> QED
      BY <2>2, <2>3, <2>4 DEF PipeInv
  <1> QED
    BY <1>3, <1>11, <1>12

\* The answer ends the request with the row e.
LEMMA AnswerEnds ==
  ASSUME PipeInv, c.stage = "answer", NEW e, NEW m, NEW cc,
         cc = c \/ cc = [c EXCEPT !.model = m], c' = [cc EXCEPT !.stage = "return"],
         rows' = <<e>>, e.scopes = c.scopes,
         spent' \in [Scopes -> Nat],
         \A s \in Scopes : spent'[s] = IF s \in c.scopes THEN e.cost ELSE 0,
         sent[Len(sent)].model \in OnKey /\ sent[Len(sent)].result \in {"lost", "ok"} => e.bill = Len(sent),
         running' = running, held' = held, inflight' = inflight, up' = up, sent' = sent
  PROVE  PipeInv'
  <1>1. DOMAIN c = Fields /\ OnWay(c.stage) /\ Under(c.stage) /\ KeyFiltering
    BY DEF PipeInv, Form, Shape, OnWay, Under, KeyFiltering
  <1>2. /\ DOMAIN c' = Fields /\ c'.stage = "return" /\ c'.run = c.run /\ c'.prompted = c.prompted
        /\ c'.start = c.start /\ c'.silent = c.silent /\ c'.busy = c.busy /\ c'.chain = c.chain
        /\ c'.at = c.at /\ c'.edits = c.edits /\ c'.native = c.native /\ c'.body = c.body
        /\ c'.ran = c.ran /\ c'.applied = c.applied /\ c'.text = c.text /\ c'.scopes = c.scopes
        /\ c'.decision = c.decision /\ c'.filterMicros = c.filterMicros
        /\ c'.earlier = c.earlier /\ c'.route = c.route
    <2>1. CASE cc = c
      BY <1>1, <2>1 DEF Fields
    <2>2. CASE cc = [c EXCEPT !.model = m]
      <3>1. c' = [c EXCEPT !.model = m, !.stage = "return"]
        BY <1>1, <2>2 DEF Fields
      <3> QED
        BY <1>1, <3>1 DEF Fields
    <2> QED
      BY <2>1, <2>2
  <1>3. /\ ~Under(c'.stage) /\ ~Fresh(c'.stage) /\ ~InRouter' /\ ~KeyFiltering' /\ ~OnWay(c'.stage)
        /\ c'.stage \in Stages
    BY <1>2 DEF Under, Fresh, InRouter, KeyFiltering, OnWay, Stages
  <1>4. Form'
    <2>1. Shape(c')
      BY <1>2, <1>3 DEF PipeInv, Form, Shape
    <2> QED
      BY <2>1 DEF PipeInv, Form
  <1>5. rows'[1] = e /\ Len(rows') = 1 /\ rows' # <<>>
    OBVIOUS
  <1>6. Books'
    <2>1. ~c.silent
      BY DEF PipeInv, Books
    <2> QED
      BY <1>2, <1>3, <1>5, <2>1 DEF Books
  <1>7. Counts'
    BY <1>2, <1>3 DEF PipeInv, Counts
  <1>8. Ahead' /\ Chosen' /\ Credit'
    BY <1>2, <1>3 DEF PipeInv, Ahead, Chosen, Credit
  <1>9. Filtered'
    BY <1>1, <1>2, <1>3 DEF PipeInv, Filtered
  <1>10. Bodied'
    BY <1>2, <1>3 DEF Bodied
  <1>11. Sendings'
    <2>1. Unbranching(c.chain)' <=> Unbranching(c.chain)
      BY <1>2 DEF Unbranching
    <2> QED
      BY <1>1, <1>2, <1>3, <2>1, SendingsAre DEF Sendings
  <1>12. Paid'
    BY <1>5 DEF Paid, Owed
  <1> QED
    BY <1>4, <1>6, <1>7, <1>8, <1>9, <1>10, <1>11, <1>12 DEF PipeInv

LEMMA AnswerKeeps ==
  ASSUME PipeInv, Answer
  PROVE  PipeInv'
  <1>1. /\ c.stage = "answer" /\ DOMAIN c = Fields /\ OnWay(c.stage)
        /\ running' = running /\ held' = held /\ inflight' = inflight
        /\ up' = up /\ gone' = gone /\ sent' = sent
    BY DEF Answer, world, PipeInv, Form, Shape, OnWay
  <1>2. /\ IsSeq(c.chain) /\ IsSeq(sent) /\ Len(sent) \in Nat /\ Len(c.chain) \in Nat
        /\ c.at \in Nat /\ c.at <= Len(c.chain) /\ c.at = Len(sent) /\ sent # <<>>
    BY <1>1, SendingsAre DEF PipeInv, Sendings
  <1>3. /\ c.at \in 1..Len(sent) /\ c.at \in 1..Len(c.chain)
        /\ c.chain[c.at] \in Elems(c.chain)
    BY <1>2, SeqLen
  <1>4. sent[Len(sent)].model = c.chain[c.at]
    BY <1>1, <1>2, <1>3, SendingsAre
  <1>5. rows = <<>> /\ (\A s \in Scopes : spent[s] = IF s \in c.scopes THEN HookMicros(c) ELSE 0)
        /\ spent \in [Scopes -> Nat] /\ HookMicros(c) \in Nat /\ c.scopes \subseteq Scopes
    <2>1. HookMicros(c) = Charged /\ HookMicros(c) \in Nat
      BY <1>1 DEF PipeInv, Form, Shape, HookMicros, Charged
    <2> QED
      BY <1>1, <2>1 DEF PipeInv, Form, Shape, Books, Under
  <1>6. PICK m, result : m = c.chain[c.at] /\ result = sent[Len(sent)].result
    OBVIOUS
  <1>7. PICK by : by = [c EXCEPT !.model = m]
    OBVIOUS
  <1>8. /\ by.scopes = c.scopes /\ by.model = m /\ by.at = c.at
        /\ HookMicros(by) = HookMicros(c)
    BY <1>1, <1>7 DEF Fields, HookMicros
  \* The client left, and the answer is not on the key.
  <1>9. CASE ~ChainOnKey(c) /\ CloseEarly(c) /\ UNCHANGED spent
    <2>1. PICK e, cc : e = [cost |-> HookMicros(c), scopes |-> c.scopes, bill |-> 0] /\ cc = c
      OBVIOUS
    <2>2. rows' = <<e>> /\ e.scopes = c.scopes /\ e.cost = HookMicros(c) /\ c' = [cc EXCEPT !.stage = "return"]
      BY <1>5, <1>9, <2>1 DEF CloseEarly
    <2>3. ~(sent[Len(sent)].model \in OnKey)
      BY <1>3, <1>4, <1>9 DEF ChainOnKey
    <2> QED
      BY <1>1, <1>5, <1>9, <2>1, <2>2, <2>3, AnswerEnds
  <1>10. ASSUME NEW tokens \in Nat, Finish(by, tokens),
                m \in OnKey /\ result \in {"lost", "ok"} => tokens > 0
         PROVE  PipeInv'
    <2>1. PICK cost \in Nat : cost = IF by.model \in Subscribed THEN 0 ELSE tokens
      OBVIOUS
    <2>2. PICK e : e = [cost |-> cost + HookMicros(by), scopes |-> by.scopes,
                        bill |-> IF by.model \in OnKey /\ tokens > 0 THEN by.at ELSE 0]
      OBVIOUS
    <2>3. /\ Charge(by.scopes, cost) /\ rows' = <<e>>
          /\ c' = [by EXCEPT !.stage = "return"]
      BY <1>5, <1>10, <2>1, <2>2 DEF Finish
    <2>4. e.scopes = c.scopes /\ e.cost = cost + HookMicros(c)
      BY <1>8, <2>2
    <2>5. m \in OnKey /\ result \in {"lost", "ok"} => e.bill = Len(sent)
      BY <1>2, <1>8, <1>10, <2>2
    <2>6. spent' \in [Scopes -> Nat] /\ \A s \in Scopes : spent'[s] = IF s \in c.scopes THEN e.cost ELSE 0
      BY <1>5, <1>8, <2>1, <2>3, <2>4 DEF Charge
    <2> QED
      BY <1>1, <1>4, <1>6, <1>7, <2>3, <2>4, <2>5, <2>6, AnswerEnds
  <1>11. CASE result = "undelivered" /\ Finish(by, 0)
    BY <1>10, <1>11
  <1>12. CASE result = "lost" /\ Finish(by, OrMost(0, m))
    <2>1. PICK tokens \in Nat : tokens = OrMost(0, m) /\ (m \in OnKey => tokens > 0)
      BY DEF OrMost
    <2> QED
      BY <1>10, <1>12, <2>1
  <1>13. CASE /\ result \notin {"undelivered", "lost"}
              /\ \E usage, streaming \in BOOLEAN :
                   LET tokens == Relayed(m, usage, streaming)
                   IN  Finish(by, IF result = "ok" THEN OrMost(tokens, m) ELSE tokens)
    <2>1. PICK usage \in BOOLEAN, streaming \in BOOLEAN :
                   LET tokens == Relayed(m, usage, streaming)
                   IN  Finish(by, IF result = "ok" THEN OrMost(tokens, m) ELSE tokens)
      BY <1>13
    <2>2. PICK tokens \in Nat : tokens = Relayed(m, usage, streaming)
      BY DEF Relayed
    <2>3. PICK all \in Nat : /\ all = (IF result = "ok" THEN OrMost(tokens, m) ELSE tokens)
                             /\ m \in OnKey /\ result = "ok" => all > 0
      BY DEF OrMost
    <2> QED
      BY <1>10, <1>13, <2>1, <2>2, <2>3
  <1> QED
    BY <1>6, <1>7, <1>9, <1>11, <1>12, <1>13 DEF Answer

LEMMA ReturnKeeps ==
  ASSUME PipeInv, Return
  PROVE  PipeInv'
  <1>1. /\ c.stage = "return" /\ DOMAIN c = Fields /\ c' = [c EXCEPT !.stage = "done"]
        /\ inflight' = [m \in Models |-> IF m = c.busy THEN inflight[m] - 1 ELSE inflight[m]]
        /\ running' = [s \in Counted |-> IF s \in c.scopes THEN running[s] - 1 ELSE running[s]]
        /\ held' = FALSE /\ spent' = spent /\ up' = up /\ gone' = gone /\ sent' = sent /\ rows' = rows
    BY DEF Return, world, PipeInv, Form, Shape
  <1>2. /\ DOMAIN c' = Fields /\ c'.stage = "done" /\ c'.run = c.run /\ c'.prompted = c.prompted
        /\ c'.start = c.start /\ c'.silent = c.silent /\ c'.busy = c.busy /\ c'.chain = c.chain
        /\ c'.at = c.at /\ c'.edits = c.edits /\ c'.native = c.native /\ c'.body = c.body
        /\ c'.ran = c.ran /\ c'.applied = c.applied /\ c'.text = c.text /\ c'.scopes = c.scopes
        /\ c'.decision = c.decision /\ c'.filterMicros = c.filterMicros
        /\ c'.earlier = c.earlier /\ c'.route = c.route
    BY <1>1 DEF Fields
  <1>3. /\ ~Under(c'.stage) /\ ~Fresh(c'.stage) /\ ~InRouter' /\ ~KeyFiltering' /\ ~OnWay(c'.stage)
        /\ c'.stage \in Stages /\ ~Under(c.stage)
    BY <1>1, <1>2 DEF Under, Fresh, InRouter, KeyFiltering, OnWay, Stages
  <1>4. /\ \A s \in Counted : running[s] = IF s \in c.scopes THEN 1 ELSE 0
        /\ \A m \in Models : inflight[m] = IF m = c.busy THEN 1 ELSE 0
    BY <1>1 DEF PipeInv, Counts
  <1>5. (\A s \in Counted : running'[s] = 0) /\ (\A m \in Models : inflight'[m] = 0)
    BY <1>1, <1>4
  <1>6. Form'
    <2>1. Shape(c')
      BY <1>2, <1>3 DEF PipeInv, Form, Shape
    <2>2. running' \in [Counted -> Nat] /\ inflight' \in [Models -> Nat]
      BY <1>1, <1>4
    <2> QED
      BY <1>1, <2>1, <2>2 DEF PipeInv, Form
  <1>7. Books'
    BY <1>1, <1>2, <1>3 DEF PipeInv, Books
  <1>8. Counts'
    BY <1>1, <1>2, <1>3, <1>5 DEF Counts
  <1>9. Ahead' /\ Chosen' /\ Credit' /\ Bodied'
    BY <1>2, <1>3 DEF Ahead, Chosen, Credit, Bodied
  <1>10. Filtered'
    BY <1>1, <1>2, <1>3 DEF PipeInv, Filtered
  <1>11. Sendings'
    <2>1. Unbranching(c.chain)' <=> Unbranching(c.chain)
      BY <1>2 DEF Unbranching
    <2> QED
      BY <1>1, <1>2, <1>3, <2>1 DEF PipeInv, Sendings
  <1>12. Paid'
    BY <1>1, <1>3 DEF PipeInv, Paid, Owed
  <1> QED
    BY <1>6, <1>7, <1>8, <1>9, <1>10, <1>11, <1>12 DEF PipeInv

-----------------------------------------------------------------------------
(* The theorems.                                                           *)

LEMMA PipeStep == PipeInv /\ [Next]_vars => PipeInv'
  <1> SUFFICES ASSUME PipeInv, [Next]_vars PROVE PipeInv'
    OBVIOUS
  <1>1. CASE Receive \/ Decode \/ Admit
    BY <1>1, ReceiveKeeps, DecodeKeeps, AdmitKeeps
  <1>2. CASE RunFilter \/ EndChain
    BY <1>2, RunFilterKeeps, EndChainKeeps
  <1>3. CASE RouterFilters \/ RouterLimit \/ RouterPrompt \/ RouterModel \/ RouterUnknown
    BY <1>3, RouterFiltersKeeps, RouterLimitKeeps, RouterPromptKeeps, RouterModelKeeps, RouterUnknownKeeps
  <1>4. CASE RouterRoute \/ Placed \/ Place \/ Prepare
    BY <1>4, RouterRouteKeeps, PlacedKeeps, PlaceKeeps, PrepareKeeps
  <1>5. CASE Send \/ Came \/ Answer \/ Return
    BY <1>5, SendKeeps, CameKeeps, AnswerKeeps, ReturnKeeps
  <1>6. CASE HangUp \/ CutOff \/ Reload \/ Ended \/ UNCHANGED vars
    BY <1>6, AroundKeeps
  <1> QED
    BY <1>1, <1>2, <1>3, <1>4, <1>5, <1>6 DEF Next, Work

LEMMA PipeHolds == Spec => []PipeInv
  BY PipeInit, PipeStep, PTL DEF Spec

\* However a request goes through serve, through whatever router, filters and
\* fail-over, it leaves one usage row, every scope on it has been charged what
\* the row says and no other anything, and closing it gives back its credit, its
\* places among the running requests and its destination.
THEOREM PipelineEndsClean == Spec => []EndsClean
  <1>1. PipeInv => EndsClean
    <2> SUFFICES ASSUME PipeInv PROVE EndsClean
      OBVIOUS
    <2>1. \A m \in Models : inflight[m] <= 1
      BY DEF PipeInv, Counts
    <2>2. /\ Len(rows) <= 1
          /\ rows # <<>> => \A s \in Scopes : spent[s] = IF s \in rows[1].scopes THEN rows[1].cost ELSE 0
      <3>1. CASE rows = <<>>
        BY <3>1
      <3>2. CASE rows # <<>>
        <4>1. ~Under(c.stage)
          BY <3>2 DEF PipeInv, Books
        <4>2. /\ Len(rows) = 1
              /\ \A s \in Scopes : spent[s] = IF s \in rows[1].scopes THEN rows[1].cost ELSE 0
          BY <3>2, <4>1, Zenon DEF PipeInv, Books
        <4> QED
          BY <4>2
      <3> QED
        BY <3>1, <3>2
    <2>3. ASSUME c.stage = "done"
          PROVE  /\ rows = <<>> <=> c.silent
                 /\ ~held
                 /\ \A s \in Counted : running[s] = 0
                 /\ \A m \in Models : inflight[m] = 0
      BY <2>3 DEF PipeInv, Books, Counts, Under
    <2> QED
      BY <2>1, <2>2, <2>3 DEF EndsClean
  <1> QED
    BY <1>1, PipeHolds, PTL

\* useFilters, translate, retranslate, useNative, prepare and routerRoute, for
\* any router and any reloads: nothing goes out before every enforcing filter
\* has passed it, whichever body goes out has every rewriting and the prompt,
\* and no fail-over skips the steps of a branch.
THEOREM PipelineEveryStepPassed == Spec => []EveryStepPassed
  <1>1. PipeInv => EveryStepPassed
    <2> SUFFICES ASSUME PipeInv PROVE EveryStepPassed
      OBVIOUS
    <2>1. (sent # <<>> /\ c.text = "some") => Elems(KeyFilters) \ Shadow \subseteq c.applied
      BY DEF PipeInv, Filtered
    <2>2. IsSeq(sent) /\ DOMAIN sent = 1..Len(sent) /\ Len(sent) \in Nat
      BY SeqLen DEF PipeInv, Sendings
    <2>3. \A i \in DOMAIN sent :
            /\ sent[i].body.here
            /\ sent[i].body.edits = c.edits
            /\ sent[i].body.prompt = (KeyPrompt \/ c.prompted)
      BY <2>2 DEF PipeInv, Sendings
    <2>4. ASSUME NEW i \in 2..Len(sent)
          PROVE  Steps[c.route].branches[sent[i].model] = NoStep
      <3>1. sent # <<>> /\ i \in 1..Len(sent) /\ Len(sent) >= 2
        BY <2>2, SeqLen
      <3>2. IsSeq(c.chain) /\ Len(sent) <= Len(c.chain) /\ sent[i].model = c.chain[i]
        BY <3>1 DEF PipeInv, Sendings
      <3>3. Len(c.chain) \in Nat /\ Len(c.chain) > 1 /\ c.chain[i] \in Elems(c.chain)
        BY <2>2, <3>1, <3>2, SeqLen
      <3>4. KeyFiltering \/ ~Under(c.stage)
        <4>1. OnWay(c.stage) \/ ~Under(c.stage)
          BY <3>1 DEF PipeInv, Sendings
        <4> QED
          BY <4>1 DEF OnWay, KeyFiltering
      <3>5. Unbranching(c.chain)
        BY <3>3, <3>4 DEF PipeInv, Sendings
      <3> QED
        BY <3>2, <3>3, <3>5 DEF Unbranching
    <2> QED
      BY <2>1, <2>3, <2>4 DEF EveryStepPassed
  <1> QED
    BY <1>1, PipeHolds, PTL

\* billed, Reaches, answer and billUnreported, for any router: nothing is sent
\* on the deployment's key without credit held for it, and its last call is
\* billed.
THEOREM PipelineKeyCallsPaid == Spec => []KeyCallsPaid
  <1>1. PipeInv => KeyCallsPaid
    <2> SUFFICES ASSUME PipeInv PROVE KeyCallsPaid
      OBVIOUS
    <2>1. ASSUME sent # <<>>, sent[Len(sent)].model \in OnKey, c.stage # "done" PROVE held
      <3>1. IsSeq(sent) /\ IsSeq(c.chain) /\ Len(sent) <= Len(c.chain)
        BY <2>1 DEF PipeInv, Sendings
      <3>2. Len(sent) \in 1..Len(sent) /\ Len(sent) \in 1..Len(c.chain)
        BY <2>1, <3>1, SeqLen
      <3>3. sent[Len(sent)].model = c.chain[Len(sent)]
        BY <3>2 DEF PipeInv, Sendings
      <3>4. c.chain[Len(sent)] \in Elems(c.chain)
        BY <3>1, <3>2, SeqLen
      <3> QED
        BY <2>1, <3>3, <3>4 DEF PipeInv, Credit
    <2>2. (c.stage = "done" /\ sent # <<>> /\ Owed(Len(sent))) => rows[1].bill = Len(sent)
      BY DEF PipeInv, Paid, Under
    <2> QED
      BY <2>1, <2>2 DEF KeyCallsPaid
  <1> QED
    BY <1>1, PipeHolds, PTL
=============================================================================
