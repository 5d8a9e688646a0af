------------------------- MODULE HealthEngineProofs -------------------------
(***************************************************************************)
(* Types hold for any nodes, any threshold, and any sessions that overlap. *)
(* That sessions keep status and consecutive_failures together is proved   *)
(* for any nodes, threshold and checks, whatever restarts and registry     *)
(* changes there are, as long as no two of them have loaded one node       *)
(* (NoOverlap), and so for a sweep without checks on demand.  Without that *)
(* it is false: two sessions of one node write the columns that each of    *)
(* them changed.                                                           *)
(*                                                                         *)
(* A commit writes only the columns that changed since the load, so what   *)
(* it leaves in the row depends on the row not having moved: IInv adds     *)
(* that the rows a session loaded are still the committed ones.            *)
(***************************************************************************)
EXTENDS HealthEngine, FiniteSetTheorems, TLAPS

\* The part of TypeOK the argument needs.
Typed ==
    /\ health \in [Nodes -> Health]
    /\ DOMAIN session = Sessions
    /\ \A p \in Sessions : /\ session[p].base \in [Nodes -> Health]
                           /\ session[p].copy \in [Nodes -> Health]
                           /\ session[p].loaded \subseteq Nodes
                           /\ DOMAIN session[p] = {"todo", "loaded", "base", "copy"}

CopiesAgree == \A p \in Sessions, n \in Nodes : Agree(session[p].copy[n])

BaseIsCurrent ==
    \A p \in Sessions : \A n \in session[p].loaded : session[p].base[n] = health[n]

\* No two sessions are about to write the health of one node.
NoOverlap ==
    \A p, q \in Sessions : \A n \in session[p].loaded \cap session[q].loaded : p = q

IInv == Typed /\ StatusMatchesFailures /\ CopiesAgree /\ BaseIsCurrent

\* A session that is well formed on its own.
SessionOk(s) ==
    /\ s.base \in [Nodes -> Health]
    /\ s.copy \in [Nodes -> Health]
    /\ s.loaded \subseteq Nodes
    /\ DOMAIN s = {"todo", "loaded", "base", "copy"}
    /\ \A n \in Nodes : Agree(s.copy[n])
    /\ \A n \in s.loaded : s.base[n] = health[n]

-----------------------------------------------------------------------------
LEMMA UncheckedAgrees == Unchecked \in Health /\ Agree(Unchecked)
BY ThresholdAssumption DEF Unchecked, Health, Agree

\* Folding a probe into a row whose columns belong together keeps them together.
LEMMA FoldAgrees ==
    ASSUME NEW h \in Health, NEW result \in {"reachable", "degraded", "down"}
    PROVE  Fold(h, result) \in Health /\ Agree(Fold(h, result))
<1>1. CASE result = "reachable"
  BY <1>1, ThresholdAssumption DEF Fold, Health, Agree
<1>2. CASE result # "reachable"
  <2> DEFINE f == IF h.fails < FailCap THEN h.fails + 1 ELSE FailCap
  <2>1. f \in 1..FailCap
    BY ThresholdAssumption DEF Health
  <2>2. Fold(h, result) = [status |-> IF f >= Threshold THEN "down" ELSE result, fails |-> f]
    BY <1>2 DEF Fold
  <2> HIDE DEF f
  <2> QED
    BY <1>2, <2>1, <2>2, ThresholdAssumption DEF Health, Agree
<1> QED
  BY <1>1, <1>2

LEMMA ClosedOk == SessionOk(Closed)
BY UncheckedAgrees DEF SessionOk, Closed

LEMMA LoadedOk ==
    ASSUME Typed, StatusMatchesFailures, NEW N, N \subseteq Nodes
    PROVE  SessionOk(Loaded(N))
BY UncheckedAgrees DEF Loaded, Rows, SessionOk, Typed, StatusMatchesFailures

LEMMA ProbingOk ==
    ASSUME NEW s, NEW order, SessionOk(s)
    PROVE  SessionOk(Probing(s, order))
BY ClosedOk DEF Probing, SessionOk

\* What is to be shown of the session that makes a step.
LEMMA SessionSuffices ==
    ASSUME IInv, UNCHANGED health, NEW p \in Sessions, NEW s, SessionOk(s), Update(p, s)
    PROVE  IInv'
<1>1. /\ session'[p] = s /\ DOMAIN session' = Sessions
      /\ \A q \in Sessions \ {p} : session'[q] = session[q]
  BY DEF Update, IInv, Typed
<1>2. Typed'
  BY <1>1 DEF IInv, Typed, SessionOk
<1>3. CopiesAgree'
  BY <1>1 DEF IInv, CopiesAgree, SessionOk, Agree
<1>4. BaseIsCurrent'
  BY <1>1 DEF IInv, BaseIsCurrent, SessionOk
<1> QED
  BY <1>2, <1>3, <1>4 DEF IInv, StatusMatchesFailures, Agree

-----------------------------------------------------------------------------
LEMMA InitEstablishes == Init => IInv
<1> SUFFICES ASSUME Init PROVE IInv
  OBVIOUS
<1>1. \A p \in Sessions : session[p] = Closed
  BY DEF Init
<1>2. SessionOk(Closed)
  BY ClosedOk
<1>3. Typed
  BY <1>1, <1>2, UncheckedAgrees DEF Init, Typed, SessionOk
<1>4. StatusMatchesFailures
  BY UncheckedAgrees DEF Init, StatusMatchesFailures
<1>5. CopiesAgree /\ BaseIsCurrent
  BY <1>1, <1>2 DEF CopiesAgree, BaseIsCurrent, SessionOk
<1> QED
  BY <1>3, <1>4, <1>5 DEF IInv

\* What one probe does to a session.
LEMMA ProbedOk ==
    ASSUME NEW q, SessionOk(q), NEW n, NEW s, s = [q EXCEPT !.copy[n] = Fold(@, wire[n])],
           wire \in [Nodes -> {"reachable", "degraded", "down"}]
    PROVE  SessionOk(s) /\ s.loaded = q.loaded
<1>1. /\ s.base = q.base /\ s.loaded = q.loaded
      /\ s.copy = [q.copy EXCEPT ![n] = Fold(@, wire[n])]
      /\ DOMAIN s = {"todo", "loaded", "base", "copy"}
  BY DEF SessionOk
<1>2. CASE n \in Nodes
  <2>1. Fold(q.copy[n], wire[n]) \in Health /\ Agree(Fold(q.copy[n], wire[n]))
    BY <1>2, FoldAgrees DEF SessionOk
  <2> QED
    BY <1>1, <1>2, <2>1 DEF SessionOk
<1>3. CASE n \notin Nodes
  BY <1>1, <1>3 DEF SessionOk
<1> QED
  BY <1>2, <1>3

\* A commit: the rows have not moved since they were loaded, so that what is written is the
\* copy, and nobody else has loaded them.
LEMMA CommitPreserves ==
    ASSUME IInv, NoOverlap, NEW p \in Sessions, SessionOk(session[p]), Commits(p)
    PROVE  IInv'
<1>1. PICK s : s = session[p]
  OBVIOUS
<1>2. SessionOk(s)
  BY <1>1
<1>3. /\ Update(p, Closed)
      /\ \/ health' = [m \in Nodes |-> IF m \in s.loaded THEN Merged(s, m) ELSE health[m]]
         \/ UNCHANGED health
  BY <1>1 DEF Commits
<1>4. \A m \in s.loaded : Merged(s, m) = s.copy[m]
  <2> SUFFICES ASSUME NEW m \in s.loaded PROVE Merged(s, m) = s.copy[m]
    OBVIOUS
  <2>1. s.base[m] = health[m] /\ s.copy[m] \in Health
    BY <1>2 DEF SessionOk
  <2> QED
    BY <2>1 DEF Merged, Health
<1>5. /\ health' \in [Nodes -> Health] /\ \A m \in Nodes : Agree(health'[m])
      /\ \A m \in Nodes \ s.loaded : health'[m] = health[m]
  BY <1>2, <1>3, <1>4 DEF IInv, Typed, StatusMatchesFailures, SessionOk
<1>6. /\ session'[p] = Closed /\ DOMAIN session' = Sessions
      /\ \A q \in Sessions \ {p} : session'[q] = session[q]
  BY <1>3 DEF Update, IInv, Typed
<1>7. Closed.loaded = {}
  BY DEF Closed
<1>8. Typed'
  BY <1>5, <1>6, ClosedOk DEF IInv, Typed, SessionOk
<1>9. CopiesAgree'
  BY <1>6, ClosedOk DEF IInv, CopiesAgree, SessionOk
<1>10. BaseIsCurrent'
  <2>1. ASSUME NEW q \in Sessions, q # p, NEW m \in session[q].loaded
        PROVE  session[q].base[m] = health'[m]
    <3>1. m \in Nodes /\ m \notin s.loaded
      BY <1>1, <2>1 DEF NoOverlap, IInv, Typed
    <3> QED
      BY <1>5, <3>1 DEF IInv, BaseIsCurrent
  <2> QED
    BY <1>6, <1>7, <2>1 DEF BaseIsCurrent
<1> QED
  BY <1>5, <1>8, <1>9, <1>10 DEF IInv, StatusMatchesFailures

LEMMA StepPreserves ==
    ASSUME IInv, NoOverlap, wire \in [Nodes -> {"reachable", "degraded", "down"}], [Next]_vars
    PROVE  IInv'
<1>0. Typed /\ StatusMatchesFailures /\ CopiesAgree /\ BaseIsCurrent
  BY DEF IInv
<1>a. \A p \in Sessions : SessionOk(session[p])
  BY <1>0 DEF Typed, CopiesAgree, BaseIsCurrent, SessionOk
<1>1. CASE BeginSweep
  <2> DEFINE N == {n \in Nodes : registry[n] = "in" /\ enabled[n]}
  <2>1. PICK order \in SetToSeqs(N) : Update(Sweep, Probing(Loaded(N), order))
    BY <1>1 DEF BeginSweep
  <2>2. SessionOk(Probing(Loaded(N), order))
    BY <1>0, LoadedOk, ProbingOk
  <2>3. UNCHANGED health /\ Sweep \in Sessions
    BY <1>1 DEF BeginSweep, Sessions
  <2> QED
    BY <2>1, <2>2, <2>3, SessionSuffices
<1>2. ASSUME NEW p \in Checks, BeginCheck(p) PROVE IInv'
  <2>1. PICK n \in Nodes : Update(p, Probing(Loaded({n}), <<n>>))
    BY <1>2 DEF BeginCheck
  <2>2. SessionOk(Probing(Loaded({n}), <<n>>))
    BY <1>0, LoadedOk, ProbingOk
  <2>3. UNCHANGED health /\ p \in Sessions
    BY <1>2 DEF BeginCheck, Sessions
  <2> QED
    BY <2>1, <2>2, <2>3, SessionSuffices
<1>3. ASSUME NEW p \in Sessions, ProbeEnds(p) PROVE IInv'
  <2>1. PICK s : s = Probed(p)
    OBVIOUS
  <2>2. Update(p, Probing(s, Tail(session[p].todo))) /\ UNCHANGED health
    BY <1>3, <2>1 DEF ProbeEnds
  <2>3. SessionOk(s)
    BY <1>a, <2>1, ProbedOk DEF Probed
  <2>4. SessionOk(Probing(s, Tail(session[p].todo)))
    BY <2>3, ProbingOk
  <2> QED
    BY <2>2, <2>4, SessionSuffices
<1>4. ASSUME NEW p \in Sessions, LastProbeEnds(p) PROVE IInv'
  <2>1. PICK s : s = Probed(p)
    OBVIOUS
  <2>2. Update(p, [s EXCEPT !.todo = <<>>]) /\ UNCHANGED health
    BY <1>4, <2>1 DEF LastProbeEnds
  <2>3. SessionOk(s)
    BY <1>a, <2>1, ProbedOk DEF Probed
  <2>4. SessionOk([s EXCEPT !.todo = <<>>])
    BY <2>3 DEF SessionOk
  <2> QED
    BY <2>2, <2>4, SessionSuffices
<1>9. ASSUME NEW p \in Sessions, CommitHealth(p) \/ FailsEarly(p) PROVE IInv'
  BY <1>9, <1>a, CommitPreserves DEF CommitHealth, FailsEarly
<1>5. CASE Restart
  <2>1. UNCHANGED health /\ DOMAIN session' = Sessions
        /\ \A p \in Sessions : session'[p] = Closed
    BY <1>5 DEF Restart
  <2>2. Typed' /\ CopiesAgree' /\ BaseIsCurrent'
    BY <1>0, <2>1, ClosedOk DEF Typed, CopiesAgree, BaseIsCurrent, SessionOk
  <2> QED
    BY <1>0, <2>1, <2>2 DEF IInv, StatusMatchesFailures
<1>6. ASSUME UNCHANGED <<health, session>> PROVE IInv'
  BY <1>0, <1>6 DEF IInv, Typed, StatusMatchesFailures, CopiesAgree, BaseIsCurrent
<1>7. ASSUME NEW n \in Nodes,
             RegisterNode(n) \/ FlushEdit(n) \/ Responds(n) \/ CommitEdit(n) \/ WireChanges(n)
      PROVE  IInv'
  BY <1>6, <1>7 DEF RegisterNode, FlushEdit, Responds, CommitEdit, WireChanges
<1>8. CASE UNCHANGED vars
  BY <1>6, <1>8 DEF vars
<1> QED
  BY <1>1, <1>2, <1>3, <1>4, <1>5, <1>7, <1>8, <1>9 DEF Next

\* What a probe can find does not leave its three values.
LEMMA WireTyped == Spec => [](wire \in [Nodes -> {"reachable", "degraded", "down"}])
<1> DEFINE W == wire \in [Nodes -> {"reachable", "degraded", "down"}]
<1>1. Init => W
  BY DEF Init
<1>2. W /\ [Next]_vars => W'
  BY DEF Next, vars, BeginSweep, BeginCheck, ProbeEnds, LastProbeEnds, CommitHealth, FailsEarly,
         Commits, RegisterNode, FlushEdit, Responds, CommitEdit, WireChanges, Restart
<1> QED
  BY <1>1, <1>2, PTL DEF Spec

-----------------------------------------------------------------------------
\* StatusMatchesFailures, the roll-up of the header of health.py: while no two sessions have
\* loaded one node, a node shown as reachable has no failure pending, one with failures is
\* degraded or down, and from the threshold on down, for any checks on demand of other nodes.
THEOREM DisjointKeepStatus == Spec /\ []NoOverlap => []StatusMatchesFailures
<1>1. Init => IInv
  BY InitEstablishes
<1>2. /\ IInv /\ NoOverlap /\ wire \in [Nodes -> {"reachable", "degraded", "down"}]
      /\ [Next]_vars
      => IInv'
  BY StepPreserves
<1>3. IInv => StatusMatchesFailures
  BY DEF IInv
<1> QED
  BY <1>1, <1>2, <1>3, WireTyped, PTL DEF Spec

\* So it does where the sweep is the only writer of the two columns.
THEOREM SweepKeepsStatus ==
    ASSUME Checks = {} PROVE Spec => []StatusMatchesFailures
<1>1. NoOverlap
  BY DEF NoOverlap, Sessions
<1> QED
  BY <1>1, DisjointKeepStatus, PTL

-----------------------------------------------------------------------------
(* Types, with any number of sessions.                                     *)

\* A session has nodes still to probe among those it loaded, and a row of each.
SessionTyped(s) ==
    /\ DOMAIN s = {"todo", "loaded", "base", "copy"}
    /\ s.base \in [Nodes -> Health] /\ s.copy \in [Nodes -> Health]
    /\ s.loaded \subseteq Nodes /\ s.todo \in Seq(s.loaded)

TInv == TypeOK /\ \A p \in Sessions : SessionTyped(session[p])

LEMMA ClosedTyped == SessionTyped(Closed)
BY UncheckedAgrees DEF SessionTyped, Closed

LEMMA ProbingTyped ==
    ASSUME NEW s, SessionTyped(s), NEW order \in Seq(s.loaded)
    PROVE  SessionTyped(Probing(s, order))
BY ClosedTyped DEF Probing, SessionTyped

LEMMA LoadedTyped ==
    ASSUME TypeOK, NEW N, N \subseteq Nodes, NEW s, s = Loaded(N)
    PROVE  SessionTyped(s) /\ s.loaded = N
BY UncheckedAgrees DEF Loaded, Rows, SessionTyped, TypeOK

\* An order of the nodes is a sequence of them.
LEMMA OrderIsSeq ==
    ASSUME NEW N, N \subseteq Nodes, NEW order \in SetToSeqs(N)
    PROVE  order \in Seq(N)
<1>1. Cardinality(N) \in Nat
  BY NodesAssumption, FS_Subset, FS_CardinalityType
<1>2. order \in [1..Cardinality(N) -> N]
  BY DEF SetToSeqs
<1> QED
  BY <1>1, <1>2

\* A probe that ends: its result is in the session's copy.
LEMMA ProbedTyped ==
    ASSUME TInv, NEW p \in Sessions, session[p].todo # <<>>, NEW s,
           s = Probed(p)
    PROVE  /\ SessionTyped(s) /\ s.loaded = session[p].loaded
           /\ Tail(session[p].todo) \in Seq(s.loaded)
<1>1. PICK n : n = Head(session[p].todo)
  OBVIOUS
<1>2. SessionTyped(session[p]) /\ wire \in [Nodes -> {"reachable", "degraded", "down"}]
  BY DEF TInv, TypeOK
<1>3. /\ DOMAIN s = {"todo", "loaded", "base", "copy"}
      /\ s.base = session[p].base /\ s.loaded = session[p].loaded /\ s.todo = session[p].todo
      /\ s.copy = [session[p].copy EXCEPT ![n] = Fold(@, wire[n])]
  BY <1>1, <1>2 DEF SessionTyped, Probed
<1>4. n \in Nodes /\ Tail(session[p].todo) \in Seq(s.loaded)
  <2>1. PICK L : L = session[p].loaded
    OBVIOUS
  <2>2. PICK todo : todo = session[p].todo
    OBVIOUS
  <2>3. todo \in Seq(L) /\ todo # <<>> /\ L \subseteq Nodes
    BY <1>2, <2>1, <2>2 DEF SessionTyped
  <2>4. Head(todo) \in L /\ Tail(todo) \in Seq(L)
    BY <2>3
  <2> QED
    BY <1>1, <1>3, <2>1, <2>2, <2>3, <2>4
<1>5. Fold(session[p].copy[n], wire[n]) \in Health
  BY <1>2, <1>4, FoldAgrees DEF SessionTyped
<1>6. s.copy \in [Nodes -> Health]
  BY <1>2, <1>3, <1>5 DEF SessionTyped
<1> QED
  BY <1>2, <1>3, <1>4, <1>6 DEF SessionTyped

LEMMA UpdateTyped ==
    ASSUME TInv, NEW p \in Sessions, NEW s, SessionTyped(s), Update(p, s),
           health' \in [Nodes -> Health], loop' \in Sessions \cup {Free},
           UNCHANGED <<registry, enabled, keyless, wire, edit, restarts>>
    PROVE  TInv'
<1>1. DOMAIN session' = Sessions /\ \A q \in Sessions : session'[q] = s \/ session'[q] = session[q]
  BY DEF Update, TInv, TypeOK
<1>2. \A q \in Sessions : SessionTyped(session'[q])
  BY <1>1 DEF TInv
<1>3. TypeOK'
  BY <1>1, <1>2 DEF TInv, TypeOK, SessionTyped
<1> QED
  BY <1>2, <1>3 DEF TInv

LEMMA StepTyped == TInv /\ [Next]_vars => TInv'
<1> SUFFICES ASSUME TInv, [Next]_vars PROVE TInv'
  OBVIOUS
<1>0. /\ TypeOK /\ health \in [Nodes -> Health] /\ Sweep \in Sessions
      /\ loop \in Sessions \cup {Free}
  BY DEF TInv, TypeOK, Sessions
<1>1. CASE BeginSweep
  <2>1. PICK N : N = {n \in Nodes : registry[n] = "in" /\ enabled[n]}
    OBVIOUS
  <2>2. PICK order \in SetToSeqs(N) : Update(Sweep, Probing(Loaded(N), order))
    BY <1>1, <2>1 DEF BeginSweep
  <2>3. SessionTyped(Loaded(N)) /\ Loaded(N).loaded = N /\ N \subseteq Nodes
    BY <1>0, <2>1, LoadedTyped
  <2>4. SessionTyped(Probing(Loaded(N), order))
    BY <2>3, OrderIsSeq, ProbingTyped
  <2>5. UNCHANGED <<registry, enabled, health, keyless, wire, edit, loop, restarts>>
    BY <1>1 DEF BeginSweep
  <2> QED
    BY <1>0, <2>2, <2>4, <2>5, UpdateTyped
<1>2. ASSUME NEW p \in Checks, BeginCheck(p) PROVE TInv'
  <2>1. PICK n \in Nodes : Update(p, Probing(Loaded({n}), <<n>>))
    BY <1>2 DEF BeginCheck
  <2>2. SessionTyped(Loaded({n})) /\ Loaded({n}).loaded = {n}
    BY <1>0, LoadedTyped
  <2>3. SessionTyped(Probing(Loaded({n}), <<n>>))
    <3>1. <<n>> \in Seq({n})
      OBVIOUS
    <3>2. PICK s : s = Loaded({n})
      OBVIOUS
    <3>3. SessionTyped(s) /\ <<n>> \in Seq(s.loaded)
      BY <2>2, <3>1, <3>2
    <3> QED
      BY <3>2, <3>3, ProbingTyped
  <2>4. /\ UNCHANGED <<registry, enabled, health, keyless, wire, edit, loop, restarts>>
        /\ p \in Sessions
    BY <1>2 DEF BeginCheck, Sessions
  <2> QED
    BY <1>0, <2>1, <2>3, <2>4, UpdateTyped
<1>3. ASSUME NEW p \in Sessions, ProbeEnds(p) PROVE TInv'
  <2>1. PICK s : s = Probed(p)
    OBVIOUS
  <2>2. Update(p, Probing(s, Tail(session[p].todo))) /\ session[p].todo # <<>>
    BY <1>3, <2>1 DEF ProbeEnds
  <2>3. SessionTyped(Probing(s, Tail(session[p].todo)))
    BY <2>1, <2>2, ProbedTyped, ProbingTyped
  <2>4. UNCHANGED <<registry, enabled, health, keyless, wire, edit, loop, restarts>>
    BY <1>3 DEF ProbeEnds
  <2> QED
    BY <1>0, <2>2, <2>3, <2>4, UpdateTyped
<1>4. ASSUME NEW p \in Sessions, LastProbeEnds(p) PROVE TInv'
  <2>1. PICK s : s = Probed(p)
    OBVIOUS
  <2>2. /\ Update(p, [s EXCEPT !.todo = <<>>]) /\ session[p].todo # <<>>
        /\ loop' = p /\ UNCHANGED <<registry, enabled, health, keyless, wire, edit, restarts>>
    BY <1>4, <2>1 DEF LastProbeEnds
  <2>3. SessionTyped(s)
    BY <2>1, <2>2, ProbedTyped
  <2>4. SessionTyped([s EXCEPT !.todo = <<>>])
    <3>1. <<>> \in Seq(s.loaded)
      OBVIOUS
    <3> QED
      BY <2>3, <3>1 DEF SessionTyped
  <2> QED
    BY <1>0, <2>2, <2>4, UpdateTyped
<1>8. ASSUME NEW p \in Sessions, CommitHealth(p) \/ FailsEarly(p) PROVE TInv'
  <2>1. PICK s : s = session[p]
    OBVIOUS
  <2>2. /\ Update(p, Closed) /\ loop' = Free
        /\ \/ health' = [m \in Nodes |-> IF m \in s.loaded THEN Merged(s, m) ELSE health[m]]
           \/ UNCHANGED health
        /\ UNCHANGED <<registry, enabled, keyless, wire, edit, restarts>>
    BY <1>8, <2>1 DEF CommitHealth, FailsEarly, Commits
  <2>3. SessionTyped(s)
    BY <2>1 DEF TInv
  <2>4. \A m \in Nodes : Merged(s, m) \in Health
    BY <1>0, <2>3 DEF Merged, SessionTyped, Health
  <2>5. health' \in [Nodes -> Health]
    BY <1>0, <2>2, <2>4
  <2> QED
    BY <2>2, <2>5, ClosedTyped, UpdateTyped
<1>5. CASE Restart
  <2>1. \A p \in Sessions : SessionTyped(session'[p])
    BY <1>5, ClosedTyped DEF Restart
  <2>2. restarts' \in 0..MaxRestarts
    BY <1>0, <1>5, RestartsAssumption DEF Restart, TypeOK
  <2>3. TypeOK'
    BY <1>0, <1>5, <2>1, <2>2 DEF Restart, TypeOK, SessionTyped
  <2> QED
    BY <2>1, <2>3 DEF TInv
<1>6. ASSUME NEW n \in Nodes,
             RegisterNode(n) \/ FlushEdit(n) \/ Responds(n) \/ CommitEdit(n) \/ WireChanges(n)
      PROVE  TInv'
  <2>1. UNCHANGED <<health, keyless, session, loop, restarts>>
    BY <1>6 DEF RegisterNode, FlushEdit, Responds, CommitEdit, WireChanges
  <2>2. /\ registry' \in [Nodes -> {"new", "in", "out"}] /\ enabled' \in [Nodes -> BOOLEAN]
        /\ wire' \in [Nodes -> {"reachable", "degraded", "down"}]
        /\ edit' \in [Nodes -> {"none", "flushed", "closing"}]
    <3>1. CASE RegisterNode(n)
      BY <1>0, <3>1 DEF TypeOK, RegisterNode
    <3>2. CASE FlushEdit(n)
      BY <1>0, <3>2 DEF TypeOK, FlushEdit
    <3>3. CASE Responds(n)
      BY <1>0, <3>3 DEF TypeOK, Responds
    <3>4. CASE CommitEdit(n)
      BY <1>0, <3>4 DEF TypeOK, CommitEdit
    <3>5. CASE WireChanges(n)
      BY <1>0, <3>5 DEF TypeOK, WireChanges
    <3> QED
      BY <1>6, <3>1, <3>2, <3>3, <3>4, <3>5
  <2> QED
    BY <2>1, <2>2 DEF TInv, TypeOK
<1>7. CASE UNCHANGED vars
  BY <1>7 DEF vars, TInv, TypeOK
<1> QED
  BY <1>1, <1>2, <1>3, <1>4, <1>5, <1>6, <1>7, <1>8 DEF Next

\* Types, for any nodes and however many sessions overlap: a session probes nodes it has
\* loaded, and what it writes back is a status and a count within its bound.
THEOREM TypeCorrect == Spec => []TypeOK
<1>1. Init => TInv
  <2> SUFFICES ASSUME Init PROVE TInv
    OBVIOUS
  <2>1. \A p \in Sessions : SessionTyped(session[p])
    BY ClosedTyped DEF Init
  <2> QED
    BY <2>1, UncheckedAgrees, RestartsAssumption DEF Init, TInv, TypeOK, SessionTyped
<1>2. TInv => TypeOK
  BY DEF TInv
<1> QED
  BY <1>1, <1>2, StepTyped, PTL DEF Spec
=============================================================================
