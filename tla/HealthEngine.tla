---------------------------- MODULE HealthEngine ----------------------------
(***************************************************************************)
(* The health engine (app/services/health.py): the periodic sweep over the *)
(* enabled nodes, the on-demand check of one node (POST /nodes/{id}/check) *)
(* and the registry operations that change which nodes there are.          *)
(*                                                                         *)
(* The sweep loads every enabled node, awaits one probe after another and  *)
(* commits once, at the end.  A session writes the columns that differ     *)
(* from what it loaded: base[n] is the health of n as loaded, copy[n] as   *)
(* folded so far.  Each action is the code from one await to the next.     *)
(*                                                                         *)
(* The engine runs on the event loop, its commit included: while that      *)
(* waits for a row, `loop` is its session and nothing else runs there.     *)
(* PATCH and DELETE flush on a worker thread and hold the row from then    *)
(* on; the loop sends their commit to a thread again (as in Fleet).  A     *)
(* creation holds no row that the engine has loaded, and is one step.      *)
(*                                                                         *)
(* Abstracted: latency, last_error and timestamps, one of which every      *)
(* probe writes.  consecutive_failures is counted up to FailCap.           *)
(***************************************************************************)
EXTENDS Naturals, SequencesExt

CONSTANTS
    Nodes,
    MayBeKeyless,   \* nodes that may be registered without credentials
    Checks,         \* slots for on-demand checks
    Threshold,      \* settings.health_down_threshold
    FailCap,        \* bound on consecutive_failures
    MaxRestarts     \* bound on the crashes of the control plane

ASSUME NodesAssumption == IsFiniteSet(Nodes)
ASSUME KeylessAssumption == MayBeKeyless \subseteq Nodes
ASSUME ThresholdAssumption == Threshold \in Nat \ {0} /\ FailCap \in Nat /\ Threshold <= FailCap

Sweep == "sweep"

ASSUME RestartsAssumption == MaxRestarts \in Nat

Free == "free"

ASSUME SweepAssumption == Sweep \notin Checks /\ Free \notin Checks

Sessions == Checks \cup {Sweep}

VARIABLES
    registry,   \* node -> "new", "in" or "out" of the nodes table
    enabled,    \* node -> nodes.enabled
    health,     \* node -> its committed status and consecutive_failures
    keyless,    \* the nodes without token or secret: no adapter can be built
    wire,       \* node -> what a probe of it finds now
    session,    \* session -> the nodes it has still to probe, and its rows
    edit,       \* node -> how far an edit is that has flushed its row and holds it
    loop,       \* the session whose commit blocks the event loop, or Free
    restarts    \* crashes so far

vars == <<registry, enabled, health, keyless, wire, session, edit, loop, restarts>>

Unchecked == [status |-> "unknown", fails |-> 0]

Closed == [todo |-> <<>>, loaded |-> {}, base |-> [n \in Nodes |-> Unchecked],
           copy |-> [n \in Nodes |-> Unchecked]]

Init ==
    /\ registry = [n \in Nodes |-> "new"]
    /\ enabled = [n \in Nodes |-> FALSE]
    /\ health = [n \in Nodes |-> Unchecked]
    /\ keyless \in SUBSET MayBeKeyless
    /\ wire \in [Nodes -> {"reachable", "degraded", "down"}]
    /\ session = [p \in Sessions |-> Closed]
    /\ edit = [n \in Nodes |-> "none"]
    /\ loop = Free
    /\ restarts = 0

-----------------------------------------------------------------------------
\* Mutant: an answer takes one failure back.
FoldTakingBack(h, result) ==
    IF result = "reachable" THEN [status |-> "reachable", fails |-> h.fails - 1]
    ELSE LET f == IF h.fails < FailCap THEN h.fails + 1 ELSE FailCap
         IN  [status |-> IF f >= Threshold THEN "down" ELSE result, fails |-> f]

\* Mutant: a node that answers again keeps its count.
FoldKeepingCount(h, result) ==
    IF result = "reachable" THEN [status |-> "reachable", fails |-> h.fails]
    ELSE LET f == IF h.fails < FailCap THEN h.fails + 1 ELSE FailCap
         IN  [status |-> IF f >= Threshold THEN "down" ELSE result, fails |-> f]

\* Mutant: the threshold is off by one.
FoldOffByOne(h, result) ==
    IF result = "reachable" THEN [status |-> "reachable", fails |-> 0]
    ELSE LET f == IF h.fails < FailCap THEN h.fails + 1 ELSE FailCap
         IN  [status |-> IF f > Threshold THEN "down" ELSE result, fails |-> f]

\* Mutant: the roll-up ignores the threshold.
FoldWithoutThreshold(h, result) ==
    IF result = "reachable" THEN [status |-> "reachable", fails |-> 0]
    ELSE [status |-> result, fails |-> IF h.fails < FailCap THEN h.fails + 1 ELSE FailCap]

\* check_node: the result of a probe folded into the health of a node.
Fold(h, result) ==
    IF result = "reachable" THEN [status |-> "reachable", fails |-> 0]
    ELSE LET f == IF h.fails < FailCap THEN h.fails + 1 ELSE FailCap
         IN  [status |-> IF f >= Threshold THEN "down" ELSE result, fails |-> f]

\* The columns the session changed, over the row as it is now.
Merged(s, n) ==
    [status |-> IF s.copy[n].status # s.base[n].status
                THEN s.copy[n].status ELSE health[n].status,
     fails |-> IF s.copy[n].fails # s.base[n].fails THEN s.copy[n].fails ELSE health[n].fails]

Update(p, s) == session' = [session EXCEPT ![p] = s]

\* The session goes on to the nodes in order: the adapter of the first is built
\* outside _probe's try, so that one that cannot be built ends it.
Probing(s, order) ==
    IF Head(order) \in keyless THEN Closed ELSE [s EXCEPT !.todo = order]

Rows(N) == [n \in Nodes |-> IF n \in N THEN health[n] ELSE Unchecked]

Loaded(N) == [todo |-> <<>>, loaded |-> N, base |-> Rows(N), copy |-> Rows(N)]

\* Mutant: the sweep leaves out the nodes that are known to be down, as the views do.
BeginSweepOfAnswering ==
    /\ loop = Free /\ session[Sweep].todo = <<>>
    /\ LET N == {n \in Nodes : registry[n] = "in" /\ enabled[n] /\ health[n].status # "down"}
       IN  /\ N # {}
           /\ \E order \in SetToSeqs(N) : Update(Sweep, Probing(Loaded(N), order))
    /\ UNCHANGED <<registry, enabled, health, keyless, wire, edit, loop, restarts>>

\* sweep_once: SELECT the enabled nodes, in no particular order.
BeginSweep ==
    /\ loop = Free /\ session[Sweep].todo = <<>>
    /\ LET N == {n \in Nodes : registry[n] = "in" /\ enabled[n]}
       IN  /\ N # {}
           /\ \E order \in SetToSeqs(N) : Update(Sweep, Probing(Loaded(N), order))
    /\ UNCHANGED <<registry, enabled, health, keyless, wire, edit, loop, restarts>>

\* POST /nodes/{id}/check.
BeginCheck(p) ==
    /\ loop = Free /\ session[p].todo = <<>>
    /\ \E n \in Nodes :
         /\ registry[n] = "in"
         /\ Update(p, Probing(Loaded({n}), <<n>>))
    /\ UNCHANGED <<registry, enabled, health, keyless, wire, edit, loop, restarts>>

Probed(p) ==
    LET n == Head(session[p].todo) IN [session[p] EXCEPT !.copy[n] = Fold(@, wire[n])]

\* A probe ends before the last: its result is folded into the session's row.
ProbeEnds(p) ==
    /\ loop = Free /\ Len(session[p].todo) > 1
    /\ Update(p, Probing(Probed(p), Tail(session[p].todo)))
    /\ UNCHANGED <<registry, enabled, health, keyless, wire, edit, loop, restarts>>

\* The last probe ends, and the session commits: the loop is blocked until it has.
LastProbeEnds(p) ==
    /\ loop = Free /\ Len(session[p].todo) = 1
    /\ Update(p, [Probed(p) EXCEPT !.todo = <<>>])
    /\ loop' = p
    /\ UNCHANGED <<registry, enabled, health, keyless, wire, edit, restarts>>

Gone(p) == \E m \in session[p].loaded : registry[m] # "in"

\* The commit is over.  An UPDATE of a row that was deleted meanwhile matches nothing:
\* the session is rolled back.
Commits(p) ==
    /\ \/ /\ ~Gone(p)
          /\ health' = [m \in Nodes |-> IF m \in session[p].loaded THEN Merged(session[p], m)
                                        ELSE health[m]]
       \/ /\ Gone(p)
          /\ UNCHANGED health
    /\ Update(p, Closed)
    /\ loop' = Free
    /\ UNCHANGED <<registry, enabled, keyless, wire, edit, restarts>>

Held(n) == edit[n] # "none"

\* The rows are free, or become free one after the other.
CommitHealth(p) ==
    /\ loop = p /\ \A m \in session[p].loaded : ~Held(m)
    /\ Commits(p)

\* A deleted row comes before the one that is held.
FailsEarly(p) ==
    /\ loop = p /\ Gone(p)
    /\ Commits(p)

\* The control plane restarts: what was not committed is gone.
Restart ==
    /\ session' = [p \in Sessions |-> Closed]
    /\ edit' = [n \in Nodes |-> "none"]
    /\ loop' = Free
    /\ restarts < MaxRestarts
    /\ restarts' = restarts + 1
    /\ UNCHANGED <<registry, enabled, health, keyless, wire>>

-----------------------------------------------------------------------------
\* POST, PATCH and DELETE /nodes: none of them touches the health columns.
RegisterNode(n) ==
    /\ registry[n] = "new"
    /\ registry' = [registry EXCEPT ![n] = "in"]
    /\ \E on \in BOOLEAN : enabled' = [enabled EXCEPT ![n] = on]
    /\ UNCHANGED <<health, keyless, wire, session, edit, loop, restarts>>

\* session.flush() of a PATCH or DELETE on a worker thread: the edit holds the row.
FlushEdit(n) ==
    /\ registry[n] = "in" /\ ~Held(n)
    /\ edit' = [edit EXCEPT ![n] = "flushed"]
    /\ UNCHANGED <<registry, enabled, health, keyless, wire, session, loop, restarts>>

\* The handler has returned; the loop hands get_session's exit to a thread.
Responds(n) ==
    /\ loop = Free /\ edit[n] = "flushed"
    /\ edit' = [edit EXCEPT ![n] = "closing"]
    /\ UNCHANGED <<registry, enabled, health, keyless, wire, session, loop, restarts>>

\* get_session commits, and what the edit was shows: it turned `enabled`, or deleted
\* the node, or changed another column.
CommitEdit(n) ==
    /\ edit[n] = "closing"
    /\ \/ enabled' = [enabled EXCEPT ![n] = ~@] /\ UNCHANGED registry
       \/ registry' = [registry EXCEPT ![n] = "out"] /\ UNCHANGED enabled
       \/ UNCHANGED <<registry, enabled>>
    /\ edit' = [edit EXCEPT ![n] = "none"]
    /\ UNCHANGED <<health, keyless, wire, session, loop, restarts>>

\* A node, or the way to it, changes.
WireChanges(n) ==
    /\ \E w \in {"reachable", "degraded", "down"} \ {wire[n]} : wire' = [wire EXCEPT ![n] = w]
    /\ UNCHANGED <<registry, enabled, health, keyless, session, edit, loop, restarts>>

Next ==
    \/ BeginSweep
    \/ \E p \in Checks : BeginCheck(p)
    \/ \E p \in Sessions : ProbeEnds(p) \/ LastProbeEnds(p) \/ CommitHealth(p) \/ FailsEarly(p)
    \/ \E n \in Nodes : \/ RegisterNode(n) \/ FlushEdit(n) \/ Responds(n) \/ CommitEdit(n)
                        \/ WireChanges(n)
    \/ Restart

Spec == Init /\ [][Next]_vars

\* A step of the sweep on the loop.
SweepStep == BeginSweep \/ ProbeEnds(Sweep) \/ LastProbeEnds(Sweep)

\* The engine sweeps again after every interval, wait_for ends every probe, and the loop
\* runs what is ready in the order in which it became so: though others may block it in
\* between, a sweep that is ready again and again has its turn (SF).  A commit goes
\* through once its rows are free; a thread that has an edit to commit does.  Nothing
\* is assumed of the checks and of the edits before they respond.
Fairness ==
    /\ SF_vars(SweepStep)
    /\ WF_vars(\E p \in Sessions : CommitHealth(p))
    /\ \A n \in Nodes : WF_vars(CommitEdit(n))

FairSpec == Spec /\ Fairness

-----------------------------------------------------------------------------
(* Properties.                                                             *)

Health == [status : {"unknown", "reachable", "degraded", "down"}, fails : 0..FailCap]

TypeOK ==
    /\ registry \in [Nodes -> {"new", "in", "out"}]
    /\ enabled \in [Nodes -> BOOLEAN]
    /\ health \in [Nodes -> Health]
    /\ keyless \subseteq MayBeKeyless
    /\ wire \in [Nodes -> {"reachable", "degraded", "down"}]
    /\ edit \in [Nodes -> {"none", "flushed", "closing"}]
    /\ loop \in Sessions \cup {Free}
    /\ restarts \in 0..MaxRestarts
    /\ DOMAIN session = Sessions
    /\ \A p \in Sessions : /\ session[p].base \in [Nodes -> Health]
                           /\ session[p].copy \in [Nodes -> Health]
                           /\ session[p].loaded \subseteq Nodes
                           /\ session[p].todo \in Seq(session[p].loaded)

\* A status and a count that belong together.
Agree(h) ==
    /\ h.status \in {"unknown", "reachable"} <=> h.fails = 0
    /\ h.fails >= Threshold => h.status = "down"

\* The roll-up the module's header promises: no failure is pending on a node shown
\* as reachable, a node with failures is shown as degraded or down, and from the
\* threshold on as down.  Two columns, written together by sessions that overlap
\* with restarts, deletions and, if there are checks on demand, other sessions.
StatusMatchesFailures == \A n \in Nodes : Agree(health[n])

Watched(n) == registry[n] = "in" /\ enabled[n]

\* The commit waits for a row that an edit holds, and the edit needs the loop to commit:
\* only a restart ends it.
Wedged == loop # Free /\ \E n \in session[loop].loaded : edit[n] = "flushed"

\* A sweep over such a node ends without a commit, when it comes to the node.
KeylessWatched == \E n \in keyless : Watched(n)

\* A node that stays up is shown as reachable, without failures, from some time
\* on, however checks overlap with the sweep and whatever happens to the other nodes
\* of it: a deletion costs them the results of one sweep.  Unless the loop is wedged,
\* or nodes without an adapter are enabled again and again.
UpIsSeen ==
    \A n \in Nodes :
        <>[](Watched(n) /\ n \notin keyless /\ wire[n] = "reachable")
        => \/ <>[](health[n] = [status |-> "reachable", fails |-> 0])
           \/ <>[]Wedged \/ []<>KeylessWatched

\* A node that stays out of order is shown as down from some time on: lost updates
\* between overlapping sessions delay the threshold, they do not prevent it.
OutageIsSeen ==
    \A n \in Nodes :
        <>[](Watched(n) /\ n \notin keyless /\ wire[n] = "degraded")
        => \/ <>[](health[n].status = "down")
           \/ <>[]Wedged \/ []<>KeylessWatched
=============================================================================
