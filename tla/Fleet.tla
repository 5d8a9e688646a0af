------------------------------- MODULE Fleet -------------------------------
(***************************************************************************)
(* The node registry and what goes over all nodes: the sync sweep and the  *)
(* dashboard (app/services/nodes.py, sync.py, dashboard.py,                *)
(* app/api/routes/nodes.py, dashboard.py, app/adapters/factory.py).        *)
(*                                                                         *)
(* Registry edits are `def` handlers: they load and flush on a worker      *)
(* thread, but it is the event loop that then sends get_session's commit   *)
(* to a thread again.  From the flush to the commit they hold the row.     *)
(* Syncs and views are coroutines of the loop.  Database calls block it:   *)
(* `loop` is the sync whose commit waits for a row, or Free.               *)
(*                                                                         *)
(* Abstracted: the placements (Provisioning); the health of nodes          *)
(* (HealthEngine), so that any node may be known to be down; the columns   *)
(* of a node but `enabled`; names, whose clash ends an edit without        *)
(* effect; and the data that a node answers with.  A node whose adapter    *)
(* implements no reads (mongo, ssh) is one that never answers: syncs and   *)
(* views catch its NotImplementedError like an AdapterError.               *)
(***************************************************************************)
EXTENDS SequencesExt

CONSTANTS
    Nodes,          \* node ids
    MayBeKeyless,   \* nodes that may be registered without credentials
    Editors,        \* slots for registry edits under way
    OnDemand,       \* slots for POST /nodes/{id}/sync
    MaxEvents       \* bound on the edits and the crashes of the control plane

ASSUME NodesAssumption == IsFiniteSet(Nodes)
ASSUME KeylessAssumption == MayBeKeyless \subseteq Nodes
ASSUME BoundsAssumption == MaxEvents \in Nat
ASSUME SlotsAssumption == "sweep" \notin OnDemand /\ "free" \notin OnDemand

VARIABLES
    registry,   \* node -> "new", "in" or "out" of the nodes table
    enabled,    \* node -> nodes.enabled
    keyless,    \* the nodes without token or secret: no adapter can be built
    answers,    \* node -> the node answers calls now
    editor,     \* slot -> the edit it serves
    todo,       \* sync -> the nodes it has still to sync, the first being called
    view,       \* the dashboard request
    loop,       \* the sync that blocks the event loop, or Free
    events      \* edits and crashes so far

vars == <<registry, enabled, keyless, answers, editor, todo, view, loop, events>>

Free == "free"

Sweep == "sweep"

Syncs == OnDemand \cup {Sweep}

Idle == [pc |-> "idle", op |-> "none", node |-> CHOOSE n \in Nodes : TRUE, to |-> FALSE]

NoView == [pc |-> "idle", waits |-> {}, failed |-> {}]

\* The node is reached, and lists what it is asked for.
Answering(n) == n \notin keyless /\ answers[n]

Known == {n \in Nodes : registry[n] = "in"}

\* The control plane starts over the table that an earlier one has left.
Init ==
    /\ registry \in [Nodes -> {"new", "in"}]
    /\ keyless \in SUBSET MayBeKeyless
    /\ enabled \in [Nodes -> BOOLEAN] /\ \A n \in Nodes : enabled[n] => n \in Known
    /\ answers \in [Nodes \ keyless -> BOOLEAN]
    /\ editor = [e \in Editors |-> Idle]
    /\ todo = [p \in Syncs |-> <<>>]
    /\ view = NoView
    /\ loop = Free
    /\ events = 0

-----------------------------------------------------------------------------
(* Edits.                                                                  *)

Edit(e, h) == editor' = [editor EXCEPT ![e] = h]

\* Mutant: a sync writes the row before its call.
LockedByCalls(n) ==
    \/ \E e \in Editors : editor[e].pc \in {"flushed", "closing"} /\ editor[e].node = n
    \/ \E p \in Syncs : todo[p] # <<>> /\ Head(todo[p]) = n

\* The row is locked: some edit has flushed it and not committed.  (A sync flushes it in
\* its commit.)
Locked(n) == \E e \in Editors : editor[e].pc \in {"flushed", "closing"} /\ editor[e].node = n

\* POST /nodes, and PATCH and DELETE /nodes/{id} of a node that is found: a PATCH
\* turns `enabled`, or changes something else.
BeginEdit(e) ==
    /\ editor[e].pc = "idle" /\ events < MaxEvents /\ loop = Free
    /\ \E n \in Nodes, op \in {"create", "turn", "change", "delete"}, b \in BOOLEAN :
         /\ registry[n] = IF op = "create" THEN "new" ELSE "in"
         /\ op = "turn" => b = ~enabled[n]
         /\ op \in {"change", "delete"} => b = FALSE
         /\ op = "create" => \A d \in Editors : editor[d].node = n => editor[d].op # "create"
         /\ Edit(e, [pc |-> "loaded", op |-> op, node |-> n, to |-> b])
    /\ events' = events + 1
    /\ UNCHANGED <<registry, enabled, keyless, answers, todo, view, loop>>

\* Mutant: the flush does not wait for the row.
FlushAtOnce(e) ==
    /\ editor[e].pc = "loaded"
    /\ Edit(e, IF registry[editor[e].node] = "out" THEN Idle
               ELSE [editor[e] EXCEPT !.pc = "flushed"])
    /\ UNCHANGED <<registry, enabled, keyless, answers, todo, view, loop, events>>

\* session.flush(), which waits for the row.  If that is gone there is nothing to hold:
\* an UPDATE of it raises StaleDataError, a DELETE only warns.
Flush(e) ==
    /\ editor[e].pc = "loaded" /\ ~Locked(editor[e].node)
    /\ Edit(e, IF registry[editor[e].node] = "out" THEN Idle
               ELSE [editor[e] EXCEPT !.pc = "flushed"])
    /\ UNCHANGED <<registry, enabled, keyless, answers, todo, view, loop, events>>

\* The handler has returned; the loop hands get_session's exit to a thread.
Responds(e) ==
    /\ editor[e].pc = "flushed" /\ loop = Free
    /\ Edit(e, [editor[e] EXCEPT !.pc = "closing"])
    /\ UNCHANGED <<registry, enabled, keyless, answers, todo, view, loop, events>>

\* get_session commits.
Commit(e) ==
    /\ editor[e].pc = "closing"
    /\ LET n == editor[e].node
           op == editor[e].op
       IN  /\ registry' = [registry EXCEPT ![n] = IF op = "create" THEN "in"
                                                  ELSE IF op = "delete" THEN "out" ELSE @]
           /\ enabled' = [enabled EXCEPT ![n] = IF op \in {"create", "turn"}
                                                THEN editor[e].to ELSE @]
    /\ Edit(e, Idle)
    /\ UNCHANGED <<keyless, answers, todo, view, loop, events>>

-----------------------------------------------------------------------------
(* Syncs.                                                                  *)

Sync(p, order) == todo' = [todo EXCEPT ![p] = order]

SyncOnly == UNCHANGED <<registry, enabled, keyless, answers, editor, view, events>>

\* sync_all: SELECT the enabled nodes, in no particular order.
BeginSweep ==
    /\ loop = Free /\ todo[Sweep] = <<>>
    /\ \E order \in SetToSeqs({n \in Known : enabled[n]}) : Sync(Sweep, order)
    /\ UNCHANGED loop /\ SyncOnly

\* POST /nodes/{id}/sync; a node whose adapter cannot be built raises without effect.
BeginSync(p) ==
    /\ loop = Free /\ p # Sweep /\ todo[p] = <<>>
    /\ \E n \in Known \ keyless : Sync(p, <<n>>)
    /\ UNCHANGED loop /\ SyncOnly

\* Mutant: what a stub or a bad adapter raises is not caught per node.
FailsThrough(p) ==
    /\ loop = Free /\ todo[p] # <<>>
    /\ LET n == Head(todo[p])
       IN  \/ n \notin keyless /\ ~answers[n] /\ Sync(p, Tail(todo[p]))
           \/ n \in keyless /\ Sync(p, <<>>)
    /\ UNCHANGED loop /\ SyncOnly

\* The node is not reached, or its adapter cannot be built: it is reported
\* unreachable, and the sweep goes on.
Fails(p) ==
    /\ loop = Free /\ todo[p] # <<>>
    /\ ~Answering(Head(todo[p]))
    /\ Sync(p, Tail(todo[p]))
    /\ UNCHANGED loop /\ SyncOnly

\* The end of sync_node.  If the node was deleted its UPDATE matches nothing; the
\* session stays unusable, and so the `except` of sync_all raises again when
\* it reads node.name: the whole sweep ends.
Commits(p) == Sync(p, IF registry[Head(todo[p])] = "in" THEN Tail(todo[p]) ELSE <<>>)

\* The list of users arrives and sync_node commits, or blocks the loop.
Answers(p) ==
    /\ loop = Free /\ todo[p] # <<>>
    /\ LET n == Head(todo[p])
       IN  /\ Answering(n)
           /\ \/ Locked(n) /\ loop' = p /\ UNCHANGED todo
              \/ ~Locked(n) /\ Commits(p) /\ UNCHANGED loop
    /\ SyncOnly

\* The row is free: the commit that blocked the loop goes through.
Resumes(p) ==
    /\ loop = p /\ ~Locked(Head(todo[p]))
    /\ Commits(p)
    /\ loop' = Free
    /\ SyncOnly

-----------------------------------------------------------------------------
(* The dashboard.                                                          *)

\* build_dashboard, search_users or list_servers: all fetches start at once, of the
\* nodes that are enabled and not known to be down.  An adapter that cannot be
\* built raises out of _fetch_node and out of gather; the other fetches go on,
\* but nobody waits for them.
BeginView ==
    /\ loop = Free /\ view.pc = "idle"
    /\ \E fetched \in SUBSET {n \in Known : enabled[n]} :
         LET bad == fetched \cap keyless
         IN  view' = IF bad # {} THEN [NoView EXCEPT !.pc = "failed", !.failed = bad]
                     ELSE IF fetched = {} THEN NoView
                     ELSE [NoView EXCEPT !.pc = "fetching", !.waits = fetched]
    /\ UNCHANGED <<registry, enabled, keyless, answers, editor, todo, loop, events>>

\* Mutant: what get_state or list_sessions raises leaves _fetch_node.
FetchedRaising(n) ==
    IF Answering(n) THEN [view EXCEPT !.waits = @ \ {n}]
    ELSE [pc |-> "failed", waits |-> {}, failed |-> {n}]

\* The fetch of n ends: its facts, or else an error note.
Fetched(n) == [view EXCEPT !.waits = @ \ {n}]

Fetch ==
    /\ loop = Free /\ view.pc = "fetching"
    /\ \E n \in view.waits :
         view' = IF Fetched(n).waits = {} /\ Fetched(n).pc = "fetching" THEN NoView
                 ELSE Fetched(n)
    /\ UNCHANGED <<registry, enabled, keyless, answers, editor, todo, loop, events>>

\* The view has failed: 500.
EndView ==
    /\ view.pc = "failed"
    /\ view' = NoView
    /\ UNCHANGED <<registry, enabled, keyless, answers, editor, todo, loop, events>>

-----------------------------------------------------------------------------
(* The surroundings.                                                       *)

\* A node starts or stops to answer.
NodeTurns ==
    /\ \E n \in DOMAIN answers : answers' = [answers EXCEPT ![n] = ~@]
    /\ UNCHANGED <<registry, enabled, keyless, editor, todo, view, loop, events>>

\* The control plane ends and starts again: what was not committed is rolled back.
Restart ==
    /\ events < MaxEvents
    /\ events' = events + 1
    /\ editor' = [e \in Editors |-> Idle]
    /\ todo' = [p \in Syncs |-> <<>>]
    /\ view' = NoView
    /\ loop' = Free
    /\ UNCHANGED <<registry, enabled, keyless, answers>>

SyncStep(p) == Fails(p) \/ Answers(p) \/ Resumes(p)

EditStep(e) == Flush(e) \/ Responds(e) \/ Commit(e)

Next ==
    \/ \E e \in Editors : BeginEdit(e) \/ EditStep(e)
    \/ BeginSweep \/ \E p \in Syncs : BeginSync(p) \/ SyncStep(p)
    \/ BeginView \/ Fetch \/ EndView
    \/ NodeTurns \/ Restart

\* Calls end at their timeout, threads and the loop go on with what is ready, and the
\* sync loop starts a sweep after each interval.
Fairness ==
    /\ WF_vars(BeginSweep) /\ WF_vars(Fetch)
    /\ \A p \in Syncs : WF_vars(SyncStep(p))
    /\ \A e \in Editors : WF_vars(EditStep(e))

Spec == Init /\ [][Next]_vars /\ Fairness

-----------------------------------------------------------------------------
(* Properties.                                                             *)

\* Types; and two edits never hold one row.
TypeOK ==
    /\ registry \in [Nodes -> {"new", "in", "out"}]
    /\ enabled \in [Nodes -> BOOLEAN]
    /\ \A d, e \in Editors : editor[d].pc \in {"flushed", "closing"} /\ d # e
                            /\ editor[e].pc \in {"flushed", "closing"}
                            => editor[d].node # editor[e].node
    /\ \A p \in Syncs : ToSet(todo[p]) \subseteq Nodes /\ IsInjective(todo[p])
    /\ view.waits \subseteq Nodes
    /\ loop \in Syncs \cup {Free}
    /\ keyless \subseteq MayBeKeyless
    /\ events \in 0..MaxEvents

\* The wait of which nothing in the code can get out: the edit needs the loop that
\* waits for it.
Wedged ==
    loop # Free /\ \E e \in Editors : /\ editor[e].pc = "flushed"
                                     /\ editor[e].node = Head(todo[loop])

\* That it never happens does not hold.
NeverWedged == ~Wedged

\* sync.py:104, "isolate per-node", as far as it goes: no node that is down or has
\* no adapter ends a sweep over others; only the deletion of the
\* node that is being synced does, or a crash.
SweepIsolates ==
    [][\A p \in Syncs : Len(todo[p]) > 1 /\ todo'[p] = <<>> =>
         registry[Head(todo[p])] = "out" \/ Restart]_vars

\* dashboard.py: "One slow or down node never blocks the others, and its live counts
\* degrade to zero [...] rather than failing the whole view".  Only a node
\* without an adapter fails the view.
ViewIsolates == view.pc = "failed" => view.failed \subseteq keyless

\* A node n is synced in this step.
Synced(n) ==
    \E p \in Syncs : /\ todo[p] # <<>> /\ Head(todo[p]) = n /\ todo'[p] = Tail(todo[p])
                     /\ Answering(n) /\ registry[n] = "in"

\* A node that stays enabled and answers is synced again and again, whatever happens to
\* other nodes, unless the loop is wedged.
NodesAreSynced ==
    \A n \in Nodes : \/ []<>(n \notin Known \/ ~enabled[n] \/ ~Answering(n))
                     \/ []<><<Synced(n)>>_vars
                     \/ <>[]Wedged

\* Syncs flush and commit without an await between, so that the loop never waits for one
\* of its own coroutines: it waits for an edit, and unless that needs the loop,
\* the wait ends.
WaitsEnd == loop # Free ~> loop = Free \/ Wedged
=============================================================================
