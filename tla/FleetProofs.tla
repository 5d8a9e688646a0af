----------------------------- MODULE FleetProofs -----------------------------
(***************************************************************************)
(* Proofs about Fleet: types, with the exclusion of two edits of one row;  *)
(* that a view fails only for a node without credentials; that a sweep     *)
(* over other nodes is ended only by a deletion or a crash; and that only  *)
(* a restart ends a wedge.                                                 *)
(*                                                                         *)
(* The one on sweeps is an action property that rests on a fact about the  *)
(* state: a node that a sync is still to visit was registered when it was  *)
(* selected, and no edit makes a registered node new, so that "not in the  *)
(* table" at the commit means deleted.                                     *)
(***************************************************************************)
EXTENDS Fleet, FiniteSetTheorems, TLAPS

Pcs == {"idle", "loaded", "flushed", "closing"}

EditOk(h) ==
    /\ DOMAIN h = {"pc", "op", "node", "to"}
    /\ h.pc \in Pcs /\ h.to \in BOOLEAN

\* The row is held by the edit.
Holds(h) == h.pc \in {"flushed", "closing"}

EditsOk ==
    /\ DOMAIN editor = Editors
    /\ \A e \in Editors : EditOk(editor[e])
    /\ \A d, e \in Editors : Holds(editor[d]) /\ Holds(editor[e]) /\ d # e
                            => editor[d].node # editor[e].node

\* An order in which a sync goes over nodes, in table r: each of them once, none of them
\* unregistered.
OrderOk(s, r) ==
    /\ s \in Seq(Nodes)
    /\ \A i, j \in DOMAIN s : s[i] = s[j] => i = j
    /\ \A i \in DOMAIN s : r[s[i]] # "new"

SyncsOk ==
    /\ DOMAIN todo = Syncs
    /\ \A p \in Syncs : OrderOk(todo[p], registry)
    /\ loop \in Syncs \cup {Free}
    /\ loop # Free => todo[loop] # <<>>

ViewOk ==
    /\ DOMAIN view = {"pc", "waits", "failed"}
    /\ view.waits \subseteq Nodes
    /\ view.pc = "failed" => view.failed \subseteq keyless

TableOk ==
    /\ registry \in [Nodes -> {"new", "in", "out"}]
    /\ enabled \in [Nodes -> BOOLEAN]
    /\ keyless \subseteq MayBeKeyless
    /\ events \in 0..MaxEvents

IInv == TableOk /\ EditsOk /\ SyncsOk /\ ViewOk

-----------------------------------------------------------------------------
(* Lemmas about orders and slots.                                          *)

LEMMA NoOrder == ASSUME NEW r PROVE OrderOk(<<>>, r)
BY DEF OrderOk

LEMMA RestOfOrder ==
    ASSUME NEW s, NEW r, OrderOk(s, r), s # <<>>
    PROVE  OrderOk(Tail(s), r) /\ Head(s) \in Nodes /\ r[Head(s)] # "new"
<1>1. s \in Seq(Nodes) /\ 1 \in DOMAIN s /\ Head(s) = s[1]
  BY DEF OrderOk
<1>2. /\ Tail(s) \in Seq(Nodes)
      /\ \A i \in DOMAIN Tail(s) : i + 1 \in DOMAIN s /\ Tail(s)[i] = s[i + 1] /\ i \in Nat
  BY <1>1
<1> QED
  BY <1>1, <1>2 DEF OrderOk

\* SELECT gives each row once.
LEMMA SelectedOrder ==
    ASSUME NEW N, N \subseteq Nodes, NEW r, \A n \in N : r[n] # "new",
           NEW s \in SetToSeqs(N)
    PROVE  OrderOk(s, r)
<1>1. Cardinality(N) \in Nat
  BY NodesAssumption, FS_Subset, FS_CardinalityType
<1>2. s \in [1..Cardinality(N) -> N]
      /\ \A i, j \in 1..Cardinality(N) : i # j => s[i] # s[j]
  BY DEF SetToSeqs
<1>3. s \in Seq(N) /\ DOMAIN s = 1..Cardinality(N)
  BY <1>1, <1>2
<1>4. \A i \in DOMAIN s : s[i] \in N
  BY <1>2, <1>3
<1> QED
  BY <1>2, <1>3, <1>4 DEF OrderOk

\* A slot that takes another edit keeps the exclusion if that holds no row, or the one
\* the slot held, or one that was free.
LEMMA EditKeeps ==
    ASSUME EditsOk, NEW e \in Editors, NEW h, EditOk(h), Edit(e, h),
           Holds(h) => \/ Holds(editor[e]) /\ h.node = editor[e].node
                       \/ ~Locked(h.node)
    PROVE  EditsOk'
<1>1. /\ DOMAIN editor' = Editors /\ editor'[e] = h
      /\ \A d \in Editors \ {e} : editor'[d] = editor[d]
  BY DEF Edit, EditsOk
<1>2. \A d \in Editors : EditOk(editor'[d])
  BY <1>1 DEF EditsOk
<1>3. ASSUME NEW d \in Editors, d # e, Holds(editor[d]), Holds(h) PROVE editor[d].node # h.node
  BY <1>3 DEF EditsOk, Holds, Locked
<1>4. ASSUME NEW c \in Editors, NEW d \in Editors, Holds(editor'[c]), Holds(editor'[d]), c # d
      PROVE  editor'[c].node # editor'[d].node
  BY <1>1, <1>3, <1>4 DEF EditsOk
<1> QED
  BY <1>1, <1>2, <1>4 DEF EditsOk

LEMMA IdleOk == ASSUME NEW h, h = Idle PROVE EditOk(h) /\ ~Holds(h)
BY DEF Idle, EditOk, Holds, Pcs

LEMMA NoViewOk ==
    ASSUME NEW v, v = NoView
    PROVE  DOMAIN v = {"pc", "waits", "failed"} /\ v.waits = {} /\ v.pc = "idle"
BY DEF NoView

-----------------------------------------------------------------------------
(* Edits.                                                                  *)

LEMMA BeginEditKeeps ==
    ASSUME IInv, NEW e \in Editors, BeginEdit(e)
    PROVE  IInv'
<1>1. /\ events < MaxEvents /\ events' = events + 1
      /\ UNCHANGED <<registry, enabled, keyless, answers, todo, view, loop>>
  BY DEF BeginEdit
<1>2. PICK n \in Nodes, op \in {"create", "turn", "change", "delete"}, b \in BOOLEAN :
         Edit(e, [pc |-> "loaded", op |-> op, node |-> n, to |-> b])
  BY DEF BeginEdit
<1>3. PICK h : h = [pc |-> "loaded", op |-> op, node |-> n, to |-> b]
  OBVIOUS
<1>4. EditOk(h) /\ ~Holds(h)
  BY <1>3 DEF EditOk, Holds, Pcs
<1>5. EditsOk'
  BY <1>2, <1>3, <1>4, EditKeeps DEF IInv
<1>6. events' \in 0..MaxEvents
  BY <1>1, BoundsAssumption DEF IInv, TableOk
<1> QED
  BY <1>1, <1>5, <1>6 DEF IInv, TableOk, SyncsOk, ViewOk

LEMMA FlushKeeps ==
    ASSUME IInv, NEW e \in Editors, Flush(e)
    PROVE  IInv'
<1>1. /\ ~Locked(editor[e].node)
      /\ UNCHANGED <<registry, enabled, keyless, answers, todo, view, loop, events>>
  BY DEF Flush
<1>2. PICK h : /\ h = Idle \/ h = [editor[e] EXCEPT !.pc = "flushed"]
               /\ Edit(e, h)
  BY DEF Flush
<1>3. EditOk(h) /\ (Holds(h) => h.node = editor[e].node)
  <2>1. EditOk(editor[e])
    BY DEF IInv, EditsOk
  <2>2. CASE h = Idle
    BY <2>2, IdleOk
  <2>3. CASE h = [editor[e] EXCEPT !.pc = "flushed"]
    BY <2>1, <2>3 DEF EditOk, Pcs
  <2> QED
    BY <1>2, <2>2, <2>3
<1>4. EditsOk'
  BY <1>1, <1>2, <1>3, EditKeeps DEF IInv
<1> QED
  BY <1>1, <1>4 DEF IInv, TableOk, SyncsOk, ViewOk

LEMMA RespondsKeeps ==
    ASSUME IInv, NEW e \in Editors, Responds(e)
    PROVE  IInv'
<1>1. /\ editor[e].pc = "flushed" /\ Edit(e, [editor[e] EXCEPT !.pc = "closing"])
      /\ UNCHANGED <<registry, enabled, keyless, answers, todo, view, loop, events>>
  BY DEF Responds
<1>2. PICK h : h = [editor[e] EXCEPT !.pc = "closing"]
  OBVIOUS
<1>3. EditOk(editor[e]) /\ Holds(editor[e])
  BY <1>1 DEF IInv, EditsOk, Holds
<1>4. EditOk(h) /\ h.node = editor[e].node
  BY <1>2, <1>3 DEF EditOk, Pcs
<1>5. EditsOk'
  BY <1>1, <1>2, <1>3, <1>4, EditKeeps DEF IInv
<1> QED
  BY <1>1, <1>5 DEF IInv, TableOk, SyncsOk, ViewOk

LEMMA CommitKeeps ==
    ASSUME IInv, NEW e \in Editors, Commit(e)
    PROVE  IInv'
<1>1. PICK n, op, to : n = editor[e].node /\ op = editor[e].op /\ to = editor[e].to
  OBVIOUS
<1>2. /\ registry' = [registry EXCEPT ![n] = IF op = "create" THEN "in"
                                            ELSE IF op = "delete" THEN "out" ELSE @]
      /\ enabled' = [enabled EXCEPT ![n] = IF op \in {"create", "turn"} THEN to ELSE @]
      /\ Edit(e, Idle)
      /\ UNCHANGED <<keyless, answers, todo, view, loop, events>>
  BY <1>1 DEF Commit
<1>3. TableOk /\ to \in BOOLEAN
  BY <1>1 DEF IInv, EditsOk, EditOk
<1>4. PICK h : h = Idle
  OBVIOUS
<1>5. EditsOk'
  BY <1>2, <1>4, IdleOk, EditKeeps DEF IInv
<1>6. /\ registry' \in [Nodes -> {"new", "in", "out"}]
      /\ \A m \in Nodes : registry'[m] = "new" => registry[m] = "new"
  BY <1>2, <1>3 DEF TableOk
<1>7. enabled' \in [Nodes -> BOOLEAN]
  BY <1>2, <1>3 DEF TableOk
<1>8. \A p \in Syncs : OrderOk(todo[p], registry')
  BY <1>6 DEF IInv, SyncsOk, OrderOk
<1>9. SyncsOk'
  BY <1>2, <1>8 DEF IInv, SyncsOk
<1> QED
  BY <1>2, <1>3, <1>5, <1>6, <1>7, <1>9 DEF IInv, TableOk, ViewOk

-----------------------------------------------------------------------------
(* Syncs.                                                                  *)

LEMMA SyncKeeps ==
    ASSUME IInv, NEW p \in Syncs, NEW s, OrderOk(s, registry), Sync(p, s), SyncOnly,
           loop' = Free
    PROVE  IInv'
<1>1. UNCHANGED <<registry, enabled, keyless, answers, editor, view, events>>
  BY DEF SyncOnly
<1>2. DOMAIN todo' = Syncs /\ \A q \in Syncs : todo'[q] = s \/ todo'[q] = todo[q]
  BY DEF Sync, IInv, SyncsOk
<1>3. \A q \in Syncs : OrderOk(todo'[q], registry)
  BY <1>2 DEF IInv, SyncsOk
<1>4. SyncsOk'
  BY <1>1, <1>2, <1>3 DEF SyncsOk
<1> QED
  BY <1>1, <1>4 DEF IInv, TableOk, EditsOk, ViewOk

LEMMA BeginSweepKeeps == ASSUME IInv, BeginSweep PROVE IInv'
<1>1. PICK N : N = {n \in Known : enabled[n]}
  OBVIOUS
<1>2. PICK order \in SetToSeqs(N) : Sync(Sweep, order)
  BY <1>1 DEF BeginSweep
<1>3. N \subseteq Nodes /\ \A n \in N : registry[n] # "new"
  BY <1>1 DEF Known
<1>4. OrderOk(order, registry)
  BY <1>2, <1>3, SelectedOrder
<1>5. SyncOnly /\ loop' = Free /\ Sweep \in Syncs
  BY DEF BeginSweep, Syncs
<1> QED
  BY <1>2, <1>4, <1>5, SyncKeeps

LEMMA BeginSyncKeeps == ASSUME IInv, NEW p \in Syncs, BeginSync(p) PROVE IInv'
<1>1. PICK n \in Known : Sync(p, <<n>>)
  BY DEF BeginSync
<1>2. n \in Nodes /\ registry[n] # "new"
  BY DEF Known
<1>3. PICK s : s = <<n>>
  OBVIOUS
<1>4. s \in Seq(Nodes) /\ DOMAIN s = {1} /\ s[1] = n
  BY <1>2, <1>3
<1>5. OrderOk(s, registry)
  BY <1>2, <1>4 DEF OrderOk
<1>6. SyncOnly /\ loop' = Free
  BY DEF BeginSync
<1> QED
  BY <1>1, <1>3, <1>5, <1>6, SyncKeeps

LEMMA FailsKeeps == ASSUME IInv, NEW p \in Syncs, Fails(p) PROVE IInv'
<1>1. todo[p] # <<>> /\ Sync(p, Tail(todo[p])) /\ SyncOnly /\ loop' = Free
  BY DEF Fails
<1>2. OrderOk(Tail(todo[p]), registry)
  BY <1>1, RestOfOrder DEF IInv, SyncsOk
<1> QED
  BY <1>1, <1>2, SyncKeeps

LEMMA CommitsKeeps ==
    ASSUME IInv, NEW p \in Syncs, todo[p] # <<>>, Commits(p), SyncOnly,
           loop' = Free
    PROVE  IInv'
<1>1. PICK s : s = (IF registry[Head(todo[p])] = "in" THEN Tail(todo[p]) ELSE <<>>)
  OBVIOUS
<1>2. OrderOk(s, registry)
  BY <1>1, RestOfOrder, NoOrder DEF IInv, SyncsOk
<1> QED
  BY <1>1, <1>2, SyncKeeps DEF Commits

LEMMA AnswersKeeps == ASSUME IInv, NEW p \in Syncs, Answers(p) PROVE IInv'
<1>1. SyncOnly /\ todo[p] # <<>> /\ loop = Free
  BY DEF Answers
<1>2. CASE loop' = p /\ UNCHANGED todo
  BY <1>1, <1>2 DEF SyncOnly, IInv, TableOk, EditsOk, SyncsOk, ViewOk
<1>3. CASE Commits(p) /\ UNCHANGED loop
  BY <1>1, <1>3, CommitsKeeps
<1> QED
  BY <1>2, <1>3 DEF Answers

\* A sync that blocks the loop has still the node to commit.
LEMMA ResumesKeeps == ASSUME IInv, NEW p \in Syncs, Resumes(p) PROVE IInv'
<1>1. loop = p /\ Commits(p) /\ loop' = Free /\ SyncOnly
  BY DEF Resumes
<1>2. p # Free
  BY SlotsAssumption DEF Syncs, Free, Sweep
<1>3. todo[p] # <<>>
  BY <1>1, <1>2 DEF IInv, SyncsOk
<1> QED
  BY <1>1, <1>3, CommitsKeeps

-----------------------------------------------------------------------------
(* Views, and the surroundings.                                            *)

LEMMA ViewKeeps ==
    ASSUME IInv, BeginView \/ Fetch \/ EndView
    PROVE  IInv'
<1>1. UNCHANGED <<registry, enabled, keyless, answers, editor, todo, loop, events>>
  BY DEF BeginView, Fetch, EndView
<1>2. PICK v : v = NoView
  OBVIOUS
<1>3. DOMAIN v = {"pc", "waits", "failed"} /\ v.waits = {} /\ v.pc = "idle"
  BY <1>2, NoViewOk
<1>4. ASSUME view' = NoView PROVE ViewOk'
  BY <1>2, <1>3, <1>4 DEF ViewOk
<1>5. CASE BeginView
  <2>1. PICK fetched \in SUBSET {n \in Known : enabled[n]} :
         LET bad == fetched \cap keyless
         IN  view' = IF bad # {} THEN [NoView EXCEPT !.pc = "failed", !.failed = bad]
                     ELSE IF fetched = {} THEN NoView
                     ELSE [NoView EXCEPT !.pc = "fetching", !.waits = fetched]
    BY <1>5 DEF BeginView
  <2>2. \/ view' = [v EXCEPT !.pc = "failed", !.failed = fetched \cap keyless]
        \/ view' = v
        \/ view' = [v EXCEPT !.pc = "fetching", !.waits = fetched]
    BY <1>2, <2>1
  <2>3. fetched \subseteq Nodes
    BY DEF Known
  <2>4. /\ DOMAIN view' = {"pc", "waits", "failed"} /\ view'.waits \subseteq Nodes
        /\ view'.pc = "failed" => view'.failed \subseteq keyless
    <3>1. CASE view' = [v EXCEPT !.pc = "failed", !.failed = fetched \cap keyless]
      BY <1>3, <3>1
    <3>2. CASE view' = v
      BY <1>3, <3>2
    <3>3. CASE view' = [v EXCEPT !.pc = "fetching", !.waits = fetched]
      BY <1>3, <2>3, <3>3
    <3> QED
      BY <2>2, <3>1, <3>2, <3>3
  <2>5. ViewOk'
    BY <1>1, <2>4 DEF ViewOk
  <2> QED
    BY <1>1, <2>5 DEF IInv, TableOk, EditsOk, SyncsOk
<1>6. CASE Fetch
  <2>1. view.pc = "fetching" /\ ViewOk
    BY <1>6 DEF Fetch, IInv
  <2>2. PICK n \in view.waits : view' = NoView \/ view' = [view EXCEPT !.waits = @ \ {n}]
    BY <1>6 DEF Fetch, Fetched
  <2>3. ViewOk'
    BY <1>4, <2>1, <2>2 DEF ViewOk
  <2> QED
    BY <1>1, <2>3 DEF IInv, TableOk, EditsOk, SyncsOk
<1>7. CASE EndView
  <2>1. ViewOk'
    BY <1>4, <1>7 DEF EndView
  <2> QED
    BY <1>1, <2>1 DEF IInv, TableOk, EditsOk, SyncsOk
<1> QED
  BY <1>5, <1>6, <1>7

LEMMA RestartKeeps == ASSUME IInv, Restart PROVE IInv'
<1>1. /\ events < MaxEvents /\ events' = events + 1
      /\ editor' = [e \in Editors |-> Idle] /\ todo' = [p \in Syncs |-> <<>>]
      /\ view' = NoView /\ loop' = Free /\ UNCHANGED <<registry, enabled, keyless>>
  BY DEF Restart
<1>2. PICK h : h = Idle
  OBVIOUS
<1>3. EditsOk'
  BY <1>1, <1>2, IdleOk DEF EditsOk
<1>4. SyncsOk'
  BY <1>1, NoOrder DEF SyncsOk
<1>5. PICK v : v = NoView
  OBVIOUS
<1>6. ViewOk'
  BY <1>1, <1>5, NoViewOk DEF ViewOk
<1>7. TableOk'
  BY <1>1, BoundsAssumption DEF IInv, TableOk
<1> QED
  BY <1>3, <1>4, <1>6, <1>7 DEF IInv

-----------------------------------------------------------------------------
(* The invariant, and the theorems.                                        *)

LEMMA InitEstablishes == Init => IInv
<1> SUFFICES ASSUME Init PROVE IInv
  OBVIOUS
<1>1. TableOk
  BY BoundsAssumption DEF Init, TableOk
<1>2. PICK h : h = Idle
  OBVIOUS
<1>3. EditsOk
  BY <1>2, IdleOk DEF Init, EditsOk
<1>4. SyncsOk
  BY NoOrder DEF Init, SyncsOk
<1>5. PICK v : v = NoView
  OBVIOUS
<1>6. ViewOk
  BY <1>5, NoViewOk DEF Init, ViewOk
<1> QED
  BY <1>1, <1>3, <1>4, <1>6 DEF IInv

LEMMA StepPreserves == IInv /\ [Next]_vars => IInv'
<1> SUFFICES ASSUME IInv, [Next]_vars PROVE IInv'
  OBVIOUS
<1>1. CASE UNCHANGED vars
  BY <1>1 DEF vars, IInv, TableOk, EditsOk, SyncsOk, ViewOk
<1>2. ASSUME NEW e \in Editors, BeginEdit(e) \/ EditStep(e) PROVE IInv'
  BY <1>2, BeginEditKeeps, FlushKeeps, RespondsKeeps, CommitKeeps DEF EditStep
<1>3. CASE BeginSweep
  BY <1>3, BeginSweepKeeps
<1>4. ASSUME NEW p \in Syncs, BeginSync(p) \/ SyncStep(p) PROVE IInv'
  BY <1>4, BeginSyncKeeps, FailsKeeps, AnswersKeeps, ResumesKeeps DEF SyncStep
<1>5. CASE BeginView \/ Fetch \/ EndView
  BY <1>5, ViewKeeps
<1>6. CASE NodeTurns
  BY <1>6 DEF NodeTurns, IInv, TableOk, EditsOk, SyncsOk, ViewOk
<1>7. CASE Restart
  BY <1>7, RestartKeeps
<1> QED
  BY <1>1, <1>2, <1>3, <1>4, <1>5, <1>6, <1>7 DEF Next

\* The inductive invariant holds in every state of every run.
THEOREM Invariance == Spec => []IInv
BY InitEstablishes, StepPreserves, PTL DEF Spec

\* Types; no two edits hold one row between flush and commit, and a sync goes over each
\* node once.
THEOREM Typed == Spec => []TypeOK
<1>1. IInv => TypeOK
  <2> SUFFICES ASSUME IInv PROVE TypeOK
    OBVIOUS
  <2>1. \A p \in Syncs : ToSet(todo[p]) \subseteq Nodes /\ IsInjective(todo[p])
    BY DEF IInv, SyncsOk, OrderOk, ToSet, IsInjective
  <2>2. \A d, e \in Editors : editor[d].pc \in {"flushed", "closing"} /\ d # e
                              /\ editor[e].pc \in {"flushed", "closing"}
                              => editor[d].node # editor[e].node
    BY DEF IInv, EditsOk, Holds
  <2> QED
    BY <2>1, <2>2 DEF IInv, TableOk, SyncsOk, ViewOk, TypeOK
<1> QED
  BY <1>1, Invariance, PTL

\* A node that is down or does not answer never fails a view: only one without
\* credentials, whose adapter cannot be built, does.
THEOREM ViewsIsolate == Spec => []ViewIsolates
<1>1. IInv => ViewIsolates
  BY DEF IInv, ViewOk, ViewIsolates
<1> QED
  BY <1>1, Invariance, PTL

\* A step that takes all the rest of a sync away is its commit on a deleted node.
LEMMA SweepEnds ==
    ASSUME IInv, Next, ~Restart, NEW p \in Syncs, Len(todo[p]) > 1, todo'[p] = <<>>
    PROVE  registry[Head(todo[p])] = "out"
<1>1. todo[p] \in Seq(Nodes) /\ todo[p] # <<>> /\ Tail(todo[p]) # <<>>
  <2>1. PICK s : s = todo[p]
    OBVIOUS
  <2>2. s \in Seq(Nodes) /\ Len(s) > 1
    BY <2>1 DEF IInv, SyncsOk, OrderOk
  <2>3. Len(Tail(s)) = Len(s) - 1 /\ Len(s) \in Nat
    BY <2>2
  <2>4. s # <<>> /\ Tail(s) # <<>>
    <3>1. Len(<<>>) = 0
      OBVIOUS
    <3>2. PICK k, l : k = Len(s) /\ l = Len(Tail(s))
      OBVIOUS
    <3>3. k \in Nat /\ k > 1 /\ l = k - 1
      BY <2>2, <2>3, <3>2
    <3>4. k # 0 /\ l # 0
      BY <3>3
    <3>5. Len(s) # 0 /\ Len(Tail(s)) # 0
      BY <3>2, <3>4
    <3> QED
      BY <3>1, <3>5, Zenon
  <2> QED
    BY <2>1, <2>2, <2>4
<1>2. registry[Head(todo[p])] \in {"in", "out"}
  BY <1>1, RestOfOrder DEF IInv, SyncsOk, TableOk
<1>3. PICK q \in Syncs : BeginSweep \/ BeginSync(q) \/ SyncStep(q)
  <2>1. todo' # todo
    BY <1>1
  <2> QED
    BY <2>1 DEF Next, BeginEdit, EditStep, Flush, Responds, Commit, BeginView, Fetch, EndView,
                NodeTurns, Syncs
<1>4. \A r \in Syncs : \A s : Sync(r, s) => todo'[p] = IF r = p THEN s ELSE todo[p]
  BY DEF Sync, IInv, SyncsOk
<1>5. CASE BeginSweep
  BY <1>1, <1>4, <1>5 DEF BeginSweep, Syncs
<1>6. CASE BeginSync(q)
  BY <1>1, <1>4, <1>6 DEF BeginSync
<1>7. CASE Fails(q)
  BY <1>1, <1>4, <1>7 DEF Fails
<1>8. CASE Answers(q) \/ Resumes(q)
  <2>1. Commits(q)
    BY <1>1, <1>8 DEF Answers, Resumes
  <2>2. q = p /\ registry[Head(todo[p])] # "in"
    BY <1>1, <1>4, <2>1 DEF Commits
  <2> QED
    BY <1>2, <2>2
<1> QED
  BY <1>3, <1>5, <1>6, <1>7, <1>8 DEF SyncStep

\* sync_all isolates the nodes: what a node answers or does not, and what is wrong with
\* its credentials, never ends a sweep that has other nodes to go to.
THEOREM SweepsIsolate == Spec => SweepIsolates
<1>1. IInv /\ [Next]_vars =>
        [\A p \in Syncs : Len(todo[p]) > 1 /\ todo'[p] = <<>> =>
           registry[Head(todo[p])] = "out" \/ Restart]_vars
  BY SweepEnds
<1> QED
  BY <1>1, Invariance, PTL DEF Spec, SweepIsolates

-----------------------------------------------------------------------------
(* The wedge.                                                              *)

\* No step but the restart of the control plane leads out of a wedge.
WedgeIsFinal == [][Wedged => Wedged' \/ Restart]_vars

\* Of a sync that blocks the loop and the edit that would answer: neither moves.
LEMMA WedgeHolds ==
    ASSUME IInv, Wedged, [Next]_vars, ~Restart
    PROVE  Wedged'
<1> DEFINE n == Head(todo[loop])
<1>1. PICK e \in Editors : editor[e].pc = "flushed" /\ editor[e].node = n
  BY DEF Wedged
<1>2. loop # Free /\ Locked(n)
  BY <1>1 DEF Wedged, Locked
<1>3. DOMAIN editor = Editors
  BY DEF IInv, EditsOk
<1>4. UNCHANGED <<todo, loop>>
  <2>1. ASSUME NEW p \in Syncs, SyncStep(p) PROVE FALSE
    BY <1>2, <2>1 DEF SyncStep, Fails, Answers, Resumes
  <2>2. ~BeginSweep /\ \A p \in Syncs : ~BeginSync(p)
    BY <1>2 DEF BeginSweep, BeginSync
  <2> QED
    BY <2>1, <2>2
       DEF Next, BeginEdit, EditStep, Flush, Responds, Commit, BeginView, Fetch, EndView,
           NodeTurns, vars
<1>5. editor'[e] = editor[e]
  <2>1. ASSUME NEW d \in Editors, BeginEdit(d) \/ EditStep(d) PROVE editor'[e] = editor[e]
    <3>1. d # e
      BY <1>1, <1>2, <2>1 DEF BeginEdit, EditStep, Flush, Responds, Commit
    <3>2. \E h : Edit(d, h)
      BY <2>1 DEF BeginEdit, EditStep, Flush, Responds, Commit
    <3> QED
      BY <1>3, <3>1, <3>2 DEF Edit
  <2> QED
    BY <2>1
       DEF Next, BeginSweep, BeginSync, SyncStep, Fails, Answers, Resumes, SyncOnly, BeginView,
           Fetch, EndView, NodeTurns, vars
<1> QED
  BY <1>1, <1>2, <1>4, <1>5 DEF Wedged

\* NodesAreSynced excepts the wedge, and WaitsEnd a wait that becomes one: the commit of
\* sync_node that waits for the row of an edit which needs the event loop.  For any nodes,
\* edits and syncs, only a restart ends that.
THEOREM WedgeStays == Spec => WedgeIsFinal
<1>1. IInv /\ [Next]_vars => [Wedged => Wedged' \/ Restart]_vars
  BY WedgeHolds
<1> QED
  BY <1>1, Invariance, PTL DEF Spec, WedgeIsFinal
=============================================================================
