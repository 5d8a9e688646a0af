------------------------------ MODULE AuditLog ------------------------------
(***************************************************************************)
(* The hash-chained audit log (app/services/audit.py, app/models/audit.py) *)
(* under the database sessions that append to it.                          *)
(*                                                                         *)
(* append() reads the hash of the last row its session can see, and then   *)
(* flushes a row that names it as prev_hash.  The row becomes visible to   *)
(* the other sessions only when the caller commits: PostgreSQL's READ      *)
(* COMMITTED hides it until then.  seq comes from a sequence, which a      *)
(* rollback does not give back.                                            *)
(*                                                                         *)
(* A handler declared `def` runs on a worker thread and may be overtaken   *)
(* between the two statements of append(); an `async def` handler runs on  *)
(* the only event-loop thread and keeps it from one await to the next.     *)
(* Each is a session here: Threads holds the first kind, Sessions \ Threads*)
(* the second.                                                             *)
(*                                                                         *)
(* SHA-256 is modelled as an injective function, the pair of its inputs.   *)
(***************************************************************************)
EXTENDS Naturals, FiniteSets

CONSTANTS
    Sessions,   \* the database sessions of concurrent handlers
    Threads,    \* those that run on a worker thread
    Payloads,   \* what _canonical() tells apart
    MaxSeq      \* bound on the sequence behind audit.seq

ASSUME ConstantsAssumption == Threads \subseteq Sessions /\ MaxSeq \in Nat

VARIABLES
    rows,       \* the committed rows of the audit table
    pending,    \* session -> the rows it has flushed and not committed
    phase,      \* session -> "idle", or "read" between _head_hash and flush
    head,       \* session -> the hash that _head_hash returned
    nextSeq     \* the next value of the sequence

vars == <<rows, pending, phase, head, nextSeq>>

GENESIS_HASH == <<>>

Hash(prev, payload) == <<prev, payload>>

Before(R, e) == {r \in R : r.seq < e.seq}

Last(R) == CHOOSE r \in R : \A q \in R : q.seq <= r.seq

HeadHash(R) == IF R = {} THEN GENESIS_HASH ELSE Last(R).hash

Entry(seq, prev, payload) ==
    [seq |-> seq, prev |-> prev, payload |-> payload, hash |-> Hash(prev, payload)]

\* Mutant: a session that reads what others have flushed (READ UNCOMMITTED).
VisibleDirty(s) == rows \cup UNION {pending[t] : t \in Sessions}

Visible(s) == rows \cup pending[s]

-----------------------------------------------------------------------------
(* verify_chain: the first row, in seq order, whose prev_hash or whose own *)
(* hash is not the recomputed one.                                         *)

\* Mutant: the loop forgets `prev = e.entry_hash`.
MismatchNotAdvanced(R, e) == e.prev # GENESIS_HASH \/ e.hash # Hash(e.prev, e.payload)

Mismatch(R, e) ==
    LET prev == HeadHash(Before(R, e))
    IN  e.prev # prev \/ e.hash # Hash(prev, e.payload)

ChainOk(R) == \A e \in R : ~Mismatch(R, e)

BrokenAt(R) ==
    LET bad == {e \in R : Mismatch(R, e)}
    IN  (CHOOSE e \in bad : \A f \in bad : e.seq <= f.seq).seq

-----------------------------------------------------------------------------
Init ==
    /\ rows = {}
    /\ pending = [s \in Sessions |-> {}]
    /\ phase = [s \in Sessions |-> "idle"]
    /\ head = [s \in Sessions |-> GENESIS_HASH]
    /\ nextSeq = 1

\* Handlers on the event loop do not overtake one another inside append().
HasThread(s) ==
    s \in Threads \/ \A t \in Sessions \ Threads : t # s => phase[t] = "idle"

\* append(), first statement: SELECT the row with the highest seq in sight.
ReadHead(s) ==
    /\ HasThread(s)
    /\ phase[s] = "idle"
    /\ phase' = [phase EXCEPT ![s] = "read"]
    /\ head' = [head EXCEPT ![s] = HeadHash(Visible(s))]
    /\ UNCHANGED <<rows, pending, nextSeq>>

\* append(), second statement: add and flush the row chained to that head.
Insert(s) ==
    /\ phase[s] = "read"
    /\ nextSeq <= MaxSeq
    /\ \E payload \in Payloads :
         pending' = [pending EXCEPT ![s] = @ \cup {Entry(nextSeq, head[s], payload)}]
    /\ nextSeq' = nextSeq + 1
    /\ phase' = [phase EXCEPT ![s] = "idle"]
    /\ UNCHANGED <<rows, head>>

\* The handler's session.commit().
Commit(s) ==
    /\ HasThread(s)
    /\ phase[s] = "idle"
    /\ pending[s] # {}
    /\ rows' = rows \cup pending[s]
    /\ pending' = [pending EXCEPT ![s] = {}]
    /\ UNCHANGED <<phase, head, nextSeq>>

\* Mutant: a rollback gives the numbers of its rows back.
RollbackReusingSeq(s) ==
    /\ HasThread(s)
    /\ phase[s] = "read" \/ pending[s] # {}
    /\ phase' = [phase EXCEPT ![s] = "idle"]
    /\ pending' = [pending EXCEPT ![s] = {}]
    /\ nextSeq' = nextSeq - Cardinality(pending[s])
    /\ UNCHANGED <<rows, head>>

\* An exception, or the process's end: the transaction is rolled back.
Rollback(s) ==
    /\ HasThread(s)
    /\ phase[s] = "read" \/ pending[s] # {}
    /\ phase' = [phase EXCEPT ![s] = "idle"]
    /\ pending' = [pending EXCEPT ![s] = {}]
    /\ UNCHANGED <<rows, head, nextSeq>>

Next == \E s \in Sessions : ReadHead(s) \/ Insert(s) \/ Commit(s) \/ Rollback(s)

Spec == Init /\ [][Next]_vars

-----------------------------------------------------------------------------
(* Properties.                                                             *)

\* A row carries a seq the sequence has already given out (a rollback never takes
\* one back), and its own recomputed hash.
IsRow(r) ==
    /\ r.seq \in 1..(nextSeq - 1)
    /\ r.payload \in Payloads
    /\ r.hash = Hash(r.prev, r.payload)

\* Every row, committed or not, is such a row; a session is in a phase of append().
TypeOK ==
    /\ nextSeq \in 1..(MaxSeq + 1)
    /\ \A r \in rows : IsRow(r)
    /\ DOMAIN pending = Sessions
    /\ \A s \in Sessions : \A r \in pending[s] : IsRow(r)
    /\ phase \in [Sessions -> {"idle", "read"}]
    /\ DOMAIN head = Sessions

\* A hash a session may chain to: the genesis hash or a row of R under seq n.
Rooted(prev, R, n) == prev = GENESIS_HASH \/ \E r \in R : r.seq < n /\ r.hash = prev

\* Every committed row names the genesis hash or an older committed row as its
\* predecessor: a rollback, or a session that commits late, never leaves a row
\* hanging from one that is not there.  The rows form a tree; that the tree is
\* a chain is ChainOk, which the code does not guarantee (see ForkFree).
NoDanglingRow == \A e \in rows : Rooted(e.prev, rows, e.seq)

\* No two committed rows name the same predecessor.
ForkFree == \A e, f \in rows : e.prev = f.prev => e.seq = f.seq

\* GET /audit/verify reports a break exactly when two sessions forked the chain:
\* what rollbacks, gaps in seq and commits out of seq order leave behind is never
\* taken for tampering.
BreakIsFork == ChainOk(rows) <=> ForkFree

\* A chain that verify_chain once reported broken is never reported whole again,
\* whatever is committed later, and the first break never moves to a later row.
BreakIsPermanent ==
    [][~ChainOk(rows) => ~ChainOk(rows') /\ BrokenAt(rows') <= BrokenAt(rows)]_vars

\* The claim of app/models/audit.py: only an edit, a deletion or a reordering of
\* a historical row breaks the chain, and this module's sessions do none of them.
ChainVerifies == ChainOk(rows)
=============================================================================
