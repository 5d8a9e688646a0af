--------------------------- MODULE AuditLogProofs ---------------------------
(***************************************************************************)
(* What the audit log keeps for any number of sessions, threads, payloads  *)
(* and rows.                                                               *)
(*                                                                         *)
(*   TypeCorrect     Spec => []TypeOK                                      *)
(*   NoRowDangles    Spec => []NoDanglingRow                               *)
(*   BreakMeansFork  Spec => []BreakIsFork                                 *)
(*   BreakStays      Spec => BreakIsPermanent                              *)
(*   SerialChainVerifies  Spec /\ []NoOverlap => []ChainVerifies           *)
(*                                                                         *)
(* NoDanglingRow alone is not inductive: what a session commits depends on *)
(* what it flushed, and that on the head it read.  IInv says the same of   *)
(* the three.  Linear says that a lone writer's head is the log's.         *)
(***************************************************************************)
EXTENDS AuditLog, NaturalsInduction, WellFoundedInduction, TLAPS

\* The hashes a session flushed, or is about to flush, chain to rows it sees.
PendingRooted ==
    \A s \in Sessions : \A e \in pending[s] : Rooted(e.prev, Visible(s), e.seq)

HeadRooted ==
    \A s \in Sessions : phase[s] = "read" => Rooted(head[s], Visible(s), nextSeq)

AllRows == rows \cup UNION {pending[s] : s \in Sessions}

\* The sequence gives no number to two rows.
UniqueSeq == \A e, f \in AllRows : e.seq = f.seq => e = f

IInv == TypeOK /\ UniqueSeq /\ NoDanglingRow /\ PendingRooted /\ HeadRooted

-----------------------------------------------------------------------------
(* Lemmas on sets of rows.                                                 *)

\* A non-empty set of naturals has a least element.
LEMMA LeastNatural ==
    ASSUME NEW S, S \subseteq Nat, S # {}
    PROVE  \E m \in S : \A n \in S : m <= n
<1>1. IsWellFoundedOn(OpToRel(<, Nat), Nat)
  BY NatLessThanWellFounded
<1>2. PICK m \in S : \A n \in S : ~ (<<n, m>> \in OpToRel(<, Nat))
  BY <1>1, WFMin
<1>3. ASSUME NEW n \in S PROVE m <= n
  <2>1. m \in Nat /\ n \in Nat
    OBVIOUS
  <2>2. ~ (n < m)
    BY <1>2, <2>1 DEF OpToRel
  <2> QED
    BY <2>1, <2>2
<1> QED
  BY <1>3

\* A non-empty set of rows under a bounded seq has a last one.
LEMMA LastExists ==
    ASSUME NEW R, NEW n \in Nat, R # {}, \A r \in R : r.seq \in 1..n
    PROVE  Last(R) \in R /\ \A q \in R : q.seq <= Last(R).seq
<1> DEFINE S == {n - r.seq : r \in R}
<1>1. S \subseteq Nat /\ S # {}
  OBVIOUS
<1>2. PICK m \in S : \A k \in S : m <= k
  BY <1>1, LeastNatural
<1>3. PICK r \in R : m = n - r.seq
  BY <1>2
<1>4. ASSUME NEW q \in R PROVE q.seq <= r.seq
  <2>1. r.seq \in 1..n /\ q.seq \in 1..n
    OBVIOUS
  <2>2. n - q.seq \in S
    OBVIOUS
  <2>3. n - r.seq <= n - q.seq
    BY <1>2, <1>3, <2>2
  <2> HIDE DEF S
  <2> QED
    BY <2>1, <2>3
<1> QED
  BY <1>4 DEF Last

\* The head read from a set of rows is the genesis hash or the hash of one of them.
LEMMA HeadHashRooted ==
    ASSUME NEW R, NEW n \in Nat, \A r \in R : r.seq \in 1..(n - 1)
    PROVE  Rooted(HeadHash(R), R, n)
<1>1. CASE R = {}
  BY <1>1 DEF HeadHash, Rooted
<1>2. CASE R # {}
  <2>1. n - 1 \in Nat
    BY <1>2
  <2>2. Last(R) \in R
    BY <1>2, <2>1, LastExists
  <2> QED
    BY <1>2, <2>2 DEF HeadHash, Rooted
<1> QED
  BY <1>1, <1>2

\* Rootedness survives more rows and a later seq.
LEMMA RootedMonotone ==
    ASSUME NEW prev, NEW R, NEW R2, NEW n \in Nat, NEW m \in Nat,
           R \subseteq R2, n <= m, \A r \in R : r.seq \in Nat,
           Rooted(prev, R, n)
    PROVE  Rooted(prev, R2, m)
BY DEF Rooted

-----------------------------------------------------------------------------
LEMMA InitEstablishes == Init => IInv
BY ConstantsAssumption
   DEF Init, IInv, TypeOK, AllRows, UniqueSeq, NoDanglingRow, PendingRooted, HeadRooted

LEMMA StepPreserves == IInv /\ [Next]_vars => IInv'
<1> SUFFICES ASSUME IInv, [Next]_vars PROVE IInv'
  OBVIOUS
<1> USE ConstantsAssumption
<1>0. TypeOK /\ UniqueSeq /\ NoDanglingRow /\ PendingRooted /\ HeadRooted
  BY DEF IInv
<1>1. ASSUME NEW s \in Sessions, ReadHead(s) PROVE IInv'
  <2>1. UNCHANGED <<rows, pending, nextSeq>> /\ phase' = [phase EXCEPT ![s] = "read"]
        /\ head' = [head EXCEPT ![s] = HeadHash(Visible(s))]
    BY <1>1 DEF ReadHead
  <2>2. TypeOK'
    BY <1>0, <2>1 DEF TypeOK, IsRow
  <2>3. UniqueSeq' /\ NoDanglingRow' /\ PendingRooted'
    BY <1>0, <2>1 DEF AllRows, UniqueSeq, NoDanglingRow, PendingRooted, Rooted, Visible
  <2>4. Rooted(HeadHash(Visible(s)), Visible(s), nextSeq)
    <3>1. nextSeq \in Nat /\ \A r \in Visible(s) : r.seq \in 1..(nextSeq - 1)
      BY <1>0 DEF TypeOK, IsRow, Visible
    <3> QED
      BY <3>1, HeadHashRooted
  <2>5. HeadRooted'
    BY <1>0, <2>1, <2>4 DEF TypeOK, HeadRooted, Rooted, Visible
  <2> QED
    BY <2>2, <2>3, <2>5 DEF IInv
<1>2. ASSUME NEW s \in Sessions, Insert(s) PROVE IInv'
  <2>1. PICK payload \in Payloads :
          pending' = [pending EXCEPT ![s] = @ \cup {Entry(nextSeq, head[s], payload)}]
    BY <1>2 DEF Insert
  <2>2. /\ phase[s] = "read" /\ nextSeq <= MaxSeq /\ nextSeq' = nextSeq + 1
        /\ phase' = [phase EXCEPT ![s] = "idle"] /\ UNCHANGED <<rows, head>>
    BY <1>2 DEF Insert
  <2> DEFINE e == Entry(nextSeq, head[s], payload)
  <2>3. /\ pending'[s] = pending[s] \cup {e}
        /\ \A t \in Sessions : t # s => pending'[t] = pending[t]
        /\ DOMAIN pending' = Sessions
    BY <1>0, <2>1 DEF TypeOK
  <2>4. e.seq = nextSeq /\ e.prev = head[s] /\ e.payload = payload
        /\ e.hash = Hash(e.prev, e.payload)
    BY DEF Entry
  <2> HIDE DEF e
  <2>5. TypeOK'
    BY <1>0, <2>2, <2>3, <2>4 DEF TypeOK, IsRow, Hash
  <2>6. NoDanglingRow'
    BY <1>0, <2>2 DEF NoDanglingRow, Rooted
  <2>7. PendingRooted'
    <3> SUFFICES ASSUME NEW t \in Sessions, NEW f \in pending'[t]
                 PROVE  Rooted(f.prev, Visible(t)', f.seq)
      BY DEF PendingRooted
    <3>1. CASE t = s /\ f = e
      <4>1. Rooted(head[s], Visible(s), nextSeq)
        BY <1>0, <2>2 DEF HeadRooted
      <4> QED
        BY <2>2, <2>3, <2>4, <3>1, <4>1 DEF Rooted, Visible
    <3>2. CASE ~ (t = s /\ f = e)
      <4>1. f \in pending[t]
        BY <2>3, <3>2
      <4>2. Rooted(f.prev, Visible(t), f.seq)
        BY <1>0, <4>1 DEF PendingRooted
      <4> QED
        BY <2>2, <2>3, <4>2 DEF Rooted, Visible
    <3> QED
      BY <3>1, <3>2
  <2>8. HeadRooted'
    <3> SUFFICES ASSUME NEW t \in Sessions, phase'[t] = "read"
                 PROVE  Rooted(head'[t], Visible(t)', nextSeq')
      BY DEF HeadRooted
    <3>1. t # s /\ phase[t] = "read"
      BY <1>0, <2>2 DEF TypeOK
    <3>2. Rooted(head[t], Visible(t), nextSeq)
      BY <1>0, <3>1 DEF HeadRooted
    <3>3. /\ nextSeq \in Nat /\ Visible(t)' = Visible(t)
          /\ \A r \in Visible(t) : r.seq \in Nat
      BY <1>0, <2>2, <2>3, <3>1 DEF Visible, TypeOK, IsRow
    <3> QED
      BY <2>2, <3>2, <3>3 DEF Rooted
  <2>9. UniqueSeq'
    <3>1. AllRows' \subseteq AllRows \cup {e}
      BY <2>2, <2>3 DEF AllRows
    <3>2. \A r \in AllRows : r.seq \in 1..(nextSeq - 1)
      BY <1>0 DEF TypeOK, IsRow, AllRows
    <3> QED
      BY <1>0, <2>4, <3>1, <3>2 DEF UniqueSeq, TypeOK
  <2> QED
    BY <2>5, <2>6, <2>7, <2>8, <2>9 DEF IInv
<1>3. ASSUME NEW s \in Sessions, Commit(s) PROVE IInv'
  <2>1. /\ rows' = rows \cup pending[s] /\ pending' = [pending EXCEPT ![s] = {}]
        /\ phase[s] = "idle" /\ UNCHANGED <<phase, head, nextSeq>>
    BY <1>3 DEF Commit
  <2>2. /\ pending'[s] = {} /\ DOMAIN pending' = Sessions
        /\ \A t \in Sessions : t # s => pending'[t] = pending[t]
    BY <1>0, <2>1 DEF TypeOK
  <2>3. TypeOK'
    BY <1>0, <2>1, <2>2 DEF TypeOK, IsRow
  <2>4. NoDanglingRow'
    <3> SUFFICES ASSUME NEW e \in rows \cup pending[s]
                 PROVE  Rooted(e.prev, rows \cup pending[s], e.seq)
      BY <2>1 DEF NoDanglingRow
    <3>1. CASE e \in rows
      BY <1>0, <3>1 DEF NoDanglingRow, Rooted
    <3>2. CASE e \in pending[s]
      BY <1>0, <3>2 DEF PendingRooted, Rooted, Visible
    <3> QED
      BY <3>1, <3>2
  <2>5. PendingRooted'
    <3> SUFFICES ASSUME NEW t \in Sessions, NEW e \in pending'[t]
                 PROVE  Rooted(e.prev, Visible(t)', e.seq)
      BY DEF PendingRooted
    <3>1. t # s /\ e \in pending[t]
      BY <2>2
    <3>2. Rooted(e.prev, Visible(t), e.seq)
      BY <1>0, <3>1 DEF PendingRooted
    <3> QED
      BY <2>1, <2>2, <3>1, <3>2 DEF Rooted, Visible
  <2>6. HeadRooted'
    <3> SUFFICES ASSUME NEW t \in Sessions, phase[t] = "read"
                 PROVE  Rooted(head[t], Visible(t)', nextSeq)
      BY <2>1 DEF HeadRooted
    <3>1. t # s /\ Rooted(head[t], Visible(t), nextSeq)
      BY <1>0, <2>1 DEF HeadRooted
    <3> QED
      BY <2>1, <2>2, <3>1 DEF Rooted, Visible
  <2>7. UniqueSeq'
    <3>1. AllRows' \subseteq AllRows
      BY <2>1, <2>2 DEF AllRows
    <3> QED
      BY <1>0, <3>1 DEF UniqueSeq
  <2> QED
    BY <2>3, <2>4, <2>5, <2>6, <2>7 DEF IInv
<1>4. ASSUME NEW s \in Sessions, Rollback(s) PROVE IInv'
  <2>1. /\ pending' = [pending EXCEPT ![s] = {}] /\ phase' = [phase EXCEPT ![s] = "idle"]
        /\ UNCHANGED <<rows, head, nextSeq>>
    BY <1>4 DEF Rollback
  <2>2. /\ pending'[s] = {} /\ DOMAIN pending' = Sessions
        /\ \A t \in Sessions : t # s => pending'[t] = pending[t]
    BY <1>0, <2>1 DEF TypeOK
  <2>3. TypeOK'
    BY <1>0, <2>1, <2>2 DEF TypeOK, IsRow
  <2>4. NoDanglingRow'
    BY <1>0, <2>1 DEF NoDanglingRow, Rooted
  <2>5. PendingRooted'
    BY <1>0, <2>1, <2>2 DEF PendingRooted, Rooted, Visible
  <2>6. HeadRooted'
    <3> SUFFICES ASSUME NEW t \in Sessions, phase'[t] = "read"
                 PROVE  Rooted(head'[t], Visible(t)', nextSeq')
      BY DEF HeadRooted
    <3>1. t # s /\ phase[t] = "read"
      BY <1>0, <2>1 DEF TypeOK
    <3> QED
      BY <1>0, <2>1, <2>2, <3>1 DEF HeadRooted, Rooted, Visible
  <2>7. UniqueSeq'
    <3>1. AllRows' \subseteq AllRows
      BY <2>1, <2>2 DEF AllRows
    <3> QED
      BY <1>0, <3>1 DEF UniqueSeq
  <2> QED
    BY <2>3, <2>4, <2>5, <2>6, <2>7 DEF IInv
<1>5. CASE UNCHANGED vars
  BY <1>0, <1>5
     DEF vars, IInv, TypeOK, IsRow, AllRows, UniqueSeq, NoDanglingRow, PendingRooted,
         HeadRooted, Rooted, Visible
<1> QED
  BY <1>1, <1>2, <1>3, <1>4, <1>5 DEF Next

LEMMA Invariance == Spec => []IInv
BY InitEstablishes, StepPreserves, PTL DEF Spec

-----------------------------------------------------------------------------
(* The theorems.                                                           *)

\* Type correctness: seq never returns to a number it gave out, and every row,
\* committed or flushed, carries the hash verify_chain recomputes for it.
THEOREM TypeCorrect == Spec => []TypeOK
<1>1. IInv => TypeOK
  BY DEF IInv
<1> QED
  BY <1>1, Invariance, PTL

\* However many sessions append, commit late or roll back, the predecessor named
\* by a committed row is a committed row with a smaller seq.
THEOREM NoRowDangles == Spec => []NoDanglingRow
<1>1. IInv => NoDanglingRow
  BY DEF IInv
<1> QED
  BY <1>1, Invariance, PTL

\* What the lemmas below need of the committed rows.
WellFormed(R) ==
    /\ \E n \in Nat : \A r \in R : r.seq \in 1..n
    /\ \A r \in R : r.hash = Hash(r.prev, r.payload)
    /\ \A e, f \in R : e.seq = f.seq => e = f

\* A non-empty set of rows has a first one.
LEMMA FirstExists ==
    ASSUME NEW R, R # {}, \A r \in R : r.seq \in Nat
    PROVE  \E e \in R : \A f \in R : e.seq <= f.seq
<1> DEFINE S == {r.seq : r \in R}
<1>1. S \subseteq Nat /\ S # {}
  OBVIOUS
<1>2. PICK n \in S : \A k \in S : n <= k
  BY <1>1, LeastNatural
<1> QED
  BY <1>2

LEMMA RowsWellFormed == IInv => WellFormed(rows)
<1> SUFFICES ASSUME IInv PROVE WellFormed(rows)
  OBVIOUS
<1>1. nextSeq - 1 \in Nat /\ \A r \in rows : r.seq \in 1..(nextSeq - 1)
  BY ConstantsAssumption DEF IInv, TypeOK, IsRow
<1>2. \A r \in rows : r.hash = Hash(r.prev, r.payload)
  BY DEF IInv, TypeOK, IsRow
<1>3. \A e, f \in rows : e.seq = f.seq => e = f
  BY DEF IInv, UniqueSeq, AllRows
<1> QED
  BY <1>1, <1>2, <1>3 DEF WellFormed

\* The row before e, when there is one, and the head hash it stands for.
LEMMA PredecessorExists ==
    ASSUME NEW R, NEW e \in R, WellFormed(R), Before(R, e) # {}
    PROVE  /\ Last(Before(R, e)) \in R
           /\ Last(Before(R, e)).seq < e.seq
           /\ \A q \in R : q.seq < e.seq => q.seq <= Last(Before(R, e)).seq
           /\ HeadHash(Before(R, e)) = Last(Before(R, e)).hash
<1>1. PICK n \in Nat : \A r \in R : r.seq \in 1..n
  BY DEF WellFormed
<1>2. \A r \in Before(R, e) : r.seq \in 1..n
  BY <1>1 DEF Before
<1>3. /\ Last(Before(R, e)) \in Before(R, e)
      /\ \A q \in Before(R, e) : q.seq <= Last(Before(R, e)).seq
  BY <1>2, LastExists
<1> QED
  BY <1>3 DEF Before, HeadHash

\* The first row out of place in its chain shares its predecessor with an earlier
\* row: without that fork verify_chain walks the whole table.
LEMMA UnforkedIsChain ==
    ASSUME NEW R, WellFormed(R), \A e \in R : Rooted(e.prev, R, e.seq),
           \A e, f \in R : e.prev = f.prev => e.seq = f.seq
    PROVE  ChainOk(R)
<1> SUFFICES ASSUME NEW bad \in R, Mismatch(R, bad) PROVE FALSE
  BY DEF ChainOk
<1>1. WellFormed(R) /\ \A e \in R : Rooted(e.prev, R, e.seq)
  OBVIOUS
<1>2. \A r \in R : r.seq \in Nat /\ r.hash = Hash(r.prev, r.payload)
  BY <1>1 DEF WellFormed
<1> DEFINE Bad == {r \in R : Mismatch(R, r)}
<1>3. PICK m \in Bad : \A r \in Bad : m.seq <= r.seq
  <2>1. Bad # {} /\ \A r \in Bad : r.seq \in Nat
    BY <1>2
  <2> QED
    BY <2>1, FirstExists
<1>4. m \in R /\ Mismatch(R, m) /\ \A r \in R : r.seq < m.seq => ~ Mismatch(R, r)
  BY <1>2, <1>3
<1>5. m.prev # HeadHash(Before(R, m))
  BY <1>2, <1>4 DEF Mismatch
<1>6. Before(R, m) # {}
  <2>1. ASSUME Before(R, m) = {} PROVE FALSE
    <3>1. m.prev # GENESIS_HASH
      BY <1>5, <2>1 DEF HeadHash
    <3>2. PICK r \in R : r.seq < m.seq
      BY <1>1, <1>4, <3>1 DEF Rooted
    <3> QED
      BY <2>1, <3>2 DEF Before
  <2> QED
    BY <2>1
<1> DEFINE pred == Last(Before(R, m))
<1>7. /\ pred \in R /\ pred.seq < m.seq /\ m.prev # pred.hash
      /\ \A q \in R : q.seq < m.seq => q.seq <= pred.seq
  BY <1>1, <1>4, <1>5, <1>6, PredecessorExists
<1> HIDE DEF pred
\* The row that already hangs from the predecessor m names.
<1>8. \E twin \in R : twin.seq < m.seq /\ twin.prev = m.prev
  <2>1. CASE m.prev = GENESIS_HASH
    <3>1. PICK first \in R : \A f \in R : first.seq <= f.seq
      BY <1>2, <1>4, FirstExists
    <3>2. Before(R, first) = {} /\ first.seq < m.seq
      BY <1>2, <1>4, <1>7, <3>1 DEF Before
    <3>3. first.prev = GENESIS_HASH
      BY <1>4, <3>2 DEF Mismatch, HeadHash
    <3> QED
      BY <2>1, <3>2, <3>3
  <2>2. CASE m.prev # GENESIS_HASH
    <3>1. PICK r \in R : r.seq < m.seq /\ r.hash = m.prev
      BY <1>1, <1>4, <2>2 DEF Rooted
    <3>2. r.seq < pred.seq
      <4>1. r.seq <= pred.seq /\ r # pred
        BY <1>7, <3>1
      <4> QED
        BY <1>1, <1>2, <1>7, <4>1 DEF WellFormed
    <3> DEFINE After == {q \in R : r.seq < q.seq}
    <3>3. PICK next \in After : \A q \in After : next.seq <= q.seq
      <4>1. pred \in After /\ \A q \in After : q.seq \in Nat
        BY <1>2, <1>7, <3>2
      <4> QED
        BY <4>1, FirstExists
    <3>4. next \in R /\ r.seq < next.seq /\ next.seq < m.seq
      BY <1>2, <1>4, <1>7, <3>2, <3>3
    <3>5. r \in Before(R, next) /\ \A q \in Before(R, next) : q.seq <= r.seq
      BY <1>2, <3>3, <3>4 DEF Before
    <3>6. Last(Before(R, next)) = r
      <4>1. /\ Last(Before(R, next)) \in R
            /\ Last(Before(R, next)).seq < next.seq
            /\ r.seq <= Last(Before(R, next)).seq
        BY <1>1, <3>4, <3>5, PredecessorExists
      <4>2. Last(Before(R, next)).seq = r.seq
        BY <1>2, <3>5, <4>1 DEF Before
      <4> QED
        BY <1>1, <4>1, <4>2 DEF WellFormed
    <3>7. next.prev = r.hash
      BY <1>4, <3>4, <3>5, <3>6 DEF Mismatch, HeadHash
    <3> QED
      BY <3>1, <3>4, <3>7
  <2> QED
    BY <2>1, <2>2
<1>9. PICK twin \in R : twin.seq < m.seq /\ twin.prev = m.prev
  BY <1>8
<1> QED
  BY <1>2, <1>4, <1>9

\* In a chain that verifies no two rows share a predecessor.  Of two rows that do,
\* the rows before them do as well, and so on down to the genesis hash, which is
\* no row's hash.
LEMMA ChainIsUnforked ==
    ASSUME NEW R, WellFormed(R), ChainOk(R)
    PROVE  \A e, f \in R : e.prev = f.prev => e.seq = f.seq
<1>1. \A r \in R : r.seq \in Nat /\ r.hash = Hash(r.prev, r.payload)
  BY DEF WellFormed
<1> DEFINE Forks == {e \in R : \E f \in R : e.prev = f.prev /\ e.seq < f.seq}
<1>2. ASSUME Forks # {} PROVE FALSE
  <2>1. PICK e \in Forks : \A g \in Forks : e.seq <= g.seq
    <3>1. \A r \in Forks : r.seq \in Nat
      BY <1>1
    <3> QED
      BY <1>2, <3>1, FirstExists
  <2>2. PICK f \in R : e.prev = f.prev /\ e.seq < f.seq
    BY <2>1
  <2>3. e \in R /\ e.seq \in Nat /\ f.seq \in Nat
    BY <1>1, <2>1
  <2> DEFINE pf == Last(Before(R, f))
  <2>4. Before(R, f) # {}
    BY <2>2, <2>3 DEF Before
  <2>5. pf \in R /\ e.seq <= pf.seq /\ pf.seq < f.seq /\ HeadHash(Before(R, f)) = pf.hash
    BY <2>2, <2>3, <2>4, PredecessorExists
  <2>6. f.prev = pf.hash
    BY <2>2, <2>5 DEF ChainOk, Mismatch
  <2> HIDE DEF pf
  <2>7. f.prev = <<pf.prev, pf.payload>>
    BY <1>1, <2>5, <2>6 DEF Hash
  <2>8. CASE Before(R, e) = {}
    <3>1. e.prev = << >>
      BY <2>3, <2>8 DEF ChainOk, Mismatch, HeadHash, GENESIS_HASH
    <3>2. << >> # <<pf.prev, pf.payload>>
      OBVIOUS
    <3> QED
      BY <2>2, <2>7, <3>1, <3>2
  <2>9. CASE Before(R, e) # {}
    <3> DEFINE pe == Last(Before(R, e))
    <3>1. pe \in R /\ pe.seq < e.seq /\ HeadHash(Before(R, e)) = pe.hash
      BY <2>3, <2>9, PredecessorExists
    <3>2. e.prev = pe.hash
      BY <2>3, <3>1 DEF ChainOk, Mismatch
    <3> HIDE DEF pe
    <3>3. e.prev = <<pe.prev, pe.payload>>
      BY <1>1, <3>1, <3>2 DEF Hash
    <3>4. pe.prev = pf.prev
      BY <2>2, <2>7, <3>3
    <3>5. pe \in Forks
      BY <1>1, <2>3, <2>5, <3>1, <3>4
    <3> QED
      BY <1>1, <2>1, <2>3, <3>1, <3>5
  <2> QED
    BY <2>8, <2>9
<1> QED
  BY <1>1, <1>2

LEMMA BreakIffFork == IInv => BreakIsFork
<1> SUFFICES ASSUME IInv PROVE ChainOk(rows) <=> ForkFree
  BY DEF BreakIsFork
<1>1. ForkFree => ChainOk(rows)
  BY RowsWellFormed, UnforkedIsChain DEF IInv, NoDanglingRow, ForkFree
<1>2. ChainOk(rows) => ForkFree
  BY RowsWellFormed, ChainIsUnforked DEF ForkFree
<1> QED
  BY <1>1, <1>2

\* verify_chain reports a break if and only if two sessions chained to one row:
\* rollbacks, gaps in seq and commits out of seq order never look like tampering.
THEOREM BreakMeansFork == Spec => []BreakIsFork
BY BreakIffFork, Invariance, PTL

\* verify_chain reports the first row that is out of place.
LEMMA FirstBreak ==
    ASSUME NEW R, WellFormed(R), ~ChainOk(R)
    PROVE  \E e \in R : /\ Mismatch(R, e) /\ BrokenAt(R) = e.seq
                        /\ \A f \in R : Mismatch(R, f) => e.seq <= f.seq
<1> DEFINE bad == {e \in R : Mismatch(R, e)}
<1>1. bad # {} /\ \A e \in bad : e.seq \in Nat
  BY DEF ChainOk, WellFormed
<1>2. \E e \in bad : \A f \in bad : e.seq <= f.seq
  BY <1>1, FirstExists
<1> DEFINE first == CHOOSE e \in bad : \A f \in bad : e.seq <= f.seq
<1>3. first \in bad /\ \A f \in bad : first.seq <= f.seq
  BY <1>2
<1>4. BrokenAt(R) = first.seq
  BY DEF BrokenAt
<1> HIDE DEF first
<1> QED
  BY <1>3, <1>4

\* A chain that is broken stays broken, no later than where it was, when rows come to it:
\* if all its first rows up to the break were in place now, none of them would share a
\* predecessor, and then they were in place before.
LEMMA MoreRowsMendNothing ==
    ASSUME NEW R, NEW Q, R \subseteq Q, WellFormed(Q), ~ChainOk(R),
           \A e \in R : Rooted(e.prev, R, e.seq)
    PROVE  ~ChainOk(Q) /\ BrokenAt(Q) <= BrokenAt(R)
<1>1. WellFormed(R) /\ \A q \in Q : q.seq \in Nat
  BY DEF WellFormed
<1>2. PICK e \in R : Mismatch(R, e) /\ BrokenAt(R) = e.seq
  BY <1>1, FirstBreak
<1>3. \E q \in Q : q.seq <= e.seq /\ Mismatch(Q, q)
  <2> SUFFICES ASSUME \A q \in Q : q.seq <= e.seq => ~Mismatch(Q, q) PROVE FALSE
    OBVIOUS
  <2> DEFINE S == {q \in Q : q.seq <= e.seq}
             P == {r \in R : r.seq <= e.seq}
  <2>1. WellFormed(S) /\ WellFormed(P)
    BY DEF WellFormed
  <2>2. ASSUME NEW q \in S PROVE ~Mismatch(S, q)
    <3>1. Before(S, q) = Before(Q, q)
      BY <1>1 DEF Before
    <3>2. ~Mismatch(Q, q)
      OBVIOUS
    <3> QED
      BY <3>1, <3>2 DEF Mismatch
  <2>3. ChainOk(S)
    BY <2>2 DEF ChainOk
  <2> HIDE DEF S
  <2>4. \A x, y \in S : x.prev = y.prev => x.seq = y.seq
    BY <2>1, <2>3, ChainIsUnforked
  <2>5. \A x, y \in P : x.prev = y.prev => x.seq = y.seq
    BY <2>4 DEF S
  <2>6. \A x \in P : Rooted(x.prev, P, x.seq)
    BY <1>1 DEF Rooted
  <2>7. e \in P /\ Before(P, e) = Before(R, e)
    BY <1>1 DEF Before
  <2> HIDE DEF P
  <2>8. ChainOk(P)
    BY <2>1, <2>5, <2>6, UnforkedIsChain
  <2> QED
    BY <1>2, <2>7, <2>8 DEF ChainOk, Mismatch
<1>4. PICK q \in Q : q.seq <= e.seq /\ Mismatch(Q, q)
  BY <1>3
<1>5. ~ChainOk(Q)
  BY <1>4 DEF ChainOk
<1>6. PICK f \in Q : BrokenAt(Q) = f.seq /\ f.seq <= q.seq
  BY <1>4, <1>5, FirstBreak
<1> QED
  BY <1>1, <1>2, <1>4, <1>5, <1>6

\* A chain once reported broken is never reported whole again, and the first break never
\* moves to a later row: append() only ever adds rows.
THEOREM BreakStays == Spec => BreakIsPermanent
<1>1. IInv' => WellFormed(rows)'
  <2>1. IInv => WellFormed(rows)
    BY RowsWellFormed
  <2> QED
    BY <2>1, PTL
<1>2. IInv /\ IInv' /\ [Next]_vars =>
        [~ChainOk(rows) => ~ChainOk(rows') /\ BrokenAt(rows') <= BrokenAt(rows)]_vars
  <2> SUFFICES ASSUME IInv, IInv', Next, ~ChainOk(rows)
               PROVE  ~ChainOk(rows') /\ BrokenAt(rows') <= BrokenAt(rows)
    OBVIOUS
  <2>1. rows \subseteq rows'
    BY DEF Next, ReadHead, Insert, Commit, Rollback
  <2>2. WellFormed(rows')
    BY <1>1
  <2>3. \A e \in rows : Rooted(e.prev, rows, e.seq)
    BY DEF IInv, NoDanglingRow
  <2> QED
    BY <2>1, <2>2, <2>3, MoreRowsMendNothing
<1> QED
  BY <1>2, Invariance, PTL DEF Spec, BreakIsPermanent

-----------------------------------------------------------------------------
(* Sessions that do not overlap.                                           *)

\* Between the SELECT of append() and the end of its transaction.
Writing(s) == phase[s] = "read" \/ pending[s] # {}

NoOverlap == \A s, t \in Sessions : Writing(s) /\ Writing(t) => s = t

\* No two rows fork, and the head that was read is still the head.
Linear ==
    /\ \A e, f \in AllRows : e.prev = f.prev => e = f
    /\ \A s \in Sessions : phase[s] = "read" => head[s] = HeadHash(AllRows)

\* The one session that writes sees all there is.
LEMMA SeesAll ==
    ASSUME IInv, NEW s \in Sessions, \A t \in Sessions : t # s => pending[t] = {}
    PROVE  AllRows = Visible(s)
BY DEF AllRows, Visible

\* No row follows the last one.
LEMMA NoneFollowsHead ==
    ASSUME NEW R, WellFormed(R), \A e \in R : Rooted(e.prev, R, e.seq),
           \A e, f \in R : e.prev = f.prev => e = f, NEW e \in R
    PROVE  e.prev # HeadHash(R)
<1> SUFFICES ASSUME e.prev = HeadHash(R) PROVE FALSE
  OBVIOUS
<1>1. PICK n \in Nat : \A r \in R : r.seq \in 1..n
  BY DEF WellFormed
<1> DEFINE last == Last(R)
<1>2. last \in R /\ \A q \in R : q.seq <= last.seq
  BY <1>1, LastExists
<1>3. e.prev = last.hash
  BY DEF HeadHash
<1> HIDE DEF last
<1>4. last.hash = Hash(last.prev, last.payload)
  BY <1>2 DEF WellFormed
<1>5. e.prev # GENESIS_HASH
  BY <1>3, <1>4 DEF Hash, GENESIS_HASH
<1>6. PICK r \in R : r.seq < e.seq /\ r.hash = e.prev
  BY <1>5 DEF Rooted
<1>7. r.hash = Hash(r.prev, r.payload)
  BY DEF WellFormed
<1>8. r.prev = last.prev
  BY <1>3, <1>4, <1>6, <1>7 DEF Hash
<1>9. r = last
  BY <1>2, <1>8
<1>10. e.seq <= r.seq /\ e.seq \in Nat /\ r.seq \in Nat
  BY <1>1, <1>2, <1>9
<1> QED
  BY <1>6, <1>10

LEMMA LinearInit == Init => Linear
BY DEF Init, Linear, AllRows

LEMMA LinearPreserved ==
    IInv /\ Linear /\ NoOverlap /\ NoOverlap' /\ [Next]_vars => Linear'
<1> SUFFICES ASSUME IInv, Linear, NoOverlap, NoOverlap', [Next]_vars PROVE Linear'
  OBVIOUS
<1>0. /\ TypeOK /\ UniqueSeq /\ NoDanglingRow /\ PendingRooted
      /\ DOMAIN pending = Sessions /\ phase \in [Sessions -> {"idle", "read"}]
      /\ DOMAIN head = Sessions /\ nextSeq \in Nat
  BY DEF IInv, TypeOK
<1>1. ASSUME NEW s \in Sessions, ReadHead(s) PROVE Linear'
  <2>1. /\ UNCHANGED <<rows, pending>> /\ phase' = [phase EXCEPT ![s] = "read"]
        /\ head' = [head EXCEPT ![s] = HeadHash(Visible(s))]
    BY <1>1 DEF ReadHead
  <2>2. phase'[s] = "read" /\ head'[s] = HeadHash(Visible(s))
    BY <1>0, <2>1
  <2>3. ASSUME NEW t \in Sessions, t # s PROVE pending[t] = {} /\ phase'[t] # "read"
    BY <2>1, <2>2, <2>3 DEF NoOverlap, Writing
  <2>4. AllRows = Visible(s) /\ AllRows' = AllRows
    BY <2>1, <2>3, SeesAll DEF AllRows
  <2> QED
    BY <2>2, <2>3, <2>4 DEF Linear
<1>2. ASSUME NEW s \in Sessions, Insert(s) PROVE Linear'
  <2>1. PICK payload \in Payloads :
          pending' = [pending EXCEPT ![s] = @ \cup {Entry(nextSeq, head[s], payload)}]
    BY <1>2 DEF Insert
  <2>2. phase[s] = "read" /\ phase' = [phase EXCEPT ![s] = "idle"] /\ UNCHANGED rows
    BY <1>2 DEF Insert
  <2>3. PICK n : n = Entry(nextSeq, head[s], payload)
    OBVIOUS
  <2>4. n.prev = head[s]
    BY <2>3 DEF Entry
  <2>5. \A t \in Sessions : t # s => pending[t] = {} /\ phase[t] # "read"
    BY <2>2 DEF NoOverlap, Writing
  <2>6. AllRows = Visible(s)
    BY <2>5, SeesAll
  <2>7. AllRows' = AllRows \cup {n}
    <3>1. pending'[s] = pending[s] \cup {n} /\ \A t \in Sessions : t # s => pending'[t] = pending[t]
      BY <1>0, <2>1, <2>3
    <3> QED
      BY <2>2, <3>1 DEF AllRows
  <2>8. WellFormed(AllRows)
    <3>1. nextSeq - 1 \in Nat /\ \A r \in AllRows : r.seq \in 1..(nextSeq - 1)
      BY <1>0 DEF TypeOK, IsRow, AllRows
    <3>2. \A r \in AllRows : r.hash = Hash(r.prev, r.payload)
      BY <1>0 DEF TypeOK, IsRow, AllRows
    <3> QED
      BY <1>0, <3>1, <3>2 DEF WellFormed, UniqueSeq
  <2>9. \A e \in AllRows : Rooted(e.prev, AllRows, e.seq)
    BY <1>0, <2>6 DEF NoDanglingRow, PendingRooted, Visible, Rooted
  <2>10. \A e \in AllRows : e.prev # n.prev
    BY <2>2, <2>4, <2>8, <2>9, NoneFollowsHead DEF Linear
  <2>11. \A t \in Sessions : phase'[t] # "read"
    BY <1>0, <2>2, <2>5
  <2> QED
    BY <2>7, <2>10, <2>11 DEF Linear
<1>3. ASSUME NEW s \in Sessions, Commit(s) \/ Rollback(s) PROVE Linear'
  <2>1. /\ Writing(s) /\ phase'[s] # "read"
        /\ \A t \in Sessions : t # s => phase'[t] = phase[t]
    BY <1>0, <1>3 DEF Commit, Rollback, Writing
  <2>2. \A t \in Sessions : phase'[t] # "read"
    BY <2>1 DEF NoOverlap, Writing
  <2>3. /\ pending'[s] = {} /\ \A t \in Sessions : t # s => pending'[t] = pending[t]
        /\ rows' \subseteq rows \cup pending[s]
    BY <1>0, <1>3 DEF Commit, Rollback
  <2>4. AllRows' \subseteq AllRows
    BY <2>3 DEF AllRows
  <2> QED
    BY <2>2, <2>4 DEF Linear
<1>4. CASE UNCHANGED vars
  BY <1>4 DEF vars, Linear, AllRows
<1> QED
  BY <1>1, <1>2, <1>3, <1>4 DEF Next

\* ChainVerifies, the claim of models/audit.py: while no session reads the head of the log
\* before another that has read or appended to it has ended, the chain verifies, however many
\* sessions there are and whatever is rolled back.
THEOREM SerialChainVerifies == Spec /\ []NoOverlap => []ChainVerifies
<1>1. Init => IInv /\ Linear
  BY InitEstablishes, LinearInit
<1>2. IInv /\ Linear /\ NoOverlap /\ NoOverlap' /\ [Next]_vars => IInv' /\ Linear'
  BY StepPreserves, LinearPreserved
<1>3. IInv /\ Linear => ChainVerifies
  <2> SUFFICES ASSUME IInv, Linear PROVE ChainVerifies
    OBVIOUS
  <2>1. ForkFree
    BY DEF Linear, AllRows, ForkFree
  <2> QED
    BY <2>1, BreakIffFork DEF BreakIsFork, ChainVerifies
<1> QED
  BY <1>1, <1>2, <1>3, PTL DEF Spec
=============================================================================
