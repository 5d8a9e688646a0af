--------------------------- MODULE RateLimitProofs ---------------------------
(***************************************************************************)
(* Proofs about RateLimit: types, the bound on what an entry remembers,    *)
(* that no key is locked before enough attempts failed within one window,  *)
(* and how many may fail before it is locked.                              *)
(*                                                                         *)
(* What the entry of the key is told to be is not enough for induction: a  *)
(* thread puts back an entry it has made from an older one.  The invariant *)
(* says the same of every entry, the shared one and those that threads     *)
(* still hold: its failures are failures that happened, fewer than lock    *)
(* the key, and its lockout, if it has one, had enough of them behind it   *)
(* when it was set; what happened stays so.                                *)
(*                                                                         *)
(* For the other half, take a start s of a window.  A thread has some      *)
(* number of failures left, those it takes to lock the key with the entry  *)
(* it holds or would read.  A thread that writes an old entry gives the    *)
(* others its own number back, but is then no better off than they are.    *)
(* Spent is a measure of these numbers that grows with every failure, at   *)
(* least by one, and never shrinks; its largest value is the bound.  The   *)
(* sums it is made of are binomial coefficients, about which facts are     *)
(* proved by induction with the induced property given as a set.           *)
(***************************************************************************)
EXTENDS RateLimit, FiniteSetTheorems, WellFoundedInduction, TLAPS

\* The failures of `log` in the window that ends at `at`.
Recent(log, at) == {i \in DOMAIN log : at - Window < log[i] /\ log[i] <= at}

\* An entry that remembers failures of `log`, and was locked by enough of them.
Sound(e, log) ==
    /\ DOMAIN e = {"fails", "until"}
    /\ e.fails \subseteq DOMAIN log /\ Cardinality(e.fails) < MaxAttempts
    /\ e.until \in 0..(MaxTime + Lockout)
    /\ e.until > 0 => Cardinality(Recent(log, e.until - Lockout)) >= MaxAttempts

\* Failures happened before now.
Past(log, time) == log \in Seq(Nat) /\ \A i \in DOMAIN log : log[i] <= time

IInv ==
    /\ now \in 1..MaxTime
    /\ Past(failures, now)
    /\ Sound(entry, failures)
    /\ attempt = [t \in Threads |-> attempt[t]]
    /\ \A t \in Threads : /\ DOMAIN attempt[t] = {"pc", "entry"}
                          /\ Sound(attempt[t].entry, failures)

-----------------------------------------------------------------------------
(* Entries.                                                                *)

LEMMA RecentFinite ==
    ASSUME NEW log \in Seq(Nat), NEW at
    PROVE  IsFiniteSet(Recent(log, at)) /\ Cardinality(Recent(log, at)) \in Nat
<1>1. IsFiniteSet(DOMAIN log)
  BY FS_Interval
<1> QED
  BY <1>1, FS_Subset, FS_CardinalityType DEF Recent

LEMMA FirstEntry ==
    ASSUME NEW log, NEW e, e = NoEntry
    PROVE  Sound(e, log)
<1>1. DOMAIN e = {"fails", "until"} /\ e.fails = {} /\ e.until = 0
  BY DEF NoEntry
<1>2. Cardinality(e.fails) = 0
  BY <1>1, FS_EmptySet
<1>3. e.until \in 0..(MaxTime + Lockout)
  BY <1>1, SettingsAssumption
<1> QED
  BY <1>1, <1>2, <1>3, SettingsAssumption DEF Sound

\* One failure more: what was sound stays so.
LEMMA StaysSound ==
    ASSUME NEW log \in Seq(Nat), NEW time \in Nat, NEW e, Sound(e, log)
    PROVE  Sound(e, Append(log, time))
<1> DEFINE more == Append(log, time)
<1>1. more \in Seq(Nat) /\ DOMAIN log \subseteq DOMAIN more
      /\ \A i \in DOMAIN log : more[i] = log[i]
  OBVIOUS
<1> HIDE DEF more
<1>2. e.fails \subseteq DOMAIN more
  BY <1>1 DEF Sound
<1>3. ASSUME e.until > 0 PROVE Cardinality(Recent(more, e.until - Lockout)) >= MaxAttempts
  <2> DEFINE at == e.until - Lockout
  <2>1. Cardinality(Recent(log, at)) >= MaxAttempts
    BY <1>3 DEF Sound
  <2> HIDE DEF at
  <2>2. Recent(log, at) \subseteq Recent(more, at)
    BY <1>1 DEF Recent
  <2>3. IsFiniteSet(Recent(more, at)) /\ Cardinality(Recent(more, at)) \in Nat
        /\ Cardinality(Recent(log, at)) \in Nat
    BY <1>1, RecentFinite
  <2>4. Cardinality(Recent(log, at)) <= Cardinality(Recent(more, at))
    BY <2>2, <2>3, FS_Subset
  <2>5. Cardinality(Recent(more, at)) >= MaxAttempts
    BY <2>1, <2>3, <2>4, SettingsAssumption
  <2> QED
    BY <2>5 DEF at
<1>4. Sound(e, more)
  BY <1>2, <1>3 DEF Sound
<1> QED
  BY <1>4 DEF more

\* record_failure() makes a sound entry of a sound one.
LEMMA CountedIsSound ==
    ASSUME IInv, NEW e, Sound(e, failures), NEW f, f = Counted(e)
    PROVE  Sound(f, Append(failures, now))
<1> DEFINE more == Append(failures, now)
           fails == {i \in e.fails : now - failures[i] < Window} \cup {Len(failures) + 1}
<1>1. /\ failures \in Seq(Nat) /\ now \in Nat /\ now <= MaxTime /\ now >= 1
      /\ \A i \in DOMAIN failures : failures[i] <= now
      /\ MaxTime \in Nat /\ Lockout \in Nat /\ Window \in Nat \ {0} /\ Lockout # 0
  BY SettingsAssumption DEF IInv, Past
<1>2. /\ more \in Seq(Nat) /\ DOMAIN failures \subseteq DOMAIN more
      /\ \A i \in DOMAIN failures : more[i] = failures[i]
      /\ Len(failures) + 1 \in DOMAIN more /\ more[Len(failures) + 1] = now
  BY <1>1
<1>3. f = IF Cardinality(fails) >= MaxAttempts THEN [fails |-> {}, until |-> now + Lockout]
          ELSE [e EXCEPT !.fails = fails]
  BY DEF Counted
<1>4. fails \subseteq DOMAIN more
  BY <1>2 DEF Sound
<1>5. fails \subseteq Recent(more, now)
  <2> SUFFICES ASSUME NEW i \in fails PROVE i \in Recent(more, now)
    OBVIOUS
  <2>1. CASE i = Len(failures) + 1
    BY <1>1, <1>2, <2>1 DEF Recent
  <2>2. CASE i \in e.fails /\ now - failures[i] < Window
    <3>1. i \in DOMAIN failures
      BY <2>2 DEF Sound
    <3>2. failures[i] \in Nat /\ failures[i] <= now
      BY <1>1, <3>1
    <3> QED
      BY <1>1, <1>2, <2>2, <3>1, <3>2 DEF Recent
  <2> QED
    BY <2>1, <2>2
<1> HIDE DEF more, fails
<1>6. /\ IsFiniteSet(Recent(more, now)) /\ Cardinality(Recent(more, now)) \in Nat
      /\ Cardinality(fails) <= Cardinality(Recent(more, now)) /\ Cardinality(fails) \in Nat
  BY <1>2, <1>5, RecentFinite, FS_Subset, FS_CardinalityType
<1>7. CASE Cardinality(fails) >= MaxAttempts
  <2>1. DOMAIN f = {"fails", "until"} /\ f.fails = {} /\ f.until = now + Lockout
    BY <1>3, <1>7
  <2>2. Cardinality(f.fails) < MaxAttempts
    BY <2>1, FS_EmptySet, SettingsAssumption
  <2>3. f.until \in 0..(MaxTime + Lockout) /\ f.until - Lockout = now
    BY <1>1, <2>1
  <2>4. Cardinality(Recent(more, now)) >= MaxAttempts
    BY <1>6, <1>7, SettingsAssumption
  <2> QED
    BY <2>1, <2>2, <2>3, <2>4 DEF Sound, more
<1>8. CASE ~(Cardinality(fails) >= MaxAttempts)
  <2>1. Sound(e, more)
    BY <1>1, StaysSound DEF more
  <2>2. DOMAIN f = {"fails", "until"} /\ f.fails = fails /\ f.until = e.until
    BY <1>3, <1>8, <2>1 DEF Sound
  <2>3. Cardinality(f.fails) < MaxAttempts
    BY <1>6, <1>8, <2>2, SettingsAssumption
  <2> QED
    BY <1>4, <2>1, <2>2, <2>3 DEF Sound, more
<1> QED
  BY <1>7, <1>8

-----------------------------------------------------------------------------
(* Steps.                                                                  *)

LEMMA InitEstablishes == Init => IInv
<1> SUFFICES ASSUME Init PROVE IInv
  OBVIOUS
<1>1. /\ now = 1 /\ entry = NoEntry /\ attempt = [t \in Threads |-> Idle] /\ failures = <<>>
  BY DEF Init
<1>2. now \in 1..MaxTime /\ Past(failures, now)
  BY <1>1, SettingsAssumption DEF Past
<1>3. Sound(entry, failures)
  BY <1>1, FirstEntry
<1>4. \A t \in Threads : DOMAIN attempt[t] = {"pc", "entry"} /\ attempt[t].entry = entry
  BY <1>1 DEF Idle
<1>5. attempt = [t \in Threads |-> attempt[t]]
  BY <1>1
<1> QED
  BY <1>2, <1>3, <1>4, <1>5 DEF IInv

LEMMA StepPreserves == IInv /\ [Next]_vars => IInv'
<1> SUFFICES ASSUME IInv, [Next]_vars PROVE IInv'
  OBVIOUS
<1>1. /\ now \in 1..MaxTime /\ failures \in Seq(Nat) /\ now \in Nat
      /\ \A i \in DOMAIN failures : failures[i] <= now
  BY SettingsAssumption DEF IInv, Past
<1>2. CASE UNCHANGED vars
  BY <1>2 DEF IInv, vars
<1>3. ASSUME NEW t \in Threads, Begin(t) PROVE IInv'
  <2>1. attempt' = [attempt EXCEPT ![t].pc = "checking"] /\ UNCHANGED <<now, entry, failures>>
    BY <1>3 DEF Begin
  <2>2. attempt' = [u \in Threads |-> attempt'[u]]
    BY <2>1 DEF IInv
  <2>3. \A u \in Threads : DOMAIN attempt'[u] = {"pc", "entry"}
                           /\ attempt'[u].entry = attempt[u].entry
    BY <2>1 DEF IInv
  <2> QED
    BY <2>1, <2>2, <2>3 DEF IInv
<1>4. ASSUME NEW t \in Threads, Succeeds(t) PROVE IInv'
  <2>1. /\ attempt' = [attempt EXCEPT ![t] = Idle] /\ entry' = NoEntry
        /\ UNCHANGED <<now, failures>>
    BY <1>4 DEF Succeeds
  <2>2. attempt' = [u \in Threads |-> attempt'[u]]
    BY <2>1 DEF IInv
  <2>3. \A u \in Threads : /\ DOMAIN attempt'[u] = {"pc", "entry"}
                           /\ attempt'[u].entry = NoEntry \/ attempt'[u].entry = attempt[u].entry
    BY <2>1 DEF IInv, Idle
  <2>4. \A u \in Threads : Sound(attempt'[u].entry, failures)
    BY <2>3, FirstEntry DEF IInv
  <2>5. Sound(entry', failures)
    BY <2>1, FirstEntry
  <2> QED
    BY <2>1, <2>2, <2>3, <2>4, <2>5 DEF IInv
<1>5. ASSUME NEW t \in Threads, ReadEntry(t) PROVE IInv'
  <2>1. /\ attempt' = [attempt EXCEPT ![t] = [pc |-> "counting", entry |-> Counted(entry)]]
        /\ failures' = Append(failures, now) /\ UNCHANGED <<now, entry>>
    BY <1>5 DEF ReadEntry
  <2>2. Past(failures', now')
    BY <1>1, <2>1 DEF Past
  <2>3. Sound(entry', failures')
    BY <1>1, <2>1, StaysSound DEF IInv
  <2>4. PICK f : f = Counted(entry)
    OBVIOUS
  <2>5. Sound(f, failures')
    BY <2>1, <2>4, CountedIsSound DEF IInv
  <2>6. attempt' = [u \in Threads |-> attempt'[u]]
    BY <2>1 DEF IInv
  <2>7. \A u \in Threads : /\ DOMAIN attempt'[u] = {"pc", "entry"}
                           /\ attempt'[u].entry = f \/ attempt'[u].entry = attempt[u].entry
    BY <2>1, <2>4 DEF IInv
  <2>8. \A u \in Threads : Sound(attempt[u].entry, failures')
    BY <1>1, <2>1, StaysSound DEF IInv
  <2>9. \A u \in Threads : Sound(attempt'[u].entry, failures')
    BY <2>5, <2>7, <2>8
  <2> QED
    BY <1>1, <2>1, <2>2, <2>3, <2>6, <2>7, <2>9 DEF IInv
<1>6. ASSUME NEW t \in Threads, WriteEntry(t) PROVE IInv'
  <2>1. /\ attempt' = [attempt EXCEPT ![t] = Idle] /\ entry' = attempt[t].entry
        /\ UNCHANGED <<now, failures>>
    BY <1>6 DEF WriteEntry
  <2>2. attempt' = [u \in Threads |-> attempt'[u]]
    BY <2>1 DEF IInv
  <2>3. \A u \in Threads : /\ DOMAIN attempt'[u] = {"pc", "entry"}
                           /\ attempt'[u].entry = NoEntry \/ attempt'[u].entry = attempt[u].entry
    BY <2>1 DEF IInv, Idle
  <2>4. \A u \in Threads : Sound(attempt'[u].entry, failures)
    BY <2>3, FirstEntry DEF IInv
  <2>5. Sound(entry', failures)
    BY <2>1 DEF IInv
  <2> QED
    BY <2>1, <2>2, <2>3, <2>4, <2>5 DEF IInv
<1>7. CASE Tick
  <2>1. now < MaxTime /\ now' = now + 1 /\ UNCHANGED <<entry, attempt, failures>>
    BY <1>7 DEF Tick
  <2>2. now' \in 1..MaxTime
    BY <1>1, <2>1, SettingsAssumption
  <2>3. \A i \in DOMAIN failures : failures[i] \in Nat
    BY <1>1
  <2>4. Past(failures', now')
    BY <1>1, <2>1, <2>3 DEF Past
  <2> QED
    BY <2>1, <2>2, <2>4 DEF IInv
<1> QED
  BY <1>2, <1>3, <1>4, <1>5, <1>6, <1>7 DEF Next

\* The inductive invariant holds in every state of every run.
THEOREM Invariance == Spec => []IInv
BY InitEstablishes, StepPreserves, PTL DEF Spec

\* Types; record_failure() never leaves an entry that remembers enough failures to lock.
THEOREM Typed == Spec => []TypeOK
<1>1. IInv => TypeOK
  BY DEF IInv, Sound, TypeOK
<1> QED
  BY <1>1, Invariance, PTL

\* A key is locked only after MaxAttempts attempts failed within one window, for any
\* number of threads and any settings.
THEOREM NoEarlyLockout == Spec => []LockedMeansEnoughFailures
<1>1. IInv => LockedMeansEnoughFailures
  <2> SUFFICES ASSUME IInv, entry.until > 0
               PROVE  Within(failures, (entry.until - Lockout) - Window, entry.until - Lockout)
                        >= MaxAttempts
    BY DEF LockedMeansEnoughFailures
  <2>1. Cardinality(Recent(failures, entry.until - Lockout)) >= MaxAttempts
    BY DEF IInv, Sound
  <2> QED
    BY <2>1 DEF Within, Recent
<1> QED
  BY <1>1, Invariance, PTL

-----------------------------------------------------------------------------
(* Induction.                                                              *)

\* Induction, with a set for the property.
LEMMA NaturalNumbers ==
    ASSUME NEW S \in SUBSET Nat, 0 \in S, \A n \in S : n + 1 \in S
    PROVE  S = Nat
<1> SUFFICES ASSUME Nat \ S # {} PROVE FALSE
  OBVIOUS
<1> DEFINE Less == OpToRel(<, Nat)
<1>1. IsWellFoundedOn(Less, Nat)
  BY NatLessThanWellFounded, Zenon
<1>2. \A i, j \in Nat : i < j => <<i, j>> \in Less
  BY DEF OpToRel
<1> HIDE DEF Less
<1>3. PICK n \in Nat \ S : \A m \in Nat \ S : ~(<<m, n>> \in Less)
  BY <1>1, WFMin
<1>4. n # 0
  OBVIOUS
<1>5. n - 1 \in Nat /\ n - 1 < n /\ (n - 1) + 1 = n
  BY <1>4
<1>6. n - 1 \in S
  BY <1>2, <1>3, <1>5
<1> QED
  BY <1>5, <1>6

\* A function on the natural numbers may be defined by recursion.
LEMMA Recursion ==
    ASSUME NEW first \in Int, NEW step \in [Nat -> [Int -> Int]]
    PROVE  \E f \in [Nat -> Int] : f[0] = first /\ \A n \in Nat : f[n + 1] = step[n][f[n]]
<1> DEFINE Upto(n, g) == /\ g \in [Nat -> Int] /\ g[0] = first
                         /\ \A i \in 0..(n - 1) : g[i + 1] = step[i][g[i]]
           Defined == {n \in Nat : \E g : Upto(n, g)}
           Agree(n) == \A m, k \in Nat : \A g, h \in [Nat -> Int] :
                         n <= m /\ n <= k /\ Upto(m, g) /\ Upto(k, h) => g[n] = h[n]
           Same == {n \in Nat : Agree(n)}
           G(n) == CHOOSE g : Upto(n, g)
           f == [n \in Nat |-> G(n)[n]]
<1>1. Defined = Nat
  <2>1. 0 \in Defined
    <3>1. Upto(0, [i \in Nat |-> first])
      OBVIOUS
    <3> QED
      BY <3>1
  <2>2. ASSUME NEW n \in Defined PROVE n + 1 \in Defined
    <3>1. PICK g : Upto(n, g)
      OBVIOUS
    <3> DEFINE h == [g EXCEPT ![n + 1] = step[n][g[n]]]
    <3>2. h \in [Nat -> Int] /\ h[0] = first
      BY <3>1
    <3>3. ASSUME NEW i \in 0..n PROVE h[i + 1] = step[i][h[i]]
      <4>1. h[i] = g[i]
        BY <3>1
      <4>2. CASE i = n
        BY <3>1, <4>1, <4>2
      <4>3. CASE i # n
        <5>1. i \in 0..(n - 1) /\ i + 1 # n + 1 /\ i + 1 \in Nat
          BY <4>3
        <5>2. h[i + 1] = g[i + 1]
          BY <3>1, <5>1
        <5> QED
          BY <3>1, <4>1, <5>1, <5>2
      <4> QED
        BY <4>2, <4>3
    <3>4. Upto(n + 1, h)
      BY <3>2, <3>3
    <3> HIDE DEF h, Upto
    <3> QED
      BY <3>4
  <2> HIDE DEF Defined
  <2> QED
    BY <2>1, <2>2, NaturalNumbers DEF Defined
<1>2. \A n \in Nat : Agree(n)
  <2>1. Agree(0)
    OBVIOUS
  <2>2. ASSUME NEW n \in Nat, Agree(n) PROVE Agree(n + 1)
    <3> HIDE DEF Upto
    <3> SUFFICES ASSUME NEW m \in Nat, NEW k \in Nat,
                        NEW g \in [Nat -> Int], NEW h \in [Nat -> Int],
                        n + 1 <= m, n + 1 <= k, Upto(m, g), Upto(k, h)
                 PROVE  g[n + 1] = h[n + 1]
      OBVIOUS
    <3>1. n <= m /\ n <= k /\ n \in 0..(m - 1) /\ n \in 0..(k - 1)
      OBVIOUS
    <3>2. g[n] = h[n]
      BY <2>2, <3>1
    <3> USE DEF Upto
    <3>3. g[n + 1] = step[n][g[n]] /\ h[n + 1] = step[n][h[n]]
      BY <3>1
    <3> QED
      BY <3>2, <3>3
  <2> HIDE DEF Agree
  <2>3. 0 \in Same /\ \A n \in Same : n + 1 \in Same
    BY <2>1, <2>2
  <2>4. Same = Nat
    <3> HIDE DEF Same
    <3>1. Same \in SUBSET Nat
      BY DEF Same
    <3> QED
      BY <2>3, <3>1, NaturalNumbers
  <2> QED
    BY <2>4
<1>3. \A n \in Nat : Upto(n, G(n))
  BY <1>1
<1>4. f \in [Nat -> Int] /\ f[0] = first
  BY <1>3
<1>5. ASSUME NEW n \in Nat PROVE f[n + 1] = step[n][f[n]]
  <2> USE <1>5
  <2>1. n + 1 \in Nat /\ n \in 0..((n + 1) - 1)
    OBVIOUS
  <2>2. G(n + 1)[n + 1] = step[n][G(n + 1)[n]]
    BY <1>3, <2>1
  <2>3. G(n + 1)[n] = G(n)[n]
    <3>1. G(n) \in [Nat -> Int] /\ G(n + 1) \in [Nat -> Int]
      BY <1>3, <2>1
    <3> HIDE DEF G, Upto
    <3>2. n <= n + 1 /\ n <= n /\ Upto(n, G(n)) /\ Upto(n + 1, G(n + 1))
      BY <1>3, <2>1
    <3>3. Agree(n)
      BY <1>2
    <3> HIDE DEF f
    <3> QED
      BY <2>1, <3>1, <3>2, <3>3
  <2>4. f[n + 1] = G(n + 1)[n + 1] /\ f[n] = G(n)[n]
    BY <2>1
  <2> HIDE DEF f, G
  <2> QED
    BY <2>2, <2>3, <2>4
<1> HIDE DEF f
<1> QED
  BY <1>4, <1>5

-----------------------------------------------------------------------------
(* Binomial coefficients.                                                  *)

LEMMA Factorials ==
    /\ factorial[0] = 1 /\ \A n \in Nat : factorial[n] \in Nat \ {0}
    /\ \A n \in Nat : factorial[n + 1] = (n + 1) * factorial[n]
<1> DEFINE Equation(f) == f = [n \in Nat |-> IF n = 0 THEN 1 ELSE n * f[n - 1]]
<1>1. \E f : Equation(f)
  <2> DEFINE step == [n \in Nat |-> [x \in Int |-> (n + 1) * x]]
  <2>1. step \in [Nat -> [Int -> Int]]
    OBVIOUS
  <2>2. \A n \in Nat, x \in Int : step[n][x] = (n + 1) * x
    OBVIOUS
  <2> HIDE DEF step
  <2>3. PICK f \in [Nat -> Int] : f[0] = 1 /\ \A n \in Nat : f[n + 1] = step[n][f[n]]
    <3>1. 1 \in Int
      OBVIOUS
    <3> QED
      BY <2>1, <3>1, Recursion
  <2>4. ASSUME NEW n \in Nat PROVE f[n] = IF n = 0 THEN 1 ELSE n * f[n - 1]
    <3>1. CASE n = 0
      BY <2>3, <3>1
    <3>2. CASE n # 0
      <4>1. n - 1 \in Nat /\ (n - 1) + 1 = n /\ f[n - 1] \in Int
        BY <2>3, <3>2
      <4>2. f[(n - 1) + 1] = ((n - 1) + 1) * f[n - 1]
        BY <2>2, <2>3, <4>1
      <4> QED
        BY <3>2, <4>1, <4>2
    <3> QED
      BY <3>1, <3>2
  <2> QED
    BY <2>3, <2>4
<1>2. Equation(factorial)
  <2>1. factorial = CHOOSE f : Equation(f)
    BY DEF factorial
  <2> HIDE DEF Equation
  <2> QED
    BY <1>1, <2>1
<1>3. factorial[0] = 1
  BY <1>2
<1>4. ASSUME NEW n \in Nat PROVE factorial[n + 1] = (n + 1) * factorial[n]
  <2>1. n + 1 \in Nat /\ n + 1 # 0 /\ (n + 1) - 1 = n
    OBVIOUS
  <2> QED
    BY <1>2, <2>1
<1>5. {n \in Nat : factorial[n] \in Nat \ {0}} = Nat
  <2> DEFINE S == {n \in Nat : factorial[n] \in Nat \ {0}}
  <2>1. 0 \in S
    BY <1>3
  <2>2. ASSUME NEW n \in S PROVE n + 1 \in S
    <3>1. n \in Nat /\ factorial[n] \in Nat /\ factorial[n] > 0
      OBVIOUS
    <3>2. (n + 1) * factorial[n] \in Nat /\ (n + 1) * factorial[n] > 0
      BY <3>1
    <3> QED
      BY <1>4, <3>1, <3>2
  <2>3. S \in SUBSET Nat
    OBVIOUS
  <2> HIDE DEF S
  <2>4. S = Nat
    BY <2>1, <2>2, <2>3, NaturalNumbers
  <2> QED
    BY <2>4 DEF S
<1>6. \A n \in Nat : factorial[n] \in Nat \ {0}
  BY <1>5
<1> QED
  BY <1>3, <1>4, <1>6

\* Ways to choose k of a + k things.
Ways(a, k) == choose(a + k, k)

LEMMA Quotient ==
    ASSUME NEW c \in Nat, NEW d \in Nat \ {0}
    PROVE  (c * d) \div d = c
OBVIOUS

\* Pascal's triangle.
LEMMA Divides ==
    ASSUME NEW a \in Nat, NEW k \in Nat
    PROVE  \E c \in Nat \ {0} : factorial[a + k] = c * (factorial[k] * factorial[a])
<1> DEFINE Good(n) == \A i, j \in Nat : i + j = n =>
                        \E c \in Nat \ {0} : factorial[n] = c * (factorial[j] * factorial[i])
           S == {n \in Nat : Good(n)}
<1> SUFFICES \A n \in Nat : Good(n)
  <2>1. a + k \in Nat
    OBVIOUS
  <2> QED
    BY <2>1
<1>0. /\ factorial[0] = 1
      /\ \A n \in Nat : factorial[n] \in Nat /\ factorial[n] # 0
                        /\ factorial[n + 1] = (n + 1) * factorial[n]
  BY Factorials
<1>1. Good(0)
  <2> SUFFICES ASSUME NEW i \in Nat, NEW j \in Nat, i + j = 0
               PROVE  factorial[0] = 1 * (factorial[j] * factorial[i])
    OBVIOUS
  <2>1. i = 0 /\ j = 0
    OBVIOUS
  <2> QED
    BY <1>0, <2>1
<1>2. ASSUME NEW n \in Nat, Good(n) PROVE Good(n + 1)
  <2> SUFFICES ASSUME NEW i \in Nat, NEW j \in Nat, i + j = n + 1
               PROVE  \E c \in Nat \ {0} : factorial[n + 1] = c * (factorial[j] * factorial[i])
    OBVIOUS
  <2>0. factorial[n + 1] = (n + 1) * factorial[n] /\ factorial[n] \in Nat \ {0}
        /\ factorial[n + 1] \in Nat \ {0} /\ factorial[i] \in Nat /\ factorial[j] \in Nat
    BY <1>0
  <2>1. CASE i = 0
    <3>1. j = n + 1 /\ factorial[i] = 1
      BY <1>0, <2>1
    <3>2. factorial[n + 1] = 1 * (factorial[j] * factorial[i])
      BY <2>0, <3>1
    <3> QED
      BY <3>2
  <2>2. CASE j = 0
    <3>1. i = n + 1 /\ factorial[j] = 1
      BY <1>0, <2>2
    <3>2. factorial[n + 1] = 1 * (factorial[j] * factorial[i])
      BY <2>0, <3>1
    <3> QED
      BY <3>2
  <2>3. CASE i # 0 /\ j # 0
    <3>1. /\ i - 1 \in Nat /\ j - 1 \in Nat /\ (i - 1) + j = n /\ i + (j - 1) = n
          /\ (i - 1) + 1 = i /\ (j - 1) + 1 = j
      BY <2>3
    <3>2. PICK b \in Nat \ {0} : factorial[n] = b * (factorial[j] * factorial[i - 1])
      BY <1>2, <3>1
    <3>3. PICK d \in Nat \ {0} : factorial[n] = d * (factorial[j - 1] * factorial[i])
      BY <1>2, <3>1
    <3>4. factorial[i] = i * factorial[i - 1] /\ factorial[j] = j * factorial[j - 1]
          /\ factorial[i - 1] \in Nat /\ factorial[j - 1] \in Nat
      BY <1>0, <3>1
    <3>5. PICK p \in Nat, q \in Nat, f \in Nat :
            p = factorial[i - 1] /\ q = factorial[j - 1] /\ f = factorial[n]
      BY <2>0, <3>4
    <3>6. f = b * ((j * q) * p) /\ f = d * (q * (i * p)) /\ n + 1 = i + j
      BY <3>2, <3>3, <3>4, <3>5
    <3>7. i * f = b * ((j * q) * (i * p)) /\ j * f = d * ((j * q) * (i * p))
      BY <3>6
    <3>8. (i + j) * f = (b + d) * ((j * q) * (i * p))
      BY <3>7
    <3>9. factorial[n + 1] = (b + d) * (factorial[j] * factorial[i])
      BY <2>0, <3>4, <3>5, <3>6, <3>8
    <3> QED
      BY <3>9
  <2> QED
    BY <2>1, <2>2, <2>3
<1> HIDE DEF Good
<1>3. 0 \in S /\ S \in SUBSET Nat /\ \A n \in S : n + 1 \in S
  BY <1>1, <1>2
<1> HIDE DEF S
<1>4. S = Nat
  BY <1>3, NaturalNumbers
<1> QED
  BY <1>4 DEF S

LEMMA WaysProduct ==
    ASSUME NEW a \in Nat, NEW k \in Nat
    PROVE  /\ Ways(a, k) \in Nat \ {0}
           /\ factorial[a + k] = Ways(a, k) * (factorial[k] * factorial[a])
<1>1. PICK c \in Nat \ {0} : factorial[a + k] = c * (factorial[k] * factorial[a])
  BY Divides
<1>2. factorial[k] \in Nat \ {0} /\ factorial[a] \in Nat \ {0} /\ (a + k) - k = a
  <2>1. (a + k) - k = a
    OBVIOUS
  <2> QED
    BY <2>1, Factorials
<1> DEFINE d == factorial[k] * factorial[a]
<1>3. d \in Nat \ {0}
  BY <1>2
<1>4. Ways(a, k) = factorial[a + k] \div d
  BY <1>2 DEF Ways, choose
<1>5. factorial[a + k] = c * d
  BY <1>1
<1> HIDE DEF d
<1>6. (c * d) \div d = c
  BY <1>3, Quotient
<1>7. Ways(a, k) = c
  BY <1>4, <1>5, <1>6
<1> QED
  BY <1>1, <1>7

LEMMA Pascal ==
    /\ \A a \in Nat : Ways(a, 0) = 1 /\ Ways(0, a) = 1
    /\ \A a, k \in Nat : Ways(a + 1, k + 1) = Ways(a, k + 1) + Ways(a + 1, k)
<1>1. ASSUME NEW c \in Nat, NEW d \in Nat, NEW f \in Nat \ {0}, c * f = d * f PROVE c = d
  BY <1>1
<1>2. ASSUME NEW a \in Nat PROVE Ways(a, 0) = 1 /\ Ways(0, a) = 1
  <2>1. /\ factorial[a] \in Nat \ {0} /\ factorial[0] = 1 /\ a + 0 = a /\ 0 + a = a
        /\ Ways(a, 0) \in Nat /\ Ways(0, a) \in Nat
    <3>1. 0 \in Nat /\ a + 0 = a /\ 0 + a = a
      OBVIOUS
    <3> QED
      BY <3>1, Factorials, WaysProduct
  <2>2. factorial[a] = Ways(a, 0) * (1 * factorial[a])
        /\ factorial[a] = Ways(0, a) * (factorial[a] * 1)
    BY <2>1, WaysProduct
  <2>3. Ways(a, 0) * factorial[a] = 1 * factorial[a] /\ Ways(0, a) * factorial[a] = 1 * factorial[a]
    BY <2>1, <2>2
  <2> QED
    BY <1>1, <2>1, <2>3
<1>3. ASSUME NEW a \in Nat, NEW k \in Nat
      PROVE  Ways(a + 1, k + 1) = Ways(a, k + 1) + Ways(a + 1, k)
  <2>1. PICK x \in Nat, y \in Nat, z \in Nat :
          x = Ways(a + 1, k + 1) /\ y = Ways(a, k + 1) /\ z = Ways(a + 1, k)
    <3>1. a + 1 \in Nat /\ k + 1 \in Nat
      OBVIOUS
    <3> QED
      BY <3>1, WaysProduct
  <2>2. PICK p \in Nat \ {0}, q \in Nat \ {0}, f \in Nat \ {0} :
          p = factorial[a] /\ q = factorial[k] /\ f = factorial[(a + k) + 1]
    <3>1. (a + k) + 1 \in Nat
      OBVIOUS
    <3> QED
      BY <3>1, Factorials
  <2>3. /\ factorial[a + 1] = (a + 1) * p /\ factorial[k + 1] = (k + 1) * q
        /\ factorial[((a + k) + 1) + 1] = ((a + k) + 2) * f
    BY <2>2, Factorials
  <2>4. /\ (a + 1) + (k + 1) = ((a + k) + 1) + 1
        /\ a + (k + 1) = (a + k) + 1 /\ (a + 1) + k = (a + k) + 1
    OBVIOUS
  <2>5. /\ ((a + k) + 2) * f = x * (((k + 1) * q) * ((a + 1) * p))
        /\ f = y * (((k + 1) * q) * p)
        /\ f = z * (q * ((a + 1) * p))
    BY <2>1, <2>2, <2>3, <2>4, WaysProduct
  <2> DEFINE w == ((k + 1) * q) * ((a + 1) * p)
  <2>6. (a + 1) * f = y * w /\ (k + 1) * f = z * w
    BY <2>5
  <2>7. x * w = (y + z) * w
    BY <2>5, <2>6
  <2>8. w \in Nat \ {0}
    <3>1. (k + 1) * q \in Nat \ {0} /\ (a + 1) * p \in Nat \ {0}
      BY <2>2
    <3> QED
      BY <3>1
  <2> HIDE DEF w
  <2>9. x = y + z
    BY <1>1, <2>7, <2>8
  <2> QED
    BY <2>1, <2>9
<1> QED
  BY <1>2, <1>3

\* More of what is chosen, more ways: at least one for each thing.
LEMMA WaysGrow ==
    ASSUME NEW a \in Nat \ {0}, NEW k \in Nat
    PROVE  Ways(a, k + 1) >= Ways(a, k) + 1
<1>1. a - 1 \in Nat /\ (a - 1) + 1 = a /\ k + 1 \in Nat
  OBVIOUS
<1>2. Ways(a, k + 1) = Ways(a - 1, k + 1) + Ways(a, k)
  BY <1>1, Pascal
<1>3. Ways(a, k) \in Nat /\ Ways(a - 1, k + 1) \in Nat /\ Ways(a - 1, k + 1) # 0
  BY <1>1, WaysProduct
<1> QED
  BY <1>2, <1>3

LEMMA WaysMonotone ==
    ASSUME NEW a \in Nat \ {0}, NEW k \in Nat, NEW m \in Nat
    PROVE  Ways(a, k + m) >= Ways(a, k) + m
<1> DEFINE S == {n \in Nat : Ways(a, k + n) >= Ways(a, k) + n}
<1>1. \A n \in Nat : Ways(a, n) \in Nat
  BY WaysProduct
<1>2. 0 \in S
  BY <1>1
<1>3. ASSUME NEW n \in S PROVE n + 1 \in S
  <2>1. k + n \in Nat /\ (k + n) + 1 = k + (n + 1) /\ k + (n + 1) \in Nat
    OBVIOUS
  <2>2. Ways(a, (k + n) + 1) >= Ways(a, k + n) + 1
    BY <2>1, WaysGrow
  <2>3. Ways(a, k + n) >= Ways(a, k) + n
    OBVIOUS
  <2> QED
    BY <1>1, <2>1, <2>2, <2>3
<1>4. S \in SUBSET Nat
  OBVIOUS
<1> HIDE DEF S
<1>5. S = Nat
  BY <1>2, <1>3, <1>4, NaturalNumbers
<1> QED
  BY <1>5 DEF S

LEMMA WaysOne ==
    ASSUME NEW k \in Nat
    PROVE  Ways(1, k) = k + 1
<1> DEFINE S == {n \in Nat : Ways(1, n) = n + 1}
<1>1. 0 \in S
  BY Pascal
<1>2. ASSUME NEW n \in S PROVE n + 1 \in S
  <2>1. Ways(0 + 1, n + 1) = Ways(0, n + 1) + Ways(0 + 1, n) /\ Ways(0, n + 1) = 1
    BY Pascal
  <2> QED
    BY <2>1
<1>3. S \in SUBSET Nat
  OBVIOUS
<1> HIDE DEF S
<1>4. S = Nat
  BY <1>1, <1>2, <1>3, NaturalNumbers
<1> QED
  BY <1>4 DEF S

-----------------------------------------------------------------------------
(* The failures that threads have left.                                    *)

\* What c threads with fewer than b attempts left save.
Credit(b, c) == Ways(b + 1, c) - Ways(b, c)

LEMMA Credits ==
    ASSUME NEW b \in Nat \ {0}
    PROVE  /\ Credit(b, 0) = 0
           /\ \A c \in Nat : /\ Credit(b, c) \in Int
                             /\ Credit(b, c + 1) = Ways(b + 1, c)
                             /\ Credit(b, c + 1) = Credit(b, c) + Ways(b, c)
<1>1. Credit(b, 0) = 0
  BY Pascal DEF Credit
<1>2. ASSUME NEW c \in Nat
      PROVE  /\ Credit(b, c) \in Int
             /\ Credit(b, c + 1) = Ways(b + 1, c)
             /\ Credit(b, c + 1) = Credit(b, c) + Ways(b, c)
  <2>1. c + 1 \in Nat /\ b + 1 \in Nat
    OBVIOUS
  <2>2. /\ Ways(b, c) \in Int /\ Ways(b + 1, c) \in Int /\ Ways(b, c + 1) \in Int
        /\ Ways(b + 1, c + 1) = Ways(b, c + 1) + Ways(b + 1, c)
    BY <2>1, WaysProduct, Pascal
  <2> QED
    BY <2>2 DEF Credit
<1> QED
  BY <1>1, <1>2

LEMMA CreditMonotone ==
    ASSUME NEW b \in Nat \ {0}, NEW c \in Nat, NEW d \in Nat, c <= d
    PROVE  Credit(b, d) - Credit(b, c) >= d - c
<1> DEFINE S == {n \in Nat : Credit(b, c + n) >= Credit(b, c) + n}
<1>1. \A n \in Nat : Credit(b, n) \in Int
  BY Credits
<1>2. 0 \in S
  BY <1>1
<1>3. ASSUME NEW n \in S PROVE n + 1 \in S
  <2>1. c + n \in Nat /\ (c + n) + 1 = c + (n + 1) /\ c + (n + 1) \in Nat
    OBVIOUS
  <2>2. Credit(b, (c + n) + 1) = Credit(b, c + n) + Ways(b, c + n)
    BY <2>1, Credits
  <2>3. Ways(b, c + n) \in Nat /\ Ways(b, c + n) # 0
    BY <2>1, WaysProduct
  <2>4. Credit(b, c + n) >= Credit(b, c) + n
    OBVIOUS
  <2> QED
    BY <1>1, <2>1, <2>2, <2>3, <2>4
<1>4. S \in SUBSET Nat
  OBVIOUS
<1> HIDE DEF S
<1>5. S = Nat
  BY <1>2, <1>3, <1>4, NaturalNumbers
<1>6. d - c \in S /\ c + (d - c) = d
  BY <1>5
<1> QED
  BY <1>1, <1>6 DEF S

\* What m threads more save is more, the more threads there are.
LEMMA CreditConvex ==
    ASSUME NEW b \in Nat \ {0}, NEW c \in Nat, NEW d \in Nat, c <= d, NEW m \in Nat
    PROVE  Credit(b, c + m) - Credit(b, c) <= Credit(b, d + m) - Credit(b, d)
<1> DEFINE S == {n \in Nat : Credit(b, c + m) - Credit(b, c)
                               <= Credit(b, (c + n) + m) - Credit(b, c + n)}
<1>1. \A n \in Nat : Credit(b, n) \in Int
  BY Credits
<1>2. 0 \in S
  BY <1>1
<1>3. ASSUME NEW n \in S PROVE n + 1 \in S
  <2> DEFINE e == c + n
  <2>1. /\ e \in Nat /\ e + m \in Nat /\ (e + m) + 1 = (c + (n + 1)) + m
        /\ e + 1 = c + (n + 1) /\ e + 1 \in Nat /\ (e + m) + 1 \in Nat
    OBVIOUS
  <2>2. Credit(b, c + m) - Credit(b, c) <= Credit(b, e + m) - Credit(b, e)
    OBVIOUS
  <2> HIDE DEF e
  <2>3. /\ Credit(b, e + 1) = Credit(b, e) + Ways(b, e)
        /\ Credit(b, (e + m) + 1) = Credit(b, e + m) + Ways(b, e + m)
    BY <2>1, Credits
  <2>4. Ways(b, e + m) >= Ways(b, e) + m /\ Ways(b, e) \in Nat /\ Ways(b, e + m) \in Nat
    BY <2>1, WaysMonotone, WaysProduct
  <2>5. /\ Credit(b, e) \in Int /\ Credit(b, e + m) \in Int
        /\ Credit(b, e + 1) \in Int /\ Credit(b, (e + m) + 1) \in Int
        /\ Credit(b, c) \in Int /\ Credit(b, c + m) \in Int
    BY <1>1, <2>1
  <2>6. Credit(b, c + m) - Credit(b, c) <= Credit(b, (e + m) + 1) - Credit(b, e + 1)
    BY <2>2, <2>3, <2>4, <2>5
  <2> QED
    BY <2>1, <2>6
<1>4. S \in SUBSET Nat
  OBVIOUS
<1> HIDE DEF S
<1>5. S = Nat
  BY <1>2, <1>3, <1>4, NaturalNumbers
<1>6. d - c \in S /\ c + (d - c) = d
  BY <1>5
<1> QED
  BY <1>6 DEF S

\* The partial sums of g.
Sums(g) == CHOOSE f \in [Nat -> Int] : f[0] = 0 /\ \A n \in Nat : f[n + 1] = f[n] + g[n + 1]

LEMMA SumsExist ==
    ASSUME NEW g \in [Nat -> Int]
    PROVE  /\ Sums(g) \in [Nat -> Int] /\ Sums(g)[0] = 0
           /\ \A n \in Nat : Sums(g)[n + 1] = Sums(g)[n] + g[n + 1]
<1> DEFINE step == [n \in Nat |-> [x \in Int |-> x + g[n + 1]]]
<1>1. step \in [Nat -> [Int -> Int]] /\ 0 \in Int
  OBVIOUS
<1>2. \A n \in Nat, x \in Int : step[n][x] = x + g[n + 1]
  OBVIOUS
<1> HIDE DEF step
<1>3. PICK f \in [Nat -> Int] : f[0] = 0 /\ \A n \in Nat : f[n + 1] = step[n][f[n]]
  BY <1>1, Recursion
<1>4. \A n \in Nat : f[n + 1] = f[n] + g[n + 1]
  BY <1>2, <1>3
<1> QED
  BY <1>3, <1>4 DEF Sums

\* What grows faster has grown more.
LEMMA Growth ==
    ASSUME NEW f \in [Nat -> Int], NEW h \in [Nat -> Int], NEW n \in Nat,
           \A b \in 1..n : f[b] - f[b - 1] >= h[b] - h[b - 1]
    PROVE  f[n] - f[0] >= h[n] - h[0]
<1> DEFINE S == {m \in Nat : m <= n => f[m] - f[0] >= h[m] - h[0]}
<1>1. 0 \in S
  OBVIOUS
<1>2. ASSUME NEW m \in S PROVE m + 1 \in S
  <2> SUFFICES ASSUME m + 1 <= n PROVE f[m + 1] - f[0] >= h[m + 1] - h[0]
    OBVIOUS
  <2>1. m + 1 \in 1..n /\ (m + 1) - 1 = m /\ m \in Nat
    OBVIOUS
  <2>2. f[m + 1] - f[m] >= h[m + 1] - h[m]
    BY <2>1
  <2>3. f[m] - f[0] >= h[m] - h[0]
    OBVIOUS
  <2>4. /\ f[m] \in Int /\ h[m] \in Int /\ f[m + 1] \in Int /\ h[m + 1] \in Int
        /\ f[0] \in Int /\ h[0] \in Int
    BY <2>1
  <2> QED
    BY <2>2, <2>3, <2>4
<1>3. S \in SUBSET Nat
  OBVIOUS
<1> HIDE DEF S
<1>4. S = Nat
  BY <1>1, <1>2, <1>3, NaturalNumbers
<1> QED
  BY <1>4 DEF S

\* The threads with fewer than b attempts left.
Short(left, b) == {t \in Threads : left[t] < b}

\* How many failures threads can have had that have so many attempts left.
Savings(left) == Sums([b \in Nat |-> IF b = 0 THEN 0
                                     ELSE Credit(b, Cardinality(Short(left, b)))])
Spent(left) == Savings(left)[MaxAttempts]

LEMMA ShortFinite ==
    ASSUME NEW left, NEW b
    PROVE  IsFiniteSet(Short(left, b)) /\ Cardinality(Short(left, b)) \in Nat
           /\ Cardinality(Short(left, b)) <= Cardinality(Threads)
           /\ Cardinality(Threads) \in Nat
<1>1. Short(left, b) \subseteq Threads
  BY DEF Short
<1> QED
  BY <1>1, ThreadsAssumption, FS_Subset, FS_CardinalityType

LEMMA SavingsSum ==
    ASSUME NEW left
    PROVE  /\ Savings(left) \in [Nat -> Int] /\ Savings(left)[0] = 0
           /\ \A b \in Nat \ {0} : Savings(left)[b] - Savings(left)[b - 1]
                                     = Credit(b, Cardinality(Short(left, b)))
<1> DEFINE g == [b \in Nat |-> IF b = 0 THEN 0 ELSE Credit(b, Cardinality(Short(left, b)))]
<1>1. \A b \in Nat \ {0} : Credit(b, Cardinality(Short(left, b))) \in Int
  BY ShortFinite, Credits
<1>2. g \in [Nat -> Int] /\ \A b \in Nat \ {0} : g[b] = Credit(b, Cardinality(Short(left, b)))
  BY <1>1
<1>3. Savings(left) = Sums(g)
  BY DEF Savings
<1> HIDE DEF g
<1>4. /\ Savings(left) \in [Nat -> Int] /\ Savings(left)[0] = 0
      /\ \A n \in Nat : Savings(left)[n + 1] = Savings(left)[n] + g[n + 1]
  BY <1>2, <1>3, SumsExist
<1>5. ASSUME NEW b \in Nat \ {0}
      PROVE  Savings(left)[b] - Savings(left)[b - 1] = Credit(b, Cardinality(Short(left, b)))
  <2>1. b - 1 \in Nat /\ (b - 1) + 1 = b
    OBVIOUS
  <2>2. Savings(left)[b] = Savings(left)[b - 1] + g[b]
    BY <1>4, <2>1
  <2>3. Savings(left)[b - 1] \in Int /\ g[b] \in Int /\ Savings(left)[b] \in Int
    BY <1>2, <1>4, <2>1
  <2> QED
    BY <1>2, <2>2, <2>3
<1> QED
  BY <1>4, <1>5

LEMMA SpentGrows ==
    ASSUME NEW old, NEW new, NEW u \in [Nat -> Int],
           \A b \in 1..MaxAttempts :
               Credit(b, Cardinality(Short(new, b))) - Credit(b, Cardinality(Short(old, b)))
                 >= u[b + 1] - u[b]
    PROVE  /\ Spent(new) \in Int /\ Spent(old) \in Int
           /\ Spent(new) >= Spent(old) + (u[MaxAttempts + 1] - u[1])
<1> DEFINE f == Savings(new)
           k == Savings(old)
           h == [b \in Nat |-> k[b] + u[b + 1]]
<1>1. f \in [Nat -> Int] /\ k \in [Nat -> Int] /\ f[0] = 0 /\ k[0] = 0
  BY SavingsSum
<1>2. \A b \in Nat \ {0} : /\ f[b] - f[b - 1] = Credit(b, Cardinality(Short(new, b)))
                           /\ k[b] - k[b - 1] = Credit(b, Cardinality(Short(old, b)))
  BY SavingsSum
<1> HIDE DEF f, k
<1>3. h \in [Nat -> Int]
  BY <1>1
<1>4. ASSUME NEW b \in 1..MaxAttempts PROVE f[b] - f[b - 1] >= h[b] - h[b - 1]
  <2>1. b \in Nat \ {0} /\ b - 1 \in Nat /\ (b - 1) + 1 = b /\ b + 1 \in Nat
    BY SettingsAssumption
  <2>2. h[b] = k[b] + u[b + 1] /\ h[b - 1] = k[b - 1] + u[b]
    BY <2>1
  <2>3. f[b] - f[b - 1] - (k[b] - k[b - 1]) >= u[b + 1] - u[b]
    BY <1>2, <2>1
  <2>4. /\ f[b] \in Int /\ f[b - 1] \in Int /\ k[b] \in Int /\ k[b - 1] \in Int
        /\ u[b] \in Int /\ u[b + 1] \in Int
    BY <1>1, <2>1
  <2> QED
    BY <2>2, <2>3, <2>4
<1>5. MaxAttempts \in Nat /\ MaxAttempts + 1 \in Nat
  BY SettingsAssumption
<1>6. h[MaxAttempts] = k[MaxAttempts] + u[MaxAttempts + 1] /\ h[0] = k[0] + u[1]
  BY <1>5
<1> HIDE DEF h
<1>7. f[MaxAttempts] - f[0] >= h[MaxAttempts] - h[0]
  BY <1>3, <1>4, <1>1, <1>5, Growth
<1>8. f[MaxAttempts] \in Int /\ k[MaxAttempts] \in Int /\ u[MaxAttempts + 1] \in Int /\ u[1] \in Int
  BY <1>1, <1>5
<1> QED
  BY <1>1, <1>6, <1>7, <1>8 DEF f, k, Spent

\* Threads that have fewer attempts left have spent more.
LEMMA SpentMonotone ==
    ASSUME NEW old \in [Threads -> Nat], NEW new \in [Threads -> Nat],
           \A t \in Threads : new[t] <= old[t]
    PROVE  Spent(new) \in Int /\ Spent(old) \in Int /\ Spent(new) >= Spent(old)
<1> DEFINE u == [b \in Nat |-> 0]
<1>1. u \in [Nat -> Int] /\ \A b \in Nat : u[b] = 0
  OBVIOUS
<1> HIDE DEF u
<1>2. ASSUME NEW b \in 1..MaxAttempts
      PROVE  Credit(b, Cardinality(Short(new, b))) - Credit(b, Cardinality(Short(old, b)))
               >= u[b + 1] - u[b]
  <2>1. b \in Nat \ {0} /\ b + 1 \in Nat
    BY SettingsAssumption
  <2>2. Short(old, b) \subseteq Short(new, b)
    <3> SUFFICES ASSUME NEW t \in Threads, old[t] < b PROVE new[t] < b
      BY DEF Short
    <3> QED
      BY <2>1
  <2>3. Cardinality(Short(old, b)) <= Cardinality(Short(new, b))
    BY <2>2, ShortFinite, FS_Subset
  <2>4. Cardinality(Short(old, b)) \in Nat /\ Cardinality(Short(new, b)) \in Nat
    BY ShortFinite
  <2>5. Credit(b, Cardinality(Short(new, b))) - Credit(b, Cardinality(Short(old, b)))
          >= Cardinality(Short(new, b)) - Cardinality(Short(old, b))
    BY <2>1, <2>3, <2>4, CreditMonotone
  <2>6. /\ Credit(b, Cardinality(Short(new, b))) \in Int
        /\ Credit(b, Cardinality(Short(old, b))) \in Int
    BY <2>1, <2>4, Credits
  <2>7. u[b + 1] = 0 /\ u[b] = 0
    BY <1>1, <2>1
  <2> QED
    BY <2>3, <2>4, <2>5, <2>6, <2>7
<1>3. Spent(new) \in Int /\ Spent(old) \in Int
      /\ Spent(new) >= Spent(old) + (u[MaxAttempts + 1] - u[1])
  BY <1>1, <1>2, SpentGrows
<1>4. u[MaxAttempts + 1] = 0 /\ u[1] = 0
  BY <1>1, SettingsAssumption
<1> QED
  BY <1>3, <1>4

\* The most that can be spent.
LEMMA SpentAtMost ==
    ASSUME NEW left \in [Threads -> Nat]
    PROVE  /\ Spent(left) \in Int
           /\ Spent(left) <= Ways(MaxAttempts + 1, Cardinality(Threads)) - Cardinality(Threads) - 1
<1> DEFINE T == Cardinality(Threads)
           f == [b \in Nat |-> Ways(b + 1, T)]
           k == Savings(left)
<1>1. T \in Nat /\ MaxAttempts \in Nat
  BY ThreadsAssumption, FS_CardinalityType, SettingsAssumption
<1> HIDE DEF T
<1>2. \A b \in Nat : Ways(b + 1, T) \in Int
  BY <1>1, WaysProduct
<1>3. f \in [Nat -> Int] /\ k \in [Nat -> Int] /\ k[0] = 0
  BY <1>2, SavingsSum
<1>4. ASSUME NEW b \in 1..MaxAttempts PROVE f[b] - f[b - 1] >= k[b] - k[b - 1]
  <2>1. b \in Nat \ {0} /\ b - 1 \in Nat /\ (b - 1) + 1 = b
    BY <1>1
  <2>2. f[b] - f[b - 1] = Credit(b, T)
    BY <2>1 DEF Credit
  <2>3. k[b] - k[b - 1] = Credit(b, Cardinality(Short(left, b)))
    BY <2>1, SavingsSum
  <2>4. Cardinality(Short(left, b)) \in Nat /\ Cardinality(Short(left, b)) <= T
    BY ShortFinite DEF T
  <2>5. Credit(b, T) - Credit(b, Cardinality(Short(left, b))) >= T - Cardinality(Short(left, b))
    BY <1>1, <2>1, <2>4, CreditMonotone
  <2>6. Credit(b, T) \in Int /\ Credit(b, Cardinality(Short(left, b))) \in Int
    BY <1>1, <2>1, <2>4, Credits
  <2> HIDE DEF f, k
  <2> QED
    BY <1>1, <2>2, <2>3, <2>4, <2>5, <2>6
<1>5. f[MaxAttempts] = Ways(MaxAttempts + 1, T) /\ f[0] = Ways(1, T)
  BY <1>1
<1> HIDE DEF f, k
<1>6. f[MaxAttempts] - f[0] >= k[MaxAttempts] - k[0]
  BY <1>1, <1>3, <1>4, Growth
<1>7. Ways(1, T) = T + 1
  BY <1>1, WaysOne
<1>8. k[MaxAttempts] \in Int /\ f[MaxAttempts] \in Int
  BY <1>1, <1>3
<1> QED
  BY <1>1, <1>3, <1>5, <1>6, <1>7, <1>8 DEF k, T, Spent

\* Threads that have not all their attempts left have spent one each.
LEMMA SpentAtLeast ==
    ASSUME NEW left \in [Threads -> Nat], NEW D \in SUBSET Threads,
           \A t \in D : left[t] < MaxAttempts
    PROVE  /\ Spent(left) \in Int /\ Cardinality(D) \in Nat
           /\ Cardinality(D) <= Spent(left)
<1> DEFINE N == MaxAttempts
           d == Cardinality(D)
           f == Savings(left)
           h == [b \in Nat |-> IF b = N THEN d ELSE 0]
<1>1. N \in Nat \ {0} /\ d \in Nat
  BY ThreadsAssumption, FS_Subset, FS_CardinalityType, SettingsAssumption
<1>2. f \in [Nat -> Int] /\ f[0] = 0
  BY SavingsSum
<1>3. d <= Cardinality(Short(left, N))
  <2>1. D \subseteq Short(left, N)
    BY DEF Short
  <2> QED
    BY <2>1, ShortFinite, FS_Subset
<1> HIDE DEF d
<1>4. h \in [Nat -> Int] /\ h[0] = 0 /\ h[N] = d
  BY <1>1
<1>5. ASSUME NEW b \in 1..N PROVE f[b] - f[b - 1] >= h[b] - h[b - 1]
  <2>1. b \in Nat \ {0} /\ b - 1 \in Nat /\ b - 1 # N
    BY <1>1
  <2>2. f[b] - f[b - 1] = Credit(b, Cardinality(Short(left, b)))
    BY <2>1, SavingsSum
  <2>3. Cardinality(Short(left, b)) \in Nat /\ 0 \in Nat /\ Cardinality(Short(left, b)) >= 0
    BY ShortFinite
  <2>4. Credit(b, Cardinality(Short(left, b))) - Credit(b, 0) >= Cardinality(Short(left, b)) - 0
    BY <2>1, <2>3, CreditMonotone
  <2>5. Credit(b, 0) = 0 /\ Credit(b, Cardinality(Short(left, b))) \in Int
    BY <2>1, <2>3, Credits
  <2>6. h[b] - h[b - 1] = IF b = N THEN d ELSE 0
    BY <1>1, <2>1
  <2> HIDE DEF f, h, N
  <2>7. CASE b = N
    BY <1>1, <1>3, <2>2, <2>3, <2>4, <2>5, <2>6, <2>7
  <2>8. CASE b # N
    BY <2>2, <2>3, <2>4, <2>5, <2>6, <2>8
  <2> QED
    BY <2>7, <2>8
<1> HIDE DEF f, h
<1>6. f[N] - f[0] >= h[N] - h[0]
  BY <1>1, <1>2, <1>4, <1>5, Growth
<1> QED
  BY <1>1, <1>2, <1>4, <1>6 DEF f, Spent, d

LEMMA DisjointUnion ==
    ASSUME NEW S \in SUBSET Threads, NEW T \in SUBSET Threads, S \cap T = {}
    PROVE  /\ Cardinality(S) \in Nat /\ Cardinality(T) \in Nat
           /\ Cardinality(S \cup T) = Cardinality(S) + Cardinality(T)
<1>1. IsFiniteSet(S) /\ IsFiniteSet(T)
  BY ThreadsAssumption, FS_Subset
<1>2. Cardinality(S) \in Nat /\ Cardinality(T) \in Nat /\ Cardinality(S \cap T) = 0
  BY <1>1, FS_CardinalityType, FS_EmptySet
<1>3. Cardinality(S \cup T) = Cardinality(S) + Cardinality(T) - Cardinality(S \cap T)
  BY <1>1, FS_Union
<1> QED
  BY <1>2, <1>3

\* Thread t writes an entry that has p attempts left over one that has q: the free threads F
\* get back to p - 1, and t may try again.
LEMMA WriteSpends ==
    ASSUME NEW old \in [Threads -> Nat], NEW F \in SUBSET Threads, NEW t \in Threads, t \notin F,
           NEW p \in 1..MaxAttempts, NEW q \in 0..MaxAttempts,
           old[t] = p, \A u \in F : old[u] = IF q = 0 THEN 0 ELSE q - 1,
           NEW new \in [Threads -> Nat],
           \A u \in Threads : new[u] = IF u \in F \cup {t} THEN p - 1 ELSE old[u]
    PROVE  /\ Spent(new) \in Int /\ Spent(old) \in Int /\ Cardinality(F) \in Nat
           /\ Spent(new) >= Spent(old) + (IF q >= p THEN 1 ELSE Cardinality(F) + 1)
<1> DEFINE N == MaxAttempts
           m == Cardinality(F)
           G == F \cup {t}
           O(b) == {u \in Threads \ G : old[u] < b}
           o == Cardinality(O(p))
           k == o + m
<1>1. N \in Nat \ {0} /\ p \in Nat \ {0} /\ p <= N /\ q \in Nat /\ p - 1 \in Nat
  BY SettingsAssumption
<1>2. \A b : O(b) \subseteq Threads /\ O(b) \cap F = {} /\ O(b) \cap {t} = {} /\ O(b) \cap G = {}
  OBVIOUS
<1>3. m \in Nat /\ Cardinality(G) = m + 1 /\ G \subseteq Threads
  <2>1. F \cap {t} = {} /\ {t} \subseteq Threads
    OBVIOUS
  <2>2. Cardinality({t}) = 1
    BY FS_Singleton
  <2> QED
    BY <2>1, <2>2, DisjointUnion
<1>4. \A b : /\ Cardinality(O(b)) \in Nat
             /\ Cardinality(O(b) \cup F) = Cardinality(O(b)) + m
             /\ Cardinality(O(b) \cup G) = Cardinality(O(b)) + m + 1
  <2> HIDE DEF O, m, G
  <2>1. ASSUME NEW b
        PROVE  /\ Cardinality(O(b)) \in Nat
               /\ Cardinality(O(b) \cup F) = Cardinality(O(b)) + Cardinality(F)
               /\ Cardinality(O(b) \cup G) = Cardinality(O(b)) + Cardinality(G)
    BY <1>2, <1>3, DisjointUnion
  <2> QED
    BY <1>3, <2>1 DEF m
<1>5. ASSUME NEW b \in 1..N, b >= p PROVE Short(new, b) = O(b) \cup G
  BY <1>1, <1>5 DEF Short
<1>6. ASSUME NEW b \in 1..N, b < p PROVE Short(new, b) = O(b)
  BY <1>1, <1>6 DEF Short
<1>7. \A b \in 1..N : Short(old, b) \subseteq O(b) \cup G
  BY DEF Short
<1>8. ASSUME NEW b \in 1..N, b <= p PROVE Short(old, b) \subseteq O(b) \cup F
  BY <1>1, <1>8 DEF Short
<1>9. ASSUME NEW b \in 1..N, b < p, q >= p PROVE Short(old, b) = O(b)
  <2>1. \A u \in G : ~(old[u] < b)
    BY <1>1, <1>9
  <2> QED
    BY <2>1 DEF Short
<1>10. \A b \in 1..N : b \in Nat \ {0} /\ b + 1 \in Nat
  BY <1>1
<1>11. /\ o \in Nat /\ k \in Nat /\ o <= k
       /\ Cardinality(O(p) \cup F) = k /\ Cardinality(O(p) \cup G) = k + 1
  <2> HIDE DEF O, m, G
  <2> QED
    BY <1>3, <1>4
<1>12. \A b \in Nat : Ways(b, k) \in Nat \ {0} /\ Ways(b, o) \in Nat \ {0}
  BY <1>11, WaysProduct
<1>13. \A b \in 1..N : /\ Cardinality(Short(old, b)) \in Nat
                       /\ Cardinality(Short(new, b)) \in Nat
  BY ShortFinite
\* Above p, nobody has more attempts left than before.
<1>14. ASSUME NEW b \in 1..N, b > p
       PROVE  Credit(b, Cardinality(Short(new, b))) - Credit(b, Cardinality(Short(old, b))) >= 0
  <2>1. Short(old, b) \subseteq Short(new, b)
    BY <1>1, <1>5, <1>7, <1>14
  <2>2. Cardinality(Short(old, b)) <= Cardinality(Short(new, b))
    BY <2>1, ShortFinite, FS_Subset
  <2>3. /\ Credit(b, Cardinality(Short(new, b))) - Credit(b, Cardinality(Short(old, b)))
             >= Cardinality(Short(new, b)) - Cardinality(Short(old, b))
        /\ Credit(b, Cardinality(Short(new, b))) \in Int
        /\ Credit(b, Cardinality(Short(old, b))) \in Int
    BY <1>10, <1>13, <2>2, CreditMonotone, Credits
  <2> QED
    BY <1>13, <2>2, <2>3
\* At p, one thread more is short.
<1>15. /\ Credit(p, Cardinality(Short(new, p))) - Credit(p, Cardinality(Short(old, p)))
            >= Ways(p, k)
       /\ Credit(p, Cardinality(Short(new, p))) \in Int
       /\ Credit(p, Cardinality(Short(old, p))) \in Int
  <2>1. p \in 1..N /\ p >= p /\ p <= p
    BY <1>1
  <2>2. Cardinality(Short(new, p)) = k + 1
    <3>1. Short(new, p) = O(p) \cup G
      BY <1>5, <2>1
    <3> HIDE DEF O, G, k
    <3> QED
      BY <1>11, <3>1
  <2>3. Cardinality(Short(old, p)) <= k
    <3>1. Short(old, p) \subseteq O(p) \cup F /\ O(p) \cup F \subseteq Threads
      BY <1>2, <1>8, <2>1
    <3> HIDE DEF O, k
    <3>2. Cardinality(O(p) \cup F) = k /\ k \in Nat
      BY <1>11
    <3>3. IsFiniteSet(O(p) \cup F)
      BY <3>1, ThreadsAssumption, FS_Subset
    <3> QED
      BY <3>1, <3>2, <3>3, FS_Subset
  <2>4. Cardinality(Short(old, p)) \in Nat
    BY <1>13, <2>1
  <2> HIDE DEF k, o
  <2>5. /\ Credit(p, k + 1) = Credit(p, k) + Ways(p, k) /\ Credit(p, k) \in Int
        /\ Credit(p, Cardinality(Short(old, p))) \in Int
    BY <1>1, <1>11, <2>4, Credits
  <2>6. Credit(p, k) - Credit(p, Cardinality(Short(old, p))) >= k - Cardinality(Short(old, p))
    BY <1>1, <1>11, <2>3, <2>4, CreditMonotone
  <2>7. Ways(p, k) \in Int
    BY <1>1, <1>12
  <2> QED
    BY <1>11, <2>2, <2>3, <2>4, <2>5, <2>6, <2>7
<1> HIDE DEF N, m, O, o, k, G
\* The entry that is written over had as many attempts left: nothing is regained.
<1>16. CASE q >= p
  <2> DEFINE u == [b \in Nat |-> IF b <= p THEN 0 ELSE 1]
  <2>1. u \in [Nat -> Int] /\ \A b \in Nat : u[b] = IF b <= p THEN 0 ELSE 1
    OBVIOUS
  <2> HIDE DEF u
  <2>2. ASSUME NEW b \in 1..N
        PROVE  Credit(b, Cardinality(Short(new, b))) - Credit(b, Cardinality(Short(old, b)))
                 >= u[b + 1] - u[b]
    <3>1. CASE b > p
      <4>1. u[b + 1] = 1 /\ u[b] = 1
        BY <1>1, <1>10, <2>1, <3>1
      <4> QED
        BY <1>14, <3>1, <4>1
    <3>2. CASE b = p
      <4>1. u[b + 1] = 1 /\ u[b] = 0
        BY <1>1, <1>10, <2>1, <3>2
      <4>2. Ways(p, k) \in Nat \ {0}
        BY <1>1, <1>12
      <4> QED
        BY <1>15, <3>2, <4>1, <4>2
    <3>3. CASE b < p
      <4>1. u[b + 1] = 0 /\ u[b] = 0
        BY <1>1, <1>10, <2>1, <3>3
      <4>2. Short(new, b) = Short(old, b)
        BY <1>6, <1>9, <1>16, <3>3
      <4>3. Credit(b, Cardinality(Short(old, b))) \in Int
        BY <1>10, <1>13, Credits
      <4> QED
        BY <4>1, <4>2, <4>3
    <3> QED
      BY <1>1, <1>10, <3>1, <3>2, <3>3
  <2>3. /\ Spent(new) \in Int /\ Spent(old) \in Int
        /\ Spent(new) >= Spent(old) + (u[MaxAttempts + 1] - u[1])
    BY <2>1, <2>2, SpentGrows DEF N
  <2>4. u[MaxAttempts + 1] = 1 /\ u[1] = 0
    <3>1. MaxAttempts + 1 \in Nat /\ 1 \in Nat /\ ~(MaxAttempts + 1 <= p) /\ 1 <= p
      BY <1>1 DEF N
    <3> QED
      BY <2>1, <3>1
  <2> QED
    BY <1>3, <1>16, <2>3, <2>4 DEF m
\* It had fewer: the free threads regain some, but t has saved more.
<1>17. CASE q < p
  <2> DEFINE w(b) == Ways(b, k) - Ways(b, o)
             u == [b \in Nat |-> IF b <= p THEN -w(b) ELSE Ways(p, k) - w(p)]
  <2>1. \A b \in Nat : w(b) \in Int
    BY <1>12
  <2>2. u \in [Nat -> Int] /\ \A b \in Nat : u[b] = IF b <= p THEN -w(b) ELSE Ways(p, k) - w(p)
    BY <1>1, <1>12, <2>1
  <2>3. \A b \in 1..N : w(b + 1) - w(b) = Credit(b, k) - Credit(b, o)
    BY <1>10, <1>12 DEF Credit
  <2> HIDE DEF u, w
  <2>4. ASSUME NEW b \in 1..N
        PROVE  Credit(b, Cardinality(Short(new, b))) - Credit(b, Cardinality(Short(old, b)))
                 >= u[b + 1] - u[b]
    <3>1. CASE b > p
      <4>1. u[b + 1] = Ways(p, k) - w(p) /\ u[b] = Ways(p, k) - w(p)
        BY <1>1, <1>10, <2>2, <3>1
      <4>2. Ways(p, k) \in Int /\ w(p) \in Int
        BY <1>1, <1>12, <2>1
      <4> QED
        BY <1>14, <3>1, <4>1, <4>2
    <3>2. CASE b = p
      <4>1. u[b + 1] = Ways(p, k) - w(p) /\ u[b] = -w(p)
        BY <1>1, <1>10, <2>2, <3>2
      <4>2. Ways(p, k) \in Int /\ w(p) \in Int
        BY <1>1, <1>12, <2>1
      <4> QED
        BY <1>15, <3>2, <4>1, <4>2
    <3>3. CASE b < p
      <4>1. u[b + 1] = -w(b + 1) /\ u[b] = -w(b)
        BY <1>1, <1>10, <2>2, <3>3
      <4> DEFINE c == Cardinality(O(b))
      <4>2. c \in Nat /\ Cardinality(Short(new, b)) = c
        BY <1>4, <1>6, <3>3
      <4>3. Cardinality(Short(old, b)) <= c + m
        <5>1. b <= p
          BY <1>1, <3>3
        <5>2. Short(old, b) \subseteq O(b) \cup F /\ O(b) \cup F \subseteq Threads
          BY <1>2, <1>8, <5>1
        <5>3. IsFiniteSet(O(b) \cup F) /\ Cardinality(O(b) \cup F) = c + m
          BY <1>4, <5>2, ThreadsAssumption, FS_Subset
        <5> QED
          BY <5>2, <5>3, FS_Subset
      <4>4. c <= o
        <5>1. O(b) \subseteq O(p) /\ O(p) \subseteq Threads
          BY <1>1, <1>2, <1>10, <3>3 DEF O
        <5> QED
          BY <5>1, ThreadsAssumption, FS_Subset DEF o
      <4> HIDE DEF c
      <4>5. Credit(b, c + m) - Credit(b, Cardinality(Short(old, b)))
              >= (c + m) - Cardinality(Short(old, b))
        BY <1>3, <1>10, <1>13, <4>2, <4>3, CreditMonotone
      <4>6. Credit(b, c + m) - Credit(b, c) <= Credit(b, k) - Credit(b, o)
        BY <1>3, <1>10, <1>11, <4>2, <4>4, CreditConvex DEF k
      <4>7. /\ Credit(b, c) \in Int /\ Credit(b, c + m) \in Int
            /\ Credit(b, k) \in Int /\ Credit(b, o) \in Int
            /\ Credit(b, Cardinality(Short(old, b))) \in Int
        <5>1. c + m \in Nat /\ Cardinality(Short(old, b)) \in Nat /\ b \in Nat \ {0}
          BY <1>3, <1>10, <1>13, <4>2 DEF m
        <5> QED
          BY <1>11, <4>2, <5>1, Credits
      <4>8. w(b + 1) - w(b) = Credit(b, k) - Credit(b, o) /\ w(b + 1) \in Int /\ w(b) \in Int
        BY <1>10, <2>1, <2>3
      <4> QED
        BY <1>3, <1>13, <4>1, <4>2, <4>3, <4>5, <4>6, <4>7, <4>8
    <3> QED
      BY <1>1, <1>10, <3>1, <3>2, <3>3
  <2>5. /\ Spent(new) \in Int /\ Spent(old) \in Int
        /\ Spent(new) >= Spent(old) + (u[MaxAttempts + 1] - u[1])
    BY <2>2, <2>4, SpentGrows DEF N
  <2>6. u[MaxAttempts + 1] = Ways(p, k) - w(p) /\ u[1] = -w(1)
    <3>1. MaxAttempts + 1 \in Nat /\ 1 \in Nat /\ ~(MaxAttempts + 1 <= p) /\ 1 <= p
      BY <1>1 DEF N
    <3> QED
      BY <2>2, <3>1
  <2>7. Ways(p, k) - w(p) = Ways(p, o) /\ w(1) = m
    <3>1. Ways(1, k) = k + 1 /\ Ways(1, o) = o + 1
      BY <1>11, WaysOne
    <3> QED
      BY <1>1, <1>3, <1>11, <1>12, <3>1 DEF w, k
  <2>8. Ways(p, o) \in Nat \ {0}
    BY <1>1, <1>12
  <2> QED
    BY <1>1, <1>3, <1>17, <2>5, <2>6, <2>7, <2>8 DEF m
<1> QED
  BY <1>1, <1>16, <1>17

-----------------------------------------------------------------------------
(* The failures of one window.                                             *)

\* The attempts that entry e leaves, if only failures after s count.
Left(e, log, s) ==
    IF e.until > s + Lockout THEN 0
    ELSE MaxAttempts - Cardinality({i \in e.fails : log[i] > s})

\* Those that are left when a thread has counted: it writes the entry it holds, or one
\* that has a failure more than the present one, e.
Turns(a, e, log, s) ==
    [t \in Threads |-> IF a[t].pc = "counting" THEN Left(a[t].entry, log, s)
                       ELSE IF Left(e, log, s) = 0 THEN 0 ELSE Left(e, log, s) - 1]

\* The threads that may fail before anything is written.
Due(a, e, log, s) ==
    {t \in Threads : a[t].pc # "counting" /\ (Left(e, log, s) # 0 \/ a[t].pc = "checking")}

After(log, s) == {i \in DOMAIN log : log[i] > s}

\* What failed after s, and may yet before anything is written, is spent.
Balanced(a, e, log, fr, s) ==
    Cardinality(After(fr, s)) + Cardinality(Due(a, e, log, s)) <= Spent(Turns(a, e, log, s))

Budgeted ==
    /\ Past(fresh, now)
    /\ \A s \in Int : s >= now - Window => Balanced(attempt, entry, failures, fresh, s)

LEMMA LeftType ==
    ASSUME NEW log \in Seq(Nat), NEW e, Sound(e, log), NEW s \in Int
    PROVE  /\ Left(e, log, s) \in 0..MaxAttempts
           /\ Left(e, log, s) = 0 <=> e.until > s + Lockout
<1> DEFINE late == {i \in e.fails : log[i] > s}
<1>1. IsFiniteSet(DOMAIN log)
  BY FS_Interval
<1>2. IsFiniteSet(e.fails) /\ Cardinality(e.fails) \in Nat /\ Cardinality(e.fails) < MaxAttempts
  BY <1>1, FS_Subset, FS_CardinalityType DEF Sound
<1>3. late \subseteq e.fails
  OBVIOUS
<1>4. Left(e, log, s) = IF e.until > s + Lockout THEN 0 ELSE MaxAttempts - Cardinality(late)
  BY DEF Left
<1> HIDE DEF late
<1>5. Cardinality(late) \in Nat /\ Cardinality(late) <= Cardinality(e.fails)
  BY <1>2, <1>3, FS_Subset, FS_CardinalityType
<1> QED
  BY <1>2, <1>4, <1>5, SettingsAssumption

LEMMA TurnsType ==
    ASSUME NEW log \in Seq(Nat), NEW e, Sound(e, log), NEW s \in Int,
           NEW a, \A t \in Threads : Sound(a[t].entry, log)
    PROVE  /\ Turns(a, e, log, s) \in [Threads -> Nat]
           /\ \A t \in Threads : a[t].pc # "counting" => Turns(a, e, log, s)[t] < MaxAttempts
           /\ Due(a, e, log, s) \subseteq Threads /\ IsFiniteSet(Due(a, e, log, s))
           /\ Cardinality(Due(a, e, log, s)) \in Nat
<1>1. Left(e, log, s) \in 0..MaxAttempts /\ MaxAttempts \in Nat \ {0}
  BY LeftType, SettingsAssumption
<1>2. \A t \in Threads : Left(a[t].entry, log, s) \in 0..MaxAttempts
  BY LeftType
<1>3. Turns(a, e, log, s) \in [Threads -> Nat]
  BY <1>1, <1>2 DEF Turns
<1>4. \A t \in Threads : a[t].pc # "counting" => Turns(a, e, log, s)[t] < MaxAttempts
  BY <1>1 DEF Turns
<1>5. Due(a, e, log, s) \subseteq Threads
  BY DEF Due
<1> QED
  BY <1>3, <1>4, <1>5, ThreadsAssumption, FS_Subset, FS_CardinalityType

LEMMA AfterFinite ==
    ASSUME NEW log \in Seq(Nat), NEW s
    PROVE  IsFiniteSet(After(log, s)) /\ Cardinality(After(log, s)) \in Nat
<1>1. IsFiniteSet(DOMAIN log)
  BY FS_Interval
<1> QED
  BY <1>1, FS_Subset, FS_CardinalityType DEF After

\* Nothing failed yet: any entries will do.
LEMMA StartsBalanced ==
    ASSUME NEW log \in Seq(Nat), NEW e, Sound(e, log), NEW s \in Int,
           NEW a, \A t \in Threads : Sound(a[t].entry, log),
           NEW fr, After(fr, s) = {}
    PROVE  Balanced(a, e, log, fr, s)
<1> DEFINE left == Turns(a, e, log, s)
           D == Due(a, e, log, s)
<1>1. /\ left \in [Threads -> Nat] /\ D \in SUBSET Threads
      /\ \A t \in Threads : a[t].pc # "counting" => left[t] < MaxAttempts
  BY TurnsType
<1>2. \A t \in D : left[t] < MaxAttempts
  <2>1. \A t \in D : t \in Threads /\ a[t].pc # "counting"
    BY DEF Due
  <2> HIDE DEF left, D
  <2> QED
    BY <1>1, <2>1
<1> HIDE DEF left, D
<1>3. Spent(left) \in Int /\ Cardinality(D) \in Nat /\ Cardinality(D) <= Spent(left)
  BY <1>1, <1>2, SpentAtLeast
<1>4. Cardinality(After(fr, s)) = 0
  BY FS_EmptySet
<1>5. Cardinality(After(fr, s)) + Cardinality(D) <= Spent(left)
  BY <1>3, <1>4
<1> QED
  BY <1>5 DEF Balanced, left, D

LEMMA LeftAppend ==
    ASSUME NEW log \in Seq(Nat), NEW time \in Nat, NEW e, Sound(e, log), NEW s
    PROVE  Left(e, Append(log, time), s) = Left(e, log, s)
<1>1. \A i \in e.fails : Append(log, time)[i] = log[i]
  BY DEF Sound
<1>2. {i \in e.fails : Append(log, time)[i] > s} = {i \in e.fails : log[i] > s}
  BY <1>1
<1> QED
  BY <1>2 DEF Left

\* record_failure() takes an attempt, or locks.
LEMMA CountedTakesOne ==
    ASSUME IInv, NEW s \in Int, s >= now - Window, s < now, Window <= Lockout,
           NEW f, f = Counted(entry)
    PROVE  Left(f, Append(failures, now), s)
             <= IF Left(entry, failures, s) = 0 THEN 0 ELSE Left(entry, failures, s) - 1
<1> DEFINE e == entry
           more == Append(failures, now)
           fails == {i \in e.fails : now - failures[i] < Window} \cup {Len(failures) + 1}
           old == {i \in e.fails : failures[i] > s}
           new == {i \in fails : more[i] > s}
<1>1. /\ failures \in Seq(Nat) /\ now \in Nat /\ Window \in Nat /\ Lockout \in Nat
      /\ Sound(e, failures) /\ MaxAttempts \in Nat \ {0} /\ more \in Seq(Nat)
  BY SettingsAssumption DEF IInv, Past
<1>2. f = IF Cardinality(fails) >= MaxAttempts THEN [fails |-> {}, until |-> now + Lockout]
          ELSE [e EXCEPT !.fails = fails]
  BY DEF Counted
<1>3. Left(e, failures, s) \in 0..MaxAttempts
      /\ (Left(e, failures, s) = 0 <=> e.until > s + Lockout)
  BY <1>1, LeftType
<1>4. CASE Cardinality(fails) >= MaxAttempts
  <2>1. f.until = now + Lockout
    BY <1>2, <1>4
  <2>2. f.until > s + Lockout
    BY <1>1, <2>1
  <2>3. Left(f, more, s) = 0
    BY <2>2 DEF Left
  <2> QED
    BY <1>3, <2>3
<1>5. CASE ~(Cardinality(fails) >= MaxAttempts)
  <2>1. f.until = e.until /\ f.fails = fails
    BY <1>1, <1>2, <1>5 DEF Sound
  <2>2. CASE e.until > s + Lockout
    <3>1. Left(f, more, s) = 0
      BY <2>1, <2>2 DEF Left
    <3> QED
      BY <1>3, <3>1
  <2>3. CASE ~(e.until > s + Lockout)
    <3>1. Left(f, more, s) = MaxAttempts - Cardinality(new)
      BY <2>1, <2>3 DEF Left
    <3>2. Left(e, failures, s) = MaxAttempts - Cardinality(old)
      BY <2>3 DEF Left
    <3>3. new = old \cup {Len(failures) + 1} /\ Len(failures) + 1 \notin old
      <4>1. /\ e.fails \subseteq DOMAIN failures /\ Len(failures) + 1 \notin DOMAIN failures
            /\ \A i \in DOMAIN failures : more[i] = failures[i] /\ failures[i] \in Nat
            /\ more[Len(failures) + 1] = now
        BY <1>1 DEF Sound
      <4>2. \A i \in e.fails : failures[i] > s => now - failures[i] < Window
        BY <1>1, <4>1
      <4> HIDE DEF more
      <4> QED
        BY <4>1, <4>2
    <3>4. IsFiniteSet(old)
      <4>1. IsFiniteSet(DOMAIN failures) /\ e.fails \subseteq DOMAIN failures
        BY <1>1, FS_Interval DEF Sound
      <4> QED
        BY <4>1, FS_Subset
    <3> HIDE DEF old, new
    <3>5. Cardinality(new) = Cardinality(old) + 1 /\ Cardinality(old) \in Nat
      BY <3>3, <3>4, FS_AddElement, FS_CardinalityType
    <3> QED
      BY <1>1, <1>3, <2>3, <3>1, <3>2, <3>5
  <2> QED
    BY <2>2, <2>3
<1> QED
  BY <1>4, <1>5

LEMMA BudgetInit == Init => Budgeted
<1> SUFFICES ASSUME Init PROVE Budgeted
  OBVIOUS
<1>1. IInv /\ fresh = <<>> /\ now = 1
  BY InitEstablishes DEF Init
<1>2. Past(fresh, now)
  BY <1>1 DEF Past
<1>3. ASSUME NEW s \in Int PROVE Balanced(attempt, entry, failures, fresh, s)
  <2>1. After(fresh, s) = {}
    BY <1>1 DEF After
  <2> QED
    BY <1>1, <2>1, StartsBalanced DEF IInv, Past
<1> QED
  BY <1>2, <1>3 DEF Budgeted

\* A log of times that gets a later one.
LEMMA Appended ==
    ASSUME NEW log \in Seq(Nat), NEW time \in Nat
    PROVE  /\ Append(log, time) \in Seq(Nat)
           /\ DOMAIN Append(log, time) = DOMAIN log \cup {Len(log) + 1}
           /\ Len(log) + 1 \notin DOMAIN log /\ Append(log, time)[Len(log) + 1] = time
           /\ \A i \in DOMAIN log : Append(log, time)[i] = log[i]
OBVIOUS

LEMMA PastAppended ==
    ASSUME NEW log \in Seq(Nat), NEW time \in Nat, Past(log, time)
    PROVE  Past(Append(log, time), time)
BY Appended DEF Past

LEMMA BudgetKept ==
    ASSUME Window <= Lockout, IInv, IInv', Budgeted, [Next]_vars
    PROVE  Budgeted'
<1>1. /\ failures \in Seq(Nat) /\ fresh \in Seq(Nat) /\ now \in Nat
      /\ \A i \in DOMAIN fresh : fresh[i] <= now
      /\ Sound(entry, failures) /\ \A t \in Threads : Sound(attempt[t].entry, failures)
      /\ attempt = [t \in Threads |-> attempt[t]]
      /\ Window \in Nat /\ Lockout \in Nat /\ MaxAttempts \in Nat \ {0}
  BY SettingsAssumption DEF IInv, Budgeted, Past
<1>2. /\ failures' \in Seq(Nat) /\ now' \in Nat
      /\ Sound(entry', failures') /\ \A t \in Threads : Sound(attempt'[t].entry, failures')
  BY SettingsAssumption DEF IInv, Past
\* What every step has to show: a window in which something failed stays balanced.
<1>3. SUFFICES ASSUME NEW s \in Int, s >= now' - Window, After(fresh', s) # {}
               PROVE  Balanced(attempt', entry', failures', fresh', s)
  <2>1. Past(fresh', now')
    <3>1. CASE fresh' = fresh /\ now' = now
      BY <3>1 DEF Budgeted
    <3>2. CASE fresh' = <<>>
      BY <3>2 DEF Past
    <3>3. CASE fresh' = Append(fresh, now) /\ now' = now
      <4>1. Past(fresh, now)
        BY DEF Budgeted
      <4> QED
        BY <1>1, <3>3, <4>1, PastAppended
    <3>4. CASE fresh' = fresh /\ now' = now + 1
      <4>1. \A i \in DOMAIN fresh : fresh[i] \in Nat
        BY <1>1
      <4> QED
        BY <1>1, <3>4, <4>1 DEF Past
    <3> QED
      BY <3>1, <3>2, <3>3, <3>4
         DEF Next, vars, Begin, Succeeds, ReadEntry, WriteEntry, Tick
  <2>2. ASSUME NEW s \in Int, s >= now' - Window
        PROVE  Balanced(attempt', entry', failures', fresh', s)
    <3>1. CASE After(fresh', s) = {}
      BY <1>2, <3>1, StartsBalanced
    <3>2. CASE After(fresh', s) # {}
      BY <1>3, <2>2, <3>2
    <3> QED
      BY <3>1, <3>2
  <2> QED
    BY <2>1, <2>2 DEF Budgeted
<1> DEFINE W == Cardinality(After(fresh, s))
           D == Due(attempt, entry, failures, s)
           old == Turns(attempt, entry, failures, s)
           q == Left(entry, failures, s)
           D1 == Due(attempt', entry', failures', s)
           new == Turns(attempt', entry', failures', s)
<1>4. /\ old \in [Threads -> Nat] /\ IsFiniteSet(D) /\ D \subseteq Threads
      /\ Cardinality(D) \in Nat /\ W \in Nat
      /\ new \in [Threads -> Nat] /\ Cardinality(D1) \in Nat
      /\ q \in 0..MaxAttempts /\ (q = 0 <=> entry.until > s + Lockout)
  BY <1>1, <1>2, TurnsType, AfterFinite, LeftType
<1>5. s >= now - Window => W + Cardinality(D) <= Spent(old)
  BY DEF Budgeted, Balanced
<1>6. CASE UNCHANGED vars
  BY <1>3, <1>6 DEF vars, Budgeted
<1>7. ASSUME NEW t \in Threads, Begin(t)
      PROVE  Balanced(attempt', entry', failures', fresh', s)
  <2>1. /\ attempt[t].pc = "idle" /\ ~(entry.until > now)
        /\ attempt' = [attempt EXCEPT ![t].pc = "checking"]
        /\ UNCHANGED <<now, entry, failures, fresh>>
    BY <1>7 DEF Begin, Locked
  <2>2. s >= now - Window /\ q # 0
    <3>1. s >= now - Window
      BY <1>3, <2>1
    <3>2. entry.until \in Int
      BY <1>1, SettingsAssumption DEF Sound
    <3>3. ~(entry.until > s + Lockout)
      BY <1>1, <2>1, <3>1, <3>2
    <3> QED
      BY <1>4, <3>1, <3>3
  <2>3. \A u \in Threads : /\ attempt'[u].entry = attempt[u].entry
                           /\ attempt'[u].pc = "counting" <=> attempt[u].pc = "counting"
    <3>1. \A u \in Threads : u # t => attempt'[u] = attempt[u]
      BY <1>1, <2>1
    <3>2. attempt'[t].pc = "checking" /\ attempt'[t].entry = attempt[t].entry
      BY <1>1, <2>1 DEF Sound, IInv
    <3> QED
      BY <2>1, <3>1, <3>2
  <2>4. new = old
    BY <2>1, <2>3 DEF Turns
  <2>5. D1 = D
    BY <2>1, <2>2, <2>3 DEF Due
  <2> QED
    BY <1>5, <2>1, <2>2, <2>4, <2>5 DEF Balanced
<1>8. ASSUME NEW t \in Threads, Succeeds(t)
      PROVE  Balanced(attempt', entry', failures', fresh', s)
  <2>1. fresh' = <<>>
    BY <1>8 DEF Succeeds
  <2>2. After(fresh', s) = {}
    BY <2>1 DEF After
  <2> QED
    BY <1>3, <2>2
<1>9. ASSUME NEW t \in Threads, ReadEntry(t)
      PROVE  Balanced(attempt', entry', failures', fresh', s)
  <2>1. PICK f : f = Counted(entry)
    OBVIOUS
  <2>2. /\ attempt[t].pc = "checking"
        /\ attempt' = [attempt EXCEPT ![t] = [pc |-> "counting", entry |-> f]]
        /\ failures' = Append(failures, now) /\ fresh' = Append(fresh, now)
        /\ UNCHANGED <<now, entry>>
    BY <1>9, <2>1 DEF ReadEntry
  <2>3. s >= now - Window /\ s < now
    <3>1. PICK i \in DOMAIN fresh' : fresh'[i] > s
      BY <1>3 DEF After
    <3>2. /\ fresh' \in Seq(Nat) /\ now \in Nat
          /\ DOMAIN fresh' = DOMAIN fresh \cup {Len(fresh) + 1}
          /\ fresh'[Len(fresh) + 1] = now
          /\ \A j \in DOMAIN fresh : fresh'[j] = fresh[j] /\ fresh[j] <= now
      BY <1>1, <2>2, Appended
    <3>3. fresh'[i] <= now
      BY <3>2
    <3>4. fresh'[i] \in Nat
      <4>1. \A j \in DOMAIN fresh : fresh[j] \in Nat
        BY <1>1
      <4>2. \A j \in DOMAIN fresh' : fresh'[j] \in Nat
        BY <3>2, <4>1
      <4> QED
        BY <3>1, <4>2
    <3>5. s >= now - Window
      BY <1>3, <2>2
    <3> QED
      BY <1>1, <3>1, <3>3, <3>4, <3>5
  <2>4. Cardinality(After(fresh', s)) = W + 1
    <3>1. /\ \A i \in DOMAIN fresh : fresh'[i] = fresh[i]
          /\ DOMAIN fresh' = DOMAIN fresh \cup {Len(fresh) + 1}
          /\ Len(fresh) + 1 \notin DOMAIN fresh /\ fresh'[Len(fresh) + 1] = now
      BY <1>1, <2>2, Appended
    <3>2. After(fresh', s) = After(fresh, s) \cup {Len(fresh) + 1}
          /\ Len(fresh) + 1 \notin After(fresh, s)
      BY <2>3, <3>1 DEF After
    <3> QED
      BY <1>1, <3>2, AfterFinite, FS_AddElement
  <2>5. /\ attempt'[t].pc = "counting" /\ attempt'[t].entry = f
        /\ \A u \in Threads : u # t => attempt'[u] = attempt[u]
    BY <1>1, <2>2
  <2>6. Left(entry', failures', s) = q
    BY <1>1, <2>2, LeftAppend
  <2>7. \A u \in Threads : Left(attempt[u].entry, failures', s)
                             = Left(attempt[u].entry, failures, s)
    BY <1>1, <2>2, LeftAppend
  <2>8. new[t] <= old[t]
    <3>1. new[t] = Left(f, failures', s)
      BY <2>5 DEF Turns
    <3>2. old[t] = IF q = 0 THEN 0 ELSE q - 1
      BY <2>2 DEF Turns
    <3>3. Left(f, failures', s) <= IF q = 0 THEN 0 ELSE q - 1
      BY <2>1, <2>2, <2>3, CountedTakesOne
    <3> QED
      BY <3>1, <3>2, <3>3
  <2>9. \A u \in Threads : u # t => new[u] = old[u]
    BY <2>5, <2>6, <2>7 DEF Turns
  <2>10. D1 = D \ {t} /\ t \in D
    BY <2>2, <2>5, <2>6 DEF Due
  <2> HIDE DEF W, D, old, q, D1, new
  <2>11. Cardinality(D1) = Cardinality(D) - 1
    BY <1>4, <2>10, FS_RemoveElement
  <2>12. \A u \in Threads : new[u] <= old[u]
    <3>1. \A u \in Threads : old[u] \in Nat
      BY <1>4
    <3> QED
      BY <2>8, <2>9, <3>1
  <2>13. Spent(new) \in Int /\ Spent(old) \in Int /\ Spent(new) >= Spent(old)
    BY <1>4, <2>12, SpentMonotone
  <2>14. Cardinality(After(fresh', s)) + Cardinality(D1) <= Spent(new)
    BY <1>4, <1>5, <2>3, <2>4, <2>11, <2>13
  <2> QED
    BY <2>14 DEF Balanced, D1, new
<1>10. ASSUME NEW t \in Threads, WriteEntry(t)
       PROVE  Balanced(attempt', entry', failures', fresh', s)
  <2>1. /\ attempt[t].pc = "counting" /\ entry' = attempt[t].entry
        /\ attempt' = [attempt EXCEPT ![t] = Idle]
        /\ UNCHANGED <<now, failures, fresh>>
    BY <1>10 DEF WriteEntry
  <2> DEFINE p == Left(attempt[t].entry, failures, s)
             F == {u \in Threads : attempt[u].pc # "counting"}
  <2>2. s >= now - Window /\ p \in 0..MaxAttempts
    BY <1>1, <1>3, <2>1, LeftType
  <2>3. /\ attempt'[t].pc = "idle" /\ \A u \in Threads : u # t => attempt'[u] = attempt[u]
    BY <1>1, <2>1 DEF Idle
  <2>4. Left(entry', failures', s) = p
    BY <2>1
  <2>5. \A u \in Threads : new[u] = IF u \in F \cup {t} THEN IF p = 0 THEN 0 ELSE p - 1
                                    ELSE old[u]
    BY <2>1, <2>3, <2>4 DEF Turns
  <2>6. old[t] = p /\ \A u \in F : old[u] = IF q = 0 THEN 0 ELSE q - 1
    BY <2>1 DEF Turns
  <2>7. t \notin F /\ F \subseteq Threads
    BY <2>1
  <2>8. D \subseteq F /\ (q # 0 => D = F)
    BY DEF Due
  <2>9. p # 0 => D1 = F \cup {t}
    BY <2>3, <2>4 DEF Due
  <2>10. p = 0 => D1 \subseteq D
    BY <2>3, <2>4 DEF Due
  <2> HIDE DEF W, D, old, q, D1, new, p, F
  <2>11. W + Cardinality(D) <= Spent(old)
    BY <1>5, <2>2
  <2>12. IsFiniteSet(F) /\ Cardinality(F) \in Nat
    BY <2>7, ThreadsAssumption, FS_Subset, FS_CardinalityType
  <2>13. CASE p = 0
    <3>1. \A u \in Threads : new[u] <= old[u]
      <4>1. \A u \in Threads : old[u] \in Nat
        BY <1>4
      <4> QED
        BY <2>5, <2>13, <4>1
    <3>2. Spent(new) \in Int /\ Spent(old) \in Int /\ Spent(new) >= Spent(old)
      BY <1>4, <3>1, SpentMonotone
    <3>3. Cardinality(D1) <= Cardinality(D)
      BY <1>4, <2>10, <2>13, FS_Subset
    <3>4. W + Cardinality(D1) <= Spent(new)
      BY <1>4, <2>11, <3>2, <3>3
    <3> QED
      BY <2>1, <3>4 DEF Balanced, W, D1, new
  <2>14. CASE p # 0
    <3>1. p \in 1..MaxAttempts
      BY <2>2, <2>14
    <3>2. \A u \in Threads : new[u] = IF u \in F \cup {t} THEN p - 1 ELSE old[u]
      BY <2>5, <2>14
    <3>3. /\ Spent(new) \in Int /\ Spent(old) \in Int
          /\ Spent(new) >= Spent(old) + (IF q >= p THEN 1 ELSE Cardinality(F) + 1)
      BY <1>4, <2>6, <2>7, <3>1, <3>2, WriteSpends
    <3>4. Cardinality(D1) = Cardinality(F) + 1
      BY <2>7, <2>9, <2>12, <2>14, FS_AddElement
    <3>5. q >= p => Cardinality(D) = Cardinality(F)
      BY <1>4, <2>8, <3>1
    <3>6. W + Cardinality(D1) <= Spent(new)
      BY <1>4, <2>11, <2>12, <3>3, <3>4, <3>5
    <3> QED
      BY <2>1, <3>6 DEF Balanced, W, D1, new
  <2> QED
    BY <2>13, <2>14
<1>11. CASE Tick
  <2>1. now' = now + 1 /\ UNCHANGED <<entry, attempt, failures>>
        /\ (fresh' = fresh \/ fresh' = <<>>)
    BY <1>11 DEF Tick
  <2>2. fresh' = fresh
    BY <1>3, <2>1 DEF After
  <2>3. s >= now - Window
    BY <1>1, <1>3, <2>1
  <2> QED
    BY <1>5, <2>1, <2>2, <2>3 DEF Balanced
<1> QED
  BY <1>6, <1>7, <1>8, <1>9, <1>10, <1>11 DEF Next

\* AttemptsBounded: with a lockout at least as long as the window, as the settings have it by
\* default, no more attempts fail within one window before record_failure() locks the key than
\* N with one thread, and C(N + T + 1, T) - T - 1 with T, for any threads and any clock.
THEOREM LossesBounded ==
    ASSUME Window <= Lockout
    PROVE  Spec => []AttemptsBounded
<1>1. Init => IInv /\ Budgeted
  BY InitEstablishes, BudgetInit
<1>2. IInv /\ Budgeted /\ [Next]_vars => IInv' /\ Budgeted'
  BY StepPreserves, BudgetKept
<1>3. IInv /\ Budgeted => AttemptsBounded
  <2> SUFFICES ASSUME IInv, Budgeted PROVE AttemptsBounded
    OBVIOUS
  <2> DEFINE s == now - Window
             T == Cardinality(Threads)
             left == Turns(attempt, entry, failures, s)
  <2>1. /\ failures \in Seq(Nat) /\ fresh \in Seq(Nat) /\ now \in Int /\ s \in Int
        /\ Sound(entry, failures) /\ \A t \in Threads : Sound(attempt[t].entry, failures)
        /\ T \in Nat /\ MaxAttempts \in Nat
    BY SettingsAssumption, ThreadsAssumption, FS_CardinalityType DEF IInv, Budgeted, Past
  <2>2. s >= now - Window
    BY <2>1
  <2> HIDE DEF s, T
  <2>3. Cardinality(After(fresh, s)) + Cardinality(Due(attempt, entry, failures, s))
          <= Spent(left)
    BY <2>1, <2>2 DEF Budgeted, Balanced
  <2>4. left \in [Threads -> Nat] /\ Cardinality(Due(attempt, entry, failures, s)) \in Nat
    BY <2>1, TurnsType
  <2> HIDE DEF left
  <2>5. Spent(left) \in Int /\ Spent(left) <= Ways(MaxAttempts + 1, T) - T - 1
    BY <2>4, SpentAtMost DEF T
  <2>6. Ways(MaxAttempts + 1, T) = choose(MaxAttempts + T + 1, T)
        /\ Ways(MaxAttempts + 1, T) \in Int
    <3>1. (MaxAttempts + 1) + T = MaxAttempts + T + 1 /\ MaxAttempts + 1 \in Nat
      BY <2>1
    <3>2. Ways(MaxAttempts + 1, T) \in Int
      BY <2>1, <3>1, WaysProduct
    <3>3. Ways(MaxAttempts + 1, T) = choose(MaxAttempts + 1 + T, T)
      BY DEF Ways
    <3> QED
      BY <3>1, <3>2, <3>3, Zenon
  <2>7. Within(fresh, s, now) <= Cardinality(After(fresh, s))
        /\ Within(fresh, s, now) \in Nat /\ Cardinality(After(fresh, s)) \in Nat
    <3>1. {i \in DOMAIN fresh : s < fresh[i] /\ fresh[i] <= now} \subseteq After(fresh, s)
      <4>1. \A i \in DOMAIN fresh : fresh[i] \in Nat
        BY <2>1
      <4> QED
        BY <2>1, <4>1 DEF After
    <3> QED
      BY <2>1, <3>1, AfterFinite, FS_Subset, FS_CardinalityType DEF Within
  <2>8. Within(fresh, s, now) <= choose(MaxAttempts + T + 1, T) - T - 1
    <3>1. Within(fresh, s, now) <= Spent(left)
      BY <2>3, <2>4, <2>5, <2>7
    <3>2. Within(fresh, s, now) <= Ways(MaxAttempts + 1, T) - T - 1
      BY <2>1, <2>5, <2>6, <2>7, <3>1
    <3> QED
      BY <2>6, <3>2, Zenon
  <2> QED
    BY <2>8 DEF AttemptsBounded, s, T
<1> QED
  BY <1>1, <1>2, <1>3, PTL DEF Spec
=============================================================================
