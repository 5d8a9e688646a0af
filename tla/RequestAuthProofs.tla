-------------------------- MODULE RequestAuthProofs --------------------------
(***************************************************************************)
(* Single use of signed requests for any requests, threads, skew and any   *)
(* TTL of at least twice the skew.                                         *)
(*                                                                         *)
(*   Typed             Spec => []TypeOK                                    *)
(*   Remembered        Spec => []RememberedWhileValid                      *)
(*   Bounded           Spec => []ReplaysBounded                            *)
(*   SingleUse         Spec => NoPassAfterUse, for one thread              *)
(*                                                                         *)
(* An eviction is triggered by a request whose timestamp may be ahead of   *)
(* the node's clock, but by no more than the skew: IInv says so of every   *)
(* request under way.  How often a thread can still carry a request out is *)
(* counted from how far it is with it: Looked counts an addition that is   *)
(* certain unless it raises, Due also the one still to be looked up.  When *)
(* a nonce is evicted, the evicting thread is busy with another request    *)
(* and has no look-up of the evicted one ahead of it.                      *)
(***************************************************************************)
EXTENDS RequestAuth, TLAPS

\* A request a thread is busy with is not from further ahead than the skew.
CheckedArrived ==
    \A t \in Threads : step[t] # "idle" => stamp[checking[t]] - now <= MaxSkew

\* The uses of r by t, with the one that has passed the look-up.
Looked(t, r) ==
    uses[t][r] + (IF checking[t] = r /\ step[t] \in {"looked", "cleaned"} THEN 1 ELSE 0)

\* The same, with one that is still to be looked up.
Due(t, r) == uses[t][r] + (IF checking[t] = r THEN 1 ELSE 0)

LookedOnce == \A r \in Requests : ~Expired(r) => \A t \in Threads : Looked(t, r) <= 1

DueTwice == \A r \in Requests, t \in Threads : Due(t, r) <= 2

\* Some thread has at most one use of r to come, or no thread finds r forgotten.
SomeOnce ==
    \A r \in Requests :
        \/ \E t \in Threads : Due(t, r) <= 1
        \/ r \in store /\ \A t \in Threads : Looked(t, r) <= 1

IInv ==
    /\ TypeOK
    /\ RememberedWhileValid
    /\ CheckedArrived
    /\ LookedOnce
    /\ DueTwice
    /\ SomeOnce

-----------------------------------------------------------------------------
\* What is evicted is out of its window: the triggering timestamp is more than twice
\* the skew past its own, and at most the skew ahead of the clock.
LEMMA EvictedIsExpired ==
    ASSUME TypeOK, NEW r \in Requests, stamp[r] - now <= MaxSkew, NEW q \in Evicted(r)
    PROVE  Expired(q)
<1>1. q \in Requests /\ stamp[r] - stamp[q] > TTL
  BY DEF Evicted, TypeOK
<1>2. now \in Int /\ stamp[r] \in Int /\ stamp[q] \in Int /\ MaxSkew \in Int /\ TTL \in Int
  BY <1>1, SkewAssumption DEF TypeOK
<1> QED
  BY <1>1, <1>2, TTLAssumption DEF Expired

\* A step that neither forgets a nonce nor brings a use nearer keeps IInv.
LEMMA Keeps ==
    ASSUME IInv, TypeOK', UNCHANGED <<now, stamp>>,
           store \subseteq store',
           CheckedArrived', RememberedWhileValid',
           \A t \in Threads, r \in Requests :
               Looked(t, r)' <= Looked(t, r) /\ Due(t, r)' <= Due(t, r)
    PROVE  IInv'
<1>0. TypeOK /\ LookedOnce /\ DueTwice /\ SomeOnce
  BY DEF IInv
<1>1. \A t \in Threads, r \in Requests :
        /\ Looked(t, r) \in Nat /\ Due(t, r) \in Nat
        /\ Looked(t, r)' \in Nat /\ Due(t, r)' \in Nat
  BY <1>0 DEF TypeOK, Looked, Due
<1>2. \A r \in Requests : Expired(r)' <=> Expired(r)
  BY DEF Expired
<1>3. LookedOnce'
  BY <1>0, <1>1, <1>2 DEF LookedOnce
<1>4. DueTwice'
  BY <1>0, <1>1 DEF DueTwice
<1>5. SomeOnce'
  <2> SUFFICES ASSUME NEW r \in Requests
               PROVE  \/ \E t \in Threads : Due(t, r)' <= 1
                      \/ r \in store' /\ \A t \in Threads : Looked(t, r)' <= 1
    BY DEF SomeOnce
  <2>1. CASE \E t \in Threads : Due(t, r) <= 1
    BY <1>1, <2>1
  <2>2. CASE r \in store /\ \A t \in Threads : Looked(t, r) <= 1
    BY <1>1, <2>2
  <2> QED
    BY <1>0, <2>1, <2>2 DEF SomeOnce
<1> QED
  BY <1>3, <1>4, <1>5 DEF IInv

LEMMA InitEstablishes == Init => IInv
<1> SUFFICES ASSUME Init PROVE IInv
  OBVIOUS
<1>1. TypeOK /\ RememberedWhileValid /\ CheckedArrived
  BY SkewAssumption DEF Init, TypeOK, RememberedWhileValid, CheckedArrived, Steps
<1>2. \A t \in Threads, r \in Requests : Looked(t, r) = 0 /\ Due(t, r) = 0
  BY NoRequestAssumption DEF Init, Looked, Due
<1> QED
  BY <1>1, <1>2, ThreadsAssumption DEF IInv, LookedOnce, DueTwice, SomeOnce

\* A delivery that begins while the request is in its window.
LEMMA CheckSkewPreserves ==
    ASSUME IInv, NEW t \in Threads, NEW r \in Requests, CheckSkew(t, r)
    PROVE  IInv'
<1>0. TypeOK /\ RememberedWhileValid /\ CheckedArrived /\ LookedOnce /\ DueTwice /\ SomeOnce
  BY DEF IInv
<1>1. /\ step[t] = "idle" /\ checking[t] = NoRequest /\ InWindow(r)
      /\ checking' = [checking EXCEPT ![t] = r]
      /\ step' = [step EXCEPT ![t] = "clock"]
      /\ UNCHANGED <<now, stamp, store, uses>>
  BY <1>0 DEF CheckSkew, TypeOK
<1>2. TypeOK'
  BY <1>0, <1>1, NoRequestAssumption DEF TypeOK, Steps
<1>3. RememberedWhileValid'
  BY <1>0, <1>1 DEF RememberedWhileValid, Expired
<1>4. CheckedArrived'
  BY <1>0, <1>1 DEF TypeOK, CheckedArrived, InWindow
<1>5. ~Expired(r)
  BY <1>0, <1>1, SkewAssumption DEF InWindow, Expired, TypeOK
<1>6. \A u \in Threads, q \in Requests :
        Looked(u, q) \in Nat /\ Due(u, q) \in Nat /\ uses[u][q] \in Nat
  BY <1>0 DEF TypeOK, Looked, Due
<1>7. \A u \in Threads, q \in Requests : Looked(u, q)' = Looked(u, q)
  BY <1>0, <1>1, NoRequestAssumption DEF TypeOK, Looked
<1>8. \A u \in Threads, q \in Requests :
        Due(u, q)' = IF u = t /\ q = r THEN uses[u][q] + 1 ELSE Due(u, q)
  BY <1>0, <1>1, NoRequestAssumption DEF TypeOK, Due
<1>9. LookedOnce'
  BY <1>0, <1>1, <1>7 DEF LookedOnce, Expired
<1>10. \A u \in Threads : uses[u][r] <= 1 /\ Looked(u, r) <= 1
  BY <1>0, <1>5, <1>6 DEF LookedOnce, Looked
<1>11. DueTwice'
  BY <1>0, <1>6, <1>8, <1>10 DEF DueTwice
<1>12. SomeOnce'
  <2> SUFFICES ASSUME NEW q \in Requests
               PROVE  \/ \E u \in Threads : Due(u, q)' <= 1
                      \/ q \in store' /\ \A u \in Threads : Looked(u, q)' <= 1
    BY DEF SomeOnce
  <2>1. CASE q # r
    BY <1>0, <1>1, <1>7, <1>8, <2>1 DEF SomeOnce
  <2>2. CASE q = r
    <3>1. CASE uses[t][r] = 0
      BY <1>8, <2>2, <3>1
    <3>2. CASE uses[t][r] > 0
      <4>1. r \in store
        BY <1>0, <1>5, <3>2 DEF RememberedWhileValid
      <4> QED
        BY <1>1, <1>7, <1>10, <2>2, <4>1
    <3> QED
      BY <1>6, <3>1, <3>2
  <2> QED
    BY <2>1, <2>2
<1> QED
  BY <1>2, <1>3, <1>4, <1>9, <1>11, <1>12 DEF IInv

\* A thread is through: no use comes nearer.
LEMMA LeavesPreserves ==
    ASSUME IInv, NEW t \in Threads, Leaves(t), UNCHANGED <<now, stamp, store, uses>>
    PROVE  IInv'
<1>0. TypeOK /\ RememberedWhileValid /\ CheckedArrived
  BY DEF IInv
<1>1. /\ checking' = [checking EXCEPT ![t] = NoRequest]
      /\ step' = [step EXCEPT ![t] = "idle"]
  BY DEF Leaves
<1>2. TypeOK'
  BY <1>0, <1>1 DEF TypeOK, Steps
<1>3. RememberedWhileValid'
  BY <1>0 DEF RememberedWhileValid, Expired
<1>4. CheckedArrived'
  BY <1>0, <1>1 DEF TypeOK, CheckedArrived
<1>5. \A u \in Threads, q \in Requests :
        Looked(u, q)' <= Looked(u, q) /\ Due(u, q)' <= Due(u, q)
  BY <1>0, <1>1, NoRequestAssumption DEF TypeOK, Looked, Due
<1> QED
  BY <1>2, <1>3, <1>4, <1>5, Keeps

\* A look-up finds the nonce or, when it does not, brings one use nearer: while the
\* request is in its window no use was made, and after it one has been evicted.
LEMMA LookUpPreserves ==
    ASSUME IInv, NEW t \in Threads, LookUp(t)
    PROVE  IInv'
<1>0. TypeOK /\ RememberedWhileValid /\ CheckedArrived /\ LookedOnce /\ DueTwice /\ SomeOnce
  BY DEF IInv
<1> DEFINE r == checking[t]
<1>1. step[t] = "clock" /\ r \in Requests /\ UNCHANGED <<now, stamp, store, uses>>
  BY <1>0 DEF LookUp, TypeOK
<1>2. CASE r \in store /\ Leaves(t)
  BY <1>1, <1>2, LeavesPreserves
<1>3. CASE /\ r \notin store
           /\ step' = [step EXCEPT ![t] = "looked"]
           /\ UNCHANGED checking
  <2>1. TypeOK'
    BY <1>0, <1>1, <1>3 DEF TypeOK, Steps
  <2>2. RememberedWhileValid'
    BY <1>0, <1>1 DEF RememberedWhileValid, Expired
  <2>3. CheckedArrived'
    BY <1>0, <1>1, <1>3 DEF TypeOK, CheckedArrived
  <2>4. \A u \in Threads, q \in Requests :
          Looked(u, q) \in Nat /\ Due(u, q) \in Nat /\ uses[u][q] \in Nat
    BY <1>0 DEF TypeOK, Looked, Due
  <2>5. \A u \in Threads, q \in Requests : Due(u, q)' = Due(u, q)
    BY <1>1, <1>3 DEF Due
  <2>6. \A u \in Threads, q \in Requests : ~(u = t /\ q = r) => Looked(u, q)' = Looked(u, q)
    BY <1>0, <1>1, <1>3 DEF Looked, TypeOK
  <2>7. Looked(t, r)' = uses[t][r] + 1
    BY <1>0, <1>1, <1>3 DEF Looked, TypeOK
  <2>8. LookedOnce'
    <3> SUFFICES ASSUME NEW q \in Requests, ~Expired(q), NEW u \in Threads
                 PROVE  Looked(u, q)' <= 1
      BY <1>1 DEF LookedOnce, Expired
    <3>1. CASE ~(u = t /\ q = r)
      BY <1>0, <2>6, <3>1 DEF LookedOnce
    <3>2. CASE u = t /\ q = r
      <4>1. ~(uses[t][r] > 0)
        BY <1>0, <1>1, <1>3, <3>2 DEF RememberedWhileValid
      <4>2. uses[t][r] = 0
        BY <1>1, <2>4, <4>1
      <4>3. Looked(t, r)' = 1
        BY <2>7, <4>2
      <4>4. Looked(u, q)' = Looked(t, r)'
        BY <3>2, <1>1, <1>3 DEF Looked
      <4> QED
        BY <4>3, <4>4
    <3> QED
      BY <3>1, <3>2
  <2>9. DueTwice'
    BY <1>0, <2>5 DEF DueTwice
  <2>10. SomeOnce'
    BY <1>0, <1>1, <1>3, <2>5, <2>6 DEF SomeOnce
  <2> QED
    BY <2>1, <2>2, <2>3, <2>8, <2>9, <2>10 DEF IInv
<1> QED
  BY <1>2, <1>3 DEF LookUp

\* What is evicted is expired, and the evicting thread has at most one use of it.
LEMMA EvictPreserves ==
    ASSUME IInv, NEW t \in Threads, Evict(t)
    PROVE  IInv'
<1>0. TypeOK /\ RememberedWhileValid /\ CheckedArrived /\ LookedOnce /\ DueTwice /\ SomeOnce
  BY DEF IInv
<1> DEFINE r == checking[t]
<1>1. /\ step[t] = "looked" /\ r \in Requests /\ stamp[r] - now <= MaxSkew
      /\ UNCHANGED <<now, stamp, uses>>
  BY <1>0 DEF Evict, TypeOK, CheckedArrived
<1>2. CASE Leaves(t) /\ UNCHANGED store
  BY <1>1, <1>2, LeavesPreserves
<1>3. CASE /\ store' = store \ Evicted(r)
           /\ step' = [step EXCEPT ![t] = "cleaned"]
           /\ UNCHANGED checking
  <2>1. TypeOK'
    BY <1>0, <1>1, <1>3 DEF TypeOK, Steps
  <2>2. RememberedWhileValid'
    <3> SUFFICES ASSUME NEW u \in Threads, NEW q \in Requests, uses[u][q] > 0, q \notin store'
                 PROVE  Expired(q)
      BY <1>1 DEF RememberedWhileValid, Expired
    <3>1. CASE q \in Evicted(r)
      BY <1>0, <1>1, <3>1, EvictedIsExpired
    <3>2. CASE q \notin store
      BY <1>0, <3>2 DEF RememberedWhileValid
    <3> QED
      BY <1>3, <3>1, <3>2
  <2>3. CheckedArrived'
    BY <1>0, <1>1, <1>3 DEF TypeOK, CheckedArrived
  <2>4. \A u \in Threads, q \in Requests :
          Looked(u, q) \in Nat /\ Due(u, q) \in Nat /\ uses[u][q] \in Nat
    BY <1>0 DEF TypeOK, Looked, Due
  <2>5. \A u \in Threads, q \in Requests :
          Due(u, q)' = Due(u, q) /\ Looked(u, q)' = Looked(u, q)
    BY <1>0, <1>1, <1>3 DEF Due, Looked, TypeOK
  <2>6. LookedOnce' /\ DueTwice'
    BY <1>0, <1>1, <2>5 DEF LookedOnce, DueTwice, Expired
  <2>7. SomeOnce'
    <3> SUFFICES ASSUME NEW q \in Requests
                 PROVE  \/ \E u \in Threads : Due(u, q)' <= 1
                        \/ q \in store' /\ \A u \in Threads : Looked(u, q)' <= 1
      BY DEF SomeOnce
    <3>1. CASE \E u \in Threads : Due(u, q) <= 1
      BY <2>5, <3>1
    <3>2. CASE /\ q \in store /\ q \notin Evicted(r)
               /\ \A u \in Threads : Looked(u, q) <= 1
      BY <1>3, <2>5, <3>2
    <3>3. CASE q \in Evicted(r) /\ \A u \in Threads : Looked(u, q) <= 1
      <4>1. q # r
        <5>1. stamp[r] - stamp[q] > TTL
          BY <3>3 DEF Evicted
        <5>2. stamp[r] \in Int /\ stamp[q] \in Int /\ TTL \in Nat
          BY <1>0, <1>1, SkewAssumption DEF TypeOK
        <5> QED
          BY <5>1, <5>2
      <4>2. Due(t, q) = Looked(t, q)
        BY <4>1 DEF Due, Looked
      <4> QED
        BY <2>5, <3>3, <4>2
    <3> QED
      BY <1>0, <3>1, <3>2, <3>3 DEF SomeOnce
  <2> QED
    BY <2>1, <2>2, <2>3, <2>6, <2>7 DEF IInv
<1> QED
  BY <1>2, <1>3 DEF Evict

\* A use that was due is made.
LEMMA AddPreserves ==
    ASSUME IInv, NEW t \in Threads, Add(t)
    PROVE  IInv'
<1>0. TypeOK /\ RememberedWhileValid /\ CheckedArrived
  BY DEF IInv
<1> DEFINE r == checking[t]
<1>1. /\ step[t] = "cleaned" /\ r \in Requests
      /\ store' = store \cup {r}
      /\ uses' = [uses EXCEPT ![t][r] = @ + 1]
      /\ checking' = [checking EXCEPT ![t] = NoRequest]
      /\ step' = [step EXCEPT ![t] = "idle"]
      /\ UNCHANGED <<now, stamp>>
  BY <1>0 DEF Add, Leaves, TypeOK
<1>2. \A u \in Threads, q \in Requests :
        uses'[u][q] = IF u = t /\ q = r THEN uses[u][q] + 1 ELSE uses[u][q]
  BY <1>0, <1>1 DEF TypeOK
<1>3. TypeOK'
  <2>1. uses' \in [Threads -> [Requests -> Nat]]
    BY <1>0, <1>1 DEF TypeOK
  <2> QED
    BY <1>0, <1>1, <2>1 DEF TypeOK, Steps
<1>4. RememberedWhileValid'
  BY <1>0, <1>1, <1>2 DEF RememberedWhileValid, Expired
<1>5. CheckedArrived'
  BY <1>0, <1>1 DEF TypeOK, CheckedArrived
<1>6. \A u \in Threads, q \in Requests : uses[u][q] \in Nat
  BY <1>0 DEF TypeOK
<1>7. \A u \in Threads, q \in Requests :
        Looked(u, q)' <= Looked(u, q) /\ Due(u, q)' <= Due(u, q)
  <2> SUFFICES ASSUME NEW u \in Threads, NEW q \in Requests
               PROVE  Looked(u, q)' <= Looked(u, q) /\ Due(u, q)' <= Due(u, q)
    OBVIOUS
  <2>1. CASE u = t
    <3>1. checking'[t] # q /\ step[t] \in {"looked", "cleaned"}
      BY <1>0, <1>1, NoRequestAssumption DEF TypeOK
    <3> QED
      BY <1>2, <1>6, <2>1, <3>1 DEF Looked, Due
  <2>2. CASE u # t
    <3>1. checking'[u] = checking[u] /\ step'[u] = step[u] /\ uses'[u][q] = uses[u][q]
      BY <1>0, <1>1, <1>2, <2>2 DEF TypeOK
    <3> QED
      BY <1>6, <3>1 DEF Looked, Due
  <2> QED
    BY <2>1, <2>2
<1> QED
  BY <1>1, <1>3, <1>4, <1>5, <1>7, Keeps

LEMMA StepPreserves ==
    ASSUME IInv, [Next]_vars
    PROVE  IInv'
<1>0. TypeOK /\ RememberedWhileValid /\ CheckedArrived /\ LookedOnce /\ DueTwice /\ SomeOnce
  BY DEF IInv
\* Time only takes requests out of their window.
<1>1. CASE Tick
  <2>1. /\ now' = now + 1 /\ now \in Int /\ MaxSkew \in Int /\ now' \in 0..MaxTime
        /\ UNCHANGED <<stamp, store, checking, step, uses>>
    BY <1>0, <1>1, SkewAssumption DEF Tick, TypeOK
  <2>2. TypeOK'
    BY <1>0, <2>1 DEF TypeOK
  <2>3. \A q \in Requests : Expired(q) => Expired(q)'
    <3> SUFFICES ASSUME NEW q \in Requests, now - stamp[q] > MaxSkew
                 PROVE  now' - stamp[q] > MaxSkew
      BY <2>1 DEF Expired
    <3>1. stamp[q] \in Int
      BY <1>0 DEF TypeOK
    <3> QED
      BY <2>1, <3>1
  <2>4. RememberedWhileValid'
    BY <1>0, <2>1, <2>3 DEF RememberedWhileValid
  <2>5. CheckedArrived'
    <3> SUFFICES ASSUME NEW t \in Threads, step[t] # "idle"
                 PROVE  stamp[checking[t]] - now' <= MaxSkew
      BY <2>1 DEF CheckedArrived
    <3>1. stamp[checking[t]] - now <= MaxSkew /\ stamp[checking[t]] \in Int
      BY <1>0 DEF TypeOK, CheckedArrived
    <3> QED
      BY <2>1, <3>1
  <2>6. \A t \in Threads, q \in Requests :
          Looked(t, q)' = Looked(t, q) /\ Due(t, q)' = Due(t, q)
    BY <2>1 DEF Looked, Due
  <2>7. LookedOnce' /\ DueTwice' /\ SomeOnce'
    BY <1>0, <2>1, <2>3, <2>6 DEF LookedOnce, DueTwice, SomeOnce
  <2> QED
    BY <2>2, <2>4, <2>5, <2>7 DEF IInv
<1>2. CASE Restart
  <2>1. /\ checking' = [t \in Threads |-> NoRequest]
        /\ step' = [t \in Threads |-> "idle"]
        /\ uses' = [t \in Threads |-> [r \in Requests |-> 0]]
        /\ store' = {} /\ UNCHANGED <<now, stamp>>
    BY <1>2 DEF Restart
  <2>2. TypeOK' /\ RememberedWhileValid' /\ CheckedArrived'
    BY <1>0, <2>1 DEF TypeOK, RememberedWhileValid, CheckedArrived, Steps
  <2>3. \A t \in Threads, r \in Requests : Looked(t, r)' = 0 /\ Due(t, r)' = 0
    BY <2>1, NoRequestAssumption DEF Looked, Due
  <2> QED
    BY <2>2, <2>3, ThreadsAssumption DEF IInv, LookedOnce, DueTwice, SomeOnce
<1>3. CASE UNCHANGED vars
  BY <1>0, <1>3
     DEF vars, IInv, TypeOK, RememberedWhileValid, CheckedArrived, LookedOnce, DueTwice,
         SomeOnce, Looked, Due, Expired
<1> QED
  BY <1>1, <1>2, <1>3, CheckSkewPreserves, LookUpPreserves, EvictPreserves, AddPreserves
     DEF Next

LEMMA Invariance == Spec => []IInv
<1>1. Init => IInv
  BY InitEstablishes
<1>2. IInv /\ [Next]_vars => IInv'
  BY StepPreserves
<1> QED
  BY <1>1, <1>2, PTL DEF Spec

-----------------------------------------------------------------------------
\* The clocks stay in range, and only requests are cached, checked and carried out.
THEOREM Typed == Spec => []TypeOK
<1>1. IInv => TypeOK
  BY DEF IInv
<1> QED
  BY <1>1, Invariance, PTL

\* The cache does not forget a request that may still pass.
THEOREM Remembered == Spec => []RememberedWhileValid
<1>1. IInv => RememberedWhileValid
  BY DEF IInv
<1> QED
  BY <1>1, Invariance, PTL

\* A thread carries a request out once while it may pass, twice in all, and some
\* thread once in all.
THEOREM Bounded == Spec => []ReplaysBounded
<1>1. IInv => ReplaysBounded
  <2> SUFFICES ASSUME IInv, NEW r \in Requests
               PROVE  /\ \A t \in Threads : uses[t][r] <= (IF Expired(r) THEN 2 ELSE 1)
                      /\ \E t \in Threads : uses[t][r] <= 1
    BY DEF ReplaysBounded
  <2>0. TypeOK /\ LookedOnce /\ DueTwice /\ SomeOnce
    BY DEF IInv
  <2>1. \A t \in Threads :
          /\ uses[t][r] \in Nat /\ Looked(t, r) \in Nat /\ Due(t, r) \in Nat
          /\ uses[t][r] <= Looked(t, r) /\ uses[t][r] <= Due(t, r)
    BY <2>0 DEF TypeOK, Looked, Due
  <2>2. \A t \in Threads : uses[t][r] <= (IF Expired(r) THEN 2 ELSE 1)
    BY <2>0, <2>1 DEF LookedOnce, DueTwice
  <2>3. \E t \in Threads : uses[t][r] <= 1
    BY <2>0, <2>1, ThreadsAssumption DEF SomeOnce
  <2> QED
    BY <2>2, <2>3
<1> QED
  BY <1>1, Invariance, PTL

\* A server of one thread carries no request out a second time.
THEOREM SingleUse ==
    ASSUME \A t, u \in Threads : t = u
    PROVE  Spec => NoPassAfterUse
<1> DEFINE Step == \A t, u \in Threads, r \in Requests :
                     uses'[t][r] > uses[t][r] => uses[u][r] = 0
<1>1. ASSUME IInv, IInv', [Next]_vars PROVE [Step]_vars
  <2> SUFFICES ASSUME NEW t \in Threads, NEW r \in Requests, uses'[t][r] > uses[t][r]
               PROVE  uses[t][r] = 0
    BY DEF vars
  <2>1. \A v \in Threads : uses[v][r] \in Nat /\ uses'[v][r] \in Nat
    BY <1>1 DEF IInv, TypeOK
  <2>2. uses'[t][r] <= 1
    <3>1. TypeOK' /\ SomeOnce'
      BY <1>1 DEF IInv
    <3>2. \A v \in Threads : v = t
      OBVIOUS
    <3>3. uses'[t][r] <= Looked(t, r)' /\ uses'[t][r] <= Due(t, r)'
          /\ Looked(t, r)' \in Nat /\ Due(t, r)' \in Nat
      BY <2>1 DEF Looked, Due
    <3> QED
      BY <2>1, <3>1, <3>2, <3>3 DEF SomeOnce
  <2> QED
    BY <2>1, <2>2
<1> QED
  BY <1>1, Invariance, PTL DEF Spec, NoPassAfterUse
=============================================================================
