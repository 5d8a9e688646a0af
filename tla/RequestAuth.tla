----------------------------- MODULE RequestAuth -----------------------------
(***************************************************************************)
(* Single use of signed requests (pritunl-shim/shim/hmac_auth.py) on a     *)
(* node whose server answers requests in threads.                          *)
(*                                                                         *)
(* A request carries the control plane's clock as its timestamp, and a     *)
(* fresh nonce; it may reach the node at any time, any number of times and *)
(* in any order.  verify_request refuses it outside the skew window and    *)
(* when the nonce is in the cache; the cache forgets a nonce once a newer  *)
(* request's timestamp is TTL past its own.  The clock of eviction is      *)
(* therefore not the node's: it is the timestamps of the requests, which   *)
(* may run ahead of the node's clock or behind it by the skew.             *)
(*                                                                         *)
(* Comparing the clock, looking a nonce up, evicting and adding it are     *)
(* four steps of one thread: the cache has no lock, and other threads may  *)
(* run between any two.  A nonce stands for its request; every signature   *)
(* is valid.  The node's clock does not run backwards.                     *)
(***************************************************************************)
EXTENDS Integers

CONSTANTS
    Requests,   \* the signed requests, each with its own nonce
    Threads,    \* the requests the node's server answers at a time, a thread each
    MaxSkew,    \* verify_request's max_skew
    TTL,        \* NonceCache's ttl
    MaxTime     \* bound on the clocks

ASSUME SkewAssumption == MaxSkew \in Nat /\ TTL \in Nat /\ MaxTime \in Nat

\* NonceCache's default ttl: the skew on both sides of a timestamp.
ASSUME TTLAssumption == TTL >= 2 * MaxSkew

\* There is a thread.
ASSUME ThreadsAssumption == Threads # {}

VARIABLES
    now,        \* the node's clock
    stamp,      \* request -> the timestamp it was signed with
    store,      \* the nonces in the cache
    checking,   \* thread -> the request it is verifying
    step,       \* thread -> how far verify_request is with it
    uses        \* thread -> request -> how often it let it through since the shim started

vars == <<now, stamp, store, checking, step, uses>>

NoRequest == "none"

ASSUME NoRequestAssumption == NoRequest \notin Requests

Steps == {"idle", "clock", "looked", "cleaned"}

Init ==
    /\ now = 0
    /\ stamp \in [Requests -> 0..MaxTime]
    /\ store = {}
    /\ checking = [t \in Threads |-> NoRequest]
    /\ step = [t \in Threads |-> "idle"]
    /\ uses = [t \in Threads |-> [r \in Requests |-> 0]]

\* verify_request's window.
InWindow(r) == now - stamp[r] <= MaxSkew /\ stamp[r] - now <= MaxSkew

\* Mutant: a nonce is evicted at the end of its TTL, not after it.
EvictedEarly(r) == {q \in store : stamp[r] - stamp[q] >= TTL}

\* NonceCache._evict, called with the timestamp of the request being added.
Evicted(r) == {q \in store : stamp[r] - stamp[q] > TTL}

\* The thread is through with its request, verified or refused.
Leaves(t) ==
    /\ checking' = [checking EXCEPT ![t] = NoRequest]
    /\ step' = [step EXCEPT ![t] = "idle"]

\* A delivery of a request passes the comparison with the clock; one outside the
\* window is refused and changes nothing.
CheckSkew(t, r) ==
    /\ step[t] = "idle"
    /\ InWindow(r)
    /\ checking' = [checking EXCEPT ![t] = r]
    /\ step' = [step EXCEPT ![t] = "clock"]
    /\ UNCHANGED <<now, stamp, store, uses>>

\* Mutant: a nonce is not looked up.
LookUpNothing(t) ==
    /\ step[t] = "clock"
    /\ step' = [step EXCEPT ![t] = "looked"]
    /\ UNCHANGED <<now, stamp, store, checking, uses>>

\* seen(): a nonce in the cache is a replay and refused.
LookUp(t) ==
    /\ step[t] = "clock"
    /\ \/ /\ checking[t] \in store
          /\ Leaves(t)
       \/ /\ checking[t] \notin store
          /\ step' = [step EXCEPT ![t] = "looked"]
          /\ UNCHANGED checking
    /\ UNCHANGED <<now, stamp, store, uses>>

\* add() evicts first; the scan of the cache raises when another thread changes its
\* size under it, and the request is answered with an error.
Evict(t) ==
    /\ step[t] = "looked"
    /\ \/ /\ store' = store \ Evicted(checking[t])
          /\ step' = [step EXCEPT ![t] = "cleaned"]
          /\ UNCHANGED checking
       \/ /\ \E u \in Threads \ {t} : step[u] \in {"looked", "cleaned"}
          /\ Leaves(t)
          /\ UNCHANGED store
    /\ UNCHANGED <<now, stamp, uses>>

\* add() stores the nonce, and the request is carried out.
Add(t) ==
    /\ step[t] = "cleaned"
    /\ store' = store \cup {checking[t]}
    /\ uses' = [uses EXCEPT ![t][checking[t]] = @ + 1]
    /\ Leaves(t)
    /\ UNCHANGED <<now, stamp>>

Tick ==
    /\ now < MaxTime
    /\ now' = now + 1
    /\ UNCHANGED <<stamp, store, checking, step, uses>>

\* The shim starts again: the cache is in its memory.
Restart ==
    /\ store' = {}
    /\ checking' = [t \in Threads |-> NoRequest]
    /\ step' = [t \in Threads |-> "idle"]
    /\ uses' = [t \in Threads |-> [r \in Requests |-> 0]]
    /\ UNCHANGED <<now, stamp>>

Next ==
    \/ \E t \in Threads :
         LookUp(t) \/ Evict(t) \/ Add(t) \/ \E r \in Requests : CheckSkew(t, r)
    \/ Tick \/ Restart

Spec == Init /\ [][Next]_vars

-----------------------------------------------------------------------------
(* Properties.                                                             *)

TypeOK ==
    /\ now \in 0..MaxTime
    /\ stamp \in [Requests -> 0..MaxTime]
    /\ store \subseteq Requests
    /\ step \in [Threads -> Steps]
    /\ checking \in [Threads -> Requests \cup {NoRequest}]
    /\ \A t \in Threads : checking[t] = NoRequest <=> step[t] = "idle"
    /\ uses \in [Threads -> [Requests -> Nat]]

\* A request too old to pass.
Expired(r) == now - stamp[r] > MaxSkew

\* A nonce outlives the window of its request: one that was carried out is either
\* in the cache or too old to pass, although the cache evicts by the timestamps of
\* later requests, which may be the skew ahead of the node's clock.
RememberedWhileValid ==
    \A t \in Threads, r \in Requests : uses[t][r] > 0 => r \in store \/ Expired(r)

\* How far "single-use nonces" go without a lock: while a request may pass, a thread
\* carries it out at most once; a delivery that was compared with the clock before
\* and is looked up after the eviction makes it twice, and never for every thread.
\* A server that answers one request at a time carries each out at most once.
ReplaysBounded ==
    \A r \in Requests :
        /\ \A t \in Threads : uses[t][r] <= (IF Expired(r) THEN 2 ELSE 1)
        /\ \E t \in Threads : uses[t][r] <= 1

\* "Pass a NonceCache to enforce single-use nonces": once any thread has carried a
\* request out, no thread adds it again.  It holds of one thread, not of two.
NoPassAfterUse ==
    [][\A t, u \in Threads, r \in Requests : uses'[t][r] > uses[t][r] => uses[u][r] = 0]_vars
=============================================================================
