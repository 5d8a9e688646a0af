----------------------------- MODULE RateLimit -----------------------------
(***************************************************************************)
(* The login rate limiter (app/services/ratelimit.py) under the worker     *)
(* threads of the login and MFA routes (app/api/routes/auth.py): one key   *)
(* of the shared dict `_state`.                                            *)
(*                                                                         *)
(* An attempt first asks blocked(), then has its password or code checked, *)
(* and then calls reset() or record_failure().  The latter reads the entry *)
(* of the key and writes it back in two statements; other threads may run  *)
(* between any two of these.  A thread reads the clock just before the     *)
(* entry, in one step here.  Times are whole units; keys do not influence  *)
(* one another.  The list of times in an entry is a set of failures here:  *)
(* a failure is known by its number, and `failures` has its time.          *)
(***************************************************************************)
EXTENDS Combinatorics, FiniteSets, Integers, Sequences

CONSTANTS
    Threads,        \* the worker threads
    MaxAttempts,    \* rate_limit_max_attempts
    Window,         \* rate_limit_window_seconds
    Lockout,        \* rate_limit_lockout_seconds
    MaxTime,        \* bound on the clock, which starts at 1
    MaxFailures     \* bound on the attempts that fail

ASSUME ThreadsAssumption == IsFiniteSet(Threads)

ASSUME SettingsAssumption ==
    /\ MaxAttempts \in Nat \ {0} /\ Window \in Nat \ {0} /\ Lockout \in Nat \ {0}
    /\ MaxTime \in Nat \ {0} /\ MaxFailures \in Nat

VARIABLES
    now,        \* time.time()
    entry,      \* the entry of the key, or NoEntry
    attempt,    \* thread -> its attempt
    failures,   \* history: the time of each attempt that failed, in order
    fresh       \* history: those since the key was last forgotten or released

vars == <<now, entry, attempt, failures, fresh>>

\* `_state.get(key, ([], 0.0))`
NoEntry == [fails |-> {}, until |-> 0]

Idle == [pc |-> "idle", entry |-> NoEntry]

Locked(e) == e.until > now

-----------------------------------------------------------------------------
Init ==
    /\ now = 1
    /\ entry = NoEntry
    /\ attempt = [t \in Threads |-> Idle]
    /\ failures = <<>> /\ fresh = <<>>

\* blocked() returns 0; otherwise the attempt is answered 429.
Begin(t) ==
    /\ attempt[t].pc = "idle" /\ ~Locked(entry)
    /\ attempt' = [attempt EXCEPT ![t].pc = "checking"]
    /\ UNCHANGED <<now, entry, failures, fresh>>

\* The password or the code is right: reset().
Succeeds(t) ==
    /\ attempt[t].pc = "checking"
    /\ attempt' = [attempt EXCEPT ![t] = Idle]
    /\ entry' = NoEntry
    /\ fresh' = <<>>
    /\ UNCHANGED <<now, failures>>

\* Mutant: the failures stay when the key is locked.
CountedKeeping(e) ==
    LET fails == {i \in e.fails : now - failures[i] < Window} \cup {Len(failures) + 1}
    IN  [fails |-> fails,
         until |-> IF Cardinality(fails) >= MaxAttempts THEN now + Lockout ELSE e.until]

\* Mutant: a failure exactly one window old still counts.
CountedTooLong(e) ==
    LET fails == {i \in e.fails : now - failures[i] <= Window} \cup {Len(failures) + 1}
    IN  IF Cardinality(fails) >= MaxAttempts THEN [fails |-> {}, until |-> now + Lockout]
        ELSE [e EXCEPT !.fails = fails]

\* Mutant: the lockout comes one failure late.
CountedOffByOne(e) ==
    LET fails == {i \in e.fails : now - failures[i] < Window} \cup {Len(failures) + 1}
    IN  IF Cardinality(fails) > MaxAttempts THEN [fails |-> {}, until |-> now + Lockout]
        ELSE [e EXCEPT !.fails = fails]

\* One failure more, the next in number: those out of the window go, and the last one
\* locks the key.
Counted(e) ==
    LET fails == {i \in e.fails : now - failures[i] < Window} \cup {Len(failures) + 1}
    IN  IF Cardinality(fails) >= MaxAttempts THEN [fails |-> {}, until |-> now + Lockout]
        ELSE [e EXCEPT !.fails = fails]

\* record_failure() reads the entry ...
ReadEntry(t) ==
    /\ attempt[t].pc = "checking" /\ Len(failures) < MaxFailures
    /\ attempt' = [attempt EXCEPT ![t] = [pc |-> "counting", entry |-> Counted(entry)]]
    /\ failures' = Append(failures, now)
    /\ fresh' = Append(fresh, now)
    /\ UNCHANGED <<now, entry>>

\* ... and writes it back, whatever it is by now.
WriteEntry(t) ==
    /\ attempt[t].pc = "counting"
    /\ entry' = attempt[t].entry
    /\ attempt' = [attempt EXCEPT ![t] = Idle]
    /\ UNCHANGED <<now, failures, fresh>>

\* Time passes; a lockout that ends releases the key.
Tick ==
    /\ now < MaxTime
    /\ now' = now + 1
    /\ fresh' = IF Locked(entry) /\ entry.until = now + 1 THEN <<>> ELSE fresh
    /\ UNCHANGED <<entry, attempt, failures>>

Next ==
    \/ \E t \in Threads : Begin(t) \/ Succeeds(t) \/ ReadEntry(t) \/ WriteEntry(t)
    \/ Tick

Spec == Init /\ [][Next]_vars

-----------------------------------------------------------------------------
(* Properties.                                                             *)

\* Types; and an entry remembers fewer failures than would lock it.
TypeOK ==
    /\ now \in 1..MaxTime
    /\ Cardinality(entry.fails) < MaxAttempts /\ entry.until \in 0..(MaxTime + Lockout)
    /\ \A t \in Threads : Cardinality(attempt[t].entry.fails) < MaxAttempts

Within(log, from, to) == Cardinality({i \in DOMAIN log : from < log[i] /\ log[i] <= to})

\* ratelimit.py: "after N failed attempts within the window, the key is locked out for
\* the lockout period".  A key is locked only after N attempts failed within one
\* window, however the threads' reads and writes interleave.
LockedMeansEnoughFailures ==
    entry.until > 0 =>
        LET at == entry.until - Lockout
        IN  Within(failures, at - Window, at) >= MaxAttempts

\* The other half: threads that count at the same time lose each other's failures, and
\* a late write even erases a lockout.  How many attempts fail within one window
\* before the key is locked is still bounded: with N attempts allowed and T
\* threads, a thread that holds an old entry can undo what the others have
\* counted once, and then has to read a newer one.  It needs a
\* lockout at least as long as the window (both are 300 s by default): a thread that pauses
\* for longer than the lockout between its two halves writes one that is already over.
AttemptsBounded ==
    LET T == Cardinality(Threads)
    IN  Within(fresh, now - Window, now) <= choose(MaxAttempts + T + 1, T) - T - 1
=============================================================================
