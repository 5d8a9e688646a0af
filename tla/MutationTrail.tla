--------------------------- MODULE MutationTrail ---------------------------
(***************************************************************************)
(* What the control plane promises of the mutations of its nodes, whatever *)
(* node, network and handler do: a mutation is recorded once, with its     *)
(* result, before the caller is told that result; and a success is         *)
(* recorded only of what was accepted: carried out, or answered with a     *)
(* redirect.  api/routes/actions.py says: "Every mutation is recorded ...  *)
(* on both success and failure - before the response is returned".         *)
(*                                                                         *)
(* Nothing is promised of a mutation whose result the caller is not told:  *)
(* it may have been carried out without an entry.                          *)
(***************************************************************************)

CONSTANTS
    Requests,   \* the requests of the API
    Items       \* a mutation is an item of a request

VARIABLES
    accepted,   \* the mutations that were carried out or redirected
    trail,      \* the entries of the audit log: a mutation and its result
    told        \* the results that callers were told

vars == <<accepted, trail, told>>

Results == {"success", "failure"}

EntriesOf(r) == [m : {r} \X Items, result : Results]

Init == accepted = {} /\ trail = {} /\ told = {}

Accept(m) ==
    /\ accepted' = accepted \cup {m}
    /\ UNCHANGED <<trail, told>>

\* The transaction of a request records mutations of it, none a second time.
Record(r) ==
    \E new \in SUBSET EntriesOf(r) :
      /\ \A e \in new : /\ e.result = "success" => e.m \in accepted
                        /\ \A f \in trail \cup (new \ {e}) : f.m # e.m
      /\ trail' = trail \cup new
      /\ UNCHANGED <<accepted, told>>

Tell(r) ==
    \E results \in SUBSET (EntriesOf(r) \cap trail) :
      /\ told' = told \cup results
      /\ UNCHANGED <<accepted, trail>>

Next ==
    \/ \E m \in Requests \X Items : Accept(m)
    \/ \E r \in Requests : Record(r) \/ Tell(r)

Spec == Init /\ [][Next]_vars
=============================================================================
