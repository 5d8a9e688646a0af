------------------------------- MODULE Access -------------------------------
(***************************************************************************)
(* The two-step login, the guard of every other route and the management   *)
(* of principals (app/services/auth.py, app/api/deps.py,                   *)
(* api/routes/auth.py, principals.py), as far as one principal `u` and its *)
(* binding on one node are concerned.  Requests are made by u itself or by *)
(* "root", an administrator nobody changes.                                *)
(*                                                                         *)
(* These handlers, and the guard of every route, are `def`: each runs on a *)
(* worker thread and is overtaken anywhere. A request has two steps: what  *)
(* it reads when it begins (the guard and the handler share one session,   *)
(* and with it one copy of the row), and what it commits. A flush locks    *)
(* what it writes until the commit that follows; one that waits for a lock *)
(* then sees the row as the other left it, so flush and commit are one     *)
(* step here.                                                              *)
(*                                                                         *)
(* Abstracted: names, passwords (an attempt is right or wrong), texts; the *)
(* audit entries, which go with each commit (AuditLog); the expiry of      *)
(* tokens, since a client may as well not use one; the rate limiter        *)
(* (RateLimit), which answers some attempts before they begin.             *)
(***************************************************************************)
EXTENDS Naturals, FiniteSets

CONSTANTS
    Threads,        \* slots for requests served at the same time
    MaxSecrets,     \* bound on the TOTP secrets that are generated
    MaxBindings     \* bound on the bindings that are inserted

\* The thread pool is finite and not empty.
ASSUME ThreadsAssumption == IsFiniteSet(Threads) /\ Threads # {}

ASSUME BoundsAssumption == MaxSecrets \in Nat /\ MaxBindings \in Nat

VARIABLES
    row,        \* u's committed row
    binding,    \* u's committed binding on the node
    tokens,     \* the scopes of the tokens u was given
    request,    \* slot -> the request it serves
    issued,     \* secrets generated so far; each is a number
    bound,      \* bindings inserted so far; each has an id
    confirmed,  \* history: the secrets of which an enrolment verified a code
    overlapped, \* history: a request changed u's MFA over a newer row
    late        \* history: what u did without the role since its rights changed

vars == <<row, binding, tokens, request, issued, bound, confirmed, overlapped, late>>

Roles == {"viewer", "operator", "admin"}

ROLE_ORDER == [viewer |-> 1, operator |-> 2, admin |-> 3]

RoleAtLeast(have, need) == ROLE_ORDER[have] >= ROLE_ORDER[need]

NoSecret == 0

Columns == {"role", "disabled", "secret", "mfa"}

Unborn == [status |-> "unborn", role |-> "viewer", disabled |-> FALSE,
           secret |-> NoSecret, mfa |-> FALSE]

NoBinding == [id |-> 0, role |-> "viewer"]

\* A request: who makes it, the MFA columns and the binding its session loaded, the
\* columns it changes, and what it answers or gives.
Idle == [op |-> "none", actor |-> "u", mfa |-> FALSE, secret |-> NoSecret,
         sets |-> <<>>, had |-> NoBinding, gives |-> "viewer", ok |-> FALSE]

Live == row.status = "live"

\* Principal.effective_role on the node of the binding.
EffectiveRole ==
    IF binding # NoBinding /\ ~RoleAtLeast(row.role, binding.role)
    THEN binding.role ELSE row.role

\* _required_role, and the role that counts: a route with a node in its path,
\* DELETE /principals/{id}/bindings/{node_id} included, counts the binding.
HasRole(op) ==
    CASE op = "mutate" -> RoleAtLeast(EffectiveRole, "operator")
      [] op = "unbind" -> RoleAtLeast(EffectiveRole, "admin")
      [] OTHER -> RoleAtLeast(row.role, "admin")

\* Mutant: the guard trusts the token of a disabled principal.
GuardTrustingToken(op) == "full" \in tokens /\ Live /\ HasRole(op)

\* rbac_guard on a request of u.
Guard(op) == "full" \in tokens /\ Live /\ ~row.disabled /\ HasRole(op)

\* get_preauth_principal.
PreAuth(scope) == scope \in tokens /\ Live /\ ~row.disabled

-----------------------------------------------------------------------------
Init ==
    /\ row = Unborn /\ binding = NoBinding /\ tokens = {}
    /\ request = [t \in Threads |-> Idle]
    /\ issued = 0 /\ bound = 0
    /\ confirmed = {} /\ overlapped = FALSE /\ late = 0

AtRest(t) == request[t].op = "none"

Serve(t, h) == request' = [request EXCEPT ![t] = h]

\* The columns of `values` that differ from the row as it was loaded.
Changed(values) ==
    [c \in {d \in DOMAIN values : values[d] # row[d]} |-> values[c]]

Request(op, actor) == [Idle EXCEPT !.op = op, !.actor = actor]

Loaded(op, actor) == [Request(op, actor) EXCEPT !.mfa = row.mfa, !.secret = row.secret]

Begins == UNCHANGED <<row, binding, tokens, issued, bound, confirmed, overlapped, late>>

-----------------------------------------------------------------------------
(* Requests begin: the guard, what the handler loads, and what it makes of *)
(* its copy.                                                               *)

\* POST /auth/login; authenticate() wants a right password and a principal that is
\* not disabled.
BeginLogin(t) ==
    /\ AtRest(t)
    /\ \E right \in BOOLEAN :
         Serve(t, [Request("login", "u") EXCEPT
                     !.ok = right /\ Live /\ ~row.disabled, !.mfa = row.mfa])
    /\ Begins

\* POST /auth/mfa/enroll.
BeginEnroll(t) ==
    /\ AtRest(t) /\ PreAuth("enroll") /\ issued < MaxSecrets
    /\ Serve(t, Loaded("enroll", "u"))
    /\ Begins

\* POST /auth/mfa/verify with the code of some secret, or of none: confirm_enrollment
\* or verify_totp, against the secret in the row as it was loaded.
BeginVerify(t) ==
    /\ AtRest(t)
    /\ \E scope \in {"mfa", "enroll"}, code \in 0..issued :
         LET ok == row.secret # NoSecret /\ code = row.secret
         IN  /\ PreAuth(scope)
             /\ IF scope = "enroll"
                THEN Serve(t, [Loaded("confirm", "u") EXCEPT !.ok = ok,
                                  !.sets = IF ok THEN Changed([mfa |-> TRUE]) ELSE @])
                ELSE Serve(t, [Request("verify", "u") EXCEPT !.ok = ok])
    /\ Begins

\* May `actor` make this request of u's row?
Admitted(actor, op) == actor = "root" \/ Guard(op)

\* PATCH /principals/{u}: a role, a switch, reset_mfa.
BeginUpdate(t) ==
    /\ AtRest(t) /\ Live
    /\ \E actor \in {"u", "root"} :
         /\ Admitted(actor, "update")
         /\ \/ \E r \in Roles :
                 Serve(t, [Request("set role", actor) EXCEPT !.sets = Changed([role |-> r])])
            \/ \E d \in BOOLEAN :
                 Serve(t, [Request("switch", actor) EXCEPT !.sets = Changed([disabled |-> d])])
            \/ Serve(t, [Loaded("reset mfa", actor) EXCEPT
                            !.sets = Changed([secret |-> NoSecret, mfa |-> FALSE])])
    /\ Begins

\* POST /principals: the name is not taken yet.
BeginCreate(t) ==
    /\ AtRest(t) /\ row = Unborn
    /\ \E r \in Roles : Serve(t, [Request("create", "root") EXCEPT !.gives = r])
    /\ Begins

\* PUT /principals/{u}/bindings.
BeginBind(t) ==
    /\ AtRest(t) /\ Live
    /\ \E actor \in {"u", "root"}, r \in Roles :
         /\ Admitted(actor, "bind")
         /\ Serve(t, [Request("bind", actor) EXCEPT !.had = binding, !.gives = r])
    /\ Begins

\* DELETE /principals/{u}; DELETE /principals/{u}/bindings/{node}; and any mutation of
\* the node by u.
BeginOther(t) ==
    /\ AtRest(t) /\ Live
    /\ \/ \E actor \in {"u", "root"} :
            /\ Admitted(actor, "delete")
            /\ Serve(t, Request("delete", actor))
       \/ \E actor \in {"u", "root"} :
            /\ Admitted(actor, "unbind")
            /\ Serve(t, [Request("unbind", actor) EXCEPT !.had = binding])
       \/ /\ Guard("mutate")
          /\ Serve(t, Request("mutate", "u"))
    /\ Begins

-----------------------------------------------------------------------------
(* Requests end.                                                           *)

\* The columns that the session changed, over the row as it is now.
Merged(h) == [c \in DOMAIN row |-> IF c \in DOMAIN h.sets THEN h.sets[c] ELSE row[c]]

\* An UPDATE of a row that is gone matches nothing: StaleDataError, rolled back.
Stale(h) == h.sets # <<>> /\ ~Live

\* The row's MFA columns are no longer those that the request has loaded.
Overlaps(h) == row.secret # h.secret \/ row.mfa # h.mfa

\* u acted without the role it needs now; or its rights changed.
CountLate(h) ==
    late' = IF row' # row \/ binding' # binding THEN 0
            ELSE IF h.actor = "u" /\ ~(Live /\ ~row.disabled /\ HasRole(h.op)) THEN late + 1
            ELSE late

Ends(t) == Serve(t, Idle)

\* A right password: the step token goes by mfa_enabled.
LoginSucceeds(t) ==
    /\ request[t].op = "login" /\ request[t].ok
    /\ tokens' = tokens \cup {IF request[t].mfa THEN "mfa" ELSE "enroll"}
    /\ Ends(t)
    /\ UNCHANGED <<row, binding, issued, bound, confirmed, overlapped, late>>

\* Mutant: begin_enrollment leaves mfa_enabled as it was.
EnrollsKeepingMfa(t) ==
    /\ request[t].op = "enroll" /\ issued < MaxSecrets
    /\ LET h == [request[t] EXCEPT !.sets = [secret |-> issued + 1]]
       IN  row' = IF Stale(h) THEN row ELSE Merged(h)
    /\ issued' = issued + 1
    /\ Ends(t)
    /\ UNCHANGED <<binding, tokens, bound, confirmed, overlapped, late>>

\* A new secret; mfa_enabled is written if it was loaded true.
Enrolled(h) ==
    [c \in IF h.mfa THEN {"secret", "mfa"} ELSE {"secret"} |->
       IF c = "secret" THEN issued + 1 ELSE FALSE]

\* begin_enrollment and its commit; the client learns the secret.
Enrolls(t) ==
    /\ request[t].op = "enroll" /\ issued < MaxSecrets
    /\ LET h == [request[t] EXCEPT !.sets = Enrolled(request[t])]
       IN  /\ row' = IF Stale(h) THEN row ELSE Merged(h)
           /\ overlapped' = (overlapped \/ Overlaps(h))
    /\ issued' = issued + 1
    /\ Ends(t)
    /\ UNCHANGED <<binding, tokens, bound, confirmed, late>>

\* A wrong password or code: an entry and 401.
Fails(t) ==
    /\ request[t].op \in {"login", "confirm", "verify"}
    /\ ~request[t].ok
    /\ Ends(t)
    /\ UNCHANGED <<row, binding, tokens, issued, bound, confirmed, overlapped, late>>

\* Mutant: the confirmation stores the secret it was checked against, too.
VerifySucceedsWhole(t) ==
    /\ request[t].op \in {"confirm", "verify"} /\ request[t].ok
    /\ LET h == request[t]
       IN  \/ /\ Stale(h)
              /\ UNCHANGED <<row, tokens, confirmed, overlapped>>
           \/ /\ ~Stale(h)
              /\ row' = IF h.op = "confirm" THEN [Merged(h) EXCEPT !.secret = h.secret] ELSE row
              /\ confirmed' = IF h.op = "confirm" THEN confirmed \cup {h.secret}
                              ELSE confirmed
              /\ overlapped' = (overlapped \/ (h.op = "confirm" /\ Overlaps(h)))
              /\ tokens' = tokens \cup {"full"}
    /\ Ends(t)
    /\ UNCHANGED <<binding, issued, bound, late>>

\* A valid code: mfa_enabled if it confirms an enrolment, then the full token.
VerifySucceeds(t) ==
    /\ request[t].op \in {"confirm", "verify"} /\ request[t].ok
    /\ LET h == request[t]
       IN  \/ /\ Stale(h)
              /\ UNCHANGED <<row, tokens, confirmed, overlapped>>
           \/ /\ ~Stale(h)
              /\ row' = Merged(h)
              /\ confirmed' = IF h.op = "confirm" THEN confirmed \cup {h.secret}
                              ELSE confirmed
              /\ overlapped' = (overlapped \/ (h.op = "confirm" /\ Overlaps(h)))
              /\ tokens' = tokens \cup {"full"}
    /\ Ends(t)
    /\ UNCHANGED <<binding, issued, bound, late>>

\* update_principal commits.
Updates(t) ==
    /\ request[t].op \in {"set role", "switch", "reset mfa"}
    /\ LET h == request[t]
       IN  /\ row' = IF Stale(h) THEN row ELSE Merged(h)
           /\ overlapped' = (overlapped \/ (h.op = "reset mfa" /\ Overlaps(h)))
           /\ binding' = binding
           /\ CountLate(h)
    /\ Ends(t)
    /\ UNCHANGED <<tokens, issued, bound, confirmed>>

\* create_principal commits, unless another took the name meanwhile (IntegrityError).
Creates(t) ==
    /\ request[t].op = "create"
    /\ row' = IF row = Unborn THEN [row EXCEPT !.status = "live", !.role = request[t].gives]
              ELSE row
    /\ Ends(t)
    /\ UNCHANGED <<binding, tokens, issued, bound, confirmed, overlapped, late>>

\* Mutant: the bindings of a deleted principal stay.
DeletesRowOnly(t) ==
    /\ request[t].op = "delete"
    /\ row' = [Unborn EXCEPT !.status = "gone"]
    /\ binding' = binding
    /\ CountLate(request[t])
    /\ Ends(t)
    /\ UNCHANGED <<tokens, issued, bound, confirmed, overlapped>>

\* delete_principal commits; the bindings go with the row.  A row that is gone
\* already is no error.
Deletes(t) ==
    /\ request[t].op = "delete"
    /\ row' = [Unborn EXCEPT !.status = "gone"]
    /\ binding' = NoBinding
    /\ CountLate(request[t])
    /\ Ends(t)
    /\ UNCHANGED <<tokens, issued, bound, confirmed, overlapped>>

\* set_binding commits: an INSERT, refused if there is a binding or no principal by
\* now, or an UPDATE of the binding that was loaded, refused if that is gone.
Binds(t) ==
    /\ request[t].op = "bind"
    /\ LET h == request[t]
       IN  \/ /\ h.had = NoBinding /\ Live /\ binding = NoBinding /\ bound < MaxBindings
              /\ binding' = [id |-> bound + 1, role |-> h.gives]
              /\ bound' = bound + 1
           \/ /\ h.had # NoBinding /\ binding.id = h.had.id /\ h.gives # h.had.role
              /\ binding' = [binding EXCEPT !.role = h.gives]
              /\ UNCHANGED bound
           \/ /\ \/ h.had = NoBinding /\ (~Live \/ binding # NoBinding)
                 \/ h.had # NoBinding /\ (binding.id # h.had.id \/ h.gives = h.had.role)
              /\ UNCHANGED <<binding, bound>>
    /\ row' = row
    /\ CountLate(request[t])
    /\ Ends(t)
    /\ UNCHANGED <<tokens, issued, confirmed, overlapped>>

\* delete_binding commits: the binding that was loaded, if it is still there.
Unbinds(t) ==
    /\ request[t].op = "unbind"
    /\ binding' = IF request[t].had # NoBinding /\ binding.id = request[t].had.id
                  THEN NoBinding ELSE binding
    /\ row' = row
    /\ CountLate(request[t])
    /\ Ends(t)
    /\ UNCHANGED <<tokens, issued, bound, confirmed, overlapped>>

\* Any other route that changes something on the node.
Mutates(t) ==
    /\ request[t].op = "mutate"
    /\ row' = row /\ binding' = binding
    /\ CountLate(request[t])
    /\ Ends(t)
    /\ UNCHANGED <<tokens, issued, bound, confirmed, overlapped>>

-----------------------------------------------------------------------------
Begin(t) ==
    \/ BeginLogin(t) \/ BeginEnroll(t) \/ BeginVerify(t)
    \/ BeginUpdate(t) \/ BeginCreate(t) \/ BeginBind(t) \/ BeginOther(t)

End(t) ==
    \/ LoginSucceeds(t) \/ Enrolls(t) \/ VerifySucceeds(t)
    \/ Updates(t) \/ Creates(t) \/ Deletes(t) \/ Binds(t) \/ Unbinds(t) \/ Mutates(t)
    \/ Fails(t)

Next == \E t \in Threads : Begin(t) \/ End(t)

Spec == Init /\ [][Next]_vars

-----------------------------------------------------------------------------
(* Properties.                                                             *)

Row == [status : {"unborn", "live", "gone"}, role : Roles, disabled : BOOLEAN,
        secret : 0..MaxSecrets, mfa : BOOLEAN]

\* Types; a binding has its principal, a secret in use was generated.
TypeOK ==
    /\ row \in Row /\ row.secret <= issued
    /\ binding \in [id : 0..bound, role : Roles]
    /\ binding # NoBinding => Live
    /\ tokens \subseteq {"mfa", "enroll", "full"}
    /\ \A t \in Threads : /\ DOMAIN request[t].sets \subseteq Columns
                          /\ request[t].secret \in 0..issued
                          /\ request[t].had \in [id : 0..bound, role : Roles]
    /\ issued \in 0..MaxSecrets /\ bound \in 0..MaxBindings
    /\ confirmed \subseteq 1..issued

\* models/identity.py: "mfa_enabled flips true only after a verified code."  MFA is on
\* with a secret nobody has verified, or none, only if two requests that change
\* u's MFA (enrol, confirm, reset) overlapped.
MfaMeansConfirmed == row.mfa => row.secret \in confirmed \/ overlapped

\* A disabled, deleted or demoted principal stops at once: between two changes of its
\* rights, no more requests act without the role they need than were under way
\* at that time.
LateActsBounded == late < Cardinality(Threads)

\* Requests that overlap do not undo each other: in any step, a column of a live
\* principal changes only if the request that ends in it asked for that column.
Asked(h) ==
    CASE h.op = "set role" -> {"role"}
      [] h.op = "switch" -> {"disabled"}
      [] h.op = "confirm" -> {"mfa"}
      [] h.op \in {"enroll", "reset mfa"} -> {"secret", "mfa"}
      [] OTHER -> {}

NoLostUpdate ==
    [][\A c \in Columns : Live /\ Live' /\ row'[c] # row[c] =>
         \E t \in Threads : ~AtRest(t) /\ AtRest(t)' /\ c \in Asked(request[t])]_vars
=============================================================================
